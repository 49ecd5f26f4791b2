------------------------- MODULE OrderPaymentProofs -------------------------
(***************************************************************************)
(* What OrderPayment promises whatever the number of orders, of requests   *)
(* in progress and of losses: its types, that a recorded payment is one    *)
(* the bank took, and that it is announced unless its message was lost.    *)
(*                                                                         *)
(* The argument is about copies: a handler writes back the row it read, so *)
(* what is true of every row has to be true of every copy that is still to *)
(* be written. CopyInv says so, and that stays true while the rows move on *)
(* because "paid at the bank" is never undone: BillInv keeps a second bill *)
(* from being opened for an order that is paid.                            *)
(***************************************************************************)
EXTENDS MCOrderPayment, FiniteSetTheorems, TLAPS

\* Steps of a handler that holds a copy of its order's row.
Holding == Steps \ {"idle", "read"}

\* What is true of a row, or a copy of it, with columns r.
TrueRow(o, r) ==
    /\ r.payment = "paid" => BankHeld(o) /\ r.method = "ppcbank"
    /\ r.invoiced => r.payment = "paid"

RowOK(o) ==
    /\ TrueRow(o, rows[o])
    /\ o \notin placed => rows[o].payment = "unpaid" /\ alerts[o] = 0
    /\ alerts[o] > 0 => BankHeld(o) /\ rows[o].method = "ppcbank"

CopyOK(w) ==
    task[w].step \in Holding =>
        /\ task[w].order \in placed
        /\ task[w].copy.method = rows[task[w].order].method
        /\ TrueRow(task[w].order, task[w].copy)
        /\ task[w].step \in {"ask", "save", "notify"}
              => task[w].copy.method = "ppcbank"
        /\ task[w].step = "save" /\ task[w].paid
              => BankHeld(task[w].order)
        /\ task[w].step = "notify" => BankHeld(task[w].order)

RowInv == \A o \in OrderIds : RowOK(o)

CopyInv == \A w \in Workers : CopyOK(w)

\* The handler that is going to ask the bank for a bill.
Opening(w) == task[w].step \in {"setref", "generate"}

\* A bill is asked for once, by one handler, for a bill the bank does not
\* have yet: a paid bill is never opened again.
BillInv ==
    /\ \A o \in OrderIds : o \notin placed => bank[o] = "none"
    /\ \A w \in Workers : Opening(w) => bank[task[w].order] = "none"
    /\ \A v, w \in Workers :
          Opening(v) /\ Opening(w) /\ task[v].order = task[w].order => v = w

IInv == TypeOK /\ RowInv /\ CopyInv /\ BillInv

-----------------------------------------------------------------------------

\* Every variable keeps its type.
THEOREM TypeCorrect == Spec => []TypeOK
<1>1. Init => TypeOK
  BY OrderAssumption DEF Init, TypeOK, Idle, NewRow, Row, Task, Methods,
     Payments, BillStates, Steps
<1>2. TypeOK /\ [Next]_vars => TypeOK'
  <2> SUFFICES ASSUME TypeOK, [Next]_vars PROVE TypeOK'
    OBVIOUS
  <2>1. Idle \in Task
    BY OrderAssumption DEF Idle, NewRow, Row, Task, Methods, Payments, Steps
  <2>2. \A m \in Methods, r \in BOOLEAN : NewRow(m, r) \in Row
    BY OrderAssumption DEF NewRow, Row, Payments
  <2>3. \A w \in Workers, t \in Task : Goto(w, t) => task' \in [Workers -> Task]
    BY DEF TypeOK, Goto
  <2>4. \A w \in Workers : Finish(w) => task' \in [Workers -> Task]
    BY <2>1, <2>3 DEF Finish
  <2>5. \A o \in OrderIds, r \in Row : Save(o, r) => rows' \in [OrderIds -> Row]
    BY DEF TypeOK, Save
  <2>6. \A w \in Workers : task[w] \in Task /\ task[w].copy \in Row
    BY DEF TypeOK, Task
  <2> USE <2>1, <2>2, <2>3, <2>4, <2>5, <2>6
  <2>7. ASSUME NEW w \in Workers, NEW o \in OrderIds, Checkout(w, o)
        PROVE  TypeOK'
    <3>1. CASE CashCheckout(w, o)
      BY <3>1 DEF TypeOK, CashCheckout, Methods
    <3>2. CASE InitiateCreate(w, o)
      <4>1. [Idle EXCEPT !.step = "setref", !.order = o,
                         !.copy = NewRow("ppcbank", FALSE)] \in Task
        BY DEF Task, Steps, Methods
      <4>2. QED
        BY <3>2, <4>1 DEF TypeOK, InitiateCreate, Methods
    <3>3. CASE InitiateSetRef(w, o)
      <4>1. [task[w].copy EXCEPT !.hasRef = TRUE] \in Row
        BY DEF Row
      <4>2. [task[w] EXCEPT !.step = "generate"] \in Task
        BY DEF Task, Steps
      <4>3. QED
        BY <3>3, <4>1, <4>2 DEF TypeOK, InitiateSetRef
    <3>4. CASE InitiateGenerate(w, o)
      <4>1. [task[w] EXCEPT !.step = "respond"] \in Task
        BY DEF Task, Steps
      <4>2. QED
        BY <3>4, <4>1 DEF TypeOK, InitiateGenerate, BillStates
    <3>5. CASE InitiateRespond(w, o)
      BY <3>5 DEF TypeOK, InitiateRespond
    <3>6. QED
      BY <2>7, <3>1, <3>2, <3>3, <3>4, <3>5 DEF Checkout
  <2>8. ASSUME NEW w \in Workers, NEW o \in OrderIds, Verify(w, o)
        PROVE  TypeOK'
    <3>1. StartVerify(w, o) => task' \in [Workers -> Task]
      <4>1. [Idle EXCEPT !.step = "read", !.order = o] \in Task
        BY DEF Task, Steps
      <4>2. QED
        BY <4>1 DEF StartVerify
    <3>2. CASE WebhookNotify(w, o) \/ ReturnStatus(w, o) \/ AdminVerify(w, o)
      BY <3>1, <3>2 DEF TypeOK, WebhookNotify, ReturnStatus, AdminVerify
    <3>3. CASE VerifyRead(w, o)
      <4>1. [task[w] EXCEPT !.step = "ask", !.copy = rows[o]] \in Task
        BY DEF TypeOK, Task, Steps
      <4>2. QED
        BY <3>3, <4>1 DEF TypeOK, VerifyRead
    <3>4. CASE VerifyAsk(w, o)
      <4>1. [task[w] EXCEPT !.step = "save", !.paid = (bank[o] = "paid"),
               !.already = (task[w].copy.payment = "paid")] \in Task
        BY DEF Task, Steps
      <4>2. QED
        BY <3>4, <4>1 DEF TypeOK, VerifyAsk
    <3>5. ASSUME NEW r \in Verified(task[w])
          PROVE  r \in Row
      <4>1. \A i \in BOOLEAN :
               [task[w].copy EXCEPT !.payment = "paid", !.invoiced = i] \in Row
        BY DEF Row, Payments
      <4>2. task[w].copy.invoiced \in BOOLEAN
        BY DEF Row
      <4>3. QED
        BY <4>1, <4>2 DEF Verified
    <3>6. CASE VerifySave(w, o)
      <4>1. [task[w] EXCEPT !.step = "notify"] \in Task
        BY DEF Task, Steps
      <4>2. QED
        BY <3>5, <3>6, <4>1 DEF TypeOK, VerifySave
    <3>7. CASE VerifySaveUnanswered(w, o)
      BY <3>5, <3>7, OrderAssumption DEF TypeOK, VerifySaveUnanswered
    <3>8. CASE VerifyNotify(w, o)
      BY <3>8 DEF TypeOK, VerifyNotify
    <3>9. CASE VerifyFail(w, o)
      BY <3>9 DEF TypeOK, VerifyFail
    <3>10. QED
      BY <2>8, <3>2, <3>3, <3>4, <3>6, <3>7, <3>8, <3>9 DEF Verify
  <2>9. ASSUME NEW w \in Workers, NEW o \in OrderIds, UpdateStatus(w, o)
        PROVE  TypeOK'
    <3>1. ASSUME NEW s \in Statuses, StatusRead(w, o, s)
          PROVE  TypeOK'
      <4>1. [Idle EXCEPT !.step = "savestatus", !.order = o,
                         !.copy = rows[o], !.status = s] \in Task
        BY DEF TypeOK, Task, Steps
      <4>2. QED
        BY <3>1, <4>1 DEF TypeOK, StatusRead
    <3>2. CASE StatusSave(w, o)
      <4>1. [task[w].copy EXCEPT !.status = task[w].status] \in Row
        BY DEF Row, Task
      <4>2. QED
        BY <3>2, <4>1 DEF TypeOK, StatusSave
    <3>3. QED
      BY <2>9, <3>1, <3>2 DEF UpdateStatus
  <2>10. ASSUME NEW o \in OrderIds, Pay(o) \/ Expire(o) \/ Refund(o)
         PROVE  TypeOK'
    BY <2>10 DEF TypeOK, Pay, Expire, Refund, BillStates
  <2>11. ASSUME Crash
         PROVE  TypeOK'
    BY <2>11, OrderAssumption DEF TypeOK, Crash
  <2>12. ASSUME UNCHANGED vars
         PROVE  TypeOK'
    BY <2>12 DEF TypeOK, vars
  <2>13. QED
    BY <2>7, <2>8, <2>9, <2>10, <2>11, <2>12 DEF Next
<1>3. QED
  BY <1>1, <1>2, PTL DEF Spec
-----------------------------------------------------------------------------

\* What no step undoes: an order's existence, its payment method, and the
\* bank's record of its payment.
Kept ==
    /\ placed \subseteq placed'
    /\ \A o \in placed : rows'[o].method = rows[o].method
    /\ \A o \in OrderIds : BankHeld(o) => BankHeld(o)'

\* A row nobody touches stays true.
LEMMA RowFrame ==
  ASSUME TypeOK, Kept, NEW o \in OrderIds, RowOK(o),
         rows'[o] = rows[o], alerts'[o] = alerts[o]
  PROVE  RowOK(o)'
BY DEF TypeOK, Kept, RowOK, TrueRow, BankHeld

\* A handler that does not move keeps a true copy.
LEMMA CopyFrame ==
  ASSUME TypeOK, Kept, NEW w \in Workers, CopyOK(w), task'[w] = task[w]
  PROVE  CopyOK(w)'
BY DEF TypeOK, Kept, CopyOK, TrueRow, Holding, BankHeld

\* A handler without a copy has nothing to keep true.
LEMMA NoCopy ==
  ASSUME NEW w \in Workers, task'[w].step \in {"idle", "read"}
  PROVE  CopyOK(w)'
BY DEF CopyOK, Holding
-----------------------------------------------------------------------------

\* Each kind of step keeps true rows and true copies. In every case the rows
\* and copies that are not written are covered by the frames above.

\* The steps of a checkout keep rows and copies true.
LEMMA CheckoutKeepsIInv ==
  ASSUME IInv, NEW w \in Workers, NEW o \in OrderIds, Checkout(w, o)
  PROVE  Kept /\ RowInv' /\ CopyInv'
<1> USE DEF IInv, RowInv, CopyInv, BankHeld
<1>1. \A v \in Workers : v # w => task'[v] = task[v]
  BY DEF TypeOK, Checkout, CashCheckout, InitiateCreate, InitiateSetRef,
     InitiateGenerate, InitiateRespond, Goto, Finish
<1>2. /\ \A p \in OrderIds : p # o => rows'[p] = rows[p]
      /\ alerts' = alerts
  BY DEF TypeOK, Checkout, CashCheckout, InitiateCreate, InitiateSetRef,
     InitiateGenerate, InitiateRespond, Save
<1>3. Kept /\ RowOK(o)' /\ CopyOK(w)'
  <2>1. CASE CashCheckout(w, o)
    BY <2>1 DEF TypeOK, CashCheckout, Kept, RowOK, TrueRow, CopyOK, NewRow,
       Holding
  <2>2. CASE InitiateCreate(w, o)
    BY <2>2 DEF TypeOK, InitiateCreate, Save, Goto, Idle, Kept, RowOK,
       TrueRow, CopyOK, NewRow, Holding
  <2>3. CASE InitiateSetRef(w, o)
    <3>1. CopyOK(w) /\ task[w].order = o /\ task[w].step = "setref"
      BY <2>3 DEF InitiateSetRef, At
    <3>2. task[w].copy \in Row
      BY DEF TypeOK, Task
    <3> DEFINE r == [task[w].copy EXCEPT !.hasRef = TRUE]
    <3>3. /\ r.method = task[w].copy.method
          /\ r.payment = task[w].copy.payment
          /\ r.invoiced = task[w].copy.invoiced
      BY <3>2 DEF Row
    <3>4. task'[w] = Idle \/ task'[w] = [task[w] EXCEPT !.step = "generate"]
      BY <2>3 DEF TypeOK, InitiateSetRef, Goto, Finish
    <3>5. rows'[o] = rows[o] \/ rows'[o] = r
      BY <2>3 DEF TypeOK, InitiateSetRef, Save
    <3>6. placed' = placed /\ bank' = bank
      BY <2>3 DEF InitiateSetRef
    <3>10. /\ o \in placed
           /\ task[w].copy.method = rows[o].method
           /\ TrueRow(o, task[w].copy)
      BY <3>1 DEF CopyOK, Holding, Steps
    <3>11. Kept
      BY <1>2, <3>3, <3>5, <3>6, <3>10 DEF TypeOK, Kept
    <3>12. RowOK(o)'
      BY <1>2, <3>3, <3>5, <3>6, <3>10 DEF RowOK, TrueRow
    <3>7. Kept /\ RowOK(o)'
      BY <3>11, <3>12
    <3>8. CopyOK(w)'
      BY <3>1, <3>4, <3>6, <3>7
         DEF TypeOK, Task, Kept, TrueRow, CopyOK, Holding, Steps, Idle
    <3>9. QED
      BY <3>7, <3>8
  <2>4. CASE InitiateGenerate(w, o)
    <3>1. CopyOK(w) /\ task[w].order = o /\ task[w].step = "generate"
      BY <2>4 DEF InitiateGenerate, At
    <3>2. task'[w] = Idle \/ task'[w] = [task[w] EXCEPT !.step = "respond"]
      BY <2>4 DEF TypeOK, InitiateGenerate, Goto, Finish
    <3>3. rows' = rows /\ placed' = placed /\ alerts' = alerts
      BY <2>4 DEF InitiateGenerate
    <3>4. bank' = bank \/ bank' = [bank EXCEPT ![o] = "open"]
      BY <2>4 DEF InitiateGenerate
    <3>5. bank[o] = "none" /\ o \in placed /\ task[w].copy.method = rows[o].method
      BY <2>4, <3>1 DEF InitiateGenerate, BillInv, Opening, CopyOK, Holding, Steps
    <3>6. Kept
      BY <3>3, <3>4, <3>5 DEF TypeOK, Kept
    <3>7. RowOK(o)'
      BY <3>3, <3>5, <3>6 DEF TypeOK, Kept, RowOK, TrueRow
    <3>8. CopyOK(w)'
      BY <3>1, <3>2, <3>3, <3>5, <3>6
         DEF TypeOK, Task, Kept, TrueRow, CopyOK, Holding, Steps, Idle
    <3>9. QED
      BY <3>6, <3>7, <3>8
  <2>5. CASE InitiateRespond(w, o)
    BY <2>5 DEF TypeOK, InitiateRespond, Goto, Finish, Idle, Kept, RowOK,
       TrueRow, CopyOK, Holding
  <2>6. QED
    BY <2>1, <2>2, <2>3, <2>4, <2>5 DEF Checkout
<1>4. QED
  BY <1>1, <1>2, <1>3, RowFrame, CopyFrame

\* A verification (webhook, return page, admin) records and announces only
\* what the bank answered, and its copy stays true while it waits.
LEMMA VerifyKeepsIInv ==
  ASSUME IInv, NEW w \in Workers, NEW o \in OrderIds, Verify(w, o)
  PROVE  Kept /\ RowInv' /\ CopyInv'
<1> USE DEF IInv, RowInv, CopyInv, BankHeld
<1>1. \A v \in Workers : v # w => task'[v] = task[v]
  BY DEF TypeOK, Verify, WebhookNotify, ReturnStatus, AdminVerify, VerifyRead,
     VerifyAsk, VerifySave, VerifySaveUnanswered, VerifyNotify, VerifyFail,
     StartVerify, Goto, Finish
<1>2. placed' = placed /\ bank' = bank
  BY DEF Verify, WebhookNotify, ReturnStatus, AdminVerify, VerifyRead,
     VerifyAsk, VerifySave, VerifySaveUnanswered, VerifyNotify, VerifyFail
<1>3. CASE rows' = rows /\ alerts' = alerts /\ CopyOK(w)'
  BY <1>1, <1>2, <1>3, RowFrame, CopyFrame DEF Kept
<1>4. CASE WebhookNotify(w, o) \/ ReturnStatus(w, o) \/ AdminVerify(w, o)
  BY <1>3, <1>4, NoCopy DEF TypeOK, WebhookNotify, ReturnStatus, AdminVerify,
     StartVerify, Goto, Idle
<1>5. CASE VerifyFail(w, o)
  BY <1>3, <1>5, NoCopy DEF TypeOK, VerifyFail, Finish, Goto, Idle
<1>6. CASE VerifyRead(w, o)
  <2>1. CASE Verifiable(o)
    <3>1. /\ task'[w].step = "ask"
          /\ task'[w].order = o
          /\ task'[w].copy = rows[o]
      BY <1>6, <2>1 DEF TypeOK, Task, VerifyRead, Goto, At
    <3>2. CopyOK(w)'
      BY <1>2, <1>6, <2>1, <3>1
         DEF CopyOK, RowOK, TrueRow, Verifiable, VerifyRead
    <3>3. QED
      BY <1>3, <1>6, <3>2 DEF VerifyRead
  <2>2. CASE ~Verifiable(o)
    BY <1>3, <1>6, <2>2, NoCopy DEF TypeOK, VerifyRead, Finish, Goto, Idle
  <2>3. QED
    BY <2>1, <2>2
<1>7. CASE VerifyAsk(w, o)
  <2>1. CopyOK(w) /\ task[w].order = o /\ task[w].step = "ask"
    BY <1>7 DEF VerifyAsk, At
  <2>2. /\ task'[w].step = "save"
        /\ task'[w].order = o
        /\ task'[w].copy = task[w].copy
        /\ task'[w].paid = (bank[o] = "paid")
    BY <1>7, <2>1 DEF TypeOK, Task, VerifyAsk, Goto
  <2>3. CopyOK(w)'
    BY <1>2, <1>7, <2>1, <2>2 DEF CopyOK, TrueRow, Holding, Steps, VerifyAsk
  <2>4. QED
    BY <1>3, <1>7, <2>3 DEF VerifyAsk
<1>8. CASE VerifyNotify(w, o)
  <2>1. CopyOK(w) /\ task[w].order = o /\ task[w].step = "notify"
    BY <1>8 DEF VerifyNotify, At
  <2>2. o \in placed /\ BankHeld(o) /\ rows[o].method = "ppcbank"
    BY <2>1 DEF CopyOK, Holding, Steps
  <2>3. rows' = rows /\ \A p \in OrderIds : p # o => alerts'[p] = alerts[p]
    BY <1>8 DEF TypeOK, VerifyNotify
  <2>4. Kept
    BY <1>2, <2>3 DEF Kept
  <2>5. RowOK(o)'
    BY <1>2, <2>2, <2>3 DEF RowOK, TrueRow
  <2>6. CopyOK(w)'
    BY <1>8, NoCopy DEF TypeOK, VerifyNotify, Finish, Goto, Idle
  <2>7. QED
    BY <1>1, <2>3, <2>4, <2>5, <2>6, RowFrame, CopyFrame
<1>9. CASE VerifySave(w, o) \/ VerifySaveUnanswered(w, o)
  <2>1. CopyOK(w) /\ task[w].order = o /\ task[w].step = "save"
    BY <1>9 DEF VerifySave, VerifySaveUnanswered, At
  <2>2. /\ o \in placed
        /\ task[w].copy.method = "ppcbank"
        /\ rows[o].method = "ppcbank"
        /\ TrueRow(o, task[w].copy)
        /\ task[w].paid => BankHeld(o)
    BY <2>1 DEF CopyOK, Holding, Steps
  <2>3. PICK r \in Verified(task[w]) : Save(o, r)
    BY <1>9 DEF VerifySave, VerifySaveUnanswered
  <2>4. /\ r.method = "ppcbank"
        /\ TrueRow(o, r)
    BY <2>2, <2>3 DEF TypeOK, Task, Row, Verified, TrueRow
  <2>5. /\ rows'[o] = r
        /\ \A p \in OrderIds : p # o => rows'[p] = rows[p]
        /\ alerts' = alerts
    BY <1>9, <2>3 DEF TypeOK, Save, VerifySave, VerifySaveUnanswered
  <2>6. Kept
    BY <1>2, <2>2, <2>4, <2>5 DEF TypeOK, Kept
  <2>7. RowOK(o)'
    BY <1>2, <2>2, <2>4, <2>5 DEF RowOK, TrueRow
  <2>8. CopyOK(w)'
    <3>1. CASE task'[w] = Idle
      BY <3>1, NoCopy DEF Idle
    <3>2. CASE /\ VerifySave(w, o)
               /\ FirstSeenPaid(task[w])
               /\ task'[w] = [task[w] EXCEPT !.step = "notify"]
      <4>1. /\ task'[w].step = "notify"
            /\ task'[w].order = o
            /\ task'[w].copy = task[w].copy
        BY <2>1, <3>2 DEF TypeOK, Task
      <4>2. task[w].paid
        BY <3>2 DEF FirstSeenPaid
      <4>3. QED
        BY <1>2, <2>2, <2>4, <2>5, <4>1, <4>2 DEF CopyOK, TrueRow
    <3>3. QED
      BY <1>9, <3>1, <3>2
         DEF TypeOK, VerifySave, VerifySaveUnanswered, Goto, Finish
  <2>9. QED
    BY <1>1, <2>5, <2>6, <2>7, <2>8, RowFrame, CopyFrame
<1>10. QED
  BY <1>4, <1>5, <1>6, <1>7, <1>8, <1>9 DEF Verify

\* A status change writes back a copy that is no newer than the bank.
LEMMA StatusKeepsIInv ==
  ASSUME IInv, NEW w \in Workers, NEW o \in OrderIds, UpdateStatus(w, o)
  PROVE  Kept /\ RowInv' /\ CopyInv'
<1> USE DEF IInv, RowInv, CopyInv, BankHeld
<1>1. /\ \A v \in Workers : v # w => task'[v] = task[v]
      /\ placed' = placed /\ bank' = bank /\ alerts' = alerts
  BY DEF TypeOK, UpdateStatus, StatusRead, StatusSave, Goto, Finish
<1>2. ASSUME NEW s \in Statuses, StatusRead(w, o, s)
      PROVE  Kept /\ RowInv' /\ CopyInv'
  <2>1. rows' = rows /\ o \in placed
    BY <1>2 DEF StatusRead
  <2>2. /\ task'[w].step = "savestatus"
        /\ task'[w].order = o
        /\ task'[w].copy = rows[o]
    BY <1>2 DEF TypeOK, StatusRead, Goto, Idle
  <2>3. CopyOK(w)'
    BY <1>1, <2>1, <2>2 DEF CopyOK, RowOK, TrueRow
  <2>4. QED
    BY <1>1, <2>1, <2>3, RowFrame, CopyFrame DEF Kept
<1>3. CASE StatusSave(w, o)
  <2>1. CopyOK(w) /\ task[w].order = o /\ task[w].step = "savestatus"
    BY <1>3 DEF StatusSave, At
  <2>2. /\ o \in placed
        /\ task[w].copy.method = rows[o].method
        /\ TrueRow(o, task[w].copy)
    BY <2>1 DEF CopyOK, Holding, Steps
  <2> DEFINE r == [task[w].copy EXCEPT !.status = task[w].status]
  <2>3. r.method = rows[o].method /\ TrueRow(o, r)
    BY <2>2 DEF TypeOK, Task, Row, TrueRow
  <2>4. /\ rows'[o] = r \/ rows'[o] = rows[o]
        /\ \A p \in OrderIds : p # o => rows'[p] = rows[p]
    BY <1>3 DEF TypeOK, StatusSave, Save
  <2> HIDE DEF r
  <2>5. Kept
    BY <1>1, <2>3, <2>4 DEF TypeOK, Kept
  <2>6. RowOK(o)'
    BY <1>1, <2>2, <2>3, <2>4 DEF RowOK, TrueRow
  <2>7. CopyOK(w)'
    BY <1>3, NoCopy DEF TypeOK, StatusSave, Finish, Goto, Idle
  <2>8. QED
    BY <1>1, <2>4, <2>5, <2>6, <2>7, RowFrame, CopyFrame
<1>4. QED
  BY <1>2, <1>3 DEF UpdateStatus

\* The customer's payment, what the bank does to a bill, and a restart.
LEMMA OutsideKeepsIInv ==
  ASSUME IInv, Crash \/ \E o \in OrderIds : Pay(o) \/ Expire(o) \/ Refund(o)
  PROVE  Kept /\ RowInv' /\ CopyInv'
<1> USE DEF IInv, RowInv, CopyInv, BankHeld
<1>1. rows' = rows /\ placed' = placed /\ alerts' = alerts
  BY DEF Crash, Pay, Expire, Refund
<1>2. Kept
  BY <1>1 DEF TypeOK, Kept, Crash, Pay, Expire, Refund
<1>3. \A o \in OrderIds : RowOK(o)'
  BY <1>1, <1>2, RowFrame
<1>4. CASE Crash
  BY <1>2, <1>3, <1>4, NoCopy DEF Crash, Idle
<1>5. CASE \E o \in OrderIds : Pay(o) \/ Expire(o) \/ Refund(o)
  BY <1>2, <1>3, <1>5, CopyFrame DEF Pay, Expire, Refund
<1>6. QED
  BY <1>4, <1>5

\* What the customer and the bank do never takes a paid bill back.
LEMMA BillsKept ==
  ASSUME IInv, [Next]_vars
  PROVE  BillInv'
<1> USE DEF IInv
<1>1. ASSUME NEW w \in Workers, NEW o \in OrderIds, InitiateCreate(w, o)
      PROVE  BillInv'
  <2>1. \A v \in Workers : Opening(v) => task[v].order # o
    BY <1>1 DEF InitiateCreate, CopyInv, CopyOK, Holding, Steps, Opening
  <2>2. /\ task'[w].step = "setref" /\ task'[w].order = o
        /\ \A v \in Workers : v # w => task'[v] = task[v]
    BY <1>1 DEF TypeOK, InitiateCreate, Goto, Idle
  <2>3. bank' = bank /\ bank[o] = "none" /\ placed' = placed \cup {o}
    BY <1>1 DEF InitiateCreate, BillInv
  <2>4. QED
    BY <2>1, <2>2, <2>3 DEF BillInv, Opening
<1>2. ASSUME NEW w \in Workers, NEW o \in OrderIds, InitiateSetRef(w, o)
      PROVE  BillInv'
  <2>1. /\ placed' = placed /\ bank' = bank
        /\ \A v \in Workers : v # w => task'[v] = task[v]
        /\ Opening(w)
    BY <1>2 DEF TypeOK, InitiateSetRef, Goto, Finish, Opening, At
  <2>2. \/ task'[w].step = "idle"
        \/ task'[w].step = "generate" /\ task'[w].order = task[w].order
    <3>1. task'[w] = Idle \/ task'[w] = [task[w] EXCEPT !.step = "generate"]
      BY <1>2 DEF TypeOK, InitiateSetRef, Goto, Finish
    <3>2. QED
      BY <3>1 DEF TypeOK, Task, Idle
  <2>3. QED
    BY <2>1, <2>2 DEF BillInv, Opening
<1>3. ASSUME NEW w \in Workers, NEW o \in OrderIds, InitiateGenerate(w, o)
      PROVE  BillInv'
  <2>1. /\ placed' = placed /\ o \in placed
        /\ \A v \in Workers : v # w => task'[v] = task[v]
        /\ Opening(w) /\ task[w].order = o
    BY <1>3 DEF TypeOK, InitiateGenerate, Goto, Finish, Opening, At, CopyInv,
       CopyOK, Holding, Steps
  <2>2. task'[w].step \in {"idle", "respond"}
    <3>1. task'[w] = Idle \/ task'[w] = [task[w] EXCEPT !.step = "respond"]
      BY <1>3 DEF TypeOK, InitiateGenerate, Goto, Finish
    <3>2. QED
      BY <3>1 DEF TypeOK, Task, Idle
  <2>3. \A p \in OrderIds : p # o => bank'[p] = bank[p]
    BY <1>3 DEF TypeOK, InitiateGenerate
  <2>4. \A v \in Workers : Opening(v)' =>
           v # w /\ Opening(v) /\ task'[v].order = task[v].order
                 /\ task[v].order # o /\ task[v].order \in OrderIds
    BY <2>1, <2>2 DEF Opening, BillInv, CopyInv, CopyOK, Holding, Steps, TypeOK
  <2>5. QED
    BY <2>1, <2>3, <2>4 DEF BillInv
<1>4. ASSUME NEW o \in OrderIds, Pay(o) \/ Expire(o) \/ Refund(o)
      PROVE  BillInv'
  <2>1. /\ bank[o] # "none" /\ placed' = placed /\ task' = task
        /\ \A p \in OrderIds : p # o => bank'[p] = bank[p]
    BY <1>4 DEF TypeOK, Pay, Expire, Refund
  <2>2. \A v \in Workers : Opening(v) => task[v].order \in OrderIds
    BY DEF Opening, CopyInv, CopyOK, Holding, Steps, TypeOK
  <2>3. QED
    BY <2>1, <2>2 DEF BillInv, Opening
<1>5. CASE Crash
  BY <1>5 DEF Crash, BillInv, Opening, Idle
<1>6. ASSUME NEW w \in Workers,
             /\ bank' = bank /\ placed \subseteq placed'
             /\ \A v \in Workers : v # w => task'[v] = task[v]
             /\ task'[w] = task[w] \/ ~Opening(w)'
      PROVE  BillInv'
  BY <1>6 DEF BillInv, Opening
<1>7. ASSUME NEW w \in Workers, NEW o \in OrderIds,
             CashCheckout(w, o) \/ InitiateRespond(w, o)
      PROVE  BillInv'
  <2>1. /\ bank' = bank /\ placed \subseteq placed'
        /\ \A v \in Workers : v # w => task'[v] = task[v]
        /\ task'[w] = task[w] \/ task'[w] = Idle
    BY <1>7 DEF TypeOK, CashCheckout, InitiateRespond, Finish, Goto
  <2>2. QED
    BY <1>6, <2>1 DEF Opening, Idle
<1>8. ASSUME NEW w \in Workers, NEW o \in OrderIds, Verify(w, o)
      PROVE  BillInv'
  <2>1. /\ bank' = bank /\ placed' = placed
        /\ \A v \in Workers : v # w => task'[v] = task[v]
    BY <1>8 DEF TypeOK, Verify, WebhookNotify, ReturnStatus, AdminVerify,
       VerifyRead, VerifyAsk, VerifySave, VerifySaveUnanswered, VerifyNotify,
       VerifyFail, StartVerify, Goto, Finish
  <2>2. task'[w].step \in {"idle", "read", "ask", "save", "notify"}
    <3>1. \/ task'[w] = Idle
          \/ task'[w] = [Idle EXCEPT !.step = "read", !.order = o]
          \/ task'[w] = [task[w] EXCEPT !.step = "ask", !.copy = rows[o]]
          \/ task'[w] = [task[w] EXCEPT !.step = "notify"]
          \/ task'[w] = [task[w] EXCEPT !.step = "save",
                           !.paid = (bank[o] = "paid"),
                           !.already = (task[w].copy.payment = "paid")]
      BY <1>8 DEF TypeOK, Verify, WebhookNotify, ReturnStatus, AdminVerify,
         VerifyRead, VerifyAsk, VerifySave, VerifySaveUnanswered,
         VerifyNotify, VerifyFail, StartVerify, Goto, Finish
    <3>2. /\ Idle.step = "idle"
          /\ [Idle EXCEPT !.step = "read", !.order = o].step = "read"
      BY DEF Idle
    <3>3. task[w] \in Task
      BY DEF TypeOK
    <3>4. /\ [task[w] EXCEPT !.step = "ask", !.copy = rows[o]].step = "ask"
          /\ [task[w] EXCEPT !.step = "notify"].step = "notify"
          /\ [task[w] EXCEPT !.step = "save", !.paid = (bank[o] = "paid"),
                !.already = (task[w].copy.payment = "paid")].step = "save"
      BY <3>3 DEF Task
    <3>5. QED
      BY <3>1, <3>2, <3>4
  <2>3. QED
    BY <1>6, <2>1, <2>2 DEF Opening
<1>9. ASSUME NEW w \in Workers, NEW o \in OrderIds, UpdateStatus(w, o)
      PROVE  BillInv'
  <2>1. /\ bank' = bank /\ placed' = placed
        /\ \A v \in Workers : v # w => task'[v] = task[v]
        /\ \/ task'[w] = Idle
           \/ \E s \in Statuses :
                 task'[w] = [Idle EXCEPT !.step = "savestatus", !.order = o,
                                         !.copy = rows[o], !.status = s]
    BY <1>9 DEF TypeOK, UpdateStatus, StatusRead, StatusSave, Goto, Finish
  <2>2. task'[w].step \in {"idle", "savestatus"}
    <3>1. Idle.step = "idle"
      BY DEF Idle
    <3>2. \A s \in Statuses :
             [Idle EXCEPT !.step = "savestatus", !.order = o,
                          !.copy = rows[o], !.status = s].step = "savestatus"
      BY DEF Idle
    <3>3. QED
      BY <2>1, <3>1, <3>2, Zenon
  <2>3. QED
    BY <1>6, <2>1, <2>2 DEF Opening
<1>10. CASE UNCHANGED vars
  BY <1>10 DEF vars, BillInv, Opening
<1>11. QED
  BY <1>1, <1>2, <1>3, <1>4, <1>5, <1>7, <1>8, <1>9, <1>10 DEF Next, Checkout

LEMMA IsInductive == Spec => []IInv
<1>1. Init => IInv
  <2> SUFFICES ASSUME Init PROVE IInv
    OBVIOUS
  <2>1. TypeOK
    BY OrderAssumption DEF Init, TypeOK, Idle, NewRow, Row, Task, Methods,
       Payments, BillStates, Steps
  <2>2. RowInv /\ CopyInv /\ BillInv
    BY DEF Init, RowInv, RowOK, TrueRow, CopyInv, CopyOK, BillInv, Opening,
       NewRow, Idle, Holding
  <2>3. QED
    BY <2>1, <2>2 DEF IInv
<1>2. TypeOK' /\ IInv /\ [Next]_vars => IInv'
  <2> SUFFICES ASSUME IInv, [Next]_vars PROVE RowInv' /\ CopyInv' /\ BillInv'
    BY DEF IInv
  <2>1. CASE UNCHANGED vars
    BY <2>1 DEF IInv, vars, RowInv, RowOK, TrueRow, CopyInv, CopyOK, BillInv,
       Opening, BankHeld
  <2>2. QED
    BY <2>1, BillsKept, CheckoutKeepsIInv, VerifyKeepsIInv, StatusKeepsIInv,
       OutsideKeepsIInv DEF Next
<1>3. QED
  BY <1>1, <1>2, TypeCorrect, PTL DEF Spec

\* A payment recorded by the shop is a payment the bank took, an invoice
\* number is recorded only with a payment, and staff are alerted only of
\* true payments, for any number of overlapping handlers.
THEOREM PaymentsAreTrue == Spec => []RecordsAreTrue
<1>1. IInv => RecordsAreTrue
  BY DEF IInv, RowInv, RowOK, TrueRow, RecordsAreTrue, PaidAtBank,
     InvoiceOnlyIfPaid, AlertsAreTrue
<1>2. QED
  BY <1>1, IsInductive, PTL

-----------------------------------------------------------------------------
(* A recorded payment is announced. The handler that saves "paid" announces *)
(* it unless it had read "paid": so what a copy says is recorded has to be  *)
(* announced already, or about to be. CopyAnnounced says so of every copy,  *)
(* and Announced is never undone.                                           *)

Announced(o) == alerts[o] > 0 \/ AlertComing(o) \/ o \in missed

RowAnnounced == \A o \in OrderIds : rows[o].payment = "paid" => Announced(o)

CopySeen(w) ==
    /\ task[w].step \in Holding /\ task[w].copy.payment = "paid"
          => Announced(task[w].order)
    /\ task[w].step = "save" /\ task[w].already => task[w].copy.payment = "paid"

CopyAnnounced == \A w \in Workers : CopySeen(w)

AnnounceInv == IInv /\ RowAnnounced /\ CopyAnnounced

\* A handler that leaves "notify" has sent its alert.
LEMMA AnnouncedStays ==
  ASSUME IInv, [Next]_vars, NEW o \in OrderIds, Announced(o)
  PROVE  Announced(o)'
<1> USE DEF IInv, Announced, AlertComing, At
<1>1. /\ alerts \in [OrderIds -> 0..2]
      /\ task \in [Workers -> Task]
  BY DEF TypeOK
<1>2. ASSUME NEW w \in Workers, NEW p \in OrderIds, Checkout(w, p)
      PROVE  Announced(o)'
  <2>1. /\ \A v \in Workers : v # w => task'[v] = task[v]
        /\ alerts' = alerts /\ missed' = missed
    BY <1>1, <1>2 DEF Checkout, CashCheckout, InitiateCreate, InitiateSetRef,
       InitiateGenerate, InitiateRespond, Goto, Finish
  <2>2. task[w].step = "notify" => FALSE
    BY <1>2 DEF Checkout, CashCheckout, InitiateCreate, InitiateSetRef,
       InitiateGenerate, InitiateRespond
  <2>3. QED
    BY <2>1, <2>2
<1>3. ASSUME NEW w \in Workers, NEW p \in OrderIds, Verify(w, p)
      PROVE  Announced(o)'
  <2>1. \A v \in Workers : v # w => task'[v] = task[v]
    BY <1>1, <1>3 DEF Verify, WebhookNotify, ReturnStatus, AdminVerify,
       VerifyRead, VerifyAsk, VerifySave, VerifySaveUnanswered, VerifyNotify,
       VerifyFail, StartVerify, Goto, Finish
  <2>2. CASE VerifyNotify(w, p)
    <3>1. /\ alerts'[p] \in {1, 2} \/ p \in missed'
          /\ missed \subseteq missed'
          /\ \A q \in OrderIds : q # p => alerts'[q] = alerts[q]
          /\ task[w].order = p
      BY <1>1, <2>2 DEF VerifyNotify
    <3>2. CASE o = p
      BY <3>1, <3>2
    <3>3. CASE o # p
      BY <2>1, <3>1, <3>3
    <3>4. QED
      BY <3>2, <3>3
  <2>3. CASE VerifySaveUnanswered(w, p)
    <3>1. /\ alerts' = alerts /\ missed \subseteq missed'
          /\ task[w].step = "save"
      BY <2>3 DEF VerifySaveUnanswered
    <3>2. QED
      BY <2>1, <3>1
  <2>4. CASE ~VerifyNotify(w, p) /\ ~VerifySaveUnanswered(w, p)
    <3>1. alerts' = alerts /\ missed' = missed
      BY <1>3, <2>4 DEF Verify, WebhookNotify, ReturnStatus, AdminVerify,
         VerifyRead, VerifyAsk, VerifySave, VerifyFail
    <3>2. task[w].step # "notify"
      BY <1>3, <2>4 DEF Verify, WebhookNotify, ReturnStatus, AdminVerify,
         VerifyRead, VerifyAsk, VerifySave, VerifyFail
    <3>3. QED
      BY <2>1, <3>1, <3>2
  <2>5. QED
    BY <2>2, <2>3, <2>4
<1>4. ASSUME NEW w \in Workers, NEW p \in OrderIds, UpdateStatus(w, p)
      PROVE  Announced(o)'
  <2>1. /\ \A v \in Workers : v # w => task'[v] = task[v]
        /\ alerts' = alerts /\ missed' = missed /\ task[w].step # "notify"
    BY <1>1, <1>4 DEF UpdateStatus, StatusRead, StatusSave, Goto, Finish
  <2>2. QED
    BY <2>1
<1>5. ASSUME NEW p \in OrderIds, Pay(p) \/ Expire(p) \/ Refund(p)
      PROVE  Announced(o)'
  BY <1>5 DEF Pay, Expire, Refund
<1>6. CASE Crash
  <2>1. /\ alerts' = alerts
        /\ missed' = missed \cup {p \in OrderIds : AlertComing(p)}
    BY <1>6 DEF Crash
  <2>2. QED
    BY <2>1
<1>7. CASE UNCHANGED vars
  BY <1>7 DEF vars
<1>8. QED
  BY <1>2, <1>3, <1>4, <1>5, <1>6, <1>7 DEF Next

\* A step of w, for order o: rows and copies that are not written stay as
\* they were announced.
LEMMA AnnounceStep ==
  ASSUME AnnounceInv, [Next]_vars, NEW w \in Workers, NEW o \in OrderIds,
         \A v \in Workers : v # w => task'[v] = task[v],
         \A p \in OrderIds : p # o => rows'[p] = rows[p],
         rows'[o].payment = "paid" => Announced(o)',
         CopySeen(w)'
  PROVE  RowAnnounced' /\ CopyAnnounced'
<1>1. \A p \in OrderIds : Announced(p) => Announced(p)'
  BY AnnouncedStays DEF AnnounceInv
<1>2. RowAnnounced'
  <2>1. ASSUME NEW p \in OrderIds, rows'[p].payment = "paid"
        PROVE  Announced(p)'
    <3>1. CASE p = o
      BY <2>1, <3>1
    <3>2. CASE p # o
      BY <1>1, <2>1, <3>2 DEF AnnounceInv, RowAnnounced
    <3>3. QED
      BY <3>1, <3>2
  <2>2. QED
    BY <2>1 DEF RowAnnounced
<1>3. ASSUME NEW v \in Workers, v # w
      PROVE  CopySeen(v)'
  <2>1. task'[v] = task[v] /\ CopySeen(v)
    BY <1>3 DEF AnnounceInv, CopyAnnounced
  <2>2. task[v].step \in Holding => task[v].order \in OrderIds
    BY DEF AnnounceInv, IInv, CopyInv, CopyOK, TypeOK
  <2>3. task[v].step \in Holding /\ task[v].copy.payment = "paid"
          => Announced(task[v].order)'
    BY <1>1, <2>1, <2>2 DEF CopySeen
  <2>4. QED
    BY <2>1, <2>3 DEF CopySeen, Announced
<1>4. QED
  BY <1>2, <1>3 DEF CopyAnnounced

\* Handlers without a copy have nothing to be announced.
LEMMA NothingSeen ==
  ASSUME NEW w \in Workers, task'[w].step \in {"idle", "read"}
  PROVE  CopySeen(w)'
BY DEF CopySeen, Holding

\* The row a handler read, or the copy it made itself, is written back.
LEMMA CheckoutAnnounces ==
  ASSUME AnnounceInv, [Next]_vars, NEW w \in Workers, NEW o \in OrderIds,
         Checkout(w, o)
  PROVE  RowAnnounced' /\ CopyAnnounced'
<1>1. /\ \A v \in Workers : v # w => task'[v] = task[v]
      /\ \A p \in OrderIds : p # o => rows'[p] = rows[p]
  BY DEF AnnounceInv, IInv, TypeOK, Checkout, CashCheckout, InitiateCreate,
     InitiateSetRef, InitiateGenerate, InitiateRespond, Goto, Finish, Save
<1>2. /\ Announced(o) => Announced(o)'
      /\ rows[o].payment = "paid" => Announced(o)
      /\ CopySeen(w)
      /\ task[w] \in Task
  BY AnnouncedStays
     DEF AnnounceInv, RowAnnounced, CopyAnnounced, IInv, TypeOK
<1>3. CASE CashCheckout(w, o)
  <2>1. rows'[o].payment = "unpaid" /\ task' = task /\ task[w].step = "idle"
    BY <1>3 DEF AnnounceInv, IInv, TypeOK, CashCheckout, NewRow
  <2>2. QED
    BY <1>1, <2>1, AnnounceStep, NothingSeen
<1>4. CASE InitiateCreate(w, o)
  <2>1. /\ rows'[o].payment = "unpaid" /\ task'[w].copy.payment = "unpaid"
        /\ task'[w].step = "setref"
    BY <1>4 DEF AnnounceInv, IInv, TypeOK, InitiateCreate, Save, Goto, Idle,
       NewRow
  <2>2. CopySeen(w)'
    BY <2>1 DEF CopySeen
  <2>3. QED
    BY <1>1, <2>1, <2>2, AnnounceStep
<1>5. CASE InitiateSetRef(w, o)
  <2>1. /\ task[w].step = "setref" /\ task[w].order = o
        /\ rows'[o] = rows[o]
             \/ rows'[o] = [task[w].copy EXCEPT !.hasRef = TRUE]
        /\ task'[w] = Idle \/ task'[w] = [task[w] EXCEPT !.step = "generate"]
    BY <1>5 DEF AnnounceInv, IInv, TypeOK, InitiateSetRef, At, Save, Goto, Finish
  <2>2. rows'[o] = rows[o] \/ rows'[o].payment = task[w].copy.payment
    BY <1>2, <2>1 DEF Task, Row
  <2>3. \/ task'[w].step = "idle"
        \/ /\ task'[w].step = "generate" /\ task'[w].order = o
           /\ task'[w].copy = task[w].copy
    BY <1>2, <2>1 DEF Task, Idle
  <2>4. task[w].copy.payment = "paid" => Announced(o)'
    BY <1>2, <2>1 DEF CopySeen, Holding, Steps
  <2>5. CopySeen(w)'
    BY <2>3, <2>4 DEF CopySeen, Holding, Announced
  <2>6. QED
    BY <1>1, <1>2, <2>2, <2>4, <2>5, AnnounceStep
<1>6. CASE InitiateGenerate(w, o)
  <2>1. /\ task[w].step = "generate" /\ task[w].order = o /\ rows' = rows
        /\ task'[w] = Idle \/ task'[w] = [task[w] EXCEPT !.step = "respond"]
    BY <1>6 DEF AnnounceInv, IInv, TypeOK, InitiateGenerate, At, Goto, Finish
  <2>2. \/ task'[w].step = "idle"
        \/ /\ task'[w].step = "respond" /\ task'[w].order = o
           /\ task'[w].copy = task[w].copy
    BY <1>2, <2>1 DEF Task, Idle
  <2>3. task[w].copy.payment = "paid" => Announced(o)'
    BY <1>2, <2>1 DEF CopySeen, Holding, Steps
  <2>4. CopySeen(w)'
    BY <2>2, <2>3 DEF CopySeen, Holding, Announced
  <2>5. QED
    BY <1>1, <1>2, <2>1, <2>4, AnnounceStep
<1>7. CASE InitiateRespond(w, o)
  <2>1. rows' = rows /\ task'[w].step = "idle"
    BY <1>7 DEF AnnounceInv, IInv, TypeOK, InitiateRespond, Goto, Finish, Idle
  <2>2. QED
    BY <1>1, <1>2, <2>1, NothingSeen, AnnounceStep
<1>8. QED
  BY <1>3, <1>4, <1>5, <1>6, <1>7 DEF Checkout

\* A verification that saves "paid" announces it, or has read that another
\* one did.
LEMMA VerifyAnnounces ==
  ASSUME AnnounceInv, [Next]_vars, NEW w \in Workers, NEW o \in OrderIds,
         Verify(w, o)
  PROVE  RowAnnounced' /\ CopyAnnounced'
<1>1. \A v \in Workers : v # w => task'[v] = task[v]
  BY DEF AnnounceInv, IInv, TypeOK, Verify, WebhookNotify, ReturnStatus,
     AdminVerify, VerifyRead, VerifyAsk, VerifySave, VerifySaveUnanswered,
     VerifyNotify, VerifyFail, StartVerify, Goto, Finish
<1>2. /\ Announced(o) => Announced(o)'
      /\ rows[o].payment = "paid" => Announced(o)
      /\ CopySeen(w)
      /\ task[w] \in Task /\ task \in [Workers -> Task]
  BY AnnouncedStays
     DEF AnnounceInv, RowAnnounced, CopyAnnounced, IInv, TypeOK
<1>3. CASE rows' = rows /\ CopySeen(w)'
  BY <1>1, <1>2, <1>3, AnnounceStep
<1>4. CASE WebhookNotify(w, o) \/ ReturnStatus(w, o) \/ AdminVerify(w, o)
  BY <1>2, <1>3, <1>4, NothingSeen
     DEF WebhookNotify, ReturnStatus, AdminVerify, StartVerify, Goto, Idle
<1>5. CASE VerifyFail(w, o) \/ VerifyNotify(w, o)
  <2>1. rows' = rows /\ Finish(w)
    BY <1>5 DEF VerifyFail, VerifyNotify
  <2>2. task'[w].step = "idle"
    BY <1>2, <2>1 DEF Finish, Goto, Idle
  <2>3. QED
    BY <1>3, <2>1, <2>2, NothingSeen
<1>6. CASE VerifyRead(w, o)
  <2>1. CASE Verifiable(o)
    <3>1. /\ task'[w].step = "ask" /\ task'[w].order = o
          /\ task'[w].copy = rows[o] /\ rows' = rows
      BY <1>2, <1>6, <2>1 DEF Task, VerifyRead, Goto, At
    <3>2. CopySeen(w)'
      BY <1>2, <3>1 DEF CopySeen, Announced
    <3>3. QED
      BY <1>3, <3>1, <3>2
  <2>2. CASE ~Verifiable(o)
    BY <1>2, <1>3, <1>6, <2>2, NothingSeen DEF VerifyRead, Finish, Goto, Idle
  <2>3. QED
    BY <2>1, <2>2
<1>7. CASE VerifyAsk(w, o)
  <2>1. /\ task[w].step = "ask" /\ task[w].order = o /\ rows' = rows
        /\ task'[w].step = "save" /\ task'[w].order = o
        /\ task'[w].copy = task[w].copy
        /\ task'[w].already = (task[w].copy.payment = "paid")
    BY <1>2, <1>7 DEF Task, VerifyAsk, Goto, At
  <2>2. task[w].copy.payment = "paid" => Announced(o)'
    BY <1>2, <2>1 DEF CopySeen, Holding, Steps
  <2>3. CopySeen(w)'
    BY <2>1, <2>2 DEF CopySeen, Announced
  <2>4. QED
    BY <1>3, <2>1, <2>3
<1>8. CASE VerifySaveUnanswered(w, o)
  <2>1. task[w].step = "save" /\ task[w].order = o
    BY <1>8 DEF VerifySaveUnanswered, At
  <2>2. task'[w].step = "idle" /\ \A p \in OrderIds : p # o => rows'[p] = rows[p]
    BY <1>2, <1>8
       DEF AnnounceInv, IInv, TypeOK, VerifySaveUnanswered, Finish, Goto, Idle, Save
  <2>3. PICK r \in Verified(task[w]) : rows'[o] = r
    BY <1>8 DEF AnnounceInv, IInv, TypeOK, VerifySaveUnanswered, Save
  <2>4. r.payment = "paid" => task[w].paid \/ task[w].copy.payment = "paid"
    BY <2>3 DEF Verified
  <2>5. task[w].copy.payment = "paid" => Announced(o)'
    BY <1>2, <2>1 DEF CopySeen, Holding, Steps
  <2>6. CASE FirstSeenPaid(task[w])
    <3>1. o \in missed'
      BY <1>8, <2>6 DEF VerifySaveUnanswered
    <3>2. QED
      BY <1>1, <2>2, <3>1, NothingSeen, AnnounceStep DEF Announced
  <2>7. CASE ~FirstSeenPaid(task[w])
    <3>1. task[w].paid => task[w].copy.payment = "paid"
      BY <1>2, <2>1, <2>7 DEF FirstSeenPaid, CopySeen
    <3>2. QED
      BY <1>1, <2>2, <2>3, <2>4, <2>5, <3>1, NothingSeen, AnnounceStep
  <2>8. QED
    BY <2>6, <2>7
<1>9. CASE VerifySave(w, o)
  <2>1. task[w].step = "save" /\ task[w].order = o
    BY <1>9 DEF VerifySave, At
  <2>2. PICK r \in Verified(task[w]) : Save(o, r)
    BY <1>9 DEF VerifySave
  <2>3. r.payment = "paid" => task[w].paid \/ task[w].copy.payment = "paid"
    BY <2>2 DEF Verified
  <2>4. rows'[o] = r /\ \A p \in OrderIds : p # o => rows'[p] = rows[p]
    BY <2>2 DEF AnnounceInv, IInv, TypeOK, Save
  <2>5. task[w].copy.payment = "paid" => Announced(o)'
    BY <1>2, <2>1 DEF CopySeen, Holding, Steps
  <2>6. CASE FirstSeenPaid(task[w])
    <3>1. task'[w] = [task[w] EXCEPT !.step = "notify"]
      BY <1>2, <1>9, <2>6 DEF VerifySave, Goto
    <3>2. task'[w].step = "notify" /\ task'[w].order = o
      BY <1>2, <2>1, <3>1 DEF Task
    <3>3. Announced(o)'
      BY <3>2 DEF Announced, AlertComing, At
    <3>4. CopySeen(w)'
      BY <3>2, <3>3 DEF CopySeen, Announced
    <3>5. QED
      BY <1>1, <2>4, <3>3, <3>4, AnnounceStep
  <2>7. CASE ~FirstSeenPaid(task[w])
    <3>1. task'[w].step = "idle"
      BY <1>2, <1>9, <2>7 DEF VerifySave, Finish, Goto, Idle
    <3>2. task[w].paid => task[w].copy.payment = "paid"
      BY <1>2, <2>1, <2>7 DEF FirstSeenPaid, CopySeen
    <3>3. QED
      BY <1>1, <2>3, <2>4, <2>5, <3>1, <3>2, NothingSeen, AnnounceStep
  <2>8. QED
    BY <2>6, <2>7
<1>10. QED
  BY <1>4, <1>5, <1>6, <1>7, <1>8, <1>9 DEF Verify

LEMMA StatusAnnounces ==
  ASSUME AnnounceInv, [Next]_vars, NEW w \in Workers, NEW o \in OrderIds,
         UpdateStatus(w, o)
  PROVE  RowAnnounced' /\ CopyAnnounced'
<1>1. \A v \in Workers : v # w => task'[v] = task[v]
  BY DEF AnnounceInv, IInv, TypeOK, UpdateStatus, StatusRead, StatusSave, Goto,
     Finish
<1>2. /\ Announced(o) => Announced(o)'
      /\ rows[o].payment = "paid" => Announced(o)
      /\ CopySeen(w)
      /\ task[w] \in Task /\ task \in [Workers -> Task]
  BY AnnouncedStays
     DEF AnnounceInv, RowAnnounced, CopyAnnounced, IInv, TypeOK
<1>3. ASSUME NEW s \in Statuses, StatusRead(w, o, s)
      PROVE  RowAnnounced' /\ CopyAnnounced'
  <2>1. /\ rows' = rows /\ task'[w].step = "savestatus" /\ task'[w].order = o
        /\ task'[w].copy = rows[o]
    BY <1>2, <1>3 DEF StatusRead, Goto, Idle
  <2>2. CopySeen(w)'
    BY <1>2, <2>1 DEF CopySeen, Announced
  <2>3. QED
    BY <1>1, <1>2, <2>1, <2>2, AnnounceStep
<1>4. CASE StatusSave(w, o)
  <2>1. /\ task[w].step = "savestatus" /\ task[w].order = o
        /\ task'[w].step = "idle"
        /\ \A p \in OrderIds : p # o => rows'[p] = rows[p]
        /\ rows'[o] = rows[o]
             \/ rows'[o] = [task[w].copy EXCEPT !.status = task[w].status]
    BY <1>2, <1>4
       DEF AnnounceInv, IInv, TypeOK, StatusSave, At, Save, Finish, Goto, Idle
  <2>2. rows'[o] = rows[o] \/ rows'[o].payment = task[w].copy.payment
    BY <1>2, <2>1 DEF Task, Row
  <2>3. task[w].copy.payment = "paid" => Announced(o)'
    BY <1>2, <2>1 DEF CopySeen, Holding, Steps
  <2>4. QED
    BY <1>1, <1>2, <2>1, <2>2, <2>3, NothingSeen, AnnounceStep
<1>5. QED
  BY <1>3, <1>4 DEF UpdateStatus

\* A payment that is recorded has been announced to the staff, or a handler is
\* about to, or its message was due and lost (dropped by Telegram, or with the
\* handler that had to send it), for any number of webhooks, re-checks and
\* status changes that overlap.
THEOREM PaymentsAreAnnounced == Spec => []PaidIsAnnounced
<1>1. Init => RowAnnounced /\ CopyAnnounced
  BY DEF Init, RowAnnounced, CopyAnnounced, CopySeen, Holding, NewRow, Idle
<1>2. AnnounceInv /\ [Next]_vars => RowAnnounced' /\ CopyAnnounced'
  <2> SUFFICES ASSUME AnnounceInv, [Next]_vars
               PROVE  RowAnnounced' /\ CopyAnnounced'
    OBVIOUS
  <2>1. \A o \in OrderIds : Announced(o) => Announced(o)'
    BY AnnouncedStays DEF AnnounceInv
  <2>2. ASSUME rows' = rows, \A w \in Workers : task'[w] \in {task[w], Idle}
        PROVE  RowAnnounced' /\ CopyAnnounced'
    <3>1. RowAnnounced'
      BY <2>1, <2>2 DEF AnnounceInv, RowAnnounced
    <3>2. ASSUME NEW w \in Workers PROVE CopySeen(w)'
      <4>1. CASE task'[w] = Idle
        BY <4>1, NothingSeen DEF Idle
      <4>2. CASE task'[w] = task[w]
        <5>1. CopySeen(w)
          BY DEF AnnounceInv, CopyAnnounced
        <5>2. task[w].step \in Holding => task[w].order \in OrderIds
          BY DEF AnnounceInv, IInv, CopyInv, CopyOK, TypeOK
        <5>3. QED
          BY <2>1, <4>2, <5>1, <5>2 DEF CopySeen, Announced
      <4>3. QED
        BY <2>2, <4>1, <4>2
    <3>3. QED
      BY <3>1, <3>2 DEF CopyAnnounced
  <2>3. ASSUME NEW o \in OrderIds, Pay(o) \/ Expire(o) \/ Refund(o)
        PROVE  RowAnnounced' /\ CopyAnnounced'
    BY <2>2, <2>3 DEF Pay, Expire, Refund
  <2>4. CASE Crash
    BY <2>2, <2>4 DEF Crash
  <2>5. CASE UNCHANGED vars
    BY <2>2, <2>5 DEF vars
  <2>6. QED
    BY <2>3, <2>4, <2>5, CheckoutAnnounces, VerifyAnnounces, StatusAnnounces
       DEF Next
<1>3. AnnounceInv => PaidIsAnnounced
  BY DEF AnnounceInv, RowAnnounced, Announced, PaidIsAnnounced
<1>4. QED
  BY <1>1, <1>2, <1>3, IsInductive, PTL DEF Spec, AnnounceInv
-----------------------------------------------------------------------------
(* Where handlers do not overlap too much. The copy a handler is going to   *)
(* write back is still its order's row: all of it when requests do not      *)
(* overlap, its status when only status changes are by themselves. So no    *)
(* save undoes another's.                                                   *)

FreshApart(w) ==
    /\ task[w].step = "savestatus" => task[w].copy = rows[task[w].order]
    /\ task[w].step \in {"setref", "ask", "save"}
          => task[w].copy.status = rows[task[w].order].status
    /\ task[w].step \in {"generate", "respond"} => rows[task[w].order].hasRef
    /\ task[w].step \in {"ask", "save"} => task[w].copy.hasRef

FreshAlone(w) ==
    /\ task[w].step \in {"setref", "ask", "save"}
          => task[w].copy = rows[task[w].order]
    /\ task[w].step = "save" /\ ~task[w].already => task[w].copy.payment # "paid"
    /\ task[w].step = "notify"
          => rows[task[w].order].payment = "paid" /\ alerts[task[w].order] = 0

Fresh(w) == FreshApart(w) /\ (regime = "alone" => FreshAlone(w))

UrlKept(o) == o \in urlSent => o \in placed /\ rows[o].hasRef

AlertKept(o) ==
    regime = "alone" => /\ alerts[o] < 2
                        /\ alerts[o] > 0 => rows[o].payment = "paid"

ApartInv ==
    /\ Allowed(task)
    /\ \A o \in OrderIds : UrlKept(o) /\ AlertKept(o)
    /\ \A w \in Workers : Fresh(w)

RegimeInv == IInv /\ (regime # "any" => ApartInv)

\* What a step does to payments where handlers do not overlap too much.
Stands == PaidIsFinalAlone /\ PaymentLeavesStatusApart

\* Whom another request may overlap.
LEMMA WhoOverlaps ==
  ASSUME regime # "any", Allowed(task), NEW v \in Workers, NEW w \in Workers,
         v # w, task[v].step # "idle", task[w].step # "idle"
  PROVE  regime # "alone" /\ task[v].step # "savestatus"
<1>1. v \in Busy(task) /\ w \in Busy(task)
  BY DEF Busy
<1>2. IsFiniteSet(Busy(task))
  <2>1. Busy(task) \in SUBSET Workers
    BY DEF Busy
  <2>2. QED
    BY <2>1, WorkersAssumption, FS_Subset
<1>3. ~(Cardinality(Busy(task)) <= 1)
  <2>1. Cardinality(Busy(task)) \in Nat
    BY <1>2, FS_CardinalityType
  <2>2. Cardinality(Busy(task)) # 0
    BY <1>1, <1>2, FS_EmptySet
  <2>3. Cardinality(Busy(task)) # 1
    <3>1. SUFFICES ASSUME Cardinality(Busy(task)) = 1 PROVE FALSE
      OBVIOUS
    <3>2. PICK x : Busy(task) = {x}
      BY <1>2, <3>1, FS_Singleton
    <3>3. QED
      BY <1>1, <3>2
  <2>4. QED
    BY <2>1, <2>2, <2>3
<1>4. regime = "staff apart" /\ Staff(task) = {}
  BY <1>3 DEF Allowed
<1>5. QED
  BY <1>4 DEF Staff

\* What w does to its order's row. A new order's row says nothing yet.
RowStep(w, o) ==
    \/ rows'[o] = rows[o]
    \/ o \notin placed /\ rows'[o].payment = "unpaid"
    \/ /\ task[w].step # "idle"
       /\ rows[o].hasRef => rows'[o].hasRef
       /\ \/ rows'[o].status = rows[o].status
          \/ task[w].step = "savestatus" /\ rows'[o].payment = rows[o].payment
       /\ regime = "alone" /\ rows[o].payment = "paid" => rows'[o].payment = "paid"

\* A step of w for order o: what the others hold is as fresh as it was.
LEMMA ApartStep ==
  ASSUME IInv, ApartInv, regime # "any", regime' = regime, Allowed(task)',
         NEW w \in Workers, NEW o \in OrderIds,
         \A v \in Workers : v # w => task'[v] = task[v],
         \A p \in OrderIds : p # o => rows'[p] = rows[p] /\ alerts'[p] = alerts[p],
         placed \subseteq placed', urlSent' \subseteq urlSent \cup {o},
         alerts'[o] = alerts[o] \/ task[w].step # "idle",
         RowStep(w, o), UrlKept(o)', AlertKept(o)', Fresh(w)'
  PROVE  ApartInv' /\ Stands
<1>1. \A p \in OrderIds : p # o => UrlKept(p)' /\ AlertKept(p)'
  BY DEF ApartInv, UrlKept, AlertKept
<1>2. ASSUME NEW v \in Workers, v # w
      PROVE  Fresh(v)'
  <2> DEFINE p == task[v].order
  <2>1. task'[v] = task[v] /\ Fresh(v)
    BY <1>2 DEF ApartInv
  <2>2. task[v].step \in Holding => p \in placed /\ p \in OrderIds
    BY DEF IInv, CopyInv, CopyOK, TypeOK
  <2>3. task[v].step \in {"setref", "generate", "respond", "ask", "save",
                          "notify", "savestatus"} => task[v].step \in Holding
    BY DEF Holding, Steps
  <2>4. task[v].step # "idle" /\ task[w].step # "idle"
          => regime # "alone" /\ task[v].step # "savestatus"
                              /\ task[w].step # "savestatus"
    BY <1>2, WhoOverlaps DEF ApartInv
  <2> HIDE DEF p
  <2>5. CASE p # o
    <3>1. p \in OrderIds => rows'[p] = rows[p] /\ alerts'[p] = alerts[p]
      BY <2>5
    <3>2. FreshApart(v)'
      BY <2>1, <2>2, <2>3, <3>1 DEF Fresh, FreshApart, p
    <3>3. regime = "alone" => FreshAlone(v)'
      BY <2>1, <2>2, <2>3, <3>1 DEF Fresh, FreshAlone, p
    <3>4. QED
      BY <3>2, <3>3 DEF Fresh
  <2>6. CASE p = o
    <3>1. task[v].step \in Holding /\ task[w].step = "idle"
             => rows'[o] = rows[o] /\ alerts'[o] = alerts[o]
      BY <2>2, <2>6 DEF RowStep
    <3>2. task[v].step \in Holding
             => /\ rows[o].hasRef => rows'[o].hasRef
                /\ task[v].step # "savestatus" => rows'[o].status = rows[o].status
                /\ task[v].step = "savestatus" => rows'[o] = rows[o]
                /\ regime = "alone" =>
                      rows'[o] = rows[o] /\ alerts'[o] = alerts[o]
      BY <2>2, <2>4, <2>6, <3>1 DEF RowStep, Holding
    <3>3. FreshApart(v)'
      BY <2>1, <2>3, <2>6, <3>2 DEF Fresh, FreshApart, p
    <3>4. regime = "alone" => FreshAlone(v)'
      BY <2>1, <2>3, <2>6, <3>2 DEF Fresh, FreshAlone, p
    <3>5. QED
      BY <3>3, <3>4 DEF Fresh
  <2>7. QED
    BY <2>5, <2>6
<1>3. PaidIsFinalAlone
  <2>1. o \notin placed => rows[o].payment = "unpaid"
    BY DEF IInv, RowInv, RowOK
  <2>2. regime = "alone" /\ rows[o].payment = "paid" => rows'[o].payment = "paid"
    BY <2>1 DEF RowStep
  <2>3. QED
    BY <2>2 DEF PaidIsFinalAlone, KeepsPaid
<1>4. PaymentLeavesStatusApart
  <2>1. o \notin placed => rows[o].payment = "unpaid"
    BY DEF IInv, RowInv, RowOK
  <2>2. rows'[o].payment # rows[o].payment => rows'[o].status = rows[o].status
    BY <2>1 DEF RowStep
  <2>3. QED
    BY <2>2 DEF PaymentLeavesStatusApart, KeepsStatus
<1>5. QED
  BY <1>1, <1>2, <1>3, <1>4 DEF ApartInv, Stands

\* Handlers that end, or have not read a row, hold nothing.
LEMMA NothingHeld ==
  ASSUME NEW w \in Workers, task'[w].step \in {"idle", "read"}
  PROVE  Fresh(w)'
BY DEF Fresh, FreshApart, FreshAlone

LEMMA CheckoutApart ==
  ASSUME IInv, ApartInv, regime # "any", regime' = regime, Allowed(task)',
         NEW w \in Workers, NEW o \in OrderIds, Checkout(w, o)
  PROVE  ApartInv' /\ Stands
<1>1. /\ \A v \in Workers : v # w => task'[v] = task[v]
      /\ \A p \in OrderIds : p # o => rows'[p] = rows[p]
      /\ alerts' = alerts /\ placed \subseteq placed'
      /\ urlSent' \subseteq urlSent \cup {o}
  BY DEF IInv, TypeOK, Checkout, CashCheckout, InitiateCreate, InitiateSetRef,
     InitiateGenerate, InitiateRespond, Goto, Finish, Save
<1>2. /\ task[w] \in Task /\ task \in [Workers -> Task]
      /\ UrlKept(o) /\ AlertKept(o) /\ Fresh(w)
      /\ o \notin placed => o \notin urlSent /\ alerts[o] = 0
  BY DEF IInv, RowInv, RowOK, TypeOK, ApartInv, UrlKept
<1>3. task[w].step \in Holding => task[w].order \in placed
  BY DEF IInv, CopyInv, CopyOK
<1>4. CASE CashCheckout(w, o)
  <2>1. /\ rows'[o].payment = "unpaid" /\ o \notin placed
        /\ task' = task /\ task[w].step = "idle" /\ urlSent' = urlSent
    BY <1>4 DEF IInv, TypeOK, CashCheckout, NewRow
  <2>2. UrlKept(o)' /\ AlertKept(o)'
    BY <1>1, <1>2, <2>1 DEF UrlKept, AlertKept
  <2>3. RowStep(w, o)
    BY <2>1 DEF RowStep
  <2>4. QED
    BY <1>1, <2>1, <2>2, <2>3, NothingHeld, ApartStep
<1>5. CASE InitiateCreate(w, o)
  <2>1. /\ rows'[o] = NewRow("ppcbank", FALSE) /\ o \notin placed
        /\ task'[w].copy = NewRow("ppcbank", FALSE) /\ task'[w].order = o
        /\ task'[w].step = "setref" /\ urlSent' = urlSent
    BY <1>5 DEF IInv, TypeOK, InitiateCreate, Save, Goto, Idle
  <2>2. UrlKept(o)' /\ AlertKept(o)'
    <3>1. UrlKept(o)'
      BY <1>2, <2>1 DEF UrlKept
    <3>2. alerts'[o] = 0
      BY <1>1, <1>2, <2>1
    <3>3. AlertKept(o)'
      BY <3>2 DEF AlertKept
    <3>4. QED
      BY <3>1, <3>3
  <2>3. RowStep(w, o)
    BY <2>1 DEF RowStep, NewRow
  <2>4. Fresh(w)'
    BY <2>1 DEF Fresh, FreshApart, FreshAlone
  <2>5. QED
    BY <1>1, <2>2, <2>3, <2>4, ApartStep
<1>6. CASE InitiateSetRef(w, o)
  <2> DEFINE r == [task[w].copy EXCEPT !.hasRef = TRUE]
  <2>1. /\ task[w].step = "setref" /\ task[w].order = o /\ urlSent' = urlSent
        /\ placed' = placed
        /\ \/ rows'[o] = r
           \/ rows'[o] = rows[o] /\ task'[w] = Idle
        /\ task'[w] = Idle \/ task'[w] = [task[w] EXCEPT !.step = "generate"]
    BY <1>6 DEF IInv, TypeOK, InitiateSetRef, At, Save, Goto, Finish
  <2>2. /\ r.hasRef /\ r.payment = task[w].copy.payment
        /\ r.status = task[w].copy.status
    BY <1>2 DEF Task, Row
  <2> HIDE DEF r
  <2>3. /\ task[w].copy.status = rows[o].status
        /\ regime = "alone" => task[w].copy = rows[o]
    BY <1>2, <2>1 DEF Fresh, FreshApart, FreshAlone
  <2>4. RowStep(w, o)
    BY <2>1, <2>2, <2>3 DEF RowStep
  <2>5. UrlKept(o)' /\ AlertKept(o)'
    BY <1>1, <1>2, <2>1, <2>2, <2>3 DEF UrlKept, AlertKept
  <2>6. CASE task'[w] = Idle
    BY <1>1, <2>4, <2>5, <2>6, NothingHeld, ApartStep DEF Idle
  <2>7. CASE rows'[o] = r /\ task'[w] = [task[w] EXCEPT !.step = "generate"]
    <3>1. task'[w].step = "generate" /\ task'[w].order = o
      BY <1>2, <2>1, <2>7 DEF Task
    <3>2. Fresh(w)'
      BY <2>2, <2>7, <3>1 DEF Fresh, FreshApart, FreshAlone
    <3>3. QED
      BY <1>1, <2>4, <2>5, <3>2, ApartStep
  <2>8. QED
    BY <2>1, <2>6, <2>7
<1>7. CASE InitiateGenerate(w, o)
  <2>1. /\ task[w].step = "generate" /\ task[w].order = o /\ urlSent' = urlSent
        /\ rows' = rows /\ placed' = placed
        /\ task'[w] = Idle \/ task'[w] = [task[w] EXCEPT !.step = "respond"]
    BY <1>7 DEF IInv, TypeOK, InitiateGenerate, At, Goto, Finish
  <2>2. RowStep(w, o) /\ UrlKept(o)' /\ AlertKept(o)'
    BY <1>1, <1>2, <2>1 DEF RowStep, UrlKept, AlertKept
  <2>3. \/ task'[w].step = "idle"
        \/ task'[w].step = "respond" /\ task'[w].order = o
    BY <1>2, <2>1 DEF Task, Idle
  <2>4. Fresh(w)'
    <3>1. rows'[o].hasRef
      BY <1>2, <2>1 DEF Fresh, FreshApart
    <3>2. QED
      BY <2>3, <3>1 DEF Fresh, FreshApart, FreshAlone
  <2>5. QED
    BY <1>1, <2>2, <2>4, ApartStep
<1>8. CASE InitiateRespond(w, o)
  <2>1. /\ task[w].step = "respond" /\ task[w].order = o /\ rows' = rows
        /\ placed' = placed /\ task'[w].step = "idle"
    BY <1>2, <1>8 DEF InitiateRespond, At, Goto, Finish, Idle
  <2>2. rows'[o].hasRef /\ o \in placed'
    BY <1>2, <1>3, <2>1 DEF Fresh, FreshApart, Holding, Steps
  <2>3. RowStep(w, o) /\ UrlKept(o)' /\ AlertKept(o)'
    BY <1>1, <1>2, <2>1, <2>2 DEF RowStep, UrlKept, AlertKept
  <2>4. QED
    BY <1>1, <2>1, <2>3, NothingHeld, ApartStep
<1>9. QED
  BY <1>4, <1>5, <1>6, <1>7, <1>8 DEF Checkout

LEMMA VerifyApart ==
  ASSUME IInv, ApartInv, regime # "any", regime' = regime, Allowed(task)',
         NEW w \in Workers, NEW o \in OrderIds, Verify(w, o)
  PROVE  ApartInv' /\ Stands
<1>1. \A v \in Workers : v # w => task'[v] = task[v]
  BY DEF IInv, TypeOK, Verify, WebhookNotify, ReturnStatus, AdminVerify,
     VerifyRead, VerifyAsk, VerifySave, VerifySaveUnanswered, VerifyNotify,
     VerifyFail, StartVerify, Goto, Finish
<1>2. placed' = placed /\ urlSent' = urlSent
  BY DEF Verify, WebhookNotify, ReturnStatus, AdminVerify, VerifyRead,
     VerifyAsk, VerifySave, VerifySaveUnanswered, VerifyNotify, VerifyFail
<1>3. /\ task[w] \in Task /\ task \in [Workers -> Task]
      /\ UrlKept(o) /\ AlertKept(o) /\ Fresh(w)
      /\ o \notin placed => o \notin urlSent /\ alerts[o] = 0
  BY DEF IInv, RowInv, RowOK, TypeOK, ApartInv, UrlKept
<1>4. CASE rows' = rows /\ alerts' = alerts /\ Fresh(w)'
  <2>1. RowStep(w, o) /\ UrlKept(o)' /\ AlertKept(o)'
    BY <1>2, <1>3, <1>4 DEF RowStep, UrlKept, AlertKept
  <2>2. QED
    BY <1>1, <1>2, <1>4, <2>1, ApartStep
<1>5. CASE WebhookNotify(w, o) \/ ReturnStatus(w, o) \/ AdminVerify(w, o)
  <2>1. rows' = rows /\ alerts' = alerts /\ StartVerify(w, o)
    BY <1>5 DEF WebhookNotify, ReturnStatus, AdminVerify
  <2>2. task'[w].step = "read"
    BY <1>3, <2>1 DEF StartVerify, Goto, Idle
  <2>3. QED
    BY <1>4, <2>1, <2>2, NothingHeld
<1>6. CASE VerifyFail(w, o)
  <2>1. rows' = rows /\ alerts' = alerts /\ task'[w].step = "idle"
    BY <1>3, <1>6 DEF VerifyFail, Finish, Goto, Idle
  <2>2. QED
    BY <1>4, <2>1, NothingHeld
<1>7. CASE VerifyRead(w, o)
  <2>1. CASE Verifiable(o)
    <3>1. /\ task'[w].step = "ask" /\ task'[w].order = o
          /\ task'[w].copy = rows[o] /\ rows' = rows /\ alerts' = alerts
      BY <1>3, <1>7, <2>1 DEF Task, VerifyRead, Goto, At
    <3>2. Fresh(w)'
      BY <2>1, <3>1 DEF Fresh, FreshApart, FreshAlone, Verifiable
    <3>3. QED
      BY <1>4, <3>1, <3>2
  <2>2. CASE ~Verifiable(o)
    <3>1. rows' = rows /\ alerts' = alerts /\ task'[w].step = "idle"
      BY <1>3, <1>7, <2>2 DEF VerifyRead, Finish, Goto, Idle
    <3>2. QED
      BY <1>4, <3>1, NothingHeld
  <2>3. QED
    BY <2>1, <2>2
<1>8. CASE VerifyAsk(w, o)
  <2>1. /\ task[w].step = "ask" /\ task[w].order = o
        /\ rows' = rows /\ alerts' = alerts
        /\ task'[w].step = "save" /\ task'[w].order = o
        /\ task'[w].copy = task[w].copy
        /\ task'[w].already = (task[w].copy.payment = "paid")
    BY <1>3, <1>8 DEF Task, VerifyAsk, Goto, At
  <2>2. Fresh(w)'
    BY <1>3, <2>1 DEF Fresh, FreshApart, FreshAlone
  <2>3. QED
    BY <1>4, <2>1, <2>2
<1>9. CASE VerifyNotify(w, o)
  <2>1. /\ task[w].step = "notify" /\ task[w].order = o /\ rows' = rows
        /\ task'[w].step = "idle"
    BY <1>3, <1>9 DEF VerifyNotify, At, Finish, Goto, Idle
  <2>2. /\ \A p \in OrderIds : p # o => alerts'[p] = alerts[p]
        /\ alerts[o] = 0 => alerts'[o] \in {0, 1}
    BY <1>9 DEF IInv, TypeOK, VerifyNotify
  <2>3. regime = "alone" => rows[o].payment = "paid" /\ alerts[o] = 0
    BY <1>3, <2>1 DEF Fresh, FreshAlone
  <2>4. RowStep(w, o) /\ UrlKept(o)' /\ AlertKept(o)'
    BY <1>2, <1>3, <2>1, <2>2, <2>3 DEF RowStep, UrlKept, AlertKept
  <2>5. QED
    BY <1>1, <1>2, <2>1, <2>2, <2>4, NothingHeld, ApartStep
<1>10. CASE VerifySave(w, o) \/ VerifySaveUnanswered(w, o)
  <2>1. task[w].step = "save" /\ task[w].order = o /\ alerts' = alerts
    BY <1>10 DEF VerifySave, VerifySaveUnanswered, At
  <2>2. PICK r \in Verified(task[w]) : Save(o, r)
    BY <1>10 DEF VerifySave, VerifySaveUnanswered
  <2>3. /\ r.hasRef = task[w].copy.hasRef /\ r.status = task[w].copy.status
        /\ task[w].paid => r.payment = "paid"
        /\ ~task[w].paid => r.payment = task[w].copy.payment
    BY <1>3, <2>2 DEF Verified, Task, Row
  <2>4. rows'[o] = r /\ \A p \in OrderIds : p # o => rows'[p] = rows[p]
    BY <2>2 DEF IInv, TypeOK, Save
  <2>5. /\ task[w].copy.status = rows[o].status /\ task[w].copy.hasRef
        /\ regime = "alone" => task[w].copy = rows[o]
    BY <1>3, <2>1 DEF Fresh, FreshApart, FreshAlone
  <2>6. RowStep(w, o)
    BY <2>1, <2>3, <2>4, <2>5 DEF RowStep
  <2>7. regime = "alone" /\ rows[o].payment = "paid" => rows'[o].payment = "paid"
    BY <2>3, <2>4, <2>5
  <2>8. UrlKept(o)' /\ AlertKept(o)'
    BY <1>2, <1>3, <2>1, <2>3, <2>4, <2>5, <2>7 DEF UrlKept, AlertKept
  <2>9. CASE FirstSeenPaid(task[w]) /\ VerifySave(w, o)
    <3>1. task'[w] = [task[w] EXCEPT !.step = "notify"]
      BY <1>3, <2>9 DEF VerifySave, Goto
    <3>2. task'[w].step = "notify" /\ task'[w].order = o
      BY <1>3, <2>1, <3>1 DEF Task
    <3>3. rows'[o].payment = "paid"
      BY <2>3, <2>4, <2>9 DEF FirstSeenPaid
    <3>4. regime = "alone" => rows[o].payment # "paid"
      BY <1>3, <2>1, <2>5, <2>9 DEF Fresh, FreshAlone, FirstSeenPaid
    <3>5. regime = "alone" => alerts'[o] = 0
      BY <1>3, <2>1, <3>4 DEF AlertKept, IInv, TypeOK
    <3>6. Fresh(w)'
      BY <3>2, <3>3, <3>5 DEF Fresh, FreshApart, FreshAlone
    <3>7. QED
      BY <1>1, <1>2, <2>1, <2>4, <2>6, <2>8, <3>6, ApartStep
  <2>10. CASE ~(FirstSeenPaid(task[w]) /\ VerifySave(w, o))
    <3>1. Finish(w)
      BY <1>10, <2>10 DEF VerifySave, VerifySaveUnanswered
    <3>2. task'[w].step = "idle"
      BY <1>3, <3>1 DEF Finish, Goto, Idle
    <3>3. QED
      BY <1>1, <1>2, <2>1, <2>4, <2>6, <2>8, <3>2, NothingHeld, ApartStep
  <2>11. QED
    BY <2>9, <2>10
<1>11. QED
  BY <1>5, <1>6, <1>7, <1>8, <1>9, <1>10 DEF Verify

LEMMA StatusApart ==
  ASSUME IInv, ApartInv, regime # "any", regime' = regime, Allowed(task)',
         NEW w \in Workers, NEW o \in OrderIds, UpdateStatus(w, o)
  PROVE  ApartInv' /\ Stands
<1>1. /\ \A v \in Workers : v # w => task'[v] = task[v]
      /\ alerts' = alerts /\ placed' = placed /\ urlSent' = urlSent
  BY DEF IInv, TypeOK, UpdateStatus, StatusRead, StatusSave, Goto, Finish
<1>2. /\ task[w] \in Task /\ task \in [Workers -> Task]
      /\ UrlKept(o) /\ AlertKept(o) /\ Fresh(w)
  BY DEF IInv, TypeOK, ApartInv
<1>3. ASSUME NEW s \in Statuses, StatusRead(w, o, s)
      PROVE  ApartInv' /\ Stands
  <2>1. /\ rows' = rows /\ task'[w].step = "savestatus" /\ task'[w].order = o
        /\ task'[w].copy = rows[o]
    BY <1>2, <1>3 DEF StatusRead, Goto, Idle
  <2>2. Fresh(w)'
    BY <2>1 DEF Fresh, FreshApart, FreshAlone
  <2>3. RowStep(w, o) /\ UrlKept(o)' /\ AlertKept(o)'
    BY <1>1, <1>2, <2>1 DEF RowStep, UrlKept, AlertKept
  <2>4. QED
    BY <1>1, <2>1, <2>2, <2>3, ApartStep
<1>4. CASE StatusSave(w, o)
  <2> DEFINE r == [task[w].copy EXCEPT !.status = task[w].status]
  <2>1. /\ task[w].step = "savestatus" /\ task[w].order = o
        /\ task'[w].step = "idle"
        /\ \A p \in OrderIds : p # o => rows'[p] = rows[p]
        /\ rows'[o] = rows[o] \/ rows'[o] = r
    BY <1>2, <1>4 DEF IInv, TypeOK, StatusSave, At, Save, Finish, Goto, Idle
  <2>2. r.hasRef = task[w].copy.hasRef /\ r.payment = task[w].copy.payment
    BY <1>2 DEF Task, Row
  <2> HIDE DEF r
  <2>3. task[w].copy = rows[o]
    BY <1>2, <2>1 DEF Fresh, FreshApart
  <2>4. RowStep(w, o)
    BY <2>1, <2>2, <2>3 DEF RowStep
  <2>5. UrlKept(o)' /\ AlertKept(o)'
    BY <1>1, <1>2, <2>1, <2>2, <2>3 DEF UrlKept, AlertKept
  <2>6. QED
    BY <1>1, <2>1, <2>4, <2>5, NothingHeld, ApartStep
<1>5. QED
  BY <1>3, <1>4 DEF UpdateStatus

\* The customer, the bank's clock, a restart, or nothing at all.
LEMMA OutsideApart ==
  ASSUME IInv, ApartInv, regime # "any", regime' = regime, Allowed(task)',
         UNCHANGED <<rows, alerts, placed, urlSent>>,
         \A w \in Workers : task'[w] \in {task[w], Idle}
  PROVE  ApartInv' /\ Stands
<1>1. \A o \in OrderIds : UrlKept(o)' /\ AlertKept(o)'
  BY DEF ApartInv, UrlKept, AlertKept
<1>2. ASSUME NEW w \in Workers PROVE Fresh(w)'
  <2>1. CASE task'[w] = Idle
    BY <2>1, NothingHeld DEF Idle
  <2>2. CASE task'[w] = task[w]
    BY <2>2 DEF ApartInv, Fresh, FreshApart, FreshAlone
  <2>3. QED
    BY <2>1, <2>2
<1>3. Stands
  BY DEF Stands, PaidIsFinalAlone, KeepsPaid, PaymentLeavesStatusApart, KeepsStatus
<1>4. QED
  BY <1>1, <1>2, <1>3 DEF ApartInv

LEMMA RegimesKept ==
  RegimeInv /\ [MCNext]_mcvars
      => (regime # "any" => ApartInv' /\ Stands) /\ regime' = regime
<1> SUFFICES ASSUME RegimeInv, [MCNext]_mcvars
             PROVE  (regime # "any" => ApartInv' /\ Stands) /\ regime' = regime
  OBVIOUS
<1>1. regime' = regime
  BY DEF MCNext, mcvars
<1>2. ASSUME regime # "any" PROVE ApartInv' /\ Stands
  <2>1. IInv /\ ApartInv
    BY <1>2 DEF RegimeInv
  <2>2. CASE UNCHANGED mcvars
    <3>1. Allowed(task)'
      BY <1>1, <2>1, <2>2 DEF mcvars, vars, ApartInv, Allowed
    <3>2. QED
      BY <1>1, <1>2, <2>1, <2>2, <3>1, OutsideApart DEF mcvars, vars
  <2>3. CASE MCNext
    <3>1. Next /\ Allowed(task)'
      BY <1>1, <2>3 DEF MCNext, Allowed
    <3>2. ASSUME NEW w \in Workers, NEW o \in OrderIds, Checkout(w, o)
          PROVE  ApartInv' /\ Stands
      BY <1>1, <1>2, <2>1, <3>1, <3>2, CheckoutApart
    <3>3. ASSUME NEW w \in Workers, NEW o \in OrderIds, Verify(w, o)
          PROVE  ApartInv' /\ Stands
      BY <1>1, <1>2, <2>1, <3>1, <3>3, VerifyApart
    <3>4. ASSUME NEW w \in Workers, NEW o \in OrderIds, UpdateStatus(w, o)
          PROVE  ApartInv' /\ Stands
      BY <1>1, <1>2, <2>1, <3>1, <3>4, StatusApart
    <3>5. ASSUME NEW o \in OrderIds, Pay(o) \/ Expire(o) \/ Refund(o)
          PROVE  ApartInv' /\ Stands
      <4>1. UNCHANGED <<rows, alerts, placed, urlSent, task>>
        BY <3>5 DEF Pay, Expire, Refund
      <4>2. QED
        BY <1>1, <1>2, <2>1, <3>1, <4>1, OutsideApart
    <3>6. CASE Crash
      <4>1. /\ UNCHANGED <<rows, alerts, placed, urlSent>>
            /\ \A w \in Workers : task'[w] = Idle
        BY <3>6 DEF Crash
      <4>2. QED
        BY <1>1, <1>2, <2>1, <3>1, <4>1, OutsideApart
    <3>7. QED
      BY <3>1, <3>2, <3>3, <3>4, <3>5, <3>6 DEF Next
  <2>4. QED
    BY <2>2, <2>3
<1>3. QED
  BY <1>1, <1>2

\* Fewer behaviours: what Spec promises, MCSpec promises.
LEMMA MCImplementsSpec == MCSpec => Spec
<1>1. MCInit => Init
  BY DEF MCInit
<1>2. [MCNext]_mcvars => [Next]_vars
  BY DEF MCNext, mcvars
<1>3. QED
  BY <1>1, <1>2, PTL DEF MCSpec, Spec

LEMMA RegimesInductive == MCSpec => []RegimeInv
<1>1. MCInit => (regime # "any" => ApartInv)
  <2> SUFFICES ASSUME MCInit PROVE ApartInv
    OBVIOUS
  <2>1. Init /\ \A w \in Workers : task[w] = Idle
    BY DEF MCInit, Init
  <2>2. Allowed(task)
    <3>1. Busy(task) = {}
      BY <2>1 DEF Busy, Idle
    <3>2. Cardinality(Busy(task)) = 0
      BY <3>1, FS_EmptySet
    <3>3. QED
      BY <3>2 DEF Allowed
  <2>3. \A o \in OrderIds : UrlKept(o) /\ AlertKept(o)
    <3>1. ASSUME NEW o \in OrderIds PROVE UrlKept(o)
      BY <2>1 DEF Init, UrlKept
    <3>2. ASSUME NEW o \in OrderIds PROVE AlertKept(o)
      BY <2>1 DEF Init, AlertKept
    <3>3. QED
      BY <3>1, <3>2
  <2>4. \A w \in Workers : Fresh(w)
    BY <2>1 DEF Idle, Fresh, FreshApart, FreshAlone
  <2>5. QED
    BY <2>2, <2>3, <2>4 DEF ApartInv
<1>2. RegimeInv /\ [MCNext]_mcvars => (regime # "any" => ApartInv)'
  BY RegimesKept
<1>3. QED
  BY <1>1, <1>2, IsInductive, MCImplementsSpec, PTL DEF MCSpec, RegimeInv

\* Where requests do not overlap the staff are told of an order once, through
\* restarts, lost answers and repeated webhooks; where status changes do not
\* overlap other requests, an order whose customer has the payment URL keeps
\* the reference that its verification needs (order_service.go).
THEOREM OrdersAgree == MCSpec => []OrderAgrees
<1>1. RegimeInv => OrderAgrees
  <2> SUFFICES ASSUME RegimeInv PROVE OrderAgrees
    OBVIOUS
  <2>1. AlertedOnceAlone
    BY DEF RegimeInv, ApartInv, AlertKept, AlertedOnceAlone, AlertedOnce
  <2>2. UrlHasReferenceApart
    BY DEF RegimeInv, IInv, TypeOK, ApartInv, UrlKept, UrlHasReferenceApart,
       UrlHasReference
  <2>3. QED
    BY <2>1, <2>2 DEF OrderAgrees
<1>2. QED
  BY <1>1, RegimesInductive, PTL

\* In the same behaviours no step takes a recorded payment back, and none that
\* records a payment changes the order's status (models/order.go: the two are
\* separate), though every handler writes the whole row.
THEOREM RecordedPaymentsStand == MCSpec => PaymentsStand
<1>1. RegimeInv /\ [MCNext]_mcvars
         => [PaidIsFinalAlone /\ PaymentLeavesStatusApart]_mcvars
  BY RegimesKept DEF Stands, PaidIsFinalAlone, PaymentLeavesStatusApart
<1>2. MCSpec => [][PaidIsFinalAlone /\ PaymentLeavesStatusApart]_mcvars
  BY <1>1, RegimesInductive, PTL DEF MCSpec
<1>3. QED
  BY <1>2 DEF PaymentsStand
=============================================================================
