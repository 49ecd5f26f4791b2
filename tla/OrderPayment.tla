---------------------------- MODULE OrderPayment ----------------------------
(***************************************************************************)
(* The life of an order's row in the database, from checkout to the moment *)
(* PPCBank's payment is recorded and the shop's staff are told of it:      *)
(* services/order_service.go with the controllers that call it.            *)
(*                                                                         *)
(* Every HTTP request runs in a goroutine of its own (a worker here) and   *)
(* talks to the database one statement at a time, without a transaction: a *)
(* handler reads a whole row, may wait for PPCBank's answer, and writes    *)
(* the WHOLE row back (GORM's Save), so each database statement and each   *)
(* bank call is an action and the row read travels in the worker's task.   *)
(*                                                                         *)
(* Total, items, address and phone are fixed when the row is created and   *)
(* every Save writes back what it read, so they are left out; the cart is  *)
(* in CartCheckout.                                                        *)
(***************************************************************************)
EXTENDS Naturals

CONSTANTS
    OrderIds,    \* primary keys the orders table may hand out
    Workers,     \* requests being handled at the same time
    Statuses,    \* fulfilment statuses an admin may set
    Pending,     \* the status of a new order, "pending"
    NoOrder,     \* the order of a worker that has none
    MaxLosses    \* bound: restarts and lost database answers

ASSUME OrderAssumption ==
    /\ Pending \in Statuses
    /\ NoOrder \notin OrderIds
    /\ MaxLosses \in Nat

VARIABLES
    placed,    \* orders whose row exists
    rows,      \* rows[o]: the columns of order o that can change
    bank,      \* PPCBank's view of the bill with this order's reference
    urlSent,   \* orders whose customer was given the payment URL
    alerts,    \* order-paid messages that arrived (0, 1, or 2 for more)
    missed,    \* orders a message of which was due and did not arrive
    task,      \* what each worker is doing
    losses     \* restarts and lost answers so far

vars == <<placed, rows, bank, urlSent, alerts, missed, task, losses>>

-----------------------------------------------------------------------------

Methods == {"cash", "ppcbank"}
Payments == {"unpaid", "paid"}

\* hasRef: payment_reference is not empty. invoiced: transaction_hash and
\* invoice hold what the bank answered.
Row == [method: Methods, payment: Payments, hasRef: BOOLEAN,
        invoiced: BOOLEAN, status: Statuses]

NewRow(m, r) == [method |-> m, payment |-> "unpaid", hasRef |-> r,
                 invoiced |-> FALSE, status |-> Pending]

\* "closed" is the bank's expired or cancelled (04), "refunded" its 05.
BillStates == {"none", "open", "paid", "closed", "refunded"}

\* The bank holds the payment of o's bill, or held it and gave it back.
BankHeld(o) == bank[o] \in {"paid", "refunded"}

\* The statement a worker is about to execute.
Steps == {"idle",
          "setref", "generate", "respond",        \* InitiatePPCBankCheckout
          "read", "ask", "save", "notify",        \* VerifyPPCBankPayment
          "savestatus"}                           \* UpdateStatus

Task == [step: Steps, order: OrderIds \cup {NoOrder}, copy: Row,
         paid: BOOLEAN, already: BOOLEAN, status: Statuses]

Idle == [step |-> "idle", order |-> NoOrder, copy |-> NewRow("cash", FALSE),
         paid |-> FALSE, already |-> FALSE, status |-> Pending]

\* Rows, bills, alerts and handlers are well formed.
TypeOK ==
    /\ placed \subseteq OrderIds
    /\ rows \in [OrderIds -> Row]
    /\ bank \in [OrderIds -> BillStates]
    /\ urlSent \subseteq OrderIds
    /\ alerts \in [OrderIds -> 0..2]
    /\ missed \subseteq OrderIds
    /\ task \in [Workers -> Task]
    /\ losses \in 0..MaxLosses

Init ==
    /\ placed = {}
    /\ rows = [o \in OrderIds |-> NewRow("cash", FALSE)]
    /\ bank = [o \in OrderIds |-> "none"]
    /\ urlSent = {}
    /\ alerts = [o \in OrderIds |-> 0]
    /\ missed = {}
    /\ task = [w \in Workers |-> Idle]
    /\ losses = 0

\* Worker w, about to execute step s, is serving order o.
At(w, s, o) == task[w].step = s /\ task[w].order = o

Goto(w, t) == task' = [task EXCEPT ![w] = t]

\* The request is over: an answer or an error goes out, nothing else changes.
Finish(w) == Goto(w, Idle)

\* GORM's Save: every column of the row is overwritten with the copy's.
Save(o, copy) == rows' = [rows EXCEPT ![o] = copy]

-----------------------------------------------------------------------------
(* Checkout.                                                               *)

\* Checkout: the cash order is inserted in one statement, together with
\* whatever payment reference the request carried.
CashCheckout(w, o) ==
    /\ task[w].step = "idle"
    /\ o \notin placed
    /\ placed' = placed \cup {o}
    /\ \E r \in BOOLEAN : rows' = [rows EXCEPT ![o] = NewRow("cash", r)]
    /\ UNCHANGED <<bank, urlSent, alerts, missed, task, losses>>

\* InitiatePPCBankCheckout up to Orders.Create: an unpaid order without a
\* reference, since the reference is made from the id just assigned.
InitiateCreate(w, o) ==
    /\ task[w].step = "idle"
    /\ o \notin placed
    /\ placed' = placed \cup {o}
    /\ Save(o, NewRow("ppcbank", FALSE))
    /\ Goto(w, [Idle EXCEPT !.step = "setref", !.order = o,
                            !.copy = NewRow("ppcbank", FALSE)])
    /\ UNCHANGED <<bank, urlSent, alerts, missed, losses>>

\* Mutant of InitiateSetRef: the error of the second save is ignored.
InitiateSetRefUnchecked(w, o) ==
    /\ At(w, "setref", o)
    /\ \/ Save(o, [task[w].copy EXCEPT !.hasRef = TRUE])
       \/ UNCHANGED rows
    /\ Goto(w, [task[w] EXCEPT !.step = "generate"])
    /\ UNCHANGED <<placed, bank, urlSent, alerts, missed, losses>>

\* The second save, which stores the reference. It writes the row as it was
\* created. On an error the request ends, with the save done or not.
InitiateSetRef(w, o) ==
    /\ At(w, "setref", o)
    /\ \/ /\ Save(o, [task[w].copy EXCEPT !.hasRef = TRUE])
          /\ \/ Goto(w, [task[w] EXCEPT !.step = "generate"])
             \/ Finish(w)
       \/ /\ Finish(w)
          /\ UNCHANGED rows
    /\ UNCHANGED <<placed, bank, urlSent, alerts, missed, losses>>

\* GeneratePPCBankKHQRPayment: the bank opens the bill and answers with its
\* URL, or the call fails before or after the bank acted on it; on failure
\* the order is kept and the request ends.
InitiateGenerate(w, o) ==
    /\ At(w, "generate", o)
    /\ \/ /\ bank' = [bank EXCEPT ![o] = "open"]
          /\ Goto(w, [task[w] EXCEPT !.step = "respond"])
       \/ /\ bank' = [bank EXCEPT ![o] = "open"]
          /\ Finish(w)
       \/ /\ UNCHANGED bank
          /\ Finish(w)
    /\ UNCHANGED <<placed, rows, urlSent, alerts, missed, losses>>

\* The cart is cleared and the URL goes to the customer.
InitiateRespond(w, o) ==
    /\ At(w, "respond", o)
    /\ urlSent' = urlSent \cup {o}
    /\ Finish(w)
    /\ UNCHANGED <<placed, rows, bank, alerts, missed, losses>>

-----------------------------------------------------------------------------
(* VerifyPPCBankPayment and its three callers.                             *)

StartVerify(w, o) == Goto(w, [Idle EXCEPT !.step = "read", !.order = o])

\* Notify, the webhook: its payload only names the order, so it may come at
\* any time, again and again, or never.
WebhookNotify(w, o) ==
    /\ task[w].step = "idle"
    /\ StartVerify(w, o)
    /\ UNCHANGED <<placed, rows, bank, urlSent, alerts, missed, losses>>

\* PPCBankReturnStatus: the customer is back on the return page; the payment
\* is verified unless the row read first already says paid.
ReturnStatus(w, o) ==
    /\ task[w].step = "idle"
    /\ o \in placed
    /\ rows[o].method = "ppcbank"
    /\ rows[o].payment # "paid"
    /\ StartVerify(w, o)
    /\ UNCHANGED <<placed, rows, bank, urlSent, alerts, missed, losses>>

\* VerifyPayment: an admin's re-check, of any PPCBank order.
AdminVerify(w, o) ==
    /\ task[w].step = "idle"
    /\ o \in placed
    /\ rows[o].method = "ppcbank"
    /\ StartVerify(w, o)
    /\ UNCHANGED <<placed, rows, bank, urlSent, alerts, missed, losses>>

\* Mutant of Verifiable: only orders not yet handled by staff are verified.
VerifiablePending(o) == /\ o \in placed
                        /\ rows[o].method = "ppcbank"
                        /\ rows[o].hasRef
                        /\ rows[o].status = Pending

\* FindByIDAdmin, then ErrOrderNotPPCBank unless the row can be looked up at
\* the bank.
Verifiable(o) == /\ o \in placed
                 /\ rows[o].method = "ppcbank"
                 /\ rows[o].hasRef

VerifyRead(w, o) ==
    /\ At(w, "read", o)
    /\ IF Verifiable(o)
       THEN Goto(w, [task[w] EXCEPT !.step = "ask", !.copy = rows[o]])
       ELSE Finish(w)
    /\ UNCHANGED <<placed, rows, bank, urlSent, alerts, missed, losses>>

\* Mutant of VerifyAsk: the webhook's word is taken instead of the bank's.
VerifyAskTrusting(w, o) ==
    /\ At(w, "ask", o)
    /\ Goto(w, [task[w] EXCEPT !.step = "save",
                               !.paid = TRUE,
                               !.already = (task[w].copy.payment = "paid")])
    /\ UNCHANGED <<placed, rows, bank, urlSent, alerts, missed, losses>>

\* Mutant of VerifyAsk: alreadyPaid is computed after the assignment.
VerifyAskLate(w, o) ==
    /\ At(w, "ask", o)
    /\ Goto(w, [task[w] EXCEPT !.step = "save",
                               !.paid = (bank[o] = "paid"),
                               !.already = (bank[o] = "paid")])
    /\ UNCHANGED <<placed, rows, bank, urlSent, alerts, missed, losses>>

\* CheckPPCBankPaymentStatus: the bank's answer as it stands at this moment;
\* it is used later.
VerifyAsk(w, o) ==
    /\ At(w, "ask", o)
    /\ Goto(w, [task[w] EXCEPT !.step = "save",
                               !.paid = (bank[o] = "paid"),
                               !.already = (task[w].copy.payment = "paid")])
    /\ UNCHANGED <<placed, rows, bank, urlSent, alerts, missed, losses>>

\* Mutant of Verified: a paid order is moved on along with its payment.
VerifiedConfirms(t) ==
    IF t.paid
    THEN {[t.copy EXCEPT !.payment = "paid", !.status = s] :
             s \in Statuses \ {Pending}}
    ELSE {t.copy}

\* The row as VerifyPPCBankPayment is about to save it. A paid answer may
\* leave the reference number out.
Verified(t) ==
    IF t.paid
    THEN {[t.copy EXCEPT !.payment = "paid", !.invoiced = i] :
             i \in {t.copy.invoiced, TRUE}}
    ELSE {t.copy}

\* Mutant of FirstSeenPaid: every paid answer is announced.
SeenPaid(t) == t.paid

\* Only a worker that read the row unpaid announces the payment.
FirstSeenPaid(t) == t.paid /\ ~t.already

VerifySave(w, o) ==
    /\ At(w, "save", o)
    /\ \E r \in Verified(task[w]) : Save(o, r)
    /\ IF FirstSeenPaid(task[w])
       THEN Goto(w, [task[w] EXCEPT !.step = "notify"])
       ELSE Finish(w)
    /\ UNCHANGED <<placed, bank, urlSent, alerts, missed, losses>>

\* The save is done but its answer is lost with the connection: the handler
\* returns the error and announces nothing.
VerifySaveUnanswered(w, o) ==
    /\ At(w, "save", o)
    /\ losses < MaxLosses
    /\ losses' = losses + 1
    /\ \E r \in Verified(task[w]) : Save(o, r)
    /\ missed' = missed \cup {p \in {o} : FirstSeenPaid(task[w])}
    /\ Finish(w)
    /\ UNCHANGED <<placed, bank, urlSent, alerts>>

\* NotifyOrderPaid hands the message to a goroutine that tries Telegram once.
\* It arrives, or is dropped without an error: no bot configured, no answer
\* in 10 seconds, or a status other than 200. Nothing reads which it was, so
\* it is decided at the hand-over; the row is then fetched for the answer.
VerifyNotify(w, o) ==
    /\ At(w, "notify", o)
    /\ \/ /\ alerts' = [alerts EXCEPT ![o] = IF @ = 0 THEN 1 ELSE 2]
          /\ UNCHANGED missed
       \/ /\ missed' = missed \cup {o}
          /\ UNCHANGED alerts
    /\ Finish(w)
    /\ UNCHANGED <<placed, rows, bank, urlSent, losses>>

\* The bank cannot be reached, its answer does not come in 15 seconds, or
\* the database refuses the save: the row stays as it is.
VerifyFail(w, o) ==
    /\ \E s \in {"ask", "save"} : At(w, s, o)
    /\ Finish(w)
    /\ UNCHANGED <<placed, rows, bank, urlSent, alerts, missed, losses>>

-----------------------------------------------------------------------------
(* UpdateStatus.                                                           *)

StatusRead(w, o, s) ==
    /\ task[w].step = "idle"
    /\ o \in placed
    /\ Goto(w, [Idle EXCEPT !.step = "savestatus", !.order = o,
                            !.copy = rows[o], !.status = s])
    /\ UNCHANGED <<placed, rows, bank, urlSent, alerts, missed, losses>>

\* Mutant of StatusSave: a fresh row is saved instead of the one read.
StatusSaveFresh(w, o) ==
    /\ At(w, "savestatus", o)
    /\ Save(o, [NewRow(task[w].copy.method, task[w].copy.hasRef)
                  EXCEPT !.status = task[w].status])
    /\ Finish(w)
    /\ UNCHANGED <<placed, bank, urlSent, alerts, missed, losses>>

StatusSave(w, o) ==
    /\ At(w, "savestatus", o)
    /\ \/ Save(o, [task[w].copy EXCEPT !.status = task[w].status])
       \/ UNCHANGED rows                     \* the database refuses it
    /\ Finish(w)
    /\ UNCHANGED <<placed, bank, urlSent, alerts, missed, losses>>

-----------------------------------------------------------------------------
(* The customer at the bank, the bank's clock, and the server process.     *)

\* A customer who was sent to the bill's page pays it there.
Pay(o) ==
    /\ bank[o] = "open"
    /\ o \in urlSent
    /\ bank' = [bank EXCEPT ![o] = "paid"]
    /\ UNCHANGED <<placed, rows, urlSent, alerts, missed, task, losses>>

\* The bill expires (expiredTime is 300 seconds) or is cancelled.
Expire(o) ==
    /\ bank[o] = "open"
    /\ bank' = [bank EXCEPT ![o] = "closed"]
    /\ UNCHANGED <<placed, rows, urlSent, alerts, missed, task, losses>>

\* The bank gives a payment back; from then on it does not answer "paid".
Refund(o) ==
    /\ bank[o] = "paid"
    /\ bank' = [bank EXCEPT ![o] = "refunded"]
    /\ UNCHANGED <<placed, rows, urlSent, alerts, missed, task, losses>>

\* Some handler is about to send the alert of this order.
AlertComing(o) == \E w \in Workers : At(w, "notify", o)

\* The process stops and starts again: every request in progress is lost, and
\* with it the message it was about to send.
Crash ==
    /\ losses < MaxLosses
    /\ losses' = losses + 1
    /\ task' = [w \in Workers |-> Idle]
    /\ missed' = missed \cup {o \in OrderIds : AlertComing(o)}
    /\ UNCHANGED <<placed, rows, bank, urlSent, alerts>>

Checkout(w, o) ==
    \/ CashCheckout(w, o)
    \/ InitiateCreate(w, o)
    \/ InitiateSetRef(w, o)
    \/ InitiateGenerate(w, o)
    \/ InitiateRespond(w, o)

Verify(w, o) ==
    \/ WebhookNotify(w, o)
    \/ ReturnStatus(w, o)
    \/ AdminVerify(w, o)
    \/ VerifyRead(w, o)
    \/ VerifyAsk(w, o)
    \/ VerifySave(w, o)
    \/ VerifySaveUnanswered(w, o)
    \/ VerifyNotify(w, o)
    \/ VerifyFail(w, o)

UpdateStatus(w, o) ==
    \/ \E s \in Statuses : StatusRead(w, o, s)
    \/ StatusSave(w, o)

Next ==
    \/ \E w \in Workers, o \in OrderIds :
          Checkout(w, o) \/ Verify(w, o) \/ UpdateStatus(w, o)
    \/ \E o \in OrderIds : Pay(o) \/ Expire(o) \/ Refund(o)
    \/ Crash

Spec == Init /\ [][Next]_vars

\* A request that was begun goes on (the Go scheduler runs every goroutine
\* and every call has a timeout). Staff press re-check while a paid order is
\* shown as unpaid, and a call to the bank that is tried for ever succeeds
\* in the end.
Fairness ==
    \A o \in OrderIds :
        /\ SF_vars(\E w \in Workers :
                      rows[o].payment # "paid" /\ AdminVerify(w, o))
        /\ \A w \in Workers :
              /\ WF_vars(InitiateSetRef(w, o))
              /\ WF_vars(InitiateGenerate(w, o))
              /\ WF_vars(InitiateRespond(w, o))
              /\ WF_vars(VerifyRead(w, o))
              /\ SF_vars(VerifyAsk(w, o))
              /\ SF_vars(VerifySave(w, o))
              /\ WF_vars(VerifyNotify(w, o))
              /\ WF_vars(StatusSave(w, o))

FairSpec == Spec /\ Fairness

-----------------------------------------------------------------------------
(* Safety.                                                                 *)

\* An order is recorded as paid only when PPCBank took its payment, whatever
\* the webhook claimed and however late an answer is written back
\* (ppcbank_webhook_controller.go: the payload is never trusted).
PaidAtBank ==
    \A o \in OrderIds : rows[o].payment = "paid" => BankHeld(o)

\* The bank's invoice number is on a row only together with "paid": no mix of
\* two handlers' whole-row saves leaves one without the other
\* (models/order.go: Invoice is empty until the payment is verified).
InvoiceOnlyIfPaid ==
    \A o \in OrderIds : rows[o].invoiced => rows[o].payment = "paid"

\* Staff are told only of payments the bank really took, of PPCBank orders.
AlertsAreTrue ==
    \A o \in OrderIds :
        alerts[o] > 0 => BankHeld(o) /\ rows[o].method = "ppcbank"

\* What is recorded, invoiced or announced as paid is a payment the bank
\* took, however the handlers of an order overlap, fail and repeat.
RecordsAreTrue == PaidAtBank /\ InvoiceOnlyIfPaid /\ AlertsAreTrue

\* A payment that is recorded has been announced, is about to be, or its own
\* message was due and lost: Telegram dropped it (telegram_service.go, send),
\* or the handler that had to send it lost the answer of its save or was cut
\* off. Comparing with a row read earlier never makes every handler believe
\* that another one sends the message (order_service.go, alreadyPaid).
PaidIsAnnounced ==
    \A o \in OrderIds :
        rows[o].payment = "paid" =>
            alerts[o] > 0 \/ AlertComing(o) \/ o \in missed

-----------------------------------------------------------------------------
(* What the code's comments say that overlapping handlers do not keep; each *)
(* holds when requests do not overlap.                                      *)

\* The alert "only fires on the actual unpaid->paid transition", so once
\* for an order (order_service.go, VerifyPPCBankPayment).
AlertedOnce == \A o \in OrderIds : alerts[o] < 2

\* A recorded payment is independent of fulfilment, so no step takes it back
\* (models/order.go, Order).
KeepsPaid ==
    \A o \in OrderIds : rows[o].payment = "paid" => rows'[o].payment = "paid"

PaidIsFinal == [][KeepsPaid]_vars

\* PaymentReference, once the customer is on the bank's page, is what ties
\* the bank's answer to the order (order_service.go,
\* InitiatePPCBankCheckout), so it is not lost.
UrlHasReference == \A o \in urlSent : rows[o].hasRef

\* A step that records a payment leaves the fulfilment status alone
\* (models/order.go: PaymentStatus is deliberately separate from Status).
KeepsStatus ==
    \A o \in OrderIds :
        rows'[o].payment # rows[o].payment => rows'[o].status = rows[o].status

-----------------------------------------------------------------------------
(* Liveness.                                                               *)

\* A payment the bank holds is recorded in the end, whatever calls fail and
\* whenever the process restarts, as long as the order kept its reference and
\* the bank the money.
PaymentRecorded ==
    \A o \in OrderIds :
        bank[o] = "paid" ~> \/ rows[o].payment = "paid"
                            \/ ~rows[o].hasRef
                            \/ bank[o] = "refunded"
=============================================================================
