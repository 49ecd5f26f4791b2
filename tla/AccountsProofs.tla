--------------------------- MODULE AccountsProofs ---------------------------
(***************************************************************************)
(* Proofs about the ways to an account, for any number of phones, rows and *)
(* overlapping requests.                                                   *)
(*                                                                         *)
(* OtpVerification: an account is proved by a code that went to its phone, *)
(* or to the one chat linked to it, and is made of a form submitted for    *)
(* it, no code is accepted twice, and a verified registration is not       *)
(* forgotten. A code is in one place at     *)
(* most: in the hands of the request that sent it, or on one row. Rows     *)
(* keep their phone and their form for ever, so a copy of a row that is    *)
(* written back late changes neither.                                      *)
(*                                                                         *)
(* CustomerAccounts: a session is given for an account that was enabled;   *)
(* what each request was answered stands while requests on one account do  *)
(* not overlap; and one request at a time, the lookups find what an index  *)
(* would refuse. What a request has not looked up yet, no other row has.   *)
(***************************************************************************)
EXTENDS MCCustomerAccounts, FiniteSetTheorems, SequenceTheorems, WellFoundedInduction,
        TLAPS

AskTask == [step: {"request"}, phone: Phones, form: Forms \cup {NoForm}]
InsertTask == [step: {"insert"}, row: Request]
FindTask == [step: {"smsfind"}, phone: Phones, code: Codes]

SaveSteps == {"link", "savecode"}
LinkTask == [step: {"link"}, id: Nat, row: Request, code: Codes, chat: Chats]
SaveTask == [step: {"savecode"}, id: Nat, row: Request, code: Codes]

CreateSteps == {"check", "create"}
CreateTask == [step: CreateSteps, phone: Phones, form: Forms, code: Codes]

Task == {Idle} \cup AskTask \cup InsertTask \cup FindTask \cup LinkTask \cup SaveTask
        \cup CreateTask

Types ==
    /\ TypeOK
    /\ Len(sent) <= MaxCodes
    /\ task \in [Workers -> Task]

\* Code c went to phone p or to the chat linked to it; s stands for `sent`, l
\* for `links`.
Proves(s, l, c, p) ==
    /\ p \in Phones /\ c \in DOMAIN s
    /\ s[c] = p \/ (l[p] # NoChat /\ s[c] = l[p])

\* A phone keeps its chat.
LinksGrow == \A p \in Phones : links'[p] = links[p] \/ links[p] = NoChat

\* A row's code went to its phone or chat, and its form was submitted for its phone.
RowOK(r, s, l, a) ==
    /\ r.code # NoCode => Proves(s, l, r.code, r.phone)
    /\ r.form # NoForm => <<r.phone, r.form>> \in a

\* The same of what requests hold. A copy has the phone and the form of the
\* row it will be written to; q stands for `reqs`, s for `sent`, a for `asked`.
TaskOK(t, q, s, l, a) ==
    /\ t.step = "request" /\ t.form # NoForm => <<t.phone, t.form>> \in a
    /\ t.step = "insert" => RowOK(t.row, s, l, a) /\ ~t.row.verified
    /\ t.step = "smsfind" => Proves(s, l, t.code, t.phone)
    /\ t.step \in SaveSteps => /\ t.id \in DOMAIN q
                               /\ q[t.id].phone = t.row.phone
                               /\ q[t.id].form = t.row.form
                               /\ ~t.row.verified
    /\ t.step = "link" => t.code \in DOMAIN s /\ s[t.code] = t.chat
    /\ t.step = "savecode" => Proves(s, l, t.code, t.row.phone)
    /\ t.step \in CreateSteps => /\ Proves(s, l, t.code, t.phone)
                                 /\ <<t.phone, t.form>> \in a

HeldInv ==
    /\ \A i \in DOMAIN reqs : RowOK(reqs[i], sent, links, asked)
    /\ \A w \in Workers : TaskOK(task[w], reqs, sent, links, asked)

\* The code a request has sent and not saved yet.
Carried(t) ==
    IF t.step = "insert" THEN t.row.code
    ELSE IF t.step \in SaveSteps \cup {"smsfind"} THEN t.code
    ELSE NoCode

\* A code is in one place at most.
UniqueInv ==
    /\ \A i, j \in DOMAIN reqs :
          reqs[i].code = reqs[j].code /\ reqs[i].code # NoCode => i = j
    /\ \A w \in Workers : \A i \in DOMAIN reqs :
          Carried(task[w]) # NoCode => reqs[i].code # Carried(task[w])
    /\ \A v, w \in Workers :
          Carried(task[v]) = Carried(task[w]) /\ Carried(task[v]) # NoCode => v = w

\* A code that was accepted is on its way to no row, and where it is the row
\* is marked.
UseInv ==
    \A c \in Codes :
        /\ uses[c] <= 1
        /\ uses[c] = 1 => /\ c \in DOMAIN sent
                          /\ \A w \in Workers : Carried(task[w]) # c
                          /\ \A i \in DOMAIN reqs : reqs[i].code = c => reqs[i].verified

\* A verified registration has its account, or met another, or is being made,
\* or its request was cut off;
\* k stands for `task`.
Taken(p, f) == PhoneTaken(p) \/ EmailTaken(f)

Creating(k, r) ==
    \E w \in Workers : /\ k[w].step \in CreateSteps
                       /\ k[w].phone = r.phone /\ k[w].form = r.form /\ k[w].code = r.code

PendingInv ==
    \A i \in DOMAIN reqs :
        reqs[i].verified /\ reqs[i].form # NoForm =>
            \/ reqs[i].code \in cut
            \/ Taken(reqs[i].phone, reqs[i].form)
            \/ Creating(task, reqs[i])

ProvenInv ==
    \A a \in accounts : Proves(sent, links, a.code, a.phone) /\ <<a.phone, a.form>> \in asked

IInv ==
    /\ Types /\ HeldInv /\ UniqueInv /\ UseInv /\ PendingInv
    /\ ProvenInv /\ OneAccountEach

-----------------------------------------------------------------------------
(* The latest row.                                                         *)

LessThan == {p \in Nat \X Nat : p[1] < p[2]}

\* A nonempty set of naturals has a least element.
LEMMA LeastNat ==
    ASSUME NEW T \in SUBSET Nat, T # {}
    PROVE  \E m \in T : \A n \in T : m <= n
<1>1. IsWellFoundedOn(LessThan, Nat)
    <2>1. LessThan = OpToRel(<, Nat)
        BY DEF OpToRel, LessThan
    <2> QED BY <2>1, NatLessThanWellFounded, Zenon
<1>2. PICK m \in T : \A n \in T : ~(<<n, m>> \in LessThan)
    BY <1>1, WFMin, Zenon
<1>3. ASSUME NEW n \in T PROVE m <= n
    <2>1. n < m => <<n, m>> \in LessThan
        BY DEF LessThan
    <2> QED BY <1>2, <2>1
<1> QED BY <1>3

\* A nonempty set of numbers up to n has its maximum.
LEMMA MaxOfBounded ==
    ASSUME NEW n \in Nat, NEW S \in SUBSET (1..n), S # {}
    PROVE  Max(S) \in S
<1> DEFINE T == {n - i : i \in S}
<1>1. T \in SUBSET Nat /\ T # {}
    <2>1. \A i \in S : n - i \in Nat
        OBVIOUS
    <2> QED BY <2>1
<1>2. PICK m \in T : \A k \in T : m <= k
    BY <1>1, LeastNat
<1>3. PICK i \in S : m = n - i
    BY <1>2
<1>4. \A j \in S : i >= j
    BY <1>2, <1>3
<1> QED BY <1>3, <1>4 DEF Max

\* The queries return a row they ask for.
LEMMA LatestRow ==
    ASSUME Types, NEW p, Unverified(p) # {}
    PROVE  /\ Latest(p) \in DOMAIN reqs
           /\ reqs[Latest(p)].phone = p /\ ~reqs[Latest(p)].verified
<1>1. Len(reqs) \in Nat /\ DOMAIN reqs = 1..Len(reqs)
    BY LenProperties DEF Types, TypeOK
<1>2. Latest(p) \in Unverified(p)
    BY <1>1, MaxOfBounded DEF Latest, Unverified
<1> QED BY <1>2 DEF Unverified

\* The step says which fields a task has.
LEMMA TaskOfStep ==
    ASSUME NEW t \in Task
    PROVE  /\ t.step = "request" => t \in AskTask
           /\ t.step = "insert" => t \in InsertTask
           /\ t.step = "smsfind" => t \in FindTask
           /\ t.step = "link" => t \in LinkTask
           /\ t.step = "savecode" => t \in SaveTask
           /\ t.step \in CreateSteps => t \in CreateTask
<1>1. t \in AskTask => t.step = "request"
    BY DEF AskTask
<1>2. t \in InsertTask => t.step = "insert"
    BY DEF InsertTask
<1>3. t \in FindTask => t.step = "smsfind"
    BY DEF FindTask
<1>4. t \in SaveTask => t.step = "savecode"
    BY DEF SaveTask
<1>7. t \in LinkTask => t.step = "link"
    BY DEF LinkTask
<1>5. t \in CreateTask => t.step \in CreateSteps
    BY DEF CreateTask
<1>6. t = Idle => t.step = "idle"
    BY DEF Idle
<1> QED BY <1>1, <1>2, <1>3, <1>4, <1>5, <1>6, <1>7 DEF Task, CreateSteps

-----------------------------------------------------------------------------

LEMMA OtpInit == Init => IInv
<1> SUFFICES ASSUME Init PROVE IInv
    OBVIOUS
<1> USE OtpAssumption
<1>1. TypeOK /\ Len(sent) <= MaxCodes
    BY EmptySeq DEF Init, TypeOK
<1>2. Types
    BY <1>1 DEF Init, Types, Task
<1>3. \A w \in Workers : task[w].step = "idle"
    BY DEF Init, Idle
<1>4. HeldInv
    BY <1>3 DEF Init, HeldInv, TaskOK, SaveSteps, CreateSteps
<1>5. UniqueInv
    BY <1>3 DEF Init, UniqueInv, Carried, SaveSteps
<1>6. UseInv /\ PendingInv /\ ProvenInv /\ OneAccountEach
    BY DEF Init, UseInv, PendingInv, ProvenInv, OneAccountEach
<1> QED BY <1>2, <1>4, <1>5, <1>6 DEF IInv

\* The codes grow by the one that goes out.
LEMMA SentGrows ==
    ASSUME Types, NEW p \in Recipients, Send(p)
    PROVE  /\ sent' \in Seq(Recipients) /\ Len(sent') <= MaxCodes
           /\ DOMAIN sent \subseteq DOMAIN sent'
           /\ \A c \in DOMAIN sent : sent'[c] = sent[c]
           /\ NextCode \in Codes /\ NextCode \notin DOMAIN sent
           /\ NextCode \in DOMAIN sent' /\ sent'[NextCode] = p
<1>1. /\ sent \in Seq(Recipients) /\ Len(sent) \in Nat /\ DOMAIN sent = 1..Len(sent)
      /\ sent' = Append(sent, p) /\ NextCode = Len(sent) + 1 /\ NextCode <= MaxCodes
    BY LenProperties DEF Types, TypeOK, Send, NextCode
<1>2. /\ sent' \in Seq(Recipients) /\ Len(sent') = Len(sent) + 1
      /\ \A c \in 1..Len(sent) : sent'[c] = sent[c]
      /\ sent'[Len(sent) + 1] = p
    BY <1>1, AppendProperties
<1>3. DOMAIN sent' = 1..(Len(sent) + 1)
    BY <1>1, <1>2, LenProperties
<1> QED BY <1>1, <1>2, <1>3, OtpAssumption DEF Codes

\* A request goes on to t: rows and accounts rest, codes and submitted forms
\* may grow. It carries what it carried, a code just sent, or none.
LEMMA MoveStep ==
    ASSUME IInv, NEW w \in Workers, NEW t \in Task, Goto(w, t),
           UNCHANGED <<reqs, accounts, stored, uses, wrong, cut, losses>>,
           links' \in [Phones -> Chats \cup {NoChat}], LinksGrow,
           asked \subseteq asked', asked' \subseteq Phones \X Forms,
           sent' = sent \/ \E p \in Recipients : Send(p),
           TaskOK(t, reqs, sent', links', asked'),
           \/ Carried(t) \in {NoCode, Carried(task[w])}
           \/ Carried(t) = NextCode /\ sent' # sent,
           task[w].step \in CreateSteps =>
              \/ Taken(task[w].phone, task[w].form)
              \/ /\ t.step \in CreateSteps /\ t.phone = task[w].phone
                 /\ t.form = task[w].form /\ t.code = task[w].code
    PROVE  IInv'
<1> USE OtpAssumption
<1>1. /\ task \in [Workers -> Task] /\ task' \in [Workers -> Task] /\ task'[w] = t
      /\ \A v \in Workers \ {w} : task'[v] = task[v]
    BY DEF Goto, IInv, Types
<1>2. /\ sent' \in Seq(Recipients) /\ Len(sent') <= MaxCodes
      /\ DOMAIN sent \subseteq DOMAIN sent'
      /\ \A c \in DOMAIN sent : sent'[c] = sent[c]
      /\ sent' # sent => NextCode \in Codes /\ NextCode \notin DOMAIN sent
    <2>1. CASE sent' = sent
        BY <2>1 DEF IInv, Types, TypeOK
    <2>2. CASE \E p \in Recipients : Send(p)
        BY <2>2, SentGrows DEF IInv
    <2> QED BY <2>1, <2>2
<1>3. Types'
    BY <1>1, <1>2 DEF IInv, Types, TypeOK
<1>4. HeldInv'
    <2>1. ASSUME NEW r, RowOK(r, sent, links, asked) PROVE RowOK(r, sent', links', asked')
        BY <1>2, <2>1 DEF RowOK, Proves, LinksGrow
    <2>2. ASSUME NEW u, TaskOK(u, reqs, sent, links, asked) PROVE TaskOK(u, reqs, sent', links', asked')
        BY <1>2, <2>1, <2>2 DEF TaskOK, Proves, LinksGrow
    <2>3. \A i \in DOMAIN reqs : RowOK(reqs[i], sent', links', asked')
        BY <2>1 DEF IInv, HeldInv
    <2>4. \A v \in Workers : TaskOK(task'[v], reqs, sent', links', asked')
        BY <1>1, <2>2 DEF IInv, HeldInv
    <2> QED BY <2>3, <2>4 DEF HeldInv
<1>5. /\ \A i \in DOMAIN reqs : reqs[i].code # NoCode => reqs[i].code \in DOMAIN sent
      /\ \A v \in Workers : Carried(task[v]) # NoCode => Carried(task[v]) \in DOMAIN sent
    BY DEF IInv, HeldInv, RowOK, TaskOK, Proves, Carried, SaveSteps
<1>6. UniqueInv'
    BY <1>1, <1>2, <1>5 DEF IInv, UniqueInv
<1>7. UseInv'
    BY <1>1, <1>2 DEF IInv, UseInv, Codes, NoCode
<1>8. PendingInv'
    <2>1. SUFFICES ASSUME NEW i \in DOMAIN reqs, reqs[i].verified, reqs[i].form # NoForm,
                          ~Taken(reqs[i].phone, reqs[i].form), reqs[i].code \notin cut
                   PROVE  Creating(task', reqs[i])
        BY DEF PendingInv, Taken, PhoneTaken, EmailTaken
    <2>2. PICK v \in Workers : /\ task[v].step \in CreateSteps
                               /\ task[v].phone = reqs[i].phone /\ task[v].form = reqs[i].form
                               /\ task[v].code = reqs[i].code
        BY <2>1 DEF IInv, PendingInv, Creating
    <2>3. /\ task'[v].step \in CreateSteps
          /\ task'[v].phone = reqs[i].phone /\ task'[v].form = reqs[i].form
          /\ task'[v].code = reqs[i].code
        BY <1>1, <2>1, <2>2
    <2> QED BY <2>3 DEF Creating
<1>9. ProvenInv'
    BY <1>2 DEF IInv, ProvenInv, Proves, LinksGrow
<1>10. OneAccountEach'
    BY DEF IInv, OneAccountEach
<1> QED BY <1>3, <1>4, <1>6, <1>7, <1>8, <1>9, <1>10 DEF IInv

\* One row is written.
LEMMA RowWritten ==
    ASSUME Types, NEW i \in DOMAIN reqs, NEW r \in Request, reqs' = [reqs EXCEPT ![i] = r]
    PROVE  /\ reqs' \in Seq(Request) /\ Len(reqs') = Len(reqs) /\ DOMAIN reqs' = DOMAIN reqs
           /\ \A j \in DOMAIN reqs : reqs'[j] = IF j = i THEN r ELSE reqs[j]
<1>1. reqs \in Seq(Request) /\ DOMAIN reqs = 1..Len(reqs)
    BY LenProperties DEF Types, TypeOK
<1>2. /\ reqs' \in Seq(Request) /\ Len(reqs') = Len(reqs)
      /\ \A j \in 1..Len(reqs) : reqs'[j] = IF j = i THEN r ELSE reqs[j]
    BY <1>1, ExceptSeq
<1> QED BY <1>1, <1>2, LenProperties

\* A new row takes over the code that the request carried.
LEMMA InsertStep ==
    ASSUME IInv, NEW w \in Workers, At(w, "insert"), Insert(task[w].row), Finish(w),
           UNCHANGED <<links, accounts, sent, history>>
    PROVE  IInv'
<1> USE OtpAssumption
<1> DEFINE t == task[w]
           r == t.row
           n == Len(reqs) + 1
<1>1. /\ t.step = "insert" /\ r \in Request /\ RowOK(r, sent, links, asked) /\ ~r.verified
      /\ Carried(t) = r.code
    <2>1. t \in InsertTask /\ t.step = "insert"
        BY TaskOfStep DEF IInv, Types, At
    <2>2. TaskOK(t, reqs, sent, links, asked)
        BY DEF IInv, HeldInv
    <2> QED BY <2>1, <2>2 DEF InsertTask, TaskOK, Carried
<1>2. /\ task \in [Workers -> Task] /\ task' \in [Workers -> Task]
      /\ task'[w] = Idle /\ \A v \in Workers \ {w} : task'[v] = task[v]
    BY DEF Finish, Goto, IInv, Types, Task
<1>3. /\ reqs \in Seq(Request) /\ Len(reqs) \in Nat /\ DOMAIN reqs = 1..Len(reqs)
      /\ reqs' = Append(reqs, r) /\ Len(reqs) < MaxRows
    BY LenProperties DEF IInv, Types, TypeOK, Insert
<1>4. /\ reqs' \in Seq(Request) /\ Len(reqs') = n
      /\ \A j \in DOMAIN reqs : reqs'[j] = reqs[j]
      /\ reqs'[n] = r
    BY <1>1, <1>3, AppendProperties
<1>5. DOMAIN reqs' = DOMAIN reqs \cup {n} /\ n \notin DOMAIN reqs
    BY <1>3, <1>4, LenProperties
<1>6. Types'
    <2>1. stored' \subseteq DOMAIN sent
        BY <1>1 DEF Insert, RowOK, Proves, IInv, Types, TypeOK
    <2>2. Len(reqs') <= MaxRows
        BY <1>3, <1>4
    <2> QED BY <1>2, <1>4, <2>1, <2>2 DEF IInv, Types, TypeOK, history
<1> HIDE DEF t, r, n
<1>7. Idle.step = "idle" /\ Carried(Idle) = NoCode
    BY DEF Idle, Carried, SaveSteps
<1>8. HeldInv'
    <2>1. \A i \in DOMAIN reqs' : RowOK(reqs'[i], sent, links, asked)
        BY <1>1, <1>4, <1>5 DEF IInv, HeldInv
    <2>2. \A v \in Workers \ {w} : TaskOK(task[v], reqs, sent, links, asked)
        BY DEF IInv, HeldInv
    <2>3. \A v \in Workers \ {w} : TaskOK(task[v], reqs', sent, links, asked)
        BY <1>4, <1>5, <2>2 DEF TaskOK
    <2>4. TaskOK(Idle, reqs', sent, links, asked)
        BY <1>7 DEF TaskOK, SaveSteps, CreateSteps
    <2> QED BY <1>2, <2>1, <2>3, <2>4 DEF HeldInv, history
<1>9. UniqueInv'
    <2>1. \A i \in DOMAIN reqs : r.code # NoCode => reqs[i].code # r.code
        BY <1>1 DEF IInv, UniqueInv, t
    <2>2. \A v \in Workers \ {w} : r.code # NoCode => Carried(task[v]) # r.code
        BY <1>1 DEF IInv, UniqueInv, t
    <2>3. \A v \in Workers : Carried(task'[v]) # NoCode => v # w /\ task'[v] = task[v]
        BY <1>2, <1>7
    <2> QED BY <1>2, <1>4, <1>5, <2>1, <2>2, <2>3 DEF IInv, UniqueInv
<1>10. UseInv'
    <2>1. SUFFICES ASSUME NEW c \in Codes, uses[c] = 1
                   PROVE  /\ \A v \in Workers : Carried(task'[v]) # c
                          /\ \A i \in DOMAIN reqs' : reqs'[i].code = c => reqs'[i].verified
        BY DEF IInv, UseInv, history
    <2>2. \A v \in Workers : Carried(task[v]) # c
        BY <2>1 DEF IInv, UseInv
    <2>3. r.code # c /\ Carried(Idle) # c
        BY <1>1, <1>7, <2>2 DEF t, Codes, NoCode
    <2> QED BY <1>2, <1>4, <1>5, <2>1, <2>2, <2>3 DEF IInv, UseInv
<1>11. PendingInv'
    <2>1. SUFFICES ASSUME NEW i \in DOMAIN reqs', reqs'[i].verified, reqs'[i].form # NoForm,
                          ~Taken(reqs'[i].phone, reqs'[i].form), reqs'[i].code \notin cut
                   PROVE  Creating(task', reqs'[i])
        BY DEF PendingInv, Taken, PhoneTaken, EmailTaken, history
    <2>2. i \in DOMAIN reqs /\ reqs'[i] = reqs[i]
        BY <1>1, <1>4, <1>5, <2>1
    <2>3. PICK v \in Workers : /\ task[v].step \in CreateSteps
                               /\ task[v].phone = reqs[i].phone /\ task[v].form = reqs[i].form
                               /\ task[v].code = reqs[i].code
        BY <2>1, <2>2 DEF IInv, PendingInv, Creating
    <2>4. task'[v] = task[v]
        BY <1>1, <1>2, <2>3 DEF CreateSteps, t
    <2> QED BY <2>2, <2>3, <2>4 DEF Creating
<1>12. ProvenInv' /\ OneAccountEach'
    BY DEF IInv, ProvenInv, OneAccountEach, history
<1> QED BY <1>6, <1>8, <1>9, <1>10, <1>11, <1>12 DEF IInv

\* The copy that is written back has the code just sent. It may be older than
\* the row, which is then unverified again: under a new code.
LEMMA SaveStep ==
    ASSUME IInv, NEW w \in Workers, At(w, "savecode"),
           SaveCode(task[w].id, task[w].row, task[w].code), Finish(w),
           UNCHANGED <<links, accounts, sent, history>>
    PROVE  IInv'
<1> USE OtpAssumption
<1> DEFINE t == task[w]
           i == t.id
           r == [t.row EXCEPT !.code = t.code, !.live = TRUE]
<1>1. /\ t.step = "savecode" /\ t.row \in Request /\ t.code \in Codes /\ Carried(t) = t.code
      /\ i \in DOMAIN reqs /\ ~t.row.verified /\ Proves(sent, links, t.code, t.row.phone)
      /\ reqs[i].phone = t.row.phone /\ reqs[i].form = t.row.form
    <2>1. t \in SaveTask /\ t.step = "savecode"
        BY TaskOfStep DEF IInv, Types, At, SaveSteps
    <2>2. TaskOK(t, reqs, sent, links, asked)
        BY DEF IInv, HeldInv
    <2> QED BY <2>1, <2>2 DEF SaveTask, SaveSteps, TaskOK, Carried
<1>2. /\ task \in [Workers -> Task] /\ task' \in [Workers -> Task]
      /\ task'[w] = Idle /\ \A v \in Workers \ {w} : task'[v] = task[v]
    BY DEF Finish, Goto, IInv, Types, Task
<1>3. /\ r \in Request /\ r.code = t.code /\ ~r.verified
      /\ r.phone = reqs[i].phone /\ r.form = reqs[i].form
    BY <1>1 DEF Request
<1>4. reqs' = [reqs EXCEPT ![i] = r] /\ stored' = stored \cup {t.code}
    BY DEF SaveCode
<1> HIDE DEF t, i, r
<1>5. /\ reqs' \in Seq(Request) /\ Len(reqs') = Len(reqs) /\ DOMAIN reqs' = DOMAIN reqs
      /\ \A j \in DOMAIN reqs : reqs'[j] = IF j = i THEN r ELSE reqs[j]
    BY <1>1, <1>3, <1>4, RowWritten DEF IInv
<1>6. Types'
    BY <1>1, <1>2, <1>4, <1>5 DEF IInv, Types, TypeOK, history, Proves
<1>7. Idle.step = "idle" /\ Carried(Idle) = NoCode
    BY DEF Idle, Carried, SaveSteps
<1>8. HeldInv'
    <2>1. RowOK(r, sent, links, asked)
        BY <1>1, <1>3 DEF IInv, HeldInv, RowOK
    <2>2. \A j \in DOMAIN reqs' : RowOK(reqs'[j], sent, links, asked)
        BY <1>5, <2>1 DEF IInv, HeldInv
    <2>3. \A j \in DOMAIN reqs : reqs'[j].phone = reqs[j].phone /\ reqs'[j].form = reqs[j].form
        BY <1>3, <1>5
    <2>4. \A v \in Workers \ {w} : TaskOK(task[v], reqs, sent, links, asked)
        BY DEF IInv, HeldInv
    <2>5. \A v \in Workers \ {w} : TaskOK(task[v], reqs', sent, links, asked)
        BY <1>5, <2>3, <2>4 DEF TaskOK
    <2>6. TaskOK(Idle, reqs', sent, links, asked)
        BY <1>7 DEF TaskOK, SaveSteps, CreateSteps
    <2> QED BY <1>2, <2>2, <2>5, <2>6 DEF HeldInv, history
<1>9. UniqueInv'
    <2>1. t.code # NoCode /\ \A j \in DOMAIN reqs : reqs[j].code # t.code
        BY <1>1 DEF IInv, UniqueInv, t, Codes, NoCode
    <2>2. \A v \in Workers \ {w} : Carried(task[v]) # t.code
        BY <1>1, <2>1 DEF IInv, UniqueInv, t
    <2>3. \A v \in Workers : Carried(task'[v]) # NoCode => v # w /\ task'[v] = task[v]
        BY <1>2, <1>7
    <2> QED BY <1>2, <1>3, <1>5, <2>1, <2>2, <2>3 DEF IInv, UniqueInv
<1>10. UseInv'
    <2>1. SUFFICES ASSUME NEW c \in Codes, uses[c] = 1
                   PROVE  /\ \A v \in Workers : Carried(task'[v]) # c
                          /\ \A j \in DOMAIN reqs' : reqs'[j].code = c => reqs'[j].verified
        BY DEF IInv, UseInv, history
    <2>2. \A v \in Workers : Carried(task[v]) # c
        BY <2>1 DEF IInv, UseInv
    <2>3. r.code # c /\ Carried(Idle) # c
        BY <1>1, <1>3, <1>7, <2>2 DEF t, Codes, NoCode
    <2> QED BY <1>2, <1>5, <2>1, <2>2, <2>3 DEF IInv, UseInv
<1>11. PendingInv'
    <2>1. SUFFICES ASSUME NEW j \in DOMAIN reqs', reqs'[j].verified, reqs'[j].form # NoForm,
                          ~Taken(reqs'[j].phone, reqs'[j].form), reqs'[j].code \notin cut
                   PROVE  Creating(task', reqs'[j])
        BY DEF PendingInv, Taken, PhoneTaken, EmailTaken, history
    <2>2. j \in DOMAIN reqs /\ reqs'[j] = reqs[j]
        BY <1>3, <1>5, <2>1
    <2>3. PICK v \in Workers : /\ task[v].step \in CreateSteps
                               /\ task[v].phone = reqs[j].phone /\ task[v].form = reqs[j].form
                               /\ task[v].code = reqs[j].code
        BY <2>1, <2>2 DEF IInv, PendingInv, Creating
    <2>4. task'[v] = task[v]
        BY <1>1, <1>2, <2>3 DEF CreateSteps, t
    <2> QED BY <2>2, <2>3, <2>4 DEF Creating
<1>12. ProvenInv' /\ OneAccountEach'
    BY DEF IInv, ProvenInv, OneAccountEach, history
<1> QED BY <1>6, <1>8, <1>9, <1>10, <1>11, <1>12 DEF IInv

\* The right code marks the row; a registration goes on with its form.
LEMMA VerifyStep ==
    ASSUME IInv, NEW w \in Workers, NEW p \in Phones, NEW c \in DOMAIN sent,
           VerifyRight(w, p, c)
    PROVE  IInv'
<1> USE OtpAssumption
<1> DEFINE i == Latest(p)
           r == [reqs[i] EXCEPT !.verified = TRUE]
           t == [step |-> "check", phone |-> p, form |-> reqs[i].form, code |-> c]
<1>1. /\ i \in DOMAIN reqs /\ reqs[i].phone = p /\ ~reqs[i].verified /\ reqs[i].code = c
      /\ task[w].step = "idle" /\ reqs' = [reqs EXCEPT ![i] = r]
      /\ IF reqs[i].form = NoForm THEN task' = task ELSE task' = [task EXCEPT ![w] = t]
      /\ uses' = [uses EXCEPT ![c] = @ + 1]
      /\ UNCHANGED <<links, accounts, sent, stored, asked, wrong, cut, losses>>
    BY LatestRow DEF VerifyRight, At, Goto, IInv
<1>2. reqs[i] \in Request /\ c \in Codes
    <2>1. /\ reqs \in Seq(Request) /\ DOMAIN reqs = 1..Len(reqs)
          /\ DOMAIN sent = 1..Len(sent) /\ Len(sent) \in Nat /\ Len(sent) <= MaxCodes
        BY LenProperties DEF IInv, Types, TypeOK
    <2> QED BY <1>1, <2>1, ElementOfSeq DEF Codes
<1>3. /\ r \in Request /\ r.code = c /\ r.verified
      /\ r.phone = p /\ r.form = reqs[i].form
    BY <1>1, <1>2 DEF Request
<1>4. RowOK(reqs[i], sent, links, asked)
    BY <1>1 DEF IInv, HeldInv
<1>5. reqs[i].form # NoForm => t \in Task /\ t.step = "check"
    BY <1>2 DEF Task, CreateTask, CreateSteps, Request
<1>6. /\ t.step = "check" /\ t.phone = p /\ t.form = reqs[i].form /\ t.code = c
      /\ Carried(t) = NoCode
    BY DEF Carried, SaveSteps
<1> HIDE DEF i, r, t
<1>7. /\ reqs' \in Seq(Request) /\ Len(reqs') = Len(reqs) /\ DOMAIN reqs' = DOMAIN reqs
      /\ \A j \in DOMAIN reqs : reqs'[j] = IF j = i THEN r ELSE reqs[j]
    BY <1>1, <1>3, RowWritten DEF IInv
<1>8. \A j \in DOMAIN reqs : /\ reqs'[j].code = reqs[j].code
                             /\ reqs'[j].phone = reqs[j].phone
                             /\ reqs'[j].form = reqs[j].form
    BY <1>1, <1>3, <1>7
<1>9. /\ task \in [Workers -> Task] /\ task' \in [Workers -> Task]
      /\ \A v \in Workers \ {w} : task'[v] = task[v]
      /\ reqs[i].form = NoForm => task'[w] = task[w]
      /\ reqs[i].form # NoForm => task'[w] = t
    BY <1>1, <1>5 DEF IInv, Types
<1>10. \A v \in Workers : Carried(task'[v]) = Carried(task[v])
    <2>1. Carried(task[w]) = NoCode
        BY <1>1 DEF Carried, SaveSteps
    <2> QED BY <1>6, <1>9, <2>1
<1>11. Types'
    BY <1>1, <1>2, <1>7, <1>9 DEF IInv, Types, TypeOK
<1>12. HeldInv'
    <2>1. RowOK(r, sent, links, asked)
        BY <1>1, <1>3, <1>4 DEF RowOK
    <2>2. \A j \in DOMAIN reqs' : RowOK(reqs'[j], sent, links, asked)
        BY <1>7, <2>1 DEF IInv, HeldInv
    <2>3. reqs[i].form # NoForm => TaskOK(t, reqs', sent, links, asked)
        BY <1>1, <1>2, <1>4, <1>6 DEF TaskOK, RowOK, SaveSteps, Codes, NoCode
    <2>4. \A v \in Workers : TaskOK(task[v], reqs, sent, links, asked)
        BY DEF IInv, HeldInv
    <2>5. \A v \in Workers : TaskOK(task[v], reqs', sent, links, asked)
        BY <1>7, <1>8, <2>4 DEF TaskOK
    <2>6. \A v \in Workers : TaskOK(task'[v], reqs', sent, links, asked)
        BY <1>9, <2>3, <2>5
    <2> QED BY <1>1, <2>2, <2>6 DEF HeldInv
<1>13. UniqueInv'
    BY <1>7, <1>8, <1>10 DEF IInv, UniqueInv
<1>14. UseInv'
    <2>1. uses[c] = 0 /\ uses'[c] = 1 /\ \A d \in Codes \ {c} : uses'[d] = uses[d]
        BY <1>1, <1>2 DEF IInv, UseInv, Types, TypeOK
    <2>2. /\ \A v \in Workers : Carried(task[v]) # c
          /\ \A j \in DOMAIN reqs : reqs[j].code = c => j = i
        BY <1>1, <1>2 DEF IInv, UniqueInv, Codes, NoCode
    <2>3. ASSUME NEW d \in Codes, d # c, uses[d] = 1
          PROVE  /\ d \in DOMAIN sent /\ \A v \in Workers : Carried(task'[v]) # d
                 /\ \A j \in DOMAIN reqs : reqs'[j].code = d => reqs'[j].verified
        BY <1>1, <1>3, <1>7, <1>8, <1>10, <2>3 DEF IInv, UseInv
    <2>4. \A j \in DOMAIN reqs : reqs'[j].code = c => reqs'[j].verified
        BY <1>3, <1>7, <1>8, <2>2
    <2>5. \A v \in Workers : Carried(task'[v]) # c
        BY <1>10, <2>2
    <2>6. \A d \in Codes : uses[d] <= 1
        BY DEF IInv, UseInv
    <2> QED BY <1>1, <1>7, <2>1, <2>3, <2>4, <2>5, <2>6 DEF UseInv
<1>15. PendingInv'
    <2>1. SUFFICES ASSUME NEW j \in DOMAIN reqs, reqs'[j].verified, reqs[j].form # NoForm,
                          ~Taken(reqs[j].phone, reqs[j].form), reqs[j].code \notin cut
                   PROVE  Creating(task', reqs[j])
        BY <1>1, <1>7, <1>8 DEF PendingInv, Taken, PhoneTaken, EmailTaken, Creating
    <2>2. CASE j = i
        BY <1>1, <1>6, <1>9, <2>1, <2>2 DEF Creating, CreateSteps
    <2>3. CASE j # i
        <3>1. PICK v \in Workers : /\ task[v].step \in CreateSteps
                                   /\ task[v].phone = reqs[j].phone /\ task[v].form = reqs[j].form
                                   /\ task[v].code = reqs[j].code
            BY <1>7, <2>1, <2>3 DEF IInv, PendingInv, Creating
        <3>2. task'[v] = task[v]
            BY <1>1, <1>9, <3>1 DEF CreateSteps
        <3> QED BY <3>1, <3>2 DEF Creating
    <2> QED BY <2>2, <2>3
<1>16. ProvenInv' /\ OneAccountEach'
    BY <1>1 DEF IInv, ProvenInv, OneAccountEach
<1> QED BY <1>11, <1>12, <1>13, <1>14, <1>15, <1>16 DEF IInv

\* Five minutes pass for a row.
LEMMA ExpireStep ==
    ASSUME IInv, NEW i \in DOMAIN reqs, Expire(i)
    PROVE  IInv'
<1> DEFINE r == [reqs[i] EXCEPT !.live = FALSE]
<1>1. reqs[i] \in Request
    <2>1. reqs \in Seq(Request) /\ DOMAIN reqs = 1..Len(reqs)
        BY LenProperties DEF IInv, Types, TypeOK
    <2> QED BY <2>1, ElementOfSeq
<1>2. /\ r \in Request /\ r.code = reqs[i].code /\ r.phone = reqs[i].phone
      /\ r.form = reqs[i].form /\ r.verified = reqs[i].verified
    BY <1>1 DEF Request
<1>3. /\ reqs' = [reqs EXCEPT ![i] = r]
      /\ UNCHANGED <<links, accounts, task, sent, stored, asked, uses, wrong, cut, losses>>
    BY DEF Expire, history
<1> HIDE DEF r
<1>4. /\ reqs' \in Seq(Request) /\ Len(reqs') = Len(reqs) /\ DOMAIN reqs' = DOMAIN reqs
      /\ \A j \in DOMAIN reqs : reqs'[j] = IF j = i THEN r ELSE reqs[j]
    BY <1>2, <1>3, RowWritten DEF IInv
<1>5. \A j \in DOMAIN reqs : /\ reqs'[j].code = reqs[j].code
                             /\ reqs'[j].phone = reqs[j].phone
                             /\ reqs'[j].form = reqs[j].form
                             /\ reqs'[j].verified = reqs[j].verified
    BY <1>2, <1>4
<1>6. Types'
    BY <1>3, <1>4 DEF IInv, Types, TypeOK
<1>7. HeldInv'
    <2>1. \A j \in DOMAIN reqs : RowOK(reqs[j], sent, links, asked)
        BY DEF IInv, HeldInv
    <2>2. \A j \in DOMAIN reqs' : RowOK(reqs'[j], sent, links, asked)
        BY <1>4, <1>5, <2>1 DEF RowOK
    <2>3. \A v \in Workers : TaskOK(task[v], reqs, sent, links, asked)
        BY DEF IInv, HeldInv
    <2>4. \A v \in Workers : TaskOK(task[v], reqs', sent, links, asked)
        BY <1>4, <1>5, <2>3 DEF TaskOK
    <2> QED BY <1>3, <2>2, <2>4 DEF HeldInv
<1>8. UniqueInv' /\ UseInv'
    BY <1>3, <1>4, <1>5 DEF IInv, UniqueInv, UseInv
<1>9. PendingInv'
    BY <1>3, <1>4, <1>5 DEF IInv, PendingInv, Taken, PhoneTaken, EmailTaken, Creating
<1>10. ProvenInv' /\ OneAccountEach'
    BY <1>3 DEF IInv, ProvenInv, OneAccountEach
<1> QED BY <1>6, <1>7, <1>8, <1>9, <1>10 DEF IInv

\* The account is created, or the unique indexes refuse it.
LEMMA CreateStep ==
    ASSUME IInv, NEW w \in Workers, CreateAccount(w)
    PROVE  IInv'
<1> DEFINE t == task[w]
           a == [phone |-> t.phone, form |-> t.form, code |-> t.code]
<1>1. /\ t.step = "create" /\ t \in CreateTask /\ t.step \in CreateSteps
      /\ Proves(sent, links, t.code, t.phone) /\ <<t.phone, t.form>> \in asked
    <2>1. t.step = "create" /\ t.step \in CreateSteps
        BY DEF CreateAccount, At, CreateSteps
    <2>2. t \in CreateTask /\ TaskOK(t, reqs, sent, links, asked)
        BY <2>1, TaskOfStep DEF IInv, Types, HeldInv
    <2> QED BY <2>1, <2>2 DEF TaskOK
<1>2. /\ task \in [Workers -> Task] /\ task' \in [Workers -> Task]
      /\ task'[w] = Idle /\ \A v \in Workers \ {w} : task'[v] = task[v]
      /\ UNCHANGED <<reqs, links, sent, stored, asked, uses, wrong, cut, losses>>
    BY DEF CreateAccount, Finish, Goto, IInv, Types, Task, history
<1>3. a \in Account /\ a.phone = t.phone /\ a.form = t.form /\ a.code = t.code
    BY <1>1 DEF Account, CreateTask
<1>4. \/ accounts' = accounts /\ Taken(t.phone, t.form)
      \/ accounts' = accounts \cup {a} /\ ~Taken(t.phone, t.form)
    BY DEF CreateAccount, Taken
<1> HIDE DEF t, a
<1>5. Idle.step = "idle" /\ Carried(Idle) = NoCode
    BY DEF Idle, Carried, SaveSteps
<1>6. Types'
    BY <1>2, <1>3, <1>4 DEF IInv, Types, TypeOK
<1>7. HeldInv'
    <2>1. \A v \in Workers \ {w} : TaskOK(task'[v], reqs, sent, links, asked)
        BY <1>2 DEF IInv, HeldInv
    <2>2. TaskOK(Idle, reqs, sent, links, asked)
        BY <1>5 DEF TaskOK, SaveSteps, CreateSteps
    <2>3. \A v \in Workers : TaskOK(task'[v], reqs, sent, links, asked)
        BY <1>2, <2>1, <2>2
    <2> QED BY <1>2, <2>3 DEF IInv, HeldInv
<1>8. \A v \in Workers : Carried(task'[v]) = Carried(task[v])
    <2>1. Carried(task[w]) = NoCode
        BY <1>1 DEF Carried, SaveSteps, t
    <2> QED BY <1>2, <1>5, <2>1
<1>9. UniqueInv' /\ UseInv'
    BY <1>2, <1>8 DEF IInv, UniqueInv, UseInv
<1>10. \A x \in accounts : x \in accounts'
    BY <1>4
<1>11. PendingInv'
    <2>1. SUFFICES ASSUME NEW i \in DOMAIN reqs, reqs[i].verified, reqs[i].form # NoForm,
                          reqs[i].code \notin cut
                   PROVE  \/ \E x \in accounts' : x.phone = reqs[i].phone
                          \/ \E x \in accounts' : x.form = reqs[i].form
                          \/ Creating(task', reqs[i])
        BY <1>2 DEF PendingInv, Taken, PhoneTaken, EmailTaken
    <2>2. CASE Taken(reqs[i].phone, reqs[i].form)
        BY <1>10, <2>2 DEF Taken, PhoneTaken, EmailTaken
    <2>3. CASE ~Taken(reqs[i].phone, reqs[i].form)
        <3>1. PICK v \in Workers : /\ task[v].step \in CreateSteps
                                   /\ task[v].phone = reqs[i].phone /\ task[v].form = reqs[i].form
                                   /\ task[v].code = reqs[i].code
            BY <2>1, <2>3 DEF IInv, PendingInv, Creating
        <3>2. CASE v = w
            <4>1. t.phone = reqs[i].phone /\ t.form = reqs[i].form
                BY <3>1, <3>2 DEF t
            <4>2. a \in accounts'
                BY <1>4, <2>3, <4>1
            <4> QED BY <1>3, <4>1, <4>2
        <3>3. CASE v # w
            BY <1>2, <3>1, <3>3 DEF Creating
        <3> QED BY <3>2, <3>3
    <2> QED BY <2>2, <2>3
<1>12. ProvenInv'
    BY <1>1, <1>2, <1>3, <1>4 DEF IInv, ProvenInv
<1>13. OneAccountEach'
    BY <1>3, <1>4 DEF IInv, OneAccountEach, Taken, PhoneTaken, EmailTaken
<1> QED BY <1>6, <1>7, <1>9, <1>11, <1>12, <1>13 DEF IInv

\* Requests are cut off; that, and which registrations it loses, is noted.
LEMMA LoseStep ==
    ASSUME IInv, NEW ws \in SUBSET Workers, Lose(ws)
    PROVE  IInv'
<1> USE OtpAssumption
<1> DEFINE lost == [w \in Workers |-> IF w \in ws THEN Idle ELSE task[w]]
<1>1. /\ task' = lost /\ losses' = losses + 1 /\ losses < MaxLosses /\ losses \in 0..MaxLosses
      /\ cut' = cut \cup {task[w].code : w \in {v \in ws : Creates(v)}}
      /\ UNCHANGED <<reqs, links, accounts, sent, stored, asked, uses, wrong>>
    BY DEF Lose, IInv, Types, TypeOK
<1>10. lost \in [Workers -> Task] /\ \A w \in Workers : lost[w] = task[w] \/ lost[w] = Idle
    BY DEF IInv, Types, Task
<1>11. \A w \in Workers : lost[w] = IF w \in ws THEN Idle ELSE task[w]
    OBVIOUS
<1> HIDE DEF lost
<1>12. \A w \in Workers : Creates(w) <=> task[w].step \in CreateSteps
    BY DEF Creates, At, CreateSteps
<1>13. \A w \in Workers : Creates(w) => task[w].code \in Codes
    BY <1>12, TaskOfStep DEF IInv, Types, CreateTask
<1>2. Types'
    <2>1. cut' \subseteq Codes
        BY <1>1, <1>13 DEF IInv, Types, TypeOK
    <2> QED BY <1>1, <1>10, <2>1 DEF IInv, Types, TypeOK
<1>3. \A q, s, l, a : TaskOK(Idle, q, s, l, a)
    BY DEF Idle, TaskOK, SaveSteps, CreateSteps
<1>4. Carried(Idle) = NoCode
    BY DEF Idle, Carried, SaveSteps
<1>5. HeldInv'
    <2>1. \A w \in Workers : TaskOK(lost[w], reqs, sent, links, asked)
        BY <1>3, <1>10 DEF IInv, HeldInv
    <2> QED BY <1>1, <2>1 DEF IInv, HeldInv
<1>6. UniqueInv'
    <2>1. \A w \in Workers : Carried(lost[w]) # NoCode => lost[w] = task[w]
        BY <1>4, <1>10
    <2> QED BY <1>1, <2>1 DEF IInv, UniqueInv
<1>7. UseInv'
    <2>1. \A w \in Workers : \A c \in Codes : Carried(lost[w]) = c => lost[w] = task[w]
        BY <1>4, <1>10 DEF Codes, NoCode
    <2> QED BY <1>1, <2>1 DEF IInv, UseInv
<1>8. PendingInv'
    <2>1. SUFFICES ASSUME NEW i \in DOMAIN reqs, reqs[i].verified, reqs[i].form # NoForm,
                          ~Taken(reqs[i].phone, reqs[i].form), reqs[i].code \notin cut'
                   PROVE  Creating(lost, reqs[i])
        BY <1>1 DEF PendingInv, Taken, PhoneTaken, EmailTaken
    <2>2. PICK v \in Workers : /\ task[v].step \in CreateSteps
                               /\ task[v].phone = reqs[i].phone /\ task[v].form = reqs[i].form
                               /\ task[v].code = reqs[i].code
        BY <1>1, <2>1 DEF IInv, PendingInv, Creating
    <2>3. v \notin ws
        BY <1>1, <1>12, <2>1, <2>2
    <2> QED BY <1>11, <2>2, <2>3 DEF Creating
<1>9. ProvenInv' /\ OneAccountEach'
    BY <1>1 DEF IInv, ProvenInv, OneAccountEach
<1> QED BY <1>2, <1>5, <1>6, <1>7, <1>8, <1>9 DEF IInv

\* Nothing but the tally of wrong codes changes: the rollback undoes the rest.
LEMMA RestStep ==
    ASSUME IInv, UNCHANGED <<reqs, links, accounts, task, sent, stored, asked, uses, cut, losses>>,
           wrong' \in [1..MaxRows -> 0..MaxAttempts]
    PROVE  IInv'
<1>1. Types' /\ HeldInv' /\ UniqueInv' /\ UseInv' /\ ProvenInv' /\ OneAccountEach'
    BY DEF IInv, Types, TypeOK, HeldInv, UniqueInv, UseInv, ProvenInv, OneAccountEach
<1>2. PendingInv'
    BY DEF IInv, PendingInv, Taken, PhoneTaken, EmailTaken
<1> QED BY <1>1, <1>2 DEF IInv

\* A request that ends, or goes on, without a code of its own.
LEMMA IdleOK ==
    /\ Idle \in Task /\ Idle.step = "idle" /\ Carried(Idle) = NoCode
    /\ \A q, s, l, a : TaskOK(Idle, q, s, l, a)
BY DEF Idle, Task, Carried, TaskOK, SaveSteps, CreateSteps

\* A request ends while codes may have gone out.
LEMMA EndStep ==
    ASSUME IInv, NEW w \in Workers, Finish(w),
           UNCHANGED <<reqs, links, accounts, stored, history>>,
           sent' = sent \/ \E p \in Recipients : Send(p),
           task[w].step \in CreateSteps => Taken(task[w].phone, task[w].form)
    PROVE  IInv'
<1>1. UNCHANGED <<reqs, accounts, stored, uses, wrong, cut, losses, links, asked>>
    BY DEF history
<1>2. /\ links' \in [Phones -> Chats \cup {NoChat}] /\ LinksGrow
      /\ asked \subseteq asked' /\ asked' \subseteq Phones \X Forms
    BY <1>1 DEF IInv, Types, TypeOK, LinksGrow
<1>3. Goto(w, Idle) /\ TaskOK(Idle, reqs, sent', links', asked')
    BY IdleOK DEF Finish
<1> QED BY <1>1, <1>2, <1>3, IdleOK, MoveStep DEF LinksGrow

\* Asking: RegisterRequestOTP, RequestOTP and requestOTP.
LEMMA AskStep ==
    ASSUME IInv, NEW w \in Workers
    PROVE  /\ \A p \in Phones, f \in Forms : StartRegister(w, p, f) => IInv'
           /\ \A p \in Phones : StartLogin(w, p) => IInv'
           /\ RequestSend(w) => IInv'
           /\ RequestToken(w) => IInv'
<1> USE OtpAssumption
<1>1. /\ links \in [Phones -> Chats \cup {NoChat}] /\ asked \subseteq Phones \X Forms /\ Types
      /\ TaskOK(task[w], reqs, sent, links, asked)
    BY DEF IInv, Types, TypeOK, HeldInv
<1>2. ASSUME NEW p \in Phones, NEW f \in Forms, StartRegister(w, p, f) PROVE IInv'
    <2> DEFINE t == [step |-> "request", phone |-> p, form |-> f]
    <2>1. t \in Task /\ t.step = "request" /\ t.phone = p /\ t.form = f /\ Carried(t) = NoCode
        BY DEF Task, AskTask, Carried, SaveSteps
    <2>2. /\ task[w].step = "idle" /\ Goto(w, t) /\ asked' = asked \cup {<<p, f>>}
          /\ UNCHANGED <<reqs, links, accounts, sent, stored, uses, wrong, cut, losses>>
        BY <1>2 DEF StartRegister, At
    <2> HIDE DEF t
    <2>3. TaskOK(t, reqs, sent', links', asked')
        BY <2>1, <2>2 DEF TaskOK, SaveSteps, CreateSteps
    <2>4. asked \subseteq asked' /\ asked' \subseteq Phones \X Forms /\ links' \in [Phones -> Chats \cup {NoChat}] /\ LinksGrow
        BY <1>1, <2>2 DEF LinksGrow
    <2>5. task[w].step \notin CreateSteps
        BY <2>2 DEF CreateSteps
    <2> QED BY <2>1, <2>2, <2>3, <2>4, <2>5, MoveStep DEF LinksGrow
<1>3. ASSUME NEW p \in Phones, StartLogin(w, p) PROVE IInv'
    <2> DEFINE t == [step |-> "request", phone |-> p, form |-> NoForm]
    <2>1. t \in Task /\ t.step = "request" /\ t.form = NoForm /\ Carried(t) = NoCode
        BY DEF Task, AskTask, Carried, SaveSteps
    <2>2. /\ task[w].step = "idle" /\ Goto(w, t)
          /\ UNCHANGED <<reqs, links, accounts, sent, stored, asked, uses, wrong, cut, losses>>
        BY <1>3 DEF StartLogin, At, history
    <2> HIDE DEF t
    <2>3. TaskOK(t, reqs, sent', links', asked')
        BY <2>1, <2>2 DEF TaskOK, SaveSteps, CreateSteps
    <2> QED BY <1>1, <2>1, <2>2, <2>3, MoveStep DEF CreateSteps, LinksGrow
<1>4. ASSUME At(w, "request")
      PROVE  /\ task[w].phone \in Phones /\ task[w].form \in Forms \cup {NoForm}
             /\ task[w].form # NoForm => <<task[w].phone, task[w].form>> \in asked
             /\ task[w].step = "request"
    <2>1. task[w] \in AskTask
        BY <1>1, <1>4, TaskOfStep DEF At, Types
    <2> QED BY <1>1, <1>4, <2>1 DEF AskTask, TaskOK, At
<1>5. ASSUME NEW r \in Request, RowOK(r, sent', links', asked'), ~r.verified,
             Goto(w, [step |-> "insert", row |-> r]), At(w, "request"),
             UNCHANGED <<reqs, links, accounts, stored, history>>,
             sent' = sent \/ \E p \in Recipients : Send(p),
             r.code = NoCode \/ (r.code = NextCode /\ sent' # sent)
      PROVE  IInv'
    <2> DEFINE t == [step |-> "insert", row |-> r]
    <2>1. t \in Task /\ t.step = "insert" /\ t.row = r /\ Carried(t) = r.code
        BY DEF Task, InsertTask, Carried
    <2> HIDE DEF t
    <2>2. TaskOK(t, reqs, sent', links', asked')
        BY <1>5, <2>1 DEF TaskOK, SaveSteps, CreateSteps
    <2>3. Goto(w, t) /\ UNCHANGED <<reqs, links, accounts, stored, asked, uses, wrong, cut, losses>>
        BY <1>5 DEF history, t
    <2> QED BY <1>1, <1>4, <1>5, <2>1, <2>2, <2>3, MoveStep DEF CreateSteps, LinksGrow
<1>6. ASSUME RequestSend(w) PROVE IInv'
    <2> DEFINE p == task[w].phone
               r == NewRequest(p, NextCode, FALSE, task[w].form)
               to == links[p]
    <2>5. to # NoChat /\ to \in Recipients
        BY <1>1, <1>4, <1>6 DEF RequestSend, Recipients
    <2>1. /\ At(w, "request") /\ UNCHANGED <<reqs, links, accounts, stored, history>>
          /\ task[w].step \notin CreateSteps /\ asked' = asked
        BY <1>6 DEF RequestSend, history, At, CreateSteps
    <2>2. CASE Finish(w) /\ UNCHANGED sent
        BY <2>1, <2>2, EndStep
    <2>3. CASE Send(to) /\ Finish(w)
        BY <2>1, <2>3, <2>5, EndStep
    <2>4. CASE Send(to) /\ Goto(w, [step |-> "insert", row |-> r])
        <3>1. /\ NextCode \in Codes /\ sent' # sent
              /\ Proves(sent', links', NextCode, p)
            BY <1>1, <1>4, <2>1, <2>4, <2>5, SentGrows DEF Proves
        <3>2. /\ r \in Request /\ r.code = NextCode /\ ~r.verified
              /\ r.phone = p /\ r.form = task[w].form
            BY <1>4, <2>1, <3>1 DEF NewRequest, Request
        <3> HIDE DEF r
        <3>3. RowOK(r, sent', links', asked')
            BY <1>4, <2>1, <3>1, <3>2 DEF RowOK
        <3> QED BY <1>5, <2>1, <2>4, <2>5, <3>1, <3>2, <3>3
    <2> QED BY <1>6, <2>2, <2>3, <2>4 DEF RequestSend
<1>7. ASSUME RequestToken(w) PROVE IInv'
    <2> DEFINE r == NewRequest(task[w].phone, NoCode, TRUE, task[w].form)
    <2>1. /\ At(w, "request") /\ UNCHANGED <<reqs, links, accounts, stored, history>>
          /\ sent' = sent /\ asked' = asked /\ Goto(w, [step |-> "insert", row |-> r])
        BY <1>7 DEF RequestToken, history
    <2>2. /\ r \in Request /\ r.code = NoCode /\ ~r.verified
          /\ r.phone = task[w].phone /\ r.form = task[w].form
        BY <1>4, <2>1 DEF NewRequest, Request
    <2> HIDE DEF r
    <2>3. RowOK(r, sent', links', asked')
        BY <1>4, <2>1, <2>2 DEF RowOK
    <2> QED BY <1>5, <2>1, <2>2, <2>3
<1> QED BY <1>2, <1>3, <1>6, <1>7

\* The SMS fallback and the Telegram link: a code goes out, the row it will
\* be written to is read.
LEMMA FallbackStep ==
    ASSUME IInv, NEW w \in Workers
    PROVE  /\ \A p \in Phones : SmsSend(w, p) => IInv'
           /\ SmsFind(w) => IInv'
           /\ \A i \in DOMAIN reqs, h \in Chats : TapSend(w, i, h) => IInv'
           /\ TapLink(w) => IInv'
<1> USE OtpAssumption
<1>1. /\ links \in [Phones -> Chats \cup {NoChat}] /\ asked \subseteq Phones \X Forms /\ Types
      /\ TaskOK(task[w], reqs, sent, links, asked) /\ task[w] \in Task
      /\ \A i \in DOMAIN reqs : reqs[i] \in Request
    <2>1. /\ Types /\ TypeOK /\ TaskOK(task[w], reqs, sent, links, asked)
        BY DEF IInv, Types, HeldInv
    <2>2. \A i \in DOMAIN reqs : reqs[i] \in Request
        BY <2>1, LenProperties, ElementOfSeq DEF TypeOK
    <2> QED BY <2>1, <2>2 DEF Types, TypeOK
<1>2. ASSUME NEW p \in Phones, SmsSend(w, p) PROVE IInv'
    <2> DEFINE t == [step |-> "smsfind", phone |-> p, code |-> NextCode]
    <2>1. /\ At(w, "idle") /\ Send(p) /\ UNCHANGED <<reqs, links, accounts, stored, history>>
          /\ task[w].step \notin CreateSteps
        BY <1>2 DEF SmsSend, At, CreateSteps
    <2>2. /\ NextCode \in Codes /\ sent' # sent /\ Proves(sent', links', NextCode, p)
        BY <1>1, <2>1, SentGrows DEF Proves, Recipients
    <2>3. CASE Goto(w, t)
        <3>1. /\ t \in Task /\ t.step = "smsfind" /\ t.phone = p /\ t.code = NextCode
              /\ Carried(t) = NextCode
            BY <2>2 DEF Task, FindTask, Carried, SaveSteps
        <3> HIDE DEF t
        <3>2. TaskOK(t, reqs, sent', links', asked')
            BY <2>2, <3>1 DEF TaskOK, SaveSteps, CreateSteps
        <3>3. UNCHANGED <<reqs, links, accounts, stored, asked, uses, wrong, cut, losses>>
            BY <2>1 DEF history
        <3> QED BY <1>1, <2>1, <2>2, <2>3, <3>1, <3>2, <3>3, MoveStep DEF LinksGrow, Recipients
    <2>4. CASE Finish(w)
        BY <2>1, <2>4, EndStep DEF Recipients
    <2> QED BY <1>2, <2>3, <2>4 DEF SmsSend
<1>3. ASSUME SmsFind(w) PROVE IInv'
    <2> DEFINE u == task[w]
               i == Latest(u.phone)
               r == NewRequest(u.phone, u.code, FALSE, NoForm)
               insert == [step |-> "insert", row |-> r]
               save == [step |-> "savecode", id |-> i, row |-> reqs[i], code |-> u.code]
    <2>1. /\ u.step = "smsfind" /\ u \in FindTask
          /\ UNCHANGED <<reqs, links, accounts, sent, stored, asked, uses, wrong, cut, losses>>
          /\ u.step \notin CreateSteps /\ Carried(u) = u.code
        BY <1>1, <1>3, TaskOfStep DEF SmsFind, At, history, CreateSteps, Carried, SaveSteps
    <2>2. u.phone \in Phones /\ u.code \in Codes /\ Proves(sent, links, u.code, u.phone)
        BY <1>1, <2>1 DEF FindTask, TaskOK
    <2>3. CASE Goto(w, insert)
        <3>1. /\ r \in Request /\ r.code = u.code /\ ~r.verified
              /\ r.phone = u.phone /\ r.form = NoForm
            BY <2>2 DEF NewRequest, Request
        <3> HIDE DEF r
        <3>2. insert \in Task /\ insert.step = "insert" /\ insert.row = r /\ Carried(insert) = u.code
            BY <3>1 DEF Task, InsertTask, Carried
        <3> HIDE DEF insert
        <3>4. TaskOK(insert, reqs, sent', links', asked')
            BY <2>1, <2>2, <3>1, <3>2 DEF TaskOK, RowOK, SaveSteps, CreateSteps
        <3> QED BY <1>1, <2>1, <2>3, <3>2, <3>4, MoveStep DEF LinksGrow
    <2>4. CASE Unverified(u.phone) # {} /\ Goto(w, save)
        <3>1. i \in DOMAIN reqs /\ reqs[i].phone = u.phone /\ ~reqs[i].verified
            BY <1>1, <2>4, LatestRow
        <3>2. i \in Nat
            BY <3>1, <1>1, LenProperties DEF Types, TypeOK
        <3>3. /\ save \in Task /\ save.step = "savecode" /\ save.id = i
              /\ save.row = reqs[i] /\ save.code = u.code /\ Carried(save) = u.code
            BY <1>1, <2>2, <3>1, <3>2 DEF Task, SaveTask, SaveSteps, Carried
        <3> HIDE DEF save, i
        <3>5. TaskOK(save, reqs, sent', links', asked')
            BY <2>1, <2>2, <3>1, <3>3 DEF TaskOK, SaveSteps, CreateSteps
        <3> QED BY <1>1, <2>1, <2>4, <3>3, <3>5, MoveStep DEF LinksGrow
    <2> QED BY <1>3, <2>3, <2>4 DEF SmsFind
<1>4. ASSUME NEW i \in DOMAIN reqs, NEW h \in Chats, TapSend(w, i, h) PROVE IInv'
    <2> DEFINE t == [step |-> "link", id |-> i, row |-> reqs[i], code |-> NextCode,
                     chat |-> h]
    <2>1. /\ At(w, "idle") /\ Send(h) /\ UNCHANGED <<reqs, links, accounts, stored, history>>
          /\ task[w].step \notin CreateSteps /\ ~reqs[i].verified /\ h \in Recipients
        BY <1>1, <1>4 DEF TapSend, At, CreateSteps, Recipients
    <2>2. /\ NextCode \in Codes /\ sent' # sent
          /\ NextCode \in DOMAIN sent' /\ sent'[NextCode] = h
        BY <1>1, <2>1, SentGrows
    <2>3. CASE Goto(w, t)
        <3>1. i \in Nat
            BY <1>1, LenProperties DEF Types, TypeOK
        <3>2. /\ t \in Task /\ t.step = "link" /\ t.id = i /\ t.row = reqs[i]
              /\ t.code = NextCode /\ t.chat = h /\ Carried(t) = NextCode
            BY <1>1, <2>2, <3>1 DEF Task, LinkTask, SaveSteps, Carried
        <3> HIDE DEF t
        <3>3. TaskOK(t, reqs, sent', links', asked')
            BY <2>1, <2>2, <3>2 DEF TaskOK, SaveSteps, CreateSteps
        <3>4. UNCHANGED <<reqs, links, accounts, stored, asked, uses, wrong, cut, losses>>
            BY <2>1 DEF history
        <3> QED BY <1>1, <2>1, <2>2, <2>3, <3>2, <3>3, <3>4, MoveStep DEF LinksGrow
    <2>4. CASE Finish(w)
        BY <2>1, <2>4, EndStep
    <2> QED BY <1>4, <2>3, <2>4 DEF TapSend
<1>5. ASSUME TapLink(w) PROVE IInv'
    <2> DEFINE u == task[w]
               p == u.row.phone
               t == [step |-> "savecode", id |-> u.id, row |-> u.row, code |-> u.code]
    <2>1. /\ u.step = "link" /\ u \in LinkTask /\ u.step \notin CreateSteps
          /\ UNCHANGED <<reqs, accounts, sent, stored, asked, uses, wrong, cut, losses>>
        BY <1>1, <1>5, TaskOfStep DEF TapLink, At, history, CreateSteps
    <2>2. CASE Finish(w) /\ UNCHANGED links
        BY <2>1, <2>2, EndStep DEF history
    <2>3. CASE /\ links[p] = NoChat /\ links' = [links EXCEPT ![p] = u.chat]
               /\ Goto(w, t)
        <3>1. /\ t \in Task /\ t.step = "savecode" /\ t.id = u.id /\ t.row = u.row
              /\ t.code = u.code /\ Carried(t) = Carried(u)
            BY <2>1 DEF Task, LinkTask, SaveTask, SaveSteps, Carried
        <3>4. p \in Phones /\ u.chat \in Chats /\ u.row.phone = p
            BY <2>1 DEF LinkTask, Request
        <3> HIDE DEF t, p
        <3>3. links' \in [Phones -> Chats \cup {NoChat}] /\ links'[p] = u.chat /\ LinksGrow
            BY <1>1, <2>3, <3>4 DEF LinksGrow
        <3>2. TaskOK(t, reqs, sent', links', asked')
            BY <1>1, <2>1, <3>1, <3>3, <3>4 DEF TaskOK, Proves, SaveSteps, CreateSteps
        <3> QED BY <1>1, <2>1, <2>3, <3>1, <3>2, <3>3, MoveStep
    <2> QED BY <1>5, <2>2, <2>3 DEF TapLink
<1> QED BY <1>2, <1>3, <1>4, <1>5

\* CreateFromVerifiedOtp looks once more.
LEMMA CheckStep ==
    ASSUME IInv, NEW w \in Workers, CreateCheck(w)
    PROVE  IInv'
<1> DEFINE u == task[w]
           t == [u EXCEPT !.step = "create"]
<1>1. /\ u.step = "check" /\ u \in CreateTask /\ TaskOK(u, reqs, sent, links, asked)
      /\ UNCHANGED <<reqs, links, accounts, sent, stored, history>>
    BY TaskOfStep DEF CreateCheck, At, IInv, Types, HeldInv, CreateSteps
<1>2. CASE Taken(u.phone, u.form) /\ Finish(w)
    BY <1>1, <1>2, EndStep
<1>3. CASE Goto(w, t)
    <2>1. /\ t \in Task /\ t.step = "create" /\ t.phone = u.phone /\ t.form = u.form
          /\ t.code = u.code /\ Carried(t) = NoCode
        BY <1>1 DEF Task, CreateTask, CreateSteps, Carried, SaveSteps
    <2>3. /\ UNCHANGED <<reqs, accounts, stored, uses, wrong, cut, losses, links, asked, sent>>
          /\ links \in [Phones -> Chats \cup {NoChat}] /\ asked \subseteq Phones \X Forms
        BY <1>1 DEF history, IInv, Types, TypeOK
    <2> HIDE DEF t
    <2>4. TaskOK(t, reqs, sent', links', asked')
        BY <1>1, <2>1, <2>3 DEF TaskOK, SaveSteps, CreateSteps
    <2> QED BY <1>3, <2>1, <2>3, <2>4, MoveStep DEF CreateSteps, LinksGrow
<1> QED BY <1>2, <1>3 DEF CreateCheck, Taken

LEMMA OtpNext == IInv /\ [Next]_vars => IInv'
<1> SUFFICES ASSUME IInv, [Next]_vars PROVE IInv'
    OBVIOUS
<1> USE OtpAssumption
<1>1. ASSUME NEW w \in Workers, InsertRequest(w) PROVE IInv'
    <2>1. /\ At(w, "insert") /\ Finish(w) /\ UNCHANGED <<links, accounts, sent, history>>
          /\ task[w].step \notin CreateSteps
        BY <1>1 DEF InsertRequest, At, CreateSteps
    <2>2. CASE UNCHANGED <<reqs, stored>>
        BY <2>1, <2>2, EndStep
    <2> QED BY <1>1, <2>1, <2>2, InsertStep DEF InsertRequest
<1>2. ASSUME NEW w \in Workers, SaveCodeSent(w) PROVE IInv'
    <2>1. /\ At(w, "savecode") /\ Finish(w) /\ UNCHANGED <<links, accounts, sent, history>>
          /\ task[w].step \notin CreateSteps
        BY <1>2 DEF SaveCodeSent, At, CreateSteps
    <2>2. CASE UNCHANGED <<reqs, stored>>
        BY <2>1, <2>2, EndStep
    <2> QED BY <1>2, <2>1, <2>2, SaveStep DEF SaveCodeSent
<1>3. ASSUME NEW w \in Workers, Ask(w) PROVE IInv'
    BY <1>1, <1>2, <1>3, AskStep, FallbackStep DEF Ask
<1>4. ASSUME NEW w \in Workers, Answer(w) PROVE IInv'
    BY <1>4, VerifyStep, CheckStep, CreateStep DEF Answer
<1>5. ASSUME NEW w \in Workers, Fail(w) PROVE IInv'
    BY <1>5, LoseStep DEF Fail
<1>6. CASE Crash
    BY <1>6, LoseStep DEF Crash
<1>7. ASSUME NEW p \in Phones, VerifyWrong(p) PROVE IInv'
    <2> DEFINE i == Latest(p)
    <2>1. /\ wrong' = [wrong EXCEPT ![i] = @ + 1] /\ wrong[i] < MaxAttempts
          /\ UNCHANGED <<reqs, links, accounts, task, sent, stored, asked, uses, cut, losses>>
          /\ wrong \in [1..MaxRows -> 0..MaxAttempts]
        BY <1>7 DEF VerifyWrong, IInv, Types, TypeOK
    <2>2. i \in 1..MaxRows
        <3>1. i \in DOMAIN reqs
            BY <1>7, LatestRow DEF VerifyWrong, IInv
        <3> QED BY <3>1, LenProperties DEF IInv, Types, TypeOK
    <2> HIDE DEF i
    <2>3. wrong' \in [1..MaxRows -> 0..MaxAttempts]
        BY <2>1, <2>2
    <2> QED BY <2>1, <2>3, RestStep
<1>8. CASE UNCHANGED vars
    BY <1>8, RestStep DEF vars, IInv, Types, TypeOK
<1> QED BY <1>3, <1>4, <1>5, <1>6, <1>7, <1>8, ExpireStep DEF Next

\* IInv holds at every moment: a code is in one place at most, and rows and
\* the copies of them agree on the phone and the form for ever.
THEOREM OtpInductive == Spec => []IInv
BY OtpInit, OtpNext, PTL DEF Spec

\* The code an account was proved by went to its phone or to the one chat
\* linked to it, whichever chats open the links of that phone, and the account
\* is made of a form submitted for that phone, for any number of phones,
\* chats, overlapping registrations, SMS fallbacks and Telegram links, and of
\* failures (otp_service.go: pending data carries forward on the same row).
THEOREM AccountsAreProven == Spec => []OtpInv
<1>1. IInv => OtpInv
    BY DEF IInv, Types, ProvenInv, OtpInv, AccountIsProven, Proves
<1> QED BY <1>1, OtpInductive, PTL

\* No two accounts have a phone or an email in common, however many
\* verifications overlap (customer_service.go, CreateFromVerifiedOtp).
THEOREM AccountsAreUnique == Spec => []OneAccountEach
<1>1. IInv => OneAccountEach
    BY DEF IInv
<1> QED BY <1>1, OtpInductive, PTL

\* No code is accepted twice, although handlers write back copies of rows
\* that were verified meanwhile (otp_service.go, VerifyOTP): such a copy
\* carries a code that was never accepted.
THEOREM CodesAreUsedOnce == Spec => []CodeUsedOnce
<1>1. IInv => CodeUsedOnce
    BY DEF IInv, UseInv, CodeUsedOnce
<1> QED BY <1>1, OtpInductive, PTL

\* A verified registration is not forgotten: unless its own request is cut off
\* it has left an account, or met one of its phone or its email, once nothing
\* is under way (customer_controller.go: VerifyOTP goes on to
\* CreateFromVerifiedOtp).
THEOREM RegistrationsAreKept == Spec => []RegisteredUnlessCut
<1>1. IInv => RegisteredUnlessCut
    BY DEF IInv, PendingInv, RegisteredUnlessCut, Quiet, At, Creating, CreateSteps, Taken
<1> QED BY <1>1, OtpInductive, PTL
-----------------------------------------------------------------------------
(* The customers table, and the requests that look customers up in it.     *)

Columns == {"phone", "email", "google", "facebook"}
Changes == {"profile", "change", "reset", "active"}
Kinds == Customers!Providers \cup {"password", "otp", "register"} \cup Changes

OldForms == {Customers!LocalVariant(p) : p \in Phones}
Values == Phones \cup OldForms \cup Emails \cup Subs
Query == [column: Columns, value: Values]

Profile == [phone: Phones \cup {None}, email: Emails \cup {None}]
Exchange == [old: Passwords, new: Passwords]
Reset == [new: Passwords]
Key == Subs \cup Passwords \cup Phones \cup Profile \cup Exchange \cup Reset \cup BOOLEAN

\* What a request that changes a row was given.
ChangeOK(k, x) ==
    \/ k \in Customers!Providers /\ x \in Subs
    \/ k = "profile" /\ x \in Profile
    \/ k = "change" /\ x \in Exchange
    \/ k = "reset" /\ x \in Reset
    \/ k = "active" /\ x \in BOOLEAN

LookTask == [step: {"find"}, kind: Kinds, key: Key, lookups: Seq(Query),
             id: Nat \cup {None}, row: Customers!Row]
ReadTask == [step: {"read"}, kind: Changes, key: Key, id: Nat]

\* A login never creates an account; what a sign-in or a registration creates
\* or saves is enabled. R stands for `rows`.
FindOK(t, R) ==
    /\ t.kind \in {"password", "otp"} => t.lookups # <<>> /\ t.id = None
    /\ t.kind \in Customers!Providers \cup {"register"} => t.row.active
    /\ t.kind = "register" => t.id = None
    /\ t.kind \in Changes => t.id # None
    /\ t.kind \in Changes \cup Customers!Providers => ChangeOK(t.kind, t.key)
    /\ t.id # None => t.id \in DOMAIN R

RequestOK(t, R) ==
    /\ t.step \in {"idle", "read", "find"}
    /\ t.step = "read" => /\ t \in ReadTask /\ ChangeOK(t.kind, t.key)
                          /\ t.id \in DOMAIN R
    /\ t.step = "find" => t \in LookTask /\ FindOK(t, R)

CustomerTypes ==
    /\ Customers!CustomersAssumption
    /\ rows \in Seq(Customers!Row) /\ made \in Seq(Customers!Row)
    /\ Len(rows) = Len(made)
    /\ requests \in 0..MaxRequests /\ faults \in 0..MaxFaults
    /\ cTask = [w \in Workers |-> cTask[w]]
    /\ seen = [w \in Workers |-> seen[w]]
    /\ \A w \in Workers : RequestOK(cTask[w], rows)

\* A session was given for an account that was seen enabled; S stands for
\* what the request has seen.
Justified(t, S) ==
    t.step = "idle" /\ t.answer.says = "session" =>
        \E v \in S : /\ v[1] = t.answer.id /\ v[2].active
                     /\ t.answer.kind = "password" => v[2].password = t.answer.key

\* A request has seen what the rows are now.
Sees(t, R, S) == t.step # "idle" => Customers!Versions(R) \subseteq S

CustomerInv ==
    /\ CustomerTypes
    /\ \A w \in Workers : Sees(cTask[w], rows, seen[w]) /\ Justified(cTask[w], seen[w])

-----------------------------------------------------------------------------

LEMMA NoneIsNothing ==
    ASSUME Customers!CustomersAssumption
    PROVE  /\ None \notin Phones /\ None \notin OldForms /\ None \notin Emails
           /\ None \notin Subs /\ None \notin Passwords /\ None \notin Nat
           /\ MaxRequests \in Nat /\ MaxFaults \in Nat
BY DEF Customers!CustomersAssumption, OldForms

LEMMA CustomerTables ==
    ASSUME NEW R \in Seq(Customers!Row), NEW r \in Customers!Row
    PROVE  /\ Append(R, r) \in Seq(Customers!Row) /\ Len(Append(R, r)) = Len(R) + 1
           /\ DOMAIN R = 1..Len(R) /\ DOMAIN Append(R, r) = 1..(Len(R) + 1)
           /\ \A i \in DOMAIN R : R[i] \in Customers!Row /\ Append(R, r)[i] = R[i]
           /\ Append(R, r)[Len(R) + 1] = r
           /\ Len(R) \in Nat
           /\ \A i \in DOMAIN R :
                 /\ [R EXCEPT ![i] = r] \in Seq(Customers!Row)
                 /\ Len([R EXCEPT ![i] = r]) = Len(R)
                 /\ DOMAIN [R EXCEPT ![i] = r] = DOMAIN R
OBVIOUS

LEMMA ColumnQuery ==
    ASSUME NEW c \in Columns, NEW v \in Values \cup {None}
    PROVE  /\ Customers!Column(c, v) \in Seq(Query)
           /\ v = None => Customers!Column(c, v) = <<>>
           /\ v # None => /\ Customers!Column(c, v) = <<[column |-> c, value |-> v]>>
                          /\ Len(Customers!Column(c, v)) = 1
<1>1. v = None => Customers!Column(c, v) = <<>> /\ <<>> \in Seq(Query)
    BY DEF Customers!Column
<1>2. CASE v # None
    <2>1. Customers!Column(c, v) = <<[column |-> c, value |-> v]>>
        BY <1>2 DEF Customers!Column
    <2>2. [column |-> c, value |-> v] \in Query
        BY <1>2 DEF Query
    <2> QED BY <1>2, <2>1, <2>2
<1> QED BY <1>1, <1>2

LEMMA BlankRow ==
    /\ Customers!Blank \in Customers!Row /\ Customers!Blank.active
    /\ \A c \in Columns : Customers!Blank[c] = None
<1>1. Customers!Blank \in Customers!Row
    BY DEF Customers!Blank, Customers!Row, Customers!Maybe
<1>2. \A c \in Columns : Customers!Blank[c] = None
    BY DEF Customers!Blank, Columns
<1> QED BY <1>1, <1>2 DEF Customers!Blank

\* What a request makes of a row.
LEMMA ChangedRow ==
    ASSUME NEW t, ChangeOK(t.kind, t.key), NEW r \in Customers!Row
    PROVE  /\ Customers!Changed(t, r) \in Customers!Row
           /\ t.kind \in Customers!Providers => Customers!Changed(t, r).active = r.active
<1> USE DEF Customers!Row, Customers!Maybe, Customers!Changed
<1>1. CASE t.kind \in Customers!Providers /\ t.key \in Subs
    <2>1. CASE t.kind = "google"
        <3>1. Customers!Changed(t, r) = [r EXCEPT !["google"] = t.key]
            BY <2>1 DEF Customers!Providers
        <3> QED BY <1>1, <3>1
    <2>2. CASE t.kind = "facebook"
        <3>1. Customers!Changed(t, r) = [r EXCEPT !["facebook"] = t.key]
            BY <2>2 DEF Customers!Providers
        <3> QED BY <1>1, <3>1
    <2> QED BY <1>1, <2>1, <2>2 DEF Customers!Providers
<1>2. CASE t.kind = "profile" /\ t.key \in Profile
    <2>1. Customers!Changed(t, r) = [r EXCEPT !.phone = t.key.phone, !.email = t.key.email]
        BY <1>2 DEF Customers!Providers
    <2> QED BY <1>2, <2>1 DEF Profile, Customers!Providers
<1>3. CASE t.kind = "change" /\ t.key \in Exchange
    <2>1. Customers!Changed(t, r) = [r EXCEPT !.password = t.key.new]
        BY <1>3 DEF Customers!Providers
    <2> QED BY <1>3, <2>1 DEF Exchange, Customers!Providers
<1>4. CASE t.kind = "reset" /\ t.key \in Reset
    <2>1. Customers!Changed(t, r) = [r EXCEPT !.password = t.key.new]
        BY <1>4 DEF Customers!Providers
    <2> QED BY <1>4, <2>1 DEF Reset, Customers!Providers
<1>5. CASE t.kind = "active" /\ t.key \in BOOLEAN
    <2>1. Customers!Changed(t, r) = [r EXCEPT !.active = t.key]
        BY <1>5 DEF Customers!Providers
    <2> QED BY <1>5, <2>1 DEF Customers!Providers
<1> QED BY <1>1, <1>2, <1>3, <1>4, <1>5 DEF ChangeOK

LEMMA TaskStaysOK ==
    ASSUME NEW t, NEW R, NEW R2, RequestOK(t, R), DOMAIN R \subseteq DOMAIN R2
    PROVE  RequestOK(t, R2)
BY DEF RequestOK, FindOK

\* What the next state needs: for the request that moved, and for the others.
LEMMA CustomerMoves ==
    ASSUME CustomerInv, NEW w \in Workers, NEW t, Customers!Goto(w, t),
           rows' \in Seq(Customers!Row), made' \in Seq(Customers!Row),
           Len(rows') = Len(made'), DOMAIN rows \subseteq DOMAIN rows',
           requests' \in 0..MaxRequests, faults' \in 0..MaxFaults,
           seen' = [v \in Workers |-> seen'[v]],
           \A v \in Workers \ {w} :
              /\ seen[v] \subseteq seen'[v]
              /\ Sees(cTask[v], rows, seen[v]) => Sees(cTask[v], rows', seen'[v]),
           RequestOK(t, rows'), Sees(t, rows', seen'[w]), Justified(t, seen'[w])
    PROVE  CustomerInv'
<1>1. /\ cTask = [v \in Workers |-> cTask[v]] /\ Customers!CustomersAssumption
      /\ \A v \in Workers : /\ RequestOK(cTask[v], rows)
                            /\ Sees(cTask[v], rows, seen[v])
                            /\ Justified(cTask[v], seen[v])
    BY DEF CustomerInv, CustomerTypes
<1>2. cTask' = [cTask EXCEPT ![w] = t]
    BY DEF Customers!Goto
<1>3. /\ cTask' = [v \in Workers |-> cTask'[v]]
      /\ cTask'[w] = t /\ \A v \in Workers \ {w} : cTask'[v] = cTask[v]
    BY <1>1, <1>2
<1>4. ASSUME NEW v \in Workers \ {w}
      PROVE  /\ RequestOK(cTask[v], rows')
             /\ Sees(cTask[v], rows', seen'[v])
             /\ Justified(cTask[v], seen'[v])
    <2>1. RequestOK(cTask[v], rows')
        BY <1>1, TaskStaysOK
    <2>2. Justified(cTask[v], seen'[v])
        BY <1>1 DEF Justified
    <2> QED BY <1>1, <2>1, <2>2
<1>5. \A v \in Workers : /\ RequestOK(cTask'[v], rows')
                         /\ Sees(cTask'[v], rows', seen'[v])
                         /\ Justified(cTask'[v], seen'[v])
    BY <1>3, <1>4
<1> QED BY <1>1, <1>3, <1>5 DEF CustomerInv, CustomerTypes

\* A query that changes nothing.
LEMMA CustomerLooks ==
    ASSUME CustomerInv, NEW w \in Workers, NEW t, Customers!Goto(w, t), Customers!Unchanged,
           faults' = faults \/ Customers!Fault, cTask[w].step # "idle",
           RequestOK(t, rows), Justified(t, seen[w])
    PROVE  CustomerInv'
<1>1. UNCHANGED <<rows, seen, made, requests>>
    BY DEF Customers!Unchanged
<1>2. faults' \in 0..MaxFaults
    BY NoneIsNothing DEF CustomerInv, CustomerTypes, Customers!Fault
<1>3. Sees(t, rows, seen[w])
    BY DEF CustomerInv, Sees
<1> QED BY <1>1, <1>2, <1>3, CustomerMoves DEF CustomerInv, CustomerTypes

\* A request begins.
LEMMA CustomerBegins ==
    ASSUME CustomerInv, NEW w \in Workers, NEW t, Customers!Begin(w, t),
           RequestOK(t, rows), t.step # "idle"
    PROVE  CustomerInv'
<1>1. /\ Customers!Goto(w, t) /\ UNCHANGED <<rows, made, faults>>
      /\ requests < MaxRequests /\ requests' = requests + 1
      /\ seen' = [seen EXCEPT ![w] = Customers!Versions(rows)]
    BY DEF Customers!Begin
<1>2. seen = [v \in Workers |-> seen[v]] /\ requests \in 0..MaxRequests
    BY DEF CustomerInv, CustomerTypes
<1>3. /\ seen' = [v \in Workers |-> seen'[v]] /\ seen'[w] = Customers!Versions(rows)
      /\ \A v \in Workers \ {w} : seen'[v] = seen[v]
    BY <1>1, <1>2
<1>4. requests' \in 0..MaxRequests
    BY <1>1, <1>2, NoneIsNothing DEF CustomerInv, CustomerTypes
<1>5. Sees(t, rows', seen'[w]) /\ Justified(t, seen'[w])
    BY <1>1, <1>3 DEF Sees, Justified
<1> QED BY <1>1, <1>3, <1>4, <1>5, CustomerMoves DEF CustomerInv, CustomerTypes

\* Rows are written, for all to see.
LEMMA CustomerWrites ==
    ASSUME CustomerInv, NEW w \in Workers, NEW t, Customers!Goto(w, t),
           NEW table \in Seq(Customers!Row), Customers!Write(table),
           made' \in Seq(Customers!Row), Len(table) = Len(made'),
           DOMAIN rows \subseteq DOMAIN table, UNCHANGED requests,
           faults' = faults \/ Customers!Fault,
           t.step = "idle", Justified(t, Customers!Versions(table))
    PROVE  CustomerInv'
<1>1. /\ rows' = table
      /\ seen' = [v \in Workers |-> seen[v] \cup Customers!Versions(table)]
    BY DEF Customers!Write
<1>2. \A v \in Workers : /\ seen[v] \subseteq seen'[v]
                         /\ Customers!Versions(rows') \subseteq seen'[v]
    BY <1>1
<1>3. Justified(t, seen'[w])
    BY <1>1, <1>2 DEF Justified
<1>4. RequestOK(t, rows')
    BY DEF RequestOK
<1>5. \A v \in Workers : Sees(cTask[v], rows', seen'[v])
    BY <1>2 DEF Sees
<1>6. seen' = [v \in Workers |-> seen'[v]]
    BY <1>1
<1>7. Sees(t, rows', seen'[w])
    BY DEF Sees
<1>8. faults' \in 0..MaxFaults
    BY NoneIsNothing DEF CustomerInv, CustomerTypes, Customers!Fault
<1> QED BY <1>1, <1>2, <1>3, <1>4, <1>5, <1>6, <1>7, <1>8, CustomerMoves
        DEF CustomerInv, CustomerTypes

-----------------------------------------------------------------------------

\* Answers other than a session need no justification.
LEMMA PlainAnswer ==
    ASSUME NEW a, a.says # "session", NEW S, NEW R
    PROVE  RequestOK(Customers!Answered(a), R) /\ Justified(Customers!Answered(a), S)
BY DEF RequestOK, Justified, Customers!Answered

LEMMA PlainAnswers ==
    /\ Customers!Refused.says # "session" /\ Customers!Nothing.says # "session"
    /\ \A x : [says |-> "failed", why |-> x].says # "session"
    /\ \A k, x : [says |-> "no account", kind |-> k, key |-> x].says # "session"
    /\ [says |-> "done"].says # "session"
BY DEF Customers!Refused, Customers!Nothing

LEMMA FailedAnswer ==
    ASSUME NEW S
    PROVE  Justified(Customers!Answered(Customers!Failed), S)
BY PlainAnswer, PlainAnswers DEF Customers!Failed

\* A session for an account that is enabled.
LEMMA SessionAnswer ==
    ASSUME NEW t, NEW R, NEW i \in DOMAIN R, NEW S, Customers!Versions(R) \subseteq S,
           R[i].active, t.kind = "password" => R[i].password = t.key
    PROVE  /\ RequestOK(Customers!Answered(Customers!Session(i, t)), R)
           /\ Justified(Customers!Answered(Customers!Session(i, t)), S)
<1> DEFINE v == <<i, R[i]>>
<1>1. v \in S /\ v[1] = i /\ v[2] = R[i]
    BY DEF Customers!Versions
<1> HIDE DEF v
<1> QED BY <1>1 DEF RequestOK, Justified, Customers!Answered, Customers!Session

-----------------------------------------------------------------------------
(* How requests begin.                                                     *)

\* One lookup, or none without a value.
LEMMA OneColumn ==
    ASSUME NEW c \in Columns, NEW v \in Values \cup {None}, NEW q, q = Customers!Column(c, v)
    PROVE  /\ q \in Seq(Query)
           /\ v = None => Len(q) = 0
           /\ v # None => Len(q) = 1 /\ q[1] = [column |-> c, value |-> v]
<1>1. CASE v = None
    BY <1>1, ColumnQuery
<1>2. CASE v # None
    <2>1. q = <<[column |-> c, value |-> v]>> /\ q \in Seq(Query)
        BY <1>2, ColumnQuery
    <2> QED BY <1>2, <2>1
<1> QED BY <1>1, <1>2

Has(q, c, v) == \E k \in DOMAIN q : q[k] = [column |-> c, value |-> v]

\* Two lookups, those without a value left out.
LEMMA TwoColumns ==
    ASSUME NEW c \in Columns, NEW d \in Columns, NEW u \in Values \cup {None},
           NEW v \in Values \cup {None}
    PROVE  LET q == Customers!Column(c, u) \o Customers!Column(d, v) IN
           /\ q \in Seq(Query)
           /\ u # None \/ v # None => q # <<>>
           /\ u # None => Has(q, c, u)
           /\ v # None => Has(q, d, v)
           /\ \A k \in DOMAIN q : k # 1 => q[k].column = d
<1> DEFINE A == Customers!Column(c, u)
           B == Customers!Column(d, v)
           q == A \o B
<1>1. /\ A \in Seq(Query) /\ B \in Seq(Query)
      /\ u = None => Len(A) = 0
      /\ u # None => Len(A) = 1 /\ A[1] = [column |-> c, value |-> u]
      /\ v = None => Len(B) = 0
      /\ v # None => Len(B) = 1 /\ B[1] = [column |-> d, value |-> v]
    BY OneColumn
<1> HIDE DEF A, B
<1>2. /\ q \in Seq(Query) /\ Len(q) = Len(A) + Len(B)
      /\ \A k \in 1..(Len(A) + Len(B)) :
            q[k] = IF k <= Len(A) THEN A[k] ELSE B[k - Len(A)]
    BY <1>1, ConcatProperties
<1> HIDE DEF q
<1>3. DOMAIN q = 1..Len(q) /\ (Len(q) > 0 => q # <<>>)
    BY <1>2
<1>4. CASE u = None /\ v = None
    BY <1>1, <1>2, <1>3, <1>4 DEF Has, q, A, B
<1>5. CASE u = None /\ v # None
    <2>1. Len(A) = 0 /\ Len(B) = 1 /\ Len(q) = 1
        BY <1>1, <1>2, <1>5
    <2>2. q[1] = B[1]
        BY <1>2, <2>1
    <2>3. DOMAIN q = {1} /\ q[1] = [column |-> d, value |-> v]
        BY <1>1, <1>3, <1>5, <2>1, <2>2
    <2> QED BY <1>2, <1>3, <1>5, <2>1, <2>3 DEF Has, q, A, B
<1>6. CASE u # None /\ v = None
    <2>1. Len(A) = 1 /\ Len(B) = 0 /\ Len(q) = 1
        BY <1>1, <1>2, <1>6
    <2>2. q[1] = A[1]
        BY <1>2, <2>1
    <2>3. DOMAIN q = {1} /\ q[1] = [column |-> c, value |-> u]
        BY <1>1, <1>3, <1>6, <2>1, <2>2
    <2> QED BY <1>2, <1>3, <1>6, <2>1, <2>3 DEF Has, q, A, B
<1>7. CASE u # None /\ v # None
    <2>1. Len(A) = 1 /\ Len(B) = 1 /\ Len(q) = 2
        <3>1. Len(A) = 1 /\ Len(B) = 1
            BY <1>1, <1>7
        <3> QED BY <1>2, <3>1
    <2>2. q[1] = A[1] /\ q[2] = B[1]
        BY <1>2, <2>1
    <2>3. /\ DOMAIN q = {1, 2} /\ q[1] = [column |-> c, value |-> u]
          /\ q[2] = [column |-> d, value |-> v]
        BY <1>1, <1>3, <1>7, <2>1, <2>2
    <2> QED BY <1>2, <1>3, <1>7, <2>1, <2>3 DEF Has, q, A, B
<1> QED BY <1>4, <1>5, <1>6, <1>7

\* A request that looks customers up.
LEMMA LookupTask ==
    ASSUME NEW k \in Kinds \ Changes, NEW x \in Key, NEW q \in Seq(Query),
           NEW r \in Customers!Row, NEW R,
           k \in Customers!Providers => x \in Subs,
           k \in {"password", "otp"} => q # <<>>, r.active
    PROVE  /\ RequestOK(Customers!Lookup(k, x, q, r), R)
           /\ Customers!Lookup(k, x, q, r).step # "idle"
<1> DEFINE t == Customers!Lookup(k, x, q, r)
<1>1. /\ t.step = "find" /\ t.kind = k /\ t.key = x /\ t.lookups = q
      /\ t.id = None /\ t.row = r
    BY DEF Customers!Lookup
<1>2. t \in LookTask
    BY DEF Customers!Lookup, LookTask
<1> HIDE DEF t
<1> QED BY <1>1, <1>2 DEF RequestOK, FindOK, ChangeOK, t

LEMMA SignInBegins ==
    ASSUME CustomerInv, NEW w \in Workers, Customers!SignIn(w)
    PROVE  CustomerInv'
<1>1. PICK p \in Customers!Providers, s \in Subs, e \in Customers!Maybe(Emails) :
         Customers!Begin(w, Customers!Lookup(p, s,
                               Customers!Column(p, s) \o Customers!Column("email", e),
                               [Customers!Blank EXCEPT ![p] = s, !.email = e]))
    BY DEF Customers!SignIn
<1> DEFINE q == Customers!Column(p, s) \o Customers!Column("email", e)
           r == [Customers!Blank EXCEPT ![p] = s, !.email = e]
<1>2. q \in Seq(Query)
    BY TwoColumns DEF Columns, Values, Customers!Providers, Customers!Maybe
<1>3. r \in Customers!Row /\ r.active
    <2>1. CASE p = "google"
        BY <2>1, BlankRow DEF Customers!Row, Customers!Maybe
    <2>2. CASE p = "facebook"
        BY <2>2, BlankRow DEF Customers!Row, Customers!Maybe
    <2> QED BY <2>1, <2>2 DEF Customers!Providers
<1>4. p \in Kinds \ Changes /\ s \in Key
    BY DEF Kinds, Changes, Key, Customers!Providers
<1>5. p \notin {"password", "otp"}
    BY DEF Customers!Providers
<1> HIDE DEF q, r
<1>6. RequestOK(Customers!Lookup(p, s, q, r), rows) /\ Customers!Lookup(p, s, q, r).step # "idle"
    BY <1>2, <1>3, <1>4, <1>5, LookupTask
<1> QED BY <1>1, <1>6, CustomerBegins DEF q, r

LEMMA LoginBegins ==
    ASSUME CustomerInv, NEW w \in Workers, Customers!Login(w) \/ Customers!LoginOtp(w)
    PROVE  CustomerInv'
<1>1. Customers!CustomersAssumption
    BY DEF CustomerInv, CustomerTypes
<1>2. /\ "password" \in Kinds \ Changes /\ "otp" \in Kinds \ Changes
      /\ "password" \notin Customers!Providers /\ "otp" \notin Customers!Providers
      /\ {"phone", "email"} \subseteq Columns
    BY DEF Kinds, Changes, Customers!Providers, Columns
<1>3. ASSUME NEW i \in Phones \cup OldForms \cup Emails, NEW k \in Passwords,
             Customers!Begin(w, Customers!Lookup("password", k,
                   Customers!Column("phone", i) \o Customers!Column("email", i),
                   Customers!Blank))
      PROVE  CustomerInv'
    <2> DEFINE q == Customers!Column("phone", i) \o Customers!Column("email", i)
    <2>1. i \in Values /\ i # None /\ k \in Key
        BY <1>1, NoneIsNothing DEF Values, Key
    <2>2. q \in Seq(Query) /\ q # <<>>
        BY <1>2, <2>1, TwoColumns
    <2> HIDE DEF q
    <2>3. /\ RequestOK(Customers!Lookup("password", k, q, Customers!Blank), rows)
          /\ Customers!Lookup("password", k, q, Customers!Blank).step # "idle"
        BY <1>2, <2>1, <2>2, BlankRow, LookupTask
    <2> QED BY <1>3, <2>3, CustomerBegins DEF q
<1>4. ASSUME NEW p \in Phones,
             Customers!Begin(w, Customers!Lookup("otp", p, Customers!OtpLookups(p),
                                                 Customers!Blank))
      PROVE  CustomerInv'
    <2> DEFINE q == Customers!OtpLookups(p)
    <2>1. p \in Values /\ p # None /\ p \in Key /\ Customers!LocalVariant(p) \in Values
        BY <1>1, NoneIsNothing DEF Values, Key, OldForms
    <2>2. q \in Seq(Query) /\ q # <<>>
        BY <1>2, <2>1, TwoColumns DEF Customers!OtpLookups
    <2> HIDE DEF q
    <2>3. /\ RequestOK(Customers!Lookup("otp", p, q, Customers!Blank), rows)
          /\ Customers!Lookup("otp", p, q, Customers!Blank).step # "idle"
        BY <1>2, <2>1, <2>2, BlankRow, LookupTask
    <2> QED BY <1>4, <2>3, CustomerBegins DEF q
<1> QED BY <1>3, <1>4 DEF Customers!Login, Customers!LoginOtp, OldForms

LEMMA RegisterBegins ==
    ASSUME CustomerInv, NEW w \in Workers, Customers!Register(w)
    PROVE  CustomerInv'
<1>1. PICK p \in Phones, e \in Customers!Maybe(Emails), k \in Passwords :
         Customers!Begin(w, Customers!Lookup("register", p,
                Customers!Column("phone", p) \o Customers!Column("email", e),
                [Customers!Blank EXCEPT !.phone = p, !.email = e, !.password = k]))
    BY DEF Customers!Register
<1> DEFINE q == Customers!Column("phone", p) \o Customers!Column("email", e)
           r == [Customers!Blank EXCEPT !.phone = p, !.email = e, !.password = k]
<1>2. q \in Seq(Query)
    BY TwoColumns DEF Columns, Values, Customers!Maybe
<1>3. r \in Customers!Row /\ r.active
    BY BlankRow DEF Customers!Row, Customers!Maybe
<1>4. "register" \in Kinds \ Changes /\ "register" \notin Customers!Providers /\ p \in Key
    BY DEF Kinds, Changes, Key, Customers!Providers
<1> HIDE DEF q, r
<1>5. /\ RequestOK(Customers!Lookup("register", p, q, r), rows)
      /\ Customers!Lookup("register", p, q, r).step # "idle"
    BY <1>2, <1>3, <1>4, LookupTask
<1> QED BY <1>1, <1>5, CustomerBegins DEF q, r

LEMMA UpdateBegins ==
    ASSUME CustomerInv, NEW w \in Workers,
           \/ Customers!UpdateProfile(w) \/ Customers!ChangePassword(w)
           \/ Customers!ResetPassword(w) \/ Customers!SetActive(w)
    PROVE  CustomerInv'
<1>1. PICK k \in Changes, x \in Key : ChangeOK(k, x) /\ Customers!Update(w, k, x)
    <2>1. ASSUME NEW p \in Customers!Maybe(Phones), NEW e \in Customers!Maybe(Emails)
          PROVE  [phone |-> p, email |-> e] \in Profile
        BY DEF Profile, Customers!Maybe
    <2>2. ASSUME NEW old \in Passwords, NEW new \in Passwords
          PROVE  [old |-> old, new |-> new] \in Exchange /\ [new |-> new] \in Reset
        BY DEF Exchange, Reset
    <2>3. /\ Profile \subseteq Key /\ Exchange \subseteq Key /\ Reset \subseteq Key
          /\ BOOLEAN \subseteq Key
        BY DEF Key
    <2>4. {"profile", "change", "reset", "active"} \subseteq Changes
        BY DEF Changes
    <2>5. CASE Customers!UpdateProfile(w)
        BY <2>1, <2>3, <2>4, <2>5 DEF Customers!UpdateProfile, ChangeOK
    <2>6. CASE Customers!ChangePassword(w)
        BY <2>2, <2>3, <2>4, <2>6 DEF Customers!ChangePassword, ChangeOK
    <2>7. CASE Customers!ResetPassword(w)
        BY <2>2, <2>3, <2>4, <2>7 DEF Customers!ResetPassword, ChangeOK
    <2>8. CASE Customers!SetActive(w)
        BY <2>3, <2>4, <2>8 DEF Customers!SetActive, ChangeOK
    <2> QED BY <2>5, <2>6, <2>7, <2>8
<1>2. PICK i \in DOMAIN rows :
         Customers!Begin(w, [step |-> "read", kind |-> k, key |-> x, id |-> i])
    BY <1>1 DEF Customers!Update
<1> DEFINE t == [step |-> "read", kind |-> k, key |-> x, id |-> i]
<1>3. i \in Nat
    BY DEF CustomerInv, CustomerTypes
<1>4. /\ t \in ReadTask /\ t.step = "read" /\ t.id = i /\ t.kind = k /\ t.key = x
    BY <1>1, <1>3 DEF ReadTask
<1> HIDE DEF t
<1>5. RequestOK(t, rows)
    BY <1>1, <1>4 DEF RequestOK
<1> QED BY <1>2, <1>4, <1>5, CustomerBegins DEF t

-----------------------------------------------------------------------------
(* Lookups.                                                                *)

\* What a request that looks up is about.
LEMMA Finding ==
    ASSUME CustomerInv, NEW w \in Workers, cTask[w].step = "find"
    PROVE  /\ cTask[w] \in LookTask /\ FindOK(cTask[w], rows)
           /\ Customers!Versions(rows) \subseteq seen[w]
           /\ \A i \in DOMAIN rows : i \in Nat /\ rows[i] \in Customers!Row
BY DEF CustomerInv, CustomerTypes, RequestOK, Sees

LEMMA Lookups ==
    ASSUME NEW q \in Seq(Query), q # <<>>
    PROVE  /\ Head(q) = q[1] /\ Head(q) \in Query /\ 1 \in DOMAIN q
           /\ Tail(q) \in Seq(Query)
           /\ \A k \in DOMAIN Tail(q) : k + 1 \in DOMAIN q /\ Tail(q)[k] = q[k + 1]
           /\ \A k \in DOMAIN q : k # 1 => k - 1 \in DOMAIN Tail(q)
OBVIOUS

\* What is left to be looked up, and what the row is to be, may change.
LEMMA FindGoesOn ==
    ASSUME NEW t \in LookTask, NEW q \in Seq(Query), NEW i \in Nat \cup {None},
           NEW r \in Customers!Row
    PROVE  LET u == [t EXCEPT !.id = i, !.lookups = q, !.row = r] IN
           /\ u \in LookTask /\ u.step = "find" /\ u.kind = t.kind /\ u.key = t.key
           /\ u.id = i /\ u.lookups = q /\ u.row = r
BY DEF LookTask

\* A row found by its email is going to be linked.
LEMMA FindLinks ==
    ASSUME NEW t \in LookTask, NEW i \in Nat, NEW r \in Customers!Row
    PROVE  [t EXCEPT !.id = i, !.lookups = <<>>, !.row = r] \in LookTask
<1>1. <<>> \in Seq(Query)
    OBVIOUS
<1> QED BY <1>1 DEF LookTask

LEMMA FindTails ==
    ASSUME NEW t \in LookTask, NEW q \in Seq(Query)
    PROVE  LET u == [t EXCEPT !.lookups = q] IN
           /\ u \in LookTask /\ u.step = "find" /\ u.kind = t.kind /\ u.key = t.key
           /\ u.id = t.id /\ u.lookups = q /\ u.row = t.row
BY DEF LookTask

LEMMA HitKeeps ==
    ASSUME CustomerInv, NEW w \in Workers, Customers!FindHit(w)
    PROVE  CustomerInv'
<1> DEFINE t == cTask[w]
           q == Head(t.lookups)
<1>1. /\ t.step = "find" /\ t.lookups # <<>>
      /\ UNCHANGED faults /\ Customers!Unchanged
    BY DEF Customers!FindHit, Customers!At
<1>2. PICK i \in Customers!Matches(q) :
         \/ t.kind \in Customers!Providers /\ Customers!FoundBySignIn(w, q, i)
         \/ t.kind = "password" /\ Customers!FoundByPassword(w, i)
         \/ t.kind = "otp" /\ Customers!LetIn(w, i)
         \/ t.kind = "register" /\ Customers!Answer(w, Customers!Refused)
         \/ t.kind = "profile" /\ Customers!FoundByProfile(w, i)
    BY DEF Customers!FindHit
<1>3. /\ t \in LookTask /\ FindOK(t, rows) /\ Customers!Versions(rows) \subseteq seen[w]
      /\ i \in DOMAIN rows /\ i \in Nat /\ rows[i] \in Customers!Row
    BY <1>1, Finding DEF Customers!Matches
<1>4. t.lookups \in Seq(Query)
    BY <1>3 DEF LookTask
<1>5. ASSUME Customers!Answer(w, Customers!Refused)
      PROVE  CustomerInv'
    BY <1>1, <1>5, PlainAnswer, PlainAnswers, CustomerLooks DEF Customers!Answer
<1>6. ASSUME Customers!Answer(w, Customers!Session(i, t)), rows[i].active,
             t.kind = "password" => rows[i].password = t.key
      PROVE  CustomerInv'
    <2>1. /\ RequestOK(Customers!Answered(Customers!Session(i, t)), rows)
          /\ Justified(Customers!Answered(Customers!Session(i, t)), seen[w])
        BY <1>3, <1>6, SessionAnswer
    <2> QED BY <1>1, <1>6, <2>1, CustomerLooks DEF Customers!Answer
<1>7. CASE t.kind \in Customers!Providers /\ Customers!FoundBySignIn(w, q, i)
    <2> DEFINE r == [rows[i] EXCEPT ![t.kind] = t.key]
               u == [t EXCEPT !.id = i, !.lookups = <<>>, !.row = r]
    <2>1. \/ Customers!Answer(w, Customers!Refused)
          \/ rows[i].active /\ Customers!Answer(w, Customers!Session(i, t))
          \/ rows[i].active /\ Customers!Goto(w, u)
        BY <1>7 DEF Customers!FoundBySignIn
    <2>2. CASE rows[i].active /\ Customers!Goto(w, u)
        <3>1. ChangeOK(t.kind, t.key)
            BY <1>3, <1>7 DEF FindOK
        <3>2. r = Customers!Changed(t, rows[i])
            BY <1>7 DEF Customers!Changed, Customers!Providers
        <3>3. r \in Customers!Row /\ r.active
            BY <1>3, <1>7, <2>2, <3>1, <3>2, ChangedRow
        <3> HIDE DEF r
        <3>4. /\ u \in LookTask /\ u.step = "find" /\ u.kind = t.kind /\ u.key = t.key
              /\ u.id = i /\ u.row = r
            <4>1. t \in LookTask /\ i \in Nat /\ r \in Customers!Row
                BY <1>3, <3>3
            <4> HIDE DEF t
            <4>2. /\ u.step = t.step /\ u.kind = t.kind /\ u.key = t.key
                  /\ u.id = i /\ u.row = r
                BY <4>1 DEF LookTask
            <4>3. u \in LookTask
                BY <4>1, FindLinks
            <4> QED BY <4>1, <4>2, <4>3 DEF LookTask
        <3> HIDE DEF u
        <3>5. t.kind \notin {"password", "otp", "register"} \cup Changes
            BY <1>7 DEF Customers!Providers, Changes
        <3>6. RequestOK(u, rows) /\ Justified(u, seen[w])
            BY <1>3, <1>7, <3>1, <3>3, <3>4, <3>5 DEF RequestOK, FindOK, Justified
        <3> QED BY <1>1, <2>2, <3>6, CustomerLooks
    <2>3. t.kind # "password"
        BY <1>7 DEF Customers!Providers
    <2> QED BY <1>5, <1>6, <2>1, <2>2, <2>3
<1>8. CASE t.kind = "password" /\ Customers!FoundByPassword(w, i)
    <2>1. \/ Customers!Answer(w, Customers!Refused)
          \/ /\ Customers!Answer(w, Customers!Session(i, t))
             /\ rows[i].active /\ rows[i].password = t.key
        BY <1>8 DEF Customers!FoundByPassword, Customers!LetIn
    <2> QED BY <1>5, <1>6, <2>1
<1>9. CASE t.kind = "otp" /\ Customers!LetIn(w, i)
    <2>1. \/ Customers!Answer(w, Customers!Refused)
          \/ Customers!Answer(w, Customers!Session(i, t)) /\ rows[i].active
        BY <1>9 DEF Customers!LetIn
    <2> QED BY <1>5, <1>6, <1>9, <2>1
<1>10. CASE t.kind = "profile" /\ Customers!FoundByProfile(w, i)
    <2> DEFINE u == [t EXCEPT !.lookups = Tail(t.lookups)]
    <2>1. \/ Customers!Goto(w, u)
          \/ Customers!Answer(w, Customers!Refused)
        BY <1>10 DEF Customers!FoundByProfile
    <2>2. CASE Customers!Goto(w, u)
        <3>1. Tail(t.lookups) \in Seq(Query)
            BY <1>1, <1>4, Lookups
        <3>2. /\ u \in LookTask /\ u.step = "find" /\ u.kind = t.kind /\ u.key = t.key
              /\ u.id = t.id /\ u.row = t.row
            BY <1>3, <3>1, FindTails
        <3> HIDE DEF u
        <3>3. t.kind \notin {"password", "otp"}
            BY <1>10
        <3>4. RequestOK(u, rows) /\ Justified(u, seen[w])
            BY <1>3, <3>2, <3>3 DEF RequestOK, FindOK, Justified
        <3> QED BY <1>1, <2>2, <3>4, CustomerLooks
    <2> QED BY <1>5, <2>1, <2>2
<1> QED BY <1>2, <1>5, <1>7, <1>8, <1>9, <1>10

LEMMA MissKeeps ==
    ASSUME CustomerInv, NEW w \in Workers, Customers!FindMiss(w)
    PROVE  CustomerInv'
<1> DEFINE t == cTask[w]
           u == [t EXCEPT !.lookups = Tail(t.lookups)]
           a == [says |-> "no account", kind |-> t.kind, key |-> t.key]
<1>1. /\ t.step = "find" /\ t.lookups # <<>>
      /\ faults' = faults \/ Customers!Fault
      /\ Customers!Unchanged
    BY DEF Customers!FindMiss, Customers!At
<1>2. \/ Customers!Answer(w, a)
      \/ /\ Customers!Goto(w, u)
         /\ ~(Tail(t.lookups) = <<>> /\ t.kind \in {"password", "otp"})
    BY DEF Customers!FindMiss
<1>3. t \in LookTask /\ FindOK(t, rows) /\ t.lookups \in Seq(Query)
    BY <1>1, Finding DEF LookTask
<1>4. CASE Customers!Answer(w, a)
    <2>1. a.says # "session"
        OBVIOUS
    <2> HIDE DEF a
    <2> QED BY <1>1, <1>4, <2>1, PlainAnswer, CustomerLooks DEF Customers!Answer
<1>5. CASE /\ Customers!Goto(w, u)
           /\ ~(Tail(t.lookups) = <<>> /\ t.kind \in {"password", "otp"})
    <2>1. Tail(t.lookups) \in Seq(Query)
        BY <1>1, <1>3, Lookups
    <2>2. /\ u \in LookTask /\ u.step = "find" /\ u.kind = t.kind /\ u.key = t.key
          /\ u.id = t.id /\ u.row = t.row /\ u.lookups = Tail(t.lookups)
        BY <1>3, <2>1, FindTails
    <2> HIDE DEF u
    <2>3. RequestOK(u, rows) /\ Justified(u, seen[w])
        BY <1>3, <1>5, <2>2 DEF RequestOK, FindOK, Justified
    <2> QED BY <1>1, <1>5, <2>3, CustomerLooks
<1> QED BY <1>2, <1>4, <1>5

\* The lookups of a changed profile.
LEMMA ProfileLookupsOK ==
    ASSUME NEW x \in Profile, NEW r \in Customers!Row
    PROVE  LET q == Customers!ProfileLookups(x, r)
               p == IF x.phone # r.phone THEN x.phone ELSE None
               e == IF x.email # r.email THEN x.email ELSE None
           IN /\ p \in Values \cup {None} /\ e \in Values \cup {None}
              /\ q = Customers!Column("phone", p) \o Customers!Column("email", e)
              /\ q \in Seq(Query)
<1> DEFINE p == IF x.phone # r.phone THEN x.phone ELSE None
           e == IF x.email # r.email THEN x.email ELSE None
<1>1. p \in Values \cup {None} /\ e \in Values \cup {None}
    BY DEF Profile, Values
<1>2. Customers!ProfileLookups(x, r)
          = Customers!Column("phone", p) \o Customers!Column("email", e)
    <2>1. \A c : Customers!Column(c, None) = <<>>
        BY DEF Customers!Column
    <2>2. /\ Customers!Column("phone", p)
                = IF x.phone # r.phone THEN Customers!Column("phone", x.phone) ELSE <<>>
          /\ Customers!Column("email", e)
                = IF x.email # r.email THEN Customers!Column("email", x.email) ELSE <<>>
        BY <2>1
    <2> HIDE DEF p, e
    <2> QED BY <2>2, Zenon DEF Customers!ProfileLookups
<1>3. Customers!Column("phone", p) \o Customers!Column("email", e) \in Seq(Query)
    <2>1. "phone" \in Columns /\ "email" \in Columns
        BY DEF Columns
    <2> HIDE DEF p, e
    <2> QED BY <1>1, <2>1, TwoColumns
<1> QED BY <1>1, <1>2, <1>3

LEMMA ReadKeeps ==
    ASSUME CustomerInv, NEW w \in Workers, Customers!Read(w)
    PROVE  CustomerInv'
<1> DEFINE t == cTask[w]
           r == rows[t.id]
           q == IF t.kind = "profile" THEN Customers!ProfileLookups(t.key, r) ELSE <<>>
           u == [step |-> "find", kind |-> t.kind, key |-> t.key, lookups |-> q,
                 id |-> t.id, row |-> Customers!Changed(t, r)]
<1>1. /\ t.step = "read" /\ Customers!Unchanged /\ UNCHANGED faults
      /\ Customers!Goto(w, u) \/ Customers!Answer(w, Customers!Refused)
    BY DEF Customers!Read, Customers!At
<1>2. /\ t \in ReadTask /\ ChangeOK(t.kind, t.key) /\ t.id \in DOMAIN rows
      /\ r \in Customers!Row /\ Customers!CustomersAssumption
    BY <1>1 DEF CustomerInv, CustomerTypes, RequestOK
<1>3. CASE Customers!Goto(w, u)
    <2>1. q \in Seq(Query)
        <3>1. t.kind = "profile" => t.key \in Profile
            BY <1>2 DEF ChangeOK, Customers!Providers
        <3> QED BY <1>2, <3>1, ProfileLookupsOK
    <2>2. Customers!Changed(t, r) \in Customers!Row
        BY <1>2, ChangedRow
    <2>3. /\ t.kind \in Changes /\ t.key \in Key /\ t.id \in Nat /\ t.kind \in Kinds
          /\ t.kind \notin {"password", "otp", "register"} \cup Customers!Providers
        BY <1>2 DEF ReadTask, Changes, Kinds, Customers!Providers
    <2> HIDE DEF q
    <2>4. /\ u \in LookTask /\ u.step = "find" /\ u.kind = t.kind /\ u.key = t.key
          /\ u.id = t.id
        BY <2>1, <2>2, <2>3 DEF LookTask
    <2> HIDE DEF u
    <2>5. RequestOK(u, rows) /\ Justified(u, seen[w])
        BY <1>2, <2>3, <2>4, NoneIsNothing DEF RequestOK, FindOK, Justified
    <2> QED BY <1>1, <1>3, <2>5, CustomerLooks
<1>4. CASE Customers!Answer(w, Customers!Refused)
    BY <1>1, <1>4, PlainAnswer, PlainAnswers, CustomerLooks DEF Customers!Answer
<1> QED BY <1>1, <1>3, <1>4

-----------------------------------------------------------------------------
(* Reads and writes of a row.                                              *)

LEMMA CreateKeeps ==
    ASSUME CustomerInv, NEW w \in Workers, Customers!Create(w)
    PROVE  CustomerInv'
<1> DEFINE t == cTask[w]
           r == t.row
           n == Len(rows) + 1
           table == Append(rows, r)
<1>1. PICK a \in {Customers!Session(n, t), Customers!Failed} :
      /\ t.step = "find" /\ t.lookups = <<>> /\ t.id = None
      /\ Customers!Write(table) /\ made' = Append(made, r)
      /\ Customers!Answer(w, a)
      /\ UNCHANGED requests /\ (faults' = faults \/ Customers!Fault)
    BY DEF Customers!Create, Customers!Ready, Customers!At, Customers!AnswerWritten
<1>2. t \in LookTask /\ FindOK(t, rows) /\ r \in Customers!Row
    BY <1>1, Finding DEF LookTask
<1>3. t.kind \in Customers!Providers \cup {"register"} /\ r.active /\ t.kind # "password"
    <2>1. t.kind \in Kinds
        BY <1>2 DEF LookTask
    <2> QED BY <1>1, <1>2, <2>1 DEF FindOK, Kinds, Customers!Providers
<1>4. /\ rows \in Seq(Customers!Row) /\ made \in Seq(Customers!Row) /\ Len(rows) = Len(made)
    BY DEF CustomerInv, CustomerTypes
<1> HIDE DEF r
<1>5. /\ table \in Seq(Customers!Row) /\ made' \in Seq(Customers!Row)
      /\ Len(table) = Len(made') /\ DOMAIN rows \subseteq DOMAIN table
      /\ n \in DOMAIN table /\ table[n] = r
    BY <1>1, <1>2, <1>4, CustomerTables
<1> HIDE DEF table, n
<1> DEFINE S == Customers!Versions(table)
<1>6. S \subseteq S
    OBVIOUS
<1>7. Justified(Customers!Answered(a), S)
    BY <1>3, <1>5, <1>6, SessionAnswer, FailedAnswer
<1>8. Customers!Answered(a).step = "idle"
    BY DEF Customers!Answered
<1> QED BY <1>1, <1>5, <1>7, <1>8, CustomerWrites DEF Customers!Answer

LEMMA SaveKeeps ==
    ASSUME CustomerInv, NEW w \in Workers, Customers!Save(w)
    PROVE  CustomerInv'
<1> DEFINE t == cTask[w]
           i == t.id
           table == [rows EXCEPT ![i] = t.row]
           b == IF t.kind \in Customers!Providers THEN Customers!Session(i, t)
                ELSE [says |-> "done"]
<1>1. PICK a \in {b, Customers!Failed} :
      /\ t.step = "find" /\ i # None
      /\ Customers!Write(table)
      /\ made' = [made EXCEPT ![i] = Customers!Changed(t, made[i])]
      /\ Customers!Answer(w, a)
      /\ UNCHANGED requests /\ (faults' = faults \/ Customers!Fault)
    BY DEF Customers!Save, Customers!Ready, Customers!At, Customers!Saved,
       Customers!AnswerWritten
<1>2. t \in LookTask /\ FindOK(t, rows) /\ t.row \in Customers!Row /\ i \in DOMAIN rows
    BY <1>1, Finding DEF LookTask, FindOK
<1>3. /\ rows \in Seq(Customers!Row) /\ made \in Seq(Customers!Row) /\ Len(rows) = Len(made)
      /\ DOMAIN rows = DOMAIN made
    BY DEF CustomerInv, CustomerTypes
<1>4. ChangeOK(t.kind, t.key)
    <2>1. t.kind \in Kinds
        BY <1>2 DEF LookTask
    <2> QED BY <1>1, <1>2, <2>1 DEF FindOK, Kinds, Changes
<1>5. Customers!Changed(t, made[i]) \in Customers!Row
    BY <1>2, <1>3, <1>4, ChangedRow
<1>6. table[i] = t.row /\ (t.kind \in Customers!Providers => t.row.active /\ t.kind # "password")
    BY <1>2, <1>3 DEF FindOK, Customers!Providers
<1> HIDE DEF i
<1>7. /\ table \in Seq(Customers!Row) /\ made' \in Seq(Customers!Row)
      /\ Len(table) = Len(made') /\ DOMAIN rows = DOMAIN table
    BY <1>1, <1>2, <1>3, <1>5, CustomerTables
<1> HIDE DEF table
<1> DEFINE S == Customers!Versions(table)
<1>8. Justified(Customers!Answered(b), S)
    <2>1. CASE t.kind \in Customers!Providers
        <3>1. S \subseteq S
            OBVIOUS
        <3> QED BY <1>2, <1>6, <1>7, <2>1, <3>1, SessionAnswer DEF i
    <2>2. CASE t.kind \notin Customers!Providers
        BY <2>2, PlainAnswer, PlainAnswers
    <2> QED BY <2>1, <2>2
<1> HIDE DEF b
<1>9. Justified(Customers!Answered(a), S) /\ Customers!Answered(a).step = "idle"
    BY <1>1, <1>8, FailedAnswer DEF Customers!Answered
<1> QED BY <1>1, <1>7, <1>8, <1>9, CustomerWrites DEF Customers!Answer

LEMMA FailureKeeps ==
    ASSUME CustomerInv, NEW w \in Workers, Customers!Clash(w) \/ Customers!Fail(w)
    PROVE  CustomerInv'
<1>1. PICK x : /\ Customers!Answer(w, [says |-> "failed", why |-> x])
               /\ cTask[w].step # "idle" /\ Customers!Unchanged
               /\ faults' = faults \/ Customers!Fault
    BY DEF Customers!Clash, Customers!Fail, Customers!Ready, Customers!At, Customers!Failed
<1> QED BY <1>1, PlainAnswer, PlainAnswers, CustomerLooks DEF Customers!Answer

LEMMA CustomerStep ==
    ASSUME CustomerInv, [Customers!Next]_(Customers!vars)
    PROVE  CustomerInv'
<1>1. ASSUME NEW w \in Workers,
             \/ Customers!SignIn(w) \/ Customers!Login(w) \/ Customers!LoginOtp(w)
             \/ Customers!Register(w) \/ Customers!UpdateProfile(w)
             \/ Customers!ChangePassword(w) \/ Customers!ResetPassword(w)
             \/ Customers!SetActive(w)
      PROVE  CustomerInv'
    BY <1>1, SignInBegins, LoginBegins, RegisterBegins, UpdateBegins
<1>2. ASSUME NEW w \in Workers,
             \/ Customers!FindHit(w) \/ Customers!FindMiss(w) \/ Customers!Read(w)
             \/ Customers!Create(w) \/ Customers!Save(w) \/ Customers!Clash(w)
             \/ Customers!Fail(w)
      PROVE  CustomerInv'
    BY <1>2, HitKeeps, MissKeeps, ReadKeeps, CreateKeeps, SaveKeeps, FailureKeeps
<1>3. CASE UNCHANGED Customers!vars
    BY <1>3 DEF Customers!vars, CustomerInv, CustomerTypes
<1> QED BY <1>1, <1>2, <1>3 DEF Customers!Next

LEMMA CustomerStarts ==
    ASSUME Customers!CustomersAssumption, Customers!Init
    PROVE  CustomerInv
<1>1. /\ rows \in {<<>>} \cup {<<r>> : r \in Customers!OldRows} /\ made = rows
      /\ cTask = [w \in Workers |-> Customers!Answered(Customers!Nothing)]
      /\ seen = [w \in Workers |-> {}] /\ requests = 0 /\ faults = 0
    BY DEF Customers!Init
<1>2. Customers!OldRows \subseteq Customers!Row
    <2>1. ASSUME NEW p \in Phones, NEW k \in Passwords
          PROVE  Customers!OldRow(p, k) \in Customers!Row
        <3> DEFINE f == Customers!LocalVariant(p)
        <3>1. f \in Customers!Maybe(Phones \cup {Customers!LocalVariant(o) : o \in Phones})
            BY DEF Customers!Maybe
        <3> HIDE DEF f
        <3> QED BY <3>1, BlankRow DEF Customers!OldRow, Customers!Row, Customers!Maybe, f
    <2> QED BY <2>1 DEF Customers!OldRows
<1>3. rows \in Seq(Customers!Row)
    <2>1. CASE rows = <<>>
        BY <2>1
    <2>2. CASE \E r \in Customers!OldRows : rows = <<r>>
        <3>1. PICK r \in Customers!OldRows : rows = <<r>>
            BY <2>2
        <3>2. r \in Customers!Row
            BY <1>2
        <3> HIDE DEF Customers!OldRows
        <3> QED BY <3>1, <3>2
    <2> QED BY <1>1, <2>1, <2>2
<1>4. requests \in 0..MaxRequests /\ faults \in 0..MaxFaults
    BY <1>1, NoneIsNothing
<1>5. ASSUME NEW w \in Workers
      PROVE  /\ RequestOK(cTask[w], rows) /\ Justified(cTask[w], seen[w])
             /\ Sees(cTask[w], rows, seen[w])
    <2>1. cTask[w] = Customers!Answered(Customers!Nothing)
        BY <1>1
    <2> QED BY <2>1, PlainAnswer, PlainAnswers DEF Sees, Customers!Answered
<1>6. cTask = [w \in Workers |-> cTask[w]] /\ seen = [w \in Workers |-> seen[w]]
    BY <1>1
<1> QED BY <1>1, <1>3, <1>4, <1>5, <1>6 DEF CustomerInv, CustomerTypes

\* A session was given for an account that was enabled, and had the password
\* that was sent, at one moment of the request, though lookups, reads and
\* saves are statements apart (customer_service.go).
THEOREM SessionsAreJustified == Customers!Spec => []CustomersInv
<1>1. Customers!Init => CustomerInv
    BY CustomersAssumption, CustomerStarts
<1>2. CustomerInv /\ [Customers!Next]_(Customers!vars) => CustomerInv'
    BY CustomerStep
<1>3. CustomerInv => CustomersInv
    <2>1. CustomerInv => Customers!TypeOK
        BY DEF CustomerInv, CustomerTypes, Customers!TypeOK
    <2>2. CustomerInv => Customers!SessionIsJustified
        BY DEF CustomerInv, Justified, Customers!SessionIsJustified, Customers!At
    <2> QED BY <2>1, <2>2 DEF CustomersInv, Customers!CustomersInv
<1> QED BY <1>1, <1>2, <1>3, PTL DEF Customers!Spec

-----------------------------------------------------------------------------
(* What requests make of rows, when none overlaps.                         *)

\* The unique indexes.
Unique(R) == \A i, j \in DOMAIN R, c \in Columns :
                i # j /\ R[i][c] # None => R[i][c] # R[j][c]

\* What the row is to have in a column no other row has, or it is still going
\* to be looked up.
Sought(t, R, c) ==
    \/ t.row[c] = None
    \/ Has(t.lookups, c, t.row[c])
    \/ \A i \in DOMAIN R \ {t.id} : R[i][c] # t.row[c]

PhoneSought(t, R, p) ==
    Has(t.lookups, "phone", p) \/ \A i \in DOMAIN R : R[i].phone # p

SignInSought(t) ==
    /\ t.lookups # <<>> => t.id = None
    /\ t.row[t.kind] = t.key
    /\ \A k \in DOMAIN t.lookups : k # 1 => t.lookups[k].column # t.kind

OtpSought(t, R) ==
    PhoneSought(t, R, t.key) /\ PhoneSought(t, R, Customers!LocalVariant(t.key))

TrueTask(t, R) ==
    /\ t.step = "find" =>
          /\ \A c \in Columns : Sought(t, R, c)
          /\ t.kind = "otp" => OtpSought(t, R)
          /\ t.kind \in Customers!Providers => SignInSought(t)
    /\ t.step = "idle" => t.answer # [says |-> "failed", why |-> "index"]

\* No row has the phone, in either form, of a request told that there is none.
ToldTrue(t, R) ==
    (t.step = "idle" /\ t.answer.says = "no account" /\ t.answer.kind = "otp") =>
        \A i \in DOMAIN R :
            R[i].phone \notin {t.answer.key, Customers!LocalVariant(t.answer.key)}

\* What is to be saved is the row as it is, but for what was asked.
ApartTask(t, R) ==
    t.step = "find" /\ t.id # None => t.row = Customers!Changed(t, R[t.id])

\* No other request overlaps, and no query fails.
Alone == regime = "alone" /\ faults' = 0

\* What a step that writes no row makes of a request.
Makes(w, t) ==
    /\ Customers!Goto(w, t) /\ UNCHANGED <<rows, made>>
    /\ regime = "apart" => ApartTask(t, rows)
    /\ Alone => TrueTask(t, rows) /\ ToldTrue(t, rows)

\* Answers that say nothing about the table.
LEMMA OtherAnswer ==
    ASSUME NEW a, a.says # "no account", a # [says |-> "failed", why |-> "index"], NEW R
    PROVE  /\ ApartTask(Customers!Answered(a), R) /\ TrueTask(Customers!Answered(a), R)
           /\ ToldTrue(Customers!Answered(a), R)
<1>1. /\ Customers!Answered(a).step = "idle" /\ Customers!Answered(a).answer = a
    BY DEF Customers!Answered
<1> QED BY <1>1 DEF ApartTask, TrueTask, ToldTrue

LEMMA OtherAnswers ==
    /\ Customers!Refused.says \notin {"no account", "failed"}
    /\ Customers!Nothing.says \notin {"no account", "failed"}
    /\ \A i, t : Customers!Session(i, t).says \notin {"no account", "failed"}
    /\ [says |-> "failed", why |-> "index"].says = "failed"
    /\ [says |-> "failed", why |-> "fault"].says # "no account"
    /\ [says |-> "failed", why |-> "fault"] # [says |-> "failed", why |-> "index"]
    /\ [says |-> "done"].says \notin {"no account", "failed"}
<1>1. [says |-> "failed", why |-> "fault"] # [says |-> "failed", why |-> "index"]
    <2>1. [says |-> "failed", why |-> "fault"].why = "fault"
        OBVIOUS
    <2>2. [says |-> "failed", why |-> "index"].why = "index"
        OBVIOUS
    <2>3. "fault" # "index"
        OBVIOUS
    <2> QED BY <2>1, <2>2, <2>3, Zenon
<1> QED BY <1>1 DEF Customers!Refused, Customers!Nothing, Customers!Session

\* A request that begins with lookups looks up all that must be its own.
LEMMA LookupTrue ==
    ASSUME NEW k, NEW x, NEW q, NEW r, NEW R,
           \A c \in Columns : r[c] = None \/ Has(q, c, r[c]),
           k = "otp" => Has(q, "phone", x) /\ Has(q, "phone", Customers!LocalVariant(x)),
           k \in Customers!Providers =>
               r[k] = x /\ \A n \in DOMAIN q : n # 1 => q[n].column # k
    PROVE  /\ TrueTask(Customers!Lookup(k, x, q, r), R)
           /\ ToldTrue(Customers!Lookup(k, x, q, r), R)
           /\ ApartTask(Customers!Lookup(k, x, q, r), R)
<1> DEFINE t == Customers!Lookup(k, x, q, r)
<1>1. /\ t.step = "find" /\ t.kind = k /\ t.key = x /\ t.lookups = q
      /\ t.id = None /\ t.row = r
    BY DEF Customers!Lookup
<1> HIDE DEF t
<1>2. \A c \in Columns : Sought(t, R, c)
    BY <1>1 DEF Sought
<1>3. k = "otp" => OtpSought(t, R)
    BY <1>1 DEF OtpSought, PhoneSought
<1>4. k \in Customers!Providers => SignInSought(t)
    BY <1>1 DEF SignInSought
<1>5. TrueTask(t, R)
    BY <1>1, <1>2, <1>3, <1>4 DEF TrueTask
<1>6. ToldTrue(t, R) /\ ApartTask(t, R)
    BY <1>1 DEF ToldTrue, ApartTask
<1> QED BY <1>5, <1>6 DEF t

LEMMA ReadTrue ==
    ASSUME NEW t, t.step = "read", NEW R
    PROVE  TrueTask(t, R) /\ ToldTrue(t, R) /\ ApartTask(t, R)
BY DEF TrueTask, ToldTrue, ApartTask

LEMMA SignInTrue ==
    ASSUME CustomerInv, NEW w \in Workers, Customers!SignIn(w)
    PROVE  \E t : Makes(w, t)
<1>1. PICK p \in Customers!Providers, s \in Subs, e \in Customers!Maybe(Emails) :
         Customers!Begin(w, Customers!Lookup(p, s,
                               Customers!Column(p, s) \o Customers!Column("email", e),
                               [Customers!Blank EXCEPT ![p] = s, !.email = e]))
    BY DEF Customers!SignIn
<1> DEFINE q == Customers!Column(p, s) \o Customers!Column("email", e)
           r == [Customers!Blank EXCEPT ![p] = s, !.email = e]
           t == Customers!Lookup(p, s, q, r)
<1>2. /\ p \in Columns /\ "email" \in Columns /\ p # "email" /\ p # "otp"
      /\ s \in Values /\ s # None /\ e \in Values \cup {None}
    BY NoneIsNothing DEF CustomerInv, CustomerTypes, Columns, Values, Customers!Providers,
       Customers!Maybe
<1>3. /\ Has(q, p, s) /\ (e # None => Has(q, "email", e))
      /\ \A n \in DOMAIN q : n # 1 => q[n].column = "email"
    BY <1>2, TwoColumns
<1>4. /\ r[p] = s /\ r.email = e
      /\ \A c \in Columns \ {p, "email"} : r[c] = None
    <2>1. CASE p = "google"
        BY <2>1, BlankRow DEF Columns, Customers!Blank
    <2>2. CASE p = "facebook"
        BY <2>2, BlankRow DEF Columns, Customers!Blank
    <2> QED BY <2>1, <2>2 DEF Customers!Providers
<1> HIDE DEF q, r
<1>5. TrueTask(t, rows) /\ ToldTrue(t, rows) /\ ApartTask(t, rows)
    BY <1>2, <1>3, <1>4, LookupTrue
<1> HIDE DEF t
<1>6. Customers!Goto(w, t) /\ UNCHANGED <<rows, made>>
    BY <1>1 DEF Customers!Begin, t, q, r
<1> QED BY <1>5, <1>6 DEF Makes

LEMMA LoginTrue ==
    ASSUME CustomerInv, NEW w \in Workers, Customers!Login(w) \/ Customers!LoginOtp(w)
    PROVE  \E t : Makes(w, t)
<1>1. {"phone", "email"} \subseteq Columns /\ "password" \notin Customers!Providers
      /\ "otp" \notin Customers!Providers
    BY DEF Columns, Customers!Providers
<1>2. ASSUME NEW i \in Phones \cup OldForms \cup Emails, NEW k \in Passwords,
             Customers!Begin(w, Customers!Lookup("password", k,
                   Customers!Column("phone", i) \o Customers!Column("email", i),
                   Customers!Blank))
      PROVE  \E t : Makes(w, t)
    <2> DEFINE q == Customers!Column("phone", i) \o Customers!Column("email", i)
               t == Customers!Lookup("password", k, q, Customers!Blank)
    <2> HIDE DEF q
    <2>1. TrueTask(t, rows) /\ ToldTrue(t, rows) /\ ApartTask(t, rows)
        BY <1>1, BlankRow, LookupTrue
    <2> HIDE DEF t
    <2>2. Customers!Goto(w, t) /\ UNCHANGED <<rows, made>>
        BY <1>2 DEF Customers!Begin, t, q
    <2> QED BY <2>1, <2>2 DEF Makes
<1>3. ASSUME NEW p \in Phones,
             Customers!Begin(w, Customers!Lookup("otp", p, Customers!OtpLookups(p),
                                                 Customers!Blank))
      PROVE  \E t : Makes(w, t)
    <2> DEFINE q == Customers!OtpLookups(p)
               t == Customers!Lookup("otp", p, q, Customers!Blank)
               f == Customers!LocalVariant(p)
    <2>1. p \in Values /\ p # None /\ f \in Values /\ f # None
        BY NoneIsNothing DEF CustomerInv, CustomerTypes, Values, OldForms
    <2>2. Has(q, "phone", p) /\ Has(q, "phone", f)
        BY <1>1, <2>1, TwoColumns DEF Customers!OtpLookups
    <2> HIDE DEF q
    <2>3. TrueTask(t, rows) /\ ToldTrue(t, rows) /\ ApartTask(t, rows)
        BY <1>1, <2>2, BlankRow, LookupTrue
    <2> HIDE DEF t
    <2>4. Customers!Goto(w, t) /\ UNCHANGED <<rows, made>>
        BY <1>3 DEF Customers!Begin, t, q
    <2> QED BY <2>3, <2>4 DEF Makes
<1> QED BY <1>2, <1>3 DEF Customers!Login, Customers!LoginOtp, OldForms

LEMMA RegisterTrue ==
    ASSUME CustomerInv, NEW w \in Workers, Customers!Register(w)
    PROVE  \E t : Makes(w, t)
<1>1. PICK p \in Phones, e \in Customers!Maybe(Emails), k \in Passwords :
         Customers!Begin(w, Customers!Lookup("register", p,
                Customers!Column("phone", p) \o Customers!Column("email", e),
                [Customers!Blank EXCEPT !.phone = p, !.email = e, !.password = k]))
    BY DEF Customers!Register
<1> DEFINE q == Customers!Column("phone", p) \o Customers!Column("email", e)
           r == [Customers!Blank EXCEPT !.phone = p, !.email = e, !.password = k]
           t == Customers!Lookup("register", p, q, r)
<1>2. /\ {"phone", "email"} \subseteq Columns /\ "register" \notin Customers!Providers
      /\ p \in Values /\ p # None /\ e \in Values \cup {None}
    BY NoneIsNothing DEF CustomerInv, CustomerTypes, Columns, Values, Customers!Providers,
       Customers!Maybe
<1>3. Has(q, "phone", p) /\ (e # None => Has(q, "email", e))
    BY <1>2, TwoColumns
<1>4. /\ r.phone = p /\ r.email = e
      /\ \A c \in Columns \ {"phone", "email"} : r[c] = None
    BY BlankRow DEF Columns, Customers!Blank
<1> HIDE DEF q, r
<1>5. TrueTask(t, rows) /\ ToldTrue(t, rows) /\ ApartTask(t, rows)
    BY <1>2, <1>3, <1>4, LookupTrue
<1> HIDE DEF t
<1>6. Customers!Goto(w, t) /\ UNCHANGED <<rows, made>>
    BY <1>1 DEF Customers!Begin, t, q, r
<1> QED BY <1>5, <1>6 DEF Makes

LEMMA UpdateTrue ==
    ASSUME NEW w \in Workers,
           \/ Customers!UpdateProfile(w) \/ Customers!ChangePassword(w)
           \/ Customers!ResetPassword(w) \/ Customers!SetActive(w)
    PROVE  \E t : Makes(w, t)
<1>1. \E k, x : Customers!Update(w, k, x)
    BY DEF Customers!UpdateProfile, Customers!ChangePassword,
           Customers!ResetPassword, Customers!SetActive
<1>2. PICK t : Customers!Begin(w, t) /\ t.step = "read"
    BY <1>1 DEF Customers!Update
<1> QED BY <1>2, ReadTrue DEF Makes, Customers!Begin

\* A lookup that finds nothing but the row itself: what is left to look up
\* still covers the rest.
LEMMA HasLess ==
    ASSUME NEW q \in Seq(Query), q # <<>>, NEW c, NEW v, Has(q, c, v)
    PROVE  Has(Tail(q), c, v) \/ (Head(q).column = c /\ Head(q).value = v)
<1>1. PICK k \in DOMAIN q : q[k] = [column |-> c, value |-> v]
    BY DEF Has
<1>2. /\ Head(q) = q[1]
      /\ \A n \in DOMAIN Tail(q) : Tail(q)[n] = q[n + 1]
      /\ k # 1 => k - 1 \in DOMAIN Tail(q)
    BY Lookups
<1>3. CASE k = 1
    BY <1>1, <1>2, <1>3
<1>4. CASE k # 1
    <2>1. k \in Nat
        OBVIOUS
    <2>2. Tail(q)[k - 1] = q[k]
        BY <1>2, <1>4, <2>1
    <2> QED BY <1>1, <1>2, <1>4, <2>2 DEF Has
<1> QED BY <1>3, <1>4

LEMMA TailTrue ==
    ASSUME NEW t \in LookTask, NEW R, NEW u, t.lookups # <<>>, TrueTask(t, R),
           u.step = "find", u.kind = t.kind, u.key = t.key, u.id = t.id, u.row = t.row,
           u.lookups = Tail(t.lookups),
           \A i \in DOMAIN R \ {t.id} : R[i][Head(t.lookups).column] # Head(t.lookups).value,
           t.kind = "otp" => t.id \notin DOMAIN R
    PROVE  TrueTask(u, R) /\ ToldTrue(u, R)
<1>1. t.lookups \in Seq(Query) /\ t.step = "find"
    BY DEF LookTask
<1>2. ASSUME NEW c \in Columns
      PROVE  Sought(u, R, c)
    <2>1. Sought(t, R, c)
        BY <1>1 DEF TrueTask
    <2>2. CASE Has(t.lookups, c, t.row[c])
        BY <1>1, <2>2, HasLess DEF Sought
    <2> QED BY <2>1, <2>2 DEF Sought
<1>3. ASSUME t.kind = "otp", NEW p, PhoneSought(t, R, p)
      PROVE  PhoneSought(u, R, p)
    <2>1. CASE Has(t.lookups, "phone", p)
        BY <1>1, <1>3, <2>1, HasLess DEF PhoneSought
    <2> QED BY <1>3, <2>1 DEF PhoneSought
<1>4. u.kind = "otp" => OtpSought(u, R)
    BY <1>1, <1>3 DEF TrueTask, OtpSought
<1>5. u.kind \in Customers!Providers => SignInSought(u)
    <2>1. SUFFICES ASSUME SignInSought(t), NEW k \in DOMAIN u.lookups
                   PROVE  u.lookups[k].column # t.kind
        BY <1>1 DEF TrueTask, SignInSought
    <2>2. k + 1 \in DOMAIN t.lookups /\ u.lookups[k] = t.lookups[k + 1] /\ k + 1 # 1
        <3>1. k + 1 \in DOMAIN t.lookups /\ u.lookups[k] = t.lookups[k + 1]
            BY <1>1, Lookups
        <3>2. Tail(t.lookups) \in Seq(Query)
            BY <1>1, Lookups
        <3>3. k \in 1..Len(u.lookups)
            BY <3>2
        <3> QED BY <3>1, <3>3
    <2> QED BY <2>1, <2>2 DEF SignInSought
<1>6. TrueTask(u, R)
    BY <1>2, <1>4, <1>5 DEF TrueTask
<1> QED BY <1>6 DEF ToldTrue

\* A request that found a row.
LEMMA HitTrue ==
    ASSUME CustomerInv, Unique(rows), NEW w \in Workers, Customers!FindHit(w),
           regime = "apart" => ApartTask(cTask[w], rows),
           Alone => TrueTask(cTask[w], rows)
    PROVE  \E t : Makes(w, t)
<1> DEFINE t == cTask[w]
           q == Head(t.lookups)
<1>1. /\ t.step = "find" /\ t.lookups # <<>> /\ UNCHANGED <<rows, made>>
    BY DEF Customers!FindHit, Customers!At, Customers!Unchanged
<1>2. PICK i \in Customers!Matches(q) :
         \/ t.kind \in Customers!Providers /\ Customers!FoundBySignIn(w, q, i)
         \/ t.kind = "password" /\ Customers!FoundByPassword(w, i)
         \/ t.kind = "otp" /\ Customers!LetIn(w, i)
         \/ t.kind = "register" /\ Customers!Answer(w, Customers!Refused)
         \/ t.kind = "profile" /\ Customers!FoundByProfile(w, i)
    BY DEF Customers!FindHit
<1>3. /\ t \in LookTask /\ FindOK(t, rows)
      /\ i \in DOMAIN rows /\ i \in Nat /\ rows[i] \in Customers!Row
      /\ rows[i][q.column] = q.value
    BY <1>1, Finding DEF Customers!Matches
<1>4. t.lookups \in Seq(Query) /\ q \in Query
    <2>1. t.lookups \in Seq(Query)
        BY <1>3 DEF LookTask
    <2> QED BY <1>1, <2>1, Lookups
<1>5. ASSUME NEW a, Customers!Answer(w, a), a.says \notin {"no account", "failed"}
      PROVE  \E u : Makes(w, u)
    <2>1. a # [says |-> "failed", why |-> "index"]
        BY <1>5, OtherAnswers
    <2> QED BY <1>1, <1>5, <2>1, OtherAnswer DEF Makes, Customers!Answer
<1>6. CASE t.kind \in Customers!Providers /\ Customers!FoundBySignIn(w, q, i)
    <2> DEFINE r == [rows[i] EXCEPT ![t.kind] = t.key]
               u == [t EXCEPT !.id = i, !.lookups = <<>>, !.row = r]
    <2>1. \/ Customers!Answer(w, Customers!Refused)
          \/ Customers!Answer(w, Customers!Session(i, t))
          \/ q.column # t.kind /\ Customers!Goto(w, u)
        BY <1>6 DEF Customers!FoundBySignIn
    <2>2. CASE q.column # t.kind /\ Customers!Goto(w, u)
        <3>1. r = Customers!Changed(t, rows[i])
            BY <1>6 DEF Customers!Changed, Customers!Providers
        <3>2. ChangeOK(t.kind, t.key)
            BY <1>3, <1>6 DEF FindOK
        <3>3. r \in Customers!Row
            BY <1>3, <3>1, <3>2, ChangedRow
        <3>4. t.kind \in DOMAIN rows[i] /\ t.key # None
            BY <1>3, <1>6, <3>2, NoneIsNothing
               DEF Customers!Row, Customers!Providers, ChangeOK, Changes, CustomerInv, CustomerTypes
        <3>5. r[t.kind] = t.key /\ \A c \in Columns \ {t.kind} : r[c] = rows[i][c]
            BY <1>3, <3>4 DEF Customers!Row
        <3> HIDE DEF r
        <3>6. /\ u.step = "find" /\ u.kind = t.kind /\ u.key = t.key /\ u.id = i /\ u.row = r
              /\ u.lookups = <<>>
            <4>1. t \in LookTask /\ i \in Nat /\ r \in Customers!Row
                BY <1>3, <3>3
            <4> HIDE DEF t
            <4> QED BY <4>1 DEF LookTask
        <3> HIDE DEF u
        <3>7. ApartTask(u, rows)
            <4>1. Customers!Changed(u, rows[i]) = Customers!Changed(t, rows[i])
                BY <3>6 DEF Customers!Changed
            <4> QED BY <3>1, <3>6, <4>1 DEF ApartTask
        <3>8. ASSUME Alone
              PROVE  TrueTask(u, rows) /\ ToldTrue(u, rows)
            <4>1. TrueTask(t, rows)
                BY <3>8
            <4>2. SignInSought(t) /\ t.kind \in Columns
                BY <1>1, <1>6, <4>1 DEF TrueTask, Columns, Customers!Providers
            <4>3. t.id = None /\ t.row[t.kind] = t.key
                BY <1>1, <4>2 DEF SignInSought
            <4>4. ~Has(t.lookups, t.kind, t.key)
                <5>1. \A k \in DOMAIN t.lookups : t.lookups[k].column # t.kind
                    BY <1>1, <1>4, <2>2, <4>2, Lookups DEF SignInSought
                <5> QED BY <5>1 DEF Has
            <4>5. \A j \in DOMAIN rows \ {i} : rows[j][t.kind] # t.key
                <5>1. Sought(t, rows, t.kind)
                    BY <1>1, <4>1, <4>2 DEF TrueTask
                <5>2. \A j \in DOMAIN rows \ {t.id} : rows[j][t.kind] # t.key
                    BY <3>4, <4>3, <4>4, <5>1 DEF Sought
                <5>3. None \notin DOMAIN rows
                    BY NoneIsNothing DEF CustomerInv, CustomerTypes
                <5> QED BY <4>3, <5>2, <5>3
            <4>6. ASSUME NEW c \in Columns
                  PROVE  Sought(u, rows, c)
                <5>1. CASE c = t.kind
                    BY <3>5, <3>6, <4>5, <5>1 DEF Sought
                <5>2. CASE c # t.kind
                    BY <1>3, <3>5, <3>6, <5>2 DEF Sought, Unique
                <5> QED BY <5>1, <5>2
            <4>7. SignInSought(u)
                BY <3>5, <3>6 DEF SignInSought
            <4>8. u.kind # "otp"
                BY <1>6, <3>6 DEF Customers!Providers
            <4> QED BY <3>6, <4>6, <4>7, <4>8 DEF TrueTask, ToldTrue
        <3> QED BY <1>1, <2>2, <3>7, <3>8 DEF Makes
    <2> QED BY <1>5, <2>1, <2>2, OtherAnswers
<1>7. CASE t.kind = "profile" /\ Customers!FoundByProfile(w, i)
    <2> DEFINE u == [t EXCEPT !.lookups = Tail(t.lookups)]
    <2>1. \/ i = t.id /\ Customers!Goto(w, u)
          \/ Customers!Answer(w, Customers!Refused)
        BY <1>7 DEF Customers!FoundByProfile
    <2>2. CASE i = t.id /\ Customers!Goto(w, u)
        <3>1. Tail(t.lookups) \in Seq(Query)
            BY <1>1, <1>4, Lookups
        <3>2. /\ u \in LookTask /\ u.step = "find" /\ u.kind = t.kind /\ u.key = t.key
              /\ u.id = t.id /\ u.row = t.row /\ u.lookups = Tail(t.lookups)
            BY <1>3, <3>1, FindTails
        <3> HIDE DEF u
        <3>3. regime = "apart" => ApartTask(u, rows)
            <4>1. Customers!Changed(u, rows[i]) = Customers!Changed(t, rows[i])
                BY <3>2 DEF Customers!Changed
            <4> QED BY <1>1, <2>2, <3>2, <4>1 DEF ApartTask
        <3>4. \A j \in DOMAIN rows \ {t.id} : rows[j][q.column] # q.value
            <4>1. q.column \in Columns /\ q.value # None
                <5>1. q.column \in Columns /\ q.value \in Values
                    BY <1>4 DEF Query
                <5> QED BY <5>1, NoneIsNothing DEF Values, CustomerInv, CustomerTypes
            <4> QED BY <1>3, <2>2, <4>1 DEF Unique
        <3>5. t.kind # "otp"
            BY <1>7
        <3>6. Alone => TrueTask(u, rows) /\ ToldTrue(u, rows)
            BY <1>1, <1>3, <3>2, <3>4, <3>5, TailTrue
        <3> QED BY <1>1, <2>2, <3>3, <3>6 DEF Makes
    <2> QED BY <1>5, <2>1, <2>2, OtherAnswers
<1>8. CASE \/ t.kind = "password" /\ Customers!FoundByPassword(w, i)
           \/ t.kind = "otp" /\ Customers!LetIn(w, i)
           \/ t.kind = "register" /\ Customers!Answer(w, Customers!Refused)
    <2>1. \/ Customers!Answer(w, Customers!Refused)
          \/ Customers!Answer(w, Customers!Session(i, t))
        BY <1>8 DEF Customers!FoundByPassword, Customers!LetIn
    <2> QED BY <1>5, <2>1, OtherAnswers
<1> QED BY <1>2, <1>6, <1>7, <1>8

\* A request that found none.
LEMMA MissTrue ==
    ASSUME CustomerInv, NEW w \in Workers, Customers!FindMiss(w), faults \in Nat,
           regime = "apart" => ApartTask(cTask[w], rows),
           Alone => TrueTask(cTask[w], rows)
    PROVE  \E t : Makes(w, t)
<1> DEFINE t == cTask[w]
           q == Head(t.lookups)
           u == [t EXCEPT !.lookups = Tail(t.lookups)]
           a == [says |-> "no account", kind |-> t.kind, key |-> t.key]
<1>1. /\ t.step = "find" /\ t.lookups # <<>> /\ UNCHANGED <<rows, made>>
      /\ Customers!Matches(q) = {} \/ faults' = faults + 1
    BY DEF Customers!FindMiss, Customers!At, Customers!Unchanged, Customers!Fault
<1>2. \/ Customers!Answer(w, a) /\ Tail(t.lookups) = <<>>
      \/ Customers!Goto(w, u)
    BY DEF Customers!FindMiss
<1>3. t \in LookTask /\ FindOK(t, rows) /\ t.lookups \in Seq(Query)
    BY <1>1, Finding DEF LookTask
<1>4. Alone => \A i \in DOMAIN rows : rows[i][q.column] # q.value
    <2>1. Alone => Customers!Matches(q) = {}
        BY <1>1 DEF Alone
    <2> QED BY <2>1 DEF Customers!Matches
<1>5. CASE Customers!Answer(w, a) /\ Tail(t.lookups) = <<>>
    <2> DEFINE s == Customers!Answered(a)
    <2>1. /\ s.step = "idle" /\ s.answer = a /\ a.says = "no account"
          /\ a.kind = t.kind /\ a.key = t.key
        BY DEF Customers!Answered
    <2> HIDE DEF s, a
    <2>2. TrueTask(s, rows) /\ ApartTask(s, rows)
        BY <2>1, OtherAnswers DEF TrueTask, ApartTask
    <2>3. ASSUME Alone
          PROVE  ToldTrue(s, rows)
        <3>1. SUFFICES ASSUME t.kind = "otp"
                       PROVE  \A i \in DOMAIN rows :
                          rows[i].phone \notin {t.key, Customers!LocalVariant(t.key)}
            BY <2>1 DEF ToldTrue
        <3>2. OtpSought(t, rows)
            BY <1>1, <2>3, <3>1 DEF TrueTask
        <3>3. ASSUME NEW p, PhoneSought(t, rows, p)
              PROVE  \A i \in DOMAIN rows : rows[i].phone # p
            <4>1. CASE Has(t.lookups, "phone", p)
                <5>1. ~Has(Tail(t.lookups), "phone", p)
                    BY <1>5 DEF Has
                <5>2. q.column = "phone" /\ q.value = p
                    BY <1>1, <1>3, <4>1, <5>1, HasLess
                <5> QED BY <1>4, <2>3, <5>2
            <4> QED BY <3>3, <4>1 DEF PhoneSought
        <3> QED BY <3>2, <3>3 DEF OtpSought
    <2> QED BY <1>1, <1>5, <2>2, <2>3 DEF Makes, Customers!Answer, s
<1>6. CASE Customers!Goto(w, u)
    <2>1. Tail(t.lookups) \in Seq(Query)
        BY <1>1, <1>3, Lookups
    <2>2. /\ u \in LookTask /\ u.step = "find" /\ u.kind = t.kind /\ u.key = t.key
          /\ u.id = t.id /\ u.row = t.row /\ u.lookups = Tail(t.lookups)
        BY <1>3, <2>1, FindTails
    <2> HIDE DEF u
    <2>3. regime = "apart" => ApartTask(u, rows)
        <3>1. Customers!Changed(u, rows[t.id]) = Customers!Changed(t, rows[t.id])
            BY <2>2 DEF Customers!Changed
        <3> QED BY <1>1, <2>2, <3>1 DEF ApartTask
    <2>4. t.kind = "otp" => t.id \notin DOMAIN rows
        BY <1>3, NoneIsNothing DEF FindOK, CustomerInv, CustomerTypes
    <2>5. Alone => TrueTask(u, rows) /\ ToldTrue(u, rows)
        BY <1>1, <1>3, <1>4, <2>2, <2>4, TailTrue
    <2> QED BY <1>1, <1>6, <2>3, <2>5 DEF Makes
<1> QED BY <1>2, <1>5, <1>6

\* A request that reads its row.
LEMMA ReadMakes ==
    ASSUME CustomerInv, Unique(rows), NEW w \in Workers, Customers!Read(w)
    PROVE  \E t : Makes(w, t)
<1> DEFINE t == cTask[w]
           r == rows[t.id]
           s == Customers!Changed(t, r)
           q == IF t.kind = "profile" THEN Customers!ProfileLookups(t.key, r) ELSE <<>>
           u == [step |-> "find", kind |-> t.kind, key |-> t.key, lookups |-> q,
                 id |-> t.id, row |-> s]
<1>1. /\ t.step = "read" /\ UNCHANGED <<rows, made>>
      /\ Customers!Goto(w, u) \/ Customers!Answer(w, Customers!Refused)
    BY DEF Customers!Read, Customers!At, Customers!Unchanged
<1>2. /\ t \in ReadTask /\ ChangeOK(t.kind, t.key) /\ t.id \in DOMAIN rows
      /\ r \in Customers!Row /\ t.kind \in Changes
    <2>1. RequestOK(t, rows) /\ \A i \in DOMAIN rows : rows[i] \in Customers!Row
        BY DEF CustomerInv, CustomerTypes
    <2> QED BY <1>1, <2>1 DEF RequestOK, ReadTask
<1>3. CASE Customers!Answer(w, Customers!Refused)
    <2>1. Customers!Refused # [says |-> "failed", why |-> "index"]
        BY OtherAnswers
    <2> QED BY <1>1, <1>3, <2>1, OtherAnswer, OtherAnswers DEF Makes, Customers!Answer
<1>4. CASE Customers!Goto(w, u)
    <2>1. /\ u.step = "find" /\ u.kind = t.kind /\ u.key = t.key /\ u.lookups = q
          /\ u.id = t.id /\ u.row = s
        OBVIOUS
    <2>2. ASSUME NEW c \in Columns, s[c] # None, s[c] # r[c]
          PROVE  Has(q, c, s[c])
        <3>1. CASE t.kind = "profile"
            <4>1. t.key \in Profile
                BY <1>2, <3>1 DEF ChangeOK, Customers!Providers
            <4>2. s = [r EXCEPT !.phone = t.key.phone, !.email = t.key.email]
                BY <3>1 DEF Customers!Changed, Customers!Providers
            <4>3. /\ s.phone = t.key.phone /\ s.email = t.key.email
                  /\ c \notin {"phone", "email"} => s[c] = r[c]
                BY <1>2, <4>2 DEF Customers!Row, Columns
            <4> HIDE DEF s, r
            <4> DEFINE p == IF t.key.phone # r.phone THEN t.key.phone ELSE None
                       e == IF t.key.email # r.email THEN t.key.email ELSE None
            <4>4. /\ p \in Values \cup {None} /\ e \in Values \cup {None}
                  /\ q = Customers!Column("phone", p) \o Customers!Column("email", e)
                BY <1>2, <3>1, <4>1, ProfileLookupsOK
            <4>5. p # None => Has(q, "phone", p)
                <5>1. "phone" \in Columns /\ "email" \in Columns
                    BY DEF Columns
                <5> HIDE DEF p, e, q
                <5> QED BY <4>4, <5>1, TwoColumns
            <4>6. e # None => Has(q, "email", e)
                <5>1. "phone" \in Columns /\ "email" \in Columns
                    BY DEF Columns
                <5> HIDE DEF p, e, q
                <5> QED BY <4>4, <5>1, TwoColumns
            <4>7. CASE c = "phone"
                BY <2>2, <4>3, <4>5, <4>7
            <4>8. CASE c = "email"
                BY <2>2, <4>3, <4>6, <4>8
            <4> QED BY <2>2, <4>3, <4>7, <4>8
        <3>2. CASE t.kind \in {"change", "reset"}
            <4>1. s = [r EXCEPT !.password = t.key.new]
                BY <3>2 DEF Customers!Changed, Customers!Providers
            <4> QED BY <1>2, <2>2, <4>1 DEF Customers!Row, Columns
        <3>3. CASE t.kind = "active"
            <4>1. s = [r EXCEPT !.active = t.key]
                BY <3>3 DEF Customers!Changed, Customers!Providers
            <4> QED BY <1>2, <2>2, <4>1 DEF Customers!Row, Columns
        <3> QED BY <1>2, <3>1, <3>2, <3>3 DEF Changes
    <2> HIDE DEF u, s, q
    <2>3. ASSUME NEW c \in Columns
          PROVE  Sought(u, rows, c)
        <3>1. CASE s[c] = r[c]
            BY <1>2, <2>1, <3>1 DEF Sought, Unique
        <3>2. CASE s[c] # r[c]
            BY <2>1, <2>2, <3>2 DEF Sought
        <3> QED BY <3>1, <3>2
    <2>4. t.kind # "otp" /\ t.kind \notin Customers!Providers
        BY <1>2 DEF Changes, Customers!Providers
    <2>5. TrueTask(u, rows) /\ ToldTrue(u, rows)
        BY <2>1, <2>3, <2>4 DEF TrueTask, ToldTrue
    <2>6. ApartTask(u, rows)
        <3>1. Customers!Changed(u, r) = s
            BY <2>1 DEF Customers!Changed, s
        <3> QED BY <2>1, <3>1 DEF ApartTask
    <2> QED BY <1>1, <1>4, <2>5, <2>6 DEF Makes
<1> QED BY <1>1, <1>3, <1>4

\* A request that the database refuses: not by an index, if none overlaps.
LEMMA FailureMakes ==
    ASSUME CustomerInv, NEW w \in Workers, Customers!Clash(w) \/ Customers!Fail(w),
           Alone => TrueTask(cTask[w], rows)
    PROVE  \E t : Makes(w, t)
<1> DEFINE t == cTask[w]
           a == [says |-> "failed", why |-> "index"]
           b == [says |-> "failed", why |-> "fault"]
<1>1. UNCHANGED <<rows, made>>
    BY DEF Customers!Clash, Customers!Fail, Customers!Unchanged
<1>2. CASE Customers!Clash(w)
    <2>1. /\ t.step = "find" /\ t.lookups = <<>> /\ Customers!Answer(w, a)
          /\ Customers!Clashes(t.row, DOMAIN rows \ {t.id})
        BY <1>2 DEF Customers!Clash, Customers!Ready, Customers!At
    <2>2. ~Alone
        <3>1. SUFFICES ASSUME Alone
                       PROVE  FALSE
            OBVIOUS
        <3>2. PICK i \in DOMAIN rows \ {t.id}, c \in Columns :
                 t.row[c] # None /\ rows[i][c] = t.row[c]
            BY <2>1 DEF Customers!Clashes, Columns, Customers!Providers
        <3>3. Sought(t, rows, c)
            BY <2>1, <3>1 DEF TrueTask
        <3>4. ~Has(t.lookups, c, t.row[c])
            BY <2>1 DEF Has
        <3> QED BY <3>2, <3>3, <3>4 DEF Sought
    <2>3. ApartTask(Customers!Answered(a), rows)
        BY DEF ApartTask, Customers!Answered
    <2> QED BY <1>1, <2>1, <2>2, <2>3 DEF Makes, Customers!Answer
<1>3. CASE Customers!Fail(w)
    <2>1. Customers!Answer(w, b)
        BY <1>3 DEF Customers!Fail, Customers!Failed
    <2>2. b.says # "no account" /\ b # a
        BY OtherAnswers
    <2> HIDE DEF b, a
    <2> QED BY <1>1, <2>1, <2>2, OtherAnswer DEF Makes, Customers!Answer, a
<1> QED BY <1>2, <1>3

\* Every step but a write.
LEMMA StepMakes ==
    ASSUME CustomerInv, Unique(rows), NEW w \in Workers,
           \/ Customers!SignIn(w) \/ Customers!Login(w) \/ Customers!LoginOtp(w)
           \/ Customers!Register(w) \/ Customers!UpdateProfile(w)
           \/ Customers!ChangePassword(w) \/ Customers!ResetPassword(w)
           \/ Customers!SetActive(w) \/ Customers!FindHit(w) \/ Customers!FindMiss(w)
           \/ Customers!Read(w) \/ Customers!Clash(w) \/ Customers!Fail(w),
           regime = "apart" => ApartTask(cTask[w], rows),
           Alone => TrueTask(cTask[w], rows)
    PROVE  \E t : Makes(w, t)
<1>1. faults \in Nat
    BY NoneIsNothing DEF CustomerInv, CustomerTypes
<1> QED BY <1>1, SignInTrue, LoginTrue, RegisterTrue, UpdateTrue, HitTrue, MissTrue, ReadMakes,
           FailureMakes

-----------------------------------------------------------------------------
(* The regimes: which requests overlap.                                    *)

LEMMA CustomerSets ==
    ASSUME NEW S
    PROVE  Customers!IsFiniteSet(S) = IsFiniteSet(S)
BY DEF Customers!IsFiniteSet, IsFiniteSet

\* ts stands for `cTask`.
OneBusy(ts) == \A v, w \in Workers : ts[v].step # "idle" /\ ts[w].step # "idle" => v = w

Writes(t) == t.step # "idle" /\ t.kind \notin {"password", "otp"}

NoneCreates(ts) ==
    \A v, w \in Workers :
        v # w /\ Writes(ts[v]) /\ Writes(ts[w]) =>
            ts[v].kind \notin Customers!Providers \cup {"register"} /\ ts[v].id # ts[w].id

LEMMA FewBusy ==
    ASSUME Customers!CustomersAssumption, NEW ts
    PROVE  /\ Cardinality(Busy(ts)) <= 1 => OneBusy(ts)
           /\ Apart(ts) => NoneCreates(ts)
<1> DEFINE B == Busy(ts)
           W == Writing(ts)
<1>1. IsFiniteSet(Workers)
    BY CustomerSets DEF Customers!CustomersAssumption
<1>2. B = {w \in Workers : ts[w].step # "idle"} /\ W = {w \in Workers : Writes(ts[w])}
    BY DEF Busy, Writing, ReadOnly, Writes
<1>3. IsFiniteSet(B) /\ IsFiniteSet(W)
    BY <1>1, <1>2, FS_Subset
<1>4. ASSUME Cardinality(B) <= 1
      PROVE  OneBusy(ts)
    <2>1. Cardinality(B) \in Nat
        BY <1>3, FS_CardinalityType
    <2>2. Cardinality(B) = 0 \/ Cardinality(B) = 1
        BY <1>4, <2>1
    <2>3. B = {} \/ \E x : B = {x}
        BY <1>3, <2>2, FS_EmptySet, FS_Singleton
    <2> HIDE DEF B
    <2> QED BY <1>2, <2>3 DEF OneBusy
<1>5. ASSUME Apart(ts)
      PROVE  NoneCreates(ts)
    <2>1. SUFFICES ASSUME NEW v \in Workers, NEW w \in Workers, v # w,
                          Writes(ts[v]), Writes(ts[w])
                   PROVE  /\ ts[v].kind \notin Customers!Providers \cup {"register"}
                          /\ ts[v].id # ts[w].id
        BY DEF NoneCreates
    <2>2. ts[v].id # ts[w].id
        BY <1>2, <1>5, <2>1 DEF Apart
    <2>3. ~\E x : W = {x}
        BY <1>2, <2>1
    <2>4. Cardinality(W) # 1
        BY <1>3, <2>3, FS_Singleton
    <2>5. Adding(ts) = {}
        BY <1>5, <2>4 DEF Apart
    <2>6. ts[v].kind \notin Customers!Providers \cup {"register"}
        BY <2>1, <2>5 DEF Adding, Busy, Writes
    <2> QED BY <2>2, <2>6
<1> QED BY <1>4, <1>5

\* In the regime "apart" rows are as changes made them, and no two requests write
\* one account; alone, what a request found is still so when it writes.
ChangesInv ==
    /\ CustomerInv /\ Unique(rows)
    /\ regime = "apart" =>
          /\ rows = made /\ Apart(cTask)
          /\ \A w \in Workers : ApartTask(cTask[w], rows)
    /\ regime = "alone" =>
          /\ faults = 0 /\ OneBusy(cTask)
          /\ \A w \in Workers : TrueTask(cTask[w], rows)

\* What the regime allows next.
Allows == /\ Allowed(cTask') /\ UNCHANGED regime

LEMMA AllowsMeans ==
    ASSUME Customers!CustomersAssumption, Allows
    PROVE  /\ regime' = regime
           /\ regime = "apart" => Apart(cTask') /\ NoneCreates(cTask')
           /\ regime = "alone" => OneBusy(cTask') /\ faults' = 0
<1>1. regime = "apart" => Apart(cTask')
    BY DEF Allows, Allowed
<1>2. regime = "alone" =>
          Cardinality(Busy(cTask')) <= 1 /\ faults' = 0
    BY DEF Allows, Allowed
<1> QED BY <1>1, <1>2, FewBusy DEF Allows

LEMMA LooksStayTrue ==
    ASSUME ChangesInv, CustomerInv', Allows, NEW w \in Workers, NEW t, Makes(w, t)
    PROVE  /\ ChangesInv'
           /\ regime = "alone" =>
                 \A v \in Workers : cTask[v].step # "idle" => ToldTrue(cTask'[v], rows')
<1>1. /\ rows' = rows /\ made' = made /\ cTask' = [cTask EXCEPT ![w] = t]
      /\ cTask = [v \in Workers |-> cTask[v]]
    BY DEF Makes, Customers!Goto, ChangesInv, CustomerInv, CustomerTypes
<1>2. cTask'[w] = t /\ \A v \in Workers \ {w} : cTask'[v] = cTask[v]
    BY <1>1
<1>3. /\ regime' = regime
      /\ regime = "apart" => Apart(cTask')
      /\ regime = "alone" => OneBusy(cTask') /\ faults' = 0
    BY AllowsMeans DEF ChangesInv, CustomerInv, CustomerTypes
<1>4. regime = "apart" => \A v \in Workers : ApartTask(cTask'[v], rows')
    BY <1>1, <1>2 DEF ChangesInv, Makes
<1>5. regime = "alone" => \A v \in Workers : TrueTask(cTask'[v], rows')
    BY <1>1, <1>2, <1>3 DEF ChangesInv, Makes, Alone
<1>6. ASSUME regime = "alone", NEW v \in Workers, cTask[v].step # "idle"
      PROVE  ToldTrue(cTask'[v], rows')
    <2>1. CASE v = w
        BY <1>1, <1>2, <1>3, <1>6, <2>1 DEF Makes, Alone
    <2>2. CASE v # w
        BY <1>2, <1>6, <2>2 DEF ToldTrue
    <2> QED BY <2>1, <2>2
<1>7. Unique(rows')
    BY <1>1 DEF ChangesInv
<1> QED BY <1>1, <1>3, <1>4, <1>5, <1>6, <1>7 DEF ChangesInv

\* A request that writes what is its own, and is done.
LEMMA WritesStayTrue ==
    ASSUME ChangesInv, CustomerInv', Allows, NEW w \in Workers, NEW a,
           Customers!Answer(w, a),
           a = Customers!Failed \/ a.says \notin {"no account", "failed"},
           cTask[w].step # "idle", Unique(rows'),
           regime = "apart" =>
              /\ rows' = made'
              /\ \A v \in Workers \ {w} : cTask[v].step = "find" /\ cTask[v].id # None =>
                    rows'[cTask[v].id] = rows[cTask[v].id]
    PROVE  /\ ChangesInv'
           /\ regime = "alone" =>
                 \A v \in Workers : cTask[v].step # "idle" => ToldTrue(cTask'[v], rows')
<1> DEFINE t == Customers!Answered(a)
<1>1. /\ cTask' = [cTask EXCEPT ![w] = t]
      /\ cTask = [v \in Workers |-> cTask[v]]
    BY DEF Customers!Answer, Customers!Goto, ChangesInv, CustomerInv, CustomerTypes
<1>2. /\ ApartTask(t, rows') /\ TrueTask(t, rows') /\ ToldTrue(t, rows')
    <2>1. a.says # "no account" /\ a # [says |-> "failed", why |-> "index"]
        BY OtherAnswers DEF Customers!Failed
    <2> QED BY <2>1, OtherAnswer
<1> HIDE DEF t
<1>3. cTask'[w] = t /\ \A v \in Workers \ {w} : cTask'[v] = cTask[v]
    BY <1>1
<1>4. /\ regime' = regime
      /\ regime = "apart" => Apart(cTask')
      /\ regime = "alone" => OneBusy(cTask') /\ faults' = 0
    BY AllowsMeans DEF ChangesInv, CustomerInv, CustomerTypes
<1>5. ASSUME regime = "apart", NEW v \in Workers
      PROVE  ApartTask(cTask'[v], rows')
    <2>1. CASE v # w
        <3>1. ApartTask(cTask[v], rows)
            BY <1>5 DEF ChangesInv
        <3>2. cTask[v].step = "find" /\ cTask[v].id # None =>
                 rows'[cTask[v].id] = rows[cTask[v].id]
            BY <1>5, <2>1
        <3>3. ApartTask(cTask[v], rows')
            BY <3>1, <3>2, Zenon DEF ApartTask
        <3> QED BY <1>3, <2>1, <3>3
    <2> QED BY <1>2, <1>3, <2>1
<1>6. ASSUME regime = "alone", NEW v \in Workers
      PROVE  /\ TrueTask(cTask'[v], rows')
             /\ cTask[v].step # "idle" => ToldTrue(cTask'[v], rows')
    <2>1. CASE v # w
        <3>1. cTask[v].step = "idle"
            BY <1>6, <2>1 DEF ChangesInv, OneBusy
        <3>2. TrueTask(cTask[v], rows')
            BY <1>6, <3>1 DEF ChangesInv, TrueTask
        <3> QED BY <1>3, <2>1, <3>1, <3>2
    <2> QED BY <1>2, <1>3, <2>1
<1> QED BY <1>4, <1>5, <1>6 DEF ChangesInv

LEMMA CreateStaysTrue ==
    ASSUME ChangesInv, CustomerInv', Allows, NEW w \in Workers, Customers!Create(w)
    PROVE  /\ ChangesInv'
           /\ regime = "alone" =>
                 \A v \in Workers : cTask[v].step # "idle" => ToldTrue(cTask'[v], rows')
<1> DEFINE t == cTask[w]
           r == t.row
           b == Customers!Session(Len(rows) + 1, t)
<1>1. PICK a \in {b, Customers!Failed} :
      /\ t.step = "find" /\ t.lookups = <<>> /\ t.id = None
      /\ rows' = Append(rows, r) /\ made' = Append(made, r)
      /\ Customers!Answer(w, a) /\ ~Customers!Clashes(r, DOMAIN rows)
    BY DEF Customers!Create, Customers!Ready, Customers!At, Customers!Write,
       Customers!AnswerWritten
<1>2. CustomerInv /\ Customers!CustomersAssumption /\ rows \in Seq(Customers!Row)
    BY DEF ChangesInv, CustomerInv, CustomerTypes
<1>3. FindOK(t, rows) /\ r \in Customers!Row /\ t.kind \in Kinds
    BY <1>1, <1>2, Finding DEF LookTask
<1>4. Unique(rows')
    <2>1. /\ DOMAIN rows' = DOMAIN rows \cup {Len(rows) + 1} /\ rows'[Len(rows) + 1] = r
          /\ \A i \in DOMAIN rows : rows'[i] = rows[i]
        BY <1>1, <1>2, <1>3, CustomerTables
    <2>2. \A i \in DOMAIN rows, c \in Columns : r[c] # None => rows[i][c] # r[c]
        BY <1>1 DEF Customers!Clashes, Columns, Customers!Providers
    <2>3. Unique(rows)
        BY DEF ChangesInv
    <2> QED BY <2>1, <2>2, <2>3 DEF Unique
<1>5. t.kind \in Customers!Providers \cup {"register"} /\ Writes(t)
    BY <1>1, <1>3 DEF FindOK, Kinds, Writes, Customers!Providers
<1>6. ASSUME regime = "apart", NEW v \in Workers \ {w}, cTask[v].step = "find", cTask[v].id # None
      PROVE  rows'[cTask[v].id] = rows[cTask[v].id]
    <2>1. FindOK(cTask[v], rows)
        BY <1>2, <1>6, Finding
    <2>2. Writes(cTask[v])
        BY <1>6, <2>1 DEF FindOK, Writes
    <2>3. NoneCreates(cTask)
        BY <1>2, <1>6, FewBusy DEF ChangesInv
    <2> QED BY <1>5, <2>2, <2>3 DEF NoneCreates
<1>7. regime = "apart" => rows' = made'
    BY <1>1 DEF ChangesInv
<1>8. a = Customers!Failed \/ a.says \notin {"no account", "failed"}
    BY <1>1, OtherAnswers
<1> HIDE DEF b
<1> QED BY <1>1, <1>4, <1>6, <1>7, <1>8, WritesStayTrue

LEMMA SaveStaysTrue ==
    ASSUME ChangesInv, CustomerInv', Allows, NEW w \in Workers, Customers!Save(w)
    PROVE  /\ ChangesInv'
           /\ regime = "alone" =>
                 \A v \in Workers : cTask[v].step # "idle" => ToldTrue(cTask'[v], rows')
<1> DEFINE t == cTask[w]
           i == t.id
           r == t.row
           b == IF t.kind \in Customers!Providers THEN Customers!Session(i, t)
                ELSE [says |-> "done"]
<1>1. PICK a \in {b, Customers!Failed} :
      /\ t.step = "find" /\ t.lookups = <<>> /\ i # None
      /\ rows' = [rows EXCEPT ![i] = r]
      /\ made' = [made EXCEPT ![i] = Customers!Changed(t, made[i])]
      /\ Customers!Answer(w, a) /\ ~Customers!Clashes(r, DOMAIN rows \ {i})
    BY DEF Customers!Save, Customers!Ready, Customers!At, Customers!Write, Customers!Saved,
       Customers!AnswerWritten
<1>2. CustomerInv /\ Customers!CustomersAssumption /\ rows \in Seq(Customers!Row)
    BY DEF ChangesInv, CustomerInv, CustomerTypes
<1>3. FindOK(t, rows) /\ i \in DOMAIN rows /\ Writes(t)
    <2>1. FindOK(t, rows)
        BY <1>1, <1>2, Finding
    <2> QED BY <1>1, <2>1 DEF FindOK, Writes
<1>4. Unique(rows')
    <2>1. /\ DOMAIN rows' = DOMAIN rows /\ rows'[i] = r
          /\ \A j \in DOMAIN rows \ {i} : rows'[j] = rows[j]
        BY <1>1, <1>2, <1>3
    <2>2. \A j \in DOMAIN rows \ {i}, c \in Columns : r[c] # None => rows[j][c] # r[c]
        BY <1>1 DEF Customers!Clashes, Columns, Customers!Providers
    <2>3. Unique(rows)
        BY DEF ChangesInv
    <2> QED BY <2>1, <2>2, <2>3 DEF Unique
<1>5. ASSUME regime = "apart", NEW v \in Workers \ {w}, cTask[v].step = "find", cTask[v].id # None
      PROVE  rows'[cTask[v].id] = rows[cTask[v].id]
    <2>1. FindOK(cTask[v], rows)
        BY <1>2, <1>5, Finding
    <2>2. Writes(cTask[v])
        BY <1>5, <2>1 DEF FindOK, Writes
    <2>3. NoneCreates(cTask)
        BY <1>2, <1>5, FewBusy DEF ChangesInv
    <2>4. cTask[v].id # i
        BY <1>3, <2>2, <2>3 DEF NoneCreates
    <2> QED BY <1>1, <1>2, <2>4
<1>6. regime = "apart" => rows' = made'
    <2>1. regime = "apart" => rows = made /\ r = Customers!Changed(t, rows[i])
        BY <1>1 DEF ChangesInv, ApartTask
    <2> QED BY <1>1, <2>1
<1>7. a = Customers!Failed \/ a.says \notin {"no account", "failed"}
    BY <1>1, OtherAnswers
<1> HIDE DEF b
<1> QED BY <1>1, <1>4, <1>5, <1>6, <1>7, WritesStayTrue

LEMMA ChangesStep ==
    ASSUME ChangesInv, [MCNext]_mcvars
    PROVE  /\ ChangesInv'
           /\ regime = "alone" =>
                 \A v \in Workers :
                    cTask[v].step = "find" /\ cTask'[v].step = "idle" => ToldTrue(cTask'[v], rows')
<1>1. CASE MCNext
    <2>1. Customers!Next /\ Allows /\ CustomerInv /\ Unique(rows)
        BY <1>1 DEF MCNext, Allows, ChangesInv
    <2>2. CustomerInv'
        BY <2>1, CustomerStep
    <2>3. PICK w \in Workers :
             \/ Customers!SignIn(w) \/ Customers!Login(w) \/ Customers!LoginOtp(w)
             \/ Customers!Register(w) \/ Customers!UpdateProfile(w)
             \/ Customers!ChangePassword(w) \/ Customers!ResetPassword(w)
             \/ Customers!SetActive(w) \/ Customers!FindHit(w) \/ Customers!FindMiss(w)
             \/ Customers!Read(w) \/ Customers!Clash(w) \/ Customers!Fail(w)
             \/ Customers!Create(w) \/ Customers!Save(w)
        BY <2>1 DEF Customers!Next
    <2>4. CASE Customers!Create(w) \/ Customers!Save(w)
        BY <2>1, <2>2, <2>4, CreateStaysTrue, SaveStaysTrue
    <2>5. CASE ~(Customers!Create(w) \/ Customers!Save(w))
        <3>1. regime = "apart" => ApartTask(cTask[w], rows)
            BY DEF ChangesInv
        <3>2. Alone => TrueTask(cTask[w], rows)
            BY DEF Alone, ChangesInv
        <3>3. PICK t : Makes(w, t)
            BY <2>1, <2>3, <2>5, <3>1, <3>2, StepMakes
        <3> QED BY <2>1, <2>2, <3>3, LooksStayTrue
    <2> QED BY <2>4, <2>5
<1>2. CASE UNCHANGED mcvars
    BY <1>2 DEF mcvars, Customers!vars, ChangesInv, CustomerInv, CustomerTypes
<1> QED BY <1>1, <1>2

LEMMA ChangesStart ==
    ASSUME Customers!CustomersAssumption, MCInit
    PROVE  ChangesInv
<1>1. /\ rows \in {<<>>} \cup {<<r>> : r \in Customers!OldRows} /\ made = rows /\ faults = 0
      /\ cTask = [w \in Workers |-> Customers!Answered(Customers!Nothing)]
    BY DEF MCInit, Customers!Init
<1>2. CustomerInv
    BY CustomerStarts DEF MCInit
<1>3. Unique(rows)
    <2>1. \A i, j \in DOMAIN rows : i = j
        BY <1>1
    <2> QED BY <2>1 DEF Unique
<1>4. \A w \in Workers : cTask[w].step = "idle"
    BY <1>1 DEF Customers!Answered
<1>5. \A w \in Workers : ApartTask(cTask[w], rows) /\ TrueTask(cTask[w], rows)
    <2>1. /\ Customers!Nothing.says # "no account"
          /\ Customers!Nothing # [says |-> "failed", why |-> "index"]
        BY OtherAnswers
    <2> QED BY <1>1, <2>1, OtherAnswer
<1>6. Apart(cTask)
    BY <1>4 DEF Apart, Adding, Writing, ReadOnly, Busy
<1>7. OneBusy(cTask)
    BY <1>4 DEF OneBusy
<1> QED BY <1>1, <1>2, <1>3, <1>5, <1>6, <1>7 DEF ChangesInv

\* While updates of one account do not overlap none undoes another, and one
\* request at a time no index has to refuse one (customer_service.go: each
\* request reads a row, and later saves all of it).
THEOREM ChangesAreKept == MCSpec => []ChangesStay
<1>1. MCInit => ChangesInv
    BY CustomersAssumption, ChangesStart
<1>2. ChangesInv /\ [MCNext]_mcvars => ChangesInv'
    BY ChangesStep
<1>3. ChangesInv => ChangesStay
    <2>1. ChangesInv => AsMadeApart
        BY DEF ChangesInv, AsMadeApart, Customers!AsMade
    <2>2. ChangesInv => NoClashAlone
        BY DEF ChangesInv, TrueTask, NoClashAlone, Customers!NoClash, Customers!At
    <2> QED BY <2>1, <2>2 DEF ChangesStay
<1> QED BY <1>1, <1>2, <1>3, PTL DEF MCSpec

\* One request at a time, a verified phone is told that it has no account only
\* when no row has it in either form (LoginWithVerifiedPhone, utils/phone.go).
THEOREM OldPhonesAreFound == MCSpec => NoAccountIsTrueAlone
<1>1. MCInit => ChangesInv
    BY CustomersAssumption, ChangesStart
<1>2. ChangesInv /\ [MCNext]_mcvars => ChangesInv'
    BY ChangesStep
<1>3. ChangesInv /\ [MCNext]_mcvars =>
         [regime = "alone" =>
            \A w \in Workers :
               Customers!At(w, "find") /\ Customers!At(w, "idle")'
                  => Customers!NoAccountIsTrue(w)']_mcvars
    <2>1. SUFFICES ASSUME ChangesInv, [MCNext]_mcvars,
                          regime = "alone", NEW w \in Workers,
                          cTask[w].step = "find", cTask'[w].step = "idle"
                   PROVE  Customers!NoAccountIsTrue(w)'
        BY DEF Customers!At
    <2>2. ToldTrue(cTask'[w], rows')
        BY <2>1, ChangesStep
    <2> QED BY <2>2 DEF ToldTrue, Customers!NoAccountIsTrue, Customers!At
<1> QED BY <1>1, <1>2, <1>3, PTL DEF MCSpec, NoAccountIsTrueAlone

\* What TLC checks are behaviours that the theorems on sessions are about.
THEOREM InstancesAreCovered == MCSpec => Customers!Spec
<1>1. MCInit => Customers!Init
    BY DEF MCInit
<1>2. [MCNext]_mcvars => [Customers!Next]_(Customers!vars)
    BY DEF MCNext, mcvars
<1> QED BY <1>1, <1>2, PTL DEF MCSpec, Customers!Spec
=============================================================================
