-------------------------- MODULE OtpVerification --------------------------
(***************************************************************************)
(* Phone verification: services/otp_service.go, the handlers that use it   *)
(* (customer_controller.go, telegram_bot_controller.go) and the accounts   *)
(* it leads to (customer_service.go).                                      *)
(*                                                                         *)
(* A code is sent first and saved afterwards, the row that will hold it is *)
(* read, kept over a network call and written back whole; only VerifyOTP   *)
(* runs in a transaction. Each statement and each call is an action of a   *)
(* worker. A code is the number of the message that carried it: two        *)
(* messages never carry the same six digits here.                          *)
(***************************************************************************)
EXTENDS Naturals, Sequences, FiniteSets, FiniteSetsExt

CONSTANTS
    Phones,
    Chats,         \* Telegram chats
    NoChat,        \* what a phone without a telegram_phone_links row has
    Forms,         \* registration forms; a form stands for its email too
    NoForm,        \* pending fields left empty: a login request
    Workers,       \* requests being handled at the same time
    MaxAttempts,   \* otpMaxAttempts
    MaxRows,       \* bound: rows of otp_requests
    MaxCodes,      \* bound: codes sent
    MaxLosses      \* bound: failed statements and restarts

ASSUME OtpAssumption ==
    /\ NoForm \notin Forms
    /\ NoChat \notin Chats /\ Phones \cap Chats = {}
    /\ MaxAttempts \in Nat \ {0}
    /\ MaxRows \in Nat /\ MaxCodes \in Nat /\ MaxLosses \in Nat

VARIABLES
    reqs,      \* the rows of otp_requests, oldest first
    links,     \* telegram_phone_links: links[p] is the chat of phone p
    accounts,  \* the customers rows, with the code each one was proved by
    task,      \* what each worker is doing
    sent,      \* sent[c]: the phone or the chat that code c was sent to
    stored,    \* history: codes that were saved on a row
    asked,     \* history: the <<phone, form>> pairs customers submitted
    uses,      \* history: uses[c], how often code c was accepted
    wrong,     \* history: wrong[i], wrong codes answered for row i
    cut,       \* history: codes accepted by a request that was cut off then
    losses     \* failed statements and restarts so far

vars == <<reqs, links, accounts, task, sent, stored, asked, uses, wrong, cut, losses>>
history == <<asked, uses, wrong, cut, losses>>

-----------------------------------------------------------------------------

Codes == 1..MaxCodes
NoCode == 0                                \* CodeHash is ""

Recipients == Phones \cup Chats

Request == [phone: Phones, code: Codes \cup {NoCode}, token: BOOLEAN,
            attempts: 0..MaxAttempts, verified: BOOLEAN,
            form: Forms \cup {NoForm}, live: BOOLEAN]

Account == [phone: Phones, form: Forms, code: Codes]

NewRequest(p, c, token, f) ==
    [phone |-> p, code |-> c, token |-> token, attempts |-> 0,
     verified |-> FALSE, form |-> f, live |-> TRUE]

Idle == [step |-> "idle"]

Init ==
    /\ reqs = <<>>
    /\ links = [p \in Phones |-> NoChat]
    /\ accounts = {}
    /\ task = [w \in Workers |-> Idle]
    /\ sent = <<>>
    /\ stored = {}
    /\ asked = {}
    /\ uses = [c \in Codes |-> 0]
    /\ wrong = [i \in 1..MaxRows |-> 0]
    /\ cut = {}
    /\ losses = 0

At(w, s) == task[w].step = s
Goto(w, t) == task' = [task EXCEPT ![w] = t]
Finish(w) == Goto(w, Idle)

NextCode == Len(sent) + 1

\* A fresh code goes out to a phone or to a chat.
Send(to) == /\ NextCode <= MaxCodes
            /\ sent' = Append(sent, to)

\* Mutant of Unverified: the phone is left out of the query.
UnverifiedOfAll(p) == {i \in DOMAIN reqs : ~reqs[i].verified /\ reqs[i].live}

Unverified(p) ==
    {i \in DOMAIN reqs : reqs[i].phone = p /\ ~reqs[i].verified /\ reqs[i].live}

\* FindLatestUnverifiedByPhone, and the same query in VerifyOTP.
Latest(p) == Max(Unverified(p))

\* GORM's Save of a copy that was given a new code and a new expiry.
SaveCode(i, copy, c) ==
    /\ reqs' = [reqs EXCEPT ![i] = [copy EXCEPT !.code = c, !.live = TRUE]]
    /\ stored' = stored \cup {c}

Insert(row) ==
    /\ Len(reqs) < MaxRows
    /\ reqs' = Append(reqs, row)
    /\ stored' = stored \cup ({row.code} \ {NoCode})

PhoneTaken(p) == \E a \in accounts : a.phone = p
EmailTaken(f) == \E a \in accounts : a.form = f

-----------------------------------------------------------------------------
(* Asking for a code.                                                      *)

\* RegisterRequestOTP. CheckPhoneAndEmailAvailable ends it early when it
\* finds an account, and lets it go on when a lookup fails.
StartRegister(w, p, f) ==
    /\ At(w, "idle")
    /\ asked' = asked \cup {<<p, f>>}
    /\ Goto(w, [step |-> "request", phone |-> p, form |-> f])
    /\ UNCHANGED <<reqs, links, accounts, sent, stored, uses, wrong, cut, losses>>

\* RequestOTP: a login asks for nothing but the phone.
StartLogin(w, p) ==
    /\ At(w, "idle")
    /\ Goto(w, [step |-> "request", phone |-> p, form |-> NoForm])
    /\ UNCHANGED <<reqs, links, accounts, sent, stored, history>>

\* requestOTP: a linked phone is sent a code in its chat. An error of Telegram
\* ends the request, whether the message got through or not.
RequestSend(w) ==
    /\ At(w, "request")
    /\ links[task[w].phone] # NoChat
    /\ \/ /\ Send(links[task[w].phone])
          /\ \/ Goto(w, [step |-> "insert",
                         row |-> NewRequest(task[w].phone, NextCode, FALSE,
                                            task[w].form)])
             \/ Finish(w)
       \/ Finish(w) /\ UNCHANGED sent
    /\ UNCHANGED <<reqs, links, accounts, stored, history>>

\* requestOTP where no link is found, or the lookup fails: a row with a
\* deep-link token and no code.
RequestToken(w) ==
    /\ At(w, "request")
    /\ Goto(w, [step |-> "insert",
                row |-> NewRequest(task[w].phone, NoCode, TRUE, task[w].form)])
    /\ UNCHANGED <<reqs, links, accounts, sent, stored, history>>

InsertRequest(w) ==
    /\ At(w, "insert")
    /\ \/ Insert(task[w].row)
       \/ UNCHANGED <<reqs, stored>>       \* the database refuses it
    /\ Finish(w)
    /\ UNCHANGED <<links, accounts, sent, history>>

-----------------------------------------------------------------------------
(* RequestSMSFallback.                                                     *)

SmsSend(w, p) ==
    /\ At(w, "idle")
    /\ Send(p)
    /\ \/ Goto(w, [step |-> "smsfind", phone |-> p, code |-> NextCode])
       \/ Finish(w)                        \* sent, but Plasgate's answer is lost
    /\ UNCHANGED <<reqs, links, accounts, stored, history>>

\* A lookup that fails is taken for one that found nothing.
SmsFind(w) ==
    /\ At(w, "smsfind")
    /\ LET t == task[w] IN
        \/ Goto(w, [step |-> "insert",
                    row |-> NewRequest(t.phone, t.code, FALSE, NoForm)])
        \/ /\ Unverified(t.phone) # {}
           /\ Goto(w, [step |-> "savecode", id |-> Latest(t.phone),
                       row |-> reqs[Latest(t.phone)], code |-> t.code])
    /\ UNCHANGED <<reqs, links, accounts, sent, stored, history>>

\* The last statement of RequestSMSFallback, and of CompleteTelegramLink.
SaveCodeSent(w) ==
    /\ At(w, "savecode")
    /\ \/ SaveCode(task[w].id, task[w].row, task[w].code)
       \/ UNCHANGED <<reqs, stored>>
    /\ Finish(w)
    /\ UNCHANGED <<links, accounts, sent, history>>

-----------------------------------------------------------------------------
(* CompleteTelegramLink: a chat sent /start with the token of row i, which *)
(* any chat may, as often as it likes.                                     *)

TapSend(w, i, chat) ==
    /\ At(w, "idle")
    /\ i \in DOMAIN reqs
    /\ reqs[i].token
    /\ ~reqs[i].verified /\ reqs[i].live   \* else ErrTelegramLinkNotFound
    /\ Send(chat)
    /\ \/ Goto(w, [step |-> "link", id |-> i, row |-> reqs[i], code |-> NextCode,
                    chat |-> chat])
       \/ Finish(w)                        \* sent, but Telegram's answer is lost
    /\ UNCHANGED <<reqs, links, accounts, stored, history>>

\* Mutant of TapLink: an error of the insert is ignored.
TapLinkIgnored(w) ==
    /\ At(w, "link")
    /\ LET t == task[w] IN
        /\ links' = [links EXCEPT ![t.row.phone] = IF @ = NoChat THEN t.chat ELSE @]
        /\ Goto(w, [step |-> "savecode", id |-> t.id, row |-> t.row, code |-> t.code])
    /\ UNCHANGED <<reqs, accounts, sent, stored, history>>

\* The phone of a link is unique: a second insert is an error, and the code
\* just sent is not saved.
TapLink(w) ==
    /\ At(w, "link")
    /\ LET t == task[w] IN
        IF links[t.row.phone] # NoChat
        THEN Finish(w) /\ UNCHANGED links
        ELSE /\ links' = [links EXCEPT ![t.row.phone] = t.chat]
             /\ Goto(w, [step |-> "savecode", id |-> t.id, row |-> t.row,
                         code |-> t.code])
    /\ UNCHANGED <<reqs, accounts, sent, stored, history>>

-----------------------------------------------------------------------------
(* Verifying a code.                                                       *)

\* Mutant of VerifyRight: the row is not marked as verified.
VerifyRightUnmarked(w, p, c) ==
    /\ At(w, "idle")
    /\ Unverified(p) # {}
    /\ LET i == Latest(p) IN
        /\ reqs[i].code = c
        /\ reqs[i].attempts < MaxAttempts
        /\ IF reqs[i].form = NoForm
           THEN UNCHANGED task
           ELSE Goto(w, [step |-> "check", phone |-> p, form |-> reqs[i].form,
                         code |-> c])
    /\ uses' = [uses EXCEPT ![c] = @ + 1]
    /\ UNCHANGED <<reqs, links, accounts, sent, stored, asked, wrong, cut, losses>>

\* Mutant of VerifyRight: every verification is taken for a login.
VerifyRightLogin(w, p, c) ==
    /\ At(w, "idle")
    /\ Unverified(p) # {}
    /\ LET i == Latest(p) IN
        /\ reqs[i].code = c
        /\ reqs[i].attempts < MaxAttempts
        /\ reqs' = [reqs EXCEPT ![i].verified = TRUE]
    /\ uses' = [uses EXCEPT ![c] = @ + 1]
    /\ UNCHANGED <<links, accounts, task, sent, stored, asked, wrong, cut, losses>>

\* VerifyOTP, one transaction with the row locked: it checks the newest
\* unverified row and no other. The row keeps the code; the controller goes
\* on with the row's pending fields.
VerifyRight(w, p, c) ==
    /\ At(w, "idle")
    /\ Unverified(p) # {}
    /\ LET i == Latest(p) IN
        /\ reqs[i].code = c
        /\ reqs[i].attempts < MaxAttempts
        /\ reqs' = [reqs EXCEPT ![i].verified = TRUE]
        /\ IF reqs[i].form = NoForm
           THEN UNCHANGED task             \* LoginWithVerifiedPhone only reads
           ELSE Goto(w, [step |-> "check", phone |-> p, form |-> reqs[i].form,
                         code |-> c])
    /\ uses' = [uses EXCEPT ![c] = @ + 1]
    /\ UNCHANGED <<links, accounts, sent, stored, asked, wrong, cut, losses>>

\* A wrong code: Attempts is incremented and saved, and the error returned
\* from inside the transaction makes GORM roll that back.
VerifyWrong(p) ==
    /\ Unverified(p) # {}
    /\ LET i == Latest(p) IN
        /\ reqs[i].code # NoCode           \* else ErrOtpExpiredOrNotFound
        /\ reqs[i].attempts < MaxAttempts
        /\ wrong[i] < MaxAttempts
        /\ wrong' = [wrong EXCEPT ![i] = @ + 1]
    /\ UNCHANGED <<reqs, links, accounts, task, sent, stored, asked, uses, cut, losses>>

\* CreateFromVerifiedOtp looks for the phone and the email once more; a
\* lookup that fails is taken for one that found nothing.
CreateCheck(w) ==
    /\ At(w, "check")
    /\ \/ /\ PhoneTaken(task[w].phone) \/ EmailTaken(task[w].form)
          /\ Finish(w)
       \/ Goto(w, [task[w] EXCEPT !.step = "create"])
    /\ UNCHANGED <<reqs, links, accounts, sent, stored, history>>

\* Mutant of CreateAccount: the unique indexes are missing.
CreateAccountTwice(w) ==
    /\ At(w, "create")
    /\ accounts' = accounts \cup {[phone |-> task[w].phone,
                                   form |-> task[w].form, code |-> task[w].code]}
    /\ Finish(w)
    /\ UNCHANGED <<reqs, links, sent, stored, history>>

\* The customers table has unique indexes on phone and email.
CreateAccount(w) ==
    /\ At(w, "create")
    /\ LET t == task[w] IN
        IF PhoneTaken(t.phone) \/ EmailTaken(t.form)
        THEN UNCHANGED accounts
        ELSE accounts' = accounts \cup
                {[phone |-> t.phone, form |-> t.form, code |-> t.code]}
    /\ Finish(w)
    /\ UNCHANGED <<reqs, links, sent, stored, history>>

-----------------------------------------------------------------------------
(* Five minutes pass; a statement fails; the process restarts.             *)

Expire(i) ==
    /\ i \in DOMAIN reqs
    /\ reqs[i].live
    /\ reqs' = [reqs EXCEPT ![i].live = FALSE]
    /\ UNCHANGED <<links, accounts, task, sent, stored, history>>

Creates(w) == At(w, "check") \/ At(w, "create")

Lose(ws) ==
    /\ losses < MaxLosses
    /\ losses' = losses + 1
    /\ task' = [w \in Workers |-> IF w \in ws THEN Idle ELSE task[w]]
    /\ cut' = cut \cup {task[w].code : w \in {v \in ws : Creates(v)}}
    /\ UNCHANGED <<reqs, links, accounts, sent, stored, asked, uses, wrong>>

Fail(w) == ~At(w, "idle") /\ Lose({w})
Crash == Lose(Workers)

Ask(w) ==
    \/ \E p \in Phones :
          \/ \E f \in Forms : StartRegister(w, p, f)
          \/ StartLogin(w, p)
          \/ SmsSend(w, p)
    \/ RequestSend(w) \/ RequestToken(w) \/ InsertRequest(w)
    \/ SmsFind(w) \/ SaveCodeSent(w)
    \/ \E i \in DOMAIN reqs, chat \in Chats : TapSend(w, i, chat)
    \/ TapLink(w)

Answer(w) ==
    \/ \E p \in Phones, c \in DOMAIN sent : VerifyRight(w, p, c)
    \/ CreateCheck(w) \/ CreateAccount(w)

Next ==
    \/ \E w \in Workers : Ask(w) \/ Answer(w) \/ Fail(w)
    \/ \E p \in Phones : VerifyWrong(p)
    \/ \E i \in DOMAIN reqs : Expire(i)
    \/ Crash

Spec == Init /\ [][Next]_vars

-----------------------------------------------------------------------------

\* Rows, accounts and codes are well formed; only codes that were sent are stored.
TypeOK ==
    /\ reqs \in Seq(Request) /\ Len(reqs) <= MaxRows
    /\ links \in [Phones -> Chats \cup {NoChat}]
    /\ accounts \subseteq Account
    /\ sent \in Seq(Recipients)
    /\ stored \subseteq DOMAIN sent
    /\ asked \subseteq Phones \X Forms
    /\ uses \in [Codes -> Nat]
    /\ wrong \in [1..MaxRows -> 0..MaxAttempts]
    /\ cut \subseteq Codes
    /\ losses \in 0..MaxLosses

\* The code an account was proved by went to its phone, or to the one chat
\* that is linked to it, however many chats opened a link of that phone; and
\* the account is made of a form that was submitted for that very phone,
\* whichever rows codes were moved to by the SMS fallback and the Telegram
\* link (otp_service.go: pending data carries forward on the same row).
AccountIsProven ==
    \A a \in accounts :
        /\ sent[a.code] \in {a.phone, links[a.phone]}
        /\ <<a.phone, a.form>> \in asked

\* Rows, links and codes are well formed and every account is proven.
OtpInv == TypeOK /\ AccountIsProven

\* Two verifications that overlap do not make two accounts of a phone or of
\* an email (customer_service.go: uniqueness is checked again at creation).
OneAccountEach ==
    \A a, b \in accounts : a.phone = b.phone \/ a.form = b.form => a = b

\* A code is accepted once, even when a handler that read its row before it
\* was verified writes that row back.
CodeUsedOnce == \A c \in Codes : uses[c] <= 1

Quiet == \A w \in Workers : At(w, "idle")

\* A verified registration has left an account of its phone or met one that
\* took its phone or its email, unless its own request was cut off after the
\* code was accepted: nothing else, in its request or another, loses it.
RegisteredUnlessCut ==
    Quiet =>
        \A i \in DOMAIN reqs :
            reqs[i].verified /\ reqs[i].form # NoForm =>
                \/ reqs[i].code \in cut
                \/ PhoneTaken(reqs[i].phone) \/ EmailTaken(reqs[i].form)

-----------------------------------------------------------------------------
(* What a comment says of this code and a run refutes.                      *)

\* The count of attempts is "always accurate" (otp_service.go).
AttemptsCounted == \A i \in DOMAIN reqs : reqs[i].attempts = wrong[i]
=============================================================================
