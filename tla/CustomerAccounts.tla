-------------------------- MODULE CustomerAccounts --------------------------
(***************************************************************************)
(* The customers table and the ways in: customer_service.go with the       *)
(* handlers of customer_controller.go and admin_customer_controller.go.    *)
(*                                                                         *)
(* A request is a series of queries. It looks rows up by phone, email or   *)
(* provider id, and then creates a row or saves the whole row it read.     *)
(* Nothing holds the queries together but the unique indexes. That a code  *)
(* was verified, and what a provider's token says, is taken as given.      *)
(* Names, timestamps and the audit log are left out.                       *)
(***************************************************************************)
EXTENDS Naturals, Sequences, FiniteSets

CONSTANTS
    Phones,       \* normalized phone numbers
    Emails,
    Subs,         \* ids a provider gives its users
    Passwords,    \* a hash stands for its password
    Workers,      \* requests being handled at the same time
    None,         \* NULL in a column, "" in a request
    MaxRequests,  \* bound: requests
    MaxFaults     \* bound: queries that fail

\* LocalVariant: the form in which old rows may hold the phone.
LocalVariant(p) == <<"local", p>>

\* What the constants stand for.
CustomersAssumption ==
    /\ None \notin Phones \cup {LocalVariant(p) : p \in Phones}
    /\ None \notin Emails \cup Subs \cup Passwords
    /\ None \notin Nat
    /\ IsFiniteSet(Workers)
    /\ MaxRequests \in Nat /\ MaxFaults \in Nat

VARIABLES
    rows,      \* the customers table; ids count from 1, no row is deleted
    task,      \* what each worker is doing, and its last answer
    seen,      \* history: what the rows were since the worker's request began
    made,      \* history: the rows as the changes that were written made them
    requests,  \* requests so far
    faults     \* queries that failed so far

vars == <<rows, task, seen, made, requests, faults>>

-----------------------------------------------------------------------------

Providers == {"google", "facebook"}

Maybe(S) == S \cup {None}

Blank == [phone |-> None, email |-> None, google |-> None, facebook |-> None,
          password |-> None, active |-> TRUE]

\* Rows from before phones were normalized.
OldRow(p, k) == [Blank EXCEPT !.phone = LocalVariant(p), !.password = k]
OldRows == {OldRow(p, k) : p \in Phones, k \in Passwords}

Answered(a) == [step |-> "idle", answer |-> a]
Nothing == [says |-> "nothing"]
Refused == [says |-> "refused"]

Init ==
    /\ rows \in {<<>>} \cup {<<r>> : r \in OldRows}
    /\ task = [w \in Workers |-> Answered(Nothing)]
    /\ seen = [w \in Workers |-> {}]
    /\ made = rows
    /\ requests = 0
    /\ faults = 0

At(w, s) == task[w].step = s
Goto(w, t) == task' = [task EXCEPT ![w] = t]
Answer(w, a) == Goto(w, Answered(a))

\* A session, and by which key it was given.
Session(i, t) == [says |-> "session", id |-> i, kind |-> t.kind, key |-> t.key]

Versions(table) == {<<i, table[i]>> : i \in DOMAIN table}

\* A query fails.
Fault == faults < MaxFaults /\ faults' = faults + 1

Unchanged == UNCHANGED <<rows, seen, made, requests>>

-----------------------------------------------------------------------------
(* The requests. Each names the lookups it makes, in order; `row` is the   *)
(* row that it is going to create or to save.                              *)

Column(c, v) == IF v = None THEN <<>> ELSE <<[column |-> c, value |-> v]>>

Begin(w, t) ==
    /\ At(w, "idle")
    /\ requests < MaxRequests
    /\ requests' = requests + 1
    /\ Goto(w, t)
    /\ seen' = [seen EXCEPT ![w] = Versions(rows)]
    /\ UNCHANGED <<rows, made, faults>>

Lookup(kind, key, lookups, row) ==
    [step |-> "find", kind |-> kind, key |-> key, lookups |-> lookups,
     id |-> None, row |-> row]

\* GoogleLogin and FacebookLogin.
SignIn(w) ==
    \E p \in Providers, s \in Subs, e \in Maybe(Emails) :
        Begin(w, Lookup(p, s, Column(p, s) \o Column("email", e),
                        [Blank EXCEPT ![p] = s, !.email = e]))

\* Login takes what was typed for a phone or an email.
Login(w) ==
    \E i \in Phones \cup {LocalVariant(p) : p \in Phones} \cup Emails,
       k \in Passwords :
        Begin(w, Lookup("password", k, Column("phone", i) \o Column("email", i),
                        Blank))

\* Mutant of OtpLookups: only the normalized form is looked up.
OtpLookupsOnce(p) == Column("phone", p)

OtpLookups(p) == Column("phone", p) \o Column("phone", LocalVariant(p))

\* LoginWithVerifiedPhone.
LoginOtp(w) ==
    \E p \in Phones : Begin(w, Lookup("otp", p, OtpLookups(p), Blank))

\* CreateFromVerifiedOtp.
Register(w) ==
    \E p \in Phones, e \in Maybe(Emails), k \in Passwords :
        Begin(w, Lookup("register", p, Column("phone", p) \o Column("email", e),
                        [Blank EXCEPT !.phone = p, !.email = e, !.password = k]))

\* UpdateProfile, ChangePassword, AdminResetPassword and SetActive: the token
\* or the path names the row. The token may be one from before the account
\* was disabled.
Update(w, kind, key) ==
    \E i \in DOMAIN rows :
        Begin(w, [step |-> "read", kind |-> kind, key |-> key, id |-> i])

UpdateProfile(w) ==
    \E p \in Maybe(Phones), e \in Maybe(Emails) :
        Update(w, "profile", [phone |-> p, email |-> e])

ChangePassword(w) ==
    \E old, new \in Passwords : Update(w, "change", [old |-> old, new |-> new])

ResetPassword(w) == \E k \in Passwords : Update(w, "reset", [new |-> k])

SetActive(w) == \E a \in BOOLEAN : Update(w, "active", a)

-----------------------------------------------------------------------------
(* Lookups.                                                                *)

Matches(q) == {i \in DOMAIN rows : rows[i][q.column] = q.value}

\* Mutant of FoundBySignIn: a disabled row is linked.
FoundBySignInAnyway(w, q, i) ==
    LET t == task[w] IN
    IF q.column = t.kind
    THEN Answer(w, IF rows[i].active THEN Session(i, t) ELSE Refused)
    ELSE Goto(w, [t EXCEPT !.id = i, !.lookups = <<>>,
                           !.row = [rows[i] EXCEPT ![t.kind] = t.key]])

\* LoginOrRegisterWith...: the first lookup is by the provider's id. A row
\* found by its email is linked, by a save of the row as it was read.
FoundBySignIn(w, q, i) ==
    LET t == task[w] IN
    IF ~rows[i].active THEN Answer(w, Refused)
    ELSE IF q.column = t.kind THEN Answer(w, Session(i, t))
    ELSE Goto(w, [t EXCEPT !.id = i, !.lookups = <<>>,
                           !.row = [rows[i] EXCEPT ![t.kind] = t.key]])

LetIn(w, i) ==
    Answer(w, IF rows[i].active THEN Session(i, task[w]) ELSE Refused)

\* A row without a password is refused as well: its password is None.
FoundByPassword(w, i) ==
    IF rows[i].password = task[w].key THEN LetIn(w, i)
    ELSE Answer(w, Refused)

\* UpdateProfile passes over the customer's own row.
FoundByProfile(w, i) ==
    IF i = task[w].id
    THEN Goto(w, [task[w] EXCEPT !.lookups = Tail(@)])
    ELSE Answer(w, Refused)

FindHit(w) ==
    /\ At(w, "find")
    /\ task[w].lookups # <<>>
    /\ LET t == task[w]
           q == Head(t.lookups)
       IN \E i \in Matches(q) :
            \/ t.kind \in Providers /\ FoundBySignIn(w, q, i)
            \/ t.kind = "password" /\ FoundByPassword(w, i)
            \/ t.kind = "otp" /\ LetIn(w, i)
            \/ t.kind = "register" /\ Answer(w, Refused)
            \/ t.kind = "profile" /\ FoundByProfile(w, i)
    /\ UNCHANGED faults
    /\ Unchanged

\* Any error of a lookup counts as "no such row". A login that has looked
\* everywhere is refused.
FindMiss(w) ==
    /\ At(w, "find")
    /\ task[w].lookups # <<>>
    /\ LET t == task[w]
           rest == Tail(t.lookups)
       IN /\ IF Matches(Head(t.lookups)) = {} THEN UNCHANGED faults ELSE Fault
          /\ IF rest = <<>> /\ t.kind \in {"password", "otp"}
             THEN Answer(w, [says |-> "no account", kind |-> t.kind, key |-> t.key])
             ELSE Goto(w, [t EXCEPT !.lookups = rest])
    /\ Unchanged

-----------------------------------------------------------------------------
(* Reads and writes of one row.                                            *)

\* What a request is to change in a row.
Changed(t, r) ==
    CASE t.kind \in Providers -> [r EXCEPT ![t.kind] = t.key]
      [] t.kind = "profile"   -> [r EXCEPT !.phone = t.key.phone,
                                           !.email = t.key.email]
      [] t.kind = "active"    -> [r EXCEPT !.active = t.key]
      [] OTHER                -> [r EXCEPT !.password = t.key.new]

\* Mutant of ProfileLookups: the email is not looked up.
ProfileLookupsByPhone(key, r) ==
    IF key.phone # r.phone THEN Column("phone", key.phone) ELSE <<>>

\* UpdateProfile looks up what is to be new.
ProfileLookups(key, r) ==
    (IF key.phone # r.phone THEN Column("phone", key.phone) ELSE <<>>)
    \o (IF key.email # r.email THEN Column("email", key.email) ELSE <<>>)

\* ChangePassword asks for the old password if there is one.
MayChange(t, r) ==
    t.kind = "change" => r.password \in {None, t.key.old}

\* FindByID, and the checks on the row it returns.
Read(w) ==
    /\ At(w, "read")
    /\ LET t == task[w]
           r == rows[t.id]
       IN \/ /\ MayChange(t, r)
             /\ Goto(w, [step |-> "find", kind |-> t.kind, key |-> t.key,
                         lookups |-> IF t.kind = "profile"
                                     THEN ProfileLookups(t.key, r) ELSE <<>>,
                         id |-> t.id, row |-> Changed(t, r)])
             /\ UNCHANGED faults
          \/ /\ ~MayChange(t, r)
             /\ Answer(w, Refused)
             /\ UNCHANGED faults
    /\ Unchanged

\* The unique indexes: NULLs do not clash.
Clashes(r, others) ==
    \E i \in others, c \in {"phone", "email"} \cup Providers :
        r[c] # None /\ rows[i][c] = r[c]

Ready(w) == At(w, "find") /\ task[w].lookups = <<>>

Write(table) ==
    /\ rows' = table
    /\ seen' = [v \in Workers |-> seen[v] \cup Versions(table)]

Failed == [says |-> "failed", why |-> "fault"]

\* A row was written. The database's answer may be lost, which the request
\* takes for a failure.
AnswerWritten(w, a) ==
    \/ Answer(w, a) /\ UNCHANGED faults
    \/ Answer(w, Failed) /\ Fault

\* Create, for a provider's new customer or a registration.
Create(w) ==
    /\ Ready(w)
    /\ task[w].id = None
    /\ ~Clashes(task[w].row, DOMAIN rows)
    /\ Write(Append(rows, task[w].row))
    /\ made' = Append(made, task[w].row)
    /\ AnswerWritten(w, Session(Len(rows) + 1, task[w]))
    /\ UNCHANGED requests

\* The answer to a save.
Saved(w, t) ==
    AnswerWritten(w, IF t.kind \in Providers THEN Session(t.id, t)
                     ELSE [says |-> "done"])

\* Mutant of Save: columns that are zero in the struct are not written, as
\* by gorm's Updates.
SaveNonZero(w) ==
    /\ Ready(w)
    /\ task[w].id # None
    /\ LET t == task[w]
           others == DOMAIN rows \ {t.id}
           Kept(c) == IF c = "active" THEN ~t.row[c] ELSE t.row[c] = None
           r == [c \in DOMAIN t.row |->
                    IF Kept(c) THEN rows[t.id][c] ELSE t.row[c]]
       IN /\ ~Clashes(t.row, others)
          /\ Write([rows EXCEPT ![t.id] = r])
          /\ made' = [made EXCEPT ![t.id] = Changed(t, @)]
          /\ Saved(w, t)
    /\ UNCHANGED requests

\* Customers.Update saves every column of the row.
Save(w) ==
    /\ Ready(w)
    /\ task[w].id # None
    /\ LET t == task[w] IN
          /\ ~Clashes(t.row, DOMAIN rows \ {t.id})
          /\ Write([rows EXCEPT ![t.id] = t.row])
          /\ made' = [made EXCEPT ![t.id] = Changed(t, @)]
          /\ Saved(w, t)
    /\ UNCHANGED requests

\* An index refuses the row.
Clash(w) ==
    /\ Ready(w)
    /\ Clashes(task[w].row, DOMAIN rows \ {task[w].id})
    /\ Answer(w, [says |-> "failed", why |-> "index"])
    /\ UNCHANGED faults
    /\ Unchanged

\* FindByID, Create or Update fails and nothing is written.
Fail(w) ==
    /\ At(w, "read") \/ Ready(w)
    /\ Fault
    /\ Answer(w, Failed)
    /\ Unchanged

Next ==
    \E w \in Workers :
        \/ SignIn(w) \/ Login(w) \/ LoginOtp(w) \/ Register(w)
        \/ UpdateProfile(w) \/ ChangePassword(w)
        \/ ResetPassword(w) \/ SetActive(w)
        \/ FindHit(w) \/ FindMiss(w) \/ Read(w)
        \/ Create(w) \/ Save(w) \/ Clash(w) \/ Fail(w)

Spec == Init /\ [][Next]_vars

-----------------------------------------------------------------------------

Row == [phone: Maybe(Phones \cup {LocalVariant(p) : p \in Phones}),
        email: Maybe(Emails), google: Maybe(Subs), facebook: Maybe(Subs),
        password: Maybe(Passwords), active: BOOLEAN]

\* The table holds customers, a provider's id only in its own column.
TypeOK ==
    /\ \A i \in DOMAIN rows : rows[i] \in Row
    /\ Len(rows) = Len(made)
    /\ requests \in 0..MaxRequests
    /\ faults \in 0..MaxFaults

\* A session was given for an account that was enabled at some moment of the
\* request, and by password or change of password only if it had that
\* password at the same moment (Customer: "IsActive lets an admin disable a
\* customer's login"), although rows are read and saved in different steps.
SessionIsJustified ==
    \A w \in Workers :
        (At(w, "idle") /\ task[w].answer.says = "session") =>
            LET a == task[w].answer IN
            \E v \in seen[w] : /\ v[1] = a.id /\ v[2].active
                               /\ a.kind = "password" => v[2].password = a.key

\* The table is well formed and every session is justified.
CustomersInv == TypeOK /\ SessionIsJustified

\* Every row is what the changes that were written made it, whether their
\* requests were answered or not: none undoes what another did (a disabled
\* account, a new password, a linked provider).
AsMade == rows = made

\* Requests are not refused by an index: the lookups before a save or a
\* create find every clash and say which it is.
NoClash ==
    \A w \in Workers :
        At(w, "idle") => task[w].answer # [says |-> "failed", why |-> "index"]

\* A customer with a verified phone was told that there is no account only if
\* there is none under either form of the phone (LoginWithVerifiedPhone).
NoAccountIsTrue(w) ==
    (At(w, "idle") /\ task[w].answer.says = "no account"
     /\ task[w].answer.kind = "otp") =>
        \A i \in DOMAIN rows :
            rows[i].phone \notin {task[w].answer.key,
                                  LocalVariant(task[w].answer.key)}
=============================================================================
