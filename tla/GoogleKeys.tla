----------------------------- MODULE GoogleKeys -----------------------------
(***************************************************************************)
(* Google's public keys and the sign-ins that wait for them:               *)
(* oauth_google.go. getKey holds a mutex over its whole course, the fetch  *)
(* included. Google replaces its keys while logins are under way, and its  *)
(* answers may be late, fail, or be an error page that parses (the status  *)
(* is not looked at). What a token claims besides its key is abstracted    *)
(* to whether it passes.                                                   *)
(***************************************************************************)
EXTENDS Naturals

CONSTANTS
    Kids,      \* key ids Google may use
    Workers,   \* sign-ins being handled at the same time
    Nobody,    \* the mutex is free
    MaxAge     \* ticks in keysMaxAge

\* What the constants stand for.
KeysAssumption == Nobody \notin Workers /\ MaxAge \in Nat \ {0}

VARIABLES
    published,  \* the keys Google publishes
    keys,       \* g.keys
    age,        \* ticks since g.fetchedAt, MaxAge standing for more
    mutex,      \* g.mu
    task,       \* what each worker is doing, and its last answer
    since,      \* history: ticks since a key was published, up to MaxAge
    steady      \* history: workers whose key was published all along

vars == <<published, keys, age, mutex, task, since, steady>>

-----------------------------------------------------------------------------

Answered(a) == [step |-> "idle", answer |-> a]
Nothing == [says |-> "nothing"]

\* A token's key may be one that Google withdrew long ago.
Init ==
    /\ published \in SUBSET Kids
    /\ keys = {}
    /\ age = MaxAge
    /\ mutex = Nobody
    /\ task = [w \in Workers |-> Answered(Nothing)]
    /\ since = [k \in Kids |-> IF k \in published THEN 0 ELSE MaxAge]
    /\ steady = {}

At(w, s) == task[w].step = s
Goto(w, t) == task' = [task EXCEPT ![w] = t]
Step(w, s) == Goto(w, [task[w] EXCEPT !.step = s])

\* The sign-in is answered, and the deferred Unlock runs. `how` is where the
\* key came from.
Accept(w, how) ==
    Goto(w, Answered([says |-> "accepted", kid |-> task[w].kid, how |-> how]))
Refuse(w, why) ==
    Goto(w, Answered([says |-> "refused", kid |-> task[w].kid, why |-> why]))
Unlock == mutex' = Nobody

Google == <<published, since>>

-----------------------------------------------------------------------------

\* VerifyIDToken. A token that is not Google's, or not for this app, or past
\* its time is refused with or without its key.
Begin(w, k) ==
    /\ At(w, "idle")
    /\ Goto(w, [step |-> "lock", kid |-> k])
    /\ steady' = IF k \in published THEN steady \cup {w} ELSE steady \ {w}
    /\ UNCHANGED <<Google, keys, age, mutex>>

Lock(w) ==
    /\ At(w, "lock")
    /\ mutex = Nobody
    /\ mutex' = w
    /\ Step(w, "look")
    /\ UNCHANGED <<Google, keys, age, steady>>

\* Mutant of Fresh: the age of the keys is not looked at.
FreshAlways(k) == k \in keys

Fresh(k) == k \in keys /\ age < MaxAge

LookHit(w) ==
    /\ At(w, "look")
    /\ Fresh(task[w].kid)
    /\ Accept(w, "cache")
    /\ Unlock
    /\ UNCHANGED <<Google, keys, age, steady>>

\* Mutant of LookMiss: the mutex is not held over the fetch.
LookMissUnlocked(w) ==
    /\ At(w, "look")
    /\ ~Fresh(task[w].kid)
    /\ Step(w, "fetch")
    /\ Unlock
    /\ UNCHANGED <<Google, keys, age, steady>>

LookMiss(w) ==
    /\ At(w, "look")
    /\ ~Fresh(task[w].kid)
    /\ Step(w, "fetch")
    /\ UNCHANGED <<Google, keys, age, mutex, steady>>

\* The request is at Google, which makes up its answer.
Serve(w) ==
    /\ At(w, "fetch")
    /\ Goto(w, [step |-> "arrive", kid |-> task[w].kid, found |-> published])
    /\ UNCHANGED <<Google, keys, age, mutex, steady>>

\* An error page in JSON parses as an answer without keys.
ServeErrorPage(w) ==
    /\ At(w, "fetch")
    /\ Goto(w, [step |-> "arrive", kid |-> task[w].kid, found |-> {}])
    /\ steady' = steady \ {w}
    /\ UNCHANGED <<Google, keys, age, mutex>>

Arrive(w) ==
    /\ At(w, "arrive")
    /\ keys' = task[w].found
    /\ age' = 0
    /\ IF task[w].kid \in task[w].found THEN Accept(w, "fetch")
       ELSE Refuse(w, "no key")
    /\ Unlock
    /\ UNCHANGED <<Google, steady>>

\* Mutant of FetchFails: what was fetched earlier is forgotten.
FetchFailsEmpty(w) ==
    /\ At(w, "fetch")
    /\ keys' = {}
    /\ Refuse(w, "failed")
    /\ Unlock
    /\ UNCHANGED <<Google, age, steady>>

\* No answer, or none that parses: an old key of that id is used.
FetchFails(w) ==
    /\ At(w, "fetch")
    /\ IF task[w].kid \in keys THEN Accept(w, "old") ELSE Refuse(w, "failed")
    /\ Unlock
    /\ UNCHANGED <<Google, keys, age, steady>>

-----------------------------------------------------------------------------
(* Google and time. Bound: an answer of Google arrives within a tick.      *)

Rotate(new) ==
    /\ published' = new
    /\ since' = [k \in Kids |-> IF k \in new THEN 0 ELSE since[k]]
    /\ steady' = {w \in steady : ~At(w, "idle") /\ task[w].kid \in new}
    /\ UNCHANGED <<keys, age, mutex, task>>

Tick ==
    /\ \A w \in Workers : ~At(w, "arrive")
    /\ age' = IF age < MaxAge THEN age + 1 ELSE age
    /\ since' = [k \in Kids |-> IF k \in published THEN 0
                                ELSE IF since[k] < MaxAge THEN since[k] + 1
                                ELSE since[k]]
    /\ UNCHANGED <<published, keys, mutex, task, steady>>

Restart ==
    /\ keys' = {}
    /\ age' = MaxAge
    /\ mutex' = Nobody
    /\ task' = [w \in Workers |-> Answered(Nothing)]
    /\ UNCHANGED <<Google, steady>>

SignIn(w) ==
    \/ \E k \in Kids : Begin(w, k)
    \/ Lock(w) \/ LookHit(w) \/ LookMiss(w)
    \/ Serve(w) \/ ServeErrorPage(w) \/ Arrive(w) \/ FetchFails(w)

Next ==
    \/ \E w \in Workers : SignIn(w)
    \/ \E new \in SUBSET Kids : Rotate(new)
    \/ Tick
    \/ Restart

Spec == Init /\ [][Next]_vars

-----------------------------------------------------------------------------

\* Keys and the mutex are well formed.
TypeOK ==
    /\ published \subseteq Kids
    /\ keys \subseteq Kids
    /\ age \in 0..MaxAge
    /\ mutex \in Workers \cup {Nobody}

\* However many sign-ins miss the cache at once, one looks or fetches at a
\* time, and the others find what it fetched (getKey: "a thundering herd
\* ... should refetch once").
OneAtATime ==
    \A w \in Workers : task[w].step \in {"look", "fetch", "arrive"} => mutex = w

KeysInv == TypeOK /\ OneAtATime

\* A sign-in whose key Google publishes all along is refused only after a
\* fetch that failed or brought an error page; a failing fetch refuses none
\* whose key was fetched before; and a key is accepted without a failed
\* fetch only if it was published less than keysMaxAge ago, whatever Google
\* replaces while sign-ins wait for each other.
KeysAreCurrent ==
    [][\A w \in Workers :
          (~At(w, "idle") /\ At(w, "idle")') =>
              LET a == task'[w].answer IN
              CASE a.says = "nothing"  -> TRUE
                [] a.says = "accepted" -> a.how = "old" \/ since[a.kid] < MaxAge
                [] a.says = "refused"  ->
                      IF a.why = "failed" THEN a.kid \notin keys
                      ELSE w \notin steady]_vars
=============================================================================
