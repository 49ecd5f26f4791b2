---------------------------- MODULE PPCBankToken ----------------------------
(***************************************************************************)
(* The bearer token of the PPCBank API, services/ppcbank_payment.go: kept  *)
(* in memory and in one database row, fetched again when it is twelve      *)
(* hours old or when the bank calls it expired, behind one mutex that is   *)
(* held while the bank and the database are called.                        *)
(*                                                                         *)
(* A worker is a request that needs the bank (a checkout or a check of a   *)
(* payment). Everything done under the mutex but the fetch itself is one   *)
(* action; the mutex is free between getting a token, using it and giving  *)
(* it up. Tokens are numbered in the order the bank issued them.           *)
(***************************************************************************)
EXTENDS Naturals, Sequences

CONSTANTS
    Workers,
    Nobody,      \* the mutex is free
    MaxTokens,   \* bound: tokens issued
    MaxFaults    \* bound: database errors

ASSUME TokenAssumption ==
    /\ Nobody \notin Workers
    /\ MaxTokens \in Nat /\ MaxFaults \in Nat

VARIABLES
    mem,      \* ppcbankMemToken, NoToken when it is ""
    rows,     \* the ppcbank_tokens rows, lowest id first
    old,      \* tokens fetched twelve hours ago or more
    issued,   \* how many tokens the bank has issued
    dead,     \* tokens the bank calls expired
    holder,   \* who holds ppcbankTokenMu
    task,     \* what each worker is doing
    faults    \* database errors so far

vars == <<mem, rows, old, issued, dead, holder, task, faults>>
cache == <<mem, rows, old>>

-----------------------------------------------------------------------------

NoToken == 0
Tokens == 1..MaxTokens

Steps == {"idle",
          "lock",         \* getPPCBankToken: waiting for the mutex
          "fetch",        \* security_check, the mutex held
          "save",         \* saveCachedPPCBankToken, the mutex held
          "call",         \* the API call with the token
          "invalidate"}   \* invalidatePPCBankToken: waiting for the mutex

\* rejected: the token the first call was refused with; force: the retry.
Task == [step: Steps, token: Tokens \cup {NoToken},
         rejected: Tokens \cup {NoToken}, force: BOOLEAN]

Idle == [step |-> "idle", token |-> NoToken, rejected |-> NoToken,
         force |-> FALSE]

Init ==
    /\ mem = NoToken
    /\ rows = <<>>
    /\ old = {}
    /\ issued = 0
    /\ dead = {}
    /\ holder = Nobody
    /\ task = [w \in Workers |-> Idle]
    /\ faults = 0

At(w, s) == task[w].step = s
Goto(w, t) == task' = [task EXCEPT ![w] = t]
Finish(w) == Goto(w, Idle)
Step(w, s) == Goto(w, [task[w] EXCEPT !.step = s])

DatabaseError == faults < MaxFaults /\ faults' = faults + 1

-----------------------------------------------------------------------------

\* doPPCBankRequest begins.
Begin(w) ==
    /\ At(w, "idle")
    /\ Step(w, "lock")
    /\ UNCHANGED <<cache, issued, dead, holder, faults>>

\* What loadCachedPPCBankToken finds when the database answers: the token in
\* memory, else the first row's; neither when it is too old.
Fresh(t) == t # NoToken /\ t \notin old
Loadable == IF Fresh(mem) THEN mem
            ELSE IF rows # <<>> /\ Fresh(rows[1]) THEN rows[1] ELSE NoToken

\* Mutant of UseCached: a forced refresh is served from the cache too.
UseCachedAlways(w) == Loadable # NoToken

\* A refresh that is forced does not look at what is cached.
UseCached(w) == ~task[w].force /\ Loadable # NoToken

\* The mutex is free and a token is at hand: taken and released in one go.
Load(w) ==
    /\ At(w, "lock")
    /\ holder = Nobody
    /\ UseCached(w)
    /\ mem' = Loadable
    /\ Goto(w, [task[w] EXCEPT !.step = "call", !.token = Loadable])
    /\ UNCHANGED <<rows, old, issued, dead, holder, faults>>

\* No token at hand, or the row could not be read.
LockToFetch(w) ==
    /\ At(w, "lock")
    /\ holder = Nobody
    /\ \/ ~UseCached(w) /\ UNCHANGED faults
       \/ ~task[w].force /\ ~Fresh(mem) /\ DatabaseError
    /\ holder' = w
    /\ Step(w, "fetch")
    /\ UNCHANGED <<cache, issued, dead>>

\* security_check answers with a new token.
Fetch(w) ==
    /\ At(w, "fetch")
    /\ issued < MaxTokens
    /\ issued' = issued + 1
    /\ Goto(w, [task[w] EXCEPT !.step = "save", !.token = issued + 1])
    /\ UNCHANGED <<cache, dead, holder, faults>>

\* Mutant of FetchFail: the error return forgets to release the mutex.
FetchFailLocked(w) ==
    /\ At(w, "fetch")
    /\ Finish(w)
    /\ UNCHANGED <<cache, issued, dead, holder, faults>>

\* It fails or times out: the request ends, and the mutex is released.
FetchFail(w) ==
    /\ At(w, "fetch")
    /\ holder' = Nobody
    /\ Finish(w)
    /\ UNCHANGED <<cache, issued, dead, faults>>

\* Mutant of Stored: a row is created for every token.
StoredAsNew(t) == Append(rows, t)

\* The rows after saveCachedPPCBankToken(t) without an error: the first row
\* is overwritten, or one is created.
Stored(t) == IF rows = <<>> THEN <<t>> ELSE [rows EXCEPT ![1] = t]

\* Any error in finding the first row is taken for "there is none"; an error
\* in writing is ignored.
SaveToken(w) ==
    /\ At(w, "save")
    /\ LET t == task[w].token IN
        /\ mem' = t
        /\ \/ rows' = Stored(t) /\ UNCHANGED faults
           \/ rows' \in {rows, Append(rows, t)} /\ DatabaseError
    /\ holder' = Nobody
    /\ Step(w, "call")
    /\ UNCHANGED <<old, issued, dead>>

\* The bank answers, refuses for another reason, or cannot be reached.
Call(w) ==
    /\ At(w, "call")
    /\ Finish(w)
    /\ UNCHANGED <<cache, issued, dead, holder, faults>>

\* resultCode 900024 on the first call; on the retry it is just an error.
CallRefused(w) ==
    /\ At(w, "call")
    /\ task[w].token \in dead
    /\ ~task[w].force
    /\ Goto(w, [task[w] EXCEPT !.step = "invalidate",
                               !.rejected = task[w].token])
    /\ UNCHANGED <<cache, issued, dead, holder, faults>>

\* invalidatePPCBankToken drops whatever is cached, then the retry asks for
\* a new token.
Invalidate(w) ==
    /\ At(w, "invalidate")
    /\ holder = Nobody
    /\ mem' = NoToken
    /\ \/ rows' = <<>> /\ UNCHANGED faults
       \/ UNCHANGED rows /\ DatabaseError
    /\ Goto(w, [task[w] EXCEPT !.step = "lock", !.force = TRUE])
    /\ UNCHANGED <<old, issued, dead, holder>>

-----------------------------------------------------------------------------
(* The bank, the clock and the process.                                    *)

BankExpires(t) ==
    /\ t <= issued /\ t \notin dead
    /\ dead' = dead \cup {t}
    /\ UNCHANGED <<cache, issued, holder, task, faults>>

\* ppcbankTokenTTL has passed since t was fetched, so since any earlier
\* token was.
Age(t) ==
    /\ t <= issued /\ t \notin old
    /\ old' = old \cup 1..t
    /\ UNCHANGED <<mem, rows, issued, dead, holder, task, faults>>

Crash ==
    /\ mem' = NoToken
    /\ holder' = Nobody
    /\ task' = [w \in Workers |-> Idle]
    /\ UNCHANGED <<rows, old, issued, dead, faults>>

Use(w) ==
    \/ Begin(w)
    \/ Load(w) \/ LockToFetch(w) \/ Fetch(w) \/ FetchFail(w) \/ SaveToken(w)
    \/ Call(w) \/ CallRefused(w) \/ Invalidate(w)

Next ==
    \/ \E w \in Workers : Use(w)
    \/ \E t \in Tokens : BankExpires(t) \/ Age(t)
    \/ Crash

Spec == Init /\ [][Next]_vars

\* Every call ends within its 15 seconds, and Go's mutex lets no waiter
\* starve.
Fairness ==
    \A w \in Workers :
        /\ SF_vars(Load(w) \/ LockToFetch(w))
        /\ WF_vars(Fetch(w) \/ FetchFail(w))
        /\ WF_vars(SaveToken(w))
        /\ WF_vars(Call(w) \/ CallRefused(w))
        /\ SF_vars(Invalidate(w))

FairSpec == Spec /\ Fairness

-----------------------------------------------------------------------------

\* Only issued tokens age or die; the mutex has one holder at most.
TypeOK ==
    /\ mem \in Tokens \cup {NoToken}
    /\ rows \in Seq(Tokens)
    /\ old \subseteq 1..issued
    /\ issued \in 0..MaxTokens
    /\ dead \subseteq 1..issued
    /\ holder \in Workers \cup {Nobody}
    /\ task \in [Workers -> Task]
    /\ faults \in 0..MaxFaults

\* A worker is between locking and releasing the mutex.
Locked(w) == task[w].step \in {"fetch", "save"}

\* The mutex is held by the one worker that is fetching, and is released on
\* every path out of getPPCBankToken.
MutexHeldByFetcher == \A w \in Workers : Locked(w) <=> holder = w

\* The retry after "Token has expired" is made with a token newer than the
\* one that was refused, whoever else refreshed or gave up tokens meanwhile
\* and whatever the database failed to do.
RetryIsNewer ==
    \A w \in Workers :
        At(w, "call") /\ task[w].force => task[w].token > task[w].rejected

\* While the database answers, there is one row at most and it is what is in
\* memory, so a restart goes on with the token in use and not with one that
\* was given up.
RowIsMemory ==
    faults = 0 => /\ Len(rows) <= 1
                  /\ mem # NoToken => rows = <<mem>>

\* A request that begins also ends: waiting for the mutex twice in one
\* request locks nobody out.
EveryRequestEnds == \A w \in Workers : ~At(w, "idle") ~> At(w, "idle")
=============================================================================
