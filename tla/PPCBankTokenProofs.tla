------------------------- MODULE PPCBankTokenProofs -------------------------
(***************************************************************************)
(* Proofs about PPCBankToken: the mutex is held by the fetching worker and *)
(* by nobody else, a retry is made with a newer token, and while the       *)
(* database answers memory and row agree.                                  *)
(***************************************************************************)
EXTENDS PPCBankToken, SequenceTheorems, TLAPS

Issued == 1..issued

\* Every token that is around was issued, and a worker on its retry, once it
\* has a token, has a newer one than the one refused.
TokenInv ==
    /\ mem \in Issued \cup {NoToken}
    /\ rows \in Seq(Issued)
    /\ \A w \in Workers :
        /\ task[w].token \in Issued \cup {NoToken}
        /\ task[w].rejected \in Issued \cup {NoToken}
        /\ At(w, "call") => task[w].token # NoToken
        /\ task[w].step \in {"save", "call"} /\ task[w].force
              => task[w].token > task[w].rejected
        /\ At(w, "save") => task[w].token # NoToken

IInv == TypeOK /\ MutexHeldByFetcher /\ TokenInv /\ RowIsMemory

\* What is loaded from memory or the first row is a token that was issued.
LEMMA LoadableIssued ==
    ASSUME IInv, Loadable # NoToken
    PROVE  Loadable \in Issued /\ Loadable \in Tokens
<1>1. CASE Fresh(mem)
    BY <1>1 DEF Loadable, Fresh, IInv, TokenInv, TypeOK
<1>2. CASE ~Fresh(mem)
    <2>1. rows # <<>> /\ Loadable = rows[1]
        BY <1>2 DEF Loadable
    <2>2. rows[1] \in Issued /\ rows[1] \in Tokens
        BY <2>1 DEF IInv, TokenInv, TypeOK
    <2> QED BY <2>1, <2>2
<1> QED BY <1>1, <1>2

\* A sequence that is neither empty nor longer than one.
LEMMA OneRow ==
    ASSUME NEW S, NEW q \in Seq(S), q # <<>>, Len(q) <= 1
    PROVE  q = <<q[1]>>
<1>1. Len(q) = 1
    <2>1. Len(q) \in Nat
        OBVIOUS
    <2>2. Len(q) # 0
        BY EmptySeq, Zenon
    <2> QED BY <2>1, <2>2
<1>2. q[1] \in S /\ <<q[1]>> \in Seq(S) /\ Len(<<q[1]>>) = 1
    BY <1>1
<1>3. \A i \in 1..Len(q) : q[i] = <<q[1]>>[i]
    BY <1>1
<1> DEFINE r == <<q[1]>>
<1>4. r \in Seq(S) /\ Len(q) = Len(r) /\ \A i \in 1..Len(q) : q[i] = r[i]
    BY <1>1, <1>2, <1>3
<1> HIDE DEF r
<1>5. q = r
    BY <1>4, SeqEqual, Zenon
<1> QED BY <1>5 DEF r

\* Saving a token leaves one row if there was one at most.
LEMMA StoredRow ==
    ASSUME NEW S, rows \in Seq(S), NEW t \in S
    PROVE  /\ Stored(t) \in Seq(S)
           /\ Append(rows, t) \in Seq(S)
           /\ Len(rows) <= 1 => Stored(t) = <<t>>
<1>1. CASE rows = <<>>
    BY <1>1 DEF Stored
<1>2. CASE rows # <<>>
    <2>1. Stored(t) = [rows EXCEPT ![1] = t] /\ Len(rows) \in Nat \ {0}
        BY <1>2, EmptySeq DEF Stored
    <2>2. Stored(t) \in Seq(S) /\ Len(Stored(t)) = Len(rows)
        BY <2>1, ExceptSeq
    <2>3. Stored(t)[1] = t
        BY <2>1
    <2>4. ASSUME Len(rows) <= 1 PROVE Stored(t) = <<t>>
        BY <2>1, <2>2, <2>3, <2>4
    <2> QED BY <2>2, <2>4
<1> QED BY <1>1, <1>2

\* The invariant holds before the first request.
LEMMA TokenInit == Init => IInv
BY TokenAssumption
DEF Init, IInv, TypeOK, MutexHeldByFetcher, Locked, TokenInv, RowIsMemory,
    Idle, Task, Steps, At, Issued, NoToken, Tokens

\* A step that changes only the task of one worker, which neither takes nor
\* gives up the mutex.
LEMMA TaskStep ==
    ASSUME IInv, NEW w \in Workers, NEW t \in Task, Goto(w, t),
           UNCHANGED <<cache, issued, dead, holder, faults>>,
           t.step \in {"fetch", "save"} <=> Locked(w),
           t.token \in Issued \cup {NoToken},
           t.rejected \in Issued \cup {NoToken},
           t.step \in {"save", "call"} =>
               t.token # NoToken /\ (t.force => t.token > t.rejected)
    PROVE  IInv'
<1>1. task' = [task EXCEPT ![w] = t] /\ task \in [Workers -> Task]
    BY DEF Goto, IInv, TypeOK
<1>2. TypeOK'
    BY <1>1 DEF IInv, TypeOK, cache
<1>3. MutexHeldByFetcher'
    BY <1>1 DEF IInv, MutexHeldByFetcher, Locked
<1>4. TokenInv'
    BY <1>1 DEF IInv, TokenInv, At, Issued, cache
<1>5. RowIsMemory'
    BY DEF IInv, RowIsMemory, cache
<1> QED BY <1>2, <1>3, <1>4, <1>5 DEF IInv

\* A finished handler holds no token.
LEMMA IdleTask ==
    /\ Idle \in Task /\ Idle.step = "idle"
    /\ Idle.token = NoToken /\ Idle.rejected = NoToken
BY DEF Idle, Task, Steps, NoToken

\* Every step of a request, of the bank and of the database keeps it.
LEMMA TokenNext == IInv /\ [Next]_vars => IInv'
<1> SUFFICES ASSUME IInv, [Next]_vars PROVE IInv'
    OBVIOUS
<1> USE TokenAssumption
<1>0. \A w \in Workers : task[w] \in Task
    BY DEF IInv, TypeOK
<1>1. ASSUME NEW w \in Workers, Begin(w) PROVE IInv'
    <2> DEFINE t == [task[w] EXCEPT !.step = "lock"]
    <2>1. t \in Task /\ t.step = "lock" /\ ~Locked(w)
          /\ t.token = task[w].token /\ t.rejected = task[w].rejected
        BY <1>0, <1>1 DEF Begin, At, Task, Steps, Locked
    <2>2. Goto(w, t) /\ UNCHANGED <<cache, issued, dead, holder, faults>>
        BY <1>1 DEF Begin, Step
    <2>3. task[w].token \in Issued \cup {NoToken}
          /\ task[w].rejected \in Issued \cup {NoToken}
        BY DEF IInv, TokenInv
    <2> HIDE DEF t
    <2> QED BY <2>1, <2>2, <2>3, TaskStep
<1>2. ASSUME NEW w \in Workers, Load(w) PROVE IInv'
    <2> DEFINE t == [task[w] EXCEPT !.step = "call", !.token = Loadable]
    <2>1. Loadable \in Issued /\ Loadable \in Tokens /\ ~task[w].force
        BY <1>2, LoadableIssued DEF Load, UseCached
    <2>2. /\ t \in Task /\ t.step = "call" /\ t.token = Loadable
          /\ t.rejected = task[w].rejected /\ ~t.force
        BY <1>0, <2>1 DEF Task, Steps
    <2>3. task' = [task EXCEPT ![w] = t] /\ task \in [Workers -> Task]
        BY <1>2 DEF Load, Goto, IInv, TypeOK
    <2>4. /\ At(w, "lock") /\ mem' = Loadable
          /\ UNCHANGED <<rows, old, issued, dead, holder, faults>>
        BY <1>2 DEF Load
    <2>5. Loadable # NoToken
        BY <1>2 DEF Load, UseCached
    <2> HIDE DEF t
    <2>6. TypeOK'
        BY <2>1, <2>2, <2>3, <2>4 DEF IInv, TypeOK
    <2>7. MutexHeldByFetcher'
        BY <2>2, <2>3, <2>4 DEF IInv, MutexHeldByFetcher, Locked, At
    <2>8. TokenInv'
        BY <2>1, <2>2, <2>3, <2>4, <2>5 DEF IInv, TokenInv, At, Issued
    <2>9. RowIsMemory'
        <3>1. CASE Fresh(mem)
            BY <2>4, <3>1 DEF IInv, RowIsMemory, Loadable, Fresh
        <3>2. CASE ~Fresh(mem)
            <4>1. rows # <<>> /\ Loadable = rows[1] /\ rows \in Seq(Tokens)
                BY <2>5, <3>2 DEF Loadable, IInv, TypeOK
            <4>2. Len(rows) <= 1 => rows = <<rows[1]>>
                BY <4>1, OneRow
            <4> QED BY <2>4, <4>1, <4>2 DEF IInv, RowIsMemory
        <3> QED BY <3>1, <3>2
    <2> QED BY <2>6, <2>7, <2>8, <2>9 DEF IInv
<1>3. ASSUME NEW w \in Workers, LockToFetch(w) PROVE IInv'
    <2> DEFINE t == [task[w] EXCEPT !.step = "fetch"]
    <2>1. /\ t \in Task /\ t.step = "fetch" /\ t.token = task[w].token
          /\ t.rejected = task[w].rejected
        BY <1>0 DEF Task, Steps
    <2>2. task' = [task EXCEPT ![w] = t] /\ task \in [Workers -> Task]
        BY <1>3 DEF LockToFetch, Step, Goto, IInv, TypeOK
    <2>3. /\ holder = Nobody /\ holder' = w
          /\ UNCHANGED <<cache, issued, dead>>
          /\ faults' \in {faults, faults + 1} /\ faults' <= MaxFaults
        BY <1>3 DEF LockToFetch, DatabaseError, IInv, TypeOK
    <2> HIDE DEF t
    <2>4. TypeOK'
        BY <2>1, <2>2, <2>3 DEF IInv, TypeOK, cache
    <2>5. MutexHeldByFetcher'
        BY <2>1, <2>2, <2>3 DEF IInv, MutexHeldByFetcher, Locked
    <2>6. TokenInv'
        BY <2>1, <2>2, <2>3 DEF IInv, TokenInv, At, Issued, cache
    <2>7. RowIsMemory'
        BY <2>3 DEF IInv, RowIsMemory, cache, TypeOK
    <2> QED BY <2>4, <2>5, <2>6, <2>7 DEF IInv
<1>4. ASSUME NEW w \in Workers, Fetch(w) PROVE IInv'
    <2> DEFINE t == [task[w] EXCEPT !.step = "save", !.token = issued + 1]
    <2>1. issued + 1 \in Tokens /\ issued \in Nat /\ Locked(w)
        BY <1>4 DEF Fetch, IInv, TypeOK, Tokens, At, Locked
    <2>2. /\ t \in Task /\ t.step = "save" /\ t.token = issued + 1
          /\ t.rejected = task[w].rejected
        BY <1>0, <2>1 DEF Task, Steps
    <2>3. task' = [task EXCEPT ![w] = t] /\ task \in [Workers -> Task]
        BY <1>4 DEF Fetch, Goto, IInv, TypeOK
    <2>4. issued' = issued + 1 /\ UNCHANGED <<cache, dead, holder, faults>>
        BY <1>4 DEF Fetch
    <2> HIDE DEF t
    <2>5. TypeOK'
        BY <2>1, <2>2, <2>3, <2>4 DEF IInv, TypeOK, cache, Tokens
    <2>6. MutexHeldByFetcher'
        BY <2>1, <2>2, <2>3, <2>4 DEF IInv, MutexHeldByFetcher, Locked
    <2>7. Issued \subseteq Issued' /\ issued + 1 \in Issued'
        BY <2>1, <2>4 DEF Issued
    <2>8. rows \in Seq(Issued')
        BY <2>7 DEF IInv, TokenInv
    <2>9. TokenInv'
        <3>1. /\ mem' \in Issued' \cup {NoToken}
              /\ rows' \in Seq(Issued')
            BY <2>4, <2>7, <2>8 DEF IInv, TokenInv, cache
        <3>2. ASSUME NEW v \in Workers, v # w
              PROVE  task'[v] = task[v]
            BY <2>3, <3>2
        <3>3. task'[w] = t
            BY <2>3
        <3>4. issued + 1 > task[w].rejected /\ issued + 1 # NoToken
            BY <2>1 DEF IInv, TokenInv, Issued, NoToken
        <3>5. /\ task[w].rejected \in Issued' \cup {NoToken}
              /\ t.token \in Issued'
            BY <2>2, <2>7 DEF IInv, TokenInv
        <3> QED BY <2>2, <2>7, <3>1, <3>2, <3>3, <3>4, <3>5
                DEF IInv, TokenInv, At
    <2>10. RowIsMemory'
        BY <2>4 DEF IInv, RowIsMemory, cache
    <2> QED BY <2>5, <2>6, <2>9, <2>10 DEF IInv
<1>5. ASSUME NEW w \in Workers, FetchFail(w) PROVE IInv'
    <2>1. task' = [task EXCEPT ![w] = Idle] /\ task \in [Workers -> Task]
        BY <1>5 DEF FetchFail, Finish, Goto, IInv, TypeOK
    <2>2. /\ Locked(w) /\ holder' = Nobody
          /\ UNCHANGED <<cache, issued, dead, faults>>
        BY <1>5 DEF FetchFail, Locked, At
    <2>3. TypeOK'
        BY <2>1, <2>2, IdleTask DEF IInv, TypeOK, cache
    <2>4. MutexHeldByFetcher'
        BY <2>1, <2>2, IdleTask DEF IInv, MutexHeldByFetcher, Locked
    <2>5. TokenInv'
        BY <2>1, <2>2, IdleTask DEF IInv, TokenInv, At, Issued, cache
    <2>6. RowIsMemory'
        BY <2>2 DEF IInv, RowIsMemory, cache
    <2> QED BY <2>3, <2>4, <2>5, <2>6 DEF IInv
<1>6. ASSUME NEW w \in Workers, SaveToken(w) PROVE IInv'
    <2> DEFINE tok == task[w].token
               t == [task[w] EXCEPT !.step = "call"]
    <2>1. /\ At(w, "save") /\ Locked(w) /\ tok \in Issued /\ tok \in Tokens
          /\ task[w].force => tok > task[w].rejected
        BY <1>6 DEF SaveToken, IInv, TokenInv, TypeOK, Task, At, Locked, Tokens, Issued
    <2>2. /\ t \in Task /\ t.step = "call" /\ t.token = tok
          /\ t.rejected = task[w].rejected /\ t.force = task[w].force
        BY <1>0 DEF Task, Steps
    <2>3. task' = [task EXCEPT ![w] = t] /\ task \in [Workers -> Task]
        BY <1>6 DEF SaveToken, Step, Goto, IInv, TypeOK
    <2>4. /\ mem' = tok /\ holder' = Nobody /\ UNCHANGED <<old, issued, dead>>
          /\ \/ rows' = Stored(tok) /\ UNCHANGED faults
             \/ rows' \in {rows, Append(rows, tok)} /\ faults < MaxFaults
                  /\ faults' = faults + 1
        BY <1>6 DEF SaveToken, DatabaseError
    <2> HIDE DEF tok, t
    <2>5. rows' \in Seq(Tokens)
        BY <2>1, <2>4, StoredRow DEF IInv, TypeOK
    <2>6. rows' \in Seq(Issued)
        BY <2>1, <2>4, StoredRow DEF IInv, TokenInv
    <2>7. TypeOK'
        BY <2>1, <2>2, <2>3, <2>4, <2>5 DEF IInv, TypeOK
    <2>8. MutexHeldByFetcher'
        BY <2>1, <2>2, <2>3, <2>4 DEF IInv, MutexHeldByFetcher, Locked
    <2>9. Issued' = Issued
        BY <2>4 DEF Issued
    <2>10. tok # NoToken
        BY <2>1 DEF Issued, NoToken
    <2>11. TokenInv'
        BY <2>1, <2>2, <2>3, <2>4, <2>6, <2>9, <2>10 DEF IInv, TokenInv, At
    <2>12. RowIsMemory'
        <3>1. CASE rows' = Stored(tok) /\ UNCHANGED faults
            <4>1. Len(rows) <= 1 => rows' = <<tok>>
                BY <2>1, <3>1, StoredRow DEF IInv, TypeOK
            <4>2. Len(<<tok>>) <= 1
                OBVIOUS
            <4> QED BY <2>4, <3>1, <4>1, <4>2 DEF IInv, RowIsMemory
        <3>2. CASE faults' = faults + 1
            BY <3>2 DEF IInv, RowIsMemory, TypeOK
        <3> QED BY <2>4, <3>1, <3>2
    <2> QED BY <2>7, <2>8, <2>11, <2>12 DEF IInv
<1>7. ASSUME NEW w \in Workers, Call(w) PROVE IInv'
    <2>1. /\ Goto(w, Idle) /\ ~Locked(w)
          /\ UNCHANGED <<cache, issued, dead, holder, faults>>
        BY <1>7 DEF Call, Finish, Locked, At
    <2> QED BY <2>1, IdleTask, TaskStep
<1>8. ASSUME NEW w \in Workers, CallRefused(w) PROVE IInv'
    <2> DEFINE t == [task[w] EXCEPT !.step = "invalidate",
                                    !.rejected = task[w].token]
    <2>1. /\ t \in Task /\ t.step = "invalidate" /\ ~Locked(w)
          /\ t.token = task[w].token /\ t.rejected = task[w].token
        BY <1>0, <1>8 DEF CallRefused, At, Task, Steps, Locked
    <2>2. Goto(w, t) /\ UNCHANGED <<cache, issued, dead, holder, faults>>
        BY <1>8 DEF CallRefused
    <2>3. task[w].token \in Issued \cup {NoToken}
        BY DEF IInv, TokenInv
    <2> HIDE DEF t
    <2> QED BY <2>1, <2>2, <2>3, TaskStep
<1>9. ASSUME NEW w \in Workers, Invalidate(w) PROVE IInv'
    <2> DEFINE t == [task[w] EXCEPT !.step = "lock", !.force = TRUE]
    <2>1. /\ t \in Task /\ t.step = "lock" /\ t.token = task[w].token
          /\ t.rejected = task[w].rejected
        BY <1>0 DEF Task, Steps
    <2>2. task' = [task EXCEPT ![w] = t] /\ task \in [Workers -> Task]
        BY <1>9 DEF Invalidate, Goto, IInv, TypeOK
    <2>3. /\ At(w, "invalidate") /\ mem' = NoToken
          /\ UNCHANGED <<old, issued, dead, holder>>
          /\ \/ rows' = <<>> /\ UNCHANGED faults
             \/ rows' = rows /\ faults < MaxFaults /\ faults' = faults + 1
        BY <1>9 DEF Invalidate, DatabaseError
    <2> HIDE DEF t
    <2>4. rows' \in Seq(Tokens) /\ rows' \in Seq(Issued)
        <3>1. rows \in Seq(Tokens) /\ rows \in Seq(Issued)
            BY DEF IInv, TypeOK, TokenInv
        <3>2. <<>> \in Seq(Tokens) /\ <<>> \in Seq(Issued)
            OBVIOUS
        <3> QED BY <2>3, <3>1, <3>2
    <2>5. MutexHeldByFetcher'
        BY <2>1, <2>2, <2>3 DEF IInv, MutexHeldByFetcher, Locked, At
    <2>6. TokenInv'
        BY <2>1, <2>2, <2>3, <2>4 DEF IInv, TokenInv, At, Issued
    <2>8. TypeOK'
        BY <2>1, <2>2, <2>3, <2>4 DEF IInv, TypeOK
    <2>7. RowIsMemory'
        <3>1. CASE rows' = <<>>
            BY <2>3, <3>1 DEF RowIsMemory, NoToken
        <3>2. CASE faults' = faults + 1
            BY <3>2 DEF IInv, RowIsMemory, TypeOK
        <3> QED BY <2>3, <3>1, <3>2
    <2> QED BY <2>5, <2>6, <2>7, <2>8 DEF IInv
<1>10. ASSUME NEW t \in Tokens, BankExpires(t) \/ Age(t) PROVE IInv'
    <2>1. UNCHANGED <<mem, rows, issued, holder, task, faults>>
        BY <1>10 DEF BankExpires, Age, cache
    <2>2. dead' \subseteq 1..issued /\ old' \subseteq 1..issued
        <3>1. /\ dead \subseteq 1..issued /\ old \subseteq 1..issued
              /\ t \in Nat \ {0} /\ issued \in Nat
            BY DEF IInv, TypeOK, Tokens
        <3>2. CASE BankExpires(t)
            BY <3>1, <3>2 DEF BankExpires, cache
        <3>3. CASE Age(t)
            BY <3>1, <3>3 DEF Age
        <3> QED BY <1>10, <3>2, <3>3
    <2> QED BY <2>1, <2>2
            DEF IInv, TypeOK, MutexHeldByFetcher, Locked, TokenInv, Issued, At,
                RowIsMemory
<1>11. CASE Crash
    <2>1. /\ task' = [w \in Workers |-> Idle] /\ holder' = Nobody
          /\ mem' = NoToken /\ UNCHANGED <<rows, old, issued, dead, faults>>
        BY <1>11 DEF Crash
    <2>2. TypeOK'
        BY <2>1, IdleTask DEF IInv, TypeOK
    <2>3. MutexHeldByFetcher'
        BY <2>1, IdleTask DEF MutexHeldByFetcher, Locked
    <2>4. TokenInv'
        BY <2>1, IdleTask DEF IInv, TokenInv, At, Issued
    <2>5. RowIsMemory'
        BY <2>1 DEF IInv, RowIsMemory
    <2> QED BY <2>2, <2>3, <2>4, <2>5 DEF IInv
<1>12. CASE UNCHANGED vars
    BY <1>12 DEF vars, cache, IInv, TypeOK, MutexHeldByFetcher, Locked,
                 TokenInv, Issued, At, RowIsMemory
<1> QED BY <1>1, <1>2, <1>3, <1>4, <1>5, <1>6, <1>7, <1>8, <1>9, <1>10,
           <1>11, <1>12 DEF Next, Use

\* The token cache keeps its shape for any number of workers, tokens and
\* database errors.
THEOREM TokenTypeCorrect == Spec => []TypeOK
<1>1. Spec => []IInv
    BY TokenInit, TokenNext, PTL DEF Spec
<1> QED BY <1>1, PTL DEF IInv

\* ppcbankTokenMu is held exactly while a worker fetches and saves a token.
THEOREM MutexIsExclusive == Spec => []MutexHeldByFetcher
<1>1. Spec => []IInv
    BY TokenInit, TokenNext, PTL DEF Spec
<1> QED BY <1>1, PTL DEF IInv

\* A retry never repeats the refused token or an older one, whatever other
\* workers and the database do in between.
THEOREM RetryUsesNewerToken == Spec => []RetryIsNewer
<1>1. Spec => []IInv
    BY TokenInit, TokenNext, PTL DEF Spec
<1>2. IInv => RetryIsNewer
    BY DEF IInv, TokenInv, RetryIsNewer, At
<1> QED BY <1>1, <1>2, PTL

\* As long as the database answers, a restart resumes with the token that was
\* in memory.
THEOREM RowMatchesMemory == Spec => []RowIsMemory
<1>1. Spec => []IInv
    BY TokenInit, TokenNext, PTL DEF Spec
<1> QED BY <1>1, PTL DEF IInv
=============================================================================
