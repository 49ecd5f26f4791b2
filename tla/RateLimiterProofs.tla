------------------------- MODULE RateLimiterProofs -------------------------
(***************************************************************************)
(* Proofs about RateLimiter. Every action is first described by what it    *)
(* does to the levels Refilled(c) (lemmas ...Level); the bound on what is  *)
(* let through, the promise of Retry-After and the refinement of           *)
(* TokenBucket follow from these descriptions alone.                       *)
(***************************************************************************)
EXTENDS RateLimiter, TLAPS

\* Timestamps are not in the future, and the cutoff lies Forget back.
TimeInv ==
    /\ \A c \in Clients : visitors[c].lastSeen <= now
    /\ cutoff = 0 \/ cutoff <= now - Forget

Inv == TypeOK /\ TimeInv

\* The products that occur, all of natural numbers.
LEMMA Products ==
    ASSUME NEW a \in Nat, NEW b \in Nat, NEW r \in Nat
    PROVE  /\ a * r \in Nat
           /\ (a + 1) * r = a * r + r
           /\ a >= b => a * r >= b * r
<1>1. a * r \in Nat /\ (a + 1) * r = a * r + r
    OBVIOUS
<1>2. ASSUME a >= b PROVE a * r >= b * r
    <2>1. PICK k \in Nat : a = b + k
        BY <1>2
    <2>2. a * r = b * r + k * r
        BY <2>1
    <2>3. k * r >= 0
        OBVIOUS
    <2> QED BY <2>2, <2>3
<1> QED BY <1>1, <1>2

\* A level lies between an empty and a full bucket.
LEMMA LevelType ==
    ASSUME Inv, NEW c \in Clients
    PROVE  Refilled(c) \in 0..Full
<1>1. visitors[c].tokens \in 0..Full /\ visitors[c].lastSeen \in Nat
    BY DEF Inv, TypeOK, Visitor
<1>2. now - visitors[c].lastSeen \in Nat
    BY <1>1 DEF Inv, TimeInv, TypeOK
<1>3. (now - visitors[c].lastSeen) * Refill \in Nat
    BY <1>2, Products, LimiterAssumption
<1> QED BY <1>1, <1>3, LimiterAssumption DEF Refilled, Capped

\* TypeOK and the facts about time are inductive.
LEMMA InvInit == Init => Inv
BY LimiterAssumption DEF Init, Inv, TypeOK, TimeInv, Visitor

\* A visitor that has just been brought up to date is well formed.
LEMMA SeenInv ==
    ASSUME Inv, NEW c \in Clients, NEW n \in 0..Full, Seen(c, n),
           UNCHANGED <<now, cutoff>>
    PROVE  /\ known' \subseteq Clients
           /\ visitors' \in [Clients -> Visitor]
           /\ TimeInv'
<1>1. [tokens |-> n, lastSeen |-> now] \in Visitor
    BY DEF Inv, TypeOK, Visitor
<1>2. \A d \in Clients : visitors'[d].lastSeen <= now
    BY DEF Seen, Inv, TypeOK, TimeInv
<1> QED BY <1>1, <1>2 DEF Seen, Inv, TypeOK, TimeInv

\* Retry-After is a whole number of time units.
LEMMA RetryAfterType ==
    ASSUME NEW n \in 0..Full, n < Token
    PROVE  RetryAfter(n) \in Nat \ {0}
<1>1. Refill * TicksPerSecond \in Nat \ {0}
    <2>1. Refill * TicksPerSecond >= 1 * TicksPerSecond
        BY Products, LimiterAssumption
    <2> QED BY <2>1, LimiterAssumption
<1>2. Token - n \in Nat
    BY LimiterAssumption
<1> DEFINE d == Refill * TicksPerSecond
<1>3. d \in Nat \ {0}
    BY <1>1
<1> HIDE DEF d
<1>4. (Token - n) \div d \in Nat
    BY <1>2, <1>3
<1> QED BY <1>4 DEF RetryAfter, d

\* Every check and every sweep keeps levels and times in their ranges.
LEMMA InvNext == Inv /\ [Next]_vars => Inv'
<1> SUFFICES ASSUME Inv, [Next]_vars PROVE Inv'
    OBVIOUS
<1> USE LimiterAssumption
<1>1. ASSUME NEW c \in Clients, CheckAdmit(c) PROVE Inv'
    <2>1. Refilled(c) - Token \in 0..Full
        BY <1>1, LevelType DEF CheckAdmit
    <2>2. Seen(c, Refilled(c) - Token) /\ UNCHANGED <<now, cutoff>>
        BY <1>1 DEF CheckAdmit
    <2>3. known' \subseteq Clients /\ visitors' \in [Clients -> Visitor] /\ TimeInv'
        BY <2>1, <2>2, SeenInv
    <2>4. /\ answer' \in [Clients -> {"none", "admitted", "refused"}]
          /\ admitted' \in [Clients -> Nat]
          /\ retryAt' \in [Clients -> Nat]
        BY <1>1 DEF CheckAdmit, Inv, TypeOK
    <2> QED BY <2>2, <2>3, <2>4 DEF Inv, TypeOK
<1>2. ASSUME NEW c \in Clients, CheckRefuse(c) PROVE Inv'
    <2>1. Refilled(c) \in 0..Full /\ Refilled(c) < Token
        BY <1>2, LevelType DEF CheckRefuse
    <2>2. Seen(c, Refilled(c)) /\ UNCHANGED <<now, cutoff>>
        BY <1>2 DEF CheckRefuse
    <2>3. known' \subseteq Clients /\ visitors' \in [Clients -> Visitor] /\ TimeInv'
        BY <2>1, <2>2, SeenInv
    <2>4. now + RetryAfter(Refilled(c)) * TicksPerSecond \in Nat
        BY <2>1, RetryAfterType, Products DEF Inv, TypeOK
    <2> QED BY <1>2, <2>3, <2>4 DEF CheckRefuse, Inv, TypeOK
<1>3. CASE CleanupWakes
    BY <1>3 DEF CleanupWakes, Inv, TypeOK, TimeInv
<1>4. CASE CleanupSweeps
    BY <1>4 DEF CleanupSweeps, Inv, TypeOK, TimeInv
<1>5. CASE Tick
    BY <1>5 DEF Tick, Inv, TypeOK, TimeInv, Visitor
<1>6. CASE UNCHANGED vars
    BY <1>6 DEF vars, Inv, TypeOK, TimeInv
<1> QED BY <1>1, <1>2, <1>3, <1>4, <1>5, <1>6 DEF Next

\* The limiter's state is well-formed for every number of clients, every rate
\* and every burst.
THEOREM LimiterTypeCorrect == Spec => []TypeOK
<1>1. Spec => []Inv
    BY InvInit, InvNext, PTL DEF Spec
<1> QED BY <1>1, PTL DEF Inv

-----------------------------------------------------------------------------
(* What the actions do to the levels.                                      *)

\* check writes one client's level and leaves the others alone.
LEMMA SeenLevel ==
    ASSUME Inv, NEW c \in Clients, NEW n \in 0..Full, Seen(c, n), now' = now,
           NEW d \in Clients
    PROVE  Refilled(d)' = IF d = c THEN n ELSE Refilled(d)
<1>1. CASE d = c
    <2>1. d \in known' /\ visitors'[d] = [tokens |-> n, lastSeen |-> now]
        BY <1>1 DEF Seen, Inv, TypeOK
    <2>2. (now' - visitors'[d].lastSeen) * Refill = 0
        BY <2>1, LimiterAssumption DEF Inv, TypeOK
    <2>3. visitors'[d].tokens + 0 = n
        BY <2>1
    <2> QED BY <1>1, <2>1, <2>2, <2>3, LimiterAssumption DEF Refilled, Capped
<1>2. CASE d # c
    <2>1. (d \in known' <=> d \in known) /\ visitors'[d] = visitors[d]
        BY <1>2 DEF Seen, Inv, TypeOK
    <2> QED BY <1>2, <2>1 DEF Refilled, Capped
<1> QED BY <1>1, <1>2

\* A tick fills every bucket a little.
LEMMA TickLevel ==
    ASSUME Inv, Tick, NEW c \in Clients
    PROVE  Refilled(c)' = Capped(Refilled(c) + Refill)
<1>1. CASE c \notin known
    BY <1>1, LimiterAssumption DEF Refilled, Tick, Capped
<1>2. CASE c \in known
    <2> DEFINE age == now - visitors[c].lastSeen
               t == visitors[c].tokens
    <2>1. age \in Nat /\ t \in 0..Full
        BY DEF Inv, TypeOK, TimeInv, Visitor
    <2>2. age * Refill \in Nat /\ (age + 1) * Refill = age * Refill + Refill
        BY <2>1, Products, LimiterAssumption
    <2>3. now' - visitors'[c].lastSeen = age + 1
        <3>1. now \in Int /\ visitors[c].lastSeen \in Int
            BY DEF Inv, TypeOK, Visitor
        <3>2. now' = now + 1 /\ visitors' = visitors
            BY DEF Tick
        <3> QED BY <3>1, <3>2
    <2>4. Refilled(c) = Capped(t + age * Refill)
        BY <1>2 DEF Refilled
    <2>5. Refilled(c)' = Capped(t + (age * Refill + Refill))
        BY <1>2, <2>2, <2>3 DEF Refilled, Tick, Capped
    <2> HIDE DEF age, t
    <2> QED BY <2>1, <2>2, <2>4, <2>5, LimiterAssumption DEF Capped
<1> QED BY <1>1, <1>2

\* A visitor the sweep deletes has a full bucket already.
LEMMA SweepLevel ==
    ASSUME Inv, CleanupSweeps, NEW c \in Clients
    PROVE  Refilled(c)' = Refilled(c)
<1>1. CASE c \in known /\ c \notin known'
    <2> DEFINE age == now - visitors[c].lastSeen
    <2>1. age \in Nat /\ visitors[c].tokens \in 0..Full
        BY DEF Inv, TypeOK, TimeInv, Visitor
    <2>2. age >= Forget
        BY <1>1, LimiterAssumption
        DEF CleanupSweeps, Inv, TypeOK, TimeInv, Visitor
    <2>3. age * Refill >= Forget * Refill /\ age * Refill \in Nat
        BY <2>1, <2>2, Products, LimiterAssumption
    <2>4. Forget * Refill >= Full
        BY LimiterAssumption
    <2>5. Refilled(c) = Capped(visitors[c].tokens + age * Refill)
        BY <1>1 DEF Refilled
    <2> HIDE DEF age
    <2>6. Refilled(c) = Full
        BY <2>1, <2>3, <2>4, <2>5, LimiterAssumption DEF Capped
    <2> QED BY <1>1, <2>6 DEF Refilled
<1>2. CASE c \in known <=> c \in known'
    BY <1>2 DEF CleanupSweeps, Refilled, Capped
<1> QED BY <1>1, <1>2 DEF CleanupSweeps

\* Nothing else changes a level.
LEMMA OtherLevel ==
    ASSUME UNCHANGED <<now, known, visitors>>, NEW c \in Clients
    PROVE  Refilled(c)' = Refilled(c)
BY DEF Refilled, Capped

-----------------------------------------------------------------------------
(* Consequences.                                                           *)

\* What was let through, together with what is still in the bucket, never
\* exceeds the burst and the refill so far.
BudgetInv ==
    \A c \in Clients :
        admitted[c] * Token + Refilled(c) <= Full + now * Refill

\* No check and no sweep creates tokens that time did not give.
LEMMA BudgetNext == Inv /\ BudgetInv /\ [Next]_vars => BudgetInv'
<1> SUFFICES ASSUME Inv, BudgetInv, [Next]_vars, NEW d \in Clients
             PROVE  (admitted[d] * Token + Refilled(d) <= Full + now * Refill)'
    BY DEF BudgetInv
<1> USE LimiterAssumption
<1>0. /\ admitted[d] * Token + Refilled(d) <= Full + now * Refill
      /\ admitted[d] * Token \in Nat /\ now * Refill \in Nat
      /\ Refilled(d) \in 0..Full
      /\ (admitted[d] + 1) * Token = admitted[d] * Token + Token
      /\ (now + 1) * Refill = now * Refill + Refill
    BY LevelType, Products DEF BudgetInv, Inv, TypeOK
<1>1. ASSUME NEW c \in Clients, CheckAdmit(c)
      PROVE  (admitted[d] * Token + Refilled(d) <= Full + now * Refill)'
    <2>1. Refilled(c) - Token \in 0..Full
        BY <1>1, LevelType DEF CheckAdmit
    <2>2. Refilled(d)' = IF d = c THEN Refilled(c) - Token ELSE Refilled(d)
        BY <1>1, <2>1, SeenLevel DEF CheckAdmit
    <2>3. /\ now' = now
          /\ admitted'[d] = IF d = c THEN admitted[d] + 1 ELSE admitted[d]
        BY <1>1 DEF CheckAdmit, Inv, TypeOK
    <2>4. CASE d = c
        <3>1. admitted'[d] * Token = admitted[d] * Token + Token
            BY <2>3, <2>4, <1>0
        <3> QED BY <1>0, <2>2, <2>3, <2>4, <3>1
    <2>5. CASE d # c
        BY <1>0, <2>2, <2>3, <2>5
    <2> QED BY <2>4, <2>5
<1>2. ASSUME NEW c \in Clients, CheckRefuse(c)
      PROVE  (admitted[d] * Token + Refilled(d) <= Full + now * Refill)'
    <2>1. Refilled(d)' = Refilled(d)
        BY <1>2, LevelType, SeenLevel DEF CheckRefuse
    <2> QED BY <1>0, <1>2, <2>1 DEF CheckRefuse
<1>3. CASE CleanupWakes
    BY <1>0, <1>3, OtherLevel DEF CleanupWakes
<1>4. CASE CleanupSweeps
    BY <1>0, <1>4, SweepLevel DEF CleanupSweeps
<1>5. CASE Tick
    <2>1. Refilled(d)' = Capped(Refilled(d) + Refill)
        BY <1>5, TickLevel
    <2>2. now' = now + 1 /\ admitted' = admitted
        BY <1>5 DEF Tick
    <2>3. now' * Refill = now * Refill + Refill
        BY <1>0, <2>2
    <2> QED BY <1>0, <2>1, <2>2, <2>3 DEF Capped
<1>6. CASE UNCHANGED vars
    BY <1>0, <1>6, OtherLevel DEF vars
<1> QED BY <1>1, <1>2, <1>3, <1>4, <1>5, <1>6 DEF Next

\* A client is never let through more often than its burst and the rate
\* allow, for every limiter whose buckets refill within the sweep's fifteen
\* minutes.
THEOREM RateIsSustained == Spec => []SustainedRate
<1>1. Init => BudgetInv
    <2> SUFFICES ASSUME Init, NEW c \in Clients
                 PROVE  admitted[c] * Token + Refilled(c) <= Full + now * Refill
        BY DEF BudgetInv
    <2>1. admitted[c] * Token = 0 /\ now * Refill = 0 /\ Refilled(c) = Full
        BY LimiterAssumption DEF Init, Refilled
    <2> QED BY <2>1, LimiterAssumption
<1>2. Inv /\ BudgetInv => SustainedRate
    <2> SUFFICES ASSUME Inv, BudgetInv, NEW c \in Clients
                 PROVE  admitted[c] * Token <= Full + now * Refill
        BY DEF SustainedRate
    <2>1. /\ Refilled(c) \in 0..Full
          /\ admitted[c] * Token \in Nat /\ now * Refill \in Nat
        BY LevelType, Products, LimiterAssumption DEF Inv, TypeOK
    <2> QED BY <2>1, LimiterAssumption DEF BudgetInv
<1> QED BY <1>1, <1>2, InvInit, InvNext, BudgetNext, PTL DEF Spec

\* The limiter implements buckets that are filled continuously and never
\* forgotten: no answer depends on when a bucket was last brought up to date
\* or on the sweep.
THEOREM LimiterImplementsBuckets == Spec => BucketSpec
<1>1. Init => Bucket!Init
    BY DEF Init, Bucket!Init, Refilled
<1>2. Inv /\ [Next]_vars => [Bucket!Next]_(Bucket!bucket)
    <2> SUFFICES ASSUME Inv, [Next]_vars
                 PROVE  Bucket!Next \/ UNCHANGED Bucket!bucket
        OBVIOUS
    <2> USE LimiterAssumption
    <2> DEFINE level == [c \in Clients |-> Refilled(c)]
    <2>1. ASSUME NEW c \in Clients, CheckAdmit(c) PROVE Bucket!Admit(c)
        <3>1. Refilled(c) - Token \in 0..Full
            BY <2>1, LevelType DEF CheckAdmit
        <3>2. \A d \in Clients : Refilled(d)' =
                  IF d = c THEN Refilled(c) - Token ELSE Refilled(d)
            BY <2>1, <3>1, SeenLevel DEF CheckAdmit
        <3>3. level' = [level EXCEPT ![c] = @ - Token]
            BY <3>2
        <3> QED BY <2>1, <3>3 DEF CheckAdmit, Bucket!Admit
    <2>2. ASSUME NEW c \in Clients, CheckRefuse(c) PROVE Bucket!Refuse(c)
        <3>1. \A d \in Clients : Refilled(d)' = Refilled(d)
            BY <2>2, LevelType, SeenLevel DEF CheckRefuse
        <3>2. level' = level
            BY <3>1
        <3> QED BY <2>2, <3>2 DEF CheckRefuse, Bucket!Refuse
    <2>3. CASE Tick
        <3>1. \A d \in Clients : Refilled(d)' = Capped(Refilled(d) + Refill)
            BY <2>3, TickLevel
        <3>2. level' = [d \in Clients |-> Capped(level[d] + Refill)]
            BY <3>1
        <3> QED BY <2>3, <3>2 DEF Tick, Bucket!Tick, Bucket!Next, Bucket!Capped, Capped
    <2>4. CASE CleanupWakes
        <3>1. level' = level
            BY <2>4, OtherLevel DEF CleanupWakes
        <3> QED BY <2>4, <3>1 DEF CleanupWakes, Bucket!bucket
    <2>5. CASE CleanupSweeps
        <3>1. level' = level
            BY <2>5, SweepLevel
        <3> QED BY <2>5, <3>1 DEF CleanupSweeps, Bucket!bucket
    <2>6. CASE UNCHANGED vars
        <3>1. level' = level
            BY <2>6, OtherLevel DEF vars
        <3> QED BY <2>6, <3>1 DEF vars, Bucket!bucket
    <2> QED BY <2>1, <2>2, <2>3, <2>4, <2>5, <2>6 DEF Next, Bucket!Next
<1> QED BY <1>1, <1>2, InvInit, InvNext, PTL DEF Spec, BucketSpec, Bucket!Spec
-----------------------------------------------------------------------------
(* Retry-After.                                                            *)

\* Either a token is there already, or it will be at the promised time.
WaitingInv ==
    \A c \in Clients :
        retryAt[c] # 0 =>
            \/ Refilled(c) >= Token
            \/ /\ retryAt[c] > now
               /\ Refilled(c) + (retryAt[c] - now) * Refill >= Token

\* RetryAfter seconds bring in what a bucket of n units lacks.
LEMMA RetryAfterIsEnough ==
    ASSUME NEW n \in 0..Full, n < Token
    PROVE  n + (RetryAfter(n) * TicksPerSecond) * Refill >= Token
<1> DEFINE d == Refill * TicksPerSecond
           a == Token - n
           k == a \div d
<1>1. d \in Nat \ {0}
    <2>1. Refill * TicksPerSecond >= 1 * TicksPerSecond
        BY Products, LimiterAssumption
    <2> QED BY <2>1, LimiterAssumption
<1>2. a \in Nat
    BY LimiterAssumption
<1>3. RetryAfter(n) = k + 1
    BY DEF RetryAfter
<1>4. k \in Nat /\ a < (k + 1) * d
    <2> HIDE DEF a, d
    <2> QED BY <1>1, <1>2
<1>5. ((k + 1) * TicksPerSecond) * Refill = (k + 1) * d
    <2> HIDE DEF k
    <2> QED BY <1>4, LimiterAssumption
<1>6. (k + 1) * d \in Nat
    <2> HIDE DEF k, d
    <2> QED BY <1>1, <1>4
<1> HIDE DEF k, d
<1> QED BY <1>3, <1>4, <1>5, <1>6, LimiterAssumption

\* Until the announced time is over no step moves it or drains the bucket.
LEMMA WaitingNext == Inv /\ WaitingInv /\ [Next]_vars => WaitingInv'
<1> DEFINE Waiting(c) ==
        retryAt[c] # 0 =>
            \/ Refilled(c) >= Token
            \/ /\ retryAt[c] > now
               /\ Refilled(c) + (retryAt[c] - now) * Refill >= Token
<1> SUFFICES ASSUME Inv, WaitingInv, [Next]_vars, NEW d \in Clients
             PROVE  Waiting(d)'
    BY DEF WaitingInv
<1> USE LimiterAssumption
<1>0. /\ Waiting(d)
      /\ Refilled(d) \in 0..Full /\ retryAt[d] \in Nat /\ now \in Nat
    BY LevelType DEF WaitingInv, Inv, TypeOK
<1>1. ASSUME NEW c \in Clients, CheckAdmit(c) PROVE Waiting(d)'
    <2>1. Refilled(c) - Token \in 0..Full
        BY <1>1, LevelType DEF CheckAdmit
    <2>2. Refilled(d)' = IF d = c THEN Refilled(c) - Token ELSE Refilled(d)
        BY <1>1, <2>1, SeenLevel DEF CheckAdmit
    <2>3. now' = now /\ retryAt'[d] = IF d = c THEN 0 ELSE retryAt[d]
        BY <1>1 DEF CheckAdmit, Inv, TypeOK
    <2> QED BY <1>0, <2>2, <2>3
<1>2. ASSUME NEW c \in Clients, CheckRefuse(c) PROVE Waiting(d)'
    <2>1. Refilled(d)' = Refilled(d)
        BY <1>2, LevelType, SeenLevel DEF CheckRefuse
    <2>2. /\ now' = now
          /\ retryAt'[d] = IF d = c
                           THEN now + RetryAfter(Refilled(c)) * TicksPerSecond
                           ELSE retryAt[d]
        BY <1>2 DEF CheckRefuse, Inv, TypeOK
    <2>3. CASE d = c
        <3> DEFINE wait == RetryAfter(Refilled(d)) * TicksPerSecond
        <3>1. Refilled(d) < Token
            BY <1>2, <2>3 DEF CheckRefuse
        <3>2. RetryAfter(Refilled(d)) \in Nat \ {0}
            BY <1>0, <3>1, RetryAfterType
        <3>3. wait >= 1 * TicksPerSecond /\ wait \in Nat
            BY <3>2, Products
        <3>4. Refilled(d) + wait * Refill >= Token
            BY <1>0, <3>1, RetryAfterIsEnough
        <3>5. retryAt'[d] = now + wait
            BY <2>2, <2>3
        <3> HIDE DEF wait
        <3>6. retryAt'[d] - now' = wait /\ retryAt'[d] > now'
            BY <1>0, <2>2, <3>3, <3>5
        <3> QED BY <2>1, <3>4, <3>6
    <2>4. CASE d # c
        BY <1>0, <2>1, <2>2, <2>4
    <2> QED BY <2>3, <2>4
<1>3. CASE CleanupWakes
    BY <1>0, <1>3, OtherLevel DEF CleanupWakes
<1>4. CASE CleanupSweeps
    BY <1>0, <1>4, SweepLevel DEF CleanupSweeps
<1>5. CASE Tick
    <2>1. Refilled(d)' = Capped(Refilled(d) + Refill)
        BY <1>5, TickLevel
    <2>2. now' = now + 1 /\ retryAt' = retryAt
        BY <1>5 DEF Tick
    <2>3. CASE retryAt[d] = 0 \/ Refilled(d) >= Token
        BY <1>0, <2>1, <2>2, <2>3 DEF Capped
    <2>4. CASE /\ retryAt[d] > now
               /\ Refilled(d) + (retryAt[d] - now) * Refill >= Token
        <3> DEFINE left == retryAt[d] - now - 1
        <3>1. left \in Nat /\ retryAt[d] - now = left + 1
            BY <1>0, <2>4
        <3>2. (left + 1) * Refill = left * Refill + Refill /\ left * Refill \in Nat
            BY <3>1, Products
        <3>3. Refilled(d) + Refill + left * Refill >= Token
            <4> HIDE DEF left
            <4> QED BY <1>0, <2>4, <3>1, <3>2
        <3>4. retryAt'[d] - now' = left /\ (left = 0 \/ retryAt'[d] > now')
            BY <1>0, <2>2, <2>4
        <3>5. left = 0 => left * Refill = 0
            <4> HIDE DEF left
            <4> QED OBVIOUS
        <3> HIDE DEF left
        <3> QED BY <1>0, <2>1, <3>1, <3>2, <3>3, <3>4, <3>5 DEF Capped
    <2> QED BY <1>0, <2>3, <2>4
<1>6. CASE UNCHANGED vars
    BY <1>0, <1>6, OtherLevel DEF vars
<1> QED BY <1>1, <1>2, <1>3, <1>4, <1>5, <1>6 DEF Next

\* A client that waits as long as it was told is let through, at every rate
\* and every burst, with any number of early attempts and sweeps in between.
THEOREM RetryAfterIsHonoured == Spec => []RetryWorks
<1>1. Init => WaitingInv
    BY DEF Init, WaitingInv
<1>2. Inv /\ WaitingInv => RetryWorks
    BY LevelType DEF WaitingInv, RetryWorks, Inv, TypeOK
<1> QED BY <1>1, <1>2, InvInit, InvNext, WaitingNext, PTL DEF Spec
=============================================================================
