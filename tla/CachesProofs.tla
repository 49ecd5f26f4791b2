---------------------------- MODULE CachesProofs ----------------------------
(***************************************************************************)
(* Proofs about the services that keep a cache, and the audit log, for any *)
(* number of requests, keys, payment methods, settings and entries. What   *)
(* holds however requests overlap is proved of the service's own           *)
(* specification, what holds while writes do not overlap what they could   *)
(* confuse is proved of the composition, where `apart` says so.            *)
(***************************************************************************)
EXTENDS MCCaches, FiniteSetTheorems, WellFoundedInduction, TLAPS

-----------------------------------------------------------------------------
(* Google's keys.                                                          *)

WaitTask == [step: {"lock", "look", "fetch"}, kid: Kids]
ArriveTask == [step: {"arrive"}, kid: Kids, found: SUBSET Kids]

AcceptedAnswer == [says: {"accepted"}, kid: Kids, how: {"cache", "fetch", "old"}]
RefusedAnswer == [says: {"refused"}, kid: Kids, why: {"no key", "failed"}]
Answers == {Google!Nothing} \cup AcceptedAnswer \cup RefusedAnswer
RestTask == [step: {"idle"}, answer: Answers]

SignInTask == WaitTask \cup ArriveTask \cup RestTask

KeysTypes ==
    /\ Google!TypeOK
    /\ gTask \in [Workers -> SignInTask]
    /\ since \in [Kids -> 0..MaxAge]

\* What is kept is no older than its age says.
KeptInv == \A k \in keys : since[k] <= age

\* Who looks or fetches has the mutex; a key that was published all along is
\* published now and in the answer that arrives, and nothing in that answer
\* was withdrawn a tick ago. p stands for `published`, s for `since`, y for
\* `steady` and m for `mutex`.
SignInOK(t, w, p, s, y, m) ==
    /\ t.step \in {"look", "fetch", "arrive"} => m = w
    /\ t.step # "idle" /\ w \in y => t.kid \in p
    /\ t.step = "arrive" => /\ \A k \in t.found : s[k] = 0
                            /\ w \in y => t.kid \in t.found

SignInsInv ==
    \A w \in Workers : SignInOK(gTask[w], w, published, since, steady, mutex)

\* What is published now was published no tick ago.
PublishedInv == \A k \in published : since[k] = 0

KeysIInv == KeysTypes /\ PublishedInv /\ KeptInv /\ SignInsInv

\* A sign-in moves on; the mutex changes hands only if it was free or its own.
LEMMA SignInStep ==
    ASSUME KeysIInv, NEW w \in Workers, NEW t \in SignInTask,
           gTask' = [gTask EXCEPT ![w] = t],
           published' = published, since' = since,
           keys' \in SUBSET Kids, age' \in 0..MaxAge,
           \A k \in keys' : since[k] <= age',
           mutex' \in Workers \cup {Nobody},
           mutex' = mutex \/ mutex \in {w, Nobody},
           steady' \subseteq steady \cup {w},
           SignInOK(t, w, published, since, steady', mutex')
    PROVE  KeysIInv'
<1>1. gTask \in [Workers -> SignInTask]
    BY DEF KeysIInv, KeysTypes
<1>2. \A v \in Workers : gTask'[v] = IF v = w THEN t ELSE gTask[v]
    BY <1>1
<1>3. KeysTypes'
    <2>1. gTask' \in [Workers -> SignInTask]
        BY <1>1
    <2> QED BY <2>1 DEF KeysIInv, KeysTypes, Google!TypeOK
<1>4. KeptInv'
    BY DEF KeptInv
<1>5. SignInsInv'
    <2>1. ASSUME NEW v \in Workers, v # w
          PROVE  SignInOK(gTask[v], v, published, since, steady', mutex')
        <3>1. SignInOK(gTask[v], v, published, since, steady, mutex)
            BY DEF KeysIInv, SignInsInv
        <3>2. mutex = v => mutex' = v
            BY <2>1, CachesAssumption DEF Google!KeysAssumption
        <3>3. v \in steady' => v \in steady
            BY <2>1
        <3> QED BY <3>1, <3>2, <3>3 DEF SignInOK
    <2>2. \A v \in Workers :
              SignInOK(gTask'[v], v, published, since, steady', mutex')
        BY <1>2, <2>1
    <2> QED BY <2>2 DEF SignInsInv
<1>6. PublishedInv'
    BY DEF KeysIInv, PublishedInv
<1> QED BY <1>3, <1>4, <1>5, <1>6 DEF KeysIInv

LEMMA SignInOfStep ==
    ASSUME NEW t \in SignInTask
    PROVE  /\ t.step \in {"lock", "look", "fetch"} => t \in WaitTask
           /\ t.step = "arrive" => t \in ArriveTask
           /\ t.step = "idle" => t \in RestTask
BY DEF SignInTask, WaitTask, ArriveTask, RestTask

\* What an answered sign-in may say, as a property of one step.
Justified(w) ==
    (~Google!At(w, "idle") /\ Google!At(w, "idle")') =>
        LET a == gTask'[w].answer IN
        CASE a.says = "nothing"  -> TRUE
          [] a.says = "accepted" -> a.how = "old" \/ since[a.kid] < MaxAge
          [] a.says = "refused"  ->
                IF a.why = "failed" THEN a.kid \notin keys
                ELSE w \notin steady

\* Only w moves, and not to an answer.
LEMMA NoAnswer ==
    ASSUME KeysIInv, NEW w \in Workers, NEW t,
           gTask' = [gTask EXCEPT ![w] = t], t.step # "idle"
    PROVE  \A v \in Workers : Justified(v)
<1>1. \A v \in Workers : gTask'[v] = IF v = w THEN t ELSE gTask[v]
    BY DEF KeysIInv, KeysTypes
<1> QED BY <1>1 DEF Justified, Google!At

LEMMA AcceptStep ==
    ASSUME KeysIInv, NEW w \in Workers, NEW how \in {"cache", "fetch", "old"},
           gTask[w].step # "idle", Google!Accept(w, how),
           published' = published, since' = since, steady' = steady,
           keys' \in SUBSET Kids, age' \in 0..MaxAge,
           \A k \in keys' : since[k] <= age',
           Google!Unlock, mutex = w,
           how = "old" \/ since[gTask[w].kid] < MaxAge
    PROVE  KeysIInv' /\ \A v \in Workers : Justified(v)
<1> DEFINE a == [says |-> "accepted", kid |-> gTask[w].kid, how |-> how]
           t == [step |-> "idle", answer |-> a]
<1>1. gTask' = [gTask EXCEPT ![w] = t] /\ mutex' = Nobody
    BY DEF Google!Accept, Google!Goto, Google!Answered, Google!Unlock
<1>2. gTask[w].kid \in Kids
    <2>1. gTask[w] \in WaitTask \cup ArriveTask
        BY DEF KeysIInv, KeysTypes, SignInTask, RestTask
    <2> QED BY <2>1 DEF WaitTask, ArriveTask
<1>3. t \in SignInTask
    BY <1>2 DEF SignInTask, RestTask, Answers, AcceptedAnswer
<1>4. t.step = "idle" /\ t.answer = a
    OBVIOUS
<1>5. a.says = "accepted" /\ a.kid = gTask[w].kid /\ a.how = how
    OBVIOUS
<1> HIDE DEF t, a
<1>6. SignInOK(t, w, published, since, steady', mutex')
    BY <1>4 DEF SignInOK
<1>7. KeysIInv'
    <2>1. steady' \subseteq steady \cup {w}
        OBVIOUS
    <2> QED BY <1>1, <1>3, <1>6, <2>1, SignInStep
<1>8. \A v \in Workers : gTask'[v] = IF v = w THEN t ELSE gTask[v]
    BY <1>1 DEF KeysIInv, KeysTypes
<1>9. \A v \in Workers : Justified(v)
    BY <1>4, <1>5, <1>8 DEF Justified, Google!At
<1> QED BY <1>7, <1>9

LEMMA RefuseStep ==
    ASSUME KeysIInv, NEW w \in Workers, NEW why \in {"no key", "failed"},
           gTask[w].step # "idle", Google!Refuse(w, why),
           published' = published, since' = since, steady' = steady,
           keys' \in SUBSET Kids, age' \in 0..MaxAge,
           \A k \in keys' : since[k] <= age',
           Google!Unlock, mutex = w,
           IF why = "failed" THEN gTask[w].kid \notin keys ELSE w \notin steady
    PROVE  KeysIInv' /\ \A v \in Workers : Justified(v)
<1> DEFINE a == [says |-> "refused", kid |-> gTask[w].kid, why |-> why]
           t == [step |-> "idle", answer |-> a]
<1>1. gTask' = [gTask EXCEPT ![w] = t] /\ mutex' = Nobody
    BY DEF Google!Refuse, Google!Goto, Google!Answered, Google!Unlock
<1>2. gTask[w].kid \in Kids
    <2>1. gTask[w] \in WaitTask \cup ArriveTask
        BY DEF KeysIInv, KeysTypes, SignInTask, RestTask
    <2> QED BY <2>1 DEF WaitTask, ArriveTask
<1>3. t \in SignInTask
    BY <1>2 DEF SignInTask, RestTask, Answers, RefusedAnswer
<1>4. t.step = "idle" /\ t.answer = a
    OBVIOUS
<1>5. a.says = "refused" /\ a.kid = gTask[w].kid /\ a.why = why
    OBVIOUS
<1> HIDE DEF t, a
<1>6. SignInOK(t, w, published, since, steady', mutex')
    BY <1>4 DEF SignInOK
<1>7. KeysIInv'
    <2>1. steady' \subseteq steady \cup {w}
        OBVIOUS
    <2> QED BY <1>1, <1>3, <1>6, <2>1, SignInStep
<1>8. \A v \in Workers : gTask'[v] = IF v = w THEN t ELSE gTask[v]
    BY <1>1 DEF KeysIInv, KeysTypes
<1>9. \A v \in Workers : Justified(v)
    BY <1>4, <1>5, <1>8 DEF Justified, Google!At
<1> QED BY <1>7, <1>9

LEMMA KeysSignIn ==
    ASSUME KeysIInv, NEW w \in Workers, Google!SignIn(w)
    PROVE  KeysIInv' /\ \A v \in Workers : Justified(v)
<1> DEFINE t == gTask[w]
<1>1. /\ keys \in SUBSET Kids /\ age \in 0..MaxAge
      /\ mutex \in Workers \cup {Nobody}
      /\ \A k \in keys : since[k] <= age
      /\ t \in SignInTask
      /\ SignInOK(t, w, published, since, steady, mutex)
      /\ MaxAge \in Nat \ {0} /\ Nobody \notin Workers
    BY CachesAssumption
       DEF KeysIInv, KeysTypes, Google!TypeOK, KeptInv, SignInsInv,
           Google!KeysAssumption
<1>2. since \in [Kids -> 0..MaxAge] /\ published \in SUBSET Kids
    BY DEF KeysIInv, KeysTypes, Google!TypeOK
<1> USE DEF Google!Google
<1>3. CASE \E k \in Kids : Google!Begin(w, k)
    <2>1. PICK k \in Kids : Google!Begin(w, k)
        BY <1>3
    <2> DEFINE n == [step |-> "lock", kid |-> k]
    <2>2. /\ gTask' = [gTask EXCEPT ![w] = n]
          /\ steady' = IF k \in published THEN steady \cup {w} ELSE steady \ {w}
          /\ UNCHANGED <<published, since, keys, age, mutex>>
        BY <2>1 DEF Google!Begin, Google!Goto
    <2>3. n \in SignInTask /\ n.step = "lock" /\ n.kid = k
        BY DEF SignInTask, WaitTask
    <2> HIDE DEF n
    <2>4. SignInOK(n, w, published, since, steady', mutex')
        BY <2>2, <2>3 DEF SignInOK
    <2>5. KeysIInv'
        BY <1>1, <2>2, <2>3, <2>4, SignInStep
    <2> QED BY <2>2, <2>3, <2>5, NoAnswer
<1>4. CASE Google!Lock(w)
    <2> DEFINE n == [t EXCEPT !.step = "look"]
    <2>1. /\ t.step = "lock" /\ mutex = Nobody /\ mutex' = w
          /\ gTask' = [gTask EXCEPT ![w] = n]
          /\ UNCHANGED <<published, since, keys, age, steady>>
        BY <1>4 DEF Google!Lock, Google!Step, Google!Goto, Google!At
    <2>2. t \in WaitTask
        BY <1>1, <2>1, SignInOfStep
    <2>3. n \in SignInTask /\ n.step = "look" /\ n.kid = t.kid
        BY <2>2 DEF WaitTask, SignInTask
    <2> HIDE DEF n, t
    <2>4. SignInOK(n, w, published, since, steady', mutex')
        BY <1>1, <2>1, <2>3 DEF SignInOK
    <2>5. KeysIInv'
        BY <1>1, <2>1, <2>3, <2>4, SignInStep
    <2> QED BY <2>1, <2>3, <2>5, NoAnswer
<1>5. CASE Google!LookHit(w)
    <2>1. /\ t.step = "look" /\ Google!Fresh(t.kid)
          /\ Google!Accept(w, "cache") /\ Google!Unlock
          /\ UNCHANGED <<published, since, keys, age, steady>>
        BY <1>5 DEF Google!LookHit, Google!At
    <2>2. mutex = w
        BY <1>1, <2>1 DEF SignInOK
    <2>3. since[t.kid] < MaxAge
        <3>1. t.kid \in keys /\ age < MaxAge
            BY <2>1 DEF Google!Fresh
        <3>2. t.kid \in Kids /\ since[t.kid] <= age /\ since[t.kid] \in 0..MaxAge
            BY <1>1, <1>2, <3>1
        <3> HIDE DEF t
        <3> QED BY <1>1, <3>1, <3>2
    <2> QED BY <1>1, <2>1, <2>2, <2>3, AcceptStep
<1>6. CASE Google!LookMiss(w)
    <2> DEFINE n == [t EXCEPT !.step = "fetch"]
    <2>1. /\ t.step = "look"
          /\ gTask' = [gTask EXCEPT ![w] = n]
          /\ UNCHANGED <<published, since, keys, age, mutex, steady>>
        BY <1>6 DEF Google!LookMiss, Google!Step, Google!Goto, Google!At
    <2>2. t \in WaitTask
        BY <1>1, <2>1, SignInOfStep
    <2>3. n \in SignInTask /\ n.step = "fetch" /\ n.kid = t.kid
        BY <2>2 DEF WaitTask, SignInTask
    <2> HIDE DEF n, t
    <2>4. SignInOK(n, w, published, since, steady', mutex')
        BY <1>1, <2>1, <2>3 DEF SignInOK
    <2>5. KeysIInv'
        BY <1>1, <2>1, <2>3, <2>4, SignInStep
    <2> QED BY <2>1, <2>3, <2>5, NoAnswer
<1>7. CASE Google!Serve(w)
    <2> DEFINE n == [step |-> "arrive", kid |-> t.kid, found |-> published]
    <2>1. /\ t.step = "fetch"
          /\ gTask' = [gTask EXCEPT ![w] = n]
          /\ UNCHANGED <<published, since, keys, age, mutex, steady>>
        BY <1>7 DEF Google!Serve, Google!Goto, Google!At
    <2>2. t \in WaitTask
        BY <1>1, <2>1, SignInOfStep
    <2>3. n \in SignInTask
        BY <1>2, <2>2 DEF WaitTask, ArriveTask, SignInTask
    <2>4. n.step = "arrive" /\ n.kid = t.kid /\ n.found = published
        OBVIOUS
    <2> HIDE DEF n, t
    <2>5. \A k \in published : since[k] = 0
        BY DEF KeysIInv, PublishedInv
    <2>6. SignInOK(n, w, published, since, steady', mutex')
        BY <1>1, <2>1, <2>4, <2>5 DEF SignInOK
    <2>7. KeysIInv'
        BY <1>1, <2>1, <2>3, <2>6, SignInStep
    <2> QED BY <2>1, <2>4, <2>7, NoAnswer
<1>8. CASE Google!ServeErrorPage(w)
    <2> DEFINE n == [step |-> "arrive", kid |-> t.kid, found |-> {}]
    <2>1. /\ t.step = "fetch"
          /\ gTask' = [gTask EXCEPT ![w] = n]
          /\ steady' = steady \ {w}
          /\ UNCHANGED <<published, since, keys, age, mutex>>
        BY <1>8 DEF Google!ServeErrorPage, Google!Goto, Google!At
    <2>2. t \in WaitTask
        BY <1>1, <2>1, SignInOfStep
    <2>3. n \in SignInTask
        BY <2>2 DEF WaitTask, ArriveTask, SignInTask
    <2>4. n.step = "arrive" /\ n.kid = t.kid /\ n.found = {}
        OBVIOUS
    <2> HIDE DEF n, t
    <2>5. SignInOK(n, w, published, since, steady', mutex')
        BY <1>1, <2>1, <2>4 DEF SignInOK
    <2>6. KeysIInv'
        BY <1>1, <2>1, <2>3, <2>5, SignInStep
    <2> QED BY <2>1, <2>4, <2>6, NoAnswer
<1>9. CASE Google!Arrive(w)
    <2>1. /\ t.step = "arrive"
          /\ keys' = t.found /\ age' = 0
          /\ IF t.kid \in t.found THEN Google!Accept(w, "fetch")
             ELSE Google!Refuse(w, "no key")
          /\ Google!Unlock
          /\ UNCHANGED <<published, since, steady>>
        BY <1>9 DEF Google!Arrive, Google!At
    <2>2. t.found \in SUBSET Kids
        BY <1>1, <2>1, SignInOfStep DEF ArriveTask
    <2>3. mutex = w /\ (\A k \in t.found : since[k] = 0)
          /\ (w \in steady => t.kid \in t.found)
        BY <1>1, <2>1 DEF SignInOK
    <2>4. /\ keys' \in SUBSET Kids /\ age' \in 0..MaxAge
          /\ \A k \in keys' : since[k] <= age'
        <3>1. keys' \in SUBSET Kids
            BY <2>1, <2>2
        <3>2. 0 \in 0..MaxAge
            BY <1>1
        <3>3. \A k \in keys' : since[k] = 0
            BY <2>1, <2>3
        <3>4. age' = 0
            BY <2>1
        <3> QED BY <3>1, <3>2, <3>3, <3>4
    <2>5. CASE t.kid \in t.found
        <3>1. since[t.kid] < MaxAge
            BY <1>1, <2>3, <2>5
        <3> QED BY <2>1, <2>3, <2>4, <2>5, <3>1, AcceptStep
    <2>6. CASE t.kid \notin t.found
        BY <2>1, <2>3, <2>4, <2>6, RefuseStep
    <2> QED BY <2>5, <2>6
<1>10. CASE Google!FetchFails(w)
    <2>1. /\ t.step = "fetch"
          /\ IF t.kid \in keys THEN Google!Accept(w, "old")
             ELSE Google!Refuse(w, "failed")
          /\ Google!Unlock
          /\ UNCHANGED <<published, since, keys, age, steady>>
        BY <1>10 DEF Google!FetchFails, Google!At
    <2>2. mutex = w
        BY <1>1, <2>1 DEF SignInOK
    <2>3. CASE t.kid \in keys
        BY <1>1, <2>1, <2>2, <2>3, AcceptStep
    <2>4. CASE t.kid \notin keys
        BY <1>1, <2>1, <2>2, <2>4, RefuseStep
    <2> QED BY <2>3, <2>4
<1> QED BY <1>3, <1>4, <1>5, <1>6, <1>7, <1>8, <1>9, <1>10 DEF Google!SignIn

LEMMA KeysRotate ==
    ASSUME KeysIInv, NEW new \in SUBSET Kids, Google!Rotate(new)
    PROVE  KeysIInv'
<1>1. /\ published' = new
      /\ since' = [k \in Kids |-> IF k \in new THEN 0 ELSE since[k]]
      /\ steady' = {w \in steady : gTask[w].step # "idle" /\ gTask[w].kid \in new}
      /\ UNCHANGED <<keys, age, mutex, gTask>>
    BY DEF Google!Rotate, Google!At
<1>2. since \in [Kids -> 0..MaxAge] /\ MaxAge \in Nat \ {0} /\ age \in 0..MaxAge
    BY CachesAssumption DEF KeysIInv, KeysTypes, Google!TypeOK, Google!KeysAssumption
<1>3. \A k \in Kids : since'[k] \in 0..MaxAge /\ since'[k] <= since[k]
    BY <1>1, <1>2
<1>4. KeysTypes'
    <2>1. since' \in [Kids -> 0..MaxAge]
        BY <1>1, <1>2
    <2> QED BY <1>1, <2>1 DEF KeysIInv, KeysTypes, Google!TypeOK
<1>5. PublishedInv' /\ KeptInv'
    <2>1. PublishedInv'
        BY <1>1 DEF PublishedInv
    <2>2. keys \in SUBSET Kids /\ \A k \in keys : since[k] <= age
        BY DEF KeysIInv, KeysTypes, Google!TypeOK, KeptInv
    <2>3. \A k \in keys : since'[k] <= age
        BY <1>2, <1>3, <2>2
    <2> QED BY <1>1, <2>1, <2>3 DEF KeptInv
<1>6. SignInsInv'
    <2>1. ASSUME NEW w \in Workers
          PROVE  SignInOK(gTask[w], w, published', since', steady', mutex)
        <3>1. SignInOK(gTask[w], w, published, since, steady, mutex)
            BY DEF KeysIInv, SignInsInv
        <3>2. gTask[w].step = "arrive" => gTask[w].found \in SUBSET Kids
            BY SignInOfStep DEF KeysIInv, KeysTypes, ArriveTask
        <3>3. \A k \in Kids : since[k] = 0 => since'[k] = 0
            BY <1>1
        <3> QED BY <1>1, <3>1, <3>2, <3>3 DEF SignInOK
    <2> QED BY <1>1, <2>1 DEF SignInsInv
<1> QED BY <1>4, <1>5, <1>6 DEF KeysIInv

LEMMA KeysTick ==
    ASSUME KeysIInv, Google!Tick
    PROVE  KeysIInv'
<1>1. /\ \A w \in Workers : gTask[w].step # "arrive"
      /\ age' = IF age < MaxAge THEN age + 1 ELSE age
      /\ since' = [k \in Kids |-> IF k \in published THEN 0
                                  ELSE IF since[k] < MaxAge THEN since[k] + 1
                                  ELSE since[k]]
      /\ UNCHANGED <<published, keys, mutex, gTask, steady>>
    BY DEF Google!Tick, Google!At
<1>2. since \in [Kids -> 0..MaxAge] /\ MaxAge \in Nat \ {0} /\ age \in 0..MaxAge
    BY CachesAssumption DEF KeysIInv, KeysTypes, Google!TypeOK, Google!KeysAssumption
<1>3. \A k \in Kids :
          since'[k] = IF k \in published THEN 0
                      ELSE IF since[k] < MaxAge THEN since[k] + 1 ELSE since[k]
    BY <1>1
<1>4. \A k \in Kids : since[k] \in 0..MaxAge
    BY <1>2
<1>5. age' \in 0..MaxAge /\ \A k \in Kids : since'[k] \in 0..MaxAge
    BY <1>1, <1>2, <1>3, <1>4
<1>6. KeysTypes'
    <2>1. since' = [k \in Kids |-> since'[k]]
        BY <1>1
    <2>2. since' \in [Kids -> 0..MaxAge]
        BY <1>5, <2>1
    <2> QED BY <1>1, <1>5, <2>2 DEF KeysIInv, KeysTypes, Google!TypeOK
<1>7. PublishedInv'
    BY <1>1, <1>3 DEF KeysIInv, PublishedInv, KeysTypes, Google!TypeOK
<1>8. KeptInv'
    <2>1. ASSUME NEW k \in keys PROVE since'[k] <= age'
        <3>1. k \in Kids /\ since[k] <= age
            BY DEF KeysIInv, KeysTypes, Google!TypeOK, KeptInv
        <3>2. since[k] \in 0..MaxAge
            BY <1>4, <3>1
        <3> QED BY <1>1, <1>2, <1>3, <3>1, <3>2
    <2> QED BY <1>1, <2>1 DEF KeptInv
<1>9. SignInsInv'
    <2>1. ASSUME NEW w \in Workers
          PROVE  SignInOK(gTask[w], w, published, since', steady, mutex)
        <3>1. SignInOK(gTask[w], w, published, since, steady, mutex)
            BY DEF KeysIInv, SignInsInv
        <3> QED BY <1>1, <3>1 DEF SignInOK
    <2> QED BY <1>1, <2>1 DEF SignInsInv
<1> QED BY <1>6, <1>7, <1>8, <1>9 DEF KeysIInv

LEMMA KeysRestart ==
    ASSUME KeysIInv, Google!Restart
    PROVE  KeysIInv'
<1> DEFINE n == [step |-> "idle", answer |-> Google!Nothing]
<1>1. /\ keys' = {} /\ age' = MaxAge /\ mutex' = Nobody
      /\ gTask' = [w \in Workers |-> n]
      /\ UNCHANGED <<published, since, steady>>
    BY DEF Google!Restart, Google!Google, Google!Answered
<1>2. n \in SignInTask /\ n.step = "idle"
    BY DEF SignInTask, RestTask, Answers
<1> HIDE DEF n
<1>3. KeysTypes'
    <2>1. gTask' \in [Workers -> SignInTask]
        BY <1>1, <1>2
    <2>2. age' \in 0..MaxAge
        BY <1>1, CachesAssumption DEF Google!KeysAssumption
    <2> QED BY <1>1, <2>1, <2>2 DEF KeysIInv, KeysTypes, Google!TypeOK
<1>4. SignInsInv'
    <2>1. \A w \in Workers : gTask'[w].step = "idle"
        BY <1>1, <1>2
    <2> QED BY <2>1 DEF SignInsInv, SignInOK
<1>5. PublishedInv' /\ KeptInv'
    BY <1>1 DEF KeysIInv, PublishedInv, KeptInv
<1> QED BY <1>3, <1>4, <1>5 DEF KeysIInv

LEMMA KeysInit == Google!Init => KeysIInv
<1> SUFFICES ASSUME Google!Init PROVE KeysIInv
    OBVIOUS
<1> DEFINE n == [step |-> "idle", answer |-> Google!Nothing]
<1>1. /\ published \in SUBSET Kids
      /\ keys = {} /\ age = MaxAge /\ mutex = Nobody /\ steady = {}
      /\ gTask = [w \in Workers |-> n]
      /\ since = [k \in Kids |-> IF k \in published THEN 0 ELSE MaxAge]
    BY DEF Google!Init, Google!Answered
<1>2. n \in SignInTask /\ n.step = "idle"
    BY DEF SignInTask, RestTask, Answers
<1> HIDE DEF n
<1>3. KeysTypes
    <2>1. gTask \in [Workers -> SignInTask]
        BY <1>1, <1>2
    <2>2. 0 \in 0..MaxAge /\ MaxAge \in 0..MaxAge
        BY CachesAssumption DEF Google!KeysAssumption
    <2>3. since \in [Kids -> 0..MaxAge]
        BY <1>1, <2>2
    <2> QED BY <1>1, <2>1, <2>2, <2>3 DEF KeysTypes, Google!TypeOK
<1>4. SignInsInv
    <2>1. \A w \in Workers : gTask[w].step = "idle"
        BY <1>1, <1>2
    <2> QED BY <2>1 DEF SignInsInv, SignInOK
<1>5. PublishedInv /\ KeptInv
    BY <1>1 DEF PublishedInv, KeptInv
<1> QED BY <1>3, <1>4, <1>5 DEF KeysIInv

LEMMA KeysStep ==
    ASSUME KeysIInv, [Google!Next]_(Google!vars)
    PROVE  /\ KeysIInv'
           /\ Google!vars' = Google!vars \/ \A w \in Workers : Justified(w)
<1>1. ASSUME NEW w \in Workers, Google!SignIn(w)
      PROVE  KeysIInv' /\ \A v \in Workers : Justified(v)
    BY <1>1, KeysSignIn
<1>2. ASSUME NEW new \in SUBSET Kids, Google!Rotate(new)
      PROVE  KeysIInv' /\ \A v \in Workers : Justified(v)
    <2>1. gTask' = gTask
        BY <1>2 DEF Google!Rotate
    <2> QED BY <1>2, <2>1, KeysRotate DEF Justified, Google!At
<1>3. CASE Google!Tick
    <2>1. gTask' = gTask
        BY <1>3 DEF Google!Tick
    <2> QED BY <1>3, <2>1, KeysTick DEF Justified, Google!At
<1>4. CASE Google!Restart
    <2>1. \A w \in Workers : gTask'[w].answer.says = "nothing"
        BY <1>4 DEF Google!Restart, Google!Answered, Google!Nothing
    <2> QED BY <1>4, <2>1, KeysRestart DEF Justified
<1>5. CASE Google!vars' = Google!vars
    BY <1>5 DEF Google!vars, KeysIInv, KeysTypes, Google!TypeOK, PublishedInv,
                KeptInv, SignInsInv
<1> QED BY <1>1, <1>2, <1>3, <1>4, <1>5 DEF Google!Next

LEMMA KeysInductive == Google!Spec => []KeysIInv
BY KeysInit, KeysStep, PTL DEF Google!Spec

\* For any number of sign-ins one at a time looks for Google's keys or fetches
\* them, through restarts and failures (oauth_google.go, getKey).
THEOREM OneSignInFetches == Google!Spec => []KeysInv
<1>1. KeysIInv => KeysInv
    BY DEF KeysIInv, KeysTypes, SignInsInv, SignInOK, KeysInv, Google!KeysInv,
           Google!OneAtATime
<1> QED BY <1>1, KeysInductive, PTL

\* For any number of sign-ins, keys and rotations a key is accepted, without a
\* failed fetch, only if it was published less than keysMaxAge ago; a key that
\* is published all along is refused only for an answer of Google's that has
\* no keys, and a failed fetch refuses none that was fetched before
\* (oauth_google.go, getKey).
THEOREM KeysAreNeverStale == Google!Spec => KeysAreCurrent
<1>1. KeysIInv /\ [Google!Next]_(Google!vars)
        => [\A w \in Workers : Justified(w)]_(Google!vars)
    BY KeysStep
<1>2. Google!Spec => [][\A w \in Workers : Justified(w)]_(Google!vars)
    BY <1>1, KeysInductive, PTL DEF Google!Spec
<1> QED BY <1>2 DEF KeysAreCurrent, Google!KeysAreCurrent, Justified

-----------------------------------------------------------------------------
(* Payment methods.                                                        *)

UpdateTask == [step: {"demote", "save"}, method: Methods, patch: Row]
ClearTask == [step: {"clear"}]
FillTask == [step: {"fill"}, found: SUBSET Methods]
CheckoutTask == [step: {"gate", "order"}, method: Methods]

MethodsTask == {Idle} \cup UpdateTask \cup ClearTask \cup FillTask \cup CheckoutTask

MethodsTypes == TypeOK /\ task \in [Workers -> MethodsTask]

\* A checkout at the gate, or past it, has seen its method open; r stands for
\* `rows` and o for `open`.
CheckoutOK(t, w, r, o) ==
    /\ t.step = "gate" /\ r[t.method].enabled => w \in o
    /\ t.step = "order" => w \in o

CheckoutsInv == \A w \in Workers : CheckoutOK(task[w], w, rows, open)

MethodsIInv == MethodsTypes /\ CheckoutsInv

LEMMA MethodOfStep ==
    ASSUME NEW t \in MethodsTask
    PROVE  /\ t.step \in {"demote", "save"} => t \in UpdateTask
           /\ t.step = "fill" => t \in FillTask
           /\ t.step \in {"gate", "order"} => t \in CheckoutTask
BY DEF MethodsTask, Idle, UpdateTask, ClearTask, FillTask, CheckoutTask

Reasons == {"no reason", "turned off", "stopped"}

\* A step of w that leaves the table alone.
LEMMA MethodStep ==
    ASSUME MethodsIInv, NEW w \in Workers, NEW t \in MethodsTask, Goto(w, t),
           rows' = rows, cache' = NotCached \/ cache' \subseteq Methods,
           open' \in SUBSET Workers, open \ {w} \subseteq open',
           kept' \in BOOLEAN, without' \in Reasons,
           CheckoutOK(t, w, rows, open')
    PROVE  MethodsIInv'
<1>1. task \in [Workers -> MethodsTask] /\ task' = [task EXCEPT ![w] = t]
    BY DEF MethodsIInv, MethodsTypes, Goto
<1>2. \A v \in Workers : task'[v] = IF v = w THEN t ELSE task[v]
    BY <1>1
<1>3. MethodsTypes'
    <2>1. task' \in [Workers -> MethodsTask]
        BY <1>1
    <2> QED BY <2>1 DEF MethodsIInv, MethodsTypes, TypeOK, Reasons
<1>4. CheckoutsInv'
    <2>1. \A v \in Workers : v # w => CheckoutOK(task[v], v, rows, open')
        BY DEF MethodsIInv, CheckoutsInv, CheckoutOK
    <2>2. \A v \in Workers : CheckoutOK(task'[v], v, rows', open')
        BY <1>2, <2>1
    <2> QED BY <2>2 DEF CheckoutsInv
<1> QED BY <1>3, <1>4 DEF MethodsIInv

\* The other rows' flags are cleared.
LEMMA MethodsDemote ==
    ASSUME MethodsIInv, NEW w \in Workers, task[w].step = "demote",
           NEW n \in MethodsTask, Goto(w, n), n.step \notin {"gate", "order"},
           Demote(task[w].method), UNCHANGED <<cache, open, kept>>,
           without' \in Reasons
    PROVE  MethodsIInv'
<1>1. /\ task \in [Workers -> MethodsTask] /\ task' = [task EXCEPT ![w] = n]
      /\ rows \in [Methods -> Row]
      /\ rows' = [m \in Methods |->
                    IF m = task[w].method THEN rows[m]
                    ELSE [rows[m] EXCEPT !.primary = FALSE]]
    BY DEF MethodsIInv, MethodsTypes, TypeOK, Goto, Demote
<1>2. \A m \in Methods : rows'[m] \in Row /\ rows'[m].enabled = rows[m].enabled
    BY <1>1 DEF Row
<1>3. rows' \in [Methods -> Row]
    <2>1. rows' = [m \in Methods |-> rows'[m]]
        BY <1>1
    <2> QED BY <1>2, <2>1
<1>4. \A v \in Workers : task'[v] = IF v = w THEN n ELSE task[v]
    BY <1>1
<1>5. MethodsTypes'
    <2>1. task' \in [Workers -> MethodsTask]
        BY <1>1
    <2> QED BY <1>3, <2>1 DEF MethodsIInv, MethodsTypes, TypeOK, Reasons
<1>6. ASSUME NEW v \in Workers PROVE CheckoutOK(task'[v], v, rows', open)
    <2>1. CASE v = w
        BY <1>4, <2>1 DEF CheckoutOK
    <2>2. CASE v # w
        <3>1. task'[v] = task[v] /\ CheckoutOK(task[v], v, rows, open)
            BY <1>4, <2>2 DEF MethodsIInv, CheckoutsInv
        <3>2. task[v].step = "gate" => task[v].method \in Methods
            BY <1>1, MethodOfStep DEF CheckoutTask
        <3> QED BY <3>1, <3>2, <1>2 DEF CheckoutOK
    <2> QED BY <2>1, <2>2
<1> QED BY <1>5, <1>6 DEF MethodsIInv, CheckoutsInv

\* The row is saved.
LEMMA MethodsStore ==
    ASSUME MethodsIInv, NEW w \in Workers, task[w].step = "save",
           NEW n \in MethodsTask, Goto(w, n), n.step \notin {"gate", "order"},
           Store(task[w].method, task[w].patch), UNCHANGED cache,
           kept' \in BOOLEAN
    PROVE  MethodsIInv'
<1> DEFINE m == task[w].method
           patch == task[w].patch
<1>1. /\ task \in [Workers -> MethodsTask] /\ task' = [task EXCEPT ![w] = n]
      /\ rows \in [Methods -> Row] /\ rows' = [rows EXCEPT ![m] = patch]
      /\ open \in SUBSET Workers
      /\ open' = open \cup {v \in Workers : /\ task[v].step = "gate"
                                            /\ task[v].method = m
                                            /\ patch.enabled}
    BY DEF MethodsIInv, MethodsTypes, TypeOK, Goto, Store, At
<1>2. m \in Methods /\ patch \in Row
    BY <1>1, MethodOfStep DEF UpdateTask
<1>3. without' \in Reasons
    <2>1. without \in Reasons
        BY DEF MethodsIInv, MethodsTypes, TypeOK, Reasons
    <2> QED BY <2>1 DEF Store, Reasons
<1> HIDE DEF m, patch
<1>4. \A v \in Workers : task'[v] = IF v = w THEN n ELSE task[v]
    BY <1>1
<1>5. MethodsTypes'
    <2>1. task' \in [Workers -> MethodsTask]
        BY <1>1
    <2>2. rows' \in [Methods -> Row]
        BY <1>1, <1>2
    <2> QED BY <1>1, <1>3, <2>1, <2>2 DEF MethodsIInv, MethodsTypes, TypeOK, Reasons
<1>6. ASSUME NEW v \in Workers PROVE CheckoutOK(task'[v], v, rows', open')
    <2>1. CASE v = w
        BY <1>4, <2>1 DEF CheckoutOK
    <2>2. CASE v # w
        <3>1. task'[v] = task[v] /\ CheckoutOK(task[v], v, rows, open)
            BY <1>4, <2>2 DEF MethodsIInv, CheckoutsInv
        <3>2. task[v].step = "gate" => task[v].method \in Methods
            BY <1>1, MethodOfStep DEF CheckoutTask
        <3>3. \A x \in Methods : rows'[x] = IF x = m THEN patch ELSE rows[x]
            BY <1>1
        <3> QED BY <3>1, <3>2, <3>3, <1>1 DEF CheckoutOK
    <2> QED BY <2>1, <2>2
<1> QED BY <1>5, <1>6 DEF MethodsIInv, CheckoutsInv

LEMMA MethodsUpdate ==
    ASSUME MethodsIInv, NEW w \in Workers, Update(w)
    PROVE  MethodsIInv'
<1> DEFINE t == task[w]
<1>1. /\ t \in MethodsTask /\ task \in [Workers -> MethodsTask]
      /\ rows \in [Methods -> Row]
      /\ cache = NotCached \/ cache \subseteq Methods
      /\ open \in SUBSET Workers /\ kept \in BOOLEAN /\ without \in Reasons
    BY DEF MethodsIInv, MethodsTypes, TypeOK, Reasons
<1>2. ASSUME NEW m \in Methods, NEW patch \in Row, UpdateRead(w, m, patch)
      PROVE  MethodsIInv'
    <2> DEFINE n == [step |-> IF patch.primary THEN "demote" ELSE "save",
                     method |-> m, patch |-> patch]
    <2>1. Goto(w, n) /\ UNCHANGED <<rows, cache, open, kept, without>>
        BY <1>2 DEF UpdateRead, history
    <2>2. n \in MethodsTask /\ n.step \in {"demote", "save"}
        BY DEF MethodsTask, UpdateTask
    <2> HIDE DEF n
    <2>3. CheckoutOK(n, w, rows, open')
        BY <2>2 DEF CheckoutOK
    <2> QED BY <1>1, <2>1, <2>2, <2>3, MethodStep
<1>3. CASE ClearPrimary(w)
    <2> DEFINE n == [t EXCEPT !.step = "save"]
    <2>1. t.step = "demote" /\ Goto(w, n) /\ Demote(t.method)
          /\ UNCHANGED <<cache, open, kept, without>>
        BY <1>3 DEF ClearPrimary, At, history
    <2>2. t \in UpdateTask
        BY <1>1, <2>1, MethodOfStep
    <2>3. n \in MethodsTask /\ n.step = "save"
        BY <2>2 DEF UpdateTask, MethodsTask
    <2> HIDE DEF n
    <2> QED BY <1>1, <2>1, <2>3, MethodsDemote
<1>4. CASE SaveRow(w)
    <2> DEFINE n == [step |-> "clear"]
    <2>1. t.step = "save" /\ Goto(w, n) /\ Store(t.method, t.patch)
          /\ UNCHANGED <<cache, kept>>
        BY <1>4 DEF SaveRow, At
    <2>2. n \in MethodsTask /\ n.step = "clear"
        BY DEF ClearTask, MethodsTask
    <2> HIDE DEF n
    <2> QED BY <1>1, <2>1, <2>2, MethodsStore
<1>5. Idle \in MethodsTask /\ CheckoutOK(Idle, w, rows, open) /\ Idle.step = "idle"
    BY DEF MethodsTask, Idle, CheckoutOK
<1>6. CASE ClearCache(w)
    BY <1>1, <1>5, <1>6, MethodStep DEF ClearCache, Finish
<1>7. CASE DemoteFail(w)
    <2>1. t.step = "demote" /\ Goto(w, Idle) /\ UNCHANGED <<cache, open, kept>>
        BY <1>7 DEF DemoteFail, At, Finish
    <2>2. CASE UNCHANGED <<rows, without>>
        BY <1>1, <1>5, <2>1, <2>2, MethodStep
    <2>3. CASE Demote(t.method) /\ without' = "stopped"
        BY <1>5, <2>1, <2>3, MethodsDemote DEF Reasons
    <2> QED BY <1>7, <2>2, <2>3 DEF DemoteFail
<1>8. CASE SaveFail(w)
    <2>1. t.step = "save" /\ Goto(w, Idle) /\ UNCHANGED cache
        BY <1>8 DEF SaveFail, At, Finish
    <2>2. CASE Store(t.method, t.patch) /\ kept' = (cache # NotCached)
        <3>1. kept' \in BOOLEAN
            BY <2>2, Zenon
        <3> QED BY <1>5, <2>1, <2>2, <3>1, MethodsStore
    <2>3. CASE /\ without' = IF t.patch.primary THEN "stopped" ELSE without
               /\ UNCHANGED <<rows, open, kept>>
        <3>1. without' \in Reasons
            BY <1>1, <2>3 DEF Reasons
        <3> QED BY <1>1, <1>5, <2>1, <2>3, <3>1, MethodStep
    <2> QED BY <1>8, <2>2, <2>3 DEF SaveFail
<1> QED BY <1>2, <1>3, <1>4, <1>6, <1>7, <1>8 DEF Update

LEMMA MethodsRead ==
    ASSUME MethodsIInv, NEW w \in Workers, ListRead(w) \/ ListFill(w) \/ Checkout(w)
    PROVE  MethodsIInv'
<1> DEFINE t == task[w]
<1>1. /\ t \in MethodsTask /\ task \in [Workers -> MethodsTask]
      /\ rows \in [Methods -> Row]
      /\ cache = NotCached \/ cache \subseteq Methods
      /\ open \in SUBSET Workers /\ kept \in BOOLEAN /\ without \in Reasons
      /\ CheckoutOK(t, w, rows, open)
    BY DEF MethodsIInv, MethodsTypes, TypeOK, CheckoutsInv, Reasons
<1>2. Idle \in MethodsTask /\ CheckoutOK(Idle, w, rows, open)
    BY DEF MethodsTask, Idle, CheckoutOK
<1>3. CASE ListRead(w)
    <2> DEFINE n == [step |-> "fill", found |-> Enabled]
    <2>1. Goto(w, n) /\ UNCHANGED <<rows, cache, open, kept, without>>
        BY <1>3 DEF ListRead, history
    <2>2. n \in MethodsTask /\ n.step = "fill"
        BY DEF MethodsTask, FillTask, Enabled
    <2> HIDE DEF n
    <2>3. CheckoutOK(n, w, rows, open')
        BY <2>2 DEF CheckoutOK
    <2> QED BY <1>1, <2>1, <2>2, <2>3, MethodStep
<1>4. CASE ListFill(w)
    <2>1. t.step = "fill" /\ cache' = t.found /\ Goto(w, Idle)
          /\ UNCHANGED <<rows, open, kept, without>>
        BY <1>4 DEF ListFill, Finish, At, history
    <2>2. t.found \subseteq Methods
        BY <1>1, <2>1, MethodOfStep DEF FillTask
    <2> QED BY <1>1, <1>2, <2>1, <2>2, MethodStep
<1>5. ASSUME NEW m \in Methods, CheckoutBegins(w, m) PROVE MethodsIInv'
    <2> DEFINE n == [step |-> "gate", method |-> m]
    <2>1. /\ Goto(w, n) /\ UNCHANGED <<rows, cache, kept, without>>
          /\ open' = IF rows[m].enabled THEN open \cup {w} ELSE open \ {w}
        BY <1>5 DEF CheckoutBegins
    <2>2. n \in MethodsTask /\ n.step = "gate" /\ n.method = m
        BY DEF MethodsTask, CheckoutTask
    <2> HIDE DEF n
    <2>3. CheckoutOK(n, w, rows, open')
        BY <2>1, <2>2 DEF CheckoutOK
    <2> QED BY <1>1, <2>1, <2>2, <2>3, MethodStep
<1>6. CASE CheckoutGate(w)
    <2>1. t.step = "gate" /\ UNCHANGED <<rows, cache, open, kept, without>>
        BY <1>6 DEF CheckoutGate, At, history
    <2>2. CASE ~IsEnabled(t.method)
        BY <1>1, <1>2, <1>6, <2>1, <2>2, MethodStep DEF CheckoutGate, Finish
    <2>3. CASE IsEnabled(t.method)
        <3> DEFINE n == [t EXCEPT !.step = "order"]
        <3>1. Goto(w, n) /\ rows[t.method].enabled
            BY <1>6, <2>3 DEF CheckoutGate, IsEnabled
        <3>2. n \in MethodsTask /\ n.step = "order"
            BY <1>1, <2>1, MethodOfStep DEF MethodsTask, CheckoutTask
        <3> HIDE DEF n
        <3>3. CheckoutOK(n, w, rows, open')
            BY <1>1, <2>1, <3>1, <3>2 DEF CheckoutOK
        <3> QED BY <1>1, <2>1, <3>1, <3>2, <3>3, MethodStep
    <2> QED BY <2>2, <2>3
<1>7. CASE CheckoutEnds(w)
    BY <1>1, <1>2, <1>7, MethodStep DEF CheckoutEnds, Finish, history
<1> QED BY <1>3, <1>4, <1>5, <1>6, <1>7 DEF Checkout

LEMMA MethodsInit == Init => MethodsIInv
<1> SUFFICES ASSUME Init PROVE MethodsIInv
    OBVIOUS
<1>1. \A w \in Workers : task[w].step = "idle"
    BY DEF Init, Idle
<1>2. MethodsTypes
    BY DEF Init, MethodsTypes, TypeOK, MethodsTask
<1> QED BY <1>1, <1>2 DEF MethodsIInv, CheckoutsInv, CheckoutOK

LEMMA MethodsStep == MethodsIInv /\ [Next]_vars => MethodsIInv'
<1> SUFFICES ASSUME MethodsIInv, [Next]_vars PROVE MethodsIInv'
    OBVIOUS
<1>1. ASSUME NEW w \in Workers, Update(w) PROVE MethodsIInv'
    BY <1>1, MethodsUpdate
<1>2. ASSUME NEW w \in Workers, ListRead(w) \/ ListFill(w) \/ Checkout(w)
      PROVE  MethodsIInv'
    BY <1>2, MethodsRead
<1>3. CASE Expire
    BY <1>3 DEF Expire, MethodsIInv, MethodsTypes, TypeOK, CheckoutsInv
<1>4. CASE Crash
    <2>1. \A w \in Workers : task'[w] = Idle
        BY <1>4 DEF Crash
    <2>2. CheckoutsInv'
        BY <2>1 DEF CheckoutsInv, CheckoutOK, Idle
    <2>3. task' \in [Workers -> MethodsTask]
        BY <1>4 DEF Crash, MethodsTask
    <2>4. without' \in Reasons /\ kept' \in BOOLEAN
        BY <1>4 DEF Crash, Reasons, MethodsIInv, MethodsTypes, TypeOK
    <2> QED BY <1>4, <2>2, <2>3, <2>4 DEF Crash, MethodsIInv, MethodsTypes, TypeOK, Reasons
<1>5. CASE UNCHANGED vars
    BY <1>5 DEF vars, MethodsIInv, MethodsTypes, TypeOK, CheckoutsInv
<1> QED BY <1>1, <1>2, <1>3, <1>4, <1>5 DEF Next

\* However updates, fills of the cache and checkouts overlap, a checkout goes
\* on only with a method that was enabled while it ran
\* (payment_method_service.go, IsEnabled).
THEOREM CheckoutsAreOpen == Spec => []MethodsInv
<1>1. Init => MethodsIInv
    BY MethodsInit
<1>2. MethodsIInv /\ [Next]_vars => MethodsIInv'
    BY MethodsStep
<1>3. MethodsIInv => MethodsInv
    BY DEF MethodsIInv, MethodsTypes, CheckoutsInv, CheckoutOK, MethodsInv,
           OrderedWhileOpen, At
<1> QED BY <1>1, <1>2, <1>3, PTL DEF Spec

-----------------------------------------------------------------------------
(* Payment methods while updates do not overlap.                           *)

\* What an update and a fill of the cache may rely on; r stands for `rows`.
AloneOK(t, r) ==
    /\ t.step = "demote" => t.patch.primary
    /\ t.step = "save" /\ t.patch.primary =>
          \A m \in Methods : m # t.method => ~r[m].primary
    /\ t.step = "fill" => t.found = {m \in Methods : r[m].enabled}

\* The cached list is what the table says unless it is about to be cleared.
ListInv ==
    (\A w \in Workers : ~At(w, "clear")) => cache \in {NotCached, Enabled} \/ kept

AtMostOne == \A m, n \in Methods : rows[m].primary /\ rows[n].primary => m = n

\* There is a primary method or one is about to be saved; ts stands for `task`.
Saving(ts) == \E w \in Workers : ts[w].step = "save" /\ ts[w].patch.primary

RemainsInv == without = "no reason" => PrimaryRemains \/ Saving(task)

ApartInv ==
    /\ MethodsApart
    /\ AtMostOne
    /\ \A w \in Workers : AloneOK(task[w], rows)
    /\ ListInv
    /\ RemainsInv

MethodsApartIInv == MethodsIInv /\ (apart => ApartInv)

\* An update is the only one, and no fill is under way.
LEMMA OnlyUpdate ==
    ASSUME MethodsApart, NEW w \in Workers, task[w].step \in {"demote", "save", "clear"}
    PROVE  \A v \in Workers :
              v # w => task[v].step \notin {"demote", "save", "clear", "fill"}
<1>1. w \in UpdatingMethods
    BY DEF UpdatingMethods, Doing
<1>2. Cardinality(UpdatingMethods) = 1 /\ Doing(task, {"fill"}) = {}
    BY <1>1 DEF MethodsApart
<1>3. IsFiniteSet(UpdatingMethods)
    <2>1. IsFiniteSet(Workers)
        BY CachesAssumption DEF CachesAssumption, Shop!CatalogueAssumption, Shop!IsFiniteSet, IsFiniteSet
    <2>2. UpdatingMethods \in SUBSET Workers
        BY DEF UpdatingMethods, Doing
    <2> QED BY <2>1, <2>2, FS_Subset
<1>4. PICK x : UpdatingMethods = {x}
    BY <1>2, <1>3, FS_Singleton
<1> QED BY <1>1, <1>2, <1>4 DEF UpdatingMethods, Doing

\* The other rows' flags are cleared; the row is to be saved, or the update
\* stops.
LEMMA ApartDemote ==
    ASSUME MethodsIInv, ApartInv, MethodsApart', NEW w \in Workers,
           task[w].step = "demote", NEW n, Goto(w, n), Demote(task[w].method),
           UNCHANGED <<cache, kept>>,
           \/ n = Idle /\ without' = "stopped"
           \/ /\ n = [task[w] EXCEPT !.step = "save"] /\ UNCHANGED without
    PROVE  ApartInv'
<1>1. /\ task[w] \in UpdateTask /\ task[w].patch.primary
      /\ task \in [Workers -> MethodsTask] /\ rows \in [Methods -> Row]
    BY MethodOfStep DEF MethodsIInv, MethodsTypes, TypeOK, ApartInv, AloneOK
<1>2. /\ n.step \in {"idle", "save"}
      /\ n.step = "save" => n.method = task[w].method /\ n.patch.primary
      /\ without' = "no reason" => n.step = "save"
    <2>1. CASE n = Idle /\ without' = "stopped"
        BY <2>1 DEF Idle
    <2>2. CASE n = [task[w] EXCEPT !.step = "save"]
        BY <1>1, <2>2 DEF UpdateTask
    <2> QED BY <2>1, <2>2
<1>3. \A v \in Workers : task'[v] = IF v = w THEN n ELSE task[v]
    BY <1>1 DEF Goto
<1>4. \A m \in Methods : /\ rows'[m].enabled = rows[m].enabled
                         /\ m # task[w].method => ~rows'[m].primary
    BY <1>1 DEF Demote, Row
<1>5. \A v \in Workers : v # w => task[v].step \notin {"demote", "save", "clear", "fill"}
    BY OnlyUpdate DEF ApartInv
<1>6. AtMostOne'
    BY <1>4 DEF AtMostOne
<1>7. ASSUME NEW v \in Workers PROVE AloneOK(task'[v], rows')
    BY <1>2, <1>3, <1>4, <1>5 DEF AloneOK
<1>8. ListInv'
    <2>1. Enabled' = Enabled
        BY <1>4 DEF Enabled
    <2>2. \A v \in Workers : task[v].step # "clear"
        BY <1>5
    <2> QED BY <2>1, <2>2 DEF ApartInv, ListInv, At
<1>9. RemainsInv'
    BY <1>2, <1>3 DEF RemainsInv, Saving
<1> QED BY <1>6, <1>7, <1>8, <1>9 DEF ApartInv

\* The row is saved, and the cache is to be cleared unless the save was not
\* answered.
LEMMA ApartStore ==
    ASSUME MethodsIInv, ApartInv, MethodsApart', NEW w \in Workers,
           task[w].step = "save", NEW n, Goto(w, n),
           Store(task[w].method, task[w].patch), UNCHANGED cache,
           \/ n = [step |-> "clear"]
           \/ n = Idle /\ kept' = (cache # NotCached)
    PROVE  ApartInv'
<1> DEFINE m == task[w].method
           patch == task[w].patch
<1>1. /\ task \in [Workers -> MethodsTask] /\ rows \in [Methods -> Row]
      /\ rows' = [rows EXCEPT ![m] = patch]
      /\ without' = IF patch.primary THEN "no reason"
                    ELSE IF rows[m].primary THEN "turned off" ELSE without
    BY DEF MethodsIInv, MethodsTypes, TypeOK, Store
<1>2. m \in Methods /\ patch \in Row
    <2>1. task[w] \in MethodsTask
        BY <1>1
    <2>2. task[w] \in UpdateTask
        BY <2>1, MethodOfStep
    <2> QED BY <2>2 DEF UpdateTask
<1>3. patch.primary => \A x \in Methods : x # m => ~rows[x].primary
    BY DEF ApartInv, AloneOK
<1>4. \A v \in Workers : v # w => task[v].step \notin {"demote", "save", "clear", "fill"}
    BY OnlyUpdate DEF ApartInv
<1>5. n.step \in {"idle", "clear"} /\ (n.step # "clear" => kept' = (cache # NotCached))
    BY DEF Idle
<1>6. AtMostOne /\ RemainsInv
    BY DEF ApartInv
<1>7. Saving(task) => patch.primary
    BY <1>4 DEF Saving
<1> HIDE DEF m, patch
<1>8. \A v \in Workers : task'[v] = IF v = w THEN n ELSE task[v]
    BY <1>1 DEF Goto
<1>9. \A x \in Methods : rows'[x] = IF x = m THEN patch ELSE rows[x]
    BY <1>1
<1>10. AtMostOne'
    BY <1>2, <1>3, <1>6, <1>9 DEF AtMostOne
<1>11. ASSUME NEW v \in Workers PROVE AloneOK(task'[v], rows')
    BY <1>4, <1>5, <1>8 DEF AloneOK
<1>12. ListInv'
    <2>1. CASE n.step = "clear"
        BY <1>8, <2>1 DEF ListInv, At
    <2>2. CASE n.step # "clear"
        <3>1. cache' = NotCached \/ kept'
            BY <1>5, <2>2
        <3> QED BY <3>1 DEF ListInv
    <2> QED BY <2>1, <2>2
<1>13. RemainsInv'
    <2>1. SUFFICES ASSUME without' = "no reason" PROVE PrimaryRemains'
        BY DEF RemainsInv
    <2>2. CASE patch.primary
        BY <1>2, <1>9, <2>2 DEF PrimaryRemains
    <2>3. CASE ~patch.primary
        <3>1. ~rows[m].primary /\ without = "no reason"
            BY <1>1, <2>1, <2>3
        <3>2. PrimaryRemains
            BY <1>6, <1>7, <2>3, <3>1 DEF RemainsInv
        <3>3. PICK x \in Methods : rows[x].primary
            BY <3>2 DEF PrimaryRemains
        <3> QED BY <1>9, <3>1, <3>3 DEF PrimaryRemains
    <2> QED BY <2>2, <2>3
<1> QED BY <1>10, <1>11, <1>12, <1>13 DEF ApartInv

\* A step that leaves the table alone.
LEMMA ApartStep ==
    ASSUME MethodsIInv, ApartInv, MethodsApart', NEW w \in Workers, NEW t, Goto(w, t),
           rows' = rows, t.step # "clear", AloneOK(t, rows),
           without' \in {without, "stopped"},
           task[w].step = "save" /\ task[w].patch.primary => without' = "stopped",
           \/ cache' = cache /\ kept' = kept /\ task[w].step # "clear"
           \/ cache' \in {NotCached, Enabled}
    PROVE  ApartInv'
<1>1. task' = [task EXCEPT ![w] = t] /\ task \in [Workers -> MethodsTask]
    BY DEF Goto, MethodsIInv, MethodsTypes
<1>2. \A v \in Workers : task'[v] = IF v = w THEN t ELSE task[v]
    BY <1>1
<1>3. \A v \in Workers : AloneOK(task'[v], rows')
    BY <1>2 DEF ApartInv
<1>4. ListInv'
    <2>1. Enabled' = Enabled
        BY DEF Enabled
    <2>2. CASE cache' = cache /\ kept' = kept /\ task[w].step # "clear"
        <3>1. (\A v \in Workers : task'[v].step # "clear")
                 => \A v \in Workers : task[v].step # "clear"
            BY <1>2, <2>2
        <3> QED BY <2>1, <2>2, <3>1 DEF ApartInv, ListInv, At
    <2>3. CASE cache' \in {NotCached, Enabled}
        BY <2>1, <2>3 DEF ListInv
    <2> QED BY <2>2, <2>3
<1>5. RemainsInv'
    <2>1. SUFFICES ASSUME without' = "no reason", ~PrimaryRemains PROVE Saving(task')
        BY DEF RemainsInv, PrimaryRemains
    <2>2. Saving(task)
        BY <2>1 DEF ApartInv, RemainsInv
    <2>3. PICK v \in Workers : task[v].step = "save" /\ task[v].patch.primary
        BY <2>2 DEF Saving
    <2>4. v # w
        BY <2>1, <2>3
    <2> QED BY <1>2, <2>3, <2>4 DEF Saving
<1> QED BY <1>3, <1>4, <1>5 DEF ApartInv, AtMostOne

LEMMA ApartUpdate ==
    ASSUME MethodsIInv, ApartInv, MethodsApart', NEW w \in Workers, Update(w)
    PROVE  ApartInv'
<1> DEFINE t == task[w]
<1>1. AloneOK(Idle, rows) /\ Idle.step = "idle"
    BY DEF Idle, AloneOK
<1>2. ASSUME NEW m \in Methods, NEW patch \in Row, UpdateRead(w, m, patch)
      PROVE  ApartInv'
    <2> DEFINE n == [step |-> IF patch.primary THEN "demote" ELSE "save",
                     method |-> m, patch |-> patch]
    <2>1. Goto(w, n) /\ UNCHANGED <<rows, cache, kept, without>> /\ t.step = "idle"
        BY <1>2 DEF UpdateRead, At, history
    <2>2. /\ n.step \in {"demote", "save"}
          /\ n.step = "save" => ~n.patch.primary
          /\ n.step = "demote" => n.patch.primary
        OBVIOUS
    <2> HIDE DEF n
    <2>3. AloneOK(n, rows)
        BY <2>2 DEF AloneOK
    <2> QED BY <2>1, <2>2, <2>3, ApartStep
<1>3. CASE ClearPrimary(w)
    BY <1>3, ApartDemote DEF ClearPrimary, At, history
<1>4. CASE SaveRow(w)
    BY <1>4, ApartStore DEF SaveRow, At
<1>5. CASE ClearCache(w)
    BY <1>1, <1>5, ApartStep DEF ClearCache, Finish, At
<1>6. CASE DemoteFail(w)
    <2>1. t.step = "demote" /\ Goto(w, Idle) /\ UNCHANGED <<cache, kept>>
        BY <1>6 DEF DemoteFail, At, Finish
    <2>2. CASE UNCHANGED <<rows, without>>
        BY <1>1, <2>1, <2>2, ApartStep
    <2>3. CASE Demote(t.method) /\ without' = "stopped"
        BY <2>1, <2>3, ApartDemote
    <2> QED BY <1>6, <2>2, <2>3 DEF DemoteFail
<1>7. CASE SaveFail(w)
    <2>1. t.step = "save" /\ Goto(w, Idle) /\ UNCHANGED cache
        BY <1>7 DEF SaveFail, At, Finish
    <2>2. CASE Store(t.method, t.patch) /\ kept' = (cache # NotCached)
        BY <2>1, <2>2, ApartStore
    <2>3. CASE /\ without' = IF t.patch.primary THEN "stopped" ELSE without
               /\ UNCHANGED <<rows, open, kept>>
        BY <1>1, <2>1, <2>3, ApartStep
    <2> QED BY <1>7, <2>2, <2>3 DEF SaveFail
<1> QED BY <1>2, <1>3, <1>4, <1>5, <1>6, <1>7 DEF Update

LEMMA ApartRead ==
    ASSUME MethodsIInv, ApartInv, MethodsApart', NEW w \in Workers,
           ListRead(w) \/ ListFill(w) \/ Checkout(w)
    PROVE  ApartInv'
<1> DEFINE t == task[w]
<1>1. t \in MethodsTask /\ AloneOK(t, rows)
    BY DEF MethodsIInv, MethodsTypes, ApartInv
<1>2. AloneOK(Idle, rows) /\ Idle.step = "idle"
    BY DEF Idle, AloneOK
<1>3. CASE ListRead(w)
    <2> DEFINE n == [step |-> "fill", found |-> Enabled]
    <2>1. Goto(w, n) /\ UNCHANGED <<rows, cache, kept, without>> /\ t.step = "idle"
        BY <1>3 DEF ListRead, At, history
    <2>2. n.step = "fill" /\ n.found = Enabled
        OBVIOUS
    <2> HIDE DEF n
    <2>3. AloneOK(n, rows)
        BY <2>2 DEF AloneOK, Enabled
    <2> QED BY <2>1, <2>2, <2>3, ApartStep
<1>4. CASE ListFill(w)
    <2>1. t.step = "fill" /\ cache' = t.found /\ Goto(w, Idle) /\ UNCHANGED <<rows, without>>
        BY <1>4 DEF ListFill, Finish, At, history
    <2>2. t.found = Enabled
        BY <1>1, <2>1 DEF AloneOK, Enabled
    <2> QED BY <1>2, <2>1, <2>2, ApartStep
<1>5. ASSUME NEW m \in Methods, CheckoutBegins(w, m) PROVE ApartInv'
    <2> DEFINE n == [step |-> "gate", method |-> m]
    <2>1. Goto(w, n) /\ UNCHANGED <<rows, cache, kept, without>> /\ t.step = "idle"
        BY <1>5 DEF CheckoutBegins, At
    <2>2. n.step = "gate"
        OBVIOUS
    <2> HIDE DEF n
    <2>3. AloneOK(n, rows)
        BY <2>2 DEF AloneOK
    <2> QED BY <2>1, <2>2, <2>3, ApartStep
<1>6. CASE CheckoutGate(w)
    <2>1. t.step = "gate" /\ UNCHANGED <<rows, cache, kept, without>>
        BY <1>6 DEF CheckoutGate, At, history
    <2>2. CASE ~IsEnabled(t.method)
        BY <1>2, <1>6, <2>1, <2>2, ApartStep DEF CheckoutGate, Finish
    <2>3. CASE IsEnabled(t.method)
        <3> DEFINE n == [t EXCEPT !.step = "order"]
        <3>1. Goto(w, n)
            BY <1>6, <2>3 DEF CheckoutGate
        <3>2. n.step = "order"
            BY <1>1, <2>1, MethodOfStep DEF CheckoutTask
        <3> HIDE DEF n
        <3>3. AloneOK(n, rows)
            BY <3>2 DEF AloneOK
        <3> QED BY <2>1, <3>1, <3>2, <3>3, ApartStep
    <2> QED BY <2>2, <2>3
<1>7. CASE CheckoutEnds(w)
    <2>1. t.step = "order" /\ UNCHANGED <<rows, cache, kept, without>> /\ Goto(w, Idle)
        BY <1>7 DEF CheckoutEnds, Finish, At, history
    <2> QED BY <1>2, <2>1, ApartStep
<1> QED BY <1>3, <1>4, <1>5, <1>6, <1>7 DEF Checkout

LEMMA MethodsApartInit == RegimeInit => MethodsApartIInv
<1> SUFFICES ASSUME RegimeInit PROVE MethodsApartIInv
    OBVIOUS
<1>1. Init
    BY DEF RegimeInit
<1>2. \A w \in Workers : task[w].step = "idle"
    BY <1>1 DEF Init, Idle
<1>3. MethodsApart
    BY <1>2 DEF MethodsApart, UpdatingMethods, Doing
<1>4. AtMostOne /\ PrimaryRemains
    BY <1>1, MethodsAssumption DEF Init, AtMostOne, PrimaryRemains
<1>5. ListInv /\ \A w \in Workers : AloneOK(task[w], rows)
    BY <1>1, <1>2 DEF Init, ListInv, AloneOK
<1> QED BY <1>1, <1>3, <1>4, <1>5, MethodsInit DEF MethodsApartIInv, ApartInv, RemainsInv

LEMMA MethodsApartStep ==
    MethodsApartIInv /\ [RegimeNext]_mcvars => MethodsApartIInv'
<1> SUFFICES ASSUME MethodsApartIInv, [RegimeNext]_mcvars PROVE MethodsApartIInv'
    OBVIOUS
<1>1. apart' = apart /\ (MethodsNext \/ UNCHANGED vars)
    BY DEF RegimeNext, PartMoves, mcvars
<1>2. MethodsIInv'
    BY <1>1, MethodsStep DEF MethodsApartIInv, MethodsNext
<1>3. ASSUME apart PROVE ApartInv'
    <2>1. ApartInv /\ MethodsIInv
        BY <1>3 DEF MethodsApartIInv
    <2>2. CASE MethodsNext
        <3>1. Next /\ MethodsApart'
            BY <1>3, <2>2 DEF MethodsNext
        <3>2. ASSUME NEW w \in Workers, Update(w) PROVE ApartInv'
            BY <2>1, <3>1, <3>2, ApartUpdate
        <3>3. ASSUME NEW w \in Workers, ListRead(w) \/ ListFill(w) \/ Checkout(w)
              PROVE  ApartInv'
            BY <2>1, <3>1, <3>3, ApartRead
        <3>4. CASE Expire
            BY <2>1, <3>1, <3>4
               DEF Expire, ApartInv, AtMostOne, ListInv, RemainsInv, Saving, PrimaryRemains
        <3>5. CASE Crash
            <4>1. \A w \in Workers : task'[w] = Idle
                BY <3>5 DEF Crash
            <4>2. \A w \in Workers : AloneOK(task'[w], rows')
                BY <4>1 DEF AloneOK, Idle
            <4>3. AtMostOne' /\ ListInv'
                BY <2>1, <3>5 DEF Crash, ApartInv, AtMostOne, ListInv
            <4>4. RemainsInv'
                BY <2>1, <3>5 DEF Crash, ApartInv, RemainsInv, Saving, PrimaryRemains, At
            <4> QED BY <3>1, <4>2, <4>3, <4>4 DEF ApartInv
        <3> QED BY <3>1, <3>2, <3>3, <3>4, <3>5 DEF Next
    <2>3. CASE UNCHANGED vars
        BY <2>1, <2>3 DEF vars, ApartInv, MethodsApart, UpdatingMethods, Doing,
                          AtMostOne, ListInv, At, Enabled, RemainsInv, Saving, PrimaryRemains
    <2> QED BY <1>1, <2>2, <2>3
<1> QED BY <1>1, <1>2, <1>3 DEF MethodsApartIInv

\* While updates do not overlap, and readers are not filling the cache across
\* one, there are never two primary methods, even when an update stops
\* half-way, and there is one unless it was turned off or the last update that
\* turned one on stopped; the cached list is what the table says when no update
\* is under way, unless the last save was not answered
\* (payment_method_service.go, Update, ListEnabled).
THEOREM MethodsAgree == RegimeSpec => []MethodsAgreeApart
<1>1. MethodsApartIInv => MethodsAgreeApart
    <2> SUFFICES ASSUME MethodsApartIInv, apart PROVE OnePrimary /\ ListIsCurrent
        BY DEF MethodsAgreeApart, OnePrimaryApart, ListIsCurrentApart
    <2>1. ApartInv
        BY DEF MethodsApartIInv
    <2>2. OnePrimary
        BY <2>1 DEF ApartInv, AtMostOne, RemainsInv, Saving, OnePrimary, Updating
    <2>3. ListIsCurrent
        BY <2>1 DEF ApartInv, ListInv, ListIsCurrent, Updating, At
    <2> QED BY <2>2, <2>3
<1> QED BY <1>1, MethodsApartInit, MethodsApartStep, PTL DEF RegimeSpec

-----------------------------------------------------------------------------
(* Settings: the row and its cache are one register.                       *)

SettingTask == [step: {"fill", "save", "cache"}, value: Values]

SettingsTypes ==
    /\ Settings!TypeOK
    /\ sTask \in [Workers -> {Settings!Idle} \cup SettingTask]

\* What a request may show or has put into the table was saved; s stands for
\* `stored`.
SavedOK(t, s) == t.step \in {"fill", "cache"} => t.value \in s

SavedInv ==
    /\ row \in stored
    /\ sCache \in stored \cup {NotCached}
    /\ \A w \in Workers : SavedOK(sTask[w], stored)

\* While nothing overlaps an update: an update is the only request; what was
\* read or saved is the row, and so is what is cached unless it is about to be
\* replaced. r stands for `row`.
RowOK(t, r) == t.step \in {"fill", "cache"} => t.value = r

CachedIsRow ==
    sCache # NotCached /\ (\A w \in Workers : sTask[w].step # "cache")
        => sCache = row

SettingsApart == UpdatingSettings # {} => Cardinality(Busy(sTask)) = 1

SettingsApartInv ==
    /\ SettingsApart
    /\ CachedIsRow
    /\ \A w \in Workers : RowOK(sTask[w], row)

SettingsIInv == SettingsTypes /\ SavedInv /\ (apart => SettingsApartInv)

\* A step of the register, or none.
RegisterStep == [Register!RegisterNext]_<<row, stored, page, apart>>

LEMMA SettingOfStep ==
    ASSUME NEW t \in {Settings!Idle} \cup SettingTask
    PROVE  t.step \in {"fill", "save", "cache"} => t \in SettingTask
BY DEF SettingTask, Settings!Idle

\* Who updates is the only one busy.
LEMMA OnlySettingsUpdate ==
    ASSUME SettingsApart, NEW w \in Workers, sTask[w].step \in {"save", "cache"}
    PROVE  \A v \in Workers : v # w => sTask[v].step = "idle"
<1>1. w \in UpdatingSettings /\ w \in Busy(sTask)
    BY DEF UpdatingSettings, Doing, Busy
<1>2. Cardinality(Busy(sTask)) = 1
    BY <1>1 DEF SettingsApart
<1>3. IsFiniteSet(Busy(sTask))
    <2>1. IsFiniteSet(Workers)
        BY CachesAssumption
           DEF CachesAssumption, Shop!CatalogueAssumption, Shop!IsFiniteSet, IsFiniteSet
    <2>2. Busy(sTask) \in SUBSET Workers
        BY DEF Busy
    <2> QED BY <2>1, <2>2, FS_Subset
<1>4. PICK x : Busy(sTask) = {x}
    BY <1>2, <1>3, FS_Singleton
<1> QED BY <1>1, <1>4 DEF Busy

\* A step of w that leaves the table alone, after which what it holds and what
\* is cached were saved and, while nothing overlaps an update, are the row.
LEMMA SettingStep ==
    ASSUME SettingsIInv, apart' = apart, apart => SettingsApart',
           NEW w \in Workers, NEW t \in {Settings!Idle} \cup SettingTask,
           sTask' = [sTask EXCEPT ![w] = t],
           row' = row, stored' = stored,
           page' \in [Workers -> [shown : Values, turn : BOOLEAN]],
           sCache' \in stored \cup {NotCached},
           SavedOK(t, stored), apart => RowOK(t, row),
           apart => \/ sCache' \in {NotCached, row}
                    \/ sCache' = sCache /\ (sTask[w].step = "cache" => t.step = "cache")
    PROVE  SettingsIInv'
<1>1. sTask \in [Workers -> {Settings!Idle} \cup SettingTask]
    BY DEF SettingsIInv, SettingsTypes
<1>2. \A v \in Workers : sTask'[v] = IF v = w THEN t ELSE sTask[v]
    BY <1>1
<1>3. SettingsTypes'
    <2>1. sTask' \in [Workers -> {Settings!Idle} \cup SettingTask]
        BY <1>1
    <2>2. stored \subseteq Values /\ row \in Values
        BY DEF SettingsIInv, SettingsTypes, Settings!TypeOK
    <2> QED BY <2>1, <2>2 DEF SettingsTypes, Settings!TypeOK, Settings!Idle
<1>4. SavedInv'
    BY <1>2 DEF SettingsIInv, SavedInv
<1>5. ASSUME apart PROVE SettingsApartInv'
    <2>1. SettingsApartInv
        BY <1>5 DEF SettingsIInv
    <2>2. CachedIsRow'
        <3>1. CASE sCache' \in {NotCached, row}
            BY <3>1 DEF CachedIsRow
        <3>2. CASE sCache' = sCache /\ (sTask[w].step = "cache" => t.step = "cache")
            <4>1. (\A v \in Workers : sTask'[v].step # "cache")
                     => \A v \in Workers : sTask[v].step # "cache"
                BY <1>2, <3>2
            <4> QED BY <2>1, <3>2, <4>1 DEF SettingsApartInv, CachedIsRow
        <3> QED BY <1>5, <3>1, <3>2
    <2>3. \A v \in Workers : RowOK(sTask'[v], row')
        BY <1>2, <1>5, <2>1 DEF SettingsApartInv
    <2> QED BY <1>5, <2>2, <2>3 DEF SettingsApartInv
<1> QED BY <1>3, <1>4, <1>5 DEF SettingsIInv

\* An answer turns the page.
LEMMA PageTurns ==
    ASSUME SettingsIInv, NEW w \in Workers, NEW v \in Values, Settings!Answer(w, v)
    PROVE  /\ page' \in [Workers -> [shown : Values, turn : BOOLEAN]]
           /\ page' = [page EXCEPT ![w] = [shown |-> v, turn |-> ~@.turn]]
           /\ page' # page
<1>1. page \in [Workers -> [shown : Values, turn : BOOLEAN]]
    BY DEF SettingsIInv, SettingsTypes, Settings!TypeOK
<1>2. page' = [page EXCEPT ![w] = [shown |-> v, turn |-> ~page[w].turn]]
    BY DEF Settings!Answer
<1>3. page'[w].turn = ~page[w].turn /\ page[w].turn \in BOOLEAN
    BY <1>1, <1>2
<1>4. page' # page
    BY <1>3
<1> QED BY <1>1, <1>2, <1>4 DEF Settings!Answer

LEMMA SettingsGet ==
    ASSUME SettingsIInv, apart' = apart, apart => SettingsApart',
           apart => (UpdatingSettings' # {} => page' = page), NEW w \in Workers,
           \/ Settings!GetHit(w) \/ Settings!GetRead(w) \/ Settings!GetFill(w)
    PROVE  SettingsIInv' /\ RegisterStep
<1> DEFINE t == sTask[w]
<1>1. /\ t \in {Settings!Idle} \cup SettingTask /\ SavedOK(t, stored)
      /\ row \in stored /\ row \in Values /\ stored \subseteq Values
      /\ sTask \in [Workers -> {Settings!Idle} \cup SettingTask]
      /\ page \in [Workers -> [shown : Values, turn : BOOLEAN]]
      /\ sCache \in stored \cup {NotCached}
    BY DEF SettingsIInv, SettingsTypes, Settings!TypeOK, SavedInv
<1>2. apart => RowOK(t, row)
    BY DEF SettingsIInv, SettingsApartInv
<1>3. Settings!Idle.step = "idle"
    BY DEF Settings!Idle
<1>4. CASE Settings!GetHit(w)
    <2>1. /\ sCache # NotCached /\ t.step = "idle" /\ Settings!Answer(w, sCache)
          /\ UNCHANGED <<row, sCache, sTask, stored>>
        BY <1>4 DEF Settings!GetHit, Settings!At
    <2>2. sCache \in stored /\ sCache \in Values
        BY <1>1, <2>1
    <2>3. /\ page' \in [Workers -> [shown : Values, turn : BOOLEAN]]
          /\ page' = [page EXCEPT ![w] = [shown |-> sCache, turn |-> ~@.turn]]
          /\ page' # page
        BY <2>1, <2>2, PageTurns
    <2>4. ASSUME apart PROVE sCache = row
        <3>1. UpdatingSettings = {}
            BY <2>1, <2>3, <2>4 DEF UpdatingSettings, Doing
        <3>2. \A v \in Workers : sTask[v].step # "cache"
            BY <3>1 DEF UpdatingSettings, Doing
        <3> QED BY <2>1, <2>4, <3>2 DEF SettingsIInv, SettingsApartInv, CachedIsRow
    <2>5. SettingsIInv'
        <3>1. sTask' = [sTask EXCEPT ![w] = t]
            BY <1>1, <2>1
        <3> HIDE DEF t
        <3> QED BY <1>1, <1>2, <2>1, <2>2, <2>3, <3>1, SettingStep
    <2>6. Register!Show(w, sCache)
        BY <2>1, <2>2, <2>3, <2>4 DEF Register!Show
    <2> QED BY <2>2, <2>5, <2>6 DEF RegisterStep, Register!RegisterNext
<1>5. CASE Settings!GetRead(w)
    <2> DEFINE n == [step |-> "fill", value |-> row]
    <2>1. /\ t.step = "idle" /\ sTask' = [sTask EXCEPT ![w] = n]
          /\ UNCHANGED <<row, sCache, page, stored>>
        BY <1>5 DEF Settings!GetRead, Settings!At, Settings!Goto
    <2>2. n \in SettingTask /\ n.value = row
        BY <1>1 DEF SettingTask
    <2> HIDE DEF n
    <2>3. SavedOK(n, stored) /\ RowOK(n, row)
        BY <1>1, <2>2 DEF SavedOK, RowOK
    <2>4. SettingsIInv'
        BY <1>1, <2>1, <2>2, <2>3, SettingStep
    <2> QED BY <2>1, <2>4 DEF RegisterStep
<1>6. CASE Settings!GetFill(w)
    <2>1. /\ t.step = "fill" /\ sCache' = t.value /\ Settings!Answer(w, t.value)
          /\ sTask' = [sTask EXCEPT ![w] = Settings!Idle]
          /\ UNCHANGED <<row, stored>>
        BY <1>6 DEF Settings!GetFill, Settings!At, Settings!Finish
    <2>2. t.value \in stored /\ t.value \in Values /\ (apart => t.value = row)
        BY <1>1, <1>2, <2>1 DEF SavedOK, RowOK
    <2>3. /\ page' \in [Workers -> [shown : Values, turn : BOOLEAN]]
          /\ page' = [page EXCEPT ![w] = [shown |-> t.value, turn |-> ~@.turn]]
        BY <2>1, <2>2, PageTurns
    <2>4. SavedOK(Settings!Idle, stored) /\ RowOK(Settings!Idle, row)
        BY <1>3 DEF SavedOK, RowOK
    <2>5. SettingsIInv'
        <3> HIDE DEF t
        <3> QED BY <1>1, <2>1, <2>2, <2>3, <2>4, SettingStep
    <2>6. Register!Show(w, t.value)
        BY <2>1, <2>2, <2>3 DEF Register!Show
    <2> QED BY <2>2, <2>5, <2>6 DEF RegisterStep, Register!RegisterNext
<1> QED BY <1>4, <1>5, <1>6

LEMMA SettingsUpdate ==
    ASSUME SettingsIInv, apart' = apart, apart => SettingsApart', NEW w \in Workers,
           \/ \E v \in Values : Settings!UpdateRead(w, v)
           \/ Settings!UpdateSave(w) \/ Settings!UpdateFail(w) \/ Settings!UpdateCache(w)
    PROVE  SettingsIInv' /\ RegisterStep
<1> DEFINE t == sTask[w]
<1>1. /\ t \in {Settings!Idle} \cup SettingTask /\ SavedOK(t, stored)
      /\ row \in stored /\ row \in Values /\ stored \subseteq Values
      /\ sTask \in [Workers -> {Settings!Idle} \cup SettingTask]
      /\ page \in [Workers -> [shown : Values, turn : BOOLEAN]]
      /\ sCache \in stored \cup {NotCached}
    BY DEF SettingsIInv, SettingsTypes, Settings!TypeOK, SavedInv
<1>2. apart => RowOK(t, row)
    BY DEF SettingsIInv, SettingsApartInv
<1>3. Settings!Idle.step = "idle"
    BY DEF Settings!Idle
<1>4. SavedOK(Settings!Idle, stored) /\ RowOK(Settings!Idle, row)
    BY <1>3 DEF SavedOK, RowOK
<1>5. ASSUME NEW v \in Values, Settings!UpdateRead(w, v)
      PROVE  SettingsIInv' /\ RegisterStep
    <2> DEFINE n == [step |-> "save", value |-> v]
    <2>1. /\ t.step = "idle" /\ sTask' = [sTask EXCEPT ![w] = n]
          /\ UNCHANGED <<row, sCache, page, stored>>
        BY <1>5 DEF Settings!UpdateRead, Settings!At, Settings!Goto
    <2>2. n \in SettingTask /\ n.step = "save"
        BY DEF SettingTask
    <2> HIDE DEF n
    <2>3. SavedOK(n, stored) /\ RowOK(n, row)
        BY <2>2 DEF SavedOK, RowOK
    <2>4. SettingsIInv'
        BY <1>1, <2>1, <2>2, <2>3, SettingStep
    <2> QED BY <2>1, <2>4 DEF RegisterStep
<1>6. CASE Settings!UpdateSave(w)
    <2> DEFINE n == [step |-> "cache", value |-> t.value]
    <2>1. /\ t.step = "save" /\ row' = t.value /\ stored' = stored \cup {t.value}
          /\ sTask' = [sTask EXCEPT ![w] = n]
          /\ UNCHANGED <<sCache, page>>
        BY <1>6 DEF Settings!UpdateSave, Settings!At, Settings!Goto
    <2>2. t.value \in Values
        BY <1>1, <2>1, SettingOfStep DEF SettingTask
    <2>3. n \in SettingTask /\ n.step = "cache" /\ n.value = t.value
        BY <2>2 DEF SettingTask
    <2> HIDE DEF n
    <2>4. \A v \in Workers : sTask'[v] = IF v = w THEN n ELSE sTask[v]
        BY <1>1, <2>1
    <2>5. SettingsTypes'
        <3>1. sTask' \in [Workers -> {Settings!Idle} \cup SettingTask]
            BY <1>1, <2>1, <2>3
        <3>2. Settings!TypeOK'
            BY <2>1, <2>2 DEF SettingsIInv, SettingsTypes, Settings!TypeOK
        <3> QED BY <3>1, <3>2 DEF SettingsTypes, Settings!Idle
    <2>6. SavedInv'
        <3>1. \A v \in Workers : SavedOK(sTask'[v], stored')
            BY <2>1, <2>3, <2>4 DEF SettingsIInv, SavedInv, SavedOK
        <3> QED BY <1>1, <2>1, <3>1 DEF SavedInv
    <2>7. ASSUME apart PROVE SettingsApartInv'
        <3>1. \A v \in Workers : v # w => sTask[v].step = "idle"
            BY <2>1, <2>7, OnlySettingsUpdate DEF SettingsIInv, SettingsApartInv
        <3>2. \A v \in Workers : RowOK(sTask'[v], row')
            BY <2>1, <2>3, <2>4, <3>1 DEF RowOK
        <3>3. CachedIsRow'
            BY <2>3, <2>4 DEF CachedIsRow
        <3> QED BY <2>7, <3>2, <3>3 DEF SettingsApartInv
    <2>8. Register!Write(t.value)
        BY <2>1 DEF Register!Write
    <2> QED BY <2>2, <2>5, <2>6, <2>7, <2>8
            DEF SettingsIInv, RegisterStep, Register!RegisterNext
<1>7. CASE Settings!UpdateFail(w)
    <2>1. /\ t.step = "save" /\ sTask' = [sTask EXCEPT ![w] = Settings!Idle]
          /\ UNCHANGED <<row, sCache, page, stored>>
        BY <1>7 DEF Settings!UpdateFail, Settings!At, Settings!Finish
    <2>2. SettingsIInv'
        BY <1>1, <1>4, <2>1, SettingStep
    <2> QED BY <2>1, <2>2 DEF RegisterStep
<1>8. CASE Settings!UpdateCache(w)
    <2>1. /\ t.step = "cache" /\ sCache' = t.value
          /\ sTask' = [sTask EXCEPT ![w] = Settings!Idle]
          /\ UNCHANGED <<row, page, stored>>
        BY <1>8 DEF Settings!UpdateCache, Settings!At, Settings!Finish
    <2>2. t.value \in stored /\ (apart => t.value = row)
        BY <1>1, <1>2, <2>1 DEF SavedOK, RowOK
    <2>3. SettingsIInv'
        <3> HIDE DEF t
        <3> QED BY <1>1, <1>4, <2>1, <2>2, SettingStep
    <2> QED BY <2>1, <2>3 DEF RegisterStep
<1> QED BY <1>5, <1>6, <1>7, <1>8

LEMMA SettingsInit == RegimeInit => SettingsIInv /\ Register!RegisterInit
<1> SUFFICES ASSUME RegimeInit PROVE SettingsIInv /\ Register!RegisterInit
    OBVIOUS
<1>1. Settings!Init /\ apart \in BOOLEAN
    BY DEF RegimeInit
<1>2. \A w \in Workers : sTask[w] = Settings!Idle /\ sTask[w].step = "idle"
    BY <1>1 DEF Settings!Init, Settings!Idle
<1>3. SettingsTypes
    BY <1>1 DEF Settings!Init, SettingsTypes, Settings!TypeOK
<1>4. SavedInv
    BY <1>1, <1>2 DEF Settings!Init, SavedInv, SavedOK
<1>5. SettingsApartInv
    <2>1. UpdatingSettings = {}
        BY <1>2 DEF UpdatingSettings, Doing
    <2> QED BY <1>1, <1>2, <2>1
            DEF Settings!Init, SettingsApartInv, SettingsApart, CachedIsRow, RowOK
<1>6. Register!RegisterInit
    BY <1>1 DEF Settings!Init, Register!RegisterInit
<1> QED BY <1>3, <1>4, <1>5, <1>6 DEF SettingsIInv

LEMMA SettingsRefine ==
    SettingsIInv /\ [RegimeNext]_mcvars => SettingsIInv' /\ RegisterStep
<1> SUFFICES ASSUME SettingsIInv, [RegimeNext]_mcvars PROVE SettingsIInv' /\ RegisterStep
    OBVIOUS
<1>1. apart' = apart /\ (SettingsNext \/ UNCHANGED settings)
    BY DEF RegimeNext, PartMoves, mcvars
<1>2. CASE UNCHANGED settings
    <2>1. UNCHANGED <<row, sCache, page, sTask, stored>>
        BY <1>2 DEF settings
    <2>2. SettingsTypes'
        BY <2>1 DEF SettingsIInv, SettingsTypes, Settings!TypeOK, Settings!Idle
    <2>3. SavedInv'
        BY <2>1 DEF SettingsIInv, SavedInv
    <2>4. apart => SettingsApartInv'
        BY <2>1 DEF SettingsIInv, SettingsApartInv, SettingsApart, CachedIsRow,
                    UpdatingSettings, Doing, Busy
    <2> QED BY <1>1, <2>1, <2>2, <2>3, <2>4 DEF SettingsIInv, RegisterStep
<1>3. CASE SettingsNext
    <2>1. /\ Settings!Next
          /\ apart => SettingsApart'
          /\ apart => (UpdatingSettings' # {} => page' = page)
        BY <1>3 DEF SettingsNext, SettingsApart
    <2>2. ASSUME NEW w \in Workers,
                 \/ Settings!GetHit(w) \/ Settings!GetRead(w) \/ Settings!GetFill(w)
          PROVE  SettingsIInv' /\ RegisterStep
        BY <1>1, <2>1, <2>2, SettingsGet
    <2>3. ASSUME NEW w \in Workers,
                 \/ \E v \in Values : Settings!UpdateRead(w, v)
                 \/ Settings!UpdateSave(w) \/ Settings!UpdateFail(w)
                 \/ Settings!UpdateCache(w)
          PROVE  SettingsIInv' /\ RegisterStep
        BY <1>1, <2>1, <2>3, SettingsUpdate
    <2>4. CASE Settings!Expire
        <3>1. sCache' = NotCached /\ UNCHANGED <<row, page, sTask, stored>>
            BY <2>4 DEF Settings!Expire
        <3>2. SettingsTypes'
            BY <3>1 DEF SettingsIInv, SettingsTypes, Settings!TypeOK, Settings!Idle
        <3>3. SavedInv'
            BY <3>1 DEF SettingsIInv, SavedInv
        <3>4. apart => SettingsApartInv'
            BY <2>1, <3>1 DEF SettingsIInv, SettingsApartInv, CachedIsRow
        <3> QED BY <1>1, <3>1, <3>2, <3>3, <3>4 DEF SettingsIInv, RegisterStep
    <2>5. CASE Settings!Crash
        <3>1. /\ sCache' = NotCached /\ UNCHANGED <<row, page, stored>>
              /\ sTask' = [w \in Workers |-> Settings!Idle]
            BY <2>5 DEF Settings!Crash
        <3>2. \A w \in Workers : SavedOK(sTask'[w], stored') /\ RowOK(sTask'[w], row')
            BY <3>1 DEF SavedOK, RowOK, Settings!Idle
        <3>3. SettingsTypes'
            BY <3>1 DEF SettingsIInv, SettingsTypes, Settings!TypeOK, Settings!Idle
        <3>4. SavedInv'
            BY <3>1, <3>2 DEF SettingsIInv, SavedInv
        <3>5. apart => SettingsApartInv'
            BY <2>1, <3>1, <3>2 DEF SettingsApartInv, CachedIsRow
        <3> QED BY <1>1, <3>1, <3>3, <3>4, <3>5 DEF SettingsIInv, RegisterStep
    <2> QED BY <2>1, <2>2, <2>3, <2>4, <2>5 DEF Settings!Next
<1> QED BY <1>1, <1>2, <1>3

\* Cache and table together are one register, however many requests and
\* settings there are: a page shows the row of that moment while nothing
\* overlaps an update, and settings that were saved at some time otherwise,
\* though fills and updates overlap, fail or stop (settings_service.go, Get,
\* Update).
THEOREM SettingsAreARegister == RegimeSpec => ReadsLikeTheRow
<1>1. SettingsIInv /\ [RegimeNext]_mcvars
        => [Register!RegisterNext]_<<row, stored, page, apart>>
    BY SettingsRefine DEF RegisterStep
<1>2. SettingsIInv /\ [RegimeNext]_mcvars => SettingsIInv'
    BY SettingsRefine
<1>3. RegimeInit => SettingsIInv
    BY SettingsInit
<1>4. RegimeInit => Register!RegisterInit
    BY SettingsInit
<1>5. RegimeSpec => Register!RegisterInit
                  /\ [][Register!RegisterNext]_<<row, stored, page, apart>>
    BY <1>1, <1>2, <1>3, <1>4, PTL DEF RegimeSpec
<1> QED BY <1>5 DEF ReadsLikeTheRow, Register!RegisterSpec

-----------------------------------------------------------------------------
(* Least numbers and sums over finite sets: a sum is the value of the      *)
(* recursion of MapThenSumSet. It is pinned down without induction, by     *)
(* taking apart a least set that has no sum, or that has two.              *)

LessThan == {p \in Nat \X Nat : p[1] < p[2]}

\* A nonempty set of naturals has a least element.
LEMMA LeastNat ==
    ASSUME NEW T \in SUBSET Nat, T # {}
    PROVE  \E m \in T : \A n \in T : m <= n
<1>1. IsWellFoundedOn(LessThan, Nat)
    <2>1. LessThan = OpToRel(<, Nat)
        BY DEF OpToRel, LessThan
    <2> QED BY <2>1, NatLessThanWellFounded, Zenon
<1>2. PICK m \in T : \A n \in T : ~(<<n, m>> \in LessThan)
    BY <1>1, WFMin, Zenon
<1>3. ASSUME NEW n \in T PROVE m <= n
    <2>1. n < m => <<n, m>> \in LessThan
        BY DEF LessThan
    <2> QED BY <1>2, <2>1
<1> QED BY <1>3

\* Of a nonempty collection of finite sets one has no proper subset in it.
LEMMA LeastSet ==
    ASSUME NEW T, IsFiniteSet(T), NEW C \in SUBSET SUBSET T, C # {}
    PROVE  \E s \in C : \A x \in s : s \ {x} \notin C
<1> DEFINE Sizes == {Cardinality(s) : s \in C}
<1>1. ASSUME NEW s \in C
      PROVE  /\ IsFiniteSet(s) /\ Cardinality(s) \in Nat
             /\ \A x \in s : Cardinality(s \ {x}) = Cardinality(s) - 1
    <2>1. IsFiniteSet(s)
        BY FS_Subset
    <2> QED BY <2>1, FS_CardinalityType, FS_RemoveElement
<1>2. Sizes \in SUBSET Nat /\ Sizes # {}
    BY <1>1
<1>3. PICK m \in Sizes : \A n \in Sizes : m <= n
    BY <1>2, LeastNat
<1>4. PICK s \in C : m = Cardinality(s)
    BY <1>3
<1>5. ASSUME NEW x \in s, s \ {x} \in C PROVE FALSE
    BY <1>1, <1>3, <1>4, <1>5
<1> QED BY <1>5

\* g[s] adds v up over s.
Adds(g, v, T) ==
    /\ g \in [SUBSET T -> Nat]
    /\ g[{}] = 0
    /\ \A s \in SUBSET T : \A x \in T \ s : g[s \cup {x}] = g[s] + v[x]

Folds(g, v, T) ==
    g = [s \in SUBSET T |->
            IF s = {} THEN 0
            ELSE v[CHOOSE x \in s : TRUE] + g[s \ {CHOOSE x \in s : TRUE}]]

\* There is a sum over every finite set.
LEMMA SumExists ==
    ASSUME NEW T, IsFiniteSet(T), NEW v, \A x \in T : v[x] \in Nat
    PROVE  \E g : Adds(g, v, T)
<1> DEFINE Bad == {s \in SUBSET T : ~\E g : Adds(g, v, s)}
<1> SUFFICES ASSUME Bad # {} PROVE FALSE
    BY Zenon
<1>1. PICK s \in Bad : \A x \in s : s \ {x} \notin Bad
    BY LeastSet
<1>2. s # {}
    <2> DEFINE g == [u \in SUBSET {} |-> 0]
    <2>1. Adds(g, v, {})
        BY DEF Adds
    <2> QED BY <1>1, <2>1
<1>3. PICK a \in s : TRUE
    BY <1>2
<1>4. PICK g : Adds(g, v, s \ {a})
    BY <1>1, <1>3
<1> DEFINE h == [u \in SUBSET s |-> IF a \in u THEN g[u \ {a}] + v[a] ELSE g[u]]
<1>5. h \in [SUBSET s -> Nat] /\ h[{}] = 0
    BY <1>4, <1>1, <1>3 DEF Adds
<1>6. ASSUME NEW u \in SUBSET s, NEW x \in s \ u
      PROVE  h[u \cup {x}] = h[u] + v[x]
    <2>1. CASE x = a
        <3>1. (u \cup {x}) \ {a} = u
            BY <2>1, <1>6
        <3> QED BY <2>1, <3>1, <1>6
    <2>2. CASE x # a /\ a \in u
        <3>1. (u \cup {x}) \ {a} = (u \ {a}) \cup {x}
            BY <2>2
        <3>2. g[(u \ {a}) \cup {x}] = g[u \ {a}] + v[x]
            BY <1>4, <2>2 DEF Adds
        <3>3. g[u \ {a}] \in Nat /\ v[x] \in Nat /\ v[a] \in Nat
            BY <1>4, <1>1, <1>3 DEF Adds
        <3>4. h[u \cup {x}] = g[(u \cup {x}) \ {a}] + v[a] /\ h[u] = g[u \ {a}] + v[a]
            BY <2>2, u \cup {x} \in SUBSET s
        <3>5. g[(u \cup {x}) \ {a}] = g[u \ {a}] + v[x]
            BY <3>1, <3>2
        <3> HIDE DEF h
        <3> QED BY <3>3, <3>4, <3>5
    <2>3. CASE x # a /\ a \notin u
        <3>1. g[u \cup {x}] = g[u] + v[x]
            BY <1>4, <2>3 DEF Adds
        <3> QED BY <2>3, <3>1
    <2> QED BY <2>1, <2>2, <2>3
<1>7. Adds(h, v, s)
    BY <1>5, <1>6 DEF Adds
<1> QED BY <1>1, <1>7

\* A sum solves the recursion.
LEMMA SumFolds ==
    ASSUME NEW T, NEW v, NEW g, Adds(g, v, T), \A x \in T : v[x] \in Nat
    PROVE  Folds(g, v, T)
<1>1. ASSUME NEW s \in SUBSET T, s # {}
      PROVE  g[s] = v[CHOOSE x \in s : TRUE] + g[s \ {CHOOSE x \in s : TRUE}]
    <2> DEFINE x == CHOOSE x \in s : TRUE
    <2>1. x \in s
        BY <1>1
    <2> HIDE DEF x
    <2>2. (s \ {x}) \cup {x} = s /\ s \ {x} \in SUBSET T /\ x \in T \ (s \ {x})
        BY <2>1
    <2>3. g[s] = g[s \ {x}] + v[x]
        BY <2>2 DEF Adds
    <2>4. g[s \ {x}] \in Nat /\ v[x] \in Nat
        BY <2>2 DEF Adds
    <2>5. g[s] = v[x] + g[s \ {x}]
        BY <2>3, <2>4
    <2> QED BY <2>5 DEF x
<1>2. g = [s \in SUBSET T |-> g[s]] /\ g[{}] = 0
    BY DEF Adds
<1> QED BY <1>1, <1>2 DEF Folds

\* It is the only solution.
LEMMA FoldsAreOne ==
    ASSUME NEW T, IsFiniteSet(T), NEW v, NEW g, NEW h, Folds(g, v, T), Folds(h, v, T)
    PROVE  g = h
<1> DEFINE Bad == {s \in SUBSET T : g[s] # h[s]}
<1>1. ASSUME Bad # {} PROVE FALSE
    <2>1. PICK s \in Bad : \A x \in s : s \ {x} \notin Bad
        BY <1>1, LeastSet
    <2> DEFINE x == CHOOSE x \in s : TRUE
    <2>2. s # {}
        BY <2>1 DEF Folds
    <2>3. x \in s
        BY <2>2
    <2>4. g[s \ {x}] = h[s \ {x}]
        BY <2>1, <2>3
    <2>5. g[s] = v[x] + g[s \ {x}] /\ h[s] = v[x] + h[s \ {x}]
        BY <2>1, <2>2 DEF Folds
    <2> QED BY <2>1, <2>4, <2>5
<1>2. \A s \in SUBSET T : g[s] = h[s]
    BY <1>1
<1>3. g = [s \in SUBSET T |-> g[s]] /\ h = [s \in SUBSET T |-> h[s]]
    BY DEF Folds
<1> QED BY <1>2, <1>3

-----------------------------------------------------------------------------
(* The audit log.                                                          *)

\* What the requests in S are about to report, by the tasks ts.
ToTell(ts, S) == Audit!MapThenSumSet(LAMBDA v : ts[v].count, S)

LEMMA ToTellIs ==
    ASSUME NEW ts, NEW T, IsFiniteSet(T), NEW v, NEW g, Adds(g, v, T),
           \A x \in T : v[x] = ts[x].count /\ v[x] \in Nat
    PROVE  ToTell(ts, T) = g[T]
<1> DEFINE Is(it) == it = [s \in SUBSET T |-> IF s = {} THEN 0
                               ELSE LET x == CHOOSE x \in s : TRUE
                                    IN ts[x].count + it[s \ {x}]]
<1>1. ToTell(ts, T) = (CHOOSE it : Is(it))[T]
    BY DEF ToTell, Audit!MapThenSumSet, Audit!MapThenFoldSet
<1>2. ASSUME NEW it PROVE Is(it) <=> Folds(it, v, T)
    <2>1. ASSUME NEW s \in SUBSET T
          PROVE  (IF s = {} THEN 0
                  ELSE LET x == CHOOSE x \in s : TRUE
                       IN ts[x].count + it[s \ {x}])
                 = IF s = {} THEN 0
                   ELSE v[CHOOSE x \in s : TRUE] + it[s \ {CHOOSE x \in s : TRUE}]
        OBVIOUS
    <2> QED BY <2>1 DEF Folds
<1> HIDE DEF Is
<1>3. Folds(g, v, T)
    BY SumFolds
<1>4. Is(CHOOSE it : Is(it))
    BY <1>2, <1>3
<1> QED BY <1>1, <1>2, <1>3, <1>4, FoldsAreOne

Joins(T, a, U) == a \notin T /\ U = T \cup {a}

\* One request more, with tasks that say the same of the others.
LEMMA ToTellAdds ==
    ASSUME NEW ts, NEW us, NEW T, IsFiniteSet(T), NEW a, NEW U, Joins(T, a, U),
           \A x \in T : us[x].count = ts[x].count /\ ts[x].count \in Nat,
           us[a].count \in Nat
    PROVE  /\ ToTell(ts, T) \in Nat
           /\ ToTell(us, U) = ToTell(ts, T) + us[a].count
<1> USE DEF Joins
<1> DEFINE v == [x \in U |-> us[x].count]
<1>1. v[a] = us[a].count /\ \A x \in U : v[x] = us[x].count /\ v[x] \in Nat
    OBVIOUS
<1>2. IsFiniteSet(U)
    BY FS_AddElement
<1> HIDE DEF v
<1>3. PICK g : Adds(g, v, U)
    BY <1>1, <1>2, SumExists
<1> DEFINE h == [s \in SUBSET T |-> g[s]]
<1>4. Adds(h, v, T) /\ h[T] = g[T] /\ g[T] \in Nat
    BY <1>3 DEF Adds
<1>5. g[U] = g[T] + v[a]
    BY <1>3 DEF Adds
<1>6. ToTell(us, U) = g[U]
    BY <1>1, <1>2, <1>3, ToTellIs
<1> HIDE DEF h
<1>7. T \subseteq U
    OBVIOUS
<1>8. ToTell(ts, T) = h[T]
    BY <1>1, <1>4, <1>7, ToTellIs
<1> QED BY <1>1, <1>4, <1>5, <1>6, <1>8

LEMMA ToTellNothing == \A ts : ToTell(ts, {}) = 0
<1> SUFFICES ASSUME NEW ts PROVE ToTell(ts, {}) = 0
    OBVIOUS
<1>1. PICK g : Adds(g, <<>>, {})
    BY SumExists, FS_EmptySet
<1> QED BY <1>1, ToTellIs, FS_EmptySet DEF Adds

\* Tasks that say the same.
LEMMA ToTellSame ==
    ASSUME NEW ts, NEW us, NEW T, IsFiniteSet(T),
           \A x \in T : us[x].count = ts[x].count /\ ts[x].count \in Nat
    PROVE  ToTell(us, T) = ToTell(ts, T)
<1> DEFINE v == [x \in T |-> ts[x].count]
<1>1. \A x \in T : v[x] = ts[x].count /\ v[x] = us[x].count /\ v[x] \in Nat
    OBVIOUS
<1> HIDE DEF v
<1>2. PICK g : Adds(g, v, T)
    BY <1>1, SumExists
<1> QED BY <1>1, <1>2, ToTellIs

\* AuditLog's own copies of the operators on finite sets.
LEMMA AuditSets ==
    ASSUME NEW S
    PROVE  /\ Audit!Cardinality(S) = Cardinality(S)
           /\ Audit!IsFiniteSet(S) = IsFiniteSet(S)
BY DEF Audit!Cardinality, Cardinality, Audit!IsFiniteSet, IsFiniteSet

LEMMA AuditConstants ==
    /\ Months \subseteq Nat /\ Months # {}
    /\ IsFiniteSet(Workers)
    /\ MaxId \in Nat
<1>1. Audit!AuditAssumption
    BY CachesAssumption DEF CachesAssumption
<1> QED BY <1>1, AuditSets DEF Audit!AuditAssumption

Entry == [view: Audit!Views, month: Months, ip: Ips \cup {Private}, tells: Nat,
          country: Ips \cup {Private, Unknown}]

LookTask == [step: {"look", "fetch"}, ip: Ips]
KnowTask == [step: {"remember", "patch"}, ip: Ips, country: Ips \cup {Unknown}]

\* A lookup knows no country but that of its address, and its address is that
\* of its entry if it is still there; E stands for `entries`.
LookupOK(l, id, E) ==
    /\ l.step = "remember" => l.country \in {l.ip, Unknown}
    /\ l.step = "patch" => l.country = l.ip
    /\ id \in DOMAIN E => E[id].ip = l.ip

\* The table and the lookups.
LogInv ==
    /\ written \in 0..MaxId /\ month \in Months
    /\ DOMAIN entries \subseteq 1..written
    /\ entries \in [DOMAIN entries -> Entry]
    /\ DOMAIN known \subseteq Ips
    /\ \A ip \in DOMAIN known : known[ip] \in {ip, Unknown}
    /\ DOMAIN lookups \subseteq 1..written
    /\ lookups \in [DOMAIN lookups -> LookTask \cup KnowTask]
    /\ \A id \in DOMAIN lookups : LookupOK(lookups[id], id, entries)
    /\ \A i \in DOMAIN entries : entries[i].country \in {Unknown, entries[i].ip}

Gone(E, n) == (1..n) \ DOMAIN E
Reporting(ts) == {w \in Workers : ts[w].step = "report"}

\* A removal by age keeps the months it was asked to keep.
RemovalOK(t) ==
    /\ t.step = "delete" /\ t.how = "age" => t.cutoff = t.asked
    /\ t.step = "report" => t.count \in Nat

\* What was removed was told of or is about to be.
AddsUp(E, n, told, ts) == Cardinality(Gone(E, n)) = told + ToTell(ts, Reporting(ts))

\* Something that was removed has left a trace, or a removal that found
\* something is about to leave one.
Traced(E, n, ts) ==
    Gone(E, n) # {} =>
        \/ \E i \in DOMAIN E : E[i].tells > 0
        \/ \E w \in Reporting(ts) : ts[w].count > 0

\* The removals.
RemovalsInv ==
    /\ reported \in Nat /\ lost \in BOOLEAN
    /\ aTask = [w \in Workers |-> aTask[w]]
    /\ \A w \in Workers : RemovalOK(aTask[w])
    /\ ~lost => AddsUp(entries, written, reported, aTask)
    /\ ~lost => Traced(entries, written, aTask)

AuditIInv == LogInv /\ RemovalsInv

LEMMA ReportingFinite ==
    ASSUME NEW ts
    PROVE  IsFiniteSet(Reporting(ts))
<1>1. Reporting(ts) \in SUBSET Workers
    BY DEF Reporting
<1> QED BY <1>1, AuditConstants, FS_Subset

\* A lookup of an entry, or of one that is gone.
LEMMA LookupOfStep ==
    ASSUME NEW l \in LookTask \cup KnowTask
    PROVE  /\ l.ip \in Ips
           /\ l.step \in {"look", "fetch"} => l \in LookTask
           /\ l.step \in {"remember", "patch"} => l \in KnowTask
BY DEF LookTask, KnowTask

-----------------------------------------------------------------------------

\* A new entry.
LEMMA LogInsert ==
    ASSUME LogInv, NEW view \in Audit!Views, NEW ip \in Ips \cup {Private},
           NEW tells \in Nat, Audit!Insert(view, ip, tells),
           UNCHANGED <<month, known>>
    PROVE  /\ LogInv'
           /\ written' = written + 1
           /\ DOMAIN entries' = DOMAIN entries \cup {written + 1}
           /\ \A i \in DOMAIN entries : entries'[i] = entries[i]
           /\ entries'[written + 1].tells = tells
<1> DEFINE id == written + 1
           e == [view |-> view, month |-> month, ip |-> ip, tells |-> tells,
                 country |-> Unknown]
           l == [step |-> "look", ip |-> ip]
<1>1. /\ written < MaxId /\ written' = id
      /\ entries' = Audit!Put(entries, id, e)
      /\ lookups' = IF ip = Private THEN lookups ELSE Audit!Put(lookups, id, l)
    BY DEF Audit!Insert
<1>2. /\ written \in 0..MaxId /\ month \in Months /\ MaxId \in Nat
      /\ DOMAIN entries \subseteq 1..written /\ entries \in [DOMAIN entries -> Entry]
      /\ DOMAIN lookups \subseteq 1..written
      /\ lookups \in [DOMAIN lookups -> LookTask \cup KnowTask]
    BY AuditConstants DEF LogInv
<1>3. /\ written' \in 0..MaxId /\ 1..written' = (1..written) \cup {id}
      /\ id \notin 1..written /\ id \in Nat
    BY <1>1, <1>2
<1>4. e \in Entry /\ e.ip = ip /\ e.country = Unknown /\ e.tells = tells
    BY <1>2 DEF Entry
<1>5. ip # Private => l \in LookTask /\ l.ip = ip /\ l.step = "look"
    BY DEF LookTask
<1> HIDE DEF e, l, id
<1>6. /\ DOMAIN entries' = DOMAIN entries \cup {id}
      /\ entries'[id] = e
      /\ \A i \in DOMAIN entries : entries'[i] = entries[i]
    BY <1>1, <1>2, <1>3 DEF Audit!Put
<1>7. entries' \in [DOMAIN entries' -> Entry]
    <2>1. entries' = [i \in DOMAIN entries \cup {id} |-> entries'[i]]
        BY <1>1, <1>6 DEF Audit!Put
    <2>2. \A i \in DOMAIN entries \cup {id} : entries'[i] \in Entry
        BY <1>2, <1>4, <1>6
    <2> QED BY <1>6, <2>1, <2>2
<1>8. /\ DOMAIN lookups' \subseteq DOMAIN lookups \cup {id}
      /\ \A i \in DOMAIN lookups : lookups'[i] = lookups[i]
      /\ id \in DOMAIN lookups' => lookups'[id] = l /\ ip # Private
      /\ lookups' = [i \in DOMAIN lookups' |-> lookups'[i]]
    <2>1. CASE ip = Private
        BY <1>1, <1>2, <1>3, <2>1
    <2>2. CASE ip # Private
        BY <1>1, <1>2, <1>3, <2>2 DEF Audit!Put
    <2> QED BY <2>1, <2>2
<1>9. lookups' \in [DOMAIN lookups' -> LookTask \cup KnowTask]
    BY <1>2, <1>5, <1>8
<1>10. \A i \in DOMAIN lookups' : LookupOK(lookups'[i], i, entries')
    <2>1. ASSUME NEW i \in DOMAIN lookups
          PROVE  LookupOK(lookups'[i], i, entries')
        <3>1. LookupOK(lookups[i], i, entries) /\ i # id
            BY <1>2, <1>3 DEF LogInv
        <3> QED BY <1>6, <1>8, <3>1 DEF LookupOK
    <2>2. id \in DOMAIN lookups' => LookupOK(lookups'[id], id, entries')
        BY <1>4, <1>5, <1>6, <1>8 DEF LookupOK
    <2> QED BY <1>8, <2>1, <2>2
<1>11. \A i \in DOMAIN entries' : entries'[i].country \in {Unknown, entries'[i].ip}
    BY <1>4, <1>6 DEF LogInv
<1>12. LogInv'
    <2>1. DOMAIN entries' \subseteq 1..written' /\ DOMAIN lookups' \subseteq 1..written'
        BY <1>2, <1>3, <1>6, <1>8
    <2> QED BY <1>3, <1>7, <1>9, <1>10, <1>11, <2>1 DEF LogInv
<1> QED BY <1>1, <1>4, <1>6, <1>12 DEF id

\* Entries are removed.
LEMMA LogRemove ==
    ASSUME LogInv, NEW S, entries' = Audit!Without(entries, S),
           UNCHANGED <<written, month, known, lookups>>
    PROVE  /\ LogInv'
           /\ DOMAIN entries' = DOMAIN entries \ S
           /\ \A i \in DOMAIN entries' : entries'[i] = entries[i]
<1>1. entries \in [DOMAIN entries -> Entry] /\ DOMAIN entries \subseteq 1..written
    BY DEF LogInv
<1>2. entries' = [i \in DOMAIN entries \ S |-> entries[i]]
    BY DEF Audit!Without, Audit!Restrict
<1>3. /\ DOMAIN entries' = DOMAIN entries \ S
      /\ \A i \in DOMAIN entries' : entries'[i] = entries[i]
    BY <1>2
<1>4. entries' \in [DOMAIN entries' -> Entry]
    BY <1>1, <1>2
<1>5. \A id \in DOMAIN lookups' : LookupOK(lookups'[id], id, entries')
    <2>1. \A id \in DOMAIN lookups : LookupOK(lookups[id], id, entries')
        BY <1>3 DEF LogInv, LookupOK
    <2> QED BY <2>1
<1>6. \A i \in DOMAIN entries' : entries'[i].country \in {Unknown, entries'[i].ip}
    BY <1>3 DEF LogInv
<1>7. DOMAIN entries' \subseteq 1..written'
    BY <1>1, <1>3
<1> QED BY <1>3, <1>4, <1>5, <1>6, <1>7 DEF LogInv

\* A lookup ends.
LEMMA LookupEnds ==
    ASSUME LogInv, NEW id \in DOMAIN lookups, Audit!Finish(id)
    PROVE  /\ DOMAIN lookups' \subseteq DOMAIN lookups
           /\ lookups' \in [DOMAIN lookups' -> LookTask \cup KnowTask]
           /\ \A i \in DOMAIN lookups' : lookups'[i] = lookups[i]
<1>1. lookups' = [i \in DOMAIN lookups \ {id} |-> lookups[i]]
    BY DEF Audit!Finish, Audit!Without, Audit!Restrict
<1> QED BY <1>1 DEF LogInv

\* A lookup goes on.
LEMMA LookupGoesOn ==
    ASSUME LogInv, NEW id \in DOMAIN lookups, NEW s \in {"remember", "patch"},
           NEW c \in Ips \cup {Unknown}, Audit!GoOn(id, s, c),
           c \in {lookups[id].ip, Unknown}, s = "patch" => c = lookups[id].ip
    PROVE  /\ DOMAIN lookups' = DOMAIN lookups
           /\ lookups' \in [DOMAIN lookups' -> LookTask \cup KnowTask]
           /\ \A i \in DOMAIN lookups' : LookupOK(lookups'[i], i, entries)
<1> DEFINE l == [step |-> s, ip |-> lookups[id].ip, country |-> c]
<1>1. lookups[id] \in LookTask \cup KnowTask
    BY DEF LogInv
<1>2. l \in KnowTask /\ l.step = s /\ l.ip = lookups[id].ip /\ l.country = c
    BY <1>1, LookupOfStep DEF KnowTask
<1>3. lookups' = [lookups EXCEPT ![id] = l]
    BY DEF Audit!GoOn
<1> HIDE DEF l
<1>4. /\ DOMAIN lookups' = DOMAIN lookups
      /\ lookups' \in [DOMAIN lookups' -> LookTask \cup KnowTask]
      /\ \A i \in DOMAIN lookups' : lookups'[i] = IF i = id THEN l ELSE lookups[i]
    BY <1>2, <1>3 DEF LogInv
<1>5. LookupOK(lookups[id], id, entries)
    BY DEF LogInv
<1>6. LookupOK(l, id, entries)
    BY <1>2, <1>5 DEF LookupOK
<1> QED BY <1>4, <1>6 DEF LogInv

\* The lookups and what they remember move on; the entries do not.
LEMMA LookupStep ==
    ASSUME LogInv, UNCHANGED <<entries, written, month>>,
           DOMAIN known' \subseteq Ips,
           \A ip \in DOMAIN known' : known'[ip] \in {ip, Unknown},
           DOMAIN lookups' \subseteq DOMAIN lookups,
           lookups' \in [DOMAIN lookups' -> LookTask \cup KnowTask],
           \A i \in DOMAIN lookups' : LookupOK(lookups'[i], i, entries)
    PROVE  LogInv'
BY DEF LogInv

LEMMA LogGeolocation ==
    ASSUME LogInv, NEW id \in DOMAIN lookups, Audit!Geolocation(id)
    PROVE  /\ LogInv'
           /\ DOMAIN entries' = DOMAIN entries /\ written' = written
           /\ \A i \in DOMAIN entries : entries'[i].tells = entries[i].tells
           /\ UNCHANGED <<aTask, reported, lost>>
<1> DEFINE l == lookups[id]
<1>1. /\ l \in LookTask \cup KnowTask /\ l.ip \in Ips /\ LookupOK(l, id, entries)
      /\ lookups \in [DOMAIN lookups -> LookTask \cup KnowTask]
      /\ \A ip \in DOMAIN known : known[ip] \in {ip, Unknown}
      /\ \A i \in DOMAIN lookups : LookupOK(lookups[i], i, entries)
    BY LookupOfStep DEF LogInv
<1>2. ASSUME Audit!Finish(id), UNCHANGED <<entries, written, month>>,
             DOMAIN known' \subseteq Ips,
             \A ip \in DOMAIN known' : known'[ip] \in {ip, Unknown}
      PROVE  LogInv'
    BY <1>1, <1>2, LookupEnds, LookupStep
<1>3. ASSUME NEW s \in {"remember", "patch"}, NEW c \in {l.ip, Unknown},
             s = "patch" => c = l.ip, Audit!GoOn(id, s, c),
             UNCHANGED <<entries, written, month>>, DOMAIN known' \subseteq Ips,
             \A ip \in DOMAIN known' : known'[ip] \in {ip, Unknown}
      PROVE  LogInv'
    <2>1. c \in Ips \cup {Unknown}
        BY <1>1
    <2> QED BY <1>3, <2>1, LookupGoesOn, LookupStep
<1>4. UNCHANGED known
        => /\ DOMAIN known' \subseteq Ips
           /\ \A ip \in DOMAIN known' : known'[ip] \in {ip, Unknown}
    BY DEF LogInv
<1>5. CASE Audit!Lookup(id)
    <2>1. l.step = "look" /\ UNCHANGED <<entries, written, month, known>>
        BY <1>5 DEF Audit!Lookup
    <2>2. CASE l.ip \notin DOMAIN known
        <3> DEFINE n == [l EXCEPT !.step = "fetch"]
        <3>1. lookups' = [lookups EXCEPT ![id] = n]
            BY <1>5, <2>2 DEF Audit!Lookup
        <3>2. n \in LookTask /\ n.ip = l.ip /\ n.step = "fetch"
            BY <1>1, <2>1, LookupOfStep DEF LookTask
        <3> HIDE DEF n
        <3>3. LookupOK(n, id, entries)
            BY <1>1, <3>2 DEF LookupOK
        <3> HIDE DEF l
        <3>4. /\ DOMAIN lookups' = DOMAIN lookups
              /\ lookups' \in [DOMAIN lookups' -> LookTask \cup KnowTask]
              /\ \A i \in DOMAIN lookups' : lookups'[i] = IF i = id THEN n ELSE lookups[i]
            BY <1>1, <3>1, <3>2
        <3>5. \A i \in DOMAIN lookups' : LookupOK(lookups'[i], i, entries)
            BY <1>1, <3>3, <3>4
        <3>6. LogInv'
            BY <1>4, <2>1, <3>4, <3>5, LookupStep
        <3> QED BY <1>5, <2>1, <3>6 DEF Audit!Lookup
    <2>3. CASE l.ip \in DOMAIN known /\ known[l.ip] = Unknown
        <3>1. Audit!Finish(id)
            BY <1>5, <2>3 DEF Audit!Lookup
        <3> QED BY <1>2, <1>4, <1>5, <2>1, <3>1 DEF Audit!Lookup
    <2>4. CASE l.ip \in DOMAIN known /\ known[l.ip] # Unknown
        <3>1. Audit!GoOn(id, "patch", known[l.ip]) /\ known[l.ip] = l.ip
            BY <1>1, <1>5, <2>4 DEF Audit!Lookup
        <3> QED BY <1>3, <1>4, <1>5, <2>1, <3>1 DEF Audit!Lookup
    <2> QED BY <2>2, <2>3, <2>4
<1>6. CASE Audit!Fetch(id)
    <2>1. /\ UNCHANGED <<entries, written, month, known>>
          /\ \E c \in {l.ip, Unknown} : Audit!GoOn(id, "remember", c)
        BY <1>6 DEF Audit!Fetch
    <2> QED BY <1>3, <1>4, <1>6, <2>1 DEF Audit!Fetch
<1>7. CASE Audit!Remember(id)
    <2>1. /\ l.step = "remember" /\ UNCHANGED <<entries, written, month>>
          /\ known' = Audit!Put(known, l.ip, l.country)
        BY <1>7 DEF Audit!Remember
    <2>2. l.country \in {l.ip, Unknown}
        BY <1>1, <2>1 DEF LookupOK
    <2> HIDE DEF l
    <2>3. /\ DOMAIN known' \subseteq Ips
          /\ \A ip \in DOMAIN known' : known'[ip] \in {ip, Unknown}
        BY <1>1, <2>1, <2>2 DEF LogInv, Audit!Put
    <2>4. CASE l.country = Unknown
        <3>1. Audit!Finish(id)
            BY <1>7, <2>4 DEF Audit!Remember, l
        <3> QED BY <1>2, <1>7, <2>1, <2>3, <3>1 DEF Audit!Remember
    <2>5. CASE l.country # Unknown
        <3>1. Audit!GoOn(id, "patch", l.country) /\ l.country = l.ip
            BY <1>7, <2>2, <2>5 DEF Audit!Remember, l
        <3> QED BY <1>3, <1>7, <2>1, <2>3, <3>1 DEF Audit!Remember
    <2> QED BY <2>4, <2>5
<1>8. CASE Audit!UpdateGeoInfo(id)
    <2>1. /\ l.step = "patch" /\ Audit!Finish(id)
          /\ UNCHANGED <<written, month, known, aTask, reported, lost>>
          /\ entries' = IF id \in DOMAIN entries
                        THEN [entries EXCEPT ![id].country = l.country]
                        ELSE entries
        BY <1>8 DEF Audit!UpdateGeoInfo
    <2>2. l.country = l.ip
        BY <1>1, <2>1 DEF LookupOK
    <2>3. CASE id \notin DOMAIN entries
        BY <1>2, <1>4, <2>1, <2>3
    <2>4. CASE id \in DOMAIN entries
        <3> DEFINE e == [entries[id] EXCEPT !.country = l.country]
        <3>1. entries[id] \in Entry /\ entries[id].ip = l.ip
            BY <1>1, <2>4 DEF LogInv, LookupOK
        <3>2. /\ e \in Entry /\ e.ip = l.ip /\ e.country = l.ip
              /\ e.tells = entries[id].tells
            BY <1>1, <2>2, <3>1 DEF Entry
        <3>3. entries' = [entries EXCEPT ![id] = e]
            BY <2>1, <2>4
        <3> HIDE DEF e, l
        <3>4. /\ DOMAIN entries' = DOMAIN entries
              /\ entries' \in [DOMAIN entries' -> Entry]
              /\ \A i \in DOMAIN entries : entries'[i] = IF i = id THEN e ELSE entries[i]
            BY <3>2, <3>3 DEF LogInv
        <3>5. /\ DOMAIN lookups' \subseteq DOMAIN lookups
              /\ lookups' \in [DOMAIN lookups' -> LookTask \cup KnowTask]
              /\ \A i \in DOMAIN lookups' : lookups'[i] = lookups[i]
            BY <2>1, LookupEnds
        <3>6. \A i \in DOMAIN entries : entries'[i].ip = entries[i].ip
            BY <3>1, <3>2, <3>4
        <3>7. \A i \in DOMAIN lookups' : LookupOK(lookups'[i], i, entries')
            BY <1>1, <3>4, <3>5, <3>6 DEF LookupOK
        <3>8. \A i \in DOMAIN entries' : entries'[i].country \in {Unknown, entries'[i].ip}
            BY <3>2, <3>4 DEF LogInv
        <3>9. LogInv'
            BY <1>4, <2>1, <3>4, <3>5, <3>7, <3>8 DEF LogInv
        <3> QED BY <2>1, <3>2, <3>4, <3>9
    <2> QED BY <2>3, <2>4
<1> QED BY <1>5, <1>6, <1>7, <1>8 DEF Audit!Geolocation

-----------------------------------------------------------------------------

\* A request of a removal goes on.
LEMMA TaskBecomes ==
    ASSUME RemovalsInv, NEW w \in Workers, NEW t, RemovalOK(t), Audit!Become(w, t)
    PROVE  /\ aTask' = [v \in Workers |-> aTask'[v]]
           /\ aTask'[w] = t
           /\ \A v \in Workers \ {w} : aTask'[v] = aTask[v]
           /\ \A v \in Workers : RemovalOK(aTask'[v])
           /\ Reporting(aTask') = (Reporting(aTask) \ {w})
                                     \cup IF t.step = "report" THEN {w} ELSE {}
<1>1. aTask = [v \in Workers |-> aTask[v]] /\ \A v \in Workers : RemovalOK(aTask[v])
    BY DEF RemovalsInv
<1>2. aTask' = [aTask EXCEPT ![w] = t]
    BY DEF Audit!Become
<1>3. /\ aTask' = [v \in Workers |-> aTask'[v]]
      /\ aTask'[w] = t
      /\ \A v \in Workers \ {w} : aTask'[v] = aTask[v]
    BY <1>1, <1>2
<1>4. \A v \in Workers : RemovalOK(aTask'[v])
    BY <1>1, <1>3
<1>5. ASSUME NEW v \in Workers \ {w}
      PROVE  v \in Reporting(aTask') <=> v \in Reporting(aTask)
    BY <1>3 DEF Reporting
<1>6. w \in Reporting(aTask') <=> t.step = "report"
    BY <1>3 DEF Reporting
<1>7. Reporting(aTask') \subseteq Workers /\ Reporting(aTask) \subseteq Workers
    BY DEF Reporting
<1> QED BY <1>3, <1>4, <1>5, <1>6, <1>7

\* Nothing is removed, and nobody comes to report or has done so.
LEMMA RemovalsKept ==
    ASSUME RemovalsInv, UNCHANGED <<reported, lost>>,
           aTask' = [w \in Workers |-> aTask'[w]],
           \A w \in Workers : RemovalOK(aTask'[w]),
           Reporting(aTask') = Reporting(aTask),
           \A w \in Reporting(aTask) : aTask'[w].count = aTask[w].count,
           Gone(entries', written') = Gone(entries, written),
           \A i \in DOMAIN entries :
              i \in DOMAIN entries' /\ entries'[i].tells = entries[i].tells
    PROVE  RemovalsInv'
<1>1. \A w \in Reporting(aTask) : aTask[w].count \in Nat
    BY DEF RemovalsInv, RemovalOK, Reporting
<1>2. ToTell(aTask', Reporting(aTask')) = ToTell(aTask, Reporting(aTask))
    BY <1>1, ToTellSame, ReportingFinite
<1>3. ~lost' => AddsUp(entries', written', reported', aTask')
    BY <1>2 DEF RemovalsInv, AddsUp
<1>4. ~lost' => Traced(entries', written', aTask')
    BY DEF RemovalsInv, Traced
<1> QED BY <1>3, <1>4 DEF RemovalsInv

\* Something was lost.
LEMMA RemovalsLost ==
    ASSUME RemovalsInv, NEW w \in Workers, Audit!Become(w, Audit!Idle),
           lost' = TRUE, reported' = reported
    PROVE  RemovalsInv'
<1>1. RemovalOK(Audit!Idle)
    BY DEF RemovalOK, Audit!Idle
<1>2. /\ aTask' = [v \in Workers |-> aTask'[v]]
      /\ \A v \in Workers : RemovalOK(aTask'[v])
    BY <1>1, TaskBecomes
<1>3. reported' \in Nat /\ lost' \in BOOLEAN /\ ~(~lost')
    BY DEF RemovalsInv
<1> QED BY <1>2, <1>3 DEF RemovalsInv

\* What the gone entries are counted by.
LEMMA GoneFinite ==
    ASSUME LogInv
    PROVE  IsFiniteSet(Gone(entries, written)) /\ IsFiniteSet(DOMAIN entries)
<1>1. IsFiniteSet(1..written)
    <2>1. written \in Int
        BY AuditConstants DEF LogInv
    <2> QED BY <2>1, FS_Interval
<1> QED BY <1>1, FS_Subset DEF Gone, LogInv

\* The rows of a removal are removed, and counted to be told of.
LEMMA RemovalsDelete ==
    ASSUME LogInv, RemovalsInv, NEW w \in Workers, Audit!Delete(w)
    PROVE  LogInv' /\ RemovalsInv'
<1> DEFINE D == Audit!Doomed(aTask[w])
           n == Audit!Cardinality(D)
           t == [step |-> "report", view |-> aTask[w].view, count |-> n]
<1>1. /\ aTask[w].step = "delete" /\ entries' = Audit!Without(entries, D)
      /\ Audit!Become(w, t)
      /\ UNCHANGED <<written, month, known, lookups, reported, lost>>
    BY DEF Audit!Delete, Audit!Remove, Audit!Affected, Audit!At
<1>2. D \subseteq DOMAIN entries
    BY DEF Audit!Doomed
<1> HIDE DEF D
<1>3. IsFiniteSet(D) /\ n = Cardinality(D) /\ n \in Nat
    BY <1>2, GoneFinite, FS_Subset, FS_CardinalityType, AuditSets
<1>4. t.step = "report" /\ t.count = n
    OBVIOUS
<1> HIDE DEF n, t
<1>5. RemovalOK(t)
    BY <1>3, <1>4 DEF RemovalOK
<1>6. /\ LogInv' /\ DOMAIN entries' = DOMAIN entries \ D
      /\ \A i \in DOMAIN entries' : entries'[i] = entries[i]
    BY <1>1, LogRemove
<1>7. /\ aTask' = [v \in Workers |-> aTask'[v]] /\ aTask'[w] = t
      /\ \A v \in Workers \ {w} : aTask'[v] = aTask[v]
      /\ \A v \in Workers : RemovalOK(aTask'[v])
      /\ Reporting(aTask') = Reporting(aTask) \cup {w}
      /\ w \notin Reporting(aTask)
    <2>1. w \notin Reporting(aTask)
        BY <1>1 DEF Reporting
    <2> QED BY <1>1, <1>4, <1>5, <2>1, TaskBecomes
<1>8. Gone(entries', written') = Gone(entries, written) \cup D
    BY <1>1, <1>2, <1>6 DEF Gone, LogInv
<1>9. Gone(entries, written) \cap D = {}
    BY <1>2 DEF Gone
<1>10. /\ Cardinality(Gone(entries', written')) = Cardinality(Gone(entries, written)) + n
       /\ Cardinality(Gone(entries, written)) \in Nat
    <2> DEFINE G == Gone(entries, written)
    <2>1. IsFiniteSet(G) /\ Cardinality(G) \in Nat
        BY GoneFinite, FS_CardinalityType
    <2> HIDE DEF G
    <2>2. Cardinality(G \cup D) = Cardinality(G) + Cardinality(D) - Cardinality(G \cap D)
        BY <1>3, <2>1, FS_Union
    <2>3. G \cap D = {} /\ Cardinality({}) = 0
        BY <1>9, FS_EmptySet DEF G
    <2> DEFINE k == Cardinality(G)
    <2>4. k \in Nat /\ Cardinality(G \cup D) = k + n - 0
        BY <1>3, <2>1, <2>2, <2>3
    <2> HIDE DEF k
    <2>5. Cardinality(G \cup D) = k + n
        BY <1>3, <2>4
    <2> QED BY <1>8, <2>1, <2>5 DEF G, k
<1>11. /\ ToTell(aTask', Reporting(aTask')) = ToTell(aTask, Reporting(aTask)) + n
       /\ ToTell(aTask, Reporting(aTask)) \in Nat
    <2>1. \A x \in Reporting(aTask) :
             aTask'[x].count = aTask[x].count /\ aTask[x].count \in Nat
        BY <1>7 DEF Reporting, RemovalsInv, RemovalOK
    <2>2. aTask'[w].count = n
        BY <1>4, <1>7
    <2> DEFINE R == Reporting(aTask)
               us == aTask'
               U == R \cup {w}
    <2>3. /\ IsFiniteSet(R) /\ w \notin R /\ us[w].count \in Nat
          /\ \A x \in R : us[x].count = aTask[x].count /\ aTask[x].count \in Nat
        BY <1>3, <1>7, <2>1, <2>2, ReportingFinite
    <2>4. Joins(R, w, U)
        BY <2>3 DEF Joins
    <2> HIDE DEF R, us, U
    <2>5. /\ ToTell(aTask, R) \in Nat
          /\ ToTell(us, U) = ToTell(aTask, R) + us[w].count
        BY <2>3, <2>4, ToTellAdds
    <2> QED BY <1>7, <2>2, <2>5 DEF R, us, U
<1>12. ~lost' => AddsUp(entries', written', reported', aTask')
    BY <1>1, <1>3, <1>10, <1>11 DEF RemovalsInv, AddsUp
<1>13. ~lost' => Traced(entries', written', aTask')
    <2>1. CASE D = {}
        <3>1. /\ Gone(entries', written') = Gone(entries, written)
              /\ DOMAIN entries' = DOMAIN entries
            BY <1>6, <1>8, <2>1
        <3>2. \A v \in Reporting(aTask) : v \in Reporting(aTask') /\ aTask'[v] = aTask[v]
            BY <1>7 DEF Reporting
        <3> QED BY <1>1, <1>6, <3>1, <3>2 DEF RemovalsInv, Traced
    <2>2. CASE D # {}
        <3>1. n > 0
            BY <1>3, <2>2, FS_EmptySet
        <3>2. w \in Reporting(aTask') /\ aTask'[w].count > 0
            BY <1>4, <1>7, <3>1
        <3> QED BY <3>2 DEF Traced
    <2> QED BY <2>1, <2>2
<1> QED BY <1>1, <1>6, <1>7, <1>12, <1>13 DEF RemovalsInv

\* A removal is told of.
LEMMA RemovalsReport ==
    ASSUME LogInv, RemovalsInv, NEW w \in Workers, NEW ip \in Ips \cup {Private},
           Audit!Report(w, ip)
    PROVE  LogInv' /\ RemovalsInv'
<1> DEFINE n == aTask[w].count
           R == Reporting(aTask')
<1>1. /\ aTask[w].step = "report" /\ Audit!Insert("admin", ip, n)
      /\ reported' = reported + n /\ Audit!Become(w, Audit!Idle)
      /\ UNCHANGED <<month, known, lost>>
    BY DEF Audit!Report, Audit!At
<1>2. n \in Nat
    BY <1>1 DEF RemovalsInv, RemovalOK
<1> HIDE DEF n
<1>3. /\ LogInv' /\ written' = written + 1
      /\ DOMAIN entries' = DOMAIN entries \cup {written + 1}
      /\ \A i \in DOMAIN entries : entries'[i] = entries[i]
      /\ entries'[written + 1].tells = n
    BY <1>1, <1>2, LogInsert DEF Audit!Views
<1>4. RemovalOK(Audit!Idle) /\ Audit!Idle.step # "report"
    BY DEF RemovalOK, Audit!Idle
<1>5. /\ aTask' = [v \in Workers |-> aTask'[v]]
      /\ \A v \in Workers \ {w} : aTask'[v] = aTask[v]
      /\ \A v \in Workers : RemovalOK(aTask'[v])
      /\ R = Reporting(aTask) \ {w}
    BY <1>1, <1>4, TaskBecomes
<1>6. Reporting(aTask) = R \cup {w} /\ w \notin R
    BY <1>1, <1>5 DEF Reporting
<1> HIDE DEF R
<1>7. Gone(entries', written') = Gone(entries, written)
    <2>1. 1..written' = (1..written) \cup {written + 1} /\ written + 1 \notin 1..written
        BY <1>3 DEF LogInv
    <2> QED BY <1>3, <2>1 DEF Gone
<1>8. /\ ToTell(aTask, Reporting(aTask)) = ToTell(aTask', R) + n
      /\ ToTell(aTask', R) \in Nat
    <2>1. \A x \in R : aTask[x].count = aTask'[x].count /\ aTask'[x].count \in Nat
        BY <1>5, <1>6 DEF Reporting, RemovalsInv, RemovalOK
    <2> DEFINE ts == aTask'
               U == R \cup {w}
    <2>2. /\ IsFiniteSet(R) /\ w \notin R /\ aTask[w].count \in Nat
          /\ \A x \in R : aTask[x].count = ts[x].count /\ ts[x].count \in Nat
        BY <1>2, <1>6, <2>1, ReportingFinite DEF R, n
    <2>3. Joins(R, w, U)
        BY <2>2 DEF Joins
    <2> HIDE DEF ts, U
    <2>4. /\ ToTell(ts, R) \in Nat
          /\ ToTell(aTask, U) = ToTell(ts, R) + aTask[w].count
        BY <2>2, <2>3, ToTellAdds
    <2> QED BY <1>6, <2>4 DEF ts, n, U
<1>9. reported \in Nat
    BY DEF RemovalsInv
<1>10. ~lost' => AddsUp(entries', written', reported', aTask')
    BY <1>1, <1>2, <1>7, <1>8, <1>9 DEF RemovalsInv, AddsUp, R
<1>11. ~lost' => Traced(entries', written', aTask')
    <2>1. ASSUME NEW i \in DOMAIN entries, entries[i].tells > 0
          PROVE  i \in DOMAIN entries' /\ entries'[i].tells > 0
        BY <1>3, <2>1
    <2>2. CASE n > 0
        BY <1>3, <2>2 DEF Traced
    <2>3. ASSUME ~(n > 0), NEW v \in Reporting(aTask), aTask[v].count > 0
          PROVE  v \in Reporting(aTask') /\ aTask'[v].count > 0
        <3>1. v # w /\ v \in Workers
            BY <2>3 DEF n, Reporting
        <3> QED BY <1>5, <1>6, <2>3, <3>1 DEF R
    <2> QED BY <1>1, <1>7, <2>1, <2>2, <2>3 DEF RemovalsInv, Traced
<1>12. reported' \in Nat /\ lost' \in BOOLEAN
    BY <1>1, <1>2, <1>9 DEF RemovalsInv
<1> QED BY <1>3, <1>5, <1>10, <1>11, <1>12 DEF RemovalsInv

\* The process starts again, and with it every request and lookup.
LEMMA AuditRestarts ==
    ASSUME LogInv, RemovalsInv, Audit!Restart
    PROVE  LogInv' /\ RemovalsInv'
<1>1. /\ known' = <<>> /\ lookups' = <<>>
      /\ aTask' = [w \in Workers |-> Audit!Idle]
      /\ lost' = (lost \/ \E w \in Workers : aTask[w].step = "report")
      /\ UNCHANGED <<entries, written, month, reported>>
    BY DEF Audit!Restart, Audit!At
<1>2. LogInv'
    <2>1. DOMAIN known' = {} /\ DOMAIN lookups' = {}
        BY <1>1
    <2>2. lookups' \in [DOMAIN lookups' -> LookTask \cup KnowTask]
        BY <1>1
    <2> QED BY <1>1, <2>1, <2>2 DEF LogInv
<1>3. /\ aTask' = [w \in Workers |-> aTask'[w]]
      /\ \A w \in Workers : RemovalOK(aTask'[w])
      /\ Reporting(aTask') = {}
    BY <1>1 DEF RemovalOK, Audit!Idle, Reporting
<1>4. reported' \in Nat /\ lost' \in BOOLEAN
    BY <1>1 DEF RemovalsInv
<1>5. ASSUME ~lost'
      PROVE  Reporting(aTask) = {} /\ ~lost
    BY <1>1, <1>5 DEF Reporting, RemovalsInv
<1>6. ~lost' => AddsUp(entries', written', reported', aTask')
    BY <1>1, <1>3, <1>5, ToTellNothing DEF RemovalsInv, AddsUp
<1>7. ~lost' => Traced(entries', written', aTask')
    BY <1>1, <1>5 DEF RemovalsInv, Traced
<1> QED BY <1>2, <1>3, <1>4, <1>6, <1>7 DEF RemovalsInv

\* A removal is asked for.
LEMMA RemovalAsked ==
    ASSUME LogInv, RemovalsInv, NEW w \in Workers, NEW t, RemovalOK(t),
           t.step = "delete", Audit!At(w, "idle"), Audit!Become(w, t),
           UNCHANGED <<entries, written, month, known, lookups, reported, lost>>
    PROVE  LogInv' /\ RemovalsInv'
<1>1. LogInv'
    BY DEF LogInv
<1>2. /\ aTask' = [v \in Workers |-> aTask'[v]]
      /\ \A v \in Workers \ {w} : aTask'[v] = aTask[v]
      /\ \A v \in Workers : RemovalOK(aTask'[v])
      /\ Reporting(aTask') = Reporting(aTask) \ {w}
    BY TaskBecomes
<1>3. w \notin Reporting(aTask)
    BY DEF Reporting, Audit!At
<1>4. /\ Reporting(aTask') = Reporting(aTask)
      /\ \A v \in Reporting(aTask) : aTask'[v] = aTask[v]
    BY <1>2, <1>3 DEF Reporting
<1>5. Gone(entries', written') = Gone(entries, written)
    OBVIOUS
<1> QED BY <1>1, <1>2, <1>4, <1>5, RemovalsKept

LEMMA AuditRemoval ==
    ASSUME LogInv, RemovalsInv, NEW w \in Workers, Audit!Removal(w)
    PROVE  LogInv' /\ RemovalsInv'
<1>1. ASSUME NEW view \in Audit!Views, NEW preset \in DOMAIN Audit!MonthsBack,
             Audit!Cleanup(w, view, preset)
      PROVE  LogInv' /\ RemovalsInv'
    <2> DEFINE c == month - Audit!MonthsBack[preset]
               t == [step |-> "delete", view |-> view, how |-> "age",
                     cutoff |-> c, asked |-> c]
    <2>1. /\ Audit!At(w, "idle") /\ Audit!Become(w, t)
          /\ UNCHANGED <<entries, written, month, known, lookups, reported, lost>>
        BY <1>1 DEF Audit!Cleanup, Audit!Cutoff
    <2> HIDE DEF c
    <2>2. RemovalOK(t) /\ t.step = "delete"
        BY DEF RemovalOK
    <2> HIDE DEF t
    <2> QED BY <2>1, <2>2, RemovalAsked
<1>2. ASSUME NEW view \in Audit!Views, NEW ids \in SUBSET (1..MaxId),
             Audit!DeleteSelected(w, view, ids)
      PROVE  LogInv' /\ RemovalsInv'
    <2> DEFINE t == [step |-> "delete", view |-> view, how |-> "choice", ids |-> ids]
    <2>1. /\ Audit!At(w, "idle") /\ Audit!Become(w, t)
          /\ UNCHANGED <<entries, written, month, known, lookups, reported, lost>>
        BY <1>2 DEF Audit!DeleteSelected
    <2>2. RemovalOK(t) /\ t.step = "delete"
        BY DEF RemovalOK
    <2> HIDE DEF t
    <2> QED BY <2>1, <2>2, RemovalAsked
<1>3. CASE Audit!Delete(w)
    BY <1>3, RemovalsDelete
<1>4. CASE Audit!DeleteFails(w)
    <2>1. /\ Audit!Remove(w) \/ UNCHANGED entries
          /\ Audit!Become(w, Audit!Idle) /\ lost' = TRUE /\ reported' = reported
          /\ UNCHANGED <<written, month, known, lookups>>
        BY <1>4 DEF Audit!DeleteFails
    <2>2. Audit!Remove(w) => LogInv'
        BY <2>1, LogRemove DEF Audit!Remove
    <2>3. UNCHANGED entries => LogInv'
        BY <2>1 DEF LogInv
    <2> QED BY <2>1, <2>2, <2>3, RemovalsLost
<1>5. ASSUME NEW ip \in Audit!Addresses, Audit!Report(w, ip)
      PROVE  LogInv' /\ RemovalsInv'
    BY <1>5, RemovalsReport DEF Audit!Addresses
<1>6. CASE Audit!ReportFails(w)
    <2>1. /\ Audit!Become(w, Audit!Idle) /\ lost' = TRUE /\ reported' = reported
          /\ UNCHANGED <<entries, written, month, known, lookups>>
        BY <1>6 DEF Audit!ReportFails
    <2>2. LogInv'
        BY <2>1 DEF LogInv
    <2> QED BY <2>1, <2>2, RemovalsLost
<1> QED BY <1>1, <1>2, <1>3, <1>4, <1>5, <1>6 DEF Audit!Removal

\* Steps that leave the removals and the entries they speak of alone.
LEMMA RemovalsApart ==
    ASSUME LogInv, RemovalsInv, UNCHANGED <<aTask, reported, lost>>,
           \/ DOMAIN entries' = DOMAIN entries /\ written' = written
           \/ /\ written' = written + 1
              /\ DOMAIN entries' = DOMAIN entries \cup {written + 1},
           \A i \in DOMAIN entries : entries'[i].tells = entries[i].tells
    PROVE  RemovalsInv'
<1>1. Gone(entries', written') = Gone(entries, written)
    <2>1. CASE DOMAIN entries' = DOMAIN entries /\ written' = written
        BY <2>1 DEF Gone
    <2>2. CASE /\ written' = written + 1
               /\ DOMAIN entries' = DOMAIN entries \cup {written + 1}
        <3>1. 1..written' = (1..written) \cup {written + 1} /\ written + 1 \notin 1..written
            BY <2>2 DEF LogInv
        <3> QED BY <2>2, <3>1 DEF Gone
    <2> QED BY <2>1, <2>2
<1>2. \A i \in DOMAIN entries : i \in DOMAIN entries'
    OBVIOUS
<1>3. /\ aTask' = [w \in Workers |-> aTask'[w]]
      /\ \A w \in Workers : RemovalOK(aTask'[w])
    BY DEF RemovalsInv
<1> QED BY <1>1, <1>2, <1>3, RemovalsKept

LEMMA AuditStep ==
    ASSUME AuditIInv, [Audit!Next]_(Audit!vars)
    PROVE  AuditIInv'
<1>0. LogInv /\ RemovalsInv
    BY DEF AuditIInv
<1> SUFFICES LogInv' /\ RemovalsInv'
    BY DEF AuditIInv
<1>1. ASSUME NEW view \in Audit!Views, NEW ip \in Audit!Addresses, Audit!Log(view, ip)
      PROVE  LogInv' /\ RemovalsInv'
    <2>1. Audit!Insert(view, ip, 0) /\ UNCHANGED <<month, known, aTask, reported, lost>>
        BY <1>1 DEF Audit!Log
    <2>2. /\ LogInv' /\ written' = written + 1
          /\ DOMAIN entries' = DOMAIN entries \cup {written + 1}
          /\ \A i \in DOMAIN entries : entries'[i] = entries[i]
        BY <1>0, <2>1, LogInsert DEF Audit!Addresses
    <2> QED BY <1>0, <2>1, <2>2, RemovalsApart
<1>2. ASSUME NEW id \in DOMAIN lookups, Audit!Geolocation(id)
      PROVE  LogInv' /\ RemovalsInv'
    BY <1>0, <1>2, LogGeolocation, RemovalsApart
<1>3. ASSUME NEW ip \in Ips, Audit!Expire(ip)
      PROVE  LogInv' /\ RemovalsInv'
    <2>1. /\ known' = [a \in DOMAIN known \ {ip} |-> known[a]]
          /\ UNCHANGED <<entries, written, month, lookups, aTask, reported, lost>>
        BY <1>3 DEF Audit!Expire, Audit!Without, Audit!Restrict
    <2>2. /\ DOMAIN known' \subseteq Ips
          /\ \A a \in DOMAIN known' : known'[a] \in {a, Unknown}
        BY <1>0, <2>1 DEF LogInv
    <2>3. LogInv'
        BY <1>0, <2>1, <2>2 DEF LogInv
    <2> QED BY <1>0, <2>1, <2>3, RemovalsApart
<1>4. ASSUME NEW w \in Workers, Audit!Removal(w)
      PROVE  LogInv' /\ RemovalsInv'
    BY <1>0, <1>4, AuditRemoval
<1>5. CASE Audit!MonthPasses
    <2>1. /\ month' \in Months
          /\ UNCHANGED <<entries, written, known, lookups, aTask, reported, lost>>
        BY <1>5 DEF Audit!MonthPasses
    <2>2. LogInv'
        BY <1>0, <2>1 DEF LogInv
    <2> QED BY <1>0, <2>1, <2>2, RemovalsApart
<1>6. CASE Audit!Restart
    BY <1>0, <1>6, AuditRestarts
<1>7. CASE UNCHANGED Audit!vars
    BY <1>0, <1>7 DEF Audit!vars, LogInv, RemovalsInv, AddsUp, Traced
<1> QED BY <1>1, <1>2, <1>3, <1>4, <1>5, <1>6, <1>7 DEF Audit!Next

LEMMA AuditStarts ==
    ASSUME Audit!Init
    PROVE  AuditIInv
<1>1. /\ entries = <<>> /\ written = 0 /\ month = Audit!Earliest /\ known = <<>>
      /\ lookups = <<>> /\ aTask = [w \in Workers |-> Audit!Idle]
      /\ reported = 0 /\ lost = FALSE
    BY DEF Audit!Init
<1>2. month \in Months
    <2>1. \E m \in Months : \A n \in Months : m <= n
        BY AuditConstants, LeastNat
    <2> QED BY <1>1, <2>1 DEF Audit!Earliest
<1>3. written \in 0..MaxId /\ 1..written = {}
    BY <1>1, AuditConstants
<1>4. DOMAIN entries = {} /\ DOMAIN known = {} /\ DOMAIN lookups = {}
    BY <1>1
<1>5. entries \in [DOMAIN entries -> Entry]
    BY <1>1
<1>6. lookups \in [DOMAIN lookups -> LookTask \cup KnowTask]
    BY <1>1
<1>7. LogInv
    BY <1>2, <1>3, <1>4, <1>5, <1>6 DEF LogInv
<1>8. /\ aTask = [w \in Workers |-> aTask[w]]
      /\ \A w \in Workers : RemovalOK(aTask[w])
      /\ Reporting(aTask) = {}
    BY <1>1 DEF RemovalOK, Audit!Idle, Reporting
<1>9. Gone(entries, written) = {}
    BY <1>3 DEF Gone
<1>10. Cardinality(Gone(entries, written)) = reported + ToTell(aTask, Reporting(aTask))
    <2>1. ToTell(aTask, Reporting(aTask)) = 0
        BY <1>8, ToTellNothing
    <2>2. Cardinality(Gone(entries, written)) = 0
        BY <1>9, FS_EmptySet
    <2> QED BY <1>1, <2>1, <2>2
<1> QED BY <1>1, <1>7, <1>8, <1>9, <1>10 DEF AuditIInv, RemovalsInv, AddsUp, Traced

LEMMA AuditIInvHolds ==
    ASSUME AuditIInv
    PROVE  AuditInv
<1>1. LogInv /\ RemovalsInv
    BY DEF AuditIInv
<1>2. Audit!TypeOK /\ Audit!CountryIsOwn
    BY <1>1 DEF LogInv, Audit!TypeOK, Audit!CountryIsOwn
<1>3. /\ Audit!Removed = Gone(entries, written)
      /\ Audit!InFlight = Reporting(aTask)
    BY DEF Audit!Removed, Gone, Audit!InFlight, Reporting, Audit!At
<1>4. Audit!EveryRemovalIsReported
    <2>1. ~lost => Audit!Cardinality(Audit!Removed)
                     = reported + ToTell(aTask, Audit!InFlight)
        BY <1>1, <1>3, AuditSets DEF RemovalsInv, AddsUp
    <2> QED BY <2>1 DEF Audit!EveryRemovalIsReported, ToTell
<1>5. Audit!ATrailRemains
    BY <1>1, <1>3 DEF RemovalsInv, Traced, Audit!ATrailRemains
<1> QED BY <1>2, <1>4, <1>5 DEF AuditInv, Audit!AuditInv

\* The log's account of removals adds up, a trace of them remains, and an
\* entry shows only its own country (audit_log_service.go,
\* admin_audit_log_controller.go).
THEOREM RemovalsAreAccounted == Audit!Spec => []AuditInv
<1>1. Audit!Init => AuditIInv
    BY AuditStarts
<1>2. AuditIInv /\ [Audit!Next]_(Audit!vars) => AuditIInv'
    BY AuditStep
<1>3. AuditIInv => AuditInv
    BY AuditIInvHolds
<1> QED BY <1>1, <1>2, <1>3, PTL DEF Audit!Spec

\* What the entries of a step's two states have to do with each other.
EntriesStep ==
    /\ \A i \in DOMAIN entries \ DOMAIN entries' :
          \E w \in Workers :
             LET t == aTask[w] IN
             /\ Audit!At(w, "delete") /\ ~Audit!At(w, "delete")'
             /\ t.view = entries[i].view
             /\ IF t.how = "age" THEN entries[i].month < t.asked ELSE i \in t.ids
    /\ \A i \in DOMAIN entries' \ DOMAIN entries : i > written

\* A removal takes what it was asked to take.
LEMMA RemoveAsAsked ==
    ASSUME AuditIInv, NEW w \in Workers, Audit!At(w, "delete"), Audit!Remove(w),
           NEW t, t.step # "delete", Audit!Become(w, t)
    PROVE  EntriesStep
<1> DEFINE D == Audit!Doomed(aTask[w])
<1>1. entries' = [i \in DOMAIN entries \ D |-> entries[i]]
    BY DEF Audit!Remove, Audit!Without, Audit!Restrict
<1>2. /\ aTask[w].step = "delete" /\ RemovalOK(aTask[w])
      /\ aTask = [v \in Workers |-> aTask[v]]
    BY DEF Audit!At, AuditIInv, RemovalsInv
<1>3. aTask'[w].step # "delete"
    BY <1>2 DEF Audit!Become
<1>4. ASSUME NEW i \in D
      PROVE  /\ aTask[w].view = entries[i].view
             /\ IF aTask[w].how = "age" THEN entries[i].month < aTask[w].asked
                ELSE i \in aTask[w].ids
    BY <1>2 DEF Audit!Doomed, RemovalOK
<1> HIDE DEF D
<1>5. DOMAIN entries' = DOMAIN entries \ D
    BY <1>1
<1>6. Audit!At(w, "delete") /\ ~Audit!At(w, "delete")'
    BY <1>3 DEF Audit!At
<1>7. \A i \in DOMAIN entries \ DOMAIN entries' : i \in D
    BY <1>5
<1>8. DOMAIN entries' \ DOMAIN entries = {}
    BY <1>5
<1> QED BY <1>4, <1>6, <1>7, <1>8 DEF EntriesStep

\* Entries disappear only by a removal that was asked to take them, from its
\* own view, and none comes back (audit_log_repository.go).
THEOREM EntriesGoWhenAsked == Audit!Spec => EntriesGoAsAsked
<1>1. Audit!Init => AuditIInv
    BY AuditStarts
<1>2. AuditIInv /\ [Audit!Next]_(Audit!vars) => AuditIInv'
    BY AuditStep
<1>3. ASSUME AuditIInv, [Audit!Next]_(Audit!vars)
      PROVE  [EntriesStep]_(Audit!vars)
    <2>0. LogInv /\ RemovalsInv
        BY <1>3 DEF AuditIInv
    <2>1. ASSUME DOMAIN entries' = DOMAIN entries
          PROVE  EntriesStep
        BY <2>1 DEF EntriesStep
    <2>2. ASSUME NEW view, NEW ip, NEW tells, Audit!Insert(view, ip, tells)
          PROVE  EntriesStep
        <3>1. DOMAIN entries' = DOMAIN entries \cup {written + 1}
            BY <2>2 DEF Audit!Insert, Audit!Put
        <3>2. written + 1 > written
            BY <2>0 DEF LogInv
        <3> QED BY <3>1, <3>2 DEF EntriesStep
    <2>3. ASSUME NEW view, NEW ip, Audit!Log(view, ip)
          PROVE  EntriesStep
        BY <2>2, <2>3 DEF Audit!Log
    <2>4. ASSUME NEW id \in DOMAIN lookups, Audit!Geolocation(id)
          PROVE  EntriesStep
        BY <2>0, <2>1, <2>4, LogGeolocation
    <2>5. ASSUME NEW w \in Workers, Audit!Removal(w)
          PROVE  EntriesStep
        <3>1. ASSUME NEW view, NEW preset, Audit!Cleanup(w, view, preset)
              PROVE  EntriesStep
            BY <2>1, <3>1 DEF Audit!Cleanup
        <3>2. ASSUME NEW view, NEW ids, Audit!DeleteSelected(w, view, ids)
              PROVE  EntriesStep
            BY <2>1, <3>2 DEF Audit!DeleteSelected
        <3>3. CASE Audit!Delete(w)
            <4> DEFINE t == [step |-> "report", view |-> aTask[w].view,
                             count |-> Audit!Affected(aTask[w])]
            <4>1. Audit!At(w, "delete") /\ Audit!Remove(w) /\ Audit!Become(w, t)
                BY <3>3 DEF Audit!Delete
            <4>2. t.step # "delete"
                OBVIOUS
            <4> HIDE DEF t
            <4> QED BY <1>3, <4>1, <4>2, RemoveAsAsked
        <3>4. CASE Audit!DeleteFails(w)
            <4>1. /\ Audit!At(w, "delete") /\ Audit!Become(w, Audit!Idle)
                  /\ Audit!Remove(w) \/ UNCHANGED entries
                BY <3>4 DEF Audit!DeleteFails
            <4>2. Audit!Idle.step # "delete"
                BY DEF Audit!Idle
            <4>3. UNCHANGED entries => EntriesStep
                BY <2>1
            <4> QED BY <1>3, <4>1, <4>2, <4>3, RemoveAsAsked
        <3>5. ASSUME NEW ip, Audit!Report(w, ip)
              PROVE  EntriesStep
            BY <2>2, <3>5 DEF Audit!Report
        <3>6. CASE Audit!ReportFails(w)
            BY <2>1, <3>6 DEF Audit!ReportFails
        <3> QED BY <2>5, <3>1, <3>2, <3>3, <3>4, <3>5, <3>6 DEF Audit!Removal
    <2>6. ASSUME NEW ip, Audit!Expire(ip)
          PROVE  EntriesStep
        BY <2>1, <2>6 DEF Audit!Expire
    <2>7. CASE Audit!MonthPasses
        BY <2>1, <2>7 DEF Audit!MonthPasses
    <2>8. CASE Audit!Restart
        BY <2>1, <2>8 DEF Audit!Restart
    <2> QED BY <1>3, <2>3, <2>4, <2>5, <2>6, <2>7, <2>8 DEF Audit!Next
<1>4. [][EntriesStep]_(Audit!vars) => EntriesGoAsAsked
    BY DEF EntriesGoAsAsked, Audit!EntriesGoAsAsked, EntriesStep
<1> QED BY <1>1, <1>2, <1>3, <1>4, PTL DEF Audit!Spec
-----------------------------------------------------------------------------
(* The catalogue.                                                          *)

LEMMA ShopConstants ==
    /\ Words # {} /\ Texts # {}
    /\ IsFiniteSet(Products) /\ IsFiniteSet(Workers)
    /\ MaxFaults \in Nat
<1>1. Shop!CatalogueAssumption
    BY CachesAssumption DEF CachesAssumption
<1>2. \A S : Shop!IsFiniteSet(S) = IsFiniteSet(S)
    BY DEF Shop!IsFiniteSet, IsFiniteSet
<1> QED BY <1>1, <1>2 DEF Shop!CatalogueAssumption

LEMMA ShopSize ==
    ASSUME NEW S
    PROVE  Shop!Cardinality(S) = Cardinality(S)
BY DEF Shop!Cardinality, Cardinality

HandedTask == [step: {"remember", "edit", "copy", "save", "remove"},
               op: Shop!Operations, product: Products, content: Shop!Contents,
               object: Shop!Objects, left: SUBSET Words, row: Shop!Contents]
AskTask == [step: {"insert", "remove"}, op: Shop!Operations, product: Products,
            content: Shop!Contents]
BareTask == [step: {"idle", "clear", "clearcats"}]
FindTask == [step: {"find"}, total: Nat]
ListTask == [step: {"setlist"}, total: Nat, found: Shop!Table]
CountTask == [step: {"count"}, cats: SUBSET Categories]
SetTask == [step: {"setcats"}, cats: SUBSET Categories, count: Nat]

ShopTask == HandedTask \cup AskTask \cup BareTask \cup FindTask \cup ListTask
                \cup CountTask \cup SetTask

ShopTypes == Shop!TypeOK /\ cTask \in [Workers -> ShopTask]

\* The step of a request says what it carries.
LEMMA ShopTasks ==
    ASSUME NEW t \in ShopTask
    PROVE  /\ t.step \in {"remember", "edit", "copy", "save"} => t \in HandedTask
           /\ t.step = "insert" => t \in AskTask
           /\ t.step = "remove" => t \in HandedTask \cup AskTask
           /\ t.step = "setlist" => t \in ListTask
           /\ t.step = "find" => t \in FindTask
           /\ t.step = "count" => t \in CountTask
           /\ t.step = "setcats" => t \in SetTask
           /\ t.step = "idle" => t \notin HandedTask
BY DEF ShopTask, HandedTask, AskTask, BareTask, FindTask, ListTask, CountTask, SetTask

LEMMA HandedHasObject ==
    ASSUME NEW t \in ShopTask
    PROVE  "object" \in DOMAIN t <=> t \in HandedTask
<1>1. t \in HandedTask => "object" \in DOMAIN t
    BY DEF HandedTask
<1>2. t \in AskTask => "object" \notin DOMAIN t
    BY DEF AskTask
<1>3. t \in BareTask => "object" \notin DOMAIN t
    BY DEF BareTask
<1>4. t \in FindTask => "object" \notin DOMAIN t
    BY DEF FindTask
<1>5. t \in ListTask => "object" \notin DOMAIN t
    BY DEF ListTask
<1>6. t \in CountTask => "object" \notin DOMAIN t
    BY DEF CountTask
<1>7. t \in SetTask => "object" \notin DOMAIN t
    BY DEF SetTask
<1> QED BY <1>1, <1>2, <1>3, <1>4, <1>5, <1>6, <1>7 DEF ShopTask

\* A table is a function on some products.
LEMMA Tables ==
    /\ \A f \in Shop!Table : f \in [DOMAIN f -> Shop!Contents] /\ DOMAIN f \subseteq Products
    /\ \A ps \in SUBSET Products : [ps -> Shop!Contents] \subseteq Shop!Table
BY DEF Shop!Table

LEMMA TableSize ==
    ASSUME NEW f \in Shop!Table
    PROVE  Shop!Cardinality(DOMAIN f) \in Nat
<1>1. DOMAIN f \in SUBSET Products
    BY Tables
<1> QED BY <1>1, ShopSize, ShopConstants, FS_Subset, FS_CardinalityType

LEMMA TablePut ==
    ASSUME NEW f \in Shop!Table, NEW p \in Products, NEW x \in Shop!Contents
    PROVE  Shop!Put(f, p, x) \in Shop!Table
<1>1. f \in [DOMAIN f -> Shop!Contents] /\ DOMAIN f \subseteq Products
    BY Tables
<1>2. Shop!Put(f, p, x) \in [DOMAIN f \cup {p} -> Shop!Contents]
    BY <1>1 DEF Shop!Put
<1>3. DOMAIN f \cup {p} \in SUBSET Products
    BY <1>1
<1> QED BY <1>2, <1>3, Tables

LEMMA TableRemove ==
    ASSUME NEW f \in Shop!Table, NEW S
    PROVE  Shop!Restrict(f, DOMAIN f \ S) \in Shop!Table
<1>1. f \in [DOMAIN f -> Shop!Contents] /\ DOMAIN f \subseteq Products
    BY Tables
<1>2. Shop!Restrict(f, DOMAIN f \ S) \in [DOMAIN f \ S -> Shop!Contents]
    BY <1>1 DEF Shop!Restrict
<1>3. DOMAIN f \ S \in SUBSET Products
    BY <1>1
<1> QED BY <1>2, <1>3, Tables

-----------------------------------------------------------------------------

\* A request that holds nothing finds an object that nothing refers to.
LEMMA FreeObjectIsFree ==
    ASSUME ShopTypes, NEW w \in Workers, cTask[w].step = "idle"
    PROVE  /\ Shop!FreeObject \in Shop!Objects
           /\ \A v \in Workers : cTask[v] \in HandedTask => cTask[v].object # Shop!FreeObject
           /\ \A p \in DOMAIN detail : detail[p] # Shop!FreeObject
<1> DEFINE H == {v \in Workers : cTask[v] \in HandedTask}
           A == {cTask[v].object : v \in H}
           B == {detail[p] : p \in DOMAIN detail}
           nP == Cardinality(Products)
           nW == Cardinality(Workers)
<1>1. /\ cTask \in [Workers -> ShopTask] /\ DOMAIN detail \subseteq Products
      /\ B \subseteq Shop!Objects
    BY DEF ShopTypes, Shop!TypeOK, Shop!Range
<1>2. A \subseteq Shop!Objects
    BY DEF HandedTask
<1>3. IsFiniteSet(Products) /\ IsFiniteSet(Workers) /\ nP \in Nat /\ nW \in Nat
    BY ShopConstants, FS_CardinalityType
<1>4. Shop!Objects = 1..(nP + nW)
    BY ShopSize DEF Shop!Objects
<1> HIDE DEF nP, nW
<1>5. IsFiniteSet(Shop!Objects) /\ Cardinality(Shop!Objects) = nP + nW
    <2>1. 1 \in Int /\ nP + nW \in Int /\ nP + nW >= 0
        BY <1>3
    <2>2. Cardinality(1..(nP + nW)) = IF 1 > nP + nW THEN 0 ELSE (nP + nW) - 1 + 1
        BY <2>1, FS_Interval
    <2>3. IsFiniteSet(1..(nP + nW))
        BY <2>1, FS_Interval
    <2> QED BY <1>3, <1>4, <2>2, <2>3
<1>6. w \in Workers \ H
    BY <1>1, ShopTasks
<1>7. IsFiniteSet(A) /\ Cardinality(A) \in Nat /\ Cardinality(A) <= nW - 1
    <2>1. H \in SUBSET (Workers \ {w})
        BY <1>6
    <2>2. IsFiniteSet(Workers \ {w}) /\ Cardinality(Workers \ {w}) = nW - 1
        BY <1>3, FS_RemoveElement DEF nW
    <2>3. IsFiniteSet(H) /\ Cardinality(H) <= nW - 1 /\ Cardinality(H) \in Nat
        BY <2>1, <2>2, FS_Subset, FS_CardinalityType
    <2> DEFINE f == [v \in H |-> cTask[v].object]
    <2>4. f \in Surjection(H, A)
        BY DEF Surjection
    <2> HIDE DEF f, A, H
    <2>5. IsFiniteSet(A) /\ Cardinality(A) <= Cardinality(H)
        BY <2>3, <2>4, FS_Surjection
    <2> QED BY <1>3, <2>3, <2>5, FS_CardinalityType
<1>8. IsFiniteSet(B) /\ Cardinality(B) \in Nat /\ Cardinality(B) <= nP
    <2> DEFINE D == DOMAIN detail
               f == [p \in D |-> detail[p]]
    <2>1. D \in SUBSET Products
        BY <1>1
    <2>2. f \in Surjection(D, B)
        BY DEF Surjection
    <2> HIDE DEF D, f, B
    <2>3. IsFiniteSet(D) /\ Cardinality(D) <= nP /\ Cardinality(D) \in Nat
        BY <1>3, <2>1, FS_Subset, FS_CardinalityType DEF nP
    <2>4. IsFiniteSet(B) /\ Cardinality(B) <= Cardinality(D)
        BY <2>2, <2>3, FS_Surjection
    <2> QED BY <1>3, <2>3, <2>4, FS_CardinalityType
<1> HIDE DEF A, B
<1>9. Shop!Objects \ (A \cup B) # {}
    <2>1. IsFiniteSet(A \cup B) /\ Cardinality(A \cup B) \in Nat
        BY <1>7, <1>8, FS_Union, FS_CardinalityType
    <2>2. Cardinality(A \cup B) = Cardinality(A) + Cardinality(B) - Cardinality(A \cap B)
        BY <1>7, <1>8, FS_Union
    <2>3. Cardinality(A \cap B) \in Nat
        <3>1. A \cap B \in SUBSET A
            OBVIOUS
        <3> QED BY <3>1, <1>7, FS_Subset, FS_CardinalityType
    <2>4. Cardinality(A \cup B) < nP + nW
        BY <1>3, <1>7, <1>8, <2>1, <2>2, <2>3
    <2>5. ASSUME Shop!Objects \subseteq A \cup B PROVE FALSE
        <3>1. A \cup B = Shop!Objects
            BY <1>1, <1>2, <2>5
        <3> QED BY <1>3, <1>5, <2>1, <2>4, <3>1
    <2> QED BY <2>5
<1>10. Shop!Held = A /\ Shop!Range(detail) = B
    <2>1. {v \in Workers : "object" \in DOMAIN cTask[v]} = H
        BY <1>1, HandedHasObject
    <2> QED BY <2>1 DEF Shop!Held, Shop!Range, A, B
<1> DEFINE F == Shop!Objects \ (A \cup B)
<1>11. F \in SUBSET Nat /\ F # {}
    BY <1>3, <1>4, <1>9
<1>12. Shop!FreeObject = Shop!Min(F)
    BY <1>10 DEF Shop!FreeObject
<1> HIDE DEF F
<1>13. \E m \in F : \A n \in F : m <= n
    BY <1>11, LeastNat
<1>14. Shop!FreeObject \in F
    BY <1>12, <1>13 DEF Shop!Min
<1> QED BY <1>14 DEF F, A, B, H

\* Whoever holds an object holds it for one product, the one it is cached for
\* if it is; what is about to be cached has one holder. T stands for `cTask`
\* and D for `detail`.
Own(T, D) ==
    /\ \A w \in Workers : T[w] \in HandedTask =>
          \A p \in DOMAIN D :
             T[w].object = D[p] => T[w].product = p /\ T[w].step # "remember"
    /\ \A w, v \in Workers :
          /\ T[w] \in HandedTask /\ T[v] \in HandedTask
          /\ w # v /\ T[w].object = T[v].object
          => T[w].product = T[v].product /\ T[w].step # "remember"
    /\ \A p, q \in DOMAIN D : D[p] = D[q] => p = q

\* What is stored or about to be cached was saved; H stands for `heap`, R for
\* `db` and S for `saved`.
Kept(T, H, R, S) ==
    /\ \A p \in DOMAIN R : <<p, R[p]>> \in S
    /\ \A w \in Workers :
          T[w].step = "remember" => <<T[w].product, H[T[w].object]>> \in S

\* A request enters v in the word f of the object o, and does not save another.
Enters(t, o, f, v) ==
    /\ t.step \in {"edit", "copy", "save"} /\ t.object = o /\ t.content[f] = v
    /\ (t.step = "copy" /\ f \notin t.left) \/ t.step = "save" => t.row[f] = v

\* What a word of a page shows was saved or is being entered, unless the page was
\* edited and not saved; U stands for `unsaved`.
WasSaved(p, f, v, S) == \E x \in Shop!Contents : <<p, x>> \in S /\ x[f] = v

Pages(T, D, H, S, U) ==
    \A p \in DOMAIN D \ U, f \in Words :
        \/ WasSaved(p, f, H[D[p]][f], S)
        \/ \E w \in Workers : Enters(T[w], D[p], f, H[D[p]][f])

ShopIInv ==
    /\ ShopTypes
    /\ Own(cTask, detail)
    /\ Kept(cTask, heap, db, saved)
    /\ Pages(cTask, detail, heap, saved, unsaved)

\* Pages stay among those that show what was not saved, as long as they stay.
Spares(U, V, D) == V \subseteq Products /\ \A p \in DOMAIN D : p \in U => p \in V

\* What a request held in the step t is what it held before.
StillHolds(T, w, t) ==
    t \in HandedTask =>
        /\ T[w] \in HandedTask /\ t.step # "remember"
        /\ t.object = T[w].object /\ t.product = T[w].product

Within(E, D) == DOMAIN E \subseteq DOMAIN D /\ \A p \in DOMAIN E : E[p] = D[p]

NothingRefersTo(o, T, D) ==
    /\ \A v \in Workers : T[v] \in HandedTask => T[v].object # o
    /\ \A p \in DOMAIN D : D[p] # o

\* A request goes on with what it held, or with nothing.
LEMMA OwnGoesOn ==
    ASSUME NEW T, T \in [Workers -> ShopTask], NEW D, NEW w \in Workers, NEW t,
           NEW U, U = [T EXCEPT ![w] = t], NEW E, Own(T, D),
           StillHolds(T, w, t), Within(E, D)
    PROVE  Own(U, E)
<1> USE DEF StillHolds, Within
<1>1. U[w] = t /\ \A v \in Workers \ {w} : U[v] = T[v]
    OBVIOUS
<1>2. ASSUME NEW v \in Workers, U[v] \in HandedTask
      PROVE  /\ T[v] \in HandedTask
             /\ U[v].object = T[v].object /\ U[v].product = T[v].product
             /\ U[v].step = T[v].step \/ U[v].step # "remember"
    BY <1>1, <1>2
<1>3. ASSUME NEW v \in Workers, U[v] \in HandedTask, NEW p \in DOMAIN E, U[v].object = E[p]
      PROVE  U[v].product = p /\ U[v].step # "remember"
    BY <1>2, <1>3 DEF Own
<1>4. ASSUME NEW v \in Workers, NEW x \in Workers, U[v] \in HandedTask,
             U[x] \in HandedTask, v # x, U[v].object = U[x].object
      PROVE  U[v].product = U[x].product /\ U[v].step # "remember"
    BY <1>2, <1>4 DEF Own
<1>5. \A p, q \in DOMAIN E : E[p] = E[q] => p = q
    BY DEF Own
<1> QED BY <1>3, <1>4, <1>5 DEF Own

\* A request is handed the object that is cached for its product.
LEMMA OwnHanded ==
    ASSUME NEW T, T \in [Workers -> ShopTask], NEW D, NEW w \in Workers,
           NEW t \in HandedTask, NEW U, U = [T EXCEPT ![w] = t], Own(T, D),
           NEW p \in DOMAIN D, t.object = D[p], t.product = p, t.step # "remember"
    PROVE  Own(U, D)
<1>1. U[w] = t /\ \A v \in Workers \ {w} : U[v] = T[v]
    OBVIOUS
<1>2. ASSUME NEW v \in Workers, U[v] \in HandedTask, NEW q \in DOMAIN D, U[v].object = D[q]
      PROVE  U[v].product = q /\ U[v].step # "remember"
    <2>1. CASE v = w
        BY <1>1, <1>2, <2>1 DEF Own
    <2>2. CASE v # w
        BY <1>1, <1>2, <2>2 DEF Own
    <2> QED BY <2>1, <2>2
<1>3. ASSUME NEW v \in Workers, NEW x \in Workers, U[v] \in HandedTask,
             U[x] \in HandedTask, v # x, U[v].object = U[x].object
      PROVE  U[v].product = U[x].product /\ U[v].step # "remember"
    <2>1. CASE v = w
        BY <1>1, <1>3, <2>1 DEF Own
    <2>2. CASE x = w
        BY <1>1, <1>3, <2>2 DEF Own
    <2>3. CASE v # w /\ x # w
        BY <1>1, <1>3, <2>3 DEF Own
    <2> QED BY <2>1, <2>2, <2>3
<1> QED BY <1>2, <1>3 DEF Own

\* A request makes an object that nothing refers to its own.
LEMMA OwnFresh ==
    ASSUME NEW T, T \in [Workers -> ShopTask], NEW D, NEW w \in Workers,
           NEW t \in HandedTask, NEW U, U = [T EXCEPT ![w] = t], Own(T, D),
           NothingRefersTo(t.object, T, D)
    PROVE  Own(U, D)
<1> USE DEF NothingRefersTo
<1>1. U[w] = t /\ \A v \in Workers \ {w} : U[v] = T[v]
    OBVIOUS
<1>2. ASSUME NEW v \in Workers, U[v] \in HandedTask, NEW q \in DOMAIN D, U[v].object = D[q]
      PROVE  U[v].product = q /\ U[v].step # "remember"
    BY <1>1, <1>2 DEF Own
<1>3. ASSUME NEW v \in Workers, NEW x \in Workers, U[v] \in HandedTask,
             U[x] \in HandedTask, v # x, U[v].object = U[x].object
      PROVE  U[v].product = U[x].product /\ U[v].step # "remember"
    BY <1>1, <1>3 DEF Own
<1>4. \A p, q \in DOMAIN D : D[p] = D[q] => p = q
    BY DEF Own
<1> QED BY <1>2, <1>3, <1>4 DEF Own

\* What a request found is cached.
LEMMA OwnRemembered ==
    ASSUME NEW T, T \in [Workers -> ShopTask], NEW D, NEW w \in Workers, Own(T, D),
           T[w].step = "remember", NEW E, E = Shop!Put(D, T[w].product, T[w].object),
           NEW t, NEW U, U = [T EXCEPT ![w] = t],
           t \in HandedTask =>
              /\ t.step # "remember"
              /\ t.object = T[w].object /\ t.product = T[w].product
    PROVE  Own(U, E)
<1> DEFINE k == T[w].product
           o == T[w].object
<1>1. U[w] = t /\ \A v \in Workers \ {w} : U[v] = T[v]
    OBVIOUS
<1>2. DOMAIN E = DOMAIN D \cup {k} /\ E[k] = o /\ \A p \in DOMAIN D \ {k} : E[p] = D[p]
    BY DEF Shop!Put
<1>3. T[w] \in HandedTask
    BY ShopTasks
<1>4. \A v \in Workers \ {w} : T[v] \in HandedTask => T[v].object # o
    BY <1>3 DEF Own
<1>5. \A p \in DOMAIN D : D[p] # o
    BY <1>3 DEF Own
<1> HIDE DEF k, o
<1>6. ASSUME NEW v \in Workers, U[v] \in HandedTask, NEW q \in DOMAIN E, U[v].object = E[q]
      PROVE  U[v].product = q /\ U[v].step # "remember"
    <2>1. CASE v = w
        BY <1>1, <1>2, <1>5, <1>6, <2>1 DEF k, o
    <2>2. CASE v # w
        <3>1. T[v] \in HandedTask /\ U[v] = T[v]
            BY <1>1, <1>6, <2>2
        <3>2. q # k
            BY <1>2, <1>4, <1>6, <2>2, <3>1
        <3> QED BY <1>2, <1>6, <3>1, <3>2 DEF Own
    <2> QED BY <2>1, <2>2
<1>7. ASSUME NEW v \in Workers, NEW x \in Workers, U[v] \in HandedTask,
             U[x] \in HandedTask, v # x, U[v].object = U[x].object
      PROVE  U[v].product = U[x].product /\ U[v].step # "remember"
    <2>1. v # w /\ x # w
        BY <1>1, <1>4, <1>7 DEF o
    <2> QED BY <1>1, <1>7, <2>1 DEF Own
<1>8. ASSUME NEW p \in DOMAIN E, NEW q \in DOMAIN E, E[p] = E[q]
      PROVE  p = q
    <2>1. CASE p = k \/ q = k
        BY <1>2, <1>5, <1>8, <2>1
    <2>2. CASE p # k /\ q # k
        BY <1>2, <1>8, <2>2 DEF Own
    <2> QED BY <2>1, <2>2
<1> QED BY <1>6, <1>7, <1>8 DEF Own

-----------------------------------------------------------------------------

\* A request moves on: it may drop what it held, rows may be stored or
\* removed and cache entries may go; no product in memory changes.
LEMMA ShopMoves ==
    ASSUME ShopIInv, NEW w \in Workers, NEW t \in ShopTask, Shop!Goto(w, t),
           StillHolds(cTask, w, t), t.step # "remember",
           heap' = heap,
           db' \in Shop!Table, saved \subseteq saved',
           saved' \subseteq Products \X Shop!Contents,
           \A p \in DOMAIN db' : <<p, db'[p]>> \in saved',
           cats' \subseteq Categories,
           Within(detail', detail),
           Spares(unsaved, unsaved', detail'),
           list' = NotCached \/ (list'.total \in Nat /\ list'.found \in Shop!Table),
           shown' = NotCached
              \/ (shown'.cats \subseteq Categories /\ shown'.count \in Nat),
           faults' = faults \/ Shop!Fault,
           \/ cTask[w].step \notin {"edit", "copy", "save"}
           \/ cTask[w].step = "save" /\ <<cTask[w].product, cTask[w].row>> \in saved'
           \/ \A p \in DOMAIN detail' : detail'[p] = cTask[w].object => p \in unsaved'
    PROVE  ShopIInv'
<1>1. /\ Shop!TypeOK /\ cTask \in [Workers -> ShopTask] /\ Own(cTask, detail)
      /\ Kept(cTask, heap, db, saved)
      /\ Pages(cTask, detail, heap, saved, unsaved)
    BY DEF ShopIInv, ShopTypes
<1>2. /\ cTask' = [cTask EXCEPT ![w] = t] /\ cTask' \in [Workers -> ShopTask]
      /\ cTask'[w] = t /\ \A v \in Workers \ {w} : cTask'[v] = cTask[v]
    BY <1>1 DEF Shop!Goto
<1>3. faults \in 0..MaxFaults /\ MaxFaults \in Nat
    BY <1>1, ShopConstants DEF Shop!TypeOK
<1>4. faults' \in 0..MaxFaults
    BY <1>3 DEF Shop!Fault
<1>5. Shop!TypeOK'
    <2>1. \A p \in DOMAIN detail : p \in Products /\ detail[p] \in Shop!Objects
        BY <1>1 DEF Shop!TypeOK, Shop!Range
    <2>2. DOMAIN detail' \subseteq Products /\ Shop!Range(detail') \subseteq Shop!Objects
        BY <2>1 DEF Shop!Range, Within
    <2>3. heap' \in [Shop!Objects -> Shop!Contents]
        BY <1>1 DEF Shop!TypeOK
    <2>4. unsaved' \subseteq Products
        BY DEF Spares
    <2> QED BY <1>4, <2>2, <2>3, <2>4 DEF Shop!TypeOK
<1>6. Own(cTask', detail')
    BY <1>1, <1>2, OwnGoesOn
<1>7. Kept(cTask', heap', db', saved')
    BY <1>1, <1>2 DEF Kept
<1>8. Pages(cTask', detail', heap', saved', unsaved')
    <2> SUFFICES ASSUME NEW p \in DOMAIN detail' \ unsaved', NEW f \in Words
                 PROVE  \/ WasSaved(p, f, heap'[detail'[p]][f], saved')
                        \/ \E v \in Workers : Enters(cTask'[v], detail'[p], f,
                                                     heap'[detail'[p]][f])
        BY DEF Pages
    <2> DEFINE x == heap[detail[p]][f]
    <2>1. /\ p \in DOMAIN detail \ unsaved /\ detail'[p] = detail[p]
          /\ heap'[detail'[p]][f] = x
        BY DEF Within, Spares
    <2> HIDE DEF x
    <2>2. WasSaved(p, f, x, saved) => WasSaved(p, f, x, saved')
        BY DEF WasSaved
    <2>3. WasSaved(p, f, x, saved) \/ \E v \in Workers : Enters(cTask[v], detail[p], f, x)
        BY <1>1, <2>1 DEF Pages, x
    <2>4. ASSUME NEW v \in Workers \ {w}, Enters(cTask[v], detail[p], f, x)
          PROVE  Enters(cTask'[v], detail'[p], f, x)
        BY <1>2, <2>1, <2>4
    <2>5. CASE Enters(cTask[w], detail[p], f, x)
        <3>1. cTask[w].step \in {"edit", "copy", "save"} /\ cTask[w].object = detail[p]
            BY <2>5 DEF Enters
        <3>2. cTask[w].step = "save" /\ <<cTask[w].product, cTask[w].row>> \in saved'
            BY <2>1, <3>1
        <3>3. cTask[w] \in HandedTask
            BY <1>1, <3>2, ShopTasks
        <3>4. cTask[w].product = p
            BY <1>1, <2>1, <3>1, <3>3 DEF Own
        <3>5. cTask[w].row \in Shop!Contents /\ cTask[w].row[f] = x
            BY <2>5, <3>2, <3>3 DEF HandedTask, Enters
        <3> QED BY <2>1, <3>2, <3>4, <3>5 DEF WasSaved
    <2> QED BY <2>1, <2>2, <2>3, <2>4, <2>5
<1> QED BY <1>2, <1>5, <1>6, <1>7, <1>8 DEF ShopIInv, ShopTypes

\* A request is handed what is cached.
LEMMA ShopHanded ==
    ASSUME ShopIInv, NEW w \in Workers, NEW t \in HandedTask, Shop!Goto(w, t),
           cTask[w].step = "idle", t.step # "remember",
           NEW p \in DOMAIN detail, t.object = detail[p], t.product = p,
           UNCHANGED <<heap, db, cats, detail, list, shown, saved, unsaved, faults>>
    PROVE  ShopIInv'
<1>1. /\ Shop!TypeOK /\ cTask \in [Workers -> ShopTask] /\ Own(cTask, detail)
      /\ Kept(cTask, heap, db, saved)
      /\ Pages(cTask, detail, heap, saved, unsaved)
    BY DEF ShopIInv, ShopTypes
<1>2. t \in ShopTask
    BY DEF ShopTask
<1>3. /\ cTask' = [cTask EXCEPT ![w] = t] /\ cTask' \in [Workers -> ShopTask]
      /\ cTask'[w] = t /\ \A v \in Workers \ {w} : cTask'[v] = cTask[v]
    BY <1>1, <1>2 DEF Shop!Goto
<1>4. Shop!TypeOK'
    BY <1>1 DEF Shop!TypeOK
<1>5. Own(cTask', detail')
    BY <1>1, <1>3, OwnHanded
<1>6. Kept(cTask', heap', db', saved')
    BY <1>1, <1>3 DEF Kept
<1>7. Pages(cTask', detail', heap', saved', unsaved')
    <2>1. \A v \in Workers \ {w} : cTask'[v] = cTask[v]
        BY <1>3
    <2>2. \A q, f, x : ~Enters(cTask[w], q, f, x)
        BY DEF Enters
    <2> QED BY <1>1, <2>1, <2>2 DEF Pages
<1> QED BY <1>3, <1>4, <1>5, <1>6, <1>7 DEF ShopIInv, ShopTypes

\* A request reads a row into an object of its own.
LEMMA ShopReads ==
    ASSUME ShopIInv, NEW w \in Workers, NEW t \in HandedTask, Shop!Goto(w, t),
           cTask[w].step = "idle", t.object = Shop!FreeObject, t.product \in DOMAIN db,
           heap' = [heap EXCEPT ![Shop!FreeObject] = db[t.product]],
           UNCHANGED <<db, cats, detail, list, shown, saved, unsaved, faults>>
    PROVE  ShopIInv'
<1>1. /\ Shop!TypeOK /\ cTask \in [Workers -> ShopTask] /\ Own(cTask, detail)
      /\ Kept(cTask, heap, db, saved)
      /\ Pages(cTask, detail, heap, saved, unsaved)
    BY DEF ShopIInv, ShopTypes
<1>2. t \in ShopTask
    BY DEF ShopTask
<1>3. /\ cTask' = [cTask EXCEPT ![w] = t] /\ cTask' \in [Workers -> ShopTask]
      /\ cTask'[w] = t /\ \A v \in Workers \ {w} : cTask'[v] = cTask[v]
    BY <1>1, <1>2 DEF Shop!Goto
<1> DEFINE o == Shop!FreeObject
<1>4. /\ o \in Shop!Objects
      /\ \A v \in Workers : cTask[v] \in HandedTask => cTask[v].object # o
      /\ \A p \in DOMAIN detail : detail[p] # o
    BY FreeObjectIsFree DEF ShopIInv
<1>11. NothingRefersTo(t.object, cTask, detail)
    BY <1>4 DEF NothingRefersTo
<1> HIDE DEF o
<1>5. db[t.product] \in Shop!Contents /\ heap \in [Shop!Objects -> Shop!Contents]
    BY <1>1, Tables DEF Shop!TypeOK
<1>6. /\ heap' \in [Shop!Objects -> Shop!Contents] /\ heap'[o] = db[t.product]
      /\ \A x \in Shop!Objects \ {o} : heap'[x] = heap[x]
    BY <1>4, <1>5 DEF o
<1>7. Shop!TypeOK'
    BY <1>1, <1>6 DEF Shop!TypeOK
<1>8. Own(cTask', detail')
    BY <1>1, <1>3, <1>11, OwnFresh
<1>9. Kept(cTask', heap', db', saved')
    <2>1. ASSUME NEW v \in Workers, cTask'[v].step = "remember"
          PROVE  <<cTask'[v].product, heap'[cTask'[v].object]>> \in saved'
        <3>1. CASE v = w
            BY <1>1, <1>3, <1>6, <3>1 DEF Kept, o
        <3>2. CASE v # w
            <4>1. cTask'[v] = cTask[v] /\ cTask[v] \in HandedTask
                BY <1>1, <1>3, <2>1, <3>2, ShopTasks
            <4>2. cTask[v].object \in Shop!Objects \ {o}
                BY <1>4, <4>1 DEF HandedTask
            <4> QED BY <1>1, <1>6, <2>1, <4>1, <4>2 DEF Kept
        <3> QED BY <3>1, <3>2
    <2> QED BY <1>1, <2>1 DEF Kept
<1>10. Pages(cTask', detail', heap', saved', unsaved')
    <2>1. \A p \in DOMAIN detail : heap'[detail[p]] = heap[detail[p]]
        BY <1>1, <1>4, <1>6 DEF Shop!TypeOK, Shop!Range
    <2>2. \A v \in Workers \ {w} : cTask'[v] = cTask[v]
        BY <1>3
    <2>3. \A q, f, x : ~Enters(cTask[w], q, f, x)
        BY DEF Enters
    <2> QED BY <1>1, <2>1, <2>2, <2>3 DEF Pages
<1> QED BY <1>3, <1>7, <1>8, <1>9, <1>10 DEF ShopIInv, ShopTypes

\* What the two outcomes of a lookup do with the request.
LEMMA ShopFound ==
    ASSUME NEW w, NEW t, t.op \in Shop!Operations, Shop!Found(w, t)
    PROVE  \/ t.op \in {"view", "create"} /\ Shop!Goto(w, Shop!Idle)
           \/ t.op = "update" /\ Shop!Goto(w, [t EXCEPT !.step = "edit"])
           \/ t.op = "delete" /\ Shop!Goto(w, [t EXCEPT !.step = "remove"])
BY DEF Shop!Found, Shop!Operations, Shop!Finish

LEMMA ShopNotFound ==
    ASSUME NEW w, NEW t, t.op \in Shop!Operations, Shop!NotFound(w, t)
    PROVE  \/ Shop!Goto(w, Shop!Idle)
           \/ t.op = "create" /\ Shop!Goto(w, [t EXCEPT !.step = "insert"])
           \/ t.op = "delete" /\ Shop!Goto(w, [t EXCEPT !.step = "remove"])
BY DEF Shop!NotFound, Shop!Operations, Shop!Finish

LEMMA BareTasks ==
    \A s \in {"idle", "clear", "clearcats"} :
        [step |-> s] \in ShopTask /\ [step |-> s] \notin HandedTask
BY DEF ShopTask, BareTask, HandedTask

LEMMA IdleIsBare ==
    /\ Shop!Idle \in ShopTask /\ Shop!Idle \notin HandedTask
    /\ Shop!Idle.step = "idle"
BY BareTasks DEF Shop!Idle

-----------------------------------------------------------------------------

LEMMA ShopLookup ==
    ASSUME ShopIInv, NEW w \in Workers, NEW op \in Shop!Operations, NEW p \in Products,
           NEW x \in Shop!Contents, Shop!Lookup(w, op, p, x)
    PROVE  ShopIInv'
<1> DEFINE a == [step |-> "lookup", op |-> op, product |-> p, content |-> x]
           H(s, o) == [step |-> s, op |-> op, product |-> p, content |-> x,
                       object |-> o, left |-> Words, row |-> x]
<1>1. /\ cTask[w].step = "idle"
      /\ UNCHANGED <<db, cats, detail, list, shown, saved, unsaved, faults>>
    BY DEF Shop!Lookup, Shop!At
<1>2. /\ Shop!TypeOK /\ cTask \in [Workers -> ShopTask]
      /\ Kept(cTask, heap, db, saved)
    BY DEF ShopIInv, ShopTypes
<1>3. ASSUME NEW t \in ShopTask, t \notin HandedTask, t.step # "remember",
             Shop!Goto(w, t), UNCHANGED heap
      PROVE  ShopIInv'
    <2>1. StillHolds(cTask, w, t) /\ Within(detail', detail)
        BY <1>1, <1>3 DEF StillHolds, Within
    <2>2. /\ saved \subseteq saved' /\ faults' = faults
          /\ Spares(unsaved, unsaved', detail')
          /\ cTask[w].step \notin {"edit", "copy", "save"}
        BY <1>1, <1>2 DEF Spares, Shop!TypeOK
    <2>3. /\ db' \in Shop!Table /\ saved' \subseteq Products \X Shop!Contents
          /\ \A q \in DOMAIN db' : <<q, db'[q]>> \in saved'
          /\ cats' \subseteq Categories
          /\ list' = NotCached \/ (list'.total \in Nat /\ list'.found \in Shop!Table)
          /\ shown' = NotCached
               \/ (shown'.cats \subseteq Categories /\ shown'.count \in Nat)
        BY <1>1, <1>2 DEF Shop!TypeOK, Kept
    <2> QED BY <1>3, <2>1, <2>2, <2>3, ShopMoves
<1>4. \A s \in {"insert", "remove"} :
         [a EXCEPT !.step = s] \in ShopTask /\ [a EXCEPT !.step = s] \notin HandedTask
    BY DEF ShopTask, AskTask, HandedTask
<1>5. \A s \in {"remember", "edit", "remove"}, o \in Shop!Objects : H(s, o) \in HandedTask
    BY DEF HandedTask
<1>6. CASE p \in DOMAIN detail /\ Shop!Found(w, H("lookup", detail[p])) /\ UNCHANGED heap
    <2>1. detail[p] \in Shop!Objects
        BY <1>2, <1>6 DEF Shop!TypeOK, Shop!Range
    <2> DEFINE t == H("lookup", detail[p])
    <2>2. /\ t.op = op
          /\ [t EXCEPT !.step = "edit"] = H("edit", detail[p])
          /\ [t EXCEPT !.step = "remove"] = H("remove", detail[p])
        OBVIOUS
    <2> HIDE DEF t
    <2>3. \/ Shop!Goto(w, Shop!Idle)
          \/ Shop!Goto(w, [t EXCEPT !.step = "edit"])
          \/ Shop!Goto(w, [t EXCEPT !.step = "remove"])
        BY <1>6, <2>2, ShopFound DEF t
    <2>4. ASSUME NEW s \in {"edit", "remove"}, Shop!Goto(w, H(s, detail[p]))
          PROVE  ShopIInv'
        <3> DEFINE u == H(s, detail[p])
        <3>1. /\ u \in HandedTask /\ u.object = detail[p] /\ u.product = p
              /\ u.step # "remember"
            BY <1>5, <2>1
        <3>2. Shop!Goto(w, u)
            BY <2>4
        <3> HIDE DEF u
        <3> QED BY <1>1, <1>6, <3>1, <3>2, ShopHanded
    <2> QED BY <1>3, <1>6, <2>2, <2>3, <2>4, IdleIsBare
<1>7. CASE /\ p \in DOMAIN db
           /\ heap' = [heap EXCEPT ![Shop!FreeObject] = db[p]]
           /\ Shop!Goto(w, H("remember", Shop!FreeObject))
    <2> DEFINE u == H("remember", Shop!FreeObject)
    <2>1. Shop!FreeObject \in Shop!Objects
        BY <1>1, FreeObjectIsFree DEF ShopIInv
    <2>2. u \in HandedTask /\ u.object = Shop!FreeObject /\ u.product = p
        BY <1>5, <2>1
    <2>3. Shop!Goto(w, u)
        BY <1>7
    <2> HIDE DEF u
    <2> QED BY <1>1, <1>7, <2>2, <2>3, ShopReads
<1>8. CASE Shop!NotFound(w, a) /\ UNCHANGED heap
    <2>1. a.op \in Shop!Operations
        OBVIOUS
    <2> HIDE DEF a
    <2>2. \/ Shop!Goto(w, Shop!Idle)
          \/ Shop!Goto(w, [a EXCEPT !.step = "insert"])
          \/ Shop!Goto(w, [a EXCEPT !.step = "remove"])
        BY <1>8, <2>1, ShopNotFound
    <2>3. \A s \in {"insert", "remove"} : [a EXCEPT !.step = s].step # "remember"
        BY DEF a
    <2> QED BY <1>3, <1>4, <1>8, <2>2, <2>3, IdleIsBare
<1> QED BY <1>6, <1>7, <1>8 DEF Shop!Lookup

LEMMA ShopRemember ==
    ASSUME ShopIInv, NEW w \in Workers, Shop!Remember(w)
    PROVE  ShopIInv'
<1> DEFINE c == cTask[w]
<1>1. /\ c.step = "remember" /\ detail' = Shop!Put(detail, c.product, c.object)
      /\ Shop!Found(w, c) /\ unsaved' = unsaved \ {c.product}
      /\ UNCHANGED <<db, cats, heap, list, shown, saved, faults>>
    BY DEF Shop!Remember, Shop!At
<1>2. /\ Shop!TypeOK /\ cTask \in [Workers -> ShopTask] /\ Own(cTask, detail)
      /\ Kept(cTask, heap, db, saved)
      /\ Pages(cTask, detail, heap, saved, unsaved)
    BY DEF ShopIInv, ShopTypes
<1>3. c \in HandedTask
    BY <1>1, <1>2, ShopTasks
<1>4. /\ c.op \in Shop!Operations /\ c.product \in Products /\ c.object \in Shop!Objects
    BY <1>3 DEF HandedTask
<1>5. PICK t \in ShopTask :
         /\ Shop!Goto(w, t)
         /\ t \in HandedTask => /\ t.step # "remember"
                                /\ t.object = c.object /\ t.product = c.product
         /\ t.step # "remember"
    <2>1. \A s \in {"edit", "remove"} :
             LET t == [c EXCEPT !.step = s] IN
             /\ t \in ShopTask /\ t.step # "remember"
             /\ t.object = c.object /\ t.product = c.product
        BY <1>3 DEF ShopTask, HandedTask
    <2> HIDE DEF c
    <2>2. \/ Shop!Goto(w, Shop!Idle)
          \/ Shop!Goto(w, [c EXCEPT !.step = "edit"])
          \/ Shop!Goto(w, [c EXCEPT !.step = "remove"])
        BY <1>1, <1>4, ShopFound
    <2> QED BY <2>1, <2>2, IdleIsBare
<1>6. /\ cTask' = [cTask EXCEPT ![w] = t] /\ cTask' \in [Workers -> ShopTask]
      /\ cTask'[w] = t /\ \A v \in Workers \ {w} : cTask'[v] = cTask[v]
    BY <1>2, <1>5 DEF Shop!Goto
<1>7. /\ DOMAIN detail' = DOMAIN detail \cup {c.product}
      /\ detail'[c.product] = c.object
      /\ \A p \in DOMAIN detail \ {c.product} : detail'[p] = detail[p]
    BY <1>1 DEF Shop!Put
<1>8. Shop!TypeOK'
    <2>1. \A p \in DOMAIN detail : p \in Products /\ detail[p] \in Shop!Objects
        BY <1>2 DEF Shop!TypeOK, Shop!Range
    <2>2. \A p \in DOMAIN detail' : p \in Products /\ detail'[p] \in Shop!Objects
        BY <1>4, <1>7, <2>1
    <2>3. DOMAIN detail' \subseteq Products /\ Shop!Range(detail') \subseteq Shop!Objects
        BY <2>2 DEF Shop!Range
    <2>4. unsaved' \subseteq Products
        BY <1>1, <1>2 DEF Shop!TypeOK
    <2> HIDE DEF c
    <2> QED BY <1>1, <1>2, <2>3, <2>4 DEF Shop!TypeOK
<1>9. Own(cTask', detail')
    BY <1>1, <1>2, <1>5, <1>6, OwnRemembered
<1>10. Kept(cTask', heap', db', saved')
    BY <1>1, <1>2, <1>5, <1>6 DEF Kept
<1>11. Pages(cTask', detail', heap', saved', unsaved')
    <2> SUFFICES ASSUME NEW p \in DOMAIN detail' \ unsaved', NEW f \in Words
                 PROVE  \/ WasSaved(p, f, heap[detail'[p]][f], saved)
                        \/ \E v \in Workers : Enters(cTask'[v], detail'[p], f,
                                                     heap[detail'[p]][f])
        BY <1>1 DEF Pages
    <2>1. CASE p = c.product
        <3>1. <<p, heap[detail'[p]]>> \in saved
            BY <1>1, <1>2, <1>7, <2>1 DEF Kept
        <3>2. heap[detail'[p]] \in Shop!Contents
            BY <1>2, <1>4, <1>7, <2>1 DEF Shop!TypeOK
        <3> QED BY <3>1, <3>2 DEF WasSaved
    <2>2. CASE p # c.product
        <3>1. p \in DOMAIN detail \ unsaved /\ detail'[p] = detail[p]
            BY <1>1, <1>7, <2>2
        <3>2. \A q, v : ~Enters(c, q, f, v)
            BY <1>1 DEF Enters
        <3> HIDE DEF c
        <3>3. ASSUME NEW v \in Workers, Enters(cTask[v], detail[p], f, heap[detail[p]][f])
              PROVE  Enters(cTask'[v], detail'[p], f, heap[detail'[p]][f])
            BY <1>6, <3>1, <3>2, <3>3 DEF c
        <3> QED BY <1>2, <3>1, <3>3 DEF Pages
    <2> QED BY <2>1, <2>2
<1> QED BY <1>6, <1>8, <1>9, <1>10, <1>11 DEF ShopIInv, ShopTypes

LEMMA ShopPassed ==
    ASSUME NEW t \in HandedTask, NEW f \in Words,
           NEW s \in {"copy", "save"}, NEW u, u = Shop!Passed(t, f, s)
    PROVE  /\ u \in HandedTask /\ u.object = t.object /\ u.product = t.product
           /\ u.content = t.content /\ u.row = t.row
           /\ \/ u.step = s /\ u.left = Words
              \/ u.step = t.step /\ u.left = t.left \ {f}
<1>1. CASE t.left = {f}
    BY <1>1 DEF Shop!Passed, HandedTask
<1>2. CASE t.left # {f}
    BY <1>2 DEF Shop!Passed, HandedTask
<1> QED BY <1>1, <1>2

LEMMA ShopEdit ==
    ASSUME ShopIInv, NEW w \in Workers, Shop!Edit(w)
    PROVE  ShopIInv'
<1> DEFINE c == cTask[w]
<1>0. PICK f \in Words : Shop!Assign(w, f) /\ Shop!Goto(w, Shop!Passed(c, f, "copy"))
    BY DEF Shop!Edit
<1> DEFINE t == Shop!Passed(c, f, "copy")
           o == c.object
<1>1. /\ c.step = "edit" /\ heap' = [heap EXCEPT ![o] = [@ EXCEPT ![f] = c.content[f]]]
      /\ Shop!Goto(w, t)
      /\ UNCHANGED <<db, cats, detail, list, shown, saved, unsaved, faults>>
    BY <1>0 DEF Shop!Assign, Shop!At
<1>2. /\ Shop!TypeOK /\ cTask \in [Workers -> ShopTask] /\ Own(cTask, detail)
      /\ Kept(cTask, heap, db, saved)
      /\ Pages(cTask, detail, heap, saved, unsaved)
    BY DEF ShopIInv, ShopTypes
<1>3. c \in HandedTask
    BY <1>1, <1>2, ShopTasks
<1>4. /\ t \in HandedTask /\ t \in ShopTask /\ t.content = c.content
      /\ t.object = o /\ t.product = c.product
      /\ \/ t.step = "copy" /\ t.left = Words
         \/ t.step = "edit"
    BY <1>1, <1>3, ShopPassed DEF ShopTask
<1>5. /\ o \in Shop!Objects /\ c.content \in Shop!Contents
      /\ c.content \in [Words -> Texts]
    BY <1>3 DEF HandedTask, Shop!Contents
<1> HIDE DEF t, o
<1>6. /\ cTask' = [cTask EXCEPT ![w] = t] /\ cTask' \in [Workers -> ShopTask]
      /\ cTask'[w] = t /\ \A v \in Workers \ {w} : cTask'[v] = cTask[v]
    BY <1>1, <1>2, <1>4 DEF Shop!Goto
<1>7. /\ heap' \in [Shop!Objects -> Shop!Contents]
      /\ \A q \in Shop!Objects \ {o} : heap'[q] = heap[q]
      /\ heap'[o][f] = c.content[f]
      /\ \A g \in Words \ {f} : heap'[o][g] = heap[o][g]
    <2> DEFINE new == [heap[o] EXCEPT ![f] = c.content[f]]
    <2>1. heap \in [Shop!Objects -> [Words -> Texts]]
        BY <1>2 DEF Shop!TypeOK, Shop!Contents
    <2>2. /\ new \in [Words -> Texts] /\ new[f] = c.content[f]
          /\ \A g \in Words \ {f} : new[g] = heap[o][g]
        BY <1>5, <2>1
    <2>3. heap' = [heap EXCEPT ![o] = new]
        BY <1>1
    <2> HIDE DEF new
    <2> QED BY <1>5, <2>1, <2>2, <2>3 DEF Shop!Contents
<1>8. Shop!TypeOK'
    BY <1>1, <1>2, <1>7 DEF Shop!TypeOK
<1>9. StillHolds(cTask, w, t) /\ Within(detail', detail)
    BY <1>1, <1>3, <1>4 DEF StillHolds, Within, o
<1>10. Own(cTask', detail')
    BY <1>2, <1>6, <1>9, OwnGoesOn
<1>11. Kept(cTask', heap', db', saved')
    <2>1. ASSUME NEW v \in Workers, cTask'[v].step = "remember"
          PROVE  <<cTask'[v].product, heap'[cTask'[v].object]>> \in saved'
        <3>1. v # w /\ cTask'[v] = cTask[v] /\ cTask[v] \in HandedTask
            BY <1>2, <1>4, <1>6, <2>1, ShopTasks
        <3>2. cTask[v].object # o
            BY <1>2, <1>3, <2>1, <3>1 DEF Own, o
        <3>3. cTask[v].object \in Shop!Objects
            BY <3>1 DEF HandedTask
        <3> QED BY <1>1, <1>2, <1>7, <2>1, <3>1, <3>2, <3>3 DEF Kept
    <2> QED BY <1>1, <1>2, <2>1 DEF Kept
<1>12. Pages(cTask', detail', heap', saved', unsaved')
    <2> SUFFICES ASSUME NEW p \in DOMAIN detail \ unsaved, NEW g \in Words
                 PROVE  \/ WasSaved(p, g, heap'[detail[p]][g], saved)
                        \/ \E v \in Workers : Enters(cTask'[v], detail[p], g,
                                                     heap'[detail[p]][g])
        BY <1>1 DEF Pages
    <2>1. detail[p] \in Shop!Objects
        BY <1>2 DEF Shop!TypeOK, Shop!Range
    <2>2. CASE detail[p] = o /\ g = f
        <3>1. heap'[detail[p]][g] = t.content[g]
            BY <1>4, <1>7, <2>2
        <3>2. Enters(cTask'[w], detail[p], g, heap'[detail[p]][g])
            BY <1>4, <1>6, <2>2, <3>1 DEF Enters
        <3> QED BY <3>2
    <2>3. CASE ~(detail[p] = o /\ g = f)
        <3>1. heap'[detail[p]][g] = heap[detail[p]][g]
            BY <1>7, <2>1, <2>3
        <3>2. ASSUME NEW v \in Workers, Enters(cTask[v], detail[p], g, heap[detail[p]][g])
              PROVE  Enters(cTask'[v], detail[p], g, heap[detail[p]][g])
            <4>1. CASE v = w
                BY <1>4, <1>6, <3>2, <4>1 DEF Enters, o
            <4>2. CASE v # w
                BY <1>6, <3>2, <4>2
            <4> QED BY <4>1, <4>2
        <3> QED BY <1>2, <3>1, <3>2 DEF Pages
    <2> QED BY <2>2, <2>3
<1> QED BY <1>6, <1>8, <1>10, <1>11, <1>12 DEF ShopIInv, ShopTypes

LEMMA ShopCopy ==
    ASSUME ShopIInv, NEW w \in Workers, Shop!Copy(w)
    PROVE  ShopIInv'
<1> DEFINE c == cTask[w]
<1>1. /\ c.step = "copy"
      /\ UNCHANGED <<db, cats, heap, detail, list, shown, saved, unsaved, faults>>
    BY DEF Shop!Copy, Shop!At, Shop!products
<1>2. /\ Shop!TypeOK /\ cTask \in [Workers -> ShopTask] /\ Own(cTask, detail)
      /\ Kept(cTask, heap, db, saved)
      /\ Pages(cTask, detail, heap, saved, unsaved)
    BY DEF ShopIInv, ShopTypes
<1>3. c \in HandedTask
    BY <1>1, <1>2, ShopTasks
<1>0. PICK f \in c.left :
         Shop!Goto(w, Shop!Passed([c EXCEPT !.row = [@ EXCEPT ![f] = heap[c.object][f]]],
                                  f, "save"))
    BY DEF Shop!Copy
<1> DEFINE b == [c EXCEPT !.row = [@ EXCEPT ![f] = heap[c.object][f]]]
           t == Shop!Passed(b, f, "save")
<1>4. f \in Words /\ heap[c.object] \in [Words -> Texts]
    BY <1>2, <1>3 DEF HandedTask, Shop!TypeOK, Shop!Contents
<1>5. /\ b \in HandedTask /\ b.object = c.object /\ b.product = c.product
      /\ b.content = c.content /\ b.step = "copy" /\ b.left = c.left
      /\ b.row[f] = heap[c.object][f]
      /\ \A g \in Words \ {f} : b.row[g] = c.row[g]
    <2>1. c.row \in [Words -> Texts]
        BY <1>3 DEF HandedTask, Shop!Contents
    <2>2. [c.row EXCEPT ![f] = heap[c.object][f]] \in [Words -> Texts]
        BY <1>4, <2>1
    <2>3. b = [c EXCEPT !.row = [c.row EXCEPT ![f] = heap[c.object][f]]]
        BY <1>3 DEF HandedTask
    <2> QED BY <1>1, <1>3, <1>4, <2>1, <2>2, <2>3 DEF HandedTask, Shop!Contents
<1> HIDE DEF b
<1>6. /\ t \in HandedTask /\ t \in ShopTask /\ t.object = c.object
      /\ t.product = c.product /\ t.content = c.content /\ t.row = b.row
      /\ \/ t.step = "save"
         \/ t.step = "copy" /\ t.left = c.left \ {f}
    BY <1>4, <1>5, ShopPassed DEF ShopTask
<1>6a. t.step = "save" => c.left = {f}
    BY <1>3, <1>5 DEF Shop!Passed, HandedTask
<1>7. Shop!Goto(w, t)
    BY <1>0 DEF b
<1> HIDE DEF t
<1>8. /\ cTask' = [cTask EXCEPT ![w] = t] /\ cTask' \in [Workers -> ShopTask]
      /\ cTask'[w] = t /\ \A v \in Workers \ {w} : cTask'[v] = cTask[v]
    BY <1>2, <1>6, <1>7 DEF Shop!Goto
<1>9. Shop!TypeOK'
    BY <1>1, <1>2 DEF Shop!TypeOK
<1>10. StillHolds(cTask, w, t) /\ Within(detail', detail)
    BY <1>1, <1>3, <1>6 DEF StillHolds, Within
<1>11. Own(cTask', detail')
    BY <1>2, <1>8, <1>10, OwnGoesOn
<1>12. Kept(cTask', heap', db', saved')
    <2>1. \A v \in Workers : cTask'[v].step = "remember" => cTask'[v] = cTask[v]
        BY <1>6, <1>8
    <2> QED BY <1>1, <1>2, <2>1 DEF Kept
<1>13. Pages(cTask', detail', heap', saved', unsaved')
    <2> SUFFICES ASSUME NEW p \in DOMAIN detail \ unsaved, NEW g \in Words, NEW v \in Workers,
                        Enters(cTask[v], detail[p], g, heap[detail[p]][g])
                 PROVE  Enters(cTask'[v], detail[p], g, heap[detail[p]][g])
        BY <1>1, <1>2 DEF Pages
    <2>1. CASE v # w
        BY <1>8, <2>1
    <2>2. CASE v = w
        <3> DEFINE x == heap[detail[p]][g]
        <3>1. c.object = detail[p] /\ c.content[g] = x /\ (g \notin c.left => c.row[g] = x)
            BY <1>1, <2>2 DEF Enters
        <3> HIDE DEF x
        <3>2. g = f => b.row[g] = x
            BY <1>5, <3>1 DEF x
        <3>3. g # f => b.row[g] = c.row[g]
            BY <1>5
        <3>4. (t.step = "copy" /\ g \notin t.left) \/ t.step = "save" => t.row[g] = x
            BY <1>6, <1>6a, <3>1, <3>2, <3>3
        <3>5. Enters(t, detail[p], g, x)
            BY <1>6, <3>1, <3>4 DEF Enters
        <3> QED BY <1>8, <2>2, <3>5 DEF x
    <2> QED BY <2>1, <2>2
<1> QED BY <1>8, <1>9, <1>11, <1>12, <1>13 DEF ShopIInv, ShopTypes

\* A request without a product in hand moves on; the rows stay as they are.
LEMMA ShopRests ==
    ASSUME ShopIInv, NEW w \in Workers, NEW t \in ShopTask, t \notin HandedTask,
           t.step # "remember", cTask[w].step \notin {"edit", "copy", "save"},
           Shop!Goto(w, t),
           UNCHANGED <<heap, db, saved>>, faults' = faults \/ Shop!Fault,
           cats' \subseteq Categories, Within(detail', detail),
           unsaved' = unsaved \/ (unsaved' = {} /\ DOMAIN detail' = {}),
           list' = NotCached \/ (list'.total \in Nat /\ list'.found \in Shop!Table),
           shown' = NotCached
              \/ (shown'.cats \subseteq Categories /\ shown'.count \in Nat)
    PROVE  ShopIInv'
<1>1. StillHolds(cTask, w, t)
    BY DEF StillHolds
<1>2. Shop!TypeOK /\ Kept(cTask, heap, db, saved)
    BY DEF ShopIInv, ShopTypes
<1>3. /\ db' \in Shop!Table /\ saved \subseteq saved'
      /\ saved' \subseteq Products \X Shop!Contents
      /\ \A p \in DOMAIN db' : <<p, db'[p]>> \in saved'
    BY <1>2 DEF Shop!TypeOK, Kept
<1>4. Spares(unsaved, unsaved', detail')
    BY <1>2 DEF Shop!TypeOK, Spares
<1> QED BY <1>1, <1>3, <1>4, ShopMoves

\* A row is stored.
LEMMA ShopStore ==
    ASSUME ShopIInv, NEW p \in Products, NEW x \in Shop!Contents, Shop!Store(p, x)
    PROVE  /\ db' \in Shop!Table /\ saved \subseteq saved' /\ <<p, x>> \in saved'
           /\ saved' \subseteq Products \X Shop!Contents
           /\ \A q \in DOMAIN db' : <<q, db'[q]>> \in saved'
<1>1. Shop!TypeOK /\ Kept(cTask, heap, db, saved)
    BY DEF ShopIInv, ShopTypes
<1>2. db' = Shop!Put(db, p, x) /\ saved' = saved \cup {<<p, x>>}
    BY DEF Shop!Store
<1>3. db' \in Shop!Table
    BY <1>1, <1>2, TablePut DEF Shop!TypeOK
<1>4. DOMAIN db' = DOMAIN db \cup {p} /\ db'[p] = x /\ \A q \in DOMAIN db \ {p} : db'[q] = db[q]
    BY <1>2 DEF Shop!Put
<1>5. \A q \in DOMAIN db' : <<q, db'[q]>> \in saved'
    BY <1>1, <1>2, <1>4 DEF Kept
<1>6. saved' \subseteq Products \X Shop!Contents
    BY <1>1, <1>2 DEF Shop!TypeOK
<1> QED BY <1>2, <1>3, <1>5, <1>6

\* A row is removed, or none is.
LEMMA ShopRemove ==
    ASSUME ShopIInv, NEW p, Shop!Remove(p) \/ UNCHANGED <<db, saved>>
    PROVE  /\ db' \in Shop!Table /\ saved \subseteq saved'
           /\ saved' \subseteq Products \X Shop!Contents
           /\ \A q \in DOMAIN db' : <<q, db'[q]>> \in saved'
<1>1. Shop!TypeOK /\ Kept(cTask, heap, db, saved)
    BY DEF ShopIInv, ShopTypes
<1>2. CASE Shop!Remove(p)
    <2>1. db' = Shop!Restrict(db, DOMAIN db \ {p}) /\ saved' = saved
        BY <1>2 DEF Shop!Remove
    <2>2. db' \in Shop!Table
        BY <1>1, <2>1, TableRemove DEF Shop!TypeOK
    <2>3. \A q \in DOMAIN db' : q \in DOMAIN db /\ db'[q] = db[q]
        BY <2>1 DEF Shop!Restrict
    <2> QED BY <1>1, <2>1, <2>2, <2>3 DEF Shop!TypeOK, Kept
<1>3. CASE UNCHANGED <<db, saved>>
    BY <1>1, <1>3 DEF Shop!TypeOK, Kept
<1> QED BY <1>2, <1>3

\* What else a statement on the products leaves alone.
LEMMA ShopWrites ==
    ASSUME ShopIInv, NEW w \in Workers,
           NEW t \in ShopTask, t \notin HandedTask, t.step # "remember", Shop!Goto(w, t),
           UNCHANGED <<cats, heap, detail, list, shown>>,
           db' \in Shop!Table, saved \subseteq saved',
           saved' \subseteq Products \X Shop!Contents,
           \A p \in DOMAIN db' : <<p, db'[p]>> \in saved',
           Spares(unsaved, unsaved', detail), faults' = faults \/ Shop!Fault,
           \/ cTask[w].step \notin {"edit", "copy", "save"}
           \/ cTask[w].step = "save" /\ <<cTask[w].product, cTask[w].row>> \in saved'
           \/ \A p \in DOMAIN detail : detail[p] = cTask[w].object => p \in unsaved'
    PROVE  ShopIInv'
<1>1. StillHolds(cTask, w, t) /\ Within(detail', detail)
    BY DEF StillHolds, Within
<1>2. /\ cats' \subseteq Categories
      /\ list' = NotCached \/ (list'.total \in Nat /\ list'.found \in Shop!Table)
      /\ shown' = NotCached \/ (shown'.cats \subseteq Categories /\ shown'.count \in Nat)
    BY DEF ShopIInv, ShopTypes, Shop!TypeOK
<1> QED BY <1>1, <1>2, ShopMoves

LEMMA ShopSave ==
    ASSUME ShopIInv, NEW w \in Workers, Shop!SaveProduct(w)
    PROVE  ShopIInv'
<1> DEFINE c == cTask[w]
           u == {p \in DOMAIN detail : detail[p] = c.object}
<1>1. c.step = "save" /\ UNCHANGED <<cats, heap, detail, list, shown>>
    BY DEF Shop!SaveProduct, Shop!At
<1>2. /\ Shop!TypeOK /\ cTask \in [Workers -> ShopTask]
      /\ unsaved \subseteq Products /\ DOMAIN detail \subseteq Products
    BY DEF ShopIInv, ShopTypes, Shop!TypeOK
<1>3. c.product \in Products /\ c.row \in Shop!Contents
    BY <1>1, <1>2, ShopTasks DEF HandedTask
<1>4. CASE /\ Shop!Store(c.product, c.row)
           /\ Shop!Goto(w, [step |-> "clear"]) /\ UNCHANGED <<unsaved, faults>>
    <2>1. /\ [step |-> "clear"] \in ShopTask /\ [step |-> "clear"] \notin HandedTask
          /\ [step |-> "clear"].step # "remember"
        BY BareTasks
    <2>2. Spares(unsaved, unsaved', detail)
        BY <1>2, <1>4 DEF Spares
    <2> QED BY <1>1, <1>3, <1>4, <2>1, <2>2, ShopStore, ShopWrites
<1>5. CASE /\ Shop!Store(c.product, c.row) \/ UNCHANGED <<db, saved>>
           /\ unsaved' = unsaved \cup u
           /\ Shop!Goto(w, Shop!Idle) /\ Shop!Fault
    <2>1. /\ db' \in Shop!Table /\ saved \subseteq saved'
          /\ saved' \subseteq Products \X Shop!Contents
          /\ \A q \in DOMAIN db' : <<q, db'[q]>> \in saved'
        BY <1>3, <1>5, ShopStore, ShopRemove
    <2>2. /\ Spares(unsaved, unsaved', detail)
          /\ \A p \in DOMAIN detail : detail[p] = c.object => p \in unsaved'
        BY <1>2, <1>5 DEF Spares
    <2> HIDE DEF u
    <2> QED BY <1>1, <1>5, <2>1, <2>2, IdleIsBare, ShopWrites
<1> QED BY <1>4, <1>5 DEF Shop!SaveProduct, Shop!Finish

LEMMA ShopInsert ==
    ASSUME ShopIInv, NEW w \in Workers, Shop!InsertProduct(w)
    PROVE  ShopIInv'
<1> DEFINE c == cTask[w]
<1>1. c.step = "insert" /\ UNCHANGED <<cats, heap, detail, list, shown, unsaved>>
    BY DEF Shop!InsertProduct, Shop!At
<1>2. c.product \in Products /\ c.content \in Shop!Contents
    BY <1>1, ShopTasks DEF ShopIInv, ShopTypes, AskTask
<1>3. PICK t \in {[step |-> "clear"], Shop!Idle} :
         /\ Shop!Goto(w, t)
         /\ Shop!Store(c.product, c.content) \/ UNCHANGED <<db, saved>>
         /\ faults' = faults \/ Shop!Fault
    BY DEF Shop!InsertProduct, Shop!Finish
<1>4. t \in ShopTask /\ t \notin HandedTask /\ t.step # "remember"
    BY BareTasks, IdleIsBare
<1>5. /\ db' \in Shop!Table /\ saved \subseteq saved'
      /\ saved' \subseteq Products \X Shop!Contents
      /\ \A q \in DOMAIN db' : <<q, db'[q]>> \in saved'
    BY <1>2, <1>3, ShopStore, ShopRemove
<1>6. Spares(unsaved, unsaved', detail)
    BY <1>1 DEF Spares, ShopIInv, ShopTypes, Shop!TypeOK
<1> QED BY <1>1, <1>3, <1>4, <1>5, <1>6, ShopWrites

LEMMA ShopRemoval ==
    ASSUME ShopIInv, NEW w \in Workers, Shop!RemoveProduct(w)
    PROVE  ShopIInv'
<1>1. cTask[w].step = "remove" /\ UNCHANGED <<cats, heap, detail, list, shown, unsaved>>
    BY DEF Shop!RemoveProduct, Shop!At
<1>2. PICK t \in {[step |-> "clear"], Shop!Idle} :
         /\ Shop!Goto(w, t)
         /\ Shop!Remove(cTask[w].product) \/ UNCHANGED <<db, saved>>
         /\ faults' = faults \/ Shop!Fault
    BY DEF Shop!RemoveProduct, Shop!Finish
<1>3. t \in ShopTask /\ t \notin HandedTask /\ t.step # "remember"
    BY BareTasks, IdleIsBare
<1>4. /\ db' \in Shop!Table /\ saved \subseteq saved'
      /\ saved' \subseteq Products \X Shop!Contents
      /\ \A q \in DOMAIN db' : <<q, db'[q]>> \in saved'
    BY <1>2, ShopRemove
<1>5. Spares(unsaved, unsaved', detail)
    BY <1>1 DEF Spares, ShopIInv, ShopTypes, Shop!TypeOK
<1> QED BY <1>1, <1>2, <1>3, <1>4, <1>5, ShopWrites

\* Listings and categories: what is cached of them is well formed.
LEMMA ShopLists ==
    ASSUME ShopIInv, NEW w \in Workers,
           \/ Shop!ClearProducts(w)
           \/ Shop!ListCount(w) \/ Shop!ListFind(w) \/ Shop!ListSet(w)
           \/ Shop!HandleCategory(w)
    PROVE  ShopIInv'
<1>1. Shop!TypeOK /\ cTask \in [Workers -> ShopTask]
    BY DEF ShopIInv, ShopTypes
<1>2. /\ cats \subseteq Categories /\ db \in Shop!Table
      /\ list = NotCached \/ (list.total \in Nat /\ list.found \in Shop!Table)
      /\ shown = NotCached \/ (shown.cats \subseteq Categories /\ shown.count \in Nat)
      /\ Shop!Cardinality(DOMAIN db) \in Nat
    BY <1>1, TableSize DEF Shop!TypeOK
<1>3. UNCHANGED detail => Within(detail', detail)
    BY DEF Within
<1>4. CASE Shop!ClearProducts(w)
    <2>1. Within(detail', detail) /\ DOMAIN detail' = {} /\ unsaved' = {}
        BY <1>4 DEF Shop!ClearProducts, Within
    <2> QED BY <1>2, <1>4, <2>1, IdleIsBare, ShopRests
            DEF Shop!ClearProducts, Shop!Finish, Shop!At
<1>5. CASE Shop!ListCount(w)
    <2> DEFINE t == [step |-> "find", total |-> Shop!Cardinality(DOMAIN db)]
    <2>1. t \in ShopTask /\ t \notin HandedTask /\ t.step # "remember"
        BY <1>2 DEF ShopTask, FindTask, HandedTask
    <2>2. /\ Shop!Goto(w, t) /\ cTask[w].step \notin {"edit", "copy", "save"}
          /\ UNCHANGED <<db, cats, heap, detail, list, shown, saved, unsaved, faults>>
        BY <1>5 DEF Shop!ListCount, Shop!At, Shop!products
    <2> HIDE DEF t
    <2> QED BY <1>2, <1>3, <2>1, <2>2, ShopRests
<1>6. CASE Shop!ListFind(w)
    <2> DEFINE t == [step |-> "setlist", total |-> cTask[w].total, found |-> db]
    <2>1. cTask[w] \in FindTask
        BY <1>1, <1>6, ShopTasks DEF Shop!ListFind, Shop!At
    <2>2. t \in ShopTask /\ t \notin HandedTask /\ t.step # "remember"
        BY <1>2, <2>1 DEF ShopTask, FindTask, ListTask, HandedTask
    <2>3. /\ Shop!Goto(w, t) /\ cTask[w].step \notin {"edit", "copy", "save"}
          /\ UNCHANGED <<db, cats, heap, detail, list, shown, saved, unsaved, faults>>
        BY <1>6 DEF Shop!ListFind, Shop!At, Shop!products
    <2> HIDE DEF t
    <2> QED BY <1>2, <1>3, <2>2, <2>3, ShopRests
<1>7. CASE Shop!ListSet(w)
    <2>1. cTask[w] \in ListTask
        BY <1>1, <1>7, ShopTasks DEF Shop!ListSet, Shop!At
    <2>2. /\ Shop!Goto(w, Shop!Idle) /\ cTask[w].step \notin {"edit", "copy", "save"}
          /\ list' = [total |-> cTask[w].total, found |-> cTask[w].found]
          /\ UNCHANGED <<db, cats, heap, detail, shown, saved, unsaved, faults>>
        BY <1>7 DEF Shop!ListSet, Shop!At, Shop!Finish
    <2>3. list'.total \in Nat /\ list'.found \in Shop!Table
        BY <2>1, <2>2 DEF ListTask
    <2> QED BY <1>2, <1>3, <2>2, <2>3, IdleIsBare, ShopRests
<1>8. CASE Shop!CategoriesFind(w)
    <2> DEFINE t == [step |-> "count", cats |-> cats]
    <2>1. t \in ShopTask /\ t \notin HandedTask /\ t.step # "remember"
        BY <1>2 DEF ShopTask, CountTask, HandedTask
    <2>2. /\ Shop!Goto(w, t) /\ cTask[w].step \notin {"edit", "copy", "save"}
          /\ UNCHANGED <<db, cats, heap, detail, list, shown, saved, unsaved, faults>>
        BY <1>8 DEF Shop!CategoriesFind, Shop!At, Shop!products
    <2> HIDE DEF t
    <2> QED BY <1>2, <1>3, <2>1, <2>2, ShopRests
<1>9. CASE Shop!CategoriesCount(w)
    <2> DEFINE t == [step |-> "setcats", cats |-> cTask[w].cats,
                     count |-> Shop!Cardinality(DOMAIN db)]
    <2>1. cTask[w] \in CountTask
        BY <1>1, <1>9, ShopTasks DEF Shop!CategoriesCount, Shop!At
    <2>2. t \in ShopTask /\ t \notin HandedTask /\ t.step # "remember"
        BY <1>2, <2>1 DEF ShopTask, CountTask, SetTask, HandedTask
    <2>3. /\ Shop!Goto(w, t) /\ cTask[w].step \notin {"edit", "copy", "save"}
          /\ UNCHANGED <<db, cats, heap, detail, list, shown, saved, unsaved, faults>>
        BY <1>9 DEF Shop!CategoriesCount, Shop!At, Shop!products
    <2> HIDE DEF t
    <2> QED BY <1>2, <1>3, <2>2, <2>3, ShopRests
<1>10. CASE Shop!CategoriesSet(w)
    <2>1. cTask[w] \in SetTask
        BY <1>1, <1>10, ShopTasks DEF Shop!CategoriesSet, Shop!At
    <2>2. /\ Shop!Goto(w, Shop!Idle) /\ cTask[w].step \notin {"edit", "copy", "save"}
          /\ shown' = [cats |-> cTask[w].cats, count |-> cTask[w].count]
          /\ UNCHANGED <<db, cats, heap, detail, list, saved, unsaved, faults>>
        BY <1>10 DEF Shop!CategoriesSet, Shop!At, Shop!Finish, Shop!products
    <2>3. shown'.cats \subseteq Categories /\ shown'.count \in Nat
        BY <2>1, <2>2 DEF SetTask
    <2> QED BY <1>2, <1>3, <2>2, <2>3, IdleIsBare, ShopRests
<1>11. ASSUME NEW k \in Categories, Shop!CategoryWrite(w, k)
       PROVE  ShopIInv'
    <2>1. PICK t \in {[step |-> "clearcats"], Shop!Idle} :
             Shop!Goto(w, t) /\ (faults' = faults \/ Shop!Fault)
        BY <1>11 DEF Shop!CategoryWrite, Shop!Finish
    <2>2. t \in ShopTask /\ t \notin HandedTask /\ t.step # "remember"
        BY BareTasks, IdleIsBare
    <2>3. /\ cTask[w].step \notin {"edit", "copy", "save"} /\ cats' \subseteq Categories
          /\ UNCHANGED <<db, heap, detail, list, shown, saved, unsaved>>
        BY <1>2, <1>11 DEF Shop!CategoryWrite, Shop!At, Shop!products
    <2> QED BY <1>2, <1>3, <2>1, <2>2, <2>3, ShopRests
<1>12. CASE Shop!ClearCategories(w)
    BY <1>2, <1>3, <1>12, IdleIsBare, ShopRests
       DEF Shop!ClearCategories, Shop!At, Shop!Finish, Shop!products
<1> QED BY <1>4, <1>5, <1>6, <1>7, <1>8, <1>9, <1>10, <1>11, <1>12 DEF Shop!HandleCategory

\* Cache entries go without a request.
LEMMA ShopExpire ==
    ASSUME ShopIInv, Shop!Expire
    PROVE  ShopIInv'
<1>1. /\ ShopTypes /\ Own(cTask, detail) /\ Kept(cTask, heap, db, saved)
      /\ Pages(cTask, detail, heap, saved, unsaved)
    BY DEF ShopIInv
<1>2. UNCHANGED <<db, cats, heap, cTask, saved, faults>>
    BY DEF Shop!Expire
<1>3. Within(detail', detail) /\ Spares(unsaved, unsaved', detail')
    <2>1. unsaved \subseteq Products
        BY <1>1 DEF ShopTypes, Shop!TypeOK
    <2> QED BY <2>1 DEF Shop!Expire, Shop!Restrict, Within, Spares
<1>4. /\ list' = list \/ list' = NotCached
      /\ shown' = shown \/ shown' = NotCached
    BY DEF Shop!Expire
<1>5. ShopTypes'
    <2>1. \A p \in DOMAIN detail' : p \in Products /\ detail'[p] \in Shop!Objects
        BY <1>1, <1>3 DEF ShopTypes, Shop!TypeOK, Shop!Range, Within
    <2>2. DOMAIN detail' \subseteq Products /\ Shop!Range(detail') \subseteq Shop!Objects
        BY <2>1 DEF Shop!Range
    <2> QED BY <1>1, <1>2, <1>3, <1>4, <2>2 DEF ShopTypes, Shop!TypeOK, Spares
<1>6. Own(cTask', detail')
    BY <1>1, <1>2, <1>3 DEF Own, Within
<1>7. Kept(cTask', heap', db', saved')
    BY <1>1, <1>2 DEF Kept
<1>8. Pages(cTask', detail', heap', saved', unsaved')
    BY <1>1, <1>2, <1>3 DEF Pages, Within, Spares
<1> QED BY <1>5, <1>6, <1>7, <1>8 DEF ShopIInv

LEMMA ShopCrash ==
    ASSUME ShopIInv, Shop!Crash
    PROVE  ShopIInv'
<1>1. ShopTypes /\ Kept(cTask, heap, db, saved)
    BY DEF ShopIInv
<1>2. /\ detail' = <<>> /\ list' = NotCached /\ shown' = NotCached
      /\ cTask' = [v \in Workers |-> Shop!Idle]
      /\ unsaved' = {} /\ UNCHANGED <<db, cats, heap, saved, faults>>
    BY DEF Shop!Crash
<1>3. DOMAIN detail' = {} /\ Shop!Range(detail') = {}
    BY <1>2 DEF Shop!Range
<1>4. \A v \in Workers : /\ cTask'[v] \notin HandedTask /\ cTask'[v] \in ShopTask
                         /\ cTask'[v].step = "idle"
    BY <1>2, IdleIsBare
<1>5. cTask' \in [Workers -> ShopTask]
    BY <1>2, IdleIsBare
<1>6. ShopTypes'
    BY <1>1, <1>2, <1>3, <1>5 DEF ShopTypes, Shop!TypeOK
<1>7. Own(cTask', detail')
    BY <1>3, <1>4 DEF Own
<1>8. Kept(cTask', heap', db', saved')
    BY <1>1, <1>2, <1>4 DEF Kept
<1>9. Pages(cTask', detail', heap', saved', unsaved')
    BY <1>3 DEF Pages
<1> QED BY <1>6, <1>7, <1>8, <1>9 DEF ShopIInv

LEMMA ShopStep ==
    ASSUME ShopIInv, [Shop!Next]_(Shop!vars)
    PROVE  ShopIInv'
<1>1. ASSUME NEW w \in Workers, Shop!HandleProduct(w) \/ Shop!HandleCategory(w)
      PROVE  ShopIInv'
    BY <1>1, ShopLookup, ShopRemember, ShopEdit, ShopCopy, ShopSave, ShopInsert,
       ShopRemoval, ShopLists
       DEF Shop!HandleProduct
<1>2. CASE UNCHANGED Shop!vars
    BY <1>2 DEF Shop!vars, ShopIInv, ShopTypes, Shop!TypeOK, Own, Kept, Pages
<1> QED BY <1>1, <1>2, ShopExpire, ShopCrash DEF Shop!Next

LEMMA ShopStarts ==
    ASSUME Shop!Init
    PROVE  ShopIInv
<1>1. /\ db = <<>> /\ cats = {} /\ unsaved = {}
      /\ heap = [o \in Shop!Objects |-> [f \in Words |-> CHOOSE x \in Texts : TRUE]]
      /\ detail = <<>> /\ list = NotCached /\ shown = NotCached
      /\ cTask = [v \in Workers |-> Shop!Idle] /\ saved = {} /\ faults = 0
    BY DEF Shop!Init
<1>2. /\ DOMAIN detail = {} /\ Shop!Range(detail) = {} /\ DOMAIN db = {}
    BY <1>1 DEF Shop!Range
<1>3. db \in Shop!Table
    <2>1. db \in [{} -> Shop!Contents]
        BY <1>1
    <2>2. {} \in SUBSET Products
        OBVIOUS
    <2> QED BY <2>1, <2>2, Tables
<1>4. heap \in [Shop!Objects -> Shop!Contents]
    <2>1. (CHOOSE x \in Texts : TRUE) \in Texts
        BY ShopConstants
    <2> QED BY <1>1, <2>1 DEF Shop!Contents
<1>5. faults \in 0..MaxFaults
    BY <1>1, ShopConstants
<1>6. \A v \in Workers : cTask[v] \notin HandedTask /\ cTask[v].step = "idle"
    BY <1>1, IdleIsBare
<1>7. cTask \in [Workers -> ShopTask]
    BY <1>1, IdleIsBare
<1>8. ShopTypes
    BY <1>1, <1>2, <1>3, <1>4, <1>5, <1>7 DEF ShopTypes, Shop!TypeOK
<1>9. /\ Own(cTask, detail) /\ Kept(cTask, heap, db, saved)
      /\ Pages(cTask, detail, heap, saved, unsaved)
    BY <1>2, <1>6 DEF Own, Kept, Pages
<1> QED BY <1>8, <1>9 DEF ShopIInv

\* Whatever overlaps, expires or fails, every word of a cached product page was
\* saved for that product once or is being entered by an update that is not done
\* yet, until an update that edited the page fails to save it: updates edit the
\* cached object in place, word by word, but none an object of another product
\* (product_service.go, product_controller.go).
THEOREM PagesWereSaved == Shop!Spec => []CatalogueInv
<1>1. Shop!Init => ShopIInv
    BY ShopStarts
<1>2. ShopIInv /\ [Shop!Next]_(Shop!vars) => ShopIInv'
    BY ShopStep
<1>3. ShopIInv => CatalogueInv
    <2>1. ShopIInv => Shop!TypeOK
        BY DEF ShopIInv, ShopTypes
    <2>2. ShopIInv => Shop!ShownWasSaved
        BY DEF ShopIInv, Pages, WasSaved, Enters, Shop!ShownWasSaved
    <2> QED BY <2>1, <2>2 DEF CatalogueInv, Shop!CatalogueInv
<1> QED BY <1>1, <1>2, <1>3, PTL DEF Shop!Spec
-----------------------------------------------------------------------------
(* The catalogue while nothing overlaps a write and no write fails.        *)

Writes(t) ==
    \/ t.step \in {"edit", "copy", "save", "insert", "remove", "clear", "clearcats"}
    \/ t.step = "remember" /\ t.op # "view"

\* A request that writes finds the others idle; T stands for `cTask`.
Lone(T) ==
    \A w \in Workers : Writes(T[w]) => \A v \in Workers \ {w} : T[v].step = "idle"

\* What a request carries is what a query would return; R stands for `db`, H
\* for `heap` and C for `cats`.
Carries(t, H, R, C) ==
    /\ t.step = "remember" => t.product \in DOMAIN R /\ H[t.object] = R[t.product]
    /\ t.step \in {"edit", "copy", "save"} => t.product \in DOMAIN R
    /\ t.step \in {"find", "setlist"} => t.total = Shop!Cardinality(DOMAIN R)
    /\ t.step = "setlist" => t.found = R
    /\ t.step \in {"count", "setcats"} => t.cats = C

\* So is what is cached: D, L and S stand for `detail`, `list` and `shown`.
PagesOK(D, H, R) == \A p \in DOMAIN D : p \in DOMAIN R /\ H[D[p]] = R[p]
ListOK(L, R) ==
    L # NotCached => L.found = R /\ L.total = Shop!Cardinality(DOMAIN R)
ShownOK(S, C) == S # NotCached => S.cats = C

\* An entry may be old only until the write that made it old has cleared it.
Current(T, H, R, D, L, S, C) ==
    /\ \A w \in Workers : Carries(T[w], H, R, C)
    /\ (\A w \in Workers : T[w].step \notin {"edit", "copy", "save", "clear"}) => PagesOK(D, H, R)
    /\ (\A w \in Workers : T[w].step # "clear") => ListOK(L, R)
    /\ (\A w \in Workers : T[w].step # "clearcats") => ShownOK(S, C)

LEMMA AloneIsLone ==
    ASSUME NEW T, NEW w \in Workers, T[w].step # "idle", Cardinality(Busy(T)) = 1
    PROVE  \A v \in Workers \ {w} : T[v].step = "idle"
<1>1. IsFiniteSet(Busy(T)) /\ w \in Busy(T)
    BY ShopConstants, FS_Subset DEF Busy
<1>2. PICK x : Busy(T) = {x}
    BY <1>1, FS_Singleton
<1> QED BY <1>1, <1>2 DEF Busy

LEMMA ApartIsLone ==
    ASSUME Writing => Cardinality(Busy(cTask)) = 1
    PROVE  Lone(cTask)
<1> SUFFICES ASSUME NEW w \in Workers, Writes(cTask[w])
             PROVE  \A v \in Workers \ {w} : cTask[v].step = "idle"
    BY DEF Lone
<1>1. Writing /\ cTask[w].step # "idle"
    BY DEF Writes, Writing, Doing
<1> QED BY <1>1, AloneIsLone

LEMMA ApartIsLoneNext ==
    ASSUME (Writing => Cardinality(Busy(cTask)) = 1)'
    PROVE  Lone(cTask')
<1> SUFFICES ASSUME NEW w \in Workers, Writes(cTask'[w])
             PROVE  \A v \in Workers \ {w} : cTask'[v].step = "idle"
    BY DEF Lone
<1>1. Writing' /\ cTask'[w].step # "idle"
    BY DEF Writes, Writing, Doing
<1>2. Cardinality(Busy(cTask')) = 1
    BY <1>1
<1> QED BY <1>1, <1>2, AloneIsLone

\* Others may be under way.
LEMMA CurrentGoesOn ==
    ASSUME NEW T, T \in [Workers -> ShopTask], NEW w \in Workers, NEW t,
           NEW U, U = [T EXCEPT ![w] = t],
           NEW H, NEW R, NEW D, NEW L, NEW S, NEW C, Current(T, H, R, D, L, S, C),
           NEW H2, NEW D2, NEW L2, NEW S2,
           T[w].step \notin {"edit", "copy", "save", "clear", "clearcats"},
           Carries(t, H2, R, C),
           \A v \in Workers \ {w} : Carries(T[v], H2, R, C),
           PagesOK(D, H, R) => PagesOK(D2, H2, R),
           ListOK(L, R) => ListOK(L2, R),
           ShownOK(S, C) => ShownOK(S2, C)
    PROVE  Current(U, H2, R, D2, L2, S2, C)
<1>1. U[w] = t /\ \A v \in Workers \ {w} : U[v] = T[v]
    OBVIOUS
<1>2. \A v \in Workers : Carries(U[v], H2, R, C)
    BY <1>1
<1>3. ASSUME NEW X, T[w].step \notin X, \A v \in Workers : U[v].step \notin X
      PROVE  \A v \in Workers : T[v].step \notin X
    BY <1>1, <1>3
<1>4. (\A v \in Workers : U[v].step \notin {"edit", "copy", "save", "clear"}) => PagesOK(D2, H2, R)
    BY <1>3 DEF Current
<1>5. (\A v \in Workers : U[v].step \notin {"clear"}) => ListOK(L2, R)
    BY <1>3 DEF Current
<1>6. (\A v \in Workers : U[v].step \notin {"clearcats"}) => ShownOK(S2, C)
    BY <1>3 DEF Current
<1> QED BY <1>2, <1>4, <1>5, <1>6 DEF Current

\* The others are idle.
LEMMA CurrentAlone ==
    ASSUME NEW U, NEW w \in Workers, NEW H, NEW R, NEW D, NEW L, NEW S, NEW C,
           \A v \in Workers \ {w} : U[v].step = "idle",
           Carries(U[w], H, R, C),
           U[w].step \notin {"edit", "copy", "save", "clear"} => PagesOK(D, H, R),
           U[w].step # "clear" => ListOK(L, R),
           U[w].step # "clearcats" => ShownOK(S, C)
    PROVE  Current(U, H, R, D, L, S, C)
<1>1. \A v \in Workers \ {w} : Carries(U[v], H, R, C)
    BY DEF Carries
<1>2. \A v \in Workers : Carries(U[v], H, R, C)
    BY <1>1
<1> QED BY <1>2 DEF Current

Currently == Current(cTask, heap, db, detail, list, shown, cats)

\* The catalogue and its caches agree as far as writes have got.
AgreeInv == ShopIInv /\ Lone(cTask) /\ (faults = 0 => Currently)

\* What the steps of a request start from.
LEMMA AgreeFacts ==
    ASSUME AgreeInv, faults = 0, NEW w \in Workers
    PROVE  /\ cTask \in [Workers -> ShopTask]
           /\ Current(cTask, heap, db, detail, list, shown, cats)
           /\ \A v \in Workers : Carries(cTask[v], heap, db, cats)
           /\ Writes(cTask[w]) => \A v \in Workers \ {w} : cTask[v].step = "idle"
           /\ (\A v \in Workers \ {w} : cTask[v].step = "idle") =>
                 /\ cTask[w].step \notin {"edit", "copy", "save", "clear"} => PagesOK(detail, heap, db)
                 /\ cTask[w].step # "clear" => ListOK(list, db)
                 /\ cTask[w].step # "clearcats" => ShownOK(shown, cats)
BY DEF AgreeInv, Currently, Current, ShopIInv, ShopTypes, Lone

\* A request that is about to write moves when the others are idle.
LEMMA GoesAlone ==
    ASSUME cTask \in [Workers -> ShopTask], Lone(cTask'), NEW w \in Workers, NEW t,
           Shop!Goto(w, t)
    PROVE  /\ cTask' = [cTask EXCEPT ![w] = t]
           /\ cTask'[w] = t /\ \A v \in Workers \ {w} : cTask'[v] = cTask[v]
           /\ Writes(t) => \A v \in Workers \ {w} : cTask[v].step = "idle"
BY DEF Shop!Goto, Lone

LEMMA AgreeLookup ==
    ASSUME AgreeInv, faults = 0, Lone(cTask'), NEW w \in Workers,
           NEW op \in Shop!Operations, NEW p \in Products, NEW x \in Shop!Contents,
           Shop!Lookup(w, op, p, x)
    PROVE  Currently'
<1> DEFINE a == [step |-> "lookup", op |-> op, product |-> p, content |-> x]
           G(s, o) == [step |-> s, op |-> op, product |-> p, content |-> x,
                       object |-> o, left |-> Words, row |-> x]
<1>1. /\ cTask[w].step = "idle"
      /\ UNCHANGED <<db, cats, detail, list, shown, saved, unsaved, faults>>
    BY DEF Shop!Lookup, Shop!At
<1>2. /\ cTask \in [Workers -> ShopTask]
      /\ Current(cTask, heap, db, detail, list, shown, cats)
      /\ \A v \in Workers : Carries(cTask[v], heap, db, cats)
      /\ (\A v \in Workers \ {w} : cTask[v].step = "idle") => PagesOK(detail, heap, db)
    BY <1>1, AgreeFacts
<1>3. ASSUME NEW t, Shop!Goto(w, t), Carries(t, heap, db, cats), UNCHANGED heap
      PROVE  Currently'
    <2>1. cTask' = [cTask EXCEPT ![w] = t]
        BY <1>3 DEF Shop!Goto
    <2>2. Current(cTask', heap, db, detail, list, shown, cats)
        BY <1>1, <1>2, <1>3, <2>1, CurrentGoesOn
    <2> QED BY <1>1, <1>3, <2>2 DEF Currently
<1>4. Carries(Shop!Idle, heap, db, cats)
    BY DEF Carries, Shop!Idle
<1>5. CASE p \in DOMAIN detail /\ Shop!Found(w, G("lookup", detail[p])) /\ UNCHANGED heap
    <2> DEFINE t == G("lookup", detail[p])
               e == G("edit", detail[p])
               r == G("remove", detail[p])
    <2>1. t.op = op /\ [t EXCEPT !.step = "edit"] = e /\ [t EXCEPT !.step = "remove"] = r
        OBVIOUS
    <2>2. /\ Writes(e) /\ e.step = "edit" /\ e.product = p
          /\ r.step = "remove"
        BY DEF Writes
    <2> HIDE DEF t, e, r
    <2>3. Shop!Goto(w, Shop!Idle) \/ Shop!Goto(w, e) \/ Shop!Goto(w, r)
        BY <1>5, <2>1, ShopFound DEF t
    <2>4. CASE Shop!Goto(w, e)
        <3>1. \A v \in Workers \ {w} : cTask[v].step = "idle"
            BY <1>2, <2>2, <2>4, GoesAlone
        <3>2. p \in DOMAIN db
            BY <1>2, <1>5, <3>1 DEF PagesOK
        <3>3. Carries(e, heap, db, cats)
            BY <2>2, <3>2 DEF Carries
        <3> QED BY <1>3, <1>5, <2>4, <3>3
    <2>5. Carries(r, heap, db, cats)
        BY <2>2 DEF Carries
    <2> QED BY <1>3, <1>4, <1>5, <2>3, <2>4, <2>5
<1>6. CASE /\ p \in DOMAIN db
           /\ heap' = [heap EXCEPT ![Shop!FreeObject] = db[p]]
           /\ Shop!Goto(w, G("remember", Shop!FreeObject))
    <2> DEFINE o == Shop!FreeObject
               t == G("remember", Shop!FreeObject)
    <2>1. /\ o \in Shop!Objects
          /\ \A v \in Workers : cTask[v] \in HandedTask => cTask[v].object # o
          /\ \A q \in DOMAIN detail : detail[q] # o
        BY <1>1, FreeObjectIsFree DEF AgreeInv, ShopIInv
    <2>2. /\ cTask' = [cTask EXCEPT ![w] = t] /\ t.step = "remember"
          /\ t.product = p /\ t.object = o
        BY <1>6 DEF Shop!Goto
    <2> HIDE DEF o, t
    <2>3. /\ heap \in [Shop!Objects -> Shop!Contents] /\ Shop!Range(detail) \subseteq Shop!Objects
        BY DEF AgreeInv, ShopIInv, ShopTypes, Shop!TypeOK
    <2>4. heap'[o] = db[p] /\ \A y \in Shop!Objects \ {o} : heap'[y] = heap[y]
        BY <1>6, <2>1, <2>3 DEF o
    <2>5. ASSUME NEW v \in Workers \ {w}
          PROVE  Carries(cTask[v], heap', db, cats)
        <3>1. CASE cTask[v].step = "remember"
            <4>1. cTask[v] \in HandedTask
                BY <1>2, <3>1, ShopTasks
            <4>2. cTask[v].object \in Shop!Objects \ {o}
                BY <2>1, <4>1 DEF HandedTask
            <4> QED BY <1>2, <2>4, <3>1, <4>2 DEF Carries
        <3>2. CASE cTask[v].step # "remember"
            BY <1>2, <3>2 DEF Carries
        <3> QED BY <3>1, <3>2
    <2>6. Carries(t, heap', db, cats)
        BY <1>6, <2>2, <2>4 DEF Carries
    <2>7. PagesOK(detail, heap, db) => PagesOK(detail, heap', db)
        <3>1. \A q \in DOMAIN detail : detail[q] \in Shop!Objects
            BY <2>3 DEF Shop!Range
        <3> QED BY <2>1, <2>4, <3>1 DEF PagesOK
    <2>8. Current(cTask', heap', db, detail, list, shown, cats)
        BY <1>1, <1>2, <2>2, <2>5, <2>6, <2>7, CurrentGoesOn
    <2> QED BY <1>1, <2>8 DEF Currently
<1>7. CASE Shop!NotFound(w, a) /\ UNCHANGED heap
    <2>1. a.op \in Shop!Operations
        OBVIOUS
    <2>2. \A s \in {"insert", "remove"} : Carries([a EXCEPT !.step = s], heap, db, cats)
        BY DEF Carries
    <2> HIDE DEF a
    <2>3. \/ Shop!Goto(w, Shop!Idle)
          \/ Shop!Goto(w, [a EXCEPT !.step = "insert"])
          \/ Shop!Goto(w, [a EXCEPT !.step = "remove"])
        BY <1>7, <2>1, ShopNotFound
    <2> QED BY <1>3, <1>4, <1>7, <2>2, <2>3
<1> QED BY <1>5, <1>6, <1>7 DEF Shop!Lookup

LEMMA AgreeRemember ==
    ASSUME AgreeInv, faults = 0, NEW w \in Workers, Shop!Remember(w)
    PROVE  Currently'
<1> DEFINE c == cTask[w]
<1>1. /\ c.step = "remember" /\ detail' = Shop!Put(detail, c.product, c.object)
      /\ Shop!Found(w, c) /\ unsaved' = unsaved \ {c.product}
      /\ UNCHANGED <<db, cats, heap, list, shown, saved, faults>>
    BY DEF Shop!Remember, Shop!At
<1>2. /\ cTask \in [Workers -> ShopTask]
      /\ Current(cTask, heap, db, detail, list, shown, cats)
      /\ \A v \in Workers : Carries(cTask[v], heap, db, cats)
    BY AgreeFacts
<1>3. c \in HandedTask
    BY <1>1, <1>2, ShopTasks
<1>4. c.product \in DOMAIN db /\ heap[c.object] = db[c.product]
    BY <1>1, <1>2 DEF Carries
<1>5. PICK t : Shop!Goto(w, t) /\ Carries(t, heap, db, cats)
    <2>1. \A s \in {"edit", "remove"} : Carries([c EXCEPT !.step = s], heap, db, cats)
        BY <1>3, <1>4 DEF HandedTask, Carries
    <2>2. Carries(Shop!Idle, heap, db, cats)
        BY DEF Carries, Shop!Idle
    <2>3. c.op \in Shop!Operations
        BY <1>3 DEF HandedTask
    <2> HIDE DEF c
    <2> QED BY <1>1, <2>1, <2>2, <2>3, ShopFound
<1>6. PagesOK(detail, heap, db) => PagesOK(detail', heap, db)
    BY <1>1, <1>4 DEF PagesOK, Shop!Put
<1>7. cTask' = [cTask EXCEPT ![w] = t]
    BY <1>5 DEF Shop!Goto
<1>8. cTask[w].step \notin {"edit", "copy", "save", "clear", "clearcats"}
    BY <1>1
<1>9. Current(cTask', heap, db, detail', list, shown, cats)
    <2> HIDE DEF c
    <2> QED BY <1>2, <1>5, <1>6, <1>7, <1>8, CurrentGoesOn
<1> QED BY <1>1, <1>9 DEF Currently

LEMMA AgreeEdit ==
    ASSUME AgreeInv, faults = 0, NEW w \in Workers, Shop!Edit(w) \/ Shop!Copy(w)
    PROVE  Currently'
<1> DEFINE c == cTask[w]
<1>1. /\ c.step \in {"edit", "copy"}
      /\ UNCHANGED <<db, cats, detail, list, shown, saved, faults>>
    BY DEF Shop!Edit, Shop!Assign, Shop!Copy, Shop!At, Shop!products
<1>2. /\ cTask \in [Workers -> ShopTask] /\ c.product \in DOMAIN db
      /\ \A v \in Workers \ {w} : cTask[v].step = "idle"
      /\ ListOK(list, db) /\ ShownOK(shown, cats)
    BY <1>1, AgreeFacts DEF Writes, Carries
<1>3. c \in HandedTask
    BY <1>1, <1>2, ShopTasks
<1>4. PICK t : /\ Shop!Goto(w, t) /\ t.product = c.product
               /\ t.step \in {"edit", "copy", "save"}
    <2>1. CASE Shop!Edit(w)
        <3>1. PICK f \in Words : c.step = "edit" /\ Shop!Goto(w, Shop!Passed(c, f, "copy"))
            BY <2>1 DEF Shop!Edit, Shop!Assign, Shop!At
        <3> QED BY <1>3, <3>1, ShopPassed
    <2>2. CASE Shop!Copy(w)
        <3> DEFINE B(f) == [c EXCEPT !.row = [@ EXCEPT ![f] = heap[c.object][f]]]
        <3>1. PICK f \in c.left : c.step = "copy" /\ Shop!Goto(w, Shop!Passed(B(f), f, "save"))
            BY <2>2 DEF Shop!Copy, Shop!At
        <3>2. f \in Words /\ B(f) \in HandedTask /\ B(f).product = c.product
              /\ B(f).step = c.step
            <4>1. /\ f \in Words /\ c.row \in [Words -> Texts]
                  /\ heap[c.object] \in [Words -> Texts]
                BY <1>3 DEF HandedTask, AgreeInv, ShopIInv, ShopTypes, Shop!TypeOK,
                            Shop!Contents
            <4>2. [c.row EXCEPT ![f] = heap[c.object][f]] \in [Words -> Texts]
                BY <4>1
            <4>3. B(f) = [c EXCEPT !.row = [c.row EXCEPT ![f] = heap[c.object][f]]]
                BY <1>3 DEF HandedTask
            <4> QED BY <1>3, <4>1, <4>2, <4>3 DEF HandedTask, Shop!Contents
        <3> HIDE DEF B
        <3> QED BY <3>1, <3>2, ShopPassed
    <2> QED BY <2>1, <2>2
<1>5. cTask'[w] = t /\ \A v \in Workers \ {w} : cTask'[v].step = "idle"
    BY <1>2, <1>4 DEF Shop!Goto
<1>6. Carries(cTask'[w], heap', db, cats)
    BY <1>2, <1>4, <1>5 DEF Carries
<1>7. Current(cTask', heap', db, detail, list, shown, cats)
    <2> HIDE DEF c
    <2> QED BY <1>2, <1>4, <1>5, <1>6, CurrentAlone
<1> QED BY <1>1, <1>7 DEF Currently

\* A statement on the products, and the cache is to be cleared next.
LEMMA AgreeWrites ==
    ASSUME AgreeInv, faults = 0, NEW w \in Workers,
           cTask[w].step \in {"save", "insert", "remove"},
           Shop!Goto(w, [step |-> "clear"]),
           UNCHANGED <<cats, heap, detail, list, shown>>
    PROVE  Currently'
<1>1. /\ cTask \in [Workers -> ShopTask]
      /\ \A v \in Workers \ {w} : cTask[v].step = "idle"
      /\ ShownOK(shown, cats)
    BY AgreeFacts DEF Writes
<1>2. cTask'[w].step = "clear" /\ \A v \in Workers \ {w} : cTask'[v].step = "idle"
    BY <1>1 DEF Shop!Goto
<1>3. Carries(cTask'[w], heap, db', cats)
    BY <1>2 DEF Carries
<1>4. Current(cTask', heap, db', detail, list, shown, cats)
    BY <1>1, <1>2, <1>3, CurrentAlone
<1> QED BY <1>4 DEF Currently

LEMMA AgreeProducts ==
    ASSUME AgreeInv, faults = 0, faults' = 0, NEW w \in Workers,
           Shop!SaveProduct(w) \/ Shop!InsertProduct(w) \/ Shop!RemoveProduct(w)
    PROVE  Currently'
<1>1. ~Shop!Fault
    BY DEF Shop!Fault
<1>2. CASE Shop!SaveProduct(w)
    BY <1>1, <1>2, AgreeWrites DEF Shop!SaveProduct, Shop!At
<1>3. CASE Shop!RemoveProduct(w)
    BY <1>1, <1>3, AgreeWrites DEF Shop!RemoveProduct, Shop!At
<1>4. CASE Shop!InsertProduct(w)
    <2>1. cTask[w].step = "insert" /\ UNCHANGED <<cats, heap, detail, list, shown>>
        BY <1>4 DEF Shop!InsertProduct, Shop!At
    <2>2. CASE Shop!Goto(w, [step |-> "clear"])
        BY <2>1, <2>2, AgreeWrites
    <2>3. CASE Shop!Goto(w, Shop!Idle) /\ UNCHANGED <<db, saved>>
        <3>1. /\ cTask \in [Workers -> ShopTask]
              /\ Current(cTask, heap, db, detail, list, shown, cats)
              /\ \A v \in Workers : Carries(cTask[v], heap, db, cats)
            BY AgreeFacts
        <3>2. Carries(Shop!Idle, heap, db, cats)
            BY DEF Carries, Shop!Idle
        <3>3. cTask' = [cTask EXCEPT ![w] = Shop!Idle]
            BY <2>3 DEF Shop!Goto
        <3>4. Current(cTask', heap, db, detail, list, shown, cats)
            BY <2>1, <3>1, <3>2, <3>3, CurrentGoesOn
        <3> QED BY <2>1, <2>3, <3>4 DEF Currently
    <2> QED BY <1>1, <1>4, <2>2, <2>3 DEF Shop!InsertProduct, Shop!Finish
<1> QED BY <1>2, <1>3, <1>4

LEMMA AgreeClear ==
    ASSUME AgreeInv, faults = 0, NEW w \in Workers, Shop!ClearProducts(w)
    PROVE  Currently'
<1>1. /\ cTask[w].step = "clear" /\ detail' = <<>> /\ list' = NotCached
      /\ Shop!Goto(w, Shop!Idle)
      /\ UNCHANGED <<db, cats, heap, shown, saved, faults>>
    BY DEF Shop!ClearProducts, Shop!At, Shop!Finish
<1>2. /\ cTask \in [Workers -> ShopTask]
      /\ \A v \in Workers \ {w} : cTask[v].step = "idle"
      /\ ShownOK(shown, cats)
    BY <1>1, AgreeFacts DEF Writes
<1>3. cTask'[w].step = "idle" /\ \A v \in Workers \ {w} : cTask'[v].step = "idle"
    BY <1>1, <1>2, IdleIsBare DEF Shop!Goto
<1>4. Carries(cTask'[w], heap, db, cats)
    BY <1>3 DEF Carries
<1>5. PagesOK(detail', heap, db) /\ ListOK(list', db)
    BY <1>1 DEF PagesOK, ListOK
<1>6. Current(cTask', heap, db, detail', list', shown, cats)
    BY <1>2, <1>3, <1>4, <1>5, CurrentAlone
<1> QED BY <1>1, <1>6 DEF Currently

\* A query, or the filling of a cache with what one returned.
LEMMA AgreeReads ==
    ASSUME AgreeInv, faults = 0, NEW w \in Workers, NEW t, Shop!Goto(w, t),
           cTask[w].step \notin {"edit", "copy", "save", "clear", "clearcats"},
           Carries(t, heap, db, cats),
           ListOK(list, db) => ListOK(list', db),
           ShownOK(shown, cats) => ShownOK(shown', cats),
           UNCHANGED <<db, cats, heap, detail>>
    PROVE  Currently'
<1>1. /\ cTask \in [Workers -> ShopTask]
      /\ Current(cTask, heap, db, detail, list, shown, cats)
      /\ \A v \in Workers : Carries(cTask[v], heap, db, cats)
    BY AgreeFacts
<1>2. cTask' = [cTask EXCEPT ![w] = t]
    BY DEF Shop!Goto
<1>3. Current(cTask', heap, db, detail, list', shown', cats)
    BY <1>1, <1>2, CurrentGoesOn
<1> QED BY <1>3 DEF Currently

LEMMA AgreeLists ==
    ASSUME AgreeInv, faults = 0, NEW w \in Workers,
           \/ Shop!ListCount(w) \/ Shop!ListFind(w) \/ Shop!ListSet(w)
           \/ Shop!CategoriesFind(w) \/ Shop!CategoriesCount(w) \/ Shop!CategoriesSet(w)
    PROVE  Currently'
<1>1. Carries(cTask[w], heap, db, cats)
    BY AgreeFacts
<1>2. Carries(Shop!Idle, heap, db, cats)
    BY DEF Carries, Shop!Idle
<1>3. CASE Shop!ListCount(w)
    <2> DEFINE t == [step |-> "find", total |-> Shop!Cardinality(DOMAIN db)]
    <2>1. Carries(t, heap, db, cats)
        BY DEF Carries
    <2>2. /\ Shop!Goto(w, t) /\ cTask[w].step = "idle"
          /\ UNCHANGED <<db, cats, heap, detail, list, shown>>
        BY <1>3 DEF Shop!ListCount, Shop!At, Shop!products
    <2> HIDE DEF t
    <2> QED BY <2>1, <2>2, AgreeReads
<1>4. CASE Shop!ListFind(w)
    <2> DEFINE t == [step |-> "setlist", total |-> cTask[w].total, found |-> db]
    <2>1. /\ Shop!Goto(w, t) /\ cTask[w].step = "find"
          /\ UNCHANGED <<db, cats, heap, detail, list, shown>>
        BY <1>4 DEF Shop!ListFind, Shop!At, Shop!products
    <2>2. Carries(t, heap, db, cats)
        BY <1>1, <2>1 DEF Carries
    <2> HIDE DEF t
    <2> QED BY <2>1, <2>2, AgreeReads
<1>5. CASE Shop!ListSet(w)
    <2>1. /\ Shop!Goto(w, Shop!Idle) /\ cTask[w].step = "setlist"
          /\ list' = [total |-> cTask[w].total, found |-> cTask[w].found]
          /\ UNCHANGED <<db, cats, heap, detail, shown>>
        BY <1>5 DEF Shop!ListSet, Shop!At, Shop!Finish
    <2>2. ListOK(list', db)
        BY <1>1, <2>1 DEF Carries, ListOK
    <2> QED BY <1>2, <2>1, <2>2, AgreeReads
<1>6. CASE Shop!CategoriesFind(w)
    <2> DEFINE t == [step |-> "count", cats |-> cats]
    <2>1. Carries(t, heap, db, cats)
        BY DEF Carries
    <2>2. /\ Shop!Goto(w, t) /\ cTask[w].step = "idle"
          /\ UNCHANGED <<db, cats, heap, detail, list, shown>>
        BY <1>6 DEF Shop!CategoriesFind, Shop!At, Shop!products
    <2> HIDE DEF t
    <2> QED BY <2>1, <2>2, AgreeReads
<1>7. CASE Shop!CategoriesCount(w)
    <2> DEFINE t == [step |-> "setcats", cats |-> cTask[w].cats,
                     count |-> Shop!Cardinality(DOMAIN db)]
    <2>1. /\ Shop!Goto(w, t) /\ cTask[w].step = "count"
          /\ UNCHANGED <<db, cats, heap, detail, list, shown>>
        BY <1>7 DEF Shop!CategoriesCount, Shop!At, Shop!products
    <2>2. Carries(t, heap, db, cats)
        BY <1>1, <2>1 DEF Carries
    <2> HIDE DEF t
    <2> QED BY <2>1, <2>2, AgreeReads
<1>8. CASE Shop!CategoriesSet(w)
    <2>1. /\ Shop!Goto(w, Shop!Idle) /\ cTask[w].step = "setcats"
          /\ shown' = [cats |-> cTask[w].cats, count |-> cTask[w].count]
          /\ UNCHANGED <<db, cats, heap, detail, list>>
        BY <1>8 DEF Shop!CategoriesSet, Shop!At, Shop!Finish, Shop!products
    <2>2. ShownOK(shown', cats)
        BY <1>1, <2>1 DEF Carries, ShownOK
    <2> QED BY <1>2, <2>1, <2>2, AgreeReads
<1> QED BY <1>3, <1>4, <1>5, <1>6, <1>7, <1>8

LEMMA AgreeCategories ==
    ASSUME AgreeInv, faults = 0, faults' = 0, Lone(cTask'), NEW w \in Workers,
           \/ \E k \in Categories : Shop!CategoryWrite(w, k)
           \/ Shop!ClearCategories(w)
    PROVE  Currently'
<1>1. cTask \in [Workers -> ShopTask]
    BY AgreeFacts
<1>2. CASE \E k \in Categories : Shop!CategoryWrite(w, k)
    <2> DEFINE t == [step |-> "clearcats"]
    <2>0. ~Shop!Fault
        BY DEF Shop!Fault
    <2>1. /\ cTask[w].step = "idle" /\ Shop!Goto(w, t)
          /\ UNCHANGED <<db, heap, detail, list, shown, saved>>
        BY <1>2, <2>0 DEF Shop!CategoryWrite, Shop!At, Shop!products
    <2>2. Writes(t) /\ t.step = "clearcats"
        BY DEF Writes
    <2> HIDE DEF t
    <2>3. /\ cTask'[w] = t /\ \A v \in Workers \ {w} : cTask'[v] = cTask[v]
          /\ \A v \in Workers \ {w} : cTask[v].step = "idle"
        BY <1>1, <2>1, <2>2, GoesAlone
    <2>4. PagesOK(detail, heap, db) /\ ListOK(list, db)
        BY <2>1, <2>3, AgreeFacts
    <2>5. Carries(cTask'[w], heap, db, cats')
        BY <2>2, <2>3 DEF Carries
    <2>6. Current(cTask', heap, db, detail, list, shown, cats')
        BY <2>2, <2>3, <2>4, <2>5, CurrentAlone
    <2> QED BY <2>1, <2>6 DEF Currently
<1>3. CASE Shop!ClearCategories(w)
    <2>1. /\ cTask[w].step = "clearcats" /\ Shop!Goto(w, Shop!Idle) /\ shown' = NotCached
          /\ UNCHANGED <<db, cats, heap, detail, list, saved, unsaved, faults>>
        BY <1>3 DEF Shop!ClearCategories, Shop!At, Shop!Finish, Shop!products
    <2>2. /\ \A v \in Workers \ {w} : cTask[v].step = "idle"
          /\ PagesOK(detail, heap, db) /\ ListOK(list, db)
        BY <2>1, AgreeFacts DEF Writes
    <2>3. cTask'[w].step = "idle" /\ \A v \in Workers \ {w} : cTask'[v].step = "idle"
        BY <1>1, <2>1, <2>2, IdleIsBare DEF Shop!Goto
    <2>4. Carries(cTask'[w], heap, db, cats) /\ ShownOK(shown', cats)
        BY <2>1, <2>3 DEF Carries, ShownOK
    <2>5. Current(cTask', heap, db, detail, list, shown', cats)
        BY <2>2, <2>3, <2>4, CurrentAlone
    <2> QED BY <2>1, <2>5 DEF Currently
<1> QED BY <1>2, <1>3

LEMMA AgreeRests ==
    ASSUME AgreeInv, faults = 0, Shop!Expire \/ Shop!Crash
    PROVE  Currently'
<1>1. Current(cTask, heap, db, detail, list, shown, cats)
    BY DEF AgreeInv, Currently
<1>2. CASE Shop!Expire
    <2>1. UNCHANGED <<db, cats, heap, cTask>>
        BY <1>2 DEF Shop!Expire
    <2>2. DOMAIN detail' \subseteq DOMAIN detail /\ \A p \in DOMAIN detail' : detail'[p] = detail[p]
        BY <1>2 DEF Shop!Expire, Shop!Restrict
    <2>3. list' \in {list, NotCached} /\ shown' \in {shown, NotCached}
        BY <1>2 DEF Shop!Expire
    <2>4. /\ PagesOK(detail, heap, db) => PagesOK(detail', heap, db)
          /\ ListOK(list, db) => ListOK(list', db)
          /\ ShownOK(shown, cats) => ShownOK(shown', cats)
        BY <2>2, <2>3 DEF PagesOK, ListOK, ShownOK
    <2> QED BY <1>1, <2>1, <2>4 DEF Current, Currently
<1>3. CASE Shop!Crash
    <2>1. \A v \in Workers : cTask'[v].step = "idle"
        BY <1>3, IdleIsBare DEF Shop!Crash
    <2>2. \A v \in Workers : Carries(cTask'[v], heap', db', cats')
        BY <2>1 DEF Carries
    <2>3. PagesOK(detail', heap', db') /\ ListOK(list', db') /\ ShownOK(shown', cats')
        BY <1>3 DEF Shop!Crash, PagesOK, ListOK, ShownOK
    <2> QED BY <2>2, <2>3 DEF Current, Currently
<1> QED BY <1>2, <1>3

LEMMA AgreeStep ==
    ASSUME AgreeInv, Shop!Next, Lone(cTask')
    PROVE  AgreeInv'
<1>1. ShopIInv'
    BY ShopStep DEF AgreeInv
<1>2. faults' = 0 => faults = 0
    <2>1. faults \in Nat
        BY ShopConstants DEF AgreeInv, ShopIInv, ShopTypes, Shop!TypeOK
    <2>2. ASSUME NEW w \in Workers, Shop!HandleProduct(w)
          PROVE  faults' = faults \/ Shop!Fault
        <3>1. Shop!Edit(w) \/ Shop!Copy(w) => faults' = faults
            BY DEF Shop!Edit, Shop!Assign, Shop!Copy
        <3>2. (\E op \in Shop!Operations, p \in Products, x \in Shop!Contents :
                  Shop!Lookup(w, op, p, x)) \/ Shop!Remember(w) => faults' = faults
            BY DEF Shop!Lookup, Shop!Remember
        <3>3. Shop!SaveProduct(w) \/ Shop!InsertProduct(w) \/ Shop!RemoveProduct(w)
                 => faults' = faults \/ Shop!Fault
            BY DEF Shop!SaveProduct, Shop!InsertProduct, Shop!RemoveProduct
        <3>4. Shop!ClearProducts(w) \/ Shop!ListCount(w) \/ Shop!ListFind(w)
                 \/ Shop!ListSet(w) => faults' = faults
            BY DEF Shop!ClearProducts, Shop!ListCount, Shop!ListFind, Shop!ListSet
        <3> QED BY <2>2, <3>1, <3>2, <3>3, <3>4 DEF Shop!HandleProduct
    <2>3. ASSUME NEW w \in Workers, Shop!HandleCategory(w)
          PROVE  faults' = faults \/ Shop!Fault
        BY <2>3 DEF Shop!HandleCategory, Shop!CategoriesFind, Shop!CategoriesCount,
                    Shop!CategoriesSet, Shop!CategoryWrite, Shop!ClearCategories
    <2>4. Shop!Expire \/ Shop!Crash => faults' = faults
        BY DEF Shop!Expire, Shop!Crash
    <2>5. faults' = faults \/ faults' = faults + 1
        BY <2>2, <2>3, <2>4 DEF Shop!Next, Shop!Fault
    <2> QED BY <2>1, <2>5
<1>3. ASSUME faults = 0, faults' = 0
      PROVE  Currently'
    <2>1. ASSUME NEW w \in Workers, Shop!HandleProduct(w) \/ Shop!HandleCategory(w)
          PROVE  Currently'
        BY <1>3, <2>1, AgreeLookup, AgreeRemember, AgreeEdit, AgreeProducts, AgreeClear,
           AgreeLists, AgreeCategories DEF Shop!HandleProduct, Shop!HandleCategory
    <2> QED BY <1>3, <2>1, AgreeRests DEF Shop!Next
<1> QED BY <1>1, <1>2, <1>3 DEF AgreeInv

LEMMA AgreeStarts ==
    ASSUME Shop!Init
    PROVE  AgreeInv
<1>1. /\ db = <<>> /\ detail = <<>> /\ list = NotCached /\ shown = NotCached
      /\ cTask = [v \in Workers |-> Shop!Idle]
    BY DEF Shop!Init
<1>2. \A v \in Workers : cTask[v].step = "idle"
    BY <1>1, IdleIsBare
<1>3. /\ \A v \in Workers : Carries(cTask[v], heap, db, cats)
      /\ PagesOK(detail, heap, db) /\ ListOK(list, db) /\ ShownOK(shown, cats)
      /\ Lone(cTask)
    BY <1>1, <1>2 DEF Carries, PagesOK, ListOK, ShownOK, Lone, Writes
<1> QED BY <1>3, ShopStarts DEF AgreeInv, Currently, Current

\* What was said of products that come back, from the invariant: a row is
\* saved by an update only while it is there.
LEMMA ReturnsAreInserts ==
    ASSUME AgreeInv, faults = 0, Shop!Next
    PROVE  Shop!ReturnsByInsert
<1> SUFFICES ASSUME NEW p \in DOMAIN db' \ DOMAIN db
             PROVE  \E w \in Workers : cTask[w].step = "insert" /\ cTask[w].product = p
    BY DEF Shop!ReturnsByInsert, Shop!At
<1>1. \A q, x : Shop!Store(q, x) => DOMAIN db' = DOMAIN db \cup {q}
    BY DEF Shop!Store, Shop!Put
<1>2. \A q : Shop!Remove(q) => DOMAIN db' \subseteq DOMAIN db
    BY DEF Shop!Remove, Shop!Restrict
<1>3. ASSUME NEW w \in Workers, Shop!SaveProduct(w)
      PROVE  FALSE
    <2>1. cTask[w].product \in DOMAIN db
        BY <1>3, AgreeFacts DEF Carries, Shop!SaveProduct, Shop!At
    <2>2. Shop!Store(cTask[w].product, cTask[w].row) \/ db' = db
        BY <1>3 DEF Shop!SaveProduct
    <2>3. DOMAIN db' = DOMAIN db
        BY <1>1, <2>1, <2>2
    <2> QED BY <2>3
<1>4. ASSUME NEW w \in Workers, Shop!RemoveProduct(w)
      PROVE  FALSE
    BY <1>2, <1>4 DEF Shop!RemoveProduct
<1>5. PICK w \in Workers : Shop!InsertProduct(w)
    <2>1. ASSUME NEW w \in Workers, Shop!HandleProduct(w)
          PROVE  Shop!InsertProduct(w) \/ db' = db
        <3>1. Shop!Edit(w) \/ Shop!Copy(w) => db' = db
            BY DEF Shop!Edit, Shop!Assign, Shop!Copy
        <3>2. (\E op \in Shop!Operations, q \in Products, x \in Shop!Contents :
                  Shop!Lookup(w, op, q, x)) \/ Shop!Remember(w) => db' = db
            BY DEF Shop!Lookup, Shop!Remember
        <3>3. Shop!ClearProducts(w) \/ Shop!ListCount(w) \/ Shop!ListFind(w)
                 \/ Shop!ListSet(w) => db' = db
            BY DEF Shop!ClearProducts, Shop!ListCount, Shop!ListFind, Shop!ListSet
        <3> QED BY <1>3, <1>4, <2>1, <3>1, <3>2, <3>3 DEF Shop!HandleProduct
    <2>2. ASSUME NEW w \in Workers, Shop!HandleCategory(w)
          PROVE  db' = db
        BY <2>2 DEF Shop!HandleCategory, Shop!CategoriesFind, Shop!CategoriesCount,
                    Shop!CategoriesSet, Shop!CategoryWrite, Shop!ClearCategories
    <2>3. Shop!Expire \/ Shop!Crash => db' = db
        BY DEF Shop!Expire, Shop!Crash
    <2> QED BY <2>1, <2>2, <2>3 DEF Shop!Next
<1>6. /\ cTask[w].step = "insert"
      /\ Shop!Store(cTask[w].product, cTask[w].content) \/ db' = db
    BY <1>5 DEF Shop!InsertProduct, Shop!At
<1>7. DOMAIN db' = DOMAIN db \cup {cTask[w].product}
    BY <1>1, <1>6
<1> QED BY <1>6, <1>7

-----------------------------------------------------------------------------
(* Banners: the cached list is current as far as writes have got, though   *)
(* writes overlap each other.                                             *)

HomeInv ==
    /\ bTask = [w \in Workers |-> bTask[w]]
    /\ \A w \in Workers : bTask[w].step = "fill" => bTask[w].found = Home!Active
    /\ Home!ListAgrees

LEMMA HomeStarts ==
    ASSUME Home!Init
    PROVE  HomeInv
<1>1. bTask = [w \in Workers |-> Home!Idle] /\ active = NotCached
    BY DEF Home!Init
<1>2. \A w \in Workers : bTask[w].step = "idle"
    BY <1>1 DEF Home!Idle
<1>3. Home!ListAgrees
    BY <1>1 DEF Home!ListAgrees
<1> QED BY <1>1, <1>2, <1>3 DEF HomeInv

\* What a reader found stays current: no write comes between.
LEMMA HomeMoves ==
    ASSUME HomeInv, NEW w \in Workers, NEW t, Home!Goto(w, t),
           t.step = "fill" => t.found = Home!Active',
           \/ banners' = banners
           \/ \A v \in Workers \ {w} : bTask[v].step # "fill",
           Home!ListAgrees'
    PROVE  HomeInv'
<1>1. /\ bTask' = [bTask EXCEPT ![w] = t]
      /\ bTask = [v \in Workers |-> bTask[v]]
      /\ \A v \in Workers : bTask[v].step = "fill" => bTask[v].found = Home!Active
    BY DEF HomeInv, Home!Goto
<1>2. /\ bTask' = [v \in Workers |-> bTask'[v]]
      /\ bTask'[w] = t /\ \A v \in Workers \ {w} : bTask'[v] = bTask[v]
    BY <1>1
<1>3. banners' = banners => Home!Active' = Home!Active
    BY DEF Home!Active
<1>4. ASSUME NEW v \in Workers, bTask'[v].step = "fill"
      PROVE  bTask'[v].found = Home!Active'
    BY <1>1, <1>2, <1>3, <1>4
<1> QED BY <1>2, <1>4 DEF HomeInv

LEMMA HomeStep ==
    ASSUME HomeInv, HomeNext
    PROVE  HomeInv'
<1>1. /\ bTask = [v \in Workers |-> bTask[v]] /\ Home!ListAgrees
      /\ \A v \in Workers : bTask[v].step = "fill" => bTask[v].found = Home!Active
    BY DEF HomeInv
<1>2. \A v \in Workers : bTask[v].step = "fill" => banners' = banners
    BY DEF HomeNext, Doing
<1>3. ASSUME NEW w \in Workers, NEW t, Home!Goto(w, t)
      PROVE  /\ bTask'[w] = t /\ \A v \in Workers \ {w} : bTask'[v] = bTask[v]
    BY <1>1, <1>3 DEF Home!Goto
<1>4. ASSUME NEW w \in Workers, Home!ThenClear(w)
      PROVE  /\ Home!ListAgrees'
             /\ \E t \in {[step |-> "clear"], Home!Idle} : Home!Goto(w, t)
    <2>1. CASE Home!Goto(w, [step |-> "clear"])
        <3>1. bTask'[w].step = "clear"
            BY <1>3, <2>1
        <3> QED BY <2>1, <3>1 DEF Home!ListAgrees, Home!At
    <2>2. CASE Home!Goto(w, Home!Idle) /\ unanswered' = TRUE
        BY <2>2 DEF Home!ListAgrees
    <2> QED BY <1>4, <2>1, <2>2 DEF Home!ThenClear
<1>5. ASSUME NEW w \in Workers, Home!ThenClear(w)
      PROVE  HomeInv'
    <2>1. PICK t \in {[step |-> "clear"], Home!Idle} : Home!Goto(w, t)
        BY <1>4, <1>5
    <2>2. t.step # "fill"
        BY DEF Home!Idle
    <2> QED BY <1>2, <1>4, <1>5, <2>1, <2>2, HomeMoves
<1>6. ASSUME NEW w \in Workers, bTask[w].step # "clear", UNCHANGED <<banners, active, unanswered>>,
             NEW t, Home!Goto(w, t), t.step = "fill" => t.found = Home!Active
      PROVE  HomeInv'
    <2>1. Home!ListAgrees'
        BY <1>1, <1>3, <1>6 DEF Home!ListAgrees, Home!At
    <2>2. Home!Active' = Home!Active
        BY <1>6 DEF Home!Active
    <2> QED BY <1>6, <2>1, <2>2, HomeMoves
<1>7. ASSUME NEW w \in Workers, Home!ListActiveRead(w)
      PROVE  HomeInv'
    <2> DEFINE t == [step |-> "fill", found |-> Home!Active]
    <2>1. t.found = Home!Active
        OBVIOUS
    <2>2. /\ Home!Goto(w, t) /\ bTask[w].step # "clear"
          /\ UNCHANGED <<banners, active, unanswered>>
        BY <1>7 DEF Home!ListActiveRead, Home!At
    <2> HIDE DEF t
    <2> QED BY <1>6, <2>1, <2>2
<1>8. Home!Idle.step = "idle"
    BY DEF Home!Idle
<1>9. ASSUME NEW w \in Workers, Home!ListActiveFill(w)
      PROVE  HomeInv'
    <2>1. /\ active' = bTask[w].found /\ bTask[w].found = Home!Active
          /\ Home!Goto(w, Home!Idle) /\ UNCHANGED <<banners, unanswered>>
        BY <1>1, <1>9 DEF Home!ListActiveFill, Home!At
    <2>2. Home!ListAgrees'
        BY <2>1 DEF Home!ListAgrees, Home!Active, Home!Restrict
    <2> QED BY <1>8, <2>1, <2>2, HomeMoves
<1>10. ASSUME NEW w \in Workers, Home!Clear(w)
       PROVE  HomeInv'
    <2>1. active' = NotCached /\ Home!Goto(w, Home!Idle) /\ UNCHANGED banners
        BY <1>10 DEF Home!Clear
    <2>2. Home!ListAgrees'
        BY <2>1 DEF Home!ListAgrees
    <2> QED BY <1>8, <2>1, <2>2, HomeMoves
<1>11. ASSUME NEW w \in Workers, Home!UpdateFails(w)
       PROVE  HomeInv'
    BY <1>6, <1>8, <1>11 DEF Home!UpdateFails, Home!At
<1>12. ASSUME NEW w \in Workers, NEW b, Home!UpdateRead(w, b)
       PROVE  HomeInv'
    <2> DEFINE t == [step |-> "save", banner |-> b, active |-> banners[b].active]
    <2>1. t.step # "fill"
        OBVIOUS
    <2>2. /\ Home!Goto(w, t) /\ bTask[w].step # "clear"
          /\ UNCHANGED <<banners, active, unanswered>>
        BY <1>12 DEF Home!UpdateRead, Home!At
    <2> HIDE DEF t
    <2> QED BY <1>6, <2>1, <2>2
<1>13. CASE Home!Expire
    <2>1. active' = NotCached /\ UNCHANGED <<banners, bTask>>
        BY <1>13 DEF Home!Expire
    <2>2. Home!Active' = Home!Active
        BY <2>1 DEF Home!Active
    <2> QED BY <1>1, <2>1, <2>2 DEF HomeInv, Home!ListAgrees
<1>14. CASE Home!Restart
    <2>1. active' = NotCached /\ bTask' = [v \in Workers |-> Home!Idle]
        BY <1>14 DEF Home!Restart
    <2> QED BY <1>8, <2>1 DEF HomeInv, Home!ListAgrees
<1>15. ASSUME NEW w \in Workers,
              \/ \E c \in Texts, a \in BOOLEAN : Home!Create(w, c, a)
              \/ \E c \in Texts, sent \in Home!Sent : Home!UpdateSave(w, c, sent)
              \/ \E b \in 1..given : Home!Delete(w, b)
       PROVE  HomeInv'
    BY <1>5, <1>15 DEF Home!Create, Home!UpdateSave, Home!Delete
<1> QED BY <1>7, <1>9, <1>10, <1>11, <1>12, <1>13, <1>14, <1>15
        DEF HomeNext, Home!Next, Home!Request

-----------------------------------------------------------------------------

NowInv == HomeInv /\ (apart => AgreeInv)

LEMMA NowStarts ==
    ASSUME RegimeInit
    PROVE  NowInv
BY HomeStarts, AgreeStarts DEF RegimeInit, NowInv

LEMMA ShopKeeps ==
    ASSUME AgreeInv, UNCHANGED shop
    PROVE  AgreeInv' /\ Shop!ReturnsByInsert
<1>1. UNCHANGED <<db, cats, heap, detail, list, shown, cTask, saved, unsaved, faults>>
    BY DEF shop
<1>2. ShopIInv'
    BY <1>1, ShopStep DEF AgreeInv, Shop!vars
<1>3. Lone(cTask') /\ (faults' = 0 => Currently')
    BY <1>1 DEF AgreeInv, Currently
<1> QED BY <1>1, <1>2, <1>3 DEF AgreeInv, Shop!ReturnsByInsert

LEMMA HomeKeeps ==
    ASSUME HomeInv, UNCHANGED home
    PROVE  HomeInv'
BY DEF home, HomeInv, Home!Active, Home!ListAgrees, Home!At

LEMMA NowStep ==
    ASSUME NowInv, [RegimeNext]_mcvars
    PROVE  NowInv' /\ (apart /\ faults = 0 => Shop!ReturnsByInsert)
<1>1. apart' = apart /\ HomeInv /\ (apart => AgreeInv)
    BY DEF RegimeNext, PartMoves, mcvars, NowInv
<1>2. \/ UNCHANGED shop \/ ShopNext
    BY DEF RegimeNext, PartMoves, mcvars
<1>3. \/ UNCHANGED home \/ HomeNext
    BY DEF RegimeNext, PartMoves, mcvars
<1>4. HomeInv'
    BY <1>1, <1>3, HomeStep, HomeKeeps
<1>5. ASSUME apart
      PROVE  AgreeInv' /\ (faults = 0 => Shop!ReturnsByInsert)
    <2>1. CASE UNCHANGED shop
        BY <1>1, <1>5, <2>1, ShopKeeps
    <2>2. CASE ShopNext
        <3>1. Shop!Next /\ (Writing => Cardinality(Busy(cTask)) = 1)'
            BY <1>5, <2>2 DEF ShopNext
        <3>2. Lone(cTask')
            BY <3>1, ApartIsLoneNext
        <3> QED BY <1>1, <1>5, <3>1, <3>2, AgreeStep, ReturnsAreInserts
    <2> QED BY <1>2, <2>1, <2>2
<1> QED BY <1>1, <1>4, <1>5 DEF NowInv

\* While nothing overlaps a write of the catalogue and none fails, whatever is
\* cached of it is what a query would return once requests have finished,
\* though readers overlap; and the cached banners are the active ones, though
\* writes overlap each other (product_service.go, category_service.go,
\* banner_service.go: every write clears its cache).
THEOREM CachesAreCurrent == RegimeSpec => []CacheAgreesApart
<1>1. NowInv => CacheAgreesApart
    <2>1. AgreeInv /\ faults = 0 => Shop!CacheAgrees
        <3> SUFFICES ASSUME AgreeInv, faults = 0, Shop!Quiet
                     PROVE  Shop!CacheAgrees
            BY DEF Shop!CacheAgrees
        <3>1. \A w \in Workers : cTask[w].step = "idle"
            BY DEF Shop!Quiet, Shop!At
        <3>2. PagesOK(detail, heap, db) /\ ListOK(list, db) /\ ShownOK(shown, cats)
            BY <3>1 DEF AgreeInv, Currently, Current
        <3> QED BY <3>2 DEF Shop!CacheAgrees, PagesOK, ListOK, ShownOK
    <2> QED BY <2>1 DEF NowInv, HomeInv, CacheAgreesApart
<1>2. NowInv /\ [RegimeNext]_mcvars => NowInv'
    BY NowStep
<1> QED BY <1>1, <1>2, NowStarts, PTL DEF RegimeSpec

\* Under the same conditions a deleted product comes back only by being
\* created again: an update that starts from a cached page saves a row that is
\* there (product_controller.go, Update).
THEOREM DeletedProductsStayDeleted == RegimeSpec => DeletedStaysDeletedApart
<1>1. NowInv /\ [RegimeNext]_mcvars =>
         NowInv' /\ [apart /\ faults = 0 => Shop!ReturnsByInsert]_<<db, saved>>
    BY NowStep
<1> QED BY <1>1, NowStarts, PTL DEF RegimeSpec, DeletedStaysDeletedApart

\* What TLC checks are behaviours that the theorems are about.
THEOREM InstancesAreCovered == MCSpec => RegimeSpec
<1>1. MCInit => RegimeInit
    BY DEF MCInit
<1>2. [MCNext]_mcvars => [RegimeNext]_mcvars
    BY DEF MCNext, RegimeNext, PartMoves, Parts
<1> QED BY <1>1, <1>2, PTL DEF MCSpec, RegimeSpec

\* Each part behaves as the service's own specification says.
THEOREM PartsAreServices ==
    RegimeSpec => Spec /\ Settings!Spec /\ Shop!Spec /\ Home!Spec /\ Google!Spec /\ Audit!Spec
<1>1. RegimeInit => /\ Init /\ Settings!Init /\ Shop!Init
                    /\ Home!Init /\ Google!Init /\ Audit!Init
    BY DEF RegimeInit
<1>2. [RegimeNext]_mcvars => [Next]_vars
    BY DEF RegimeNext, PartMoves, MethodsNext, mcvars
<1>3. [RegimeNext]_mcvars => [Settings!Next]_(Settings!vars)
    BY DEF RegimeNext, PartMoves, SettingsNext, mcvars, settings, Settings!vars
<1>4. [RegimeNext]_mcvars => [Shop!Next]_(Shop!vars)
    BY DEF RegimeNext, PartMoves, ShopNext, mcvars, shop, Shop!vars
<1>5. [RegimeNext]_mcvars => [Home!Next]_(Home!vars)
    BY DEF RegimeNext, PartMoves, HomeNext, mcvars, home, Home!vars
<1>6. [RegimeNext]_mcvars => [Google!Next]_(Google!vars)
    BY DEF RegimeNext, PartMoves, mcvars, google, Google!vars
<1>7. [RegimeNext]_mcvars => [Audit!Next]_(Audit!vars)
    BY DEF RegimeNext, PartMoves, mcvars, audit, Audit!vars
<1> QED BY <1>1, <1>2, <1>3, <1>4, <1>5, <1>6, <1>7, PTL
       DEF RegimeSpec, Spec, Settings!Spec, Shop!Spec, Home!Spec, Google!Spec, Audit!Spec
=============================================================================
