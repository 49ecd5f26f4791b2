---------------------------- MODULE RateLimiter ----------------------------
(***************************************************************************)
(* middlewares/rate_limit_middleware.go: a token bucket per client address *)
(* that is only brought up to date when the client sends a request, and a  *)
(* cleanup loop that forgets clients not seen for a while.                 *)
(*                                                                         *)
(* check and the sweep run under the mutex, so each is one action; the     *)
(* loop takes its cutoff time before it waits for the mutex. Amounts are   *)
(* whole units instead of floats: with a minute's worth of units to a      *)
(* token, NewRateLimiter(r, b, _) has Token = 60, Full = 60 * b and gains  *)
(* r units a second. Clients are those the allowlist and the skipped paths *)
(* do not exempt. A restart empties the map, which is Init again.          *)
(***************************************************************************)
EXTENDS Integers

CONSTANTS
    Clients,
    Token, Full, Refill,   \* as in TokenBucket; Refill is per tick
    TicksPerSecond,
    Forget,                \* cleanupLoop's fifteen minutes, in ticks
    MaxNow                 \* bound: ticks

\* Every limiter of routes.go and main.go refills within a minute, and a
\* visitor is kept for fifteen.
ASSUME LimiterAssumption ==
    /\ Token \in Nat \ {0} /\ Full \in Nat /\ Full >= Token
    /\ Refill \in Nat \ {0} /\ TicksPerSecond \in Nat \ {0}
    /\ Forget \in Nat /\ Full <= Refill * Forget
    /\ MaxNow \in Nat

VARIABLES
    now,        \* the clock
    known,      \* clients in the visitors map
    visitors,   \* visitors[c]: tokens and lastSeen, for a known client
    cutoff,     \* what cleanupLoop is about to sweep by
    answer,     \* answer[c]: what client c was last told in this tick
    admitted,   \* history: requests of c let through
    retryAt     \* history: when c was last told to retry, 0 once let through

vars == <<now, known, visitors, cutoff, answer, admitted, retryAt>>

-----------------------------------------------------------------------------

Visitor == [tokens : 0..Full, lastSeen : Nat]

Capped(n) == IF n > Full THEN Full ELSE n

Init ==
    /\ now = 0
    /\ known = {}
    /\ visitors = [c \in Clients |-> [tokens |-> Full, lastSeen |-> 0]]
    /\ cutoff = 0
    /\ answer = [c \in Clients |-> "none"]
    /\ admitted = [c \in Clients |-> 0]
    /\ retryAt = [c \in Clients |-> 0]

\* The bucket as check brings it up to date; a client not in the map gets a
\* full one.
Refilled(c) ==
    IF c \in known
    THEN Capped(visitors[c].tokens + (now - visitors[c].lastSeen) * Refill)
    ELSE Full

\* Mutant of Seen: lastSeen keeps the time it had.
SeenUntimed(c, n) ==
    /\ known' = known \cup {c}
    /\ visitors' = [visitors EXCEPT ![c].tokens = n]

\* check: in both cases the bucket is written back with the time.
Seen(c, n) ==
    /\ known' = known \cup {c}
    /\ visitors' = [visitors EXCEPT ![c] = [tokens |-> n, lastSeen |-> now]]

CheckAdmit(c) ==
    /\ Refilled(c) >= Token
    /\ Seen(c, Refilled(c) - Token)
    /\ answer' = [answer EXCEPT ![c] = "admitted"]
    /\ admitted' = [admitted EXCEPT ![c] = @ + 1]
    /\ retryAt' = [retryAt EXCEPT ![c] = 0]
    /\ UNCHANGED <<now, cutoff>>

\* Mutant of RetryAfter: the quotient is rounded down.
RetryAfterDown(n) == (Token - n) \div (Refill * TicksPerSecond)

\* Seconds until a token is there: int(deficit/rate) + 1.
RetryAfter(n) == (Token - n) \div (Refill * TicksPerSecond) + 1

CheckRefuse(c) ==
    /\ Refilled(c) < Token
    /\ Seen(c, Refilled(c))
    /\ answer' = [answer EXCEPT ![c] = "refused"]
    /\ retryAt' = [retryAt EXCEPT
                      ![c] = now + RetryAfter(Refilled(c)) * TicksPerSecond]
    /\ UNCHANGED <<now, cutoff, admitted>>

\* Mutant of CleanupWakes: the fifteen minutes are not subtracted.
CleanupWakesNow ==
    /\ cutoff' = now
    /\ UNCHANGED <<now, known, visitors, answer, admitted, retryAt>>

\* cleanupLoop wakes up and computes the cutoff; lastSeen is never before 0.
CleanupWakes ==
    /\ cutoff' = IF now > Forget THEN now - Forget ELSE 0
    /\ UNCHANGED <<now, known, visitors, answer, admitted, retryAt>>

\* It has the mutex: visitors last seen before the cutoff are deleted.
CleanupSweeps ==
    /\ known' = {c \in known : visitors[c].lastSeen >= cutoff}
    /\ UNCHANGED <<now, visitors, cutoff, answer, admitted, retryAt>>

Tick ==
    /\ now < MaxNow
    /\ now' = now + 1
    /\ answer' = [c \in Clients |-> "none"]
    /\ UNCHANGED <<known, visitors, cutoff, admitted, retryAt>>

Next ==
    \/ \E c \in Clients : CheckAdmit(c) \/ CheckRefuse(c)
    \/ CleanupWakes \/ CleanupSweeps
    \/ Tick

Spec == Init /\ [][Next]_vars

-----------------------------------------------------------------------------

\* A bucket is never below empty nor above full, and no time lies in the future.
TypeOK ==
    /\ now \in 0..MaxNow
    /\ known \subseteq Clients
    /\ visitors \in [Clients -> Visitor]
    /\ cutoff \in 0..MaxNow
    /\ answer \in [Clients -> {"none", "admitted", "refused"}]
    /\ admitted \in [Clients -> Nat]
    /\ retryAt \in [Clients -> Nat]

\* No client is let through more often than its burst plus what the rate
\* gives it in the time since the start (NewRateLimiter: "requestsPerMinute
\* sustained, with short bursts"), forgotten by the sweep or not.
SustainedRate ==
    \A c \in Clients : admitted[c] * Token <= Full + now * Refill

\* A client that waits as long as Retry-After said, however often it asked
\* too early in between, is let through (check: "waits the right amount").
RetryWorks ==
    \A c \in Clients :
        retryAt[c] # 0 /\ now >= retryAt[c] => Refilled(c) >= Token

\* Clients see buckets that are filled continuously and never forgotten:
\* bringing a bucket up to date only when it is used, and deleting idle ones
\* between two requests or just before one, changes no answer.
Bucket == INSTANCE TokenBucket
            WITH level <- [c \in Clients |-> Refilled(c)]

\* The limiter implements those buckets.
BucketSpec == Bucket!Spec
=============================================================================
