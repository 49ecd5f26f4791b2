---------------------------- MODULE TokenBucket ----------------------------
(***************************************************************************)
(* What the rate limiter promises a client: a bucket of its own that       *)
(* starts full, is filled at a steady rate and is never forgotten; a       *)
(* request takes a token from it and is refused only when there is none.   *)
(* RateLimiter implements it with timestamps and a map that is swept.      *)
(***************************************************************************)
EXTENDS Integers

CONSTANTS
    Clients,
    Token,     \* size of one token
    Full,      \* size of a full bucket
    Refill     \* what a bucket gains in one tick

VARIABLES
    level,     \* level[c]: what is in the bucket of client c
    answer     \* answer[c]: what client c was last told in this tick

bucket == <<level, answer>>

Capped(n) == IF n > Full THEN Full ELSE n

Init ==
    /\ level = [c \in Clients |-> Full]
    /\ answer = [c \in Clients |-> "none"]

Tick ==
    /\ level' = [c \in Clients |-> Capped(level[c] + Refill)]
    /\ answer' = [c \in Clients |-> "none"]

Admit(c) ==
    /\ level[c] >= Token
    /\ level' = [level EXCEPT ![c] = @ - Token]
    /\ answer' = [answer EXCEPT ![c] = "admitted"]

Refuse(c) ==
    /\ level[c] < Token
    /\ answer' = [answer EXCEPT ![c] = "refused"]
    /\ UNCHANGED level

Next == Tick \/ \E c \in Clients : Admit(c) \/ Refuse(c)

Spec == Init /\ [][Next]_bucket
=============================================================================
