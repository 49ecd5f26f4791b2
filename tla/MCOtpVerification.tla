-------------------------- MODULE MCOtpVerification --------------------------
(***************************************************************************)
(* OtpVerification on small instances. Two phones and two requests at once *)
(* are the fewest that let a code, a form or a row reach the wrong phone;  *)
(* failures and restarts are explored with the requests of one phone.      *)
(***************************************************************************)
EXTENDS OtpVerification, TLC

Symmetric == Permutations(Workers) \cup Permutations(Phones) \cup Permutations(Forms)
             \cup Permutations(Chats)

\* Bound: a behaviour with a loss deals with one phone.
LossesWithOnePhone ==
    losses = 0 \/ Cardinality({reqs[i].phone : i \in DOMAIN reqs}
                              \cup {p \in Phones : \E f \in Forms : <<p, f>> \in asked}) <= 1
=============================================================================
