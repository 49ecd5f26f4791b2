--------------------------- MODULE MCRateLimiter ---------------------------
(***************************************************************************)
(* RateLimiter on small instances: a burst of two requests that takes four *)
(* ticks to come back, and time for two sweeps.                            *)
(***************************************************************************)
EXTENDS RateLimiter
=============================================================================
