--------------------------- MODULE MCPPCBankToken ---------------------------
(***************************************************************************)
(* PPCBankToken on a small instance: two requests, so that one fetches or  *)
(* gives a token up while the other uses what is cached; a third token is  *)
(* newer than the one a retry got. Liveness is checked, so no symmetry.    *)
(***************************************************************************)
EXTENDS PPCBankToken
=============================================================================
