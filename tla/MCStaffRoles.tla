---------------------------- MODULE MCStaffRoles ----------------------------
(***************************************************************************)
(* StaffRoles on small instances. In the regime "apart" requests overlap   *)
(* only while they are about different accounts and different roles; in    *)
(* "any" all overlap.                                                      *)
(***************************************************************************)
EXTENDS StaffRoles, TLC

VARIABLE regime

mcvars == <<vars, regime>>

Busy(ts) == {w \in Workers : ts[w].step # "idle"}

Named(t, column) == IF column \in DOMAIN t THEN {t[column]} ELSE {}

Apart(ts) ==
    \A v, w \in Busy(ts) :
        v # w => \A c \in {"user", "role"} : Named(ts[v], c) \cap Named(ts[w], c) = {}

RegimeInit == Init /\ regime \in {"any", "apart"}

RegimeNext ==
    /\ Next
    /\ UNCHANGED regime
    /\ regime = "apart" => Apart(task')

\* The regimes without the bounds of the instances below.
RegimeSpec == RegimeInit /\ [][RegimeNext]_mcvars

FirstPassword == CHOOSE k \in Passwords : TRUE

\* Bound: where all overlap there is one password, and no request changes it;
\* it would be one more save of a whole account.
OnePassword(ts) ==
    \A w \in Busy(ts) :
        "password" \in DOMAIN ts[w] =>
            ts[w].kind = "create" /\ ts[w].password = FirstPassword

MCInit ==
    /\ RegimeInit
    /\ \A u \in DOMAIN users : users[u].password = FirstPassword
    /\ roles[2].perms # {}

MCNext == RegimeNext /\ (regime = "any" => OnePassword(task'))

MCSpec == MCInit /\ [][MCNext]_mcvars

Symmetric == Permutations(Workers)

-----------------------------------------------------------------------------

\* While requests about one account or one role do not overlap, an update,
\* a new password or a role assigned changes its own column and nothing
\* else, and what was deleted stays deleted (user_service.go,
\* role_service.go: each reads the row and saves all of it).
SavesOneChangeApart == [][regime = "apart" => SavesOneChange]_<<users, roles>>
=============================================================================
