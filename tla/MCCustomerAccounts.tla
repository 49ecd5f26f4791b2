------------------------- MODULE MCCustomerAccounts -------------------------
(***************************************************************************)
(* CustomerAccounts on small instances. In the regime "any" all requests   *)
(* overlap. In "apart" they overlap only while they write different        *)
(* accounts, and a sign-in or a registration, which may touch any, does    *)
(* not overlap others that write. In "alone" none overlaps and no query    *)
(* fails.                                                                  *)
(*                                                                         *)
(* Phone verification, the other way to an account, is modelled with its   *)
(* own tables in OtpVerification. It shares no variable with the requests  *)
(* here and rests while they move.                                         *)
(***************************************************************************)
EXTENDS OtpVerification, TLC

CONSTANTS Emails, Subs, Passwords, None, MaxRequests, MaxFaults

VARIABLES rows, cTask, seen, made, requests, faults, regime

Customers == INSTANCE CustomerAccounts WITH task <- cTask

ASSUME CustomersAssumption == Customers!CustomersAssumption

mcvars == <<vars, Customers!vars, regime>>

Busy(t) == {w \in Workers : t[w].step # "idle"}
ReadOnly(t) == {w \in Busy(t) : t[w].kind \in {"password", "otp"}}
Adding(t) == {w \in Busy(t) : t[w].kind \in Customers!Providers \cup {"register"}}
Writing(t) == Busy(t) \ ReadOnly(t)

Apart(t) ==
    /\ Adding(t) # {} => Cardinality(Writing(t)) = 1
    /\ \A v, w \in Writing(t) : v # w => t[v].id # t[w].id

Allowed(t) ==
    CASE regime = "any"   -> TRUE
      [] regime = "apart" -> Apart(t)
      [] regime = "alone" -> Cardinality(Busy(t)) <= 1 /\ faults' = 0

MCInit == Init /\ Customers!Init /\ regime \in {"any", "apart", "alone"}

MCNext == Customers!Next /\ Allowed(cTask') /\ UNCHANGED <<vars, regime>>

MCSpec == MCInit /\ [][MCNext]_mcvars

Symmetric == Permutations(Workers)

-----------------------------------------------------------------------------

\* The table is well formed and every session is justified
\* (customer_service.go; stated in CustomerAccounts).
CustomersInv == Customers!CustomersInv

\* While the updates of one account do not overlap, none undoes another,
\* through failing queries, saves whose answer is lost, and logins meanwhile
\* (customer_service.go: each update reads the row and saves all of it).
AsMadeApart == regime = "apart" => Customers!AsMade

\* One request at a time, every duplicate phone, email or provider id is
\* found before the index refuses it (UpdateProfile, CreateFromVerifiedOtp,
\* LoginOrRegisterWithGoogle).
NoClashAlone == regime = "alone" => Customers!NoClash

\* As far as requests do not overlap, no update undoes another and no index
\* refuses one (customer_service.go).
ChangesStay == AsMadeApart /\ NoClashAlone

\* One request at a time, an owner of an old account is not told that there
\* is none (utils/phone.go: otherwise it "would look like no account").
NoAccountIsTrueAlone ==
    [][regime = "alone" =>
          \A w \in Workers :
              Customers!At(w, "find") /\ Customers!At(w, "idle")' =>
                 Customers!NoAccountIsTrue(w)']_mcvars
=============================================================================
