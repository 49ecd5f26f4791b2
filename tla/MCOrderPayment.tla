--------------------------- MODULE MCOrderPayment ---------------------------
(***************************************************************************)
(* OrderPayment on small instances. Orders meet only in the workers they   *)
(* share, so one order and several workers show every overlap of handlers. *)
(* Each behaviour has a regime that says which requests may overlap in it: *)
(* the promises below are kept in some regimes and broken in others.       *)
(***************************************************************************)
EXTENDS OrderPayment, FiniteSets

\* Requests in progress are goroutines of one process.
ASSUME WorkersAssumption == IsFiniteSet(Workers)

VARIABLE regime

mcvars == <<vars, regime>>

Regimes == {"any", "staff apart", "alone"}

Busy(t) == {w \in Workers : t[w].step # "idle"}
Staff(t) == {w \in Workers : t[w].step = "savestatus"}

\* "staff apart": while a status is being changed nothing else is under way.
Allowed(t) ==
    \/ regime = "any"
    \/ Cardinality(Busy(t)) <= 1
    \/ regime = "staff apart" /\ Staff(t) = {}

MCInit == Init /\ regime \in Regimes

MCNext == Next /\ Allowed(task') /\ UNCHANGED regime

MCSpec == MCInit /\ [][MCNext]_mcvars

\* Fairness means something where anything may overlap; liveness is claimed
\* there.
MCFairSpec == MCSpec /\ Fairness

-----------------------------------------------------------------------------

\* Until requests overlap the order-paid message is sent once for an order,
\* through restarts, lost answers, webhooks that come again and staff who
\* move the order on (order_service.go, VerifyPPCBankPayment).
AlertedOnceAlone == regime = "alone" => AlertedOnce

\* Unless a status change overlaps its checkout, an order whose customer has
\* the payment URL keeps the reference that verifications need
\* (order_service.go, InitiatePPCBankCheckout and UpdateStatus).
UrlHasReferenceApart == regime # "any" => UrlHasReference

\* What handlers that overlap too much may undo (order_service.go): one alert
\* for an order, and the reference of its payment URL.
OrderAgrees == AlertedOnceAlone /\ UrlHasReferenceApart

\* Until requests overlap no answer of the bank, no failure and no status
\* change takes a recorded payment back (order_service.go, UpdateStatus and
\* VerifyPPCBankPayment, which saves a row that was not paid as well).
PaidIsFinalAlone == regime = "alone" => KeepsPaid

\* Unless a status change overlaps it, recording a payment leaves the status
\* alone (models/order.go: PaymentStatus is separate from Status).
PaymentLeavesStatusApart == regime # "any" => KeepsStatus

\* What a step may never do to a payment or by a payment, as far as handlers
\* do not overlap (order_service.go, each saves the whole row).
PaymentsStand == [][PaidIsFinalAlone /\ PaymentLeavesStatusApart]_mcvars

\* When anything may overlap, a payment is recorded in the end.
PaymentRecordedAnyway == regime = "any" => PaymentRecorded
=============================================================================
