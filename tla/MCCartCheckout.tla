--------------------------- MODULE MCCartCheckout ---------------------------
(***************************************************************************)
(* CartCheckout on small instances. In the regime "apart" a customer waits *)
(* for one request to end before sending the next, while customers overlap *)
(* with each other; in the regime "any" everything overlaps.               *)
(***************************************************************************)
EXTENDS CartCheckout, TLC

\* A process handles finitely many requests.
ASSUME WorkersAssumption == IsFiniteSet(Workers)

VARIABLE regime

mcvars == <<vars, regime>>

Serving(t, c) == {w \in Workers : t[w].customer = c}

OneEach ==
    \A c \in Customers :
        /\ Cardinality(Serving(task', c)) <= 1
        /\ Serving(task, c) # {} => ~\E w \in Workers : Clear(w, c)

RegimeInit == Init /\ regime \in {"any", "apart"}

RegimeNext ==
    /\ Next
    /\ UNCHANGED regime
    /\ regime = "apart" => OneEach

\* The regimes without the bounds of the instances below.
RegimeSpec == RegimeInit /\ [][RegimeNext]_mcvars

Placing == {w \in Workers : At(w, "build") \/ At(w, "create")}

\* Prices and the fee are low, and were when the first order was placed.
Low == /\ fee = Min(Fees) /\ \A p \in Products : price[p] = Min(Prices)
       /\ \A n \in DOMAIN orders :
             /\ orders[n].fee = Min(Fees)
             /\ \A x \in orders[n].items : x.price = Min(Prices)

\* Bounds: "any" has one order and one fee, and second rows there come from
\* additions that overlap and not from failing lookups; in "apart" a second
\* order and a second row follow only where prices are low and stay so.
Small ==
    split # {} \/ Len(orders) + Cardinality(Placing) > 1
        => regime = "apart" /\ Low

Bounds == Small' /\ (regime = "any" => fee' = fee)

MCInit == RegimeInit /\ (regime = "any" => fee = Max(Fees))

MCNext == RegimeNext /\ Bounds

MCSpec == MCInit /\ [][MCNext]_mcvars

Symmetric == Permutations(Workers) \cup Permutations(Customers)

-----------------------------------------------------------------------------

\* While each customer waits for answers, a cart has one row per product
\* (models/cart_item.go), whatever other customers and the admin do, as long
\* as its lookup did not fail.
UniqueLineApart == regime = "apart" => UniqueLine

\* While each customer waits for answers, the cart holds what their requests
\* put there, through restarts and failing requests (cart_service.go).
CartKeptApart == regime = "apart" => CartKept

\* While each customer waits for answers, no row of an order that cleared its
\* cart is ordered again (order_service.go: the cart is cleared once the order
\* succeeds).
OrderedOnceApart == regime = "apart" => OrderedOnce

\* What a customer who waits for answers may rely on (cart_service.go,
\* order_service.go).
CartAsAsked == UniqueLineApart /\ CartKeptApart /\ OrderedOnceApart
=============================================================================
