---------------------------- MODULE CartCheckout ----------------------------
(***************************************************************************)
(* Carts and how they become orders: services/cart_service.go and the part *)
(* of services/order_service.go that reads the cart, prices it, creates    *)
(* the order and clears the cart.                                          *)
(*                                                                         *)
(* A cart is the customer's rows of cart_items. Nothing in the database    *)
(* makes (customer, product) unique, no statement here runs inside a       *)
(* transaction, and requests of one customer overlap (two tabs, a double   *)
(* tap): each statement is an action of a worker. A product here stands    *)
(* for a (product, size, image) combination, which is what a line is for.  *)
(***************************************************************************)
EXTENDS Naturals, Sequences, FiniteSets, FiniteSetsExt, Functions

CONSTANTS
    Customers,
    Products,
    Prices,      \* prices an admin may set
    Fees,        \* shipping fees an admin may set
    Workers,     \* requests being handled at the same time
    Nobody,      \* the customer of a worker that serves none
    MaxLines,    \* bound: cart rows ever inserted
    MaxQty,      \* bound: quantity asked for per product
    MaxOrders    \* bound: orders placed

ASSUME CartAssumption ==
    /\ Customers # {} /\ Nobody \notin Customers
    /\ Products # {} /\ Prices \subseteq Nat /\ Prices # {}
    /\ Fees \subseteq Nat /\ Fees # {}
    /\ MaxLines \in Nat /\ MaxQty \in Nat \ {0} /\ MaxOrders \in Nat

VARIABLES
    lines,     \* the cart_items rows that exist, by id
    lastId,    \* the auto-increment counter of cart_items
    listed,    \* products in the catalogue
    price,     \* price[p]: the price of product p
    fee,       \* Settings.ShippingFee
    orders,    \* the orders created, in order
    task,      \* what each worker is doing
    wanted,    \* history: wanted[c][p], the quantity c should have in the cart
    split      \* history: <<c, p>> whose row a failing lookup did not find

vars == <<lines, lastId, listed, price, fee, orders, task, wanted, split>>
shop == <<listed, price, fee>>

-----------------------------------------------------------------------------

LineIds == 1..MaxLines

Line == [owner: Customers, product: Products, qty: Nat]

\* An order line: the cart row it was made from (its id and owner, which the
\* code does not keep) and the price snapshot.
Item == [line: LineIds, owner: Customers, product: Products, price: Prices, qty: Nat]

\* cleared: the request went through to a cleared cart.
Order == [owner: Customers, items: SUBSET Item, fee: Fees, total: Nat,
          cleared: BOOLEAN]

Idle == [step |-> "idle", customer |-> Nobody, id |-> 0, qty |-> 0]

Init ==
    /\ lines = <<>>
    /\ lastId = 0
    /\ listed = Products
    /\ price \in [Products -> Prices]
    /\ fee \in Fees
    /\ orders = <<>>
    /\ task = [w \in Workers |-> Idle]
    /\ wanted = [c \in Customers |-> [p \in Products |-> 0]]
    /\ split = {}

Goto(w, t) == task' = [task EXCEPT ![w] = t]

Finish(w) == Goto(w, Idle)

At(w, s) == task[w].step = s

\* FindByCustomer and FindLine.
Cart(c) == {i \in DOMAIN lines : lines[i].owner = c}
LinesFor(c, p) == {i \in Cart(c) : lines[i].product = p}

\* GORM's Save: an UPDATE of the whole row, or, when no row has this id any
\* more, an INSERT of the copy under the same id.
SaveLine(i, row) ==
    lines' = [j \in DOMAIN lines \cup {i} |-> IF j = i THEN row ELSE lines[j]]

\* A DELETE of the rows with these ids; those already gone do not matter.
Delete(ids) == lines' = Restrict(lines, DOMAIN lines \ ids)

Want(c, p, n) == wanted' = [wanted EXCEPT ![c][p] = n]

-----------------------------------------------------------------------------
(* AddItem. The controller turns a quantity of zero or less into 1.        *)

AddCheck(w, c, p, q) ==
    /\ At(w, "idle")
    /\ p \in listed                        \* else ErrProductNotFound
    /\ wanted[c][p] + q <= MaxQty
    /\ Goto(w, [step |-> "findline", customer |-> c, product |-> p, qty |-> q])
    /\ UNCHANGED <<lines, lastId, orders, wanted, shop, split>>

\* Mutant of AddFind: every addition becomes a row of its own.
AddFindNone(w) ==
    /\ At(w, "findline")
    /\ Goto(w, [task[w] EXCEPT !.step = "insertline"])
    /\ UNCHANGED <<lines, lastId, orders, wanted, shop, split>>

\* FindLine returns the row with the lowest id. Any error, whether there is
\* no row or the query failed, is taken for "none": a row will be inserted.
AddFind(w) ==
    /\ At(w, "findline")
    /\ LET t == task[w]
           found == LinesFor(t.customer, t.product)
       IN  \/ /\ found # {}
              /\ lines[Min(found)].qty + t.qty <= MaxQty
              /\ Goto(w, [step |-> "addsave", customer |-> t.customer,
                          id |-> Min(found), row |-> lines[Min(found)],
                          qty |-> t.qty])
              /\ UNCHANGED split
           \/ /\ Goto(w, [t EXCEPT !.step = "insertline"])
              /\ split' = IF found = {} THEN split
                          ELSE split \cup {<<t.customer, t.product>>}
    /\ UNCHANGED <<lines, lastId, orders, wanted, shop>>

\* The writes below are in the cart whether or not their answer arrives.

\* Mutant of AddSave: the quantity is replaced, not increased.
AddSaveReplaces(w) ==
    /\ At(w, "addsave")
    /\ LET t == task[w] IN
        /\ SaveLine(t.id, [t.row EXCEPT !.qty = t.qty])
        /\ Want(t.customer, t.row.product,
                wanted[t.customer][t.row.product] + t.qty)
    /\ Finish(w)
    /\ UNCHANGED <<lastId, orders, shop, split>>

AddSave(w) ==
    /\ At(w, "addsave")
    /\ LET t == task[w] IN
        /\ SaveLine(t.id, [t.row EXCEPT !.qty = @ + t.qty])
        /\ Want(t.customer, t.row.product,
                wanted[t.customer][t.row.product] + t.qty)
    /\ Finish(w)
    /\ UNCHANGED <<lastId, orders, shop, split>>

AddInsert(w) ==
    /\ At(w, "insertline")
    /\ lastId < MaxLines
    /\ lastId' = lastId + 1
    /\ LET t == task[w] IN
        /\ SaveLine(lastId + 1, [owner |-> t.customer, product |-> t.product,
                                 qty |-> t.qty])
        /\ Want(t.customer, t.product, wanted[t.customer][t.product] + t.qty)
    /\ Finish(w)
    /\ UNCHANGED <<orders, shop, split>>

-----------------------------------------------------------------------------
(* UpdateQuantity, RemoveItem and Clear.                                   *)

\* Mutant of UpdateRead: the row is looked up by its id alone.
UpdateReadAny(w, c, i, q) ==
    /\ At(w, "idle")
    /\ i \in DOMAIN lines
    /\ Goto(w, [step |-> "qtysave", customer |-> c, id |-> i,
                row |-> lines[i], qty |-> q])
    /\ UNCHANGED <<lines, lastId, orders, wanted, shop, split>>

\* FindByIDForCustomer: the row must exist and be the customer's own. A
\* quantity of zero or less deletes the line, so it is RemoveRead.
UpdateRead(w, c, i, q) ==
    /\ At(w, "idle")
    /\ i \in Cart(c)
    /\ Goto(w, [step |-> "qtysave", customer |-> c, id |-> i,
                row |-> lines[i], qty |-> q])
    /\ UNCHANGED <<lines, lastId, orders, wanted, shop, split>>

RemoveRead(w, c, i) ==
    /\ At(w, "idle")
    /\ i \in Cart(c)
    /\ Goto(w, [step |-> "delete", customer |-> c, id |-> i, row |-> lines[i],
                qty |-> 0])
    /\ UNCHANGED <<lines, lastId, orders, wanted, shop, split>>

QtySave(w) ==
    /\ At(w, "qtysave")
    /\ LET t == task[w] IN
        /\ SaveLine(t.id, [t.row EXCEPT !.qty = t.qty])
        /\ Want(t.customer, t.row.product, t.qty)
    /\ Finish(w)
    /\ UNCHANGED <<lastId, orders, shop, split>>

LineDelete(w) ==
    /\ At(w, "delete")
    /\ Delete({task[w].id})
    /\ Want(task[w].customer, task[w].row.product, 0)
    /\ Finish(w)
    /\ UNCHANGED <<lastId, orders, shop, split>>

\* DeleteAllForCustomer is one statement.
Clear(w, c) ==
    /\ At(w, "idle")
    /\ Cart(c) # {}
    /\ Delete(Cart(c))
    /\ wanted' = [wanted EXCEPT ![c] = [p \in Products |-> 0]]
    /\ split' = {x \in split : x[1] # c}
    /\ UNCHANGED <<lastId, orders, task, shop>>

-----------------------------------------------------------------------------
(* Checkout and InitiatePPCBankCheckout.                                   *)

\* buildOrderItemsFromCart reads the cart; an empty one ends the request.
CheckoutRead(w, c, m) ==
    /\ At(w, "idle")
    /\ Len(orders) + Cardinality({v \in Workers : At(v, "build") \/ At(v, "create")})
          < MaxOrders
    /\ Cart(c) # {}
    /\ Goto(w, [step |-> "build", customer |-> c, method |-> m,
                todo |-> {[id |-> i, row |-> lines[i]] : i \in Cart(c)},
                seen |-> [i \in Cart(c) |-> lines[i]],
                items |-> {}, subtotal |-> 0])
    /\ UNCHANGED <<lines, lastId, orders, wanted, shop, split>>

\* One product is read per line. Its name, price and image are copied. On
\* any error, whether the product is gone or the query failed, the line is
\* skipped.
BuildLine(w) ==
    /\ At(w, "build")
    /\ LET t == task[w]
       IN  /\ t.todo # {}
           /\ LET next == CHOOSE l \in t.todo : \A k \in t.todo : l.id <= k.id
                  rest == [t EXCEPT !.todo = @ \ {next}]
                  p    == next.row.product
              IN  \/ /\ p \in listed
                     /\ Goto(w, [rest EXCEPT
                           !.items = @ \cup {[line |-> next.id,
                                              owner |-> next.row.owner,
                                              product |-> p,
                                              price |-> price[p],
                                              qty |-> next.row.qty]},
                           !.subtotal = @ + price[p] * next.row.qty])
                  \/ Goto(w, rest)
    /\ UNCHANGED <<lines, lastId, orders, wanted, shop, split>>

\* Mutant of BuildDone: the fee is stored but not charged.
BuildDoneFree(w) ==
    /\ At(w, "build")
    /\ task[w].todo = {}
    /\ IF task[w].items = {}
       THEN Finish(w)
       ELSE Goto(w, [step |-> "create", customer |-> task[w].customer,
                     method |-> task[w].method, seen |-> task[w].seen,
                     items |-> task[w].items, fee |-> fee,
                     total |-> task[w].subtotal])
    /\ UNCHANGED <<lines, lastId, orders, wanted, shop, split>>

\* ErrEmptyCart when every line was skipped; otherwise the settings row is
\* read, and its fee goes into the total and into the order's own column.
BuildDone(w) ==
    /\ At(w, "build")
    /\ task[w].todo = {}
    /\ IF task[w].items = {}
       THEN Finish(w)
       ELSE Goto(w, [step |-> "create", customer |-> task[w].customer,
                     method |-> task[w].method, seen |-> task[w].seen,
                     items |-> task[w].items, fee |-> fee,
                     total |-> task[w].subtotal + fee])
    /\ UNCHANGED <<lines, lastId, orders, wanted, shop, split>>

CreateOrder(w) ==
    /\ At(w, "create")
    /\ LET t == task[w] IN
        /\ orders' = Append(orders, [owner |-> t.customer, items |-> t.items,
                                     fee |-> t.fee, total |-> t.total,
                                     cleared |-> FALSE])
        /\ Goto(w, [step |-> IF t.method = "cash" THEN "clear" ELSE "payurl",
                    customer |-> t.customer, seen |-> t.seen,
                    order |-> Len(orders) + 1])
    /\ UNCHANGED <<lines, lastId, wanted, shop, split>>

\* GeneratePPCBankKHQRPayment. When it fails the order stays and the cart is
\* left for another try.
PaymentUrl(w) ==
    /\ At(w, "payurl")
    /\ \/ Goto(w, [task[w] EXCEPT !.step = "clear"])
       \/ Finish(w)
    /\ UNCHANGED <<lines, lastId, orders, wanted, shop, split>>

\* How many of product p the checkout of task t took from the cart.
Taken(t, p) ==
    MapThenSumSet(LAMBDA i : t.seen[i].qty,
                  {i \in DOMAIN t.seen : t.seen[i].product = p})

Less(m, n) == IF m > n THEN m - n ELSE 0

\* Mutant of ClearAfter: the cart is left as it is.
ClearAfterKeeps(w) ==
    /\ At(w, "clear")
    /\ orders' = [orders EXCEPT ![task[w].order].cleared = TRUE]
    /\ Finish(w)
    /\ UNCHANGED <<lines, lastId, wanted, shop, split>>

\* DeleteAllForCustomer, best effort: an error is ignored.
ClearAfter(w) ==
    /\ At(w, "clear")
    /\ LET t == task[w]
           c == t.customer
       IN  \/ /\ Delete(Cart(c))
              /\ orders' = [orders EXCEPT ![t.order].cleared = TRUE]
              /\ wanted' = [wanted EXCEPT ![c] =
                              [p \in Products |-> Less(@[p], Taken(t, p))]]
           \/ UNCHANGED <<lines, orders, wanted>>
    /\ Finish(w)
    /\ UNCHANGED <<lastId, shop, split>>

-----------------------------------------------------------------------------
(* A request that fails, the admin's catalogue and settings, and a restart *)
(* of the process.                                                         *)

\* A statement fails, or the answer of the one before is lost: the handler
\* returns the error and does nothing more.
RequestFails(w) ==
    /\ ~At(w, "idle")
    /\ Finish(w)
    /\ UNCHANGED <<lines, lastId, orders, wanted, shop, split>>

SetPrice(p, x) ==
    /\ p \in listed
    /\ price' = [price EXCEPT ![p] = x]
    /\ UNCHANGED <<lines, lastId, listed, fee, orders, task, wanted, split>>

DeleteProduct(p) ==
    /\ p \in listed
    /\ listed' = listed \ {p}
    /\ UNCHANGED <<lines, lastId, price, fee, orders, task, wanted, split>>

SetFee(f) ==
    /\ fee' = f
    /\ UNCHANGED <<lines, lastId, listed, price, orders, task, wanted, split>>

Crash ==
    /\ task' = [w \in Workers |-> Idle]
    /\ UNCHANGED <<lines, lastId, orders, wanted, shop, split>>

EditCart(w) ==
    \/ \E c \in Customers :
          \/ \E p \in Products, q \in 1..MaxQty : AddCheck(w, c, p, q)
          \/ \E i \in LineIds, q \in 1..MaxQty : UpdateRead(w, c, i, q)
          \/ \E i \in LineIds : RemoveRead(w, c, i)
          \/ Clear(w, c)
    \/ AddFind(w) \/ AddSave(w) \/ AddInsert(w)
    \/ QtySave(w) \/ LineDelete(w)

PlaceOrder(w) ==
    \/ \E c \in Customers, m \in {"cash", "ppcbank"} : CheckoutRead(w, c, m)
    \/ BuildLine(w) \/ BuildDone(w) \/ CreateOrder(w)
    \/ PaymentUrl(w) \/ ClearAfter(w)

Admin ==
    \/ \E p \in Products, x \in Prices : SetPrice(p, x)
    \/ \E p \in Products : DeleteProduct(p)
    \/ \E f \in Fees : SetFee(f)

Next ==
    \/ \E w \in Workers : EditCart(w) \/ PlaceOrder(w) \/ RequestFails(w)
    \/ Admin
    \/ Crash

Spec == Init /\ [][Next]_vars

-----------------------------------------------------------------------------

\* Lines keep unique increasing ids, and lines, orders and prices are well formed.
TypeOK ==
    /\ lastId \in 0..MaxLines
    /\ DOMAIN lines \subseteq 1..lastId
    /\ \A i \in DOMAIN lines : lines[i] \in Line
    /\ listed \subseteq Products
    /\ price \in [Products -> Prices] /\ fee \in Fees
    /\ orders \in Seq(Order)
    /\ wanted \in [Customers -> [Products -> Nat]]
    /\ split \subseteq Customers \X Products

ItemsTotal(items) == MapThenSumSet(LAMBDA x : x.price * x.qty, items)

\* What an order charges is what its lines and its fee add up to, whatever
\* prices and fees are set while the order is being put together
\* (order_service.go: name, price and fee are snapshots of one moment).
TotalMatchesItems ==
    \A n \in DOMAIN orders :
        orders[n].total = ItemsTotal(orders[n].items) + orders[n].fee

\* A row of the cart changes hands or disappears only in a request of its
\* owner (cart_repository.go: FindByIDForCustomer is "the check that stops
\* customer A from updating/deleting customer B's cart line").
OnlyOwnerEdits ==
    [][\A i \in DOMAIN lines :
          (i \in DOMAIN lines' => lines'[i] # lines[i]) =>
             \/ \E w \in Workers : task[w].customer = lines[i].owner
             \/ \E w \in Workers : Clear(w, lines[i].owner)]_lines

\* A customer orders from their own cart: the lines of an order came from
\* rows of its owner and no row is counted twice in it.
OrderedFromOwnCart ==
    \A n \in DOMAIN orders : \A x, y \in orders[n].items :
        /\ x.owner = orders[n].owner
        /\ x.line = y.line => x = y

\* Orders hold what was in their customer's cart at the prices they charge,
\* in rows that are well formed, whichever requests overlap.
CartInv == TypeOK /\ TotalMatchesItems /\ OrderedFromOwnCart

-----------------------------------------------------------------------------
(* These hold while a customer's requests do not overlap.                  *)

\* A customer has one row per product (models/cart_item.go: "is what
\* identifies a unique line"), unless a lookup of that row failed and a
\* second one was inserted (cart_service.go, AddItem).
UniqueLine ==
    \A c \in Customers, p \in Products :
        <<c, p>> \in split \/ Cardinality(LinesFor(c, p)) <= 1

InCart(c, p) == MapThenSumSet(LAMBDA i : lines[i].qty, LinesFor(c, p))

\* What a customer's requests put into the cart is in the cart, once nothing
\* is under way: additions add up and stay until they are removed or ordered
\* (models/cart_item.go: backend-persisted, so it survives across devices),
\* for every line that is still one row.
CartKept ==
    (\A w \in Workers : At(w, "idle")) =>
        \A c \in Customers, p \in Products :
            <<c, p>> \in split \/ InCart(c, p) = wanted[c][p]

\* An order that cleared its cart shares no row with a later one. So a row is
\* in two orders only where the earlier order's cart was left standing: its
\* clear failed, which is ignored (order_service.go, Checkout: "it would just
\* leave stale items behind"), its payment page failed, or its request was
\* cut off.
OrderedOnce ==
    \A m, n \in DOMAIN orders :
        m < n /\ orders[m].cleared =>
            {x.line : x \in orders[m].items} \cap
            {x.line : x \in orders[n].items} = {}

=============================================================================
