------------------------ MODULE CartCheckoutProofs -------------------------
(***************************************************************************)
(* Proofs about CartCheckout, for any number of customers, products, rows, *)
(* orders and overlapping requests: an order charges what its lines and    *)
(* its fee add up to, its lines come from rows of its owner's cart, and a  *)
(* row of a cart changes in a request of its owner only.                   *)
(* Where a customer waits for one answer before the next request, the cart *)
(* holds what they were told, and no row is ordered twice.                 *)
(*                                                                         *)
(* A sum over a finite set is the value of the recursion that              *)
(* MapThenSumSet defines. It is pinned down without induction: a least set *)
(* that has no sum, or on which two solutions differ, is taken apart.      *)
(***************************************************************************)
EXTENDS MCCartCheckout, FiniteSetTheorems, SequenceTheorems, WellFoundedInduction,
        TLAPS

Snapshot == UNION {[I -> Line] : I \in SUBSET LineIds}

Methods == {"cash", "ppcbank"}

AddTask == [step: {"findline", "insertline"}, customer: Customers,
            product: Products, qty: Nat]

EditSteps == {"addsave", "qtysave", "delete"}
EditTask == [step: EditSteps, customer: Customers, id: LineIds, row: Line, qty: Nat]

BuildTask == [step: {"build"}, customer: Customers, method: Methods,
              todo: SUBSET [id: LineIds, row: Line], seen: Snapshot,
              items: SUBSET Item, subtotal: Nat]

CreateTask == [step: {"create"}, customer: Customers, method: Methods,
               seen: Snapshot, items: SUBSET Item, fee: Fees, total: Nat]

PaySteps == {"payurl", "clear"}
PayTask == [step: PaySteps, customer: Customers, seen: Snapshot, order: Nat]

Task == {Idle} \cup AddTask \cup EditTask \cup BuildTask \cup CreateTask \cup PayTask

Types == TypeOK /\ task \in [Workers -> Task]

\* Whoever holds a copy of a row is serving the owner of that row, of what is
\* stored under its id now, and of every other copy of it: ids are not reused.
EditInv ==
    \A w \in Workers : task[w].step \in EditSteps =>
        /\ task[w].row.owner = task[w].customer
        /\ task[w].id <= lastId
        /\ task[w].id \in DOMAIN lines => lines[task[w].id].owner = task[w].customer
        /\ \A v \in Workers :
              task[v].step \in EditSteps /\ task[v].id = task[w].id =>
                  task[v].customer = task[w].customer

\* Items of one customer, each from a row of its own.
ItemsOf(items, c) ==
    /\ IsFiniteSet(items)
    /\ \A x, y \in items : x.owner = c /\ (x.line = y.line => x = y)

\* An order that is put together has added up what it has, and what is left
\* to do are other rows of the same customer.
BuildOK(t) ==
    /\ ItemsOf(t.items, t.customer)
    /\ t.subtotal = ItemsTotal(t.items)
    /\ \A k, l \in t.todo : l.row.owner = t.customer /\ (k.id = l.id => k = l)
    /\ \A l \in t.todo : \A x \in t.items : x.line # l.id

CreateOK(t) ==
    /\ ItemsOf(t.items, t.customer)
    /\ t.total = ItemsTotal(t.items) + t.fee

OrderingOK(t) ==
    /\ t.step = "build" => BuildOK(t)
    /\ t.step = "create" => CreateOK(t)

OrderingInv == \A w \in Workers : OrderingOK(task[w])

PayInv == \A w \in Workers : task[w].step \in PaySteps => task[w].order \in DOMAIN orders

IInv ==
    /\ Types /\ EditInv /\ OrderingInv /\ PayInv
    /\ TotalMatchesItems /\ OrderedFromOwnCart

-----------------------------------------------------------------------------
(* Least numbers and sums over finite sets.                                *)

LessThan == {p \in Nat \X Nat : p[1] < p[2]}

\* A nonempty set of naturals has a least element.
LEMMA LeastNat ==
    ASSUME NEW T \in SUBSET Nat, T # {}
    PROVE  \E m \in T : \A n \in T : m <= n
<1>1. IsWellFoundedOn(LessThan, Nat)
    <2>1. LessThan = OpToRel(<, Nat)
        BY DEF OpToRel, LessThan
    <2> QED BY <2>1, NatLessThanWellFounded, Zenon
<1>2. PICK m \in T : \A n \in T : ~(<<n, m>> \in LessThan)
    BY <1>1, WFMin, Zenon
<1>3. ASSUME NEW n \in T PROVE m <= n
    <2>1. n < m => <<n, m>> \in LessThan
        BY DEF LessThan
    <2> QED BY <1>2, <2>1
<1> QED BY <1>3

\* Of a nonempty collection of finite sets one has no proper subset in it.
LEMMA LeastSet ==
    ASSUME NEW T, IsFiniteSet(T), NEW C \in SUBSET SUBSET T, C # {}
    PROVE  \E s \in C : \A x \in s : s \ {x} \notin C
<1> DEFINE Sizes == {Cardinality(s) : s \in C}
<1>1. ASSUME NEW s \in C
      PROVE  /\ IsFiniteSet(s) /\ Cardinality(s) \in Nat
             /\ \A x \in s : Cardinality(s \ {x}) = Cardinality(s) - 1
    <2>1. IsFiniteSet(s)
        BY FS_Subset
    <2> QED BY <2>1, FS_CardinalityType, FS_RemoveElement
<1>2. Sizes \in SUBSET Nat /\ Sizes # {}
    BY <1>1
<1>3. PICK m \in Sizes : \A n \in Sizes : m <= n
    BY <1>2, LeastNat
<1>4. PICK s \in C : m = Cardinality(s)
    BY <1>3
<1>5. ASSUME NEW x \in s, s \ {x} \in C PROVE FALSE
    BY <1>1, <1>3, <1>4, <1>5
<1> QED BY <1>5

\* g[s] adds v up over s.
Adds(g, v, T) ==
    /\ g \in [SUBSET T -> Nat]
    /\ g[{}] = 0
    /\ \A s \in SUBSET T : \A x \in T \ s : g[s \cup {x}] = g[s] + v[x]

\* The recursion of MapThenSumSet.
Folds(g, v, T) ==
    g = [s \in SUBSET T |->
            IF s = {} THEN 0
            ELSE v[CHOOSE x \in s : TRUE] + g[s \ {CHOOSE x \in s : TRUE}]]

\* There is a sum over every finite set.
LEMMA SumExists ==
    ASSUME NEW T, IsFiniteSet(T), NEW v, \A x \in T : v[x] \in Nat
    PROVE  \E g : Adds(g, v, T)
<1> DEFINE Bad == {s \in SUBSET T : ~\E g : Adds(g, v, s)}
<1> SUFFICES ASSUME Bad # {} PROVE FALSE
    BY Zenon
<1>1. PICK s \in Bad : \A x \in s : s \ {x} \notin Bad
    BY LeastSet
<1>2. s # {}
    <2> DEFINE g == [u \in SUBSET {} |-> 0]
    <2>1. Adds(g, v, {})
        BY DEF Adds
    <2> QED BY <1>1, <2>1
<1>3. PICK a \in s : TRUE
    BY <1>2
<1>4. PICK g : Adds(g, v, s \ {a})
    BY <1>1, <1>3
<1> DEFINE h == [u \in SUBSET s |-> IF a \in u THEN g[u \ {a}] + v[a] ELSE g[u]]
<1>5. h \in [SUBSET s -> Nat] /\ h[{}] = 0
    BY <1>4, <1>1, <1>3 DEF Adds
<1>6. ASSUME NEW u \in SUBSET s, NEW x \in s \ u
      PROVE  h[u \cup {x}] = h[u] + v[x]
    <2>1. CASE x = a
        <3>1. (u \cup {x}) \ {a} = u
            BY <2>1, <1>6
        <3> QED BY <2>1, <3>1, <1>6
    <2>2. CASE x # a /\ a \in u
        <3>1. (u \cup {x}) \ {a} = (u \ {a}) \cup {x}
            BY <2>2
        <3>2. g[(u \ {a}) \cup {x}] = g[u \ {a}] + v[x]
            BY <1>4, <2>2 DEF Adds
        <3>3. g[u \ {a}] \in Nat /\ v[x] \in Nat /\ v[a] \in Nat
            BY <1>4, <1>1, <1>3 DEF Adds
        <3>4. h[u \cup {x}] = g[(u \cup {x}) \ {a}] + v[a] /\ h[u] = g[u \ {a}] + v[a]
            BY <2>2, u \cup {x} \in SUBSET s
        <3>5. g[(u \cup {x}) \ {a}] = g[u \ {a}] + v[x]
            BY <3>1, <3>2
        <3> HIDE DEF h
        <3> QED BY <3>3, <3>4, <3>5
    <2>3. CASE x # a /\ a \notin u
        <3>1. g[u \cup {x}] = g[u] + v[x]
            BY <1>4, <2>3 DEF Adds
        <3> QED BY <2>3, <3>1
    <2> QED BY <2>1, <2>2, <2>3
<1>7. Adds(h, v, s)
    BY <1>5, <1>6 DEF Adds
<1> QED BY <1>1, <1>7

\* A sum solves the recursion.
LEMMA SumFolds ==
    ASSUME NEW T, NEW v, NEW g, Adds(g, v, T), \A x \in T : v[x] \in Nat
    PROVE  Folds(g, v, T)
<1>1. ASSUME NEW s \in SUBSET T, s # {}
      PROVE  g[s] = v[CHOOSE x \in s : TRUE] + g[s \ {CHOOSE x \in s : TRUE}]
    <2> DEFINE x == CHOOSE x \in s : TRUE
    <2>1. x \in s
        BY <1>1
    <2> HIDE DEF x
    <2>2. (s \ {x}) \cup {x} = s /\ s \ {x} \in SUBSET T /\ x \in T \ (s \ {x})
        BY <2>1
    <2>3. g[s] = g[s \ {x}] + v[x]
        BY <2>2 DEF Adds
    <2>4. g[s \ {x}] \in Nat /\ v[x] \in Nat
        BY <2>2 DEF Adds
    <2>5. g[s] = v[x] + g[s \ {x}]
        BY <2>3, <2>4
    <2> QED BY <2>5 DEF x
<1>2. g = [s \in SUBSET T |-> g[s]] /\ g[{}] = 0
    BY DEF Adds
<1> QED BY <1>1, <1>2 DEF Folds

\* It is the only solution.
LEMMA FoldsAreOne ==
    ASSUME NEW T, IsFiniteSet(T), NEW v, NEW g, NEW h, Folds(g, v, T), Folds(h, v, T)
    PROVE  g = h
<1> DEFINE Bad == {s \in SUBSET T : g[s] # h[s]}
<1>1. ASSUME Bad # {} PROVE FALSE
    <2>1. PICK s \in Bad : \A x \in s : s \ {x} \notin Bad
        BY <1>1, LeastSet
    <2> DEFINE x == CHOOSE x \in s : TRUE
    <2>2. s # {}
        BY <2>1 DEF Folds
    <2>3. x \in s
        BY <2>2
    <2>4. g[s \ {x}] = h[s \ {x}]
        BY <2>1, <2>3
    <2>5. g[s] = v[x] + g[s \ {x}] /\ h[s] = v[x] + h[s \ {x}]
        BY <2>1, <2>2 DEF Folds
    <2> QED BY <2>1, <2>4, <2>5
<1>2. \A s \in SUBSET T : g[s] = h[s]
    BY <1>1
<1>3. g = [s \in SUBSET T |-> g[s]] /\ h = [s \in SUBSET T |-> h[s]]
    BY DEF Folds
<1> QED BY <1>2, <1>3

Value(x) == x.price * x.qty

LEMMA ValueNat ==
    ASSUME NEW x \in Item
    PROVE  Value(x) \in Nat
<1>1. x.price \in Nat /\ x.qty \in Nat
    BY CartAssumption DEF Item
<1>2. \A m, n \in Nat : m * n \in Nat
    OBVIOUS
<1> QED BY <1>1, <1>2 DEF Value

\* ItemsTotal is the sum of the values of the items.
LEMMA ItemsTotalIs ==
    ASSUME NEW T, IsFiniteSet(T), NEW v, NEW g, Adds(g, v, T),
           \A x \in T : v[x] = Value(x) /\ v[x] \in Nat
    PROVE  ItemsTotal(T) = g[T]
<1> DEFINE Is(it) == it = [s \in SUBSET T |-> IF s = {} THEN 0
                               ELSE LET x == CHOOSE x \in s : TRUE
                                    IN x.price * x.qty + it[s \ {x}]]
<1>1. ItemsTotal(T) = (CHOOSE it : Is(it))[T]
    BY DEF ItemsTotal, MapThenSumSet, MapThenFoldSet
<1>2. ASSUME NEW it PROVE Is(it) <=> Folds(it, v, T)
    <2>1. ASSUME NEW s \in SUBSET T
          PROVE  (IF s = {} THEN 0
                  ELSE LET x == CHOOSE x \in s : TRUE
                       IN x.price * x.qty + it[s \ {x}])
                 = IF s = {} THEN 0
                   ELSE v[CHOOSE x \in s : TRUE] + it[s \ {CHOOSE x \in s : TRUE}]
        BY DEF Value
    <2> QED BY <2>1 DEF Folds
<1> HIDE DEF Is
<1>3. Folds(g, v, T)
    BY SumFolds
<1>4. Is(CHOOSE it : Is(it))
    BY <1>2, <1>3
<1> QED BY <1>1, <1>2, <1>3, <1>4, FoldsAreOne

\* What ItemsTotal gives, one item at a time.
LEMMA ItemsTotalAdds ==
    /\ ItemsTotal({}) = 0
    /\ \A T : IsFiniteSet(T) /\ (\A x \in T : Value(x) \in Nat) => ItemsTotal(T) \in Nat
    /\ \A T, a : /\ IsFiniteSet(T) /\ a \notin T
                 /\ \A x \in T \cup {a} : Value(x) \in Nat
                 => ItemsTotal(T \cup {a}) = ItemsTotal(T) + Value(a)
<1>1. ASSUME NEW T, IsFiniteSet(T), \A x \in T : Value(x) \in Nat
      PROVE  ItemsTotal(T) \in Nat
    <2> DEFINE v == [x \in T |-> Value(x)]
    <2>1. \A x \in T : v[x] = Value(x) /\ v[x] \in Nat
        BY <1>1
    <2> HIDE DEF v
    <2>2. PICK g : Adds(g, v, T)
        BY <1>1, <2>1, SumExists
    <2>3. ItemsTotal(T) = g[T]
        BY <1>1, <2>1, <2>2, ItemsTotalIs
    <2> QED BY <2>2, <2>3 DEF Adds
<1>2. ASSUME NEW T, NEW a, IsFiniteSet(T), a \notin T,
             \A x \in T \cup {a} : Value(x) \in Nat
      PROVE  ItemsTotal(T \cup {a}) = ItemsTotal(T) + Value(a)
    <2> DEFINE U == T \cup {a}
               v == [x \in U |-> Value(x)]
    <2>1. \A x \in U : v[x] = Value(x) /\ v[x] \in Nat
        BY <1>2
    <2>2. IsFiniteSet(U)
        BY <1>2, FS_AddElement
    <2> HIDE DEF v, U
    <2>3. PICK g : Adds(g, v, U)
        BY <2>1, <2>2, SumExists
    <2> DEFINE h == [s \in SUBSET T |-> g[s]]
    <2>4. Adds(h, v, T) /\ h[T] = g[T]
        BY <2>3 DEF Adds, U
    <2>5. g[U] = g[T] + v[a]
        BY <1>2, <2>3 DEF Adds, U
    <2>6. ItemsTotal(U) = g[U]
        BY <2>1, <2>2, <2>3, ItemsTotalIs
    <2> HIDE DEF h
    <2>7. ItemsTotal(T) = h[T]
        BY <1>2, <2>1, <2>4, ItemsTotalIs DEF U
    <2> QED BY <2>1, <2>4, <2>5, <2>6, <2>7 DEF U
<1>3. ItemsTotal({}) = 0
    <2>1. PICK g : Adds(g, <<>>, {})
        BY SumExists, FS_EmptySet
    <2> QED BY <2>1, ItemsTotalIs, FS_EmptySet DEF Adds
<1> QED BY <1>1, <1>2, <1>3

\* The rows a checkout takes add up to a natural number.
LEMMA TakenNat ==
    ASSUME NEW t, NEW p, IsFiniteSet(DOMAIN t.seen), \A i \in DOMAIN t.seen : t.seen[i].qty \in Nat
    PROVE  Taken(t, p) \in Nat
<1> DEFINE T == {i \in DOMAIN t.seen : t.seen[i].product = p}
           v == [i \in T |-> t.seen[i].qty]
           Is(it) == it = [s \in SUBSET T |-> IF s = {} THEN 0
                               ELSE LET x == CHOOSE x \in s : TRUE
                                    IN t.seen[x].qty + it[s \ {x}]]
<1>1. Taken(t, p) = (CHOOSE it : Is(it))[T]
    BY DEF Taken, MapThenSumSet, MapThenFoldSet
<1>2. IsFiniteSet(T) /\ \A x \in T : v[x] = t.seen[x].qty /\ v[x] \in Nat
    BY FS_Subset
<1> HIDE DEF v, T
<1>3. ASSUME NEW it PROVE Is(it) <=> Folds(it, v, T)
    <2>1. ASSUME NEW s \in SUBSET T
          PROVE  (IF s = {} THEN 0
                  ELSE LET x == CHOOSE x \in s : TRUE
                       IN t.seen[x].qty + it[s \ {x}])
                 = IF s = {} THEN 0
                   ELSE v[CHOOSE x \in s : TRUE] + it[s \ {CHOOSE x \in s : TRUE}]
        BY <1>2
    <2> QED BY <2>1 DEF Folds
<1> HIDE DEF Is
<1>4. PICK g : Adds(g, v, T)
    BY <1>2, SumExists
<1>5. Folds(g, v, T)
    BY <1>2, <1>4, SumFolds
<1>6. Is(CHOOSE it : Is(it))
    BY <1>3, <1>5
<1>7. (CHOOSE it : Is(it)) = g
    BY <1>2, <1>3, <1>5, <1>6, FoldsAreOne
<1> QED BY <1>1, <1>4, <1>7 DEF Adds

-----------------------------------------------------------------------------
(* The steps of the requests.                                              *)

\* The step says which fields a task has.
LEMMA TaskOfStep ==
    ASSUME NEW t \in Task
    PROVE  /\ t.step \in {"findline", "insertline"} => t \in AddTask
           /\ t.step \in EditSteps => t \in EditTask
           /\ t.step = "build" => t \in BuildTask
           /\ t.step = "create" => t \in CreateTask
           /\ t.step \in PaySteps => t \in PayTask
<1>1. t \in AddTask => t.step \in {"findline", "insertline"}
    BY DEF AddTask
<1>2. t \in EditTask => t.step \in EditSteps
    BY DEF EditTask
<1>3. t \in BuildTask => t.step = "build"
    BY DEF BuildTask
<1>4. t \in CreateTask => t.step = "create"
    BY DEF CreateTask
<1>5. t \in PayTask => t.step \in PaySteps
    BY DEF PayTask
<1>6. t = Idle => t.step = "idle"
    BY DEF Idle
<1> QED BY <1>1, <1>2, <1>3, <1>4, <1>5, <1>6 DEF Task, EditSteps, PaySteps

LEMMA CartInit == Init => IInv
<1> SUFFICES ASSUME Init PROVE IInv
    OBVIOUS
<1> USE CartAssumption
<1>1. TypeOK
    BY EmptySeq DEF Init, TypeOK, Line
<1>2. Types
    BY <1>1 DEF Init, Types, Task
<1>3. EditInv /\ OrderingInv /\ PayInv
    BY DEF Init, EditInv, OrderingInv, PayInv, Idle, EditSteps, PaySteps, OrderingOK
<1>4. TotalMatchesItems /\ OrderedFromOwnCart
    BY DEF Init, TotalMatchesItems, OrderedFromOwnCart
<1> QED BY <1>2, <1>3, <1>4 DEF IInv

\* A request goes on to t while tables rest; a row it has read is its
\* customer's.
LEMMA MoveStep ==
    ASSUME IInv, NEW w \in Workers, NEW t \in Task,
           Goto(w, t), UNCHANGED <<lines, lastId, orders, wanted, shop>>,
           split' = split \/ split' \subseteq Customers \X Products,
           OrderingOK(t),
           t.step \in EditSteps => /\ t.row.owner = t.customer
                                   /\ t.id \in Cart(t.customer),
           t.step \in PaySteps => t.order \in DOMAIN orders
    PROVE  IInv'
<1>1. /\ task \in [Workers -> Task] /\ task' \in [Workers -> Task] /\ task'[w] = t
      /\ \A v \in Workers \ {w} : task'[v] = task[v]
    BY DEF Goto, IInv, Types
<1>2. Types'
    BY <1>1 DEF IInv, Types, TypeOK, shop
<1>3. EditInv'
    <2>1. t.step \in EditSteps => /\ t.id \in DOMAIN lines /\ t.id <= lastId
                                  /\ lines[t.id].owner = t.customer
        BY DEF Cart, IInv, Types, TypeOK
    <2> QED BY <1>1, <2>1 DEF IInv, EditInv
<1>4. OrderingInv' /\ PayInv'
    BY <1>1 DEF IInv, OrderingInv, PayInv
<1>5. TotalMatchesItems' /\ OrderedFromOwnCart'
    BY DEF IInv, TotalMatchesItems, OrderedFromOwnCart
<1> QED BY <1>2, <1>3, <1>4, <1>5 DEF IInv

\* A request that ends with its row saved, as it was or with another quantity.
LEMMA SaveStep ==
    ASSUME IInv, NEW w \in Workers, task[w].step \in EditSteps,
           NEW row \in Line, row.owner = task[w].customer,
           SaveLine(task[w].id, row), Finish(w),
           wanted' \in [Customers -> [Products -> Nat]],
           UNCHANGED <<lastId, orders, shop, split>>
    PROVE  IInv'
<1> DEFINE i == task[w].id
<1>1. /\ task \in [Workers -> Task] /\ task' \in [Workers -> Task] /\ task'[w] = Idle
      /\ \A v \in Workers \ {w} : task'[v] = task[v]
    BY DEF Finish, Goto, IInv, Types, Task
<1>2. i \in LineIds /\ i <= lastId /\ lastId \in Nat
    <2>1. task[w] \in EditTask
        BY <1>1, TaskOfStep
    <2>2. i \in LineIds
        BY <2>1 DEF EditTask
    <2>3. lastId \in Nat
        BY DEF IInv, Types, TypeOK
    <2> QED BY <2>2, <2>3 DEF IInv, EditInv
<1>3. i \in 1..lastId
    BY <1>2 DEF LineIds
<1> HIDE DEF i
<1>4. /\ DOMAIN lines' = DOMAIN lines \cup {i} /\ lines'[i] = row
      /\ \A j \in DOMAIN lines : j # i => lines'[j] = lines[j]
    BY DEF SaveLine, i
<1>5. Types'
    BY <1>1, <1>3, <1>4 DEF IInv, Types, TypeOK, shop
<1>6. EditInv'
    BY <1>1, <1>4 DEF IInv, EditInv, EditSteps, Idle, i
<1>7. OrderingInv' /\ PayInv'
    BY <1>1 DEF IInv, OrderingInv, PayInv, OrderingOK, Idle, PaySteps
<1>8. TotalMatchesItems' /\ OrderedFromOwnCart'
    BY DEF IInv, TotalMatchesItems, OrderedFromOwnCart
<1> QED BY <1>5, <1>6, <1>7, <1>8 DEF IInv

\* Rows are deleted; an order may become cleared.
LEMMA DeleteStep ==
    ASSUME IInv, NEW ids, Delete(ids),
           task' \in [Workers -> Task],
           \A w \in Workers : task'[w] = task[w] \/ task'[w] = Idle,
           wanted' \in [Customers -> [Products -> Nat]],
           orders' \in Seq(Order), DOMAIN orders' = DOMAIN orders,
           \A n \in DOMAIN orders : /\ orders'[n].owner = orders[n].owner
                                    /\ orders'[n].items = orders[n].items
                                    /\ orders'[n].fee = orders[n].fee
                                    /\ orders'[n].total = orders[n].total,
           split' \subseteq split, UNCHANGED <<lastId, shop>>
    PROVE  IInv'
<1>1. /\ DOMAIN lines' = DOMAIN lines \ ids
      /\ \A j \in DOMAIN lines' : lines'[j] = lines[j]
    BY DEF Delete, Restrict
<1>2. Types'
    BY <1>1 DEF IInv, Types, TypeOK, shop
<1>6. \A w \in Workers : task'[w].step # "idle" => task'[w] = task[w]
    BY DEF Idle
<1>3. EditInv'
    <2>1. \A w \in Workers : task'[w].step \in EditSteps => task'[w] = task[w]
        BY <1>6 DEF EditSteps
    <2>2. lastId' = lastId
        OBVIOUS
    <2>3. SUFFICES ASSUME NEW w \in Workers, task'[w].step \in EditSteps
                   PROVE  /\ task'[w].row.owner = task'[w].customer
                          /\ task'[w].id <= lastId
                          /\ task'[w].id \in DOMAIN lines' =>
                                lines'[task'[w].id].owner = task'[w].customer
                          /\ \A v \in Workers :
                                task'[v].step \in EditSteps /\ task'[v].id = task'[w].id =>
                                    task'[v].customer = task'[w].customer
        BY <2>2 DEF EditInv
    <2>4. task'[w] = task[w] /\ task[w].step \in EditSteps
        BY <2>1, <2>3
    <2>5. /\ task[w].row.owner = task[w].customer
          /\ task[w].id <= lastId
          /\ task[w].id \in DOMAIN lines => lines[task[w].id].owner = task[w].customer
        BY <2>4 DEF IInv, EditInv
    <2>6. task[w].id \in DOMAIN lines' => lines'[task[w].id].owner = task[w].customer
        BY <1>1, <2>5
    <2>7. ASSUME NEW v \in Workers, task'[v].step \in EditSteps, task'[v].id = task[w].id
          PROVE  task'[v].customer = task[w].customer
        <3>1. task'[v] = task[v]
            BY <2>1, <2>7
        <3> QED BY <2>4, <2>7, <3>1 DEF IInv, EditInv
    <2> QED BY <2>4, <2>5, <2>6, <2>7
<1>4. OrderingInv' /\ PayInv'
    <2>1. \A w \in Workers : task'[w].step \in PaySteps => task'[w] = task[w]
        BY <1>6 DEF PaySteps
    <2>2. \A w \in Workers : OrderingOK(task'[w])
        BY <1>6 DEF IInv, OrderingInv, OrderingOK
    <2> QED BY <2>1, <2>2 DEF IInv, OrderingInv, PayInv
<1>5. TotalMatchesItems' /\ OrderedFromOwnCart'
    BY DEF IInv, TotalMatchesItems, OrderedFromOwnCart
<1> QED BY <1>2, <1>3, <1>4, <1>5 DEF IInv

\* AddInsert: the new row has an id that nobody holds.
LEMMA InsertStep ==
    ASSUME IInv, NEW w \in Workers, AddInsert(w)
    PROVE  IInv'
<1> USE CartAssumption
<1> DEFINE t == task[w]
           row == [owner |-> t.customer, product |-> t.product, qty |-> t.qty]
<1>1. /\ task \in [Workers -> Task] /\ task' \in [Workers -> Task] /\ task'[w] = Idle
      /\ \A v \in Workers \ {w} : task'[v] = task[v]
    BY DEF AddInsert, Finish, Goto, IInv, Types, Task
<1>2. t \in AddTask /\ t.customer \in Customers /\ t.product \in Products /\ t.qty \in Nat
    <2>1. t \in AddTask
        BY <1>1, TaskOfStep DEF AddInsert, At
    <2> QED BY <2>1 DEF AddTask
<1>3. row \in Line
    BY <1>2 DEF Line
<1>4. /\ DOMAIN lines' = DOMAIN lines \cup {lastId + 1} /\ lines'[lastId + 1] = row
      /\ \A j \in DOMAIN lines : j # lastId + 1 => lines'[j] = lines[j]
    BY DEF AddInsert, SaveLine
<1>5. /\ lastId' = lastId + 1 /\ lastId \in 0..MaxLines /\ lastId < MaxLines
      /\ lastId + 1 \notin DOMAIN lines /\ DOMAIN lines \subseteq 1..lastId
      /\ UNCHANGED <<orders, shop, split>>
    BY DEF AddInsert, IInv, Types, TypeOK
<1>6. wanted' \in [Customers -> [Products -> Nat]]
    <2>1. wanted[t.customer][t.product] + t.qty \in Nat
        BY <1>2 DEF IInv, Types, TypeOK
    <2> QED BY <2>1 DEF AddInsert, Want, IInv, Types, TypeOK
<1> HIDE DEF t, row
<1>7. Types'
    <2>1. \A j \in DOMAIN lines' : lines'[j] \in Line
        BY <1>3, <1>4 DEF IInv, Types, TypeOK
    <2>2. DOMAIN lines' \subseteq 1..lastId' /\ lastId' \in 0..MaxLines
        BY <1>4, <1>5
    <2> QED BY <1>1, <1>5, <1>6, <2>1, <2>2 DEF IInv, Types, TypeOK, shop
<1>8. \A v \in Workers : task'[v].step # "idle" => task'[v] = task[v] /\ v # w
    BY <1>1 DEF Idle
<1>9. EditInv'
    <2>1. ASSUME NEW v \in Workers, task'[v].step \in EditSteps
          PROVE  /\ task'[v] = task[v] /\ task[v].step \in EditSteps
                 /\ task[v].row.owner = task[v].customer
                 /\ task[v].id <= lastId
                 /\ task[v].id \in DOMAIN lines => lines[task[v].id].owner = task[v].customer
        BY <1>8, <2>1 DEF IInv, EditInv, EditSteps
    <2>2. ASSUME NEW v \in Workers, task'[v].step \in EditSteps
          PROVE  /\ task[v].id <= lastId'
                 /\ task[v].id \in DOMAIN lines' => lines'[task[v].id].owner = task[v].customer
        <3>1. task[v].id \in Nat
            <4>1. task[v] \in EditTask
                BY <1>1, <2>1, <2>2, TaskOfStep
            <4> QED BY <4>1 DEF EditTask, LineIds
        <3> QED BY <1>4, <1>5, <2>1, <2>2, <3>1
    <2>3. ASSUME NEW u \in Workers, NEW v \in Workers,
                 task'[u].step \in EditSteps, task'[v].step \in EditSteps,
                 task'[u].id = task'[v].id
          PROVE  task'[u].customer = task'[v].customer
        BY <2>1, <2>3 DEF IInv, EditInv
    <2> QED BY <2>1, <2>2, <2>3 DEF EditInv
<1>10. OrderingInv' /\ PayInv'
    <2>1. \A v \in Workers : OrderingOK(task'[v])
        BY <1>8 DEF IInv, OrderingInv, OrderingOK
    <2>2. \A v \in Workers : task'[v].step \in PaySteps => task'[v].order \in DOMAIN orders
        BY <1>8 DEF IInv, PayInv, PaySteps
    <2> QED BY <1>5, <2>1, <2>2 DEF OrderingInv, PayInv
<1>11. TotalMatchesItems' /\ OrderedFromOwnCart'
    BY <1>5 DEF IInv, TotalMatchesItems, OrderedFromOwnCart
<1> QED BY <1>7, <1>9, <1>10, <1>11 DEF IInv

\* FindLine picks one of the rows it finds.
LEMMA MinOfRows ==
    ASSUME IInv, NEW S \in SUBSET DOMAIN lines, S # {}
    PROVE  Min(S) \in S
<1>1. S \in SUBSET Nat
    BY DEF IInv, Types, TypeOK
<1>2. \E x \in S : \A y \in S : x <= y
    BY <1>1, LeastNat
<1> QED BY <1>2 DEF Min

\* The steps of AddItem, UpdateQuantity and RemoveItem that read.
LEMMA EditReads ==
    ASSUME IInv, NEW w \in Workers
    PROVE  /\ \A c \in Customers, p \in Products, q \in 1..MaxQty : AddCheck(w, c, p, q) => IInv'
           /\ AddFind(w) => IInv'
           /\ \A c \in Customers, i \in LineIds, q \in 1..MaxQty : UpdateRead(w, c, i, q) => IInv'
           /\ \A c \in Customers, i \in LineIds : RemoveRead(w, c, i) => IInv'
<1> USE CartAssumption
<1>1. ASSUME NEW c \in Customers, NEW p \in Products, NEW q \in 1..MaxQty, AddCheck(w, c, p, q)
      PROVE  IInv'
    <2> DEFINE t == [step |-> "findline", customer |-> c, product |-> p, qty |-> q]
    <2>1. t \in Task /\ t.step = "findline"
        BY DEF Task, AddTask
    <2>2. Goto(w, t) /\ UNCHANGED <<lines, lastId, orders, wanted, shop, split>>
        BY <1>1 DEF AddCheck
    <2> HIDE DEF t
    <2> QED BY <2>1, <2>2, MoveStep DEF OrderingOK, EditSteps, PaySteps
<1>2. ASSUME AddFind(w) PROVE IInv'
    <2> DEFINE t == task[w]
               found == LinesFor(t.customer, t.product)
               insert == [t EXCEPT !.step = "insertline"]
               save == [step |-> "addsave", customer |-> t.customer, id |-> Min(found),
                        row |-> lines[Min(found)], qty |-> t.qty]
    <2>1. /\ t \in AddTask /\ UNCHANGED <<lines, lastId, orders, wanted, shop>>
          /\ split \subseteq Customers \X Products
        BY <1>2, TaskOfStep DEF AddFind, At, IInv, Types, TypeOK
    <2>4. split' = split \/ split' \subseteq Customers \X Products
        <3>1. t.customer \in Customers /\ t.product \in Products
            BY <2>1 DEF AddTask
        <3> QED BY <1>2, <2>1, <3>1 DEF AddFind
    <2>2. CASE Goto(w, insert)
        <3>1. insert \in Task /\ insert.step = "insertline"
            BY <2>1 DEF Task, AddTask
        <3> HIDE DEF insert
        <3> QED BY <2>1, <2>2, <2>4, <3>1, MoveStep DEF OrderingOK, EditSteps, PaySteps
    <2>3. CASE found # {} /\ Goto(w, save)
        <3>1. /\ Min(found) \in found /\ Min(found) \in DOMAIN lines
              /\ lines[Min(found)].owner = t.customer
            BY <2>3, MinOfRows DEF LinesFor, Cart
        <3>2. Min(found) \in LineIds /\ lines[Min(found)] \in Line
            BY <3>1 DEF IInv, Types, TypeOK, LineIds
        <3>3. save \in EditTask
            BY <2>1, <3>2 DEF EditTask, EditSteps, AddTask
        <3>4. /\ save.step = "addsave" /\ save.row.owner = save.customer
              /\ save.id \in Cart(save.customer)
            BY <3>1 DEF Cart
        <3> HIDE DEF save
        <3> QED BY <2>1, <2>3, <2>4, <3>3, <3>4, MoveStep DEF OrderingOK, PaySteps, Task
    <2> QED BY <1>2, <2>2, <2>3 DEF AddFind
<1>3. ASSUME NEW c \in Customers, NEW i \in LineIds, NEW s \in {"qtysave", "delete"},
             NEW q \in Nat, i \in Cart(c),
             Goto(w, [step |-> s, customer |-> c, id |-> i, row |-> lines[i], qty |-> q]),
             UNCHANGED <<lines, lastId, orders, wanted, shop, split>>
      PROVE  IInv'
    <2> DEFINE t == [step |-> s, customer |-> c, id |-> i, row |-> lines[i], qty |-> q]
    <2>1. t \in Task
        <3>1. lines[i] \in Line
            BY <1>3 DEF Cart, IInv, Types, TypeOK
        <3> QED BY <3>1 DEF Task, EditTask, EditSteps
    <2>2. t.step = s /\ t.row.owner = t.customer /\ t.id \in Cart(t.customer)
        BY <1>3 DEF Cart
    <2>3. Goto(w, t)
        BY <1>3
    <2> HIDE DEF t
    <2> QED BY <1>3, <2>1, <2>2, <2>3, MoveStep DEF OrderingOK, PaySteps
<1>4. ASSUME NEW c \in Customers, NEW i \in LineIds, NEW q \in 1..MaxQty, UpdateRead(w, c, i, q)
      PROVE  IInv'
    BY <1>3, <1>4 DEF UpdateRead
<1>5. ASSUME NEW c \in Customers, NEW i \in LineIds, RemoveRead(w, c, i)
      PROVE  IInv'
    BY <1>3, <1>5 DEF RemoveRead
<1> QED BY <1>1, <1>2, <1>4, <1>5

\* The steps that write the row back or delete rows.
LEMMA EditWrites ==
    ASSUME IInv, NEW w \in Workers
    PROVE  /\ AddSave(w) => IInv'
           /\ QtySave(w) => IInv'
           /\ LineDelete(w) => IInv'
           /\ \A c \in Customers : Clear(w, c) => IInv'
<1> USE CartAssumption
<1> DEFINE t == task[w]
<1>1. ASSUME t.step \in EditSteps
      PROVE  /\ t.customer \in Customers /\ t.row \in Line /\ t.qty \in Nat
             /\ t.row.owner = t.customer /\ t.row.product \in Products
             /\ t.row.qty \in Nat
    <2>1. t \in EditTask
        BY <1>1, TaskOfStep DEF IInv, Types
    <2>2. t.row.owner = t.customer
        BY <1>1 DEF IInv, EditInv
    <2> QED BY <2>1, <2>2 DEF EditTask, Line
<1>2. ASSUME NEW c \in Customers, NEW p \in Products, NEW n \in Nat, Want(c, p, n)
      PROVE  wanted' \in [Customers -> [Products -> Nat]]
    BY <1>2 DEF Want, IInv, Types, TypeOK
<1>3. ASSUME AddSave(w) PROVE IInv'
    <2>1. t.step \in EditSteps
        BY <1>3 DEF AddSave, At, EditSteps
    <2> DEFINE row == [t.row EXCEPT !.qty = @ + t.qty]
    <2>2. row \in Line /\ row.owner = t.customer
        BY <1>1, <2>1 DEF Line
    <2>3. wanted[t.customer][t.row.product] + t.qty \in Nat
        BY <1>1, <2>1 DEF IInv, Types, TypeOK
    <2>4. wanted' \in [Customers -> [Products -> Nat]]
        BY <1>1, <1>2, <1>3, <2>1, <2>3 DEF AddSave
    <2>5. SaveLine(t.id, row) /\ Finish(w) /\ UNCHANGED <<lastId, orders, shop, split>>
        BY <1>3 DEF AddSave
    <2> HIDE DEF row
    <2> QED BY <2>1, <2>2, <2>4, <2>5, SaveStep
<1>4. ASSUME QtySave(w) PROVE IInv'
    <2>1. t.step \in EditSteps
        BY <1>4 DEF QtySave, At, EditSteps
    <2> DEFINE row == [t.row EXCEPT !.qty = t.qty]
    <2>2. row \in Line /\ row.owner = t.customer
        BY <1>1, <2>1 DEF Line
    <2>4. wanted' \in [Customers -> [Products -> Nat]]
        BY <1>1, <1>2, <1>4, <2>1 DEF QtySave
    <2>5. SaveLine(t.id, row) /\ Finish(w) /\ UNCHANGED <<lastId, orders, shop, split>>
        BY <1>4 DEF QtySave
    <2> HIDE DEF row
    <2> QED BY <2>1, <2>2, <2>4, <2>5, SaveStep
<1>5. ASSUME LineDelete(w) PROVE IInv'
    <2>1. t.step \in EditSteps
        BY <1>5 DEF LineDelete, At, EditSteps
    <2>2. wanted' \in [Customers -> [Products -> Nat]]
        BY <1>1, <1>2, <1>5, <2>1 DEF LineDelete
    <2>3. /\ task' \in [Workers -> Task]
          /\ \A v \in Workers : task'[v] = task[v] \/ task'[v] = Idle
        BY <1>5 DEF LineDelete, Finish, Goto, IInv, Types, Task
    <2>4. orders' = orders /\ orders \in Seq(Order) /\ UNCHANGED <<lastId, shop, split>> /\ Delete({t.id})
        BY <1>5 DEF LineDelete, IInv, Types, TypeOK
    <2> QED BY <2>2, <2>3, <2>4, DeleteStep
<1>6. ASSUME NEW c \in Customers, Clear(w, c) PROVE IInv'
    <2>1. wanted' \in [Customers -> [Products -> Nat]]
        BY <1>6 DEF Clear, IInv, Types, TypeOK
    <2>2. /\ orders' = orders /\ orders \in Seq(Order) /\ UNCHANGED <<lastId, shop>>
          /\ split' \subseteq split
          /\ Delete(Cart(c)) /\ task' = task /\ task \in [Workers -> Task]
        BY <1>6 DEF Clear, IInv, Types, TypeOK
    <2> QED BY <2>1, <2>2, DeleteStep
<1> QED BY <1>3, <1>4, <1>5, <1>6

\* Reading the cart: nothing is ordered yet, and everything read is the
\* customer's.
LEMMA CheckoutReadStep ==
    ASSUME IInv, NEW w \in Workers, NEW c \in Customers, NEW m \in Methods,
           CheckoutRead(w, c, m)
    PROVE  IInv'
<1> DEFINE rows == {[id |-> i, row |-> lines[i]] : i \in Cart(c)}
           snap == [i \in Cart(c) |-> lines[i]]
           t == [step |-> "build", customer |-> c, method |-> m, todo |-> rows,
                 seen |-> snap, items |-> {}, subtotal |-> 0]
<1>1. \A i \in Cart(c) : i \in LineIds /\ lines[i] \in Line /\ lines[i].owner = c
    BY CartAssumption DEF Cart, IInv, Types, TypeOK, LineIds
<1>2. rows \in SUBSET [id: LineIds, row: Line]
    BY <1>1
<1>3. snap \in Snapshot
    <2>1. snap \in [Cart(c) -> Line] /\ Cart(c) \in SUBSET LineIds
        BY <1>1
    <2> QED BY <2>1 DEF Snapshot
<1>4. \A k, l \in rows : l.row.owner = c /\ (k.id = l.id => k = l)
    BY <1>1
<1>5. Goto(w, t) /\ UNCHANGED <<lines, lastId, orders, wanted, shop, split>>
    BY DEF CheckoutRead
<1> HIDE DEF rows, snap
<1>6. t \in Task
    BY <1>2, <1>3 DEF Task, BuildTask
<1>7. BuildOK(t)
    BY <1>4, ItemsTotalAdds, FS_EmptySet DEF BuildOK, ItemsOf
<1>8. t.step = "build"
    OBVIOUS
<1> HIDE DEF t
<1> QED BY <1>5, <1>6, <1>7, <1>8, MoveStep DEF OrderingOK, EditSteps, PaySteps

\* One more row becomes an item, and its value goes into the subtotal.
LEMMA BuildLineStep ==
    ASSUME IInv, NEW w \in Workers, BuildLine(w)
    PROVE  IInv'
<1> USE CartAssumption
<1> DEFINE t == task[w]
           row == CHOOSE l \in t.todo : \A k \in t.todo : l.id <= k.id
           p == row.row.product
           rest == [t EXCEPT !.todo = @ \ {row}]
           item == [line |-> row.id, owner |-> row.row.owner, product |-> p,
                    price |-> price[p], qty |-> row.row.qty]
           more == [rest EXCEPT !.items = @ \cup {item},
                                !.subtotal = @ + price[p] * row.row.qty]
<1>1. /\ t \in BuildTask /\ t.step = "build" /\ BuildOK(t) /\ t.todo # {}
      /\ UNCHANGED <<lines, lastId, orders, wanted, shop, split>>
      /\ Goto(w, more) \/ Goto(w, rest)
    BY TaskOfStep DEF BuildLine, At, IInv, Types, OrderingInv, OrderingOK
<1>2. row \in t.todo
    <2>1. {l.id : l \in t.todo} \in SUBSET Nat /\ {l.id : l \in t.todo} # {}
        <3>1. t.todo \in SUBSET [id: LineIds, row: Line] /\ t.todo # {}
            BY <1>1 DEF BuildTask
        <3> HIDE DEF t
        <3>2. \A l \in t.todo : l.id \in Nat
            BY <3>1 DEF LineIds
        <3> QED BY <3>1, <3>2
    <2>2. PICK n \in {l.id : l \in t.todo} : \A k \in {l.id : l \in t.todo} : n <= k
        BY <2>1, LeastNat
    <2>3. \E l \in t.todo : \A k \in t.todo : l.id <= k.id
        BY <2>2
    <2> QED BY <2>3
<1> HIDE DEF row
<1>3. /\ row.id \in LineIds /\ row.row \in Line /\ row.row.owner = t.customer
      /\ p \in Products /\ row.row.qty \in Nat
      /\ t.items \in SUBSET Item /\ t.todo \in SUBSET [id: LineIds, row: Line]
      /\ t.subtotal \in Nat
    BY <1>1, <1>2 DEF BuildTask, Line, BuildOK
<1>4. rest \in BuildTask /\ BuildOK(rest) /\ rest.step = "build"
    <2>1. /\ rest.step = "build" /\ rest.items = t.items /\ rest.customer = t.customer
          /\ rest.subtotal = t.subtotal /\ rest.todo = t.todo \ {row}
        BY <1>1 DEF BuildTask
    <2>2. rest \in BuildTask
        BY <1>1, <1>3 DEF BuildTask
    <2> HIDE DEF rest, t
    <2> QED BY <1>1, <2>1, <2>2 DEF BuildOK
<1>5. /\ more \in BuildTask /\ BuildOK(more) /\ more.step = "build"
    <2> DEFINE value == price[p] * row.row.qty
    <2>1. item \in Item /\ price[p] \in Nat /\ row.row.qty \in Nat
        BY <1>3 DEF Item, Line, IInv, Types, TypeOK
    <2>2. value \in Nat /\ Value(item) = value
        BY <2>1 DEF Value
    <2>3. \A x \in t.items : Value(x) \in Nat
        BY <1>3, ValueNat
    <2>4. item.line = row.id /\ item.owner = t.customer
        BY <1>3
    <2> HIDE DEF item, value
    <2>5. item \notin t.items
        BY <1>1, <1>2, <2>4 DEF BuildOK
    <2>6. ItemsTotal(t.items \cup {item}) = ItemsTotal(t.items) + value
        BY <1>1, <2>2, <2>3, <2>5, ItemsTotalAdds DEF BuildOK, ItemsOf
    <2>7. IsFiniteSet(t.items \cup {item})
        BY <1>1, FS_AddElement DEF BuildOK, ItemsOf
    <2>8. more = [rest EXCEPT !.items = t.items \cup {item}, !.subtotal = t.subtotal + value]
        BY <1>1 DEF BuildTask, value
    <2>9. /\ more.step = "build" /\ more.customer = t.customer
          /\ more.todo = t.todo \ {row} /\ more.items = t.items \cup {item}
          /\ more.subtotal = t.subtotal + value
        BY <1>1, <2>8 DEF BuildTask
    <2>10. more \in BuildTask
        <3>1. t.items \cup {item} \in SUBSET Item /\ t.subtotal + value \in Nat
            BY <1>3, <2>1, <2>2
        <3> HIDE DEF rest, more
        <3> QED BY <1>4, <2>8, <3>1 DEF BuildTask
    <2> HIDE DEF more, rest, t
    <2>11. ItemsOf(more.items, more.customer)
        BY <1>1, <1>2, <2>4, <2>7, <2>9 DEF BuildOK, ItemsOf
    <2>12. \A k, l \in more.todo : l.row.owner = more.customer /\ (k.id = l.id => k = l)
        BY <1>1, <2>9 DEF BuildOK
    <2>13. \A l \in more.todo : \A x \in more.items : x.line # l.id
        BY <1>1, <1>2, <2>4, <2>9 DEF BuildOK
    <2>14. more.subtotal = ItemsTotal(more.items)
        BY <1>1, <2>6, <2>9 DEF BuildOK
    <2> QED BY <2>9, <2>10, <2>11, <2>12, <2>13, <2>14 DEF BuildOK
<1> HIDE DEF rest, more
<1> QED BY <1>1, <1>4, <1>5, MoveStep DEF OrderingOK, EditSteps, PaySteps, Task

\* The fee goes into the total and into the order.
LEMMA BuildDoneStep ==
    ASSUME IInv, NEW w \in Workers, BuildDone(w)
    PROVE  IInv'
<1> USE CartAssumption
<1> DEFINE t == task[w]
           create == [step |-> "create", customer |-> t.customer, method |-> t.method,
                      seen |-> t.seen, items |-> t.items, fee |-> fee,
                      total |-> t.subtotal + fee]
<1>1. /\ t \in BuildTask /\ BuildOK(t)
      /\ UNCHANGED <<lines, lastId, orders, wanted, shop, split>>
      /\ Goto(w, IF t.items = {} THEN Idle ELSE create)
    BY TaskOfStep DEF BuildDone, Finish, At, IInv, Types, OrderingInv, OrderingOK
<1>2. create \in Task /\ create.step = "create"
    BY <1>1 DEF Task, CreateTask, BuildTask, IInv, Types, TypeOK
<1>3. CreateOK(create)
    BY <1>1 DEF CreateOK, BuildOK
<1>4. Idle \in Task /\ Idle.step = "idle"
    BY DEF Task, Idle
<1> HIDE DEF create
<1> QED BY <1>1, <1>2, <1>3, <1>4, MoveStep DEF OrderingOK, EditSteps, PaySteps

\* The order is stored as it was put together.
LEMMA CreateOrderStep ==
    ASSUME IInv, NEW w \in Workers, CreateOrder(w)
    PROVE  IInv'
<1> DEFINE t == task[w]
           o == [owner |-> t.customer, items |-> t.items, fee |-> t.fee,
                 total |-> t.total, cleared |-> FALSE]
           pay == [step |-> IF t.method = "cash" THEN "clear" ELSE "payurl",
                   customer |-> t.customer, seen |-> t.seen, order |-> Len(orders) + 1]
<1>1. /\ t \in CreateTask /\ CreateOK(t) /\ task \in [Workers -> Task]
      /\ UNCHANGED <<lines, lastId, wanted, shop, split>>
      /\ orders' = Append(orders, o) /\ orders \in Seq(Order)
      /\ task' = [task EXCEPT ![w] = pay]
    BY TaskOfStep DEF CreateOrder, Goto, At, IInv, Types, TypeOK, OrderingInv, OrderingOK
<1>2. o \in Order
    BY <1>1 DEF Order, CreateTask
<1>3. /\ o.owner = t.customer /\ o.items = t.items
      /\ o.fee = t.fee /\ o.total = t.total
    OBVIOUS
<1> HIDE DEF o
<1>4. /\ orders' \in Seq(Order) /\ Len(orders') = Len(orders) + 1
      /\ \A n \in 1..Len(orders) : orders'[n] = orders[n]
      /\ orders'[Len(orders) + 1] = o
      /\ DOMAIN orders = 1..Len(orders) /\ DOMAIN orders' = 1..(Len(orders) + 1)
      /\ Len(orders) \in Nat
    BY <1>1, <1>2, AppendProperties, LenProperties
<1>5. /\ pay \in Task /\ pay.step \in PaySteps /\ pay.order = Len(orders) + 1
    BY <1>1, <1>4 DEF Task, PayTask, CreateTask, PaySteps
<1> HIDE DEF pay
<1>6. /\ task' \in [Workers -> Task] /\ task'[w] = pay
      /\ \A v \in Workers \ {w} : task'[v] = task[v]
    BY <1>1, <1>5
<1>7. Types'
    BY <1>1, <1>4, <1>6 DEF IInv, Types, TypeOK, shop
<1>8. EditInv'
    <2>1. \A v \in Workers : task'[v].step \in EditSteps => v # w /\ task'[v] = task[v]
        BY <1>5, <1>6 DEF EditSteps, PaySteps
    <2> QED BY <1>1, <2>1 DEF IInv, EditInv
<1>9. OrderingInv'
    BY <1>5, <1>6 DEF IInv, OrderingInv, OrderingOK, PaySteps
<1>10. PayInv'
    <2>1. \A v \in Workers \ {w} : task'[v].step \in PaySteps => task'[v].order \in DOMAIN orders
        BY <1>6 DEF IInv, PayInv
    <2> QED BY <1>4, <1>5, <1>6, <2>1 DEF PayInv
<1>11. TotalMatchesItems'
    <2>1. o.total = ItemsTotal(o.items) + o.fee
        BY <1>1, <1>3 DEF CreateOK
    <2>2. ASSUME NEW n \in DOMAIN orders'
          PROVE  orders'[n].total = ItemsTotal(orders'[n].items) + orders'[n].fee
        <3>1. CASE n = Len(orders) + 1
            BY <1>4, <2>1, <3>1
        <3>2. CASE n # Len(orders) + 1
            <4>1. n \in DOMAIN orders /\ orders'[n] = orders[n]
                BY <1>4, <3>2
            <4> QED BY <4>1 DEF IInv, TotalMatchesItems
        <3> QED BY <3>1, <3>2
    <2> QED BY <2>2 DEF TotalMatchesItems
<1>12. OrderedFromOwnCart'
    <2>1. \A x, y \in o.items : x.owner = o.owner /\ (x.line = y.line => x = y)
        BY <1>1, <1>3 DEF CreateOK, ItemsOf
    <2>2. ASSUME NEW n \in DOMAIN orders'
          PROVE  \A x, y \in orders'[n].items : /\ x.owner = orders'[n].owner
                                                /\ x.line = y.line => x = y
        <3>1. CASE n = Len(orders) + 1
            BY <1>4, <2>1, <3>1
        <3>2. CASE n # Len(orders) + 1
            <4>1. n \in DOMAIN orders /\ orders'[n] = orders[n]
                BY <1>4, <3>2
            <4> QED BY <4>1 DEF IInv, OrderedFromOwnCart
        <3> QED BY <3>1, <3>2
    <2> QED BY <2>2 DEF OrderedFromOwnCart
<1> QED BY <1>7, <1>8, <1>9, <1>10, <1>11, <1>12 DEF IInv

\* The payment page is there or not.
LEMMA PaymentUrlStep ==
    ASSUME IInv, NEW w \in Workers, PaymentUrl(w)
    PROVE  IInv'
<1> DEFINE t == [task[w] EXCEPT !.step = "clear"]
<1>1. /\ task[w] \in PayTask /\ task[w].order \in DOMAIN orders
      /\ UNCHANGED <<lines, lastId, orders, wanted, shop, split>>
      /\ Goto(w, t) \/ Goto(w, Idle)
    BY TaskOfStep DEF PaymentUrl, Finish, At, IInv, Types, PayInv, PaySteps
<1>2. t \in PayTask /\ t.step = "clear" /\ t.order = task[w].order
    BY <1>1 DEF PayTask, PaySteps
<1>3. Idle \in Task /\ Idle.step = "idle"
    BY DEF Task, Idle
<1> HIDE DEF t
<1> QED BY <1>1, <1>2, <1>3, MoveStep DEF OrderingOK, EditSteps, PaySteps, Task

\* The cart is cleared, or is not.
LEMMA ClearAfterStep ==
    ASSUME IInv, NEW w \in Workers, ClearAfter(w)
    PROVE  IInv'
<1> USE CartAssumption
<1> DEFINE t == task[w]
           c == t.customer
<1>1. t \in PayTask /\ t.order \in DOMAIN orders /\ c \in Customers
    <2>1. t \in PayTask /\ t.order \in DOMAIN orders
        BY TaskOfStep DEF ClearAfter, At, IInv, Types, PayInv, PaySteps
    <2> QED BY <2>1 DEF PayTask
<1>2. /\ Goto(w, Idle) /\ UNCHANGED <<lastId, shop, split>>
      /\ orders \in Seq(Order) /\ wanted \in [Customers -> [Products -> Nat]]
    BY DEF ClearAfter, Finish, IInv, Types, TypeOK
<1>3. /\ task' \in [Workers -> Task]
      /\ \A v \in Workers : task'[v] = task[v] \/ task'[v] = Idle
    BY <1>2 DEF Goto, IInv, Types, Task
<1>4. CASE UNCHANGED <<lines, orders, wanted>>
    <2>1. Idle \in Task /\ Idle.step = "idle"
        BY DEF Task, Idle
    <2> QED BY <1>2, <1>4, <2>1, MoveStep DEF OrderingOK, EditSteps, PaySteps
<1>5. CASE /\ Delete(Cart(c))
           /\ orders' = [orders EXCEPT ![t.order].cleared = TRUE]
           /\ wanted' = [wanted EXCEPT ![c] = [p \in Products |-> Less(@[p], Taken(t, p))]]
    <2>1. \A p \in Products : Taken(t, p) \in Nat
        <3>1. PICK I \in SUBSET LineIds : t.seen \in [I -> Line]
            BY <1>1 DEF PayTask, Snapshot
        <3>2. IsFiniteSet(DOMAIN t.seen) /\ DOMAIN t.seen = I
            <4>1. IsFiniteSet(LineIds)
                BY FS_Interval DEF LineIds
            <4>2. DOMAIN t.seen = I
                BY <3>1
            <4> HIDE DEF t
            <4> QED BY <4>1, <4>2, FS_Subset
        <3>3. \A i \in DOMAIN t.seen : t.seen[i].qty \in Nat
            BY <3>1, <3>2 DEF Line
        <3> HIDE DEF t
        <3> QED BY <3>2, <3>3, TakenNat
    <2>2. \A p \in Products : Less(wanted[c][p], Taken(t, p)) \in Nat
        <3>1. \A p \in Products : wanted[c][p] \in Nat
            BY <1>1, <1>2
        <3> HIDE DEF t, c
        <3> QED BY <2>1, <3>1 DEF Less
    <2>3. wanted' \in [Customers -> [Products -> Nat]]
        <3> DEFINE left == [p \in Products |-> Less(wanted[c][p], Taken(t, p))]
        <3>1. left \in [Products -> Nat]
            BY <2>2
        <3>2. wanted' = [wanted EXCEPT ![c] = left]
            BY <1>5
        <3> HIDE DEF left
        <3> QED BY <1>2, <3>1, <3>2
    <2> DEFINE o == [orders[t.order] EXCEPT !.cleared = TRUE]
    <2>4. DOMAIN orders = 1..Len(orders) /\ orders[t.order] \in Order
        BY <1>1, <1>2, LenProperties, ElementOfSeq
    <2>5. /\ o \in Order /\ o.owner = orders[t.order].owner
          /\ o.items = orders[t.order].items /\ o.fee = orders[t.order].fee
          /\ o.total = orders[t.order].total
        BY <2>4 DEF Order
    <2>6. orders' = [orders EXCEPT ![t.order] = o]
        BY <1>5
    <2> HIDE DEF o
    <2>7. /\ orders' \in Seq(Order) /\ DOMAIN orders' = DOMAIN orders
          /\ \A n \in DOMAIN orders : orders'[n] = IF n = t.order THEN o ELSE orders[n]
        BY <1>1, <1>2, <2>4, <2>5, <2>6, ExceptSeq
    <2> QED BY <1>2, <1>3, <1>5, <2>3, <2>5, <2>7, DeleteStep
<1> QED BY <1>4, <1>5 DEF ClearAfter

\* A request gives up.
LEMMA RequestFailsStep ==
    ASSUME IInv, NEW w \in Workers, RequestFails(w)
    PROVE  IInv'
<1>1. Idle \in Task /\ Idle.step = "idle"
    BY DEF Task, Idle
<1>2. Goto(w, Idle) /\ UNCHANGED <<lines, lastId, orders, wanted, shop, split>>
    BY DEF RequestFails, Finish
<1> QED BY <1>1, <1>2, MoveStep DEF OrderingOK, EditSteps, PaySteps

\* Prices, the fee and the catalogue change, or the process restarts.
LEMMA ShopStep ==
    ASSUME IInv, UNCHANGED <<lines, lastId, orders, wanted, split>>,
           listed' \subseteq Products, price' \in [Products -> Prices], fee' \in Fees,
           task' = task \/ task' = [w \in Workers |-> Idle]
    PROVE  IInv'
<1>1. \A w \in Workers : task'[w].step # "idle" => task'[w] = task[w]
    BY DEF Idle
<1>2. Types'
    BY DEF IInv, Types, TypeOK, Task
<1>3. EditInv'
    BY DEF IInv, EditInv, EditSteps, Idle
<1>4. OrderingInv' /\ PayInv'
    BY DEF IInv, OrderingInv, PayInv, OrderingOK, Idle, PaySteps
<1>5. TotalMatchesItems' /\ OrderedFromOwnCart'
    BY DEF IInv, TotalMatchesItems, OrderedFromOwnCart
<1> QED BY <1>2, <1>3, <1>4, <1>5 DEF IInv

LEMMA CartNext == IInv /\ [Next]_vars => IInv'
<1> SUFFICES ASSUME IInv, [Next]_vars PROVE IInv'
    OBVIOUS
<1>1. ASSUME NEW w \in Workers, EditCart(w) PROVE IInv'
    BY <1>1, EditReads, EditWrites, InsertStep DEF EditCart
<1>2. ASSUME NEW w \in Workers, PlaceOrder(w) PROVE IInv'
    BY <1>2, CheckoutReadStep, BuildLineStep, BuildDoneStep, CreateOrderStep,
       PaymentUrlStep, ClearAfterStep DEF PlaceOrder, Methods
<1>3. TypeOK
    BY DEF IInv, Types
<1>4. ASSUME NEW p \in Products, NEW x \in Prices, SetPrice(p, x) PROVE IInv'
    BY <1>3, <1>4, ShopStep DEF SetPrice, TypeOK
<1>5. ASSUME NEW p \in Products, DeleteProduct(p) PROVE IInv'
    BY <1>3, <1>5, ShopStep DEF DeleteProduct, TypeOK
<1>6. ASSUME NEW f \in Fees, SetFee(f) PROVE IInv'
    BY <1>3, <1>6, ShopStep DEF SetFee, TypeOK
<1>7. CASE Crash
    BY <1>3, <1>7, ShopStep DEF Crash, TypeOK, shop
<1>8. CASE UNCHANGED vars
    BY <1>3, <1>8, ShopStep DEF vars, TypeOK
<1> QED BY <1>1, <1>2, <1>4, <1>5, <1>6, <1>7, <1>8, RequestFailsStep DEF Next, Admin

\* IInv holds at every moment: the copies of rows that requests hold belong
\* to the customers they serve, and an order under way has added up its items.
THEOREM CartInductive == Spec => []IInv
BY CartInit, CartNext, PTL DEF Spec

\* Every order charges what its lines and its fee add up to, and its lines
\* came from rows of its owner's cart, none of them twice, for any number of
\* overlapping requests and of price, fee and catalogue changes between their
\* statements (order_service.go, buildOrderItemsFromCart).
THEOREM OrdersAddUp == Spec => []CartInv
<1>1. IInv => CartInv
    BY DEF IInv, Types, CartInv
<1> QED BY <1>1, CartInductive, PTL

\* The rows of one customer are changed by that customer's requests only.
LEMMA OwnerEdits ==
    ASSUME IInv, [Next]_vars, NEW i \in DOMAIN lines,
           i \in DOMAIN lines' => lines'[i] # lines[i]
    PROVE  \/ \E w \in Workers : task[w].customer = lines[i].owner
           \/ \E w \in Workers : Clear(w, lines[i].owner)
<1> DEFINE Served == \E w \in Workers : task[w].customer = lines[i].owner
<1>1. ASSUME NEW w \in Workers, task[w].step \in EditSteps, task[w].id = i
      PROVE  Served
    BY <1>1 DEF IInv, EditInv
<1>2. ASSUME NEW w \in Workers, NEW row, SaveLine(task[w].id, row),
             task[w].step \in EditSteps
      PROVE  Served
    <2>1. task[w].id = i
        BY <1>2 DEF SaveLine
    <2> QED BY <1>1, <1>2, <2>1
<1>3. ASSUME NEW w \in Workers, AddSave(w) \/ QtySave(w) PROVE Served
    BY <1>2, <1>3 DEF AddSave, QtySave, At, EditSteps
<1>4. ASSUME NEW w \in Workers, AddInsert(w) PROVE FALSE
    <2>1. lastId + 1 # i
        BY DEF IInv, Types, TypeOK
    <2> QED BY <1>4, <2>1 DEF AddInsert, SaveLine
<1>5. ASSUME NEW ids, Delete(ids) PROVE i \in ids
    BY <1>5 DEF Delete, Restrict
<1>6. ASSUME NEW w \in Workers, LineDelete(w) PROVE Served
    BY <1>1, <1>5, <1>6 DEF LineDelete, At, EditSteps
<1>7. ASSUME NEW w \in Workers, NEW c \in Customers, Clear(w, c)
      PROVE  Clear(w, lines[i].owner)
    <2>1. i \in Cart(c)
        BY <1>5, <1>7 DEF Clear
    <2> QED BY <1>7, <2>1 DEF Cart
<1>8. ASSUME NEW w \in Workers, ClearAfter(w) PROVE Served
    <2>1. i \in Cart(task[w].customer)
        BY <1>5, <1>8 DEF ClearAfter
    <2> QED BY <2>1 DEF Cart
<1>9. lines' # lines
    OBVIOUS
<1>10. ASSUME NEW w \in Workers, EditCart(w)
       PROVE  Served \/ \E v \in Workers : Clear(v, lines[i].owner)
    BY <1>3, <1>4, <1>6, <1>7, <1>9, <1>10
       DEF EditCart, AddCheck, AddFind, UpdateRead, RemoveRead
<1>11. ASSUME NEW w \in Workers, PlaceOrder(w) PROVE Served
    BY <1>8, <1>9, <1>11
       DEF PlaceOrder, CheckoutRead, BuildLine, BuildDone, CreateOrder, PaymentUrl
<1>12. /\ ~Admin /\ ~Crash /\ ~UNCHANGED vars
       /\ \A w \in Workers : ~RequestFails(w)
    BY <1>9 DEF Admin, SetPrice, DeleteProduct, SetFee, Crash, RequestFails, vars
<1> QED BY <1>10, <1>11, <1>12 DEF Next

\* A row of the cart changes or disappears only in a request of its owner,
\* however many requests overlap between their reading and their writing
\* (cart_repository.go: FindByIDForCustomer).
THEOREM OnlyOwnersEdit == Spec => OnlyOwnerEdits
<1>1. IInv /\ [Next]_vars =>
         [\A i \in DOMAIN lines :
            (i \in DOMAIN lines' => lines'[i] # lines[i]) =>
               \/ \E w \in Workers : task[w].customer = lines[i].owner
               \/ \E w \in Workers : Clear(w, lines[i].owner)]_lines
    BY OwnerEdits
<1> QED BY <1>1, CartInductive, PTL DEF Spec, OnlyOwnerEdits

-----------------------------------------------------------------------------
(* The regime "apart": a customer waits for one answer before the next     *)
(* request.                                                                *)

\* No two workers serve one customer; k stands for `task`.
Lone(k) ==
    \A v, w \in Workers :
        k[v].customer \in Customers /\ k[v].customer = k[w].customer => v = w

\* The rows i of cart L that are customer c's, and those with product p.
Owned(L, c) == {i \in DOMAIN L : L[i].owner = c}
For(L, c, p) == {i \in DOMAIN L : L[i].owner = c /\ L[i].product = p}

\* Cart L has one row per product, with the quantity that W tells, but for
\* pairs of customer and product in S.
Counts(L, W, S) ==
    /\ \A i, j \in DOMAIN L :
          /\ L[i].owner = L[j].owner /\ L[i].product = L[j].product
          /\ <<L[i].owner, L[i].product>> \notin S
          => i = j
    /\ \A i \in DOMAIN L : <<L[i].owner, L[i].product>> \notin S
             => L[i].qty = W[L[i].owner][L[i].product]
    /\ \A c \in Customers, p \in Products :
          <<c, p>> \notin S /\ For(L, c, p) = {} => W[c][p] = 0

\* What a request has read of cart L is still so.
Fits(t, L, S) ==
    /\ t.step = "insertline" =>
          <<t.customer, t.product>> \in S \/ For(L, t.customer, t.product) = {}
    /\ t.step \in EditSteps => t.id \in DOMAIN L /\ t.row = L[t.id]
    /\ t.step \in {"build", "create"} \cup PaySteps =>
          t.seen = [i \in Owned(L, t.customer) |-> L[i]]

\* What a request orders is in the cart it has read, and in no order of O
\* after its own; O stands for `orders`.
FromCart(t, O) ==
    /\ t.step = "build" => \A l \in t.todo : l.id \in DOMAIN t.seen
    /\ t.step \in {"build", "create"} => \A x \in t.items : x.line \in DOMAIN t.seen
    /\ t.step \in PaySteps =>
          /\ \A x \in O[t.order].items : x.line \in DOMAIN t.seen
          /\ \A n \in DOMAIN O : t.order < n =>
                \A x \in O[t.order].items, y \in O[n].items : x.line # y.line

\* The rows of cleared orders O are gone from cart L, and their ids, up to
\* n, are not used again.
Spent(O, L, n) ==
    \A m \in DOMAIN O : O[m].cleared =>
        \A x \in O[m].items : x.line <= n /\ x.line \notin DOMAIN L

ApartCart ==
    /\ Lone(task) /\ Counts(lines, wanted, split)
    /\ Spent(orders, lines, lastId) /\ OrderedOnce
    /\ \A w \in Workers : Fits(task[w], lines, split) /\ FromCart(task[w], orders)

ApartInv == IInv /\ (regime = "apart" => ApartCart)

-----------------------------------------------------------------------------
(* What the cart holds.                                                    *)

\* A sum over no row is nothing, and over one row its value.
LEMMA OneFolds ==
    ASSUME NEW T, NEW v, NEW it, Folds(it, v, T)
    PROVE  /\ T = {} => it[T] = 0
           /\ \A a : T = {a} /\ v[a] \in Nat => it[T] = v[a]
<1>1. it[{}] = 0
    BY DEF Folds
<1>2. ASSUME NEW a, T = {a}, v[a] \in Nat PROVE it[T] = v[a]
    <2>1. (CHOOSE x \in T : TRUE) = a
        BY <1>2
    <2>2. T \ {a} = {} /\ T # {} /\ T \in SUBSET T
        BY <1>2
    <2>3. it[T] = v[a] + it[{}]
        BY <2>1, <2>2 DEF Folds
    <2> QED BY <1>1, <1>2, <2>3
<1> QED BY <1>1, <1>2

LEMMA InCartIs ==
    ASSUME NEW c, NEW p, IsFiniteSet(LinesFor(c, p)),
           \A i \in LinesFor(c, p) : lines[i].qty \in Nat
    PROVE  /\ LinesFor(c, p) = {} => InCart(c, p) = 0
           /\ \A a : LinesFor(c, p) = {a} => InCart(c, p) = lines[a].qty
<1> DEFINE T == LinesFor(c, p)
           v == [i \in T |-> lines[i].qty]
           Is(it) == it = [s \in SUBSET T |-> IF s = {} THEN 0
                               ELSE LET x == CHOOSE x \in s : TRUE
                                    IN lines[x].qty + it[s \ {x}]]
<1>1. InCart(c, p) = (CHOOSE it : Is(it))[T]
    BY DEF InCart, MapThenSumSet, MapThenFoldSet
<1>2. IsFiniteSet(T) /\ \A x \in T : v[x] = lines[x].qty /\ v[x] \in Nat
    OBVIOUS
<1> HIDE DEF v, T
<1>3. ASSUME NEW it PROVE Is(it) <=> Folds(it, v, T)
    <2>1. ASSUME NEW s \in SUBSET T
          PROVE  (IF s = {} THEN 0
                  ELSE LET x == CHOOSE x \in s : TRUE
                       IN lines[x].qty + it[s \ {x}])
                 = IF s = {} THEN 0
                   ELSE v[CHOOSE x \in s : TRUE] + it[s \ {CHOOSE x \in s : TRUE}]
        BY <1>2
    <2> QED BY <2>1 DEF Folds
<1> HIDE DEF Is
<1>4. PICK g : Adds(g, v, T)
    BY <1>2, SumExists
<1>5. Folds(g, v, T)
    BY <1>2, <1>4, SumFolds
<1>6. Folds(CHOOSE it : Is(it), v, T)
    BY <1>3, <1>5
<1>7. /\ T = {} => InCart(c, p) = 0
      /\ \A a : T = {a} => InCart(c, p) = lines[a].qty
    <2> DEFINE it == CHOOSE it : Is(it)
    <2>1. InCart(c, p) = it[T] /\ Folds(it, v, T)
        BY <1>1, <1>6
    <2> HIDE DEF it
    <2>2. T = {} => it[T] = 0
        BY <2>1, OneFolds
    <2>3. ASSUME NEW a, T = {a} PROVE it[T] = lines[a].qty
        <3>1. v[a] = lines[a].qty /\ v[a] \in Nat
            BY <1>2, <2>3
        <3>2. it[T] = v[a]
            BY <2>1, <2>3, <3>1, OneFolds
        <3> QED BY <3>1, <3>2
    <2> QED BY <2>1, <2>2, <2>3
<1> QED BY <1>7 DEF T

LEMMA TakenIs ==
    ASSUME NEW t, NEW p, NEW T, T = {i \in DOMAIN t.seen : t.seen[i].product = p},
           IsFiniteSet(T), \A i \in T : t.seen[i].qty \in Nat
    PROVE  /\ T = {} => Taken(t, p) = 0
           /\ \A a : T = {a} => Taken(t, p) = t.seen[a].qty
<1> DEFINE v == [i \in T |-> t.seen[i].qty]
           Is(it) == it = [s \in SUBSET T |-> IF s = {} THEN 0
                               ELSE LET x == CHOOSE x \in s : TRUE
                                    IN t.seen[x].qty + it[s \ {x}]]
<1>1. Taken(t, p) = (CHOOSE it : Is(it))[T]
    BY DEF Taken, MapThenSumSet, MapThenFoldSet
<1>2. \A x \in T : v[x] = t.seen[x].qty /\ v[x] \in Nat
    OBVIOUS
<1> HIDE DEF v
<1>3. ASSUME NEW it PROVE Is(it) <=> Folds(it, v, T)
    <2>1. ASSUME NEW s \in SUBSET T
          PROVE  (IF s = {} THEN 0
                  ELSE LET x == CHOOSE x \in s : TRUE
                       IN t.seen[x].qty + it[s \ {x}])
                 = IF s = {} THEN 0
                   ELSE v[CHOOSE x \in s : TRUE] + it[s \ {CHOOSE x \in s : TRUE}]
        BY <1>2
    <2> QED BY <2>1 DEF Folds
<1> HIDE DEF Is
<1>4. PICK g : Adds(g, v, T)
    BY <1>2, SumExists
<1>5. Folds(g, v, T)
    BY <1>2, <1>4, SumFolds
<1>6. Folds(CHOOSE it : Is(it), v, T)
    BY <1>3, <1>5
<1> DEFINE it == CHOOSE it : Is(it)
<1>7. Taken(t, p) = it[T] /\ Folds(it, v, T)
    BY <1>1, <1>6
<1> HIDE DEF it
<1>8. T = {} => it[T] = 0
    BY <1>7, OneFolds
<1>9. ASSUME NEW a, T = {a} PROVE it[T] = t.seen[a].qty
    <2>1. v[a] = t.seen[a].qty /\ v[a] \in Nat
        BY <1>2, <1>9
    <2>2. it[T] = v[a]
        BY <1>7, <1>9, <2>1, OneFolds
    <2> QED BY <2>1, <2>2
<1> QED BY <1>7, <1>8, <1>9

\* Rows of cart L are well formed, and W tells quantities.
Told(L, W) ==
    /\ \A i \in DOMAIN L : L[i].owner \in Customers /\ L[i].product \in Products
    /\ W \in [Customers -> [Products -> Nat]]

LEMMA TablesTold ==
    ASSUME IInv
    PROVE  Told(lines, wanted)
BY DEF IInv, Types, TypeOK, Line, Told

\* From cart L to M, row i becomes one of customer c for product p, the only
\* one and with what V tells c unless the pair is in S.
Put(L, W, M, V, S, c, p, i) ==
    /\ <<c, p>> \notin S => For(L, c, p) \subseteq {i} /\ M[i].qty = V[c][p]
    /\ i \in DOMAIN L => i \in For(L, c, p)
    /\ DOMAIN M = DOMAIN L \cup {i}
    /\ M[i].owner = c /\ M[i].product = p
    /\ \A j \in DOMAIN L : j # i => M[j] = L[j]
    /\ \A d \in Customers, q \in Products : d # c \/ q # p => V[d][q] = W[d][q]

LEMMA CountsPut ==
    ASSUME NEW L, NEW W, NEW S, Counts(L, W, S), Told(L, W), NEW M, NEW V,
           NEW c \in Customers, NEW p \in Products, NEW i,
           Put(L, W, M, V, S, c, p, i)
    PROVE  Counts(M, V, S)
<1>1. \A d \in Customers, q \in Products : d # c \/ q # p => V[d][q] = W[d][q]
    BY DEF Put
<1>2. \A j \in DOMAIN M : j # i =>
          /\ j \in DOMAIN L /\ M[j] = L[j]
          /\ <<c, p>> \in S \/ L[j].owner # c \/ L[j].product # p
    BY DEF Put, For
<1>3. ASSUME NEW j \in DOMAIN M, NEW k \in DOMAIN M, M[j].owner = M[k].owner,
             M[j].product = M[k].product, <<M[j].owner, M[j].product>> \notin S
      PROVE  j = k
    <2>1. M[i].owner = c /\ M[i].product = p
        BY DEF Put
    <2>2. CASE j = i \/ k = i
        BY <1>2, <1>3, <2>1, <2>2
    <2>3. CASE j # i /\ k # i
        BY <1>2, <1>3, <2>3 DEF Counts
    <2> QED BY <2>2, <2>3
<1>4. ASSUME NEW j \in DOMAIN M, <<M[j].owner, M[j].product>> \notin S
      PROVE  M[j].qty = V[M[j].owner][M[j].product]
    <2>1. CASE j = i
        BY <1>4, <2>1 DEF Put
    <2>2. CASE j # i
        <3>1. /\ j \in DOMAIN L /\ M[j] = L[j]
              /\ L[j].owner # c \/ L[j].product # p
              /\ L[j].owner \in Customers /\ L[j].product \in Products
              /\ L[j].qty = W[L[j].owner][L[j].product]
            <4>1. /\ j \in DOMAIN L /\ M[j] = L[j]
                  /\ <<c, p>> \in S \/ L[j].owner # c \/ L[j].product # p
                BY <1>2, <2>2
            <4> QED BY <1>4, <4>1 DEF Counts, Told
        <3> QED BY <1>1, <3>1
    <2> QED BY <2>1, <2>2
<1>5. ASSUME NEW d \in Customers, NEW q \in Products, <<d, q>> \notin S,
             For(M, d, q) = {}
      PROVE  V[d][q] = 0
    <2>1. d # c \/ q # p
        BY <1>5 DEF For, Put
    <2>2. For(L, d, q) = {}
        <3>1. \A j \in DOMAIN L : j \in DOMAIN M /\ (j # i => M[j] = L[j])
            BY DEF Put
        <3>2. i \in DOMAIN L => L[i].owner = c /\ L[i].product = p
            BY DEF Put, For
        <3> QED BY <1>5, <2>1, <3>1, <3>2 DEF For
    <2> QED BY <1>1, <1>5, <2>1, <2>2 DEF Counts
<1>6. /\ \A j, k \in DOMAIN M :
            /\ M[j].owner = M[k].owner /\ M[j].product = M[k].product
            /\ <<M[j].owner, M[j].product>> \notin S
            => j = k
      /\ \A j \in DOMAIN M : <<M[j].owner, M[j].product>> \notin S =>
            M[j].qty = V[M[j].owner][M[j].product]
    BY <1>3, <1>4
<1>7. \A d \in Customers, q \in Products :
          <<d, q>> \notin S /\ For(M, d, q) = {} => V[d][q] = 0
    BY <1>5
<1> QED BY <1>6, <1>7 DEF Counts

\* From cart L to M rows ids go, and V tells nothing of their products. Pairs
\* leave S for T when none of their rows is left.
Cut(L, W, M, V, S, T, ids) ==
    /\ DOMAIN M = DOMAIN L \ ids
    /\ \A j \in DOMAIN M : M[j] = L[j]
    /\ \A d \in Customers, q \in Products :
          /\ <<d, q>> \notin S =>
                V[d][q] = IF For(L, d, q) \cap ids = {} THEN W[d][q] ELSE 0
          /\ <<d, q>> \in S \ T => For(M, d, q) = {} /\ V[d][q] = 0

LEMMA CountsCut ==
    ASSUME NEW L, NEW W, NEW S, Counts(L, W, S), Told(L, W), NEW M, NEW V, NEW T,
           NEW ids, Cut(L, W, M, V, S, T, ids)
    PROVE  Counts(M, V, T)
<1>1. ASSUME NEW j \in DOMAIN M, <<M[j].owner, M[j].product>> \notin T
      PROVE  /\ j \in DOMAIN L /\ j \notin ids /\ M[j] = L[j]
             /\ L[j].owner \in Customers /\ L[j].product \in Products
             /\ <<L[j].owner, L[j].product>> \notin S
    <2>1. /\ j \in DOMAIN L /\ j \notin ids /\ M[j] = L[j]
          /\ L[j].owner \in Customers /\ L[j].product \in Products
        BY DEF Cut, Told
    <2>2. j \in For(M, L[j].owner, L[j].product)
        BY <2>1 DEF For
    <2> QED BY <1>1, <2>1, <2>2 DEF Cut
<1>2. ASSUME NEW j \in DOMAIN M, NEW k \in DOMAIN M, M[j].owner = M[k].owner,
             M[j].product = M[k].product, <<M[j].owner, M[j].product>> \notin T
      PROVE  j = k
    <2>1. <<M[k].owner, M[k].product>> \notin T
        BY <1>2
    <2> QED BY <1>1, <1>2, <2>1 DEF Counts
<1>3. ASSUME NEW j \in DOMAIN M, <<M[j].owner, M[j].product>> \notin T
      PROVE  M[j].qty = V[M[j].owner][M[j].product]
    <2> DEFINE d == L[j].owner
               q == L[j].product
    <2>1. /\ j \in DOMAIN L /\ j \notin ids /\ M[j] = L[j]
          /\ d \in Customers /\ q \in Products /\ <<d, q>> \notin S
        BY <1>1, <1>3
    <2>2. For(L, d, q) \subseteq {j}
        BY <2>1 DEF Counts, For
    <2>3. V[d][q] = W[d][q]
        <3>1. For(L, d, q) \cap ids = {}
            BY <2>1, <2>2
        <3> QED BY <2>1, <3>1 DEF Cut
    <2> QED BY <2>1, <2>3 DEF Counts
<1>4. ASSUME NEW d \in Customers, NEW q \in Products, <<d, q>> \notin T,
             For(M, d, q) = {}
      PROVE  V[d][q] = 0
    <2>1. CASE <<d, q>> \in S
        BY <1>4, <2>1 DEF Cut
    <2>2. CASE <<d, q>> \notin S /\ For(L, d, q) \cap ids = {}
        <3>1. For(L, d, q) = {}
            BY <1>4, <2>2 DEF For, Cut
        <3> QED BY <2>2, <3>1 DEF Counts, Cut
    <2>3. CASE <<d, q>> \notin S /\ For(L, d, q) \cap ids # {}
        BY <2>3 DEF Cut
    <2> QED BY <2>1, <2>2, <2>3
<1>6. /\ \A j, k \in DOMAIN M :
            /\ M[j].owner = M[k].owner /\ M[j].product = M[k].product
            /\ <<M[j].owner, M[j].product>> \notin T
            => j = k
      /\ \A j \in DOMAIN M : <<M[j].owner, M[j].product>> \notin T =>
            M[j].qty = V[M[j].owner][M[j].product]
    BY <1>2, <1>3
<1>7. \A d \in Customers, q \in Products :
          <<d, q>> \notin T /\ For(M, d, q) = {} => V[d][q] = 0
    BY <1>4
<1> QED BY <1>6, <1>7 DEF Counts

-----------------------------------------------------------------------------
(* What requests hold.                                                     *)

\* L and M differ in rows of customer c only.
SameBut(L, M, c) ==
    /\ \A i \in DOMAIN L : L[i].owner # c => i \in DOMAIN M /\ M[i] = L[i]
    /\ \A i \in DOMAIN M : M[i].owner # c => i \in DOMAIN L /\ L[i] = M[i]

\* What is written in one customer's cart, another's request does not hold.
LEMMA OtherFits ==
    ASSUME NEW t, NEW c, NEW L, NEW M, SameBut(L, M, c), t.customer # c,
           NEW S, NEW T, \A d, q : d # c /\ <<d, q>> \in S => <<d, q>> \in T,
           t.step \in EditSteps => t.row.owner = t.customer,
           Fits(t, L, S)
    PROVE  Fits(t, M, T)
<1> DEFINE d == t.customer
<1>1. Owned(M, d) = Owned(L, d) /\ \A i \in Owned(L, d) : M[i] = L[i]
    BY DEF Owned, SameBut
<1>2. For(M, d, t.product) = For(L, d, t.product)
    BY DEF For, SameBut
<1>3. [i \in Owned(M, d) |-> M[i]] = [i \in Owned(L, d) |-> L[i]]
    BY <1>1
<1>4. t.step \in EditSteps => t.id \in DOMAIN M /\ t.row = M[t.id]
    BY DEF Fits, SameBut
<1> QED BY <1>2, <1>3, <1>4 DEF Fits

LEMMA IdleFits == \A L, S, O : Fits(Idle, L, S) /\ FromCart(Idle, O)
BY DEF Fits, FromCart, Idle, EditSteps, PaySteps

\* Pairs of other customers than c that were split still are.
SplitKept(c) == \A d, q : d # c /\ <<d, q>> \in split => <<d, q>> \in split'

\* A request that writes in its customer's cart ends.
LEMMA WriteFits ==
    ASSUME IInv, ApartCart, NEW c, SameBut(lines, lines', c), SplitKept(c),
           \A v \in Workers :
               task'[v] = Idle \/ (task'[v] = task[v] /\ task[v].customer # c),
           DOMAIN orders' = DOMAIN orders,
           \A n \in DOMAIN orders : orders'[n].items = orders[n].items
    PROVE  \A v \in Workers : Fits(task'[v], lines', split') /\ FromCart(task'[v], orders')
<1>1. ASSUME NEW v \in Workers, task'[v] = task[v], task[v].customer # c
      PROVE  Fits(task[v], lines', split') /\ FromCart(task[v], orders')
    <2>1. Fits(task[v], lines, split) /\ FromCart(task[v], orders)
        BY DEF ApartCart
    <2>2. task[v].step \in EditSteps => task[v].row.owner = task[v].customer
        BY DEF IInv, EditInv
    <2>3. Fits(task[v], lines', split')
        BY <1>1, <2>1, <2>2, OtherFits DEF SplitKept
    <2>4. task[v].step \in PaySteps => task[v].order \in DOMAIN orders
        BY DEF IInv, PayInv
    <2>5. FromCart(task[v], orders')
        BY <2>1, <2>4 DEF FromCart
    <2> QED BY <2>3, <2>5
<1>2. ASSUME NEW v \in Workers, task'[v] = Idle
      PROVE  Fits(task'[v], lines', split') /\ FromCart(task'[v], orders')
    BY <1>2, IdleFits
<1> QED BY <1>1, <1>2

\* A request goes on to t while tables rest; a pair may turn out split.
LEMMA MoveFits ==
    ASSUME IInv, ApartCart, NEW w \in Workers, NEW t, Goto(w, t), Lone(task'),
           UNCHANGED <<lines, lastId, orders, wanted>>, split \subseteq split',
           Fits(t, lines, split'), FromCart(t, orders)
    PROVE  ApartCart'
<1>1. \A v \in Workers : task'[v] = IF v = w THEN t ELSE task[v]
    BY DEF IInv, Types, Goto
<1>2. ASSUME NEW v \in Workers
      PROVE  Fits(task'[v], lines, split') /\ FromCart(task'[v], orders)
    <2>1. Fits(task[v], lines, split) /\ FromCart(task[v], orders)
        BY DEF ApartCart
    <2>2. Fits(task[v], lines, split')
        BY <2>1 DEF Fits
    <2> QED BY <1>1, <2>1, <2>2
<1>3. Counts(lines, wanted, split) /\ Spent(orders, lines, lastId) /\ OrderedOnce
    BY DEF ApartCart
<1>4. Counts(lines, wanted, split')
    BY <1>3 DEF Counts
<1>5. OrderedOnce'
    BY <1>3 DEF OrderedOnce
<1> QED BY <1>2, <1>3, <1>4, <1>5 DEF ApartCart

\* Who ends a request was the only one to serve its customer.
LEMMA OthersApart ==
    ASSUME IInv, Lone(task), NEW w \in Workers, Finish(w), task[w].customer \in Customers
    PROVE  \A v \in Workers :
               task'[v] = Idle \/ (task'[v] = task[v] /\ task[v].customer # task[w].customer)
BY DEF IInv, Types, Finish, Goto, Lone

LEMMA CartIs ==
    /\ \A c : Cart(c) = Owned(lines, c)
    /\ \A c, p : LinesFor(c, p) = For(lines, c, p)
BY DEF Cart, Owned, LinesFor, For

\* The steps that read rows, or go on with what was read.
LEMMA EditReadsFit ==
    ASSUME IInv, ApartCart, Lone(task'), NEW w \in Workers
    PROVE  /\ \A c \in Customers, p \in Products, q \in 1..MaxQty :
                 AddCheck(w, c, p, q) => ApartCart'
           /\ AddFind(w) => ApartCart'
           /\ \A c \in Customers, i \in LineIds, q \in 1..MaxQty :
                 UpdateRead(w, c, i, q) => ApartCart'
           /\ \A c \in Customers, i \in LineIds : RemoveRead(w, c, i) => ApartCart'
<1>1. ASSUME NEW c \in Customers, NEW p \in Products, NEW q \in 1..MaxQty,
             AddCheck(w, c, p, q)
      PROVE  ApartCart'
    <2> DEFINE t == [step |-> "findline", customer |-> c, product |-> p, qty |-> q]
    <2>1. Goto(w, t) /\ UNCHANGED <<lines, lastId, orders, wanted>>
        BY <1>1 DEF AddCheck
    <2>2. t.step = "findline"
        OBVIOUS
    <2>4. split' = split
        BY <1>1 DEF AddCheck
    <2> HIDE DEF t
    <2>3. Fits(t, lines, split') /\ FromCart(t, orders)
        BY <2>2 DEF Fits, FromCart, EditSteps, PaySteps
    <2> QED BY <2>1, <2>3, <2>4, MoveFits
<1>2. ASSUME AddFind(w) PROVE ApartCart'
    <2> DEFINE t == task[w]
               found == LinesFor(t.customer, t.product)
               insert == [t EXCEPT !.step = "insertline"]
               save == [step |-> "addsave", customer |-> t.customer, id |-> Min(found),
                        row |-> lines[Min(found)], qty |-> t.qty]
    <2>1. t \in AddTask /\ UNCHANGED <<lines, lastId, orders, wanted>>
        BY <1>2, TaskOfStep DEF AddFind, At, IInv, Types
    <2>4. \/ /\ Goto(w, insert) /\ split \subseteq split'
             /\ found = {} \/ <<t.customer, t.product>> \in split'
          \/ found # {} /\ Goto(w, save) /\ split' = split
        BY <1>2 DEF AddFind
    <2>2. CASE /\ Goto(w, insert) /\ split \subseteq split'
               /\ found = {} \/ <<t.customer, t.product>> \in split'
        <3>1. /\ insert.step = "insertline" /\ insert.customer = t.customer
              /\ insert.product = t.product
            BY <2>1 DEF AddTask
        <3> HIDE DEF insert
        <3>3. Fits(insert, lines, split') /\ FromCart(insert, orders)
            BY <2>2, <3>1, CartIs DEF Fits, FromCart, EditSteps, PaySteps
        <3> QED BY <2>1, <2>2, <3>3, MoveFits
    <2>3. CASE found # {} /\ Goto(w, save) /\ split' = split
        <3>1. Min(found) \in DOMAIN lines
            BY <2>3, MinOfRows DEF LinesFor, Cart
        <3>2. save.step = "addsave" /\ save.id \in DOMAIN lines /\ save.row = lines[save.id]
            BY <3>1
        <3> HIDE DEF save
        <3>4. Fits(save, lines, split') /\ FromCart(save, orders)
            BY <3>2 DEF Fits, FromCart, EditSteps, PaySteps
        <3> QED BY <2>1, <2>3, <3>4, MoveFits
    <2> QED BY <2>2, <2>3, <2>4
<1>3. ASSUME NEW c \in Customers, NEW i, NEW s \in {"qtysave", "delete"},
             NEW q, i \in Cart(c),
             Goto(w, [step |-> s, customer |-> c, id |-> i, row |-> lines[i], qty |-> q]),
             UNCHANGED <<lines, lastId, orders, wanted, split>>
      PROVE  ApartCart'
    <2> DEFINE t == [step |-> s, customer |-> c, id |-> i, row |-> lines[i], qty |-> q]
    <2>1. t.step = s /\ t.id \in DOMAIN lines /\ t.row = lines[t.id]
        BY <1>3 DEF Cart
    <2>2. Goto(w, t)
        BY <1>3
    <2> HIDE DEF t
    <2>3. Fits(t, lines, split) /\ FromCart(t, orders)
        BY <2>1 DEF Fits, FromCart, EditSteps, PaySteps
    <2> QED BY <1>3, <2>2, <2>3, MoveFits
<1>4. ASSUME NEW c \in Customers, NEW i \in LineIds, NEW q \in 1..MaxQty, UpdateRead(w, c, i, q)
      PROVE  ApartCart'
    BY <1>3, <1>4 DEF UpdateRead
<1>5. ASSUME NEW c \in Customers, NEW i \in LineIds, RemoveRead(w, c, i)
      PROVE  ApartCart'
    BY <1>3, <1>5 DEF RemoveRead
<1> QED BY <1>1, <1>2, <1>4, <1>5

LEMMA OrderReadsFit ==
    ASSUME IInv, ApartCart, Lone(task'), NEW w \in Workers,
           \/ \E c \in Customers, m \in Methods : CheckoutRead(w, c, m)
           \/ BuildLine(w) \/ BuildDone(w) \/ PaymentUrl(w) \/ RequestFails(w)
    PROVE  ApartCart'
<1> DEFINE t == task[w]
<1>1. t \in Task /\ Fits(t, lines, split) /\ FromCart(t, orders)
    BY DEF IInv, Types, ApartCart
<1>2. UNCHANGED <<lines, lastId, orders, wanted, split>>
    BY DEF CheckoutRead, BuildLine, BuildDone, PaymentUrl, RequestFails
<1>3. ASSUME NEW c \in Customers, NEW m \in Methods, CheckoutRead(w, c, m)
      PROVE  ApartCart'
    <2> DEFINE n == [step |-> "build", customer |-> c, method |-> m,
                     todo |-> {[id |-> i, row |-> lines[i]] : i \in Cart(c)},
                     seen |-> [i \in Cart(c) |-> lines[i]],
                     items |-> {}, subtotal |-> 0]
    <2>1. Goto(w, n)
        BY <1>3 DEF CheckoutRead
    <2>2. /\ n.step = "build" /\ n.customer = c /\ n.items = {}
          /\ n.seen = [i \in Cart(c) |-> lines[i]]
          /\ \A l \in n.todo : l.id \in Cart(c)
        OBVIOUS
    <2> HIDE DEF n
    <2>3. Fits(n, lines, split)
        <3>1. n.seen = [i \in Owned(lines, c) |-> lines[i]]
            BY <2>2, CartIs
        <3> QED BY <2>2, <3>1 DEF Fits, EditSteps, PaySteps
    <2>4. FromCart(n, orders)
        BY <2>2 DEF FromCart, PaySteps
    <2> QED BY <1>2, <2>1, <2>3, <2>4, MoveFits
<1>4. CASE BuildLine(w)
    <2> DEFINE row == CHOOSE l \in t.todo : \A k \in t.todo : l.id <= k.id
               rest == [t EXCEPT !.todo = @ \ {row}]
               item == [line |-> row.id, owner |-> row.row.owner,
                        product |-> row.row.product,
                        price |-> price[row.row.product], qty |-> row.row.qty]
               more == [rest EXCEPT !.items = @ \cup {item},
                                    !.subtotal = @ + price[row.row.product] * row.row.qty]
    <2>1. t \in BuildTask /\ t.step = "build" /\ BuildOK(t) /\ t.todo # {}
        BY <1>1, <1>4, TaskOfStep DEF BuildLine, At, IInv, OrderingInv, OrderingOK
    <2>2. Goto(w, rest) \/ Goto(w, more)
        BY <1>4 DEF BuildLine
    <2>3. row \in t.todo
        <3>1. {l.id : l \in t.todo} \in SUBSET Nat /\ {l.id : l \in t.todo} # {}
            <4>1. t.todo \in SUBSET [id: LineIds, row: Line] /\ t.todo # {}
                BY <2>1 DEF BuildTask
            <4> HIDE DEF t
            <4>2. \A l \in t.todo : l.id \in Nat
                BY <4>1 DEF LineIds
            <4> QED BY <4>1, <4>2
        <3>2. PICK n \in {l.id : l \in t.todo} : \A k \in {l.id : l \in t.todo} : n <= k
            BY <3>1, LeastNat
        <3>3. \E l \in t.todo : \A k \in t.todo : l.id <= k.id
            BY <3>2
        <3> QED BY <3>3
    <2> HIDE DEF row
    <2>4. /\ rest.step = "build" /\ rest.customer = t.customer /\ rest.seen = t.seen
          /\ rest.items = t.items /\ rest.todo \subseteq t.todo
        BY <2>1 DEF BuildTask
    <2>5. item.line = row.id
        OBVIOUS
    <2> HIDE DEF item
    <2>6. /\ more.step = "build" /\ more.customer = t.customer /\ more.seen = t.seen
          /\ more.items = t.items \cup {item} /\ more.todo \subseteq t.todo
        BY <2>1 DEF BuildTask
    <2> HIDE DEF rest, more
    <2>7. Fits(rest, lines, split) /\ Fits(more, lines, split)
        BY <1>1, <2>1, <2>4, <2>6 DEF Fits, EditSteps, PaySteps
    <2>8. FromCart(rest, orders)
        BY <1>1, <2>1, <2>4 DEF FromCart, PaySteps
    <2>9. FromCart(more, orders)
        BY <1>1, <2>1, <2>3, <2>5, <2>6 DEF FromCart, PaySteps
    <2> QED BY <1>2, <2>2, <2>7, <2>8, <2>9, MoveFits
<1>5. CASE BuildDone(w)
    <2> DEFINE create == [step |-> "create", customer |-> t.customer, method |-> t.method,
                          seen |-> t.seen, items |-> t.items, fee |-> fee,
                          total |-> t.subtotal + fee]
    <2>1. t.step = "build" /\ (Goto(w, Idle) \/ Goto(w, create))
        BY <1>5 DEF BuildDone, Finish, At
    <2>2. /\ create.step = "create" /\ create.customer = t.customer
          /\ create.seen = t.seen /\ create.items = t.items
        OBVIOUS
    <2> HIDE DEF create
    <2>3. Fits(create, lines, split)
        BY <1>1, <2>1, <2>2 DEF Fits, EditSteps, PaySteps
    <2>4. FromCart(create, orders)
        BY <1>1, <2>1, <2>2 DEF FromCart, PaySteps
    <2> QED BY <1>2, <2>1, <2>3, <2>4, IdleFits, MoveFits
<1>6. CASE PaymentUrl(w)
    <2> DEFINE n == [t EXCEPT !.step = "clear"]
    <2>1. t \in PayTask /\ t.step = "payurl" /\ (Goto(w, Idle) \/ Goto(w, n))
        BY <1>1, <1>6, TaskOfStep DEF PaymentUrl, Finish, At, PaySteps
    <2>2. /\ n.step = "clear" /\ n.customer = t.customer /\ n.seen = t.seen
          /\ n.order = t.order
        BY <2>1 DEF PayTask
    <2> HIDE DEF n
    <2>3. Fits(n, lines, split)
        BY <1>1, <2>1, <2>2 DEF Fits, EditSteps, PaySteps
    <2>4. FromCart(n, orders)
        BY <1>1, <2>1, <2>2 DEF FromCart, PaySteps
    <2> QED BY <1>2, <2>1, <2>3, <2>4, IdleFits, MoveFits
<1>7. CASE RequestFails(w)
    BY <1>2, <1>7, IdleFits, MoveFits DEF RequestFails, Finish
<1> QED BY <1>3, <1>4, <1>5, <1>6, <1>7

\* The order that is stored is made of rows of the cart that was read.
LEMMA CreateFits ==
    ASSUME IInv, ApartCart, Lone(task'), NEW w \in Workers, CreateOrder(w)
    PROVE  ApartCart'
<1> DEFINE t == task[w]
           o == [owner |-> t.customer, items |-> t.items, fee |-> t.fee,
                 total |-> t.total, cleared |-> FALSE]
           pay == [step |-> IF t.method = "cash" THEN "clear" ELSE "payurl",
                   customer |-> t.customer, seen |-> t.seen, order |-> Len(orders) + 1]
<1>1. /\ t \in CreateTask /\ t.step = "create" /\ task \in [Workers -> Task]
      /\ UNCHANGED <<lines, lastId, wanted, split>>
      /\ orders' = Append(orders, o) /\ orders \in Seq(Order)
      /\ task' = [task EXCEPT ![w] = pay]
    BY TaskOfStep DEF CreateOrder, Goto, At, IInv, Types, TypeOK
<1>2. Fits(t, lines, split) /\ FromCart(t, orders)
    BY DEF ApartCart
<1>3. o.items = t.items /\ ~o.cleared
    OBVIOUS
<1>4. o \in Order
    BY <1>1 DEF Order, CreateTask
<1> HIDE DEF o
<1>5. /\ orders'[Len(orders) + 1] = o
      /\ \A n \in DOMAIN orders : orders'[n] = orders[n]
      /\ DOMAIN orders' = DOMAIN orders \cup {Len(orders) + 1}
      /\ Len(orders) + 1 \notin DOMAIN orders
    <2>1. /\ \A n \in 1..Len(orders) : orders'[n] = orders[n]
          /\ orders'[Len(orders) + 1] = o
          /\ DOMAIN orders = 1..Len(orders) /\ DOMAIN orders' = 1..(Len(orders) + 1)
          /\ Len(orders) \in Nat
        BY <1>1, <1>4, AppendProperties, LenProperties
    <2> QED BY <2>1
<1>6. /\ pay.step \in PaySteps /\ pay.customer = t.customer /\ pay.seen = t.seen
      /\ pay.order = Len(orders) + 1
    BY DEF PaySteps
<1> HIDE DEF pay
<1>7. \A v \in Workers : task'[v] = IF v = w THEN pay ELSE task[v]
    BY <1>1
<1>8. Fits(pay, lines, split)
    BY <1>1, <1>2, <1>6 DEF Fits, EditSteps, PaySteps
<1>15. Len(orders) \in Nat /\ DOMAIN orders = 1..Len(orders)
    BY <1>1, LenProperties
<1>9. FromCart(pay, orders')
    <2>1. \A x \in orders'[pay.order].items : x.line \in DOMAIN pay.seen
        BY <1>1, <1>2, <1>3, <1>5, <1>6 DEF FromCart
    <2>2. \A n \in DOMAIN orders' : ~(pay.order < n)
        BY <1>5, <1>6, <1>15
    <2> QED BY <1>6, <2>1, <2>2 DEF FromCart, PaySteps
<1>16. \A x \in o.items : x.line \in Owned(lines, t.customer)
    BY <1>1, <1>2, <1>3 DEF FromCart, Fits
<1>10. ASSUME NEW v \in Workers, v # w
       PROVE  Fits(task[v], lines, split) /\ FromCart(task[v], orders')
    <2>1. Fits(task[v], lines, split) /\ FromCart(task[v], orders)
        BY DEF ApartCart
    <2>2. CASE task[v].step \in PaySteps
        <3> DEFINE m == task[v].order
        <3>1. m \in DOMAIN orders /\ orders'[m] = orders[m]
            BY <1>5, <2>2 DEF IInv, PayInv
        <3>2. t.customer \in Customers /\ task[v].customer # t.customer
            <4>1. t.customer \in Customers
                BY <1>1 DEF CreateTask
            <4> QED BY <1>10, <4>1 DEF ApartCart, Lone
        <3>3. \A x \in orders[m].items, y \in o.items : x.line # y.line
            <4>1. \A x \in orders[m].items : x.line \in Owned(lines, task[v].customer)
                BY <2>1, <2>2 DEF FromCart, Fits
            <4> QED BY <1>16, <3>2, <4>1 DEF Owned
        <3>4. ASSUME NEW n \in DOMAIN orders', m < n
              PROVE  \A x \in orders[m].items, y \in orders'[n].items : x.line # y.line
            <4>1. CASE n \in DOMAIN orders
                BY <1>5, <2>1, <2>2, <3>4, <4>1 DEF FromCart
            <4>2. CASE n = Len(orders) + 1
                BY <1>5, <3>3, <4>2
            <4> QED BY <1>5, <4>1, <4>2
        <3>5. \A x \in orders[m].items : x.line \in DOMAIN task[v].seen
            BY <2>1, <2>2 DEF FromCart
        <3> QED BY <2>1, <2>2, <3>1, <3>4, <3>5 DEF FromCart, PaySteps
    <2>3. CASE task[v].step \notin PaySteps
        BY <2>1, <2>3 DEF FromCart
    <2> QED BY <2>1, <2>2, <2>3
<1>11. \A v \in Workers : Fits(task'[v], lines', split') /\ FromCart(task'[v], orders')
    <2>1. lines' = lines /\ split' = split
        BY <1>1
    <2>2. ASSUME NEW v \in Workers
          PROVE  Fits(task'[v], lines, split) /\ FromCart(task'[v], orders')
        BY <1>7, <1>8, <1>9, <1>10
    <2> QED BY <2>1, <2>2
<1>12. \A n \in DOMAIN orders' : orders'[n].cleared => n \in DOMAIN orders
    BY <1>3, <1>5
<1>13. Spent(orders', lines', lastId')
    BY <1>1, <1>5, <1>12 DEF ApartCart, Spent
<1>14. OrderedOnce'
    <2>1. ASSUME NEW m \in DOMAIN orders', NEW n \in DOMAIN orders', m < n,
                 orders'[m].cleared
          PROVE  \A x \in orders'[m].items, y \in orders'[n].items : x.line # y.line
        <3>1. m \in DOMAIN orders /\ orders'[m] = orders[m]
            BY <1>5, <1>12, <2>1
        <3>2. CASE n \in DOMAIN orders
            BY <1>5, <2>1, <3>1, <3>2 DEF ApartCart, OrderedOnce
        <3>3. CASE n = Len(orders) + 1
            <4>1. \A x \in orders[m].items : x.line \notin DOMAIN lines
                BY <2>1, <3>1 DEF ApartCart, Spent
            <4> QED BY <1>5, <1>16, <3>1, <3>3, <4>1 DEF Owned
        <3> QED BY <1>5, <3>2, <3>3
    <2> QED BY <2>1 DEF OrderedOnce
<1> QED BY <1>1, <1>11, <1>13, <1>14 DEF ApartCart

\* Saving a row that was read changes its quantity, and no other row.
LEMMA SaveFits ==
    ASSUME IInv, ApartCart, Lone(task'), NEW w \in Workers, task[w].step \in EditSteps,
           NEW n \in Nat, SaveLine(task[w].id, [task[w].row EXCEPT !.qty = n]),
           NEW m \in Nat, Want(task[w].customer, task[w].row.product, m),
           m = n \/ <<task[w].customer, task[w].row.product>> \in split,
           Finish(w), UNCHANGED <<lastId, orders, split>>
    PROVE  ApartCart'
<1> DEFINE t == task[w]
           i == t.id
           c == t.customer
           p == t.row.product
           row == [t.row EXCEPT !.qty = n]
<1>1. t \in EditTask /\ c \in Customers /\ p \in Products /\ t.row \in Line
    <2>1. t \in EditTask
        BY TaskOfStep DEF IInv, Types
    <2> QED BY <2>1 DEF EditTask, Line
<1>2. i \in DOMAIN lines /\ t.row = lines[i] /\ lines[i].owner = c
    BY DEF ApartCart, Fits, IInv, EditInv
<1>3. row.owner = c /\ row.product = p /\ row.qty = n
    BY <1>1, <1>2 DEF Line
<1>4. lines' = [j \in DOMAIN lines |-> IF j = i THEN row ELSE lines[j]]
    BY <1>2 DEF SaveLine
<1> HIDE DEF row
<1>5. /\ DOMAIN lines' = DOMAIN lines /\ lines'[i] = row
      /\ \A j \in DOMAIN lines : j # i => lines'[j] = lines[j]
    BY <1>2, <1>4
<1>6. wanted' = [wanted EXCEPT ![c][p] = m] /\ (m = n \/ <<c, p>> \in split)
    BY DEF Want
<1>7. Counts(lines', wanted', split')
    <2>1. Counts(lines, wanted, split) /\ Told(lines, wanted) /\ split' = split
        BY TablesTold DEF ApartCart
    <2>2. /\ i \in For(lines, c, p)
          /\ <<c, p>> \notin split => For(lines, c, p) \subseteq {i}
        BY <1>2, <2>1 DEF Counts, For
    <2>3. /\ wanted'[c][p] = m
          /\ \A d \in Customers, q \in Products :
                d # c \/ q # p => wanted'[d][q] = wanted[d][q]
        BY <1>1, <1>6, <2>1 DEF Told
    <2> HIDE DEF t, i, c, p
    <2>4. Put(lines, wanted, lines', wanted', split, c, p, i)
        BY <1>2, <1>3, <1>5, <1>6, <2>2, <2>3 DEF Put
    <2> QED BY <1>1, <2>1, <2>4, CountsPut
<1>8. SameBut(lines, lines', c)
    BY <1>2, <1>3, <1>5 DEF SameBut
<1>9. \A v \in Workers : task'[v] = Idle \/ (task'[v] = task[v] /\ task[v].customer # c)
    BY <1>1, OthersApart DEF ApartCart
<1>10. \A v \in Workers : Fits(task'[v], lines', split') /\ FromCart(task'[v], orders')
    BY <1>8, <1>9, WriteFits DEF SplitKept
<1>11. Spent(orders', lines', lastId') /\ OrderedOnce'
    BY <1>5 DEF ApartCart, Spent, OrderedOnce
<1> QED BY <1>7, <1>10, <1>11 DEF ApartCart

LEMMA EditWritesFit ==
    ASSUME IInv, ApartCart, Lone(task'), NEW w \in Workers, AddSave(w) \/ QtySave(w)
    PROVE  ApartCart'
<1> DEFINE t == task[w]
           p == t.row.product
<1>1. /\ t.step \in EditSteps /\ t \in EditTask
      /\ Finish(w) /\ UNCHANGED <<lastId, orders, split>>
    BY TaskOfStep DEF AddSave, QtySave, At, EditSteps, IInv, Types
<1>2. t.qty \in Nat /\ t.row \in Line
    BY <1>1 DEF EditTask
<1>3. CASE QtySave(w)
    BY <1>1, <1>2, <1>3, SaveFits DEF QtySave
<1>4. CASE AddSave(w)
    <2>1. wanted[t.customer][p] = t.row.qty \/ <<t.customer, p>> \in split
        <3>1. t.id \in DOMAIN lines /\ t.row = lines[t.id] /\ t.row.owner = t.customer
            BY <1>1 DEF ApartCart, Fits, IInv, EditInv
        <3> QED BY <3>1 DEF ApartCart, Counts
    <2> DEFINE n == t.row.qty + t.qty
               m == wanted[t.customer][p] + t.qty
    <2>2. n \in Nat /\ m \in Nat
        <3>1. t.customer \in Customers /\ p \in Products
            BY <1>1, <1>2 DEF EditTask, Line
        <3>2. wanted[t.customer][p] \in Nat
            BY <3>1 DEF IInv, Types, TypeOK
        <3> QED BY <1>2, <3>2 DEF Line
    <2>5. m = n \/ <<t.customer, p>> \in split
        BY <2>1
    <2>3. [t.row EXCEPT !.qty = @ + t.qty] = [t.row EXCEPT !.qty = n]
        BY <1>2 DEF Line
    <2>4. SaveLine(t.id, [t.row EXCEPT !.qty = n]) /\ Want(t.customer, p, m)
        BY <1>4, <2>3 DEF AddSave
    <2> HIDE DEF n, m
    <2> QED BY <1>1, <2>2, <2>4, <2>5, SaveFits
<1> QED BY <1>3, <1>4

\* A new row takes an id that was never used, for a product of which the
\* customer still has none, or whose row was not found.
LEMMA InsertFits ==
    ASSUME IInv, ApartCart, Lone(task'), NEW w \in Workers, AddInsert(w)
    PROVE  ApartCart'
<1> DEFINE t == task[w]
           i == lastId + 1
           c == t.customer
           p == t.product
           row == [owner |-> c, product |-> p, qty |-> t.qty]
<1>1. t \in AddTask /\ c \in Customers /\ p \in Products /\ t.qty \in Nat
    <2>1. t \in AddTask
        BY TaskOfStep DEF AddInsert, At, IInv, Types
    <2> QED BY <2>1 DEF AddTask
<1>2. /\ lastId \in Nat /\ lastId' = lastId + 1 /\ i \notin DOMAIN lines
      /\ \A j \in DOMAIN lines : j <= lastId
    BY DEF AddInsert, IInv, Types, TypeOK
<1>3. For(lines, c, p) = {} \/ <<c, p>> \in split
    BY DEF AddInsert, At, ApartCart, Fits
<1>4. row.owner = c /\ row.product = p /\ row.qty = t.qty
    OBVIOUS
<1>5. lines' = [j \in DOMAIN lines \cup {i} |-> IF j = i THEN row ELSE lines[j]]
    BY DEF AddInsert, SaveLine
<1> HIDE DEF row
<1>6. /\ DOMAIN lines' = DOMAIN lines \cup {i} /\ lines'[i] = row
      /\ \A j \in DOMAIN lines : j # i => lines'[j] = lines[j]
    BY <1>5
<1> DEFINE n == wanted[c][p] + t.qty
<1>7. wanted' = [wanted EXCEPT ![c][p] = n] /\ Finish(w) /\ orders' = orders /\ split' = split
    BY DEF AddInsert, Want
<1>8. n = t.qty \/ <<c, p>> \in split
    BY <1>1, <1>3 DEF ApartCart, Counts
<1>9. Counts(lines', wanted', split')
    <2>1. Counts(lines, wanted, split) /\ Told(lines, wanted) /\ split' = split
        BY <1>7, TablesTold DEF ApartCart
    <2>2. /\ wanted'[c][p] = n
          /\ \A d \in Customers, q \in Products :
                d # c \/ q # p => wanted'[d][q] = wanted[d][q]
        BY <1>1, <1>7, <2>1 DEF Told
    <2>3. /\ lines'[i].owner = c /\ lines'[i].product = p
          /\ lines'[i].qty = n \/ <<c, p>> \in split
        BY <1>4, <1>6, <1>8
    <2> HIDE DEF t, i, c, p, n
    <2>4. Put(lines, wanted, lines', wanted', split, c, p, i)
        BY <1>2, <1>3, <1>6, <2>2, <2>3 DEF Put
    <2> QED BY <1>1, <2>1, <2>4, CountsPut
<1> HIDE DEF n
<1>10. SameBut(lines, lines', c)
    BY <1>2, <1>4, <1>6 DEF SameBut
<1>11. \A v \in Workers : task'[v] = Idle \/ (task'[v] = task[v] /\ task[v].customer # c)
    BY <1>1, <1>7, OthersApart DEF ApartCart
<1>12. \A v \in Workers : Fits(task'[v], lines', split') /\ FromCart(task'[v], orders')
    BY <1>7, <1>10, <1>11, WriteFits DEF SplitKept
<1>13. Spent(orders', lines', lastId')
    <2>1. ASSUME NEW m \in DOMAIN orders, orders[m].cleared, NEW x \in orders[m].items
          PROVE  x.line <= lastId' /\ x.line \notin DOMAIN lines'
        <3>1. x.line <= lastId /\ x.line \notin DOMAIN lines
            BY <2>1 DEF ApartCart, Spent
        <3>2. orders[m] \in Order
            BY ElementOfSeq, LenProperties DEF IInv, Types, TypeOK
        <3>3. x.line \in Nat
            BY <2>1, <3>2 DEF Order, Item, LineIds
        <3> QED BY <1>2, <1>6, <3>1, <3>3
    <2> QED BY <1>7, <2>1 DEF Spent
<1>14. OrderedOnce'
    BY <1>7 DEF ApartCart, OrderedOnce
<1> QED BY <1>9, <1>12, <1>13, <1>14 DEF ApartCart

\* Rows of one customer leave the cart, and no other row changes.
LEMMA CutRows ==
    ASSUME IInv, ApartCart, NEW c \in Customers, NEW ids, ids \subseteq Owned(lines, c),
           Delete(ids), lastId' = lastId,
           \A v \in Workers :
               task'[v] = Idle \/ (task'[v] = task[v] /\ task[v].customer # c),
           SplitKept(c), DOMAIN orders' = DOMAIN orders,
           \A n \in DOMAIN orders : orders'[n].items = orders[n].items
    PROVE  /\ DOMAIN lines' = DOMAIN lines \ ids
           /\ \A j \in DOMAIN lines' : lines'[j] = lines[j]
           /\ \A v \in Workers : Fits(task'[v], lines', split') /\ FromCart(task'[v], orders')
<1>1. lines' = [j \in DOMAIN lines \ ids |-> lines[j]]
    BY DEF Delete, Restrict
<1>2. DOMAIN lines' = DOMAIN lines \ ids /\ \A j \in DOMAIN lines' : lines'[j] = lines[j]
    BY <1>1
<1>3. SameBut(lines, lines', c)
    BY <1>2 DEF SameBut, Owned
<1> QED BY <1>2, <1>3, WriteFits

\* The rows of a deletion that is no checkout are gone.
LEMMA CutFits ==
    ASSUME IInv, ApartCart, Lone(task'), NEW c \in Customers,
           NEW ids, ids \subseteq Owned(lines, c), SplitKept(c),
           Delete(ids), UNCHANGED <<lastId, orders>>,
           \A v \in Workers :
               task'[v] = Idle \/ (task'[v] = task[v] /\ task[v].customer # c),
           \A d \in Customers, q \in Products :
               <<d, q>> \notin split =>
               wanted'[d][q] = IF For(lines, d, q) \cap ids = {} THEN wanted[d][q] ELSE 0,
           \A d \in Customers, q \in Products :
               <<d, q>> \in split \ split' =>
                   For(lines, d, q) \subseteq ids /\ wanted'[d][q] = 0
    PROVE  ApartCart'
<1>1. /\ DOMAIN lines' = DOMAIN lines \ ids
      /\ \A j \in DOMAIN lines' : lines'[j] = lines[j]
      /\ \A v \in Workers : Fits(task'[v], lines', split') /\ FromCart(task'[v], orders')
    BY CutRows
<1>2. Counts(lines', wanted', split')
    <2>1. Counts(lines, wanted, split) /\ Told(lines, wanted)
        BY TablesTold DEF ApartCart
    <2>2. Cut(lines, wanted, lines', wanted', split, split', ids)
        BY <1>1 DEF Cut, For
    <2> QED BY <2>1, <2>2, CountsCut
<1>3. Spent(orders', lines', lastId') /\ OrderedOnce'
    BY <1>1 DEF ApartCart, Spent, OrderedOnce
<1> QED BY <1>1, <1>2, <1>3 DEF ApartCart

LEMMA DeleteFits ==
    ASSUME IInv, ApartCart, Lone(task'), NEW w \in Workers, LineDelete(w)
    PROVE  ApartCart'
<1> DEFINE t == task[w]
           i == t.id
           c == t.customer
           p == t.row.product
<1>1. /\ t.step \in EditSteps /\ t \in EditTask
      /\ Delete({i}) /\ Want(c, p, 0) /\ Finish(w) /\ UNCHANGED <<lastId, orders, split>>
    BY TaskOfStep DEF LineDelete, At, EditSteps, IInv, Types
<1>2. c \in Customers /\ p \in Products
    BY <1>1 DEF EditTask, Line
<1>3. i \in DOMAIN lines /\ lines[i].owner = c /\ lines[i].product = p
    BY <1>1 DEF ApartCart, Fits, IInv, EditInv
<1>4. \A v \in Workers : task'[v] = Idle \/ (task'[v] = task[v] /\ task[v].customer # c)
    BY <1>1, <1>2, OthersApart DEF ApartCart
<1>5. /\ wanted'[c][p] = 0
      /\ \A d \in Customers, q \in Products :
            d # c \/ q # p => wanted'[d][q] = wanted[d][q]
    <2>1. wanted \in [Customers -> [Products -> Nat]]
        BY DEF IInv, Types, TypeOK
    <2> QED BY <1>1, <1>2, <2>1 DEF Want
<1> HIDE DEF t, i, c, p
<1>6. {i} \subseteq Owned(lines, c)
    BY <1>3 DEF Owned
<1>7. ASSUME NEW d \in Customers, NEW q \in Products
      PROVE  <<d, q>> \notin split =>
             wanted'[d][q] = IF For(lines, d, q) \cap {i} = {} THEN wanted[d][q] ELSE 0
    <2>1. <<d, q>> = <<c, p>> => For(lines, d, q) \cap {i} # {}
        BY <1>3 DEF For
    <2>2. <<d, q>> # <<c, p>> => For(lines, d, q) \cap {i} = {}
        BY <1>3 DEF For
    <2> QED BY <1>5, <2>1, <2>2
<1>8. SplitKept(c) /\ split \ split' = {}
    BY <1>1 DEF SplitKept
<1> QED BY <1>1, <1>2, <1>4, <1>6, <1>7, <1>8, CutFits

\* A cart is cleared when its customer has no request under way.
LEMMA ClearFits ==
    ASSUME IInv, ApartCart, Lone(task'), NEW w \in Workers, NEW c \in Customers, Clear(w, c),
           \A v \in Workers : task[v].customer # c
    PROVE  ApartCart'
<1> DEFINE ids == Owned(lines, c)
<1>1. /\ Delete(ids) /\ UNCHANGED <<lastId, orders, task>>
      /\ wanted' = [wanted EXCEPT ![c] = [p \in Products |-> 0]]
      /\ split' = {x \in split : x[1] # c}
    BY CartIs DEF Clear
<1>2. wanted \in [Customers -> [Products -> Nat]]
    BY DEF IInv, Types, TypeOK
<1>3. ASSUME NEW d \in Customers, NEW q \in Products, <<d, q>> \notin split
      PROVE  wanted'[d][q] = IF For(lines, d, q) \cap ids = {} THEN wanted[d][q] ELSE 0
    <2>1. CASE d # c
        BY <1>1, <1>2, <2>1 DEF For, Owned
    <2>2. CASE d = c
        <3>1. wanted'[d][q] = 0
            BY <1>1, <1>2, <2>2
        <3>2. For(lines, d, q) \cap ids = For(lines, d, q)
            BY <2>2 DEF For, Owned
        <3>3. For(lines, d, q) = {} => wanted[d][q] = 0
            BY <1>3 DEF ApartCart, Counts
        <3> QED BY <3>1, <3>2, <3>3
    <2> QED BY <2>1, <2>2
<1>5. ASSUME NEW d \in Customers, NEW q \in Products, <<d, q>> \in split \ split'
      PROVE  For(lines, d, q) \subseteq ids /\ wanted'[d][q] = 0
    <2>1. d = c
        BY <1>1, <1>5
    <2> QED BY <1>1, <1>2, <2>1 DEF For, Owned
<1>6. SplitKept(c)
    BY <1>1 DEF SplitKept
<1> HIDE DEF ids
<1>4. ids \subseteq Owned(lines, c)
    BY DEF ids
<1> QED BY <1>1, <1>3, <1>4, <1>5, <1>6, CutFits

\* What a checkout has read is what is in the cart when it clears it.
LEMMA TakenIsWanted ==
    ASSUME IInv, ApartCart, NEW w \in Workers, task[w] \in PayTask, NEW p \in Products,
           <<task[w].customer, p>> \notin split
    PROVE  Taken(task[w], p) = wanted[task[w].customer][p]
<1> DEFINE t == task[w]
           c == t.customer
           T == {i \in DOMAIN t.seen : t.seen[i].product = p}
<1>1. /\ c \in Customers /\ t.seen = [i \in Owned(lines, c) |-> lines[i]]
      /\ t.seen \in Snapshot
    BY DEF PayTask, ApartCart, Fits
<1>2. T = For(lines, c, p)
    BY <1>1 DEF For, Owned
<1>3. \A i \in T : t.seen[i] = lines[i] /\ i \in DOMAIN lines /\ lines[i].qty \in Nat
    BY <1>1 DEF Owned, IInv, Types, TypeOK, Line
<1>4. IsFiniteSet(T)
    <2>1. PICK I \in SUBSET LineIds : t.seen \in [I -> Line]
        BY <1>1 DEF Snapshot
    <2>2. T \subseteq LineIds
        BY <2>1
    <2>3. IsFiniteSet(LineIds)
        BY FS_Interval, CartAssumption DEF LineIds
    <2> HIDE DEF T
    <2> QED BY <2>2, <2>3, FS_Subset
<1>5. Counts(lines, wanted, split) /\ <<c, p>> \notin split
    BY DEF ApartCart
<1> HIDE DEF T
<1>6. /\ T = {} => Taken(t, p) = 0
      /\ \A a : T = {a} => Taken(t, p) = t.seen[a].qty
    BY <1>3, <1>4, TakenIs DEF T
<1> HIDE DEF t, c
<1>7. CASE T = {}
    BY <1>1, <1>2, <1>5, <1>6, <1>7 DEF Counts, t, c
<1>8. CASE T # {}
    <2>1. PICK a \in T : TRUE
        BY <1>8
    <2>2. T = {a}
        <3>1. \A j \in T : /\ j \in DOMAIN lines /\ lines[j].owner = c
                           /\ lines[j].product = p
            BY <1>2 DEF For
        <3> QED BY <1>5, <2>1, <3>1 DEF Counts
    <2>3. lines[a].owner = c /\ lines[a].product = p
        BY <1>2, <2>1 DEF For
    <2>4. lines[a].qty = wanted[c][p]
        BY <1>3, <1>5, <2>1, <2>3 DEF Counts
    <2> QED BY <1>3, <1>6, <2>1, <2>2, <2>4 DEF t, c
<1> QED BY <1>7, <1>8

\* The cart that went into the order is cleared, or is not.
LEMMA ClearAfterFits ==
    ASSUME IInv, ApartCart, Lone(task'), NEW w \in Workers, ClearAfter(w)
    PROVE  ApartCart'
<1> DEFINE t == task[w]
           c == t.customer
           ids == Owned(lines, c)
<1>1. /\ t \in PayTask /\ t.step \in PaySteps /\ c \in Customers /\ Finish(w)
      /\ lastId' = lastId /\ split' = split /\ t.order \in DOMAIN orders
    <2>1. t \in PayTask /\ t.step \in PaySteps
        BY TaskOfStep DEF ClearAfter, At, PaySteps, IInv, Types
    <2> QED BY <2>1 DEF ClearAfter, PayTask, IInv, PayInv
<1>2. CASE UNCHANGED <<lines, orders, wanted>>
    BY <1>1, <1>2, IdleFits, MoveFits DEF Finish
<1>3. CASE /\ Delete(Cart(c))
           /\ orders' = [orders EXCEPT ![t.order].cleared = TRUE]
           /\ wanted' = [wanted EXCEPT ![c] = [p \in Products |-> Less(@[p], Taken(t, p))]]
    <2>1. Counts(lines, wanted, split) /\ Told(lines, wanted)
        BY TablesTold DEF ApartCart
    <2>2. ASSUME NEW n \in DOMAIN orders
          PROVE  /\ orders'[n].items = orders[n].items
                 /\ orders'[n].cleared => n = t.order \/ orders[n].cleared
        <3>1. orders[n] \in Order
            BY ElementOfSeq, LenProperties DEF IInv, Types, TypeOK
        <3> QED BY <1>3, <3>1 DEF Order
    <2>3. DOMAIN orders' = DOMAIN orders
        BY <1>3
    <2>4. ASSUME NEW x \in orders[t.order].items
          PROVE  x.line \in ids
        <3>1. FromCart(t, orders) /\ Fits(t, lines, split)
            BY DEF ApartCart
        <3>2. x.line \in DOMAIN t.seen /\ DOMAIN t.seen = ids
            BY <1>1, <3>1 DEF FromCart, Fits
        <3> QED BY <3>2
    <2>5. \A p \in Products : <<c, p>> \notin split => wanted'[c][p] = 0
        <3>1. ASSUME NEW p \in Products, <<c, p>> \notin split PROVE Less(wanted[c][p], Taken(t, p)) = 0
            <4>1. Taken(t, p) = wanted[c][p] /\ wanted[c][p] \in Nat
                BY <1>1, <2>1, <3>1, TakenIsWanted DEF Told
            <4> QED BY <4>1 DEF Less
        <3>2. wanted'[c] = [p \in Products |-> Less(wanted[c][p], Taken(t, p))]
            BY <1>1, <1>3, <2>1 DEF Told
        <3> QED BY <3>1, <3>2
    <2>6. \A d \in Customers : d # c => wanted'[d] = wanted[d]
        BY <1>3, <2>1 DEF Told
    <2>7. ids \subseteq DOMAIN lines /\ Delete(ids) /\ \A j \in DOMAIN lines : j <= lastId
        <3>1. ids = Cart(c) /\ ids \subseteq DOMAIN lines
            BY CartIs DEF Owned
        <3>2. \A j \in DOMAIN lines : j <= lastId
            BY DEF IInv, Types, TypeOK
        <3> QED BY <1>3, <3>1, <3>2
    <2>8. \A v \in Workers : task'[v] = Idle \/ (task'[v] = task[v] /\ task[v].customer # c)
        BY <1>1, OthersApart DEF ApartCart
    <2>9. \A d \in Customers, q \in Products : <<d, q>> \notin split =>
             wanted'[d][q] = IF For(lines, d, q) \cap ids = {} THEN wanted[d][q] ELSE 0
        <3>1. ASSUME NEW d \in Customers, NEW q \in Products, d # c
              PROVE  For(lines, d, q) \cap ids = {}
            BY <3>1 DEF For, Owned
        <3>2. ASSUME NEW q \in Products PROVE For(lines, c, q) \subseteq ids
            BY DEF For, Owned
        <3>3. ASSUME NEW q \in Products, For(lines, c, q) = {}, <<c, q>> \notin split PROVE wanted[c][q] = 0
            BY <1>1, <2>1, <3>3 DEF Counts
        <3> HIDE DEF ids, c, t
        <3> QED BY <2>5, <2>6, <3>1, <3>2, <3>3
    <2>10. ids \subseteq Owned(lines, c)
        OBVIOUS
    <2> HIDE DEF t, c, ids
    <2>11. /\ DOMAIN lines' = DOMAIN lines \ ids
           /\ \A j \in DOMAIN lines' : lines'[j] = lines[j]
           /\ \A v \in Workers : Fits(task'[v], lines', split') /\ FromCart(task'[v], orders')
        <3>1. SplitKept(c)
            BY <1>1 DEF SplitKept
        <3> QED BY <1>1, <2>2, <2>3, <2>7, <2>8, <2>10, <3>1, CutRows
    <2>12. Counts(lines', wanted', split')
        <3>1. Cut(lines, wanted, lines', wanted', split, split, ids)
            BY <2>9, <2>11 DEF Cut
        <3> QED BY <1>1, <2>1, <3>1, CountsCut
    <2>13. Spent(orders', lines', lastId')
        BY <1>1, <2>2, <2>3, <2>4, <2>7, <2>11 DEF ApartCart, Spent
    <2>14. OrderedOnce'
        <3>1. ASSUME NEW m \in DOMAIN orders, NEW n \in DOMAIN orders, m < n,
                     orders'[m].cleared
              PROVE  \A x \in orders[m].items, y \in orders[n].items : x.line # y.line
            <4>1. CASE m = t.order
                BY <1>1, <3>1, <4>1 DEF ApartCart, FromCart, t
            <4>2. CASE m # t.order
                BY <2>2, <3>1, <4>2 DEF ApartCart, OrderedOnce
            <4> QED BY <4>1, <4>2
        <3> QED BY <2>2, <2>3, <3>1 DEF OrderedOnce
    <2> QED BY <2>11, <2>12, <2>13, <2>14 DEF ApartCart
<1> QED BY <1>2, <1>3 DEF ClearAfter

-----------------------------------------------------------------------------
(* Every step of customers who wait for their answers.                     *)

\* Prices, the fee and the catalogue change, or the process restarts.
LEMMA RestFits ==
    ASSUME IInv, ApartCart, Lone(task'), UNCHANGED <<lines, lastId, orders, wanted, split>>,
           task' = task \/ task' = [v \in Workers |-> Idle]
    PROVE  ApartCart'
<1>1. ASSUME NEW v \in Workers PROVE Fits(task'[v], lines, split) /\ FromCart(task'[v], orders)
    <2>1. task'[v] = task[v] \/ task'[v] = Idle
        OBVIOUS
    <2> QED BY <2>1, IdleFits DEF ApartCart
<1>2. Counts(lines, wanted, split) /\ Spent(orders, lines, lastId)
    BY DEF ApartCart
<1>3. OrderedOnce'
    BY DEF ApartCart, OrderedOnce
<1> QED BY <1>1, <1>2, <1>3 DEF ApartCart

\* OneEach, one worker at a time.
LEMMA OneEachIsLone ==
    ASSUME OneEach
    PROVE  /\ Lone(task')
           /\ \A w \in Workers, c \in Customers : Clear(w, c) =>
                 \A v \in Workers : task[v].customer # c
<1>1. ASSUME NEW v \in Workers, NEW w \in Workers,
             task'[v].customer \in Customers, task'[v].customer = task'[w].customer
      PROVE  v = w
    <2> DEFINE S == Serving(task', task'[v].customer)
    <2>1. IsFiniteSet(S) /\ Cardinality(S) <= 1 /\ v \in S /\ w \in S
        BY <1>1, WorkersAssumption, FS_Subset DEF OneEach, Serving
    <2> HIDE DEF S
    <2>2. Cardinality(S) = 1
        BY <2>1, FS_CardinalityType, FS_EmptySet
    <2>3. PICK x : S = {x}
        BY <2>1, <2>2, FS_Singleton
    <2> QED BY <2>1, <2>3
<1>2. ASSUME NEW w \in Workers, NEW c \in Customers, Clear(w, c),
             NEW v \in Workers, task[v].customer = c
      PROVE  FALSE
    BY <1>2 DEF OneEach, Serving
<1> QED BY <1>1, <1>2 DEF Lone

LEMMA ApartInit == RegimeInit => ApartInv
<1> SUFFICES ASSUME RegimeInit PROVE ApartInv
    OBVIOUS
<1>1. IInv
    BY CartInit DEF RegimeInit
<1>2. Init
    BY DEF RegimeInit
<1>3. \A w \in Workers : task[w] = Idle
    BY <1>2 DEF Init
<1>4. Lone(task)
    BY <1>3, CartAssumption DEF Lone, Idle
<1>5. \A w \in Workers : Fits(task[w], lines, split) /\ FromCart(task[w], orders)
    BY <1>3, IdleFits
<1>6. Counts(lines, wanted, split) /\ Spent(orders, lines, lastId) /\ OrderedOnce
    BY <1>2 DEF Init, Counts, Spent, OrderedOnce
<1> QED BY <1>1, <1>4, <1>5, <1>6 DEF ApartInv, ApartCart

LEMMA ApartStep == ApartInv /\ [RegimeNext]_mcvars => ApartInv'
<1> SUFFICES ASSUME ApartInv, [RegimeNext]_mcvars PROVE ApartInv'
    OBVIOUS
<1>1. IInv /\ regime' = regime
    BY DEF ApartInv, RegimeNext, mcvars
<1>2. IInv'
    <2>1. [Next]_vars
        BY DEF RegimeNext, mcvars
    <2> QED BY <1>1, <2>1, CartNext
<1> SUFFICES ASSUME regime = "apart" PROVE ApartCart'
    BY <1>1, <1>2 DEF ApartInv
<1>3. ApartCart
    BY DEF ApartInv
<1>4. CASE UNCHANGED mcvars
    <2>1. UNCHANGED <<lines, lastId, orders, wanted, task, split>>
        BY <1>4 DEF mcvars, vars
    <2>2. Lone(task')
        BY <1>3, <2>1 DEF ApartCart
    <2> QED BY <1>1, <1>3, <2>1, <2>2, RestFits
<1>5. CASE RegimeNext
    <2>1. Next /\ OneEach
        BY <1>5 DEF RegimeNext
    <2>2. /\ Lone(task')
          /\ \A w \in Workers, c \in Customers : Clear(w, c) =>
                \A v \in Workers : task[v].customer # c
        BY <2>1, OneEachIsLone
    <2>3. ASSUME NEW w \in Workers, EditCart(w) PROVE ApartCart'
        BY <1>1, <1>3, <2>2, <2>3, EditReadsFit, EditWritesFit, InsertFits, DeleteFits,
           ClearFits DEF EditCart
    <2>4. ASSUME NEW w \in Workers, PlaceOrder(w) PROVE ApartCart'
        BY <1>1, <1>3, <2>2, <2>4, OrderReadsFit, CreateFits, ClearAfterFits
           DEF PlaceOrder, Methods
    <2>7. ASSUME NEW w \in Workers, RequestFails(w) PROVE ApartCart'
        BY <1>1, <1>3, <2>2, <2>7, OrderReadsFit
    <2>5. CASE Admin
        <3>1. UNCHANGED <<lines, lastId, orders, wanted, task, split>>
            BY <2>5 DEF Admin, SetPrice, DeleteProduct, SetFee
        <3> QED BY <1>1, <1>3, <2>2, <3>1, RestFits
    <2>6. CASE Crash
        BY <1>1, <1>3, <2>2, <2>6, RestFits DEF Crash
    <2> QED BY <2>1, <2>3, <2>4, <2>5, <2>6, <2>7 DEF Next
<1> QED BY <1>4, <1>5

\* A cart that tells what it should holds what it should.
LEMMA ApartHolds == ApartInv => CartAsAsked
<1> SUFFICES ASSUME IInv, ApartCart PROVE UniqueLine /\ CartKept /\ OrderedOnce
    BY DEF ApartInv, CartAsAsked, UniqueLineApart, CartKeptApart, OrderedOnceApart
<1>1. Counts(lines, wanted, split)
    BY DEF ApartCart
<1>2. ASSUME NEW c \in Customers, NEW p \in Products, <<c, p>> \notin split
      PROVE  /\ Cardinality(LinesFor(c, p)) <= 1
             /\ InCart(c, p) = wanted[c][p]
    <2> DEFINE T == LinesFor(c, p)
    <2>1. T = For(lines, c, p)
        BY CartIs
    <2>2. \A i \in T : /\ i \in DOMAIN lines /\ lines[i].qty \in Nat
                       /\ lines[i].owner = c /\ lines[i].product = p
        BY <2>1 DEF For, IInv, Types, TypeOK, Line
    <2>6. \A i \in T : <<lines[i].owner, lines[i].product>> \notin split
        BY <1>2, <2>2
    <2>3. \A i, j \in T : i = j
        BY <1>1, <2>2, <2>6 DEF Counts
    <2> HIDE DEF T
    <2>4. CASE T = {}
        <3>1. InCart(c, p) = 0
            BY <2>4, FS_EmptySet, InCartIs DEF T
        <3>2. wanted[c][p] = 0
            BY <1>1, <1>2, <2>1, <2>4 DEF Counts
        <3> QED BY <2>4, <3>1, <3>2, FS_EmptySet DEF T
    <2>5. CASE T # {}
        <3>1. PICK a \in T : T = {a}
            BY <2>3, <2>5
        <3>2. IsFiniteSet(T) /\ Cardinality(T) = 1
            BY <3>1, FS_Singleton
        <3>3. InCart(c, p) = lines[a].qty
            BY <2>2, <3>1, <3>2, InCartIs DEF T
        <3>4. lines[a].qty = wanted[c][p]
            BY <1>1, <2>2, <2>6 DEF Counts
        <3> QED BY <3>2, <3>3, <3>4 DEF T
    <2> QED BY <2>4, <2>5
<1> QED BY <1>2 DEF UniqueLine, CartKept, ApartCart

\* A customer who waits for one answer before asking again has one row per
\* product, with the quantity they were told, unless a lookup of that row
\* failed, and no row of an order that cleared its cart is ordered again,
\* whatever other customers, the admin, failures and restarts do
\* (models/cart_item.go, cart_service.go, order_service.go).
THEOREM CartIsAsAsked == RegimeSpec => []CartAsAsked
<1>1. RegimeSpec => []ApartInv
    BY ApartInit, ApartStep, PTL DEF RegimeSpec
<1> QED BY <1>1, ApartHolds, PTL

\* What TLC checks are behaviours that the theorems are about.
THEOREM InstancesAreCovered == MCSpec => RegimeSpec /\ Spec
<1>1. MCInit => RegimeInit /\ Init
    BY DEF MCInit, RegimeInit
<1>2. [MCNext]_mcvars => [RegimeNext]_mcvars /\ [Next]_vars
    BY DEF MCNext, RegimeNext, mcvars
<1> QED BY <1>1, <1>2, PTL DEF MCSpec, RegimeSpec, Spec
=============================================================================
