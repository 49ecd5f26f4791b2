----------------------------- MODULE Catalogue -----------------------------
(***************************************************************************)
(* Products and categories and their in-memory caches: product_service.go, *)
(* product_controller.go, category_service.go, utils/cache.go.             *)
(*                                                                         *)
(* A cache is read, the database is read on a miss, and the cache is       *)
(* filled: three steps another request can come between. A write changes   *)
(* the database and then clears its cache. The detail cache holds pointers *)
(* and hands them out, and an update edits the product it was handed       *)
(* before saving it, so products in memory are objects in a heap here.     *)
(* Nothing guards them: an update assigns the fields and the save reads    *)
(* them one machine word at a time, while others do the same.              *)
(* One listing and one category stand for all of them.                     *)
(***************************************************************************)
EXTENDS Naturals, FiniteSets, FiniteSetsExt, Functions

CONSTANTS
    Products,
    Words,       \* machine words of a product's fields; a string takes several
    Texts,       \* what a word may hold
    Categories,
    Workers,     \* requests being handled at the same time
    NotCached,   \* a cache entry that is missing or expired
    MaxFaults    \* bound: failed or unanswered writes

\* What the constants stand for.
CatalogueAssumption ==
    /\ Products # {} /\ Words # {} /\ Texts # {}
    /\ IsFiniteSet(Products) /\ IsFiniteSet(Workers)
    /\ MaxFaults \in Nat

VARIABLES
    db,       \* the products table: content by product
    cats,     \* the active rows of the categories table
    heap,     \* content of each product object in memory
    detail,   \* cache "detail:<id>": an object by product
    list,     \* cache "list:...": a total and the products found
    shown,    \* cache "categories:public": categories and product count
    task,     \* what each worker is doing
    saved,    \* history: <<product, content>> pairs ever saved
    unsaved,  \* history: products whose page an update edited and failed to save
    faults    \* failed or unanswered writes so far

vars == <<db, cats, heap, detail, list, shown, task, saved, unsaved, faults>>
products == <<heap, detail, list>>

-----------------------------------------------------------------------------

\* A worker holds one object at most and the cache one per product.
Objects == 1..(Cardinality(Products) + Cardinality(Workers))

\* What an admin may enter for a product.
Contents == [Words -> Texts]

Idle == [step |-> "idle"]

Init ==
    /\ db = <<>>
    /\ cats = {}
    /\ heap = [o \in Objects |-> [f \in Words |-> CHOOSE x \in Texts : TRUE]]
    /\ detail = <<>>
    /\ list = NotCached
    /\ shown = NotCached
    /\ task = [w \in Workers |-> Idle]
    /\ saved = {}
    /\ unsaved = {}
    /\ faults = 0

At(w, s) == task[w].step = s
Goto(w, t) == task' = [task EXCEPT ![w] = t]
Finish(w) == Goto(w, Idle)

Put(f, k, v) == [x \in DOMAIN f \cup {k} |-> IF x = k THEN v ELSE f[x]]

Held == {task[w].object : w \in {v \in Workers : "object" \in DOMAIN task[v]}}
FreeObject == Min(Objects \ (Held \cup Range(detail)))

Fault == faults < MaxFaults /\ faults' = faults + 1

\* Create, Save (an update, or an insert of a missing row) and Delete.
Store(p, x) == /\ db' = Put(db, p, x)
               /\ saved' = saved \cup {<<p, x>>}
Remove(p) == /\ db' = Restrict(db, DOMAIN db \ {p})
             /\ UNCHANGED saved

-----------------------------------------------------------------------------
(* GetByID and the handlers that begin with it.                            *)

Operations == {"view", "create", "update", "delete"}

\* The product is at hand: a page is answered, Create refuses the id, Update
\* goes on to edit the object it was given.
Found(w, t) ==
    CASE t.op \in {"view", "create"} -> Finish(w)
      [] t.op = "update" -> Goto(w, [t EXCEPT !.step = "edit"])
      [] t.op = "delete" -> Goto(w, [t EXCEPT !.step = "remove"])

NotFound(w, t) ==
    CASE t.op \in {"view", "update"} -> Finish(w)
      [] t.op = "create" -> Goto(w, [t EXCEPT !.step = "insert"])
      [] t.op = "delete" -> Goto(w, [t EXCEPT !.step = "remove"])

\* Update replaces every field, Create enters them; x is what was entered.
\* `left` are the words a request has yet to assign or to read, `row` is what
\* it reads for the save.
Lookup(w, op, p, x) ==
    /\ At(w, "idle")
    /\ LET t == [step |-> "lookup", op |-> op, product |-> p, content |-> x]
           Handed(s, o) == [step |-> s, op |-> op, product |-> p, content |-> x,
                            object |-> o, left |-> Words, row |-> x]
           new == FreeObject
       IN  \/ /\ p \in DOMAIN detail
              /\ Found(w, Handed("lookup", detail[p]))
              /\ UNCHANGED heap
           \/ /\ p \notin DOMAIN detail /\ p \in DOMAIN db
              /\ heap' = [heap EXCEPT ![new] = db[p]]
              /\ Goto(w, Handed("remember", new))
           \/ /\ p \notin DOMAIN detail /\ p \notin DOMAIN db
              /\ NotFound(w, t)
              /\ UNCHANGED heap
    /\ UNCHANGED <<db, cats, detail, list, shown, saved, unsaved, faults>>

\* Cache.Set, and the handler goes on.
Remember(w) ==
    /\ At(w, "remember")
    /\ detail' = Put(detail, task[w].product, task[w].object)
    /\ unsaved' = unsaved \ {task[w].product}
    /\ Found(w, task[w])
    /\ UNCHANGED <<db, cats, heap, list, shown, saved, faults>>

\* A request is done with a word; after the last one it goes on.
Passed(t, f, next) ==
    IF t.left = {f} THEN [t EXCEPT !.step = next, !.left = Words]
                    ELSE [t EXCEPT !.left = @ \ {f}]

Assign(w, f) ==
    /\ At(w, "edit") /\ f \in task[w].left
    /\ heap' = [heap EXCEPT ![task[w].object] =
                               [@ EXCEPT ![f] = task[w].content[f]]]
    /\ UNCHANGED <<db, cats, detail, list, shown, saved, unsaved, faults>>

\* Mutant of Edit: what was entered is refused after it was assigned.
EditThenRefuse(w) ==
    \E f \in Words : /\ Assign(w, f)
                     /\ Goto(w, Passed(task[w], f, "copy")) \/ Finish(w)

\* ProductController.Update assigns the fields of the object, which may be
\* the one in the cache, in any order.
Edit(w) == \E f \in Words : Assign(w, f) /\ Goto(w, Passed(task[w], f, "copy"))

\* GORM reads the object as it is by now for the statement it sends.
Copy(w) ==
    /\ At(w, "copy")
    /\ \E f \in task[w].left :
          Goto(w, Passed([task[w] EXCEPT !.row =
                             [@ EXCEPT ![f] = heap[task[w].object][f]]], f, "save"))
    /\ UNCHANGED <<db, cats, products, shown, saved, unsaved, faults>>

\* On an error the cache is not cleared, whether or not the row was written,
\* and what was edited stays edited.
SaveProduct(w) ==
    /\ At(w, "save")
    /\ LET t == task[w] IN
        \/ /\ Store(t.product, t.row)
           /\ Goto(w, [step |-> "clear"])
           /\ UNCHANGED <<unsaved, faults>>
        \/ /\ Store(t.product, t.row) \/ UNCHANGED <<db, saved>>
           /\ unsaved' = unsaved \cup {p \in DOMAIN detail : detail[p] = t.object}
           /\ Finish(w)
           /\ Fault
    /\ UNCHANGED <<cats, heap, detail, list, shown>>

\* The primary key refuses a product that exists by now; a statement that
\* fails or is not answered leaves the cache uncleared.
InsertProduct(w) ==
    /\ At(w, "insert")
    /\ LET t == task[w] IN
        \/ /\ t.product \in DOMAIN db
           /\ Finish(w)
           /\ UNCHANGED <<db, saved, faults>>
        \/ /\ t.product \notin DOMAIN db
           /\ Store(t.product, t.content)
           /\ Goto(w, [step |-> "clear"])
           /\ UNCHANGED faults
        \/ /\ t.product \notin DOMAIN db
           /\ Store(t.product, t.content) \/ UNCHANGED <<db, saved>>
           /\ Finish(w)
           /\ Fault
    /\ UNCHANGED <<cats, heap, detail, list, shown, unsaved>>

RemoveProduct(w) ==
    /\ At(w, "remove")
    /\ \/ /\ Remove(task[w].product)
          /\ Goto(w, [step |-> "clear"])
          /\ UNCHANGED faults
       \/ /\ Remove(task[w].product) \/ UNCHANGED <<db, saved>>
          /\ Finish(w)
          /\ Fault
    /\ UNCHANGED <<cats, heap, detail, list, shown, unsaved>>

\* Mutant of ClearProducts: the listings are forgotten.
ClearDetails(w) ==
    /\ At(w, "clear")
    /\ detail' = <<>> /\ unsaved' = {}
    /\ Finish(w)
    /\ UNCHANGED <<db, cats, heap, list, shown, saved, faults>>

\* Mutant of ClearProducts: the product pages are forgotten.
ClearListings(w) ==
    /\ At(w, "clear")
    /\ list' = NotCached
    /\ Finish(w)
    /\ UNCHANGED <<db, cats, heap, detail, shown, saved, unsaved, faults>>

\* Cache.Clear drops details and listings alike.
ClearProducts(w) ==
    /\ At(w, "clear")
    /\ detail' = <<>> /\ unsaved' = {}
    /\ list' = NotCached
    /\ Finish(w)
    /\ UNCHANGED <<db, cats, heap, shown, saved, faults>>

-----------------------------------------------------------------------------
(* List: the total and the page are two queries.                           *)

ListCount(w) ==
    /\ At(w, "idle")
    /\ list = NotCached
    /\ Goto(w, [step |-> "find", total |-> Cardinality(DOMAIN db)])
    /\ UNCHANGED <<db, cats, products, shown, saved, unsaved, faults>>

ListFind(w) ==
    /\ At(w, "find")
    /\ Goto(w, [step |-> "setlist", total |-> task[w].total, found |-> db])
    /\ UNCHANGED <<db, cats, products, shown, saved, unsaved, faults>>

ListSet(w) ==
    /\ At(w, "setlist")
    /\ list' = [total |-> task[w].total, found |-> task[w].found]
    /\ Finish(w)
    /\ UNCHANGED <<db, cats, heap, detail, shown, saved, unsaved, faults>>

-----------------------------------------------------------------------------
(* Categories: ListPublic and the admin's edits.                           *)

CategoriesFind(w) ==
    /\ At(w, "idle")
    /\ shown = NotCached
    /\ Goto(w, [step |-> "count", cats |-> cats])
    /\ UNCHANGED <<db, cats, products, shown, saved, unsaved, faults>>

CategoriesCount(w) ==
    /\ At(w, "count")
    /\ Goto(w, [step |-> "setcats", cats |-> task[w].cats,
                count |-> Cardinality(DOMAIN db)])
    /\ UNCHANGED <<db, cats, products, shown, saved, unsaved, faults>>

CategoriesSet(w) ==
    /\ At(w, "setcats")
    /\ shown' = [cats |-> task[w].cats, count |-> task[w].count]
    /\ Finish(w)
    /\ UNCHANGED <<db, cats, products, saved, unsaved, faults>>

\* A category is created or enabled, or deleted or disabled. A write that
\* fails or is not answered leaves the cache uncleared.
CategoryWrite(w, k) ==
    /\ At(w, "idle")
    /\ \/ /\ cats' \in {cats \cup {k}, cats \ {k}}
          /\ Goto(w, [step |-> "clearcats"])
          /\ UNCHANGED faults
       \/ /\ cats' \in {cats, cats \cup {k}, cats \ {k}}
          /\ Finish(w)
          /\ Fault
    /\ UNCHANGED <<db, products, shown, saved, unsaved>>

ClearCategories(w) ==
    /\ At(w, "clearcats")
    /\ shown' = NotCached
    /\ Finish(w)
    /\ UNCHANGED <<db, cats, products, saved, unsaved, faults>>

-----------------------------------------------------------------------------
(* Entries expire; the process restarts.                                   *)

Expire ==
    /\ \/ /\ \E p \in DOMAIN detail :
                /\ detail' = Restrict(detail, DOMAIN detail \ {p})
                /\ unsaved' = unsaved \ {p}
          /\ UNCHANGED <<list, shown>>
       \/ list' = NotCached /\ UNCHANGED <<detail, shown, unsaved>>
       \/ shown' = NotCached /\ UNCHANGED <<detail, list, unsaved>>
    /\ UNCHANGED <<db, cats, heap, task, saved, faults>>

Crash ==
    /\ detail' = <<>> /\ list' = NotCached /\ shown' = NotCached
    /\ unsaved' = {}
    /\ task' = [w \in Workers |-> Idle]
    /\ UNCHANGED <<db, cats, heap, saved, faults>>

HandleProduct(w) ==
    \/ \E op \in Operations, p \in Products, x \in Contents : Lookup(w, op, p, x)
    \/ Remember(w) \/ Edit(w) \/ Copy(w) \/ SaveProduct(w)
    \/ InsertProduct(w) \/ RemoveProduct(w) \/ ClearProducts(w)
    \/ ListCount(w) \/ ListFind(w) \/ ListSet(w)

HandleCategory(w) ==
    \/ CategoriesFind(w) \/ CategoriesCount(w) \/ CategoriesSet(w)
    \/ \E k \in Categories : CategoryWrite(w, k)
    \/ ClearCategories(w)

Next ==
    \/ \E w \in Workers : HandleProduct(w) \/ HandleCategory(w)
    \/ Expire
    \/ Crash

Spec == Init /\ [][Next]_vars

-----------------------------------------------------------------------------

Table == UNION {[ps -> Contents] : ps \in SUBSET Products}

\* The caches point into the heap and hold well-formed answers of a query.
TypeOK ==
    /\ db \in Table
    /\ cats \subseteq Categories
    /\ heap \in [Objects -> Contents]
    /\ DOMAIN detail \subseteq Products /\ Range(detail) \subseteq Objects
    /\ list = NotCached \/ (list.total \in Nat /\ list.found \in Table)
    /\ shown = NotCached \/ (shown.cats \subseteq Categories /\ shown.count \in Nat)
    /\ saved \subseteq Products \X Contents
    /\ unsaved \subseteq Products
    /\ faults \in 0..MaxFaults

Quiet == \A w \in Workers : At(w, "idle")

\* When requests do not overlap, no page is older than the database: what is
\* cached of products and of categories is what a query would return
\* (product_service.go: writes clear the cache).
CacheAgrees ==
    Quiet =>
        /\ \A p \in DOMAIN detail : p \in DOMAIN db /\ heap[detail[p]] = db[p]
        /\ list # NotCached =>
              list.found = db /\ list.total = Cardinality(DOMAIN db)
        /\ shown # NotCached => shown.cats = cats

\* When requests do not overlap, a product that was deleted comes back only
\* by being created again, though Update starts from what is cached and Save
\* inserts what is missing.
ReturnsByInsert ==
    \A p \in DOMAIN db' \ DOMAIN db :
        \E w \in Workers : At(w, "insert") /\ task[w].product = p

\* Every word of a cached product page was saved for that product at some time
\* or is being entered by an update that is not done yet, although updates edit
\* the cached object in place, unguarded, and overlap. It is so until an update
\* that edited the page fails to save it; from then on the page may show what
\* nobody saved, until it goes.
ShownWasSaved ==
    \A p \in DOMAIN detail \ unsaved, f \in Words :
        LET word == heap[detail[p]][f] IN
        \/ \E x \in Contents : <<p, x>> \in saved /\ x[f] = word
        \/ \E w \in Workers :
              /\ task[w].step \in {"edit", "copy", "save"}
              /\ task[w].object = detail[p] /\ task[w].content[f] = word

\* Caches and heap are well formed and pages show what was saved.
CatalogueInv == TypeOK /\ ShownWasSaved
=============================================================================
