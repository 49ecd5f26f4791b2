--------------------------- MODULE PaymentMethods ---------------------------
(***************************************************************************)
(* The payment methods customers may choose: payment_method_service.go.    *)
(* One row per method says whether it is enabled and whether it is the     *)
(* primary one; the storefront's list of enabled methods is cached, the    *)
(* gate that checkouts pass is not. An update is a read, a statement that  *)
(* clears the other rows' primary flag, a save of the whole row and a      *)
(* clearing of the cache, with nothing that holds them together.           *)
(***************************************************************************)
EXTENDS Naturals

CONSTANTS
    Methods,
    Digital,     \* the method seeded as primary (PPCBank)
    Workers,     \* requests being handled at the same time
    NotCached    \* the list is missing or expired

ASSUME MethodsAssumption == Digital \in Methods

VARIABLES
    rows,     \* the payment_methods table
    cache,    \* "payment_methods:enabled": the enabled methods
    task,     \* what each worker is doing
    open,     \* history: checkouts whose method was enabled at some time
    kept,     \* history: a save that was not answered left the cached list
    without   \* history: why there may be no primary method

vars == <<rows, cache, task, open, kept, without>>
history == <<open, kept, without>>

-----------------------------------------------------------------------------

Row == [enabled: BOOLEAN, primary: BOOLEAN]

Idle == [step |-> "idle"]

\* seedPaymentMethods.
Init ==
    /\ rows \in [Methods -> Row]
    /\ \A m \in Methods : rows[m].primary <=> m = Digital
    /\ cache = NotCached
    /\ task = [w \in Workers |-> Idle]
    /\ open = {}
    /\ kept = FALSE
    /\ without = "no reason"

At(w, s) == task[w].step = s
Goto(w, t) == task' = [task EXCEPT ![w] = t]
Finish(w) == Goto(w, Idle)

Enabled == {m \in Methods : rows[m].enabled}

-----------------------------------------------------------------------------
(* Update. Name, image and order are left out.                             *)

UpdateRead(w, m, patch) ==
    /\ At(w, "idle")
    /\ Goto(w, [step |-> IF patch.primary THEN "demote" ELSE "save",
                method |-> m, patch |-> patch])
    /\ UNCHANGED <<rows, cache, history>>

\* One UPDATE of every row but this one.
Demote(m) ==
    rows' = [n \in Methods |-> IF n = m THEN rows[n]
                               ELSE [rows[n] EXCEPT !.primary = FALSE]]

\* Both flags are written as they were entered.
Store(m, patch) ==
    /\ rows' = [rows EXCEPT ![m] = patch]
    /\ open' = open \cup {v \in Workers : /\ At(v, "gate")
                                          /\ task[v].method = m
                                          /\ patch.enabled}
    /\ without' = IF patch.primary THEN "no reason"
                  ELSE IF rows[m].primary THEN "turned off" ELSE without

\* Mutant of ClearPrimary: the other rows keep their flag.
ClearPrimaryNone(w) ==
    /\ At(w, "demote")
    /\ Goto(w, [task[w] EXCEPT !.step = "save"])
    /\ UNCHANGED <<rows, cache, history>>

ClearPrimary(w) ==
    /\ At(w, "demote")
    /\ Demote(task[w].method)
    /\ Goto(w, [task[w] EXCEPT !.step = "save"])
    /\ UNCHANGED <<cache, history>>

SaveRow(w) ==
    /\ At(w, "save")
    /\ Store(task[w].method, task[w].patch)
    /\ Goto(w, [step |-> "clear"])
    /\ UNCHANGED <<cache, kept>>

\* Mutant of ClearCache: the cached list is kept.
ClearCacheNot(w) ==
    /\ At(w, "clear")
    /\ Finish(w)
    /\ UNCHANGED <<rows, cache, history>>

ClearCache(w) ==
    /\ At(w, "clear")
    /\ cache' = NotCached
    /\ kept' = FALSE
    /\ Finish(w)
    /\ UNCHANGED <<rows, open, without>>

\* ClearPrimary's statement fails, or it was carried out and its answer is
\* lost; Update returns.
DemoteFail(w) ==
    /\ At(w, "demote")
    /\ \/ UNCHANGED <<rows, without>>
       \/ Demote(task[w].method) /\ without' = "stopped"
    /\ Finish(w)
    /\ UNCHANGED <<cache, open, kept>>

\* So does the save, and Update returns before the cache is cleared.
SaveFail(w) ==
    /\ At(w, "save")
    /\ LET t == task[w] IN
        \/ /\ Store(t.method, t.patch)
           /\ kept' = (cache # NotCached)
        \/ /\ without' = IF t.patch.primary THEN "stopped" ELSE without
           /\ UNCHANGED <<rows, open, kept>>
    /\ Finish(w)
    /\ UNCHANGED cache

-----------------------------------------------------------------------------
(* ListEnabled.                                                            *)

ListRead(w) ==
    /\ At(w, "idle")
    /\ cache = NotCached
    /\ Goto(w, [step |-> "fill", found |-> Enabled])
    /\ UNCHANGED <<rows, cache, history>>

ListFill(w) ==
    /\ At(w, "fill")
    /\ cache' = task[w].found
    /\ Finish(w)
    /\ UNCHANGED <<rows, history>>

-----------------------------------------------------------------------------
(* IsEnabled, as Checkout and InitiatePPCBankCheckout use it.              *)

CheckoutBegins(w, m) ==
    /\ At(w, "idle")
    /\ Goto(w, [step |-> "gate", method |-> m])
    /\ open' = IF rows[m].enabled THEN open \cup {w} ELSE open \ {w}
    /\ UNCHANGED <<rows, cache, kept, without>>

\* Mutant of IsEnabled: the storefront's cached list is asked.
IsEnabledCached(m) == IF cache = NotCached THEN rows[m].enabled ELSE m \in cache

\* Read from the table, never from the cache.
IsEnabled(m) == rows[m].enabled

CheckoutGate(w) ==
    /\ At(w, "gate")
    /\ IF IsEnabled(task[w].method)
       THEN Goto(w, [task[w] EXCEPT !.step = "order"])
       ELSE Finish(w)
    /\ UNCHANGED <<rows, cache, history>>

\* The order is placed, whatever has been disabled by now.
CheckoutEnds(w) ==
    /\ At(w, "order")
    /\ Finish(w)
    /\ UNCHANGED <<rows, cache, history>>

-----------------------------------------------------------------------------

Expire ==
    /\ cache' = NotCached
    /\ kept' = FALSE
    /\ UNCHANGED <<rows, task, open, without>>

Crash ==
    /\ cache' = NotCached
    /\ kept' = FALSE
    /\ task' = [w \in Workers |-> Idle]
    /\ without' = IF \E w \in Workers : At(w, "save") /\ task[w].patch.primary
                  THEN "stopped" ELSE without
    /\ UNCHANGED <<rows, open>>

Update(w) ==
    \/ \E m \in Methods, patch \in Row : UpdateRead(w, m, patch)
    \/ ClearPrimary(w) \/ SaveRow(w) \/ ClearCache(w)
    \/ DemoteFail(w) \/ SaveFail(w)

Checkout(w) ==
    \/ \E m \in Methods : CheckoutBegins(w, m)
    \/ CheckoutGate(w) \/ CheckoutEnds(w)

Next ==
    \/ \E w \in Workers : Update(w) \/ ListRead(w) \/ ListFill(w) \/ Checkout(w)
    \/ Expire
    \/ Crash

Spec == Init /\ [][Next]_vars

-----------------------------------------------------------------------------

\* The table and its cached list are well formed.
TypeOK ==
    /\ rows \in [Methods -> Row]
    /\ cache = NotCached \/ cache \subseteq Methods
    /\ open \subseteq Workers
    /\ kept \in BOOLEAN
    /\ without \in {"no reason", "turned off", "stopped"}

\* A checkout goes on only with a method that was enabled at some moment
\* since it began: what was disabled before is refused, whatever the cached
\* list still shows (IsEnabled: "take effect IMMEDIATELY").
OrderedWhileOpen == \A w \in Workers : At(w, "order") => w \in open

\* The table is well formed and checkouts use methods that were open.
MethodsInv == TypeOK /\ OrderedWhileOpen

Updating == \E w \in Workers : task[w].step \in {"demote", "save", "clear"}

PrimaryRemains == \E m \in Methods : rows[m].primary

\* Two methods are never primary, not even half-way through an update or when
\* it stops there; and one is, unless it was turned off or the last update to
\* turn another on stopped between its statements (Update: "exactly one
\* payment method is ever primary").
OnePrimary ==
    /\ \A m, n \in Methods : rows[m].primary /\ rows[n].primary => m = n
    /\ ~Updating /\ without = "no reason" => PrimaryRemains

\* With no update under way the cached list is what the table says, unless
\* the last save was not answered, which leaves the list until it expires.
ListIsCurrent == ~Updating => cache \in {NotCached, Enabled} \/ kept
=============================================================================
