------------------------------ MODULE MCCaches ------------------------------
(***************************************************************************)
(* The services that keep a cache in the memory of the process, each of    *)
(* its own (utils.NewCache, a map with a mutex): payment methods,          *)
(* settings, the catalogue, the banners, Google's keys and the countries   *)
(* of the audit log. They share no state and no key, so a behaviour has    *)
(* one of them move, `part`, while the others rest in one initial state;   *)
(* what holds of each part by itself holds of all of them together.        *)
(*                                                                         *)
(* In the behaviours with `apart`, a write does not overlap what it could  *)
(* confuse: another write or a fill of the same cache; readers overlap     *)
(* each other. In the others everything overlaps.                          *)
(***************************************************************************)
EXTENDS PaymentMethods, FiniteSets, TLC

CONSTANTS
    Values,                                      \* settings
    Products, Words, Texts, Categories, MaxFaults,   \* the catalogue
    Kids, Nobody, MaxAge,                        \* Google's keys
    MaxBanners,                                  \* the banners
    Ips, Private, Months, MaxId, Unknown         \* the audit log

VARIABLES
    row, sCache, page, sTask, stored,
    db, cats, heap, detail, list, shown, cTask, saved, unsaved, faults,
    published, keys, age, mutex, gTask, since, steady,
    banners, given, active, bTask, unanswered,
    entries, written, month, known, lookups, aTask, reported, lost,
    part, apart

Settings == INSTANCE SettingsCache WITH cache <- sCache, task <- sTask
Shop == INSTANCE Catalogue WITH task <- cTask
Home == INSTANCE Banners
          WITH task <- bTask, list <- active, lost <- unanswered,
               Contents <- Texts
Google == INSTANCE GoogleKeys WITH task <- gTask
Audit == INSTANCE AuditLog WITH task <- aTask

ASSUME CachesAssumption ==
    /\ Settings!SettingsAssumption /\ Shop!CatalogueAssumption
    /\ Google!KeysAssumption /\ Audit!AuditAssumption

settings == <<row, sCache, page, sTask, stored>>
shop == <<db, cats, heap, detail, list, shown, cTask, saved, unsaved, faults>>
home == <<banners, given, active, bTask, unanswered>>
google == <<published, keys, age, mutex, gTask, since, steady>>
audit == <<entries, written, month, known, lookups, aTask, reported, lost>>

mcvars == <<vars, settings, shop, home, google, audit, part, apart>>

Busy(ts) == {w \in Workers : ts[w].step # "idle"}
Doing(ts, steps) == {w \in Workers : ts[w].step \in steps}

-----------------------------------------------------------------------------
(* Payment methods: an update overlaps checkouts only.                     *)

UpdatingMethods == Doing(task, {"demote", "save", "clear"})

MethodsApart ==
    UpdatingMethods # {} =>
        Cardinality(UpdatingMethods) = 1 /\ Doing(task, {"fill"}) = {}

\* Bound: where all overlaps, no update sets the primary flag.
MethodsBounds == ~apart => Doing(task, {"demote"}) = {}

MethodsNext == Next /\ (apart => MethodsApart')

-----------------------------------------------------------------------------
(* Settings: nothing overlaps an update.                                   *)

UpdatingSettings == Doing(sTask, {"save", "cache"})

SettingsNext ==
    /\ Settings!Next
    /\ apart => /\ (UpdatingSettings # {} => Cardinality(Busy(sTask)) = 1)'
                /\ (UpdatingSettings # {})' => page' = page

-----------------------------------------------------------------------------
(* The catalogue: nothing overlaps a request that writes.                  *)

Writing ==
    \/ Doing(cTask, {"edit", "copy", "save", "insert", "remove", "clear",
                    "clearcats"}) # {}
    \/ \E w \in Doing(cTask, {"remember"}) : cTask[w].op # "view"

\* Bounds: categories and failing writes are explored with one product; so is
\* what overlaps writes, without listings and with few contents saved. Products
\* are keys of one map, and either products or categories are listed, two
\* entries of their own. What is entered has the same text in all words, so
\* that a mixture shows; what is not used is not entered.
Handling == {w \in Workers : "product" \in DOMAIN cTask[w]}
Alike(text) == [f \in Words |-> text]

OneProduct ==
    Cardinality(DOMAIN db \cup {cTask[w].product : w \in Handling}
                \cup {x[1] : x \in saved}) <= 1

EnteredAlike ==
    \A w \in Handling :
        cTask[w].content \in
            {Alike(text) : text \in IF cTask[w].op \in {"create", "update"}
                                     THEN Texts ELSE {CHOOSE x \in Texts : TRUE}}

ShopBounds ==
    /\ EnteredAlike
    /\ list = NotCached \/ shown = NotCached
    /\ OneProduct \/ (cats = {} /\ faults = 0 /\ Cardinality(saved) <= 2)
    /\ ~apart => /\ OneProduct /\ Cardinality(saved) <= 2 /\ cats = {}
                 /\ Doing(cTask, {"find", "count", "clearcats"}) = {}

ShopNext ==
    /\ Shop!Next
    /\ apart => (Writing => Cardinality(Busy(cTask)) = 1)'

-----------------------------------------------------------------------------
(* Banners: the filling of the list does not overlap a write.             *)

HomeNext ==
    /\ Home!Next
    /\ (Doing(bTask, {"fill"}) # {} => Doing(bTask, {"save", "clear"}) = {})'
    /\ Doing(bTask, {"fill"}) # {} => banners' = banners

-----------------------------------------------------------------------------
(* The audit log. Bounds: `apart` has removals that overlap without       *)
(* lookups, by choice of one entry at most; otherwise one removal, by      *)
(* choice of any, overlaps the lookups. An age that falls between months   *)
(* removes what the next one of Months does.                               *)

AuditBounds ==
    IF apart
    THEN /\ lookups = <<>>
         /\ \A w \in Doing(aTask, {"delete"}) :
               IF aTask[w].how = "age" THEN aTask[w].asked \in Months
               ELSE Cardinality(aTask[w].ids) <= 1
    ELSE /\ written <= 2
         /\ month = Audit!Earliest
         /\ Cardinality(Busy(aTask)) <= 1
         /\ \A w \in Doing(aTask, {"delete"}) : aTask[w].how = "choice"

-----------------------------------------------------------------------------

Parts == {"methods", "settings", "catalogue", "banners", "keys", "audit"}

RegimeInit ==
    /\ Init /\ Settings!Init /\ Shop!Init /\ Home!Init /\ Google!Init /\ Audit!Init
    /\ part \in Parts
    /\ apart \in BOOLEAN

PartMoves(p) ==
    \/ p = "methods" /\ MethodsNext
       /\ UNCHANGED <<settings, shop, home, google, audit>>
    \/ p = "settings" /\ SettingsNext
       /\ UNCHANGED <<vars, shop, home, google, audit>>
    \/ p = "catalogue" /\ ShopNext
       /\ UNCHANGED <<vars, settings, home, google, audit>>
    \/ p = "banners" /\ HomeNext
       /\ UNCHANGED <<vars, settings, shop, google, audit>>
    \/ p = "keys" /\ Google!Next
       /\ UNCHANGED <<vars, settings, shop, home, audit>>
    \/ p = "audit" /\ Audit!Next
       /\ UNCHANGED <<vars, settings, shop, home, google>>

RegimeNext == UNCHANGED <<part, apart>> /\ \E p \in Parts : PartMoves(p)

\* All parts move, without the bounds of the instances below.
RegimeSpec == RegimeInit /\ [][RegimeNext]_mcvars

\* In an instance one part moves; one that rests is in one initial state.
MCInit ==
    /\ RegimeInit
    /\ part # "methods" => \A m \in Methods : rows[m].enabled
    /\ part # "settings" => row = CHOOSE v \in Values : TRUE
    /\ part # "keys" => published = {}
    /\ part = "keys" => ~apart
    /\ part = "banners" => apart

Bounds ==
    /\ part = "methods" => MethodsBounds
    /\ part = "catalogue" => ShopBounds
    /\ part = "audit" => AuditBounds

MCNext ==
    /\ UNCHANGED <<part, apart>>
    /\ PartMoves(part)
    /\ Bounds'

MCSpec == MCInit /\ [][MCNext]_mcvars

\* States that differ in an object nobody can reach are one state: FreeObject
\* is overwritten whole when it is handed out.
Reachable == Shop!Held \cup Shop!Range(detail)

View ==
    <<vars, settings, [o \in Reachable |-> heap[o]],
      db, cats, detail, list, shown, cTask, saved, unsaved, faults,
      home, google, audit, part, apart>>

Symmetric ==
    Permutations(Workers) \cup Permutations(Products) \cup Permutations(Words)

-----------------------------------------------------------------------------

\* While updates do not overlap, two methods are never primary, and one is
\* unless it was turned off or an update stopped half-way
\* (payment_method_service.go, Update).
OnePrimaryApart == apart => OnePrimary

\* While no update overlaps a reader, the cached list is what the table says
\* whenever no update is under way, unless the last save was not answered
\* (payment_method_service.go, ListEnabled).
ListIsCurrentApart == apart => ListIsCurrent

\* What holds of the payment methods while updates do not overlap.
MethodsAgreeApart == OnePrimaryApart /\ ListIsCurrentApart

Register == INSTANCE SettingsRegister WITH value <- row

\* Cache and table together are the register: no reader can tell them from
\* it (Get: "callers can't tell the difference except by response time")
\* while nothing overlaps an update, and what a page shows was saved at some
\* time however requests overlap, fail or stop.
ReadsLikeTheRow == Register!RegisterSpec

\* Every word of a page of the shop was saved or is being entered, until a
\* save fails (product_controller.go, Update; stated in Catalogue).
CatalogueInv == Shop!CatalogueInv

\* When nothing overlaps a write, and no write fails, every cached page and
\* listing is what a query would return (product_service.go: every write
\* clears the cache), whatever readers do to each other; and so is the list of
\* banners, whatever writes do to each other (banner_service.go).
CacheAgreesApart ==
    apart => /\ faults = 0 => Shop!CacheAgrees
             /\ Home!ListAgrees

\* When nothing overlaps a write and no write fails, a deleted product comes
\* back only by being created again, though Update starts from what is cached
\* and Save inserts a missing row (product_controller.go, Update).
DeletedStaysDeletedApart ==
    [][apart /\ faults = 0 => Shop!ReturnsByInsert]_<<db, saved>>

\* One sign-in at a time looks for or fetches Google's keys (oauth_google.go;
\* stated in GoogleKeys).
KeysInv == Google!KeysInv

\* Sign-ins are refused and keys are accepted only as Google's answers justify
\* (oauth_google.go, getKey; stated in GoogleKeys).
KeysAreCurrent == Google!KeysAreCurrent

\* Countries, records of removals and the trail they leave
\* (audit_log_service.go; stated in AuditLog).
AuditInv == Audit!AuditInv

\* Entries disappear only as a removal of their own view asked
\* (audit_log_repository.go; stated in AuditLog).
EntriesGoAsAsked == Audit!EntriesGoAsAsked
=============================================================================
