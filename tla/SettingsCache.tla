--------------------------- MODULE SettingsCache ---------------------------
(***************************************************************************)
(* The settings row and its cache: services/settings_service.go. Get fills *)
(* the cache on a miss; Update saves the row and then puts the saved value *)
(* into the cache. Each is several steps that other requests run between.  *)
(***************************************************************************)
EXTENDS Naturals

CONSTANTS
    Values,      \* the settings an admin may submit
    Workers,     \* requests being handled at the same time
    NotCached    \* the entry is missing or expired

\* What the constants stand for.
SettingsAssumption == Values # {} /\ NotCached \notin Values

VARIABLES
    row,      \* the settings row
    cache,    \* the "settings" entry
    page,     \* page[w]: what worker w last answered
    task,     \* what each worker is doing
    stored    \* history: every value the row has had

vars == <<row, cache, page, task, stored>>

-----------------------------------------------------------------------------

Idle == [step |-> "idle"]

Init ==
    /\ row \in Values
    /\ cache = NotCached
    /\ page = [w \in Workers |-> [shown |-> row, turn |-> FALSE]]
    /\ task = [w \in Workers |-> Idle]
    /\ stored = {row}

At(w, s) == task[w].step = s
Goto(w, s, v) == task' = [task EXCEPT ![w] = [step |-> s, value |-> v]]
Finish(w) == task' = [task EXCEPT ![w] = Idle]
\* turn tells an answer from the one before it, should both show the same.
Answer(w, v) == page' = [page EXCEPT ![w] = [shown |-> v, turn |-> ~@.turn]]

\* Mutant of GetHit: an entry that expired is served.
GetHitExpired(w) ==
    /\ At(w, "idle")
    /\ Answer(w, cache)
    /\ UNCHANGED <<row, cache, task, stored>>

\* Get, served from the cache.
GetHit(w) ==
    /\ At(w, "idle")
    /\ cache # NotCached
    /\ Answer(w, cache)
    /\ UNCHANGED <<row, cache, task, stored>>

\* Get, on a miss: read the row, then Cache.Set.
GetRead(w) ==
    /\ At(w, "idle")
    /\ cache = NotCached
    /\ Goto(w, "fill", row)
    /\ UNCHANGED <<row, cache, page, stored>>

GetFill(w) ==
    /\ At(w, "fill")
    /\ cache' = task[w].value
    /\ Answer(w, task[w].value)
    /\ Finish(w)
    /\ UNCHANGED <<row, stored>>

\* Update reads the row and replaces every field a reader sees.
UpdateRead(w, v) ==
    /\ At(w, "idle")
    /\ Goto(w, "save", v)
    /\ UNCHANGED <<row, cache, page, stored>>

UpdateSave(w) ==
    /\ At(w, "save")
    /\ row' = task[w].value
    /\ stored' = stored \cup {task[w].value}
    /\ Goto(w, "cache", task[w].value)
    /\ UNCHANGED <<cache, page>>

\* The database refuses the save; the cache is not touched.
UpdateFail(w) ==
    /\ At(w, "save")
    /\ Finish(w)
    /\ UNCHANGED <<row, cache, page, stored>>

\* Mutant of UpdateCache: the entry is left as it was.
UpdateCacheNot(w) ==
    /\ At(w, "cache")
    /\ Finish(w)
    /\ UNCHANGED <<row, cache, page, stored>>

\* Re-caching what was saved.
UpdateCache(w) ==
    /\ At(w, "cache")
    /\ cache' = task[w].value
    /\ Finish(w)
    /\ UNCHANGED <<row, page, stored>>

Expire ==
    /\ cache' = NotCached
    /\ UNCHANGED <<row, page, task, stored>>

Crash ==
    /\ cache' = NotCached
    /\ task' = [w \in Workers |-> Idle]
    /\ UNCHANGED <<row, page, stored>>

Next ==
    \/ \E w \in Workers :
          \/ GetHit(w) \/ GetRead(w) \/ GetFill(w)
          \/ \E v \in Values : UpdateRead(w, v)
          \/ UpdateSave(w) \/ UpdateFail(w) \/ UpdateCache(w)
    \/ Expire
    \/ Crash

Spec == Init /\ [][Next]_vars

-----------------------------------------------------------------------------

\* The row, its cache and the pages hold settings.
TypeOK ==
    /\ row \in Values
    /\ cache \in Values \cup {NotCached}
    /\ page \in [Workers -> [shown : Values, turn : BOOLEAN]]
    /\ stored \subseteq Values
=============================================================================
