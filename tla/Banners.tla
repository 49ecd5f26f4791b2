------------------------------ MODULE Banners ------------------------------
(***************************************************************************)
(* The banners of the home page: banner_service.go, banner_controller.go.  *)
(* The list of active banners is cached and cleared by every write; an     *)
(* update reads a row and saves all of it, and a save inserts a row that   *)
(* is missing. A write may fail, or its answer may be lost.                *)
(***************************************************************************)
EXTENDS Naturals, Functions

CONSTANTS
    Contents,    \* what an admin may enter for a banner
    Workers,     \* requests handled at the same time
    NotCached,   \* the list is missing or expired
    MaxBanners   \* bound: banners ever created

VARIABLES
    banners,    \* the banners table: id -> row
    given,      \* ids given out so far
    list,       \* cache "banners:active": the active banners
    task,       \* what each worker is doing
    lost        \* history: the answer to a write was lost

vars == <<banners, given, list, task, lost>>

-----------------------------------------------------------------------------

Idle == [step |-> "idle"]

Init ==
    /\ banners = <<>>
    /\ given = 0
    /\ list = NotCached
    /\ task = [w \in Workers |-> Idle]
    /\ lost = FALSE

At(w, s) == task[w].step = s
Goto(w, t) == task' = [task EXCEPT ![w] = t]

Put(b, row) == [x \in DOMAIN banners \cup {b} |-> IF x = b THEN row ELSE banners[x]]

\* Mutant of Active: what the admin's own list shows is cached.
ActiveAll == banners

\* FindActiveOrdered. The order is left out.
Active == Restrict(banners, {b \in DOMAIN banners : banners[b].active})

\* Mutant of ThenClear: the cache keeps its list.
ThenClearNot(w) == Goto(w, Idle) /\ UNCHANGED lost

\* After a write the cache is cleared, in a step of its own; when the answer
\* is lost the request ends with an error instead.
ThenClear(w) ==
    \/ Goto(w, [step |-> "clear"]) /\ UNCHANGED lost
    \/ Goto(w, Idle) /\ lost' = TRUE

-----------------------------------------------------------------------------

ListActiveRead(w) ==
    /\ At(w, "idle")
    /\ list = NotCached
    /\ Goto(w, [step |-> "fill", found |-> Active])
    /\ UNCHANGED <<banners, given, list, lost>>

ListActiveFill(w) ==
    /\ At(w, "fill")
    /\ list' = task[w].found
    /\ Goto(w, Idle)
    /\ UNCHANGED <<banners, given, lost>>

Create(w, c, a) ==
    /\ At(w, "idle")
    /\ given < MaxBanners
    /\ given' = given + 1
    /\ banners' = Put(given + 1, [content |-> c, active |-> a])
    /\ ThenClear(w)
    /\ UNCHANGED list

UpdateRead(w, b) ==
    /\ At(w, "idle")
    /\ b \in DOMAIN banners
    /\ Goto(w, [step |-> "save", banner |-> b, active |-> banners[b].active])
    /\ UNCHANGED <<banners, given, list, lost>>

\* `sent` holds the isActive that was sent, if one was: else the row's stays.
UpdateSave(w, c, sent) ==
    /\ At(w, "save")
    /\ \E a \in IF sent = {} THEN {task[w].active} ELSE sent :
          banners' = Put(task[w].banner, [content |-> c, active |-> a])
    /\ ThenClear(w)
    /\ UNCHANGED <<given, list>>

UpdateFails(w) ==
    /\ At(w, "save")
    /\ Goto(w, Idle)
    /\ UNCHANGED <<banners, given, list, lost>>

\* Any id may be sent.
Delete(w, b) ==
    /\ At(w, "idle")
    /\ banners' = Restrict(banners, DOMAIN banners \ {b})
    /\ ThenClear(w)
    /\ UNCHANGED <<given, list>>

Clear(w) ==
    /\ At(w, "clear")
    /\ list' = NotCached
    /\ Goto(w, Idle)
    /\ UNCHANGED <<banners, given, lost>>

\* bannerCacheTTL has passed.
Expire ==
    /\ list # NotCached
    /\ list' = NotCached
    /\ UNCHANGED <<banners, given, task, lost>>

Restart ==
    /\ list' = NotCached
    /\ task' = [w \in Workers |-> Idle]
    /\ UNCHANGED <<banners, given, lost>>

Sent == {{}} \cup {{a} : a \in BOOLEAN}

Request(w) ==
    \/ ListActiveRead(w) \/ ListActiveFill(w) \/ Clear(w) \/ UpdateFails(w)
    \/ \E c \in Contents, a \in BOOLEAN : Create(w, c, a)
    \/ \E c \in Contents, sent \in Sent : UpdateSave(w, c, sent)
    \/ \E b \in 1..given : UpdateRead(w, b) \/ Delete(w, b)

Next == (\E w \in Workers : Request(w)) \/ Expire \/ Restart

Spec == Init /\ [][Next]_vars

-----------------------------------------------------------------------------

\* Unless the answer to a write was lost or a reader filled the cache across a
\* write, the cached list is the active banners once every write has cleared
\* it, though writes overlap each other and one may re-create what another
\* deleted (banner_service.go: every write clears the cache).
ListAgrees ==
    (list # NotCached /\ ~lost /\ \A w \in Workers : ~At(w, "clear")) =>
        /\ DOMAIN list = {b \in DOMAIN banners : banners[b].active}
        /\ \A b \in DOMAIN list : list[b] = banners[b]
=============================================================================
