------------------------------ MODULE AuditLog ------------------------------
(***************************************************************************)
(* The audit log: audit_log_service.go, audit_log_repository.go,           *)
(* ip_intelligence_service.go and admin_audit_log_controller.go. A handler *)
(* that did something records it; a goroutine per entry looks up the       *)
(* country of its address later and patches the row, if it is still there. *)
(* Staff remove entries by age or by choice, in either of the two views,   *)
(* and each removal is recorded in its turn. Writes may fail, their        *)
(* answers may be lost, and the process may restart at any time.           *)
(*                                                                         *)
(* An entry is its view, month, address and what it says of removals. The  *)
(* country of an address is named by the address; Ips lists addresses the  *)
(* lookup service is asked about, Private stands for the others.           *)
(***************************************************************************)
EXTENDS Integers, FiniteSets, FiniteSetsExt, Functions

CONSTANTS
    Ips,       \* public addresses
    Private,   \* an address that is never looked up
    Months,    \* the months in which something happens
    Workers,   \* removals handled at the same time
    MaxId,     \* bound: entries ever written
    Unknown    \* the country of an entry or a cached answer without one

\* What the constants stand for.
AuditAssumption ==
    /\ Months \subseteq Nat /\ Months # {}
    /\ IsFiniteSet(Workers)
    /\ MaxId \in Nat

VARIABLES
    entries,   \* id -> entry: the table audit_logs
    written,   \* ids given out so far
    month,     \* the calendar month in Phnom Penh
    known,     \* s.cache of the lookups: address -> country
    lookups,   \* id -> what its goroutine has come to
    task,      \* the removal each worker handles
    reported,  \* history: the removals told of by entries ever written
    lost       \* history: a write's answer, or a step after it, was lost

vars == <<entries, written, month, known, lookups, task, reported, lost>>

-----------------------------------------------------------------------------

Views == {"admin", "customer"}

Idle == [step |-> "idle"]

Earliest == CHOOSE m \in Months : \A n \in Months : m <= n

Init ==
    /\ entries = <<>>
    /\ written = 0
    /\ month = Earliest
    /\ known = <<>>
    /\ lookups = <<>>
    /\ task = [w \in Workers |-> Idle]
    /\ reported = 0
    /\ lost = FALSE

At(w, s) == task[w].step = s
Become(w, t) == task' = [task EXCEPT ![w] = t]

Put(f, k, v) == [x \in DOMAIN f \cup {k} |-> IF x = k THEN v ELSE f[x]]
Without(f, S) == Restrict(f, DOMAIN f \ S)

-----------------------------------------------------------------------------
(* Recording: AuditLogService.Log.                                         *)

\* The row, and the goroutine that is started for it. `tells` is the number
\* of removals the entry's description speaks of, 0 for any other entry.
Insert(view, ip, tells) ==
    LET id == written + 1 IN
    /\ written < MaxId
    /\ written' = id
    /\ entries' = Put(entries, id, [view |-> view, month |-> month, ip |-> ip,
                                    tells |-> tells, country |-> Unknown])
    /\ lookups' = IF ip = Private THEN lookups
                  ELSE Put(lookups, id, [step |-> "look", ip |-> ip])

\* Any audited handler of the program; what fails to be written is dropped.
Log(view, ip) ==
    /\ Insert(view, ip, 0)
    /\ UNCHANGED <<month, known, task, reported, lost>>

-----------------------------------------------------------------------------
(* The goroutine of an entry: Lookup, then UpdateGeoInfo.                  *)

Finish(id) == lookups' = Without(lookups, {id})
GoOn(id, s, c) ==
    lookups' = [lookups EXCEPT ![id] = [step |-> s, ip |-> @.ip, country |-> c]]

Lookup(id) ==
    /\ lookups[id].step = "look"
    /\ LET ip == lookups[id].ip IN
       IF ip \notin DOMAIN known
       THEN lookups' = [lookups EXCEPT ![id].step = "fetch"]
       ELSE IF known[ip] = Unknown THEN Finish(id)
       ELSE GoOn(id, "patch", known[ip])
    /\ UNCHANGED <<entries, written, month, known, task, reported, lost>>

\* The service answers, or it does not: that too is remembered for an hour.
Fetch(id) ==
    /\ lookups[id].step = "fetch"
    /\ \E c \in {lookups[id].ip, Unknown} : GoOn(id, "remember", c)
    /\ UNCHANGED <<entries, written, month, known, task, reported, lost>>

Remember(id) ==
    LET l == lookups[id] IN
    /\ l.step = "remember"
    /\ known' = Put(known, l.ip, l.country)
    /\ IF l.country = Unknown THEN Finish(id) ELSE GoOn(id, "patch", l.country)
    /\ UNCHANGED <<entries, written, month, task, reported, lost>>

\* Mutant of UpdateGeoInfo: the entry of before the lookup is saved.
UpdateGeoInfoSave(id) ==
    /\ lookups[id].step = "patch"
    /\ entries' = Put(entries, id, [view |-> "customer", month |-> month,
                        ip |-> lookups[id].ip, tells |-> 0,
                        country |-> lookups[id].country])
    /\ Finish(id)
    /\ UNCHANGED <<written, month, known, task, reported, lost>>

\* One column, of the row with this id if there is one.
UpdateGeoInfo(id) ==
    /\ lookups[id].step = "patch"
    /\ entries' = IF id \in DOMAIN entries
                  THEN [entries EXCEPT ![id].country = lookups[id].country]
                  ELSE entries
    /\ Finish(id)
    /\ UNCHANGED <<written, month, known, task, reported, lost>>

\* An hour has passed since an answer was remembered.
Expire(ip) ==
    /\ ip \in DOMAIN known
    /\ known' = Without(known, {ip})
    /\ UNCHANGED <<entries, written, month, lookups, task, reported, lost>>

-----------------------------------------------------------------------------
(* Removing: Cleanup and DeleteSelected, from the view the route names.    *)

MonthsBack ==
    [this_month |-> 0, last_month |-> 1, 3_months |-> 3, 5_months |-> 5]

\* Mutant of Cutoff: months are taken as thirty days, and one falls short.
CutoffLate(preset) == month - MonthsBack[preset] + 1

\* retentionCutoff: the start of the month MonthsBack before this one.
Cutoff(preset) == month - MonthsBack[preset]

Cleanup(w, view, preset) ==
    /\ At(w, "idle")
    /\ Become(w, [step |-> "delete", view |-> view, how |-> "age",
                  cutoff |-> Cutoff(preset), asked |-> month - MonthsBack[preset]])
    /\ UNCHANGED <<entries, written, month, known, lookups, reported, lost>>

\* Any ids may be sent, those of the other view, of no entry and of entries not
\* yet written included.
DeleteSelected(w, view, ids) ==
    /\ At(w, "idle")
    /\ Become(w, [step |-> "delete", view |-> view, how |-> "choice", ids |-> ids])
    /\ UNCHANGED <<entries, written, month, known, lookups, reported, lost>>

\* Mutant of Doomed: the ids sent are taken as they are, from either view.
DoomedOfEither(t) ==
    {i \in DOMAIN entries :
        IF t.how = "age" THEN entries[i].view = t.view /\ entries[i].month < t.cutoff
        ELSE i \in t.ids}

\* The WHERE of DeleteOlderThan and DeleteByIDs.
Doomed(t) ==
    {i \in DOMAIN entries :
        /\ entries[i].view = t.view
        /\ IF t.how = "age" THEN entries[i].month < t.cutoff ELSE i \in t.ids}

\* Mutant of Affected: the ids sent are counted, not the rows removed.
AffectedAsSent(t) == IF t.how = "age" THEN Cardinality(Doomed(t)) ELSE Cardinality(t.ids)

\* RowsAffected.
Affected(t) == Cardinality(Doomed(t))

Remove(w) == entries' = Without(entries, Doomed(task[w]))

Delete(w) ==
    /\ At(w, "delete")
    /\ Remove(w)
    /\ Become(w, [step |-> "report", view |-> task[w].view,
                  count |-> Affected(task[w])])
    /\ UNCHANGED <<written, month, known, lookups, reported, lost>>

\* The statement fails, or its answer is lost after it ran; either way
\* nothing is recorded.
DeleteFails(w) ==
    /\ At(w, "delete")
    /\ Remove(w) \/ UNCHANGED entries
    /\ Become(w, Idle)
    /\ lost' = TRUE
    /\ UNCHANGED <<written, month, known, lookups, reported>>

\* The removal is an entry of the staff's view, whichever view it was from.
Report(w, ip) ==
    /\ At(w, "report")
    /\ Insert("admin", ip, task[w].count)
    /\ reported' = reported + task[w].count
    /\ Become(w, Idle)
    /\ UNCHANGED <<month, known, lost>>

\* Log swallows its errors.
ReportFails(w) ==
    /\ At(w, "report")
    /\ Become(w, Idle)
    /\ lost' = TRUE
    /\ UNCHANGED <<entries, written, month, known, lookups, reported>>

-----------------------------------------------------------------------------

MonthPasses ==
    /\ \E m \in Months : m > month /\ month' = m
    /\ UNCHANGED <<entries, written, known, lookups, task, reported, lost>>

\* Goroutines, the cache and requests are gone, and never taken up again.
Restart ==
    /\ known' = <<>>
    /\ lookups' = <<>>
    /\ task' = [w \in Workers |-> Idle]
    /\ lost' = (lost \/ \E w \in Workers : At(w, "report"))
    /\ UNCHANGED <<entries, written, month, reported>>

Addresses == Ips \cup {Private}

Removal(w) ==
    \/ \E view \in Views, preset \in DOMAIN MonthsBack : Cleanup(w, view, preset)
    \/ \E view \in Views, ids \in SUBSET (1..MaxId) \ {{}} :
          DeleteSelected(w, view, ids)
    \/ Delete(w) \/ DeleteFails(w)
    \/ \E ip \in Addresses : Report(w, ip)
    \/ ReportFails(w)

Geolocation(id) ==
    Lookup(id) \/ Fetch(id) \/ Remember(id) \/ UpdateGeoInfo(id)

Next ==
    \/ \E view \in Views, ip \in Addresses : Log(view, ip)
    \/ \E id \in DOMAIN lookups : Geolocation(id)
    \/ \E ip \in Ips : Expire(ip)
    \/ \E w \in Workers : Removal(w)
    \/ MonthPasses
    \/ Restart

Spec == Init /\ [][Next]_vars

-----------------------------------------------------------------------------

TypeOK ==
    /\ written \in 0..MaxId
    /\ DOMAIN entries \subseteq 1..written
    /\ month \in Months
    /\ DOMAIN known \subseteq Ips
    /\ DOMAIN lookups \subseteq 1..written

\* An entry shows no country but that of its own address, however lookups of
\* several entries and addresses share the cache and end in any order.
CountryIsOwn ==
    \A i \in DOMAIN entries : entries[i].country \in {Unknown, entries[i].ip}

Removed == (1..written) \ DOMAIN entries
InFlight == {w \in Workers : At(w, "report")}

\* What the log tells of removals adds up to the entries that were removed,
\* however removals overlap and even when they remove each other's records,
\* unless a write or a process was lost on the way.
EveryRemovalIsReported ==
    ~lost => Cardinality(Removed)
               = reported + MapThenSumSet(LAMBDA w : task[w].count, InFlight)

\* A log from which something was removed still says that something was, once
\* the removals have ended: none removes every trace of itself and the others
\* (admin_audit_log_controller.go: "a real accountability trail").
ATrailRemains ==
    (Removed # {} /\ ~lost /\ InFlight = {}) =>
        \E i \in DOMAIN entries : entries[i].tells > 0

AuditInv == TypeOK /\ CountryIsOwn /\ EveryRemovalIsReported /\ ATrailRemains

\* Entries disappear only by a removal from their own view that chose them or
\* found them older than the months it was asked to keep, counted from the
\* time it does so; and no lookup that ends late brings one back.
EntriesGoAsAsked ==
    [][/\ \A i \in DOMAIN entries \ DOMAIN entries' :
             \E w \in Workers :
                LET t == task[w] IN
                /\ At(w, "delete") /\ ~At(w, "delete")'
                /\ t.view = entries[i].view
                /\ IF t.how = "age" THEN entries[i].month < t.asked ELSE i \in t.ids
       /\ \A i \in DOMAIN entries' \ DOMAIN entries : i > written]_vars
=============================================================================
