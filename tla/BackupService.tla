--------------------------- MODULE BackupService ---------------------------
(***************************************************************************)
(* The daily and the manual backup: services/backup_service.go and the     *)
(* handler in admin_backup_controller.go.                                  *)
(*                                                                         *)
(* One atomic flag keeps two runs apart. A dump is made of one query per   *)
(* table, in the alphabetical order of SHOW TABLES and outside of any      *)
(* transaction, while customers register and order. Three tables stand for *)
(* all: customers, order_items and orders, two references between them     *)
(* going with and against the order of reading.                            *)
(***************************************************************************)
EXTENDS Naturals, Sequences, FiniteSets

CONSTANTS
    Customers,
    Admins,        \* workers that serve "Backup now"
    Scheduler,     \* the goroutine of StartScheduler
    MaxOrders,     \* bound: orders of one customer
    MaxDays,       \* bound: midnights
    MaxCrashes     \* bound: restarts

ASSUME BackupAssumption ==
    /\ Scheduler \notin Admins
    /\ MaxOrders \in Nat /\ MaxDays \in Nat /\ MaxCrashes \in Nat

VARIABLES
    running,     \* the flag that claims the run
    configured,  \* the settings name a group and there is a bot token
    customers,   \* the table of this name
    orders,      \* the orders, each with its rows of order_items
    day,         \* the date in Phnom Penh, counted from the start
    next,        \* the midnight StartScheduler is waiting for
    task,        \* what each worker is doing
    delivered,   \* the dump that reached the group last, in a set
    tried,       \* history: tried[d], scheduled tries on day d, counted up to 2
    crashes      \* restarts so far

vars == <<running, configured, customers, orders, day, next, task,
          delivered, tried, crashes>>
store == <<customers, orders>>
clock == <<day, next, tried>>

-----------------------------------------------------------------------------

Workers == Admins \cup {Scheduler}

Order == Customers \X (1..MaxOrders)

\* Mutant of Tables: orders are read before their items.
TablesByHand == <<"customers", "orders", "order_items">>

\* SHOW TABLES.
Tables == <<"customers", "order_items", "orders">>

TableNames == {"customers", "order_items", "orders"}

\* The rows a SELECT of a table returns; an order stands for its items too.
Rows(t) == IF t = "customers" THEN customers ELSE orders

Content == [t \in TableNames |-> Rows(t)]
Empty == [t \in TableNames |-> {}]

Idle == [step |-> "idle"]

Init ==
    /\ running = 0
    /\ configured \in BOOLEAN
    /\ customers = {}
    /\ orders = {}
    /\ day = 0
    /\ next = 1
    /\ task = [w \in Workers |-> Idle]
    /\ delivered = {}
    /\ tried = [d \in 0..MaxDays |-> 0]
    /\ crashes = 0

At(w, s) == task[w].step = s
Goto(w, t) == task' = [task EXCEPT ![w] = t]

-----------------------------------------------------------------------------
(* Who calls RunBackup, and when.                                          *)

\* Mutant of Claim: the flag is set without looking at it.
ClaimBlindly(w) ==
    /\ running' = 1
    /\ Goto(w, [step |-> "settings"])

\* CompareAndSwapInt32, or ErrBackupAlreadyRunning.
Claim(w) ==
    \/ /\ running = 0
       /\ running' = 1
       /\ Goto(w, [step |-> "settings"])
    \/ /\ running = 1
       /\ UNCHANGED <<running, task>>

\* RunNow.
RunNow(w) ==
    /\ w \in Admins
    /\ At(w, "idle")
    /\ Claim(w)
    /\ UNCHANGED <<configured, store, clock, delivered, crashes>>

\* Mutant of NextMidnight: 24 hours are not added.
ThisMidnight(d) == d

\* Midnight of today is never in the future, so it is tomorrow's.
NextMidnight(d) == d + 1

\* The scheduler wakes. When the run is refused it computes the next
\* midnight at once; otherwise when the run is over.
Wake ==
    /\ At(Scheduler, "idle")
    /\ day >= next
    /\ Claim(Scheduler)
    /\ tried' = [tried EXCEPT ![day] = IF @ = 2 THEN 2 ELSE @ + 1]
    /\ next' = IF running = 1 THEN NextMidnight(day) ELSE next
    /\ UNCHANGED <<configured, store, day, delivered, crashes>>

\* RunBackup returns: the deferred store releases the flag. The scheduler
\* goes back to sleep.
Return(w) ==
    /\ running' = 0
    /\ Goto(w, Idle)
    /\ next' = IF w = Scheduler THEN NextMidnight(day) ELSE next

-----------------------------------------------------------------------------
(* RunBackup and generateDump.                                             *)

LoadSettings(w) ==
    /\ At(w, "settings")
    /\ IF configured
       THEN /\ Goto(w, [step |-> "dump", table |-> 1, dump |-> Empty,
                        begun |-> Content])
            /\ UNCHANGED <<running, next>>
       ELSE Return(w)
    /\ UNCHANGED <<configured, store, day, tried, delivered, crashes>>

\* SHOW CREATE TABLE and one SELECT, whose result is one moment's.
DumpTable(w) ==
    /\ At(w, "dump")
    /\ LET t == task[w]
           name == Tables[t.table]
       IN Goto(w, [t EXCEPT !.dump[name] = Rows(name),
                            !.table = @ + 1,
                            !.step = IF t.table = Len(Tables) THEN "send" ELSE @])
    /\ UNCHANGED <<running, configured, store, clock, delivered, crashes>>

Document(t) == [dump |-> t.dump, begun |-> t.begun, made |-> Content]

\* sendDocument answers; or the message arrives and its answer does not.
Send(w) ==
    /\ At(w, "send")
    /\ delivered' = {Document(task[w])}
    /\ Return(w)
    /\ UNCHANGED <<configured, store, day, tried, crashes>>

\* Mutant of Fail: the flag is released on success only.
FailClaimed(w) ==
    /\ ~At(w, "idle")
    /\ Goto(w, Idle)
    /\ next' = IF w = Scheduler THEN NextMidnight(day) ELSE next
    /\ UNCHANGED <<running, configured, store, day, tried, delivered, crashes>>

\* A statement fails, the dump is larger than Telegram takes, the message is
\* refused, or a panic is recovered: the deferred calls run all the same.
Fail(w) ==
    /\ ~At(w, "idle")
    /\ Return(w)
    /\ UNCHANGED <<configured, store, day, tried, delivered, crashes>>

-----------------------------------------------------------------------------
(* What goes on meanwhile.                                                 *)

Register(c) ==
    /\ c \notin customers
    /\ customers' = customers \cup {c}
    /\ UNCHANGED <<running, configured, orders, clock, task, delivered, crashes>>

\* Orders.Create inserts an order and its items in one transaction.
PlaceOrder(o) ==
    /\ o[1] \in customers
    /\ o \notin orders
    /\ orders' = orders \cup {o}
    /\ UNCHANGED <<running, configured, customers, clock, task, delivered,
                   crashes>>

Configure ==
    /\ configured' = ~configured
    /\ UNCHANGED <<running, store, clock, task, delivered, crashes>>

Midnight ==
    /\ day < MaxDays
    /\ day' = day + 1
    /\ UNCHANGED <<running, configured, store, next, task, delivered, tried,
                   crashes>>

\* The process restarts; main calls StartScheduler again.
Crash ==
    /\ crashes < MaxCrashes
    /\ crashes' = crashes + 1
    /\ running' = 0
    /\ task' = [w \in Workers |-> Idle]
    /\ next' = NextMidnight(day)
    /\ UNCHANGED <<configured, store, day, delivered, tried>>

Run(w) == LoadSettings(w) \/ DumpTable(w) \/ Send(w) \/ Fail(w)

Next ==
    \/ \E w \in Workers : RunNow(w) \/ Run(w)
    \/ Wake
    \/ \E c \in Customers : Register(c)
    \/ \E o \in Order : PlaceOrder(o)
    \/ Configure \/ Midnight \/ Crash

Spec == Init /\ [][Next]_vars

\* Goroutines run, days pass, and a query or an upload ends: the upload has
\* no timeout of its own, so this is an assumption about Telegram.
Fairness ==
    /\ WF_vars(Wake)
    /\ WF_vars(Midnight)
    /\ \A w \in Workers : WF_vars(Run(w))

FairSpec == Spec /\ Fairness

-----------------------------------------------------------------------------

\* Dumps hold rows of the tables they are named after.
TypeOK ==
    /\ running \in 0..1 /\ configured \in BOOLEAN
    /\ customers \subseteq Customers /\ orders \subseteq Order
    /\ day \in 0..MaxDays /\ next \in 0..(MaxDays + 1)
    /\ tried \in [0..MaxDays -> 0..2]
    /\ \A x \in delivered : /\ x.dump["customers"] \subseteq Customers
                            /\ x.dump["orders"] \subseteq Order
    /\ crashes \in 0..MaxCrashes

\* Two runs never overlap, and the flag is set exactly while one is under
\* way, so no failure and no panic locks later backups out (running: "guards
\* against two backups ever executing at once").
OneRun == Cardinality({w \in Workers : ~At(w, "idle")}) = running

\* The flag, the tables and the dumps are well formed, and runs are exclusive.
BackupInv == TypeOK /\ OneRun

\* A delivered dump has, of every table, all that was there when the run
\* began and nothing that was not there when it was made, although each table
\* is read at a moment of its own (generateDump: "complete").
DumpIsComplete ==
    \A x \in delivered : \A t \in TableNames :
        x.begun[t] \subseteq x.dump[t] /\ x.dump[t] \subseteq x.made[t]

\* Every order line in a dump has its order there: lines are read before the
\* orders they belong to. An import, which has foreign keys unchecked
\* (generateDump), would not notice an order that is missing.
LinesHaveOrders ==
    \A x \in delivered : x.dump["order_items"] \subseteq x.dump["orders"]

\* A dump misses nothing that was there when it began and no order of a line.
DumpIsConsistent == DumpIsComplete /\ LinesHaveOrders

\* The scheduler tries once a day at most, even when a run lasts beyond
\* midnight or the process restarts (StartScheduler: "once a day").
OnceADay == \A d \in 0..MaxDays : tried[d] <= 1

\* Every midnight the scheduler waits for passes with an attempt or a
\* restart, and it goes on to wait for a later one.
EveryNight == \A d \in 1..MaxDays : next = d ~> next > d

\* The next backup is not locked out for ever.
RunEnds == running = 1 ~> running = 0
=============================================================================
