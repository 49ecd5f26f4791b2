------------------------ MODULE BackupServiceProofs ------------------------
(***************************************************************************)
(* Proofs about BackupService, for any number of customers, orders, days   *)
(* and restarts: runs never overlap and none keeps the flag, a delivered   *)
(* dump misses nothing, and the scheduler tries once a day.                *)
(*                                                                         *)
(* A dump under way is compared with the tables as they are now: they only *)
(* grow, so what was read stays below them, and the lines that were read   *)
(* stay below the orders that are read after them.                         *)
(***************************************************************************)
EXTENDS BackupService, FiniteSetTheorems, TLAPS

Dump == [TableNames -> SUBSET (Customers \cup Order)]

Dumping == [step: {"dump", "send"}, table: 1..4, dump: Dump, begun: Dump]

Task == {Idle} \cup [step: {"settings"}] \cup Dumping

Types ==
    /\ TypeOK
    /\ task \in [Workers -> Task]

\* The flag is down and nobody runs, or it is up and exactly one does.
FlagInv ==
    \/ running = 0 /\ \A w \in Workers : At(w, "idle")
    \/ running = 1 /\ \E w \in Workers : \A v \in Workers : ~At(v, "idle") <=> v = w

\* Between wakings every day that was tried is behind the midnight that is
\* waited for; a run that lasts is followed by a later one.
ClockInv ==
    \A d \in 0..MaxDays :
        /\ tried[d] <= 1
        /\ tried[d] = 1 => d <= day /\ (At(Scheduler, "idle") => d < next)

\* A table of this name was read when `table` is the next one.
Read(name, table) ==
    \/ name = "customers" /\ table > 1
    \/ name = "order_items" /\ table > 2
    \/ name = "orders" /\ table > 3

\* What was read lies between the tables of the beginning and of now.
DumpOK(t) ==
    /\ t.step = "send" <=> t.table = 4
    /\ \A name \in TableNames :
          /\ t.begun[name] \subseteq Rows(name)
          /\ Read(name, t.table) => /\ t.begun[name] \subseteq t.dump[name]
                                    /\ t.dump[name] \subseteq Rows(name)
    /\ t.table = 4 => t.dump["order_items"] \subseteq t.dump["orders"]

DumpInv ==
    /\ \A w \in Workers : task[w].step \in {"dump", "send"} => DumpOK(task[w])
    /\ DumpIsConsistent

IInv == Types /\ FlagInv /\ ClockInv /\ DumpInv

-----------------------------------------------------------------------------

\* One run or none: the flag counts the runs.
LEMMA FlagCounts == FlagInv => OneRun
<1> SUFFICES ASSUME FlagInv PROVE OneRun
    OBVIOUS
<1> DEFINE R == {w \in Workers : ~At(w, "idle")}
<1>1. CASE running = 0 /\ \A w \in Workers : At(w, "idle")
    <2>1. R = {}
        BY <1>1
    <2> QED BY <1>1, <2>1, FS_EmptySet DEF OneRun
<1>2. CASE running = 1 /\ \E w \in Workers : \A v \in Workers : ~At(v, "idle") <=> v = w
    <2>1. PICK w \in Workers : \A v \in Workers : ~At(v, "idle") <=> v = w
        BY <1>2
    <2>2. R = {w}
        BY <2>1
    <2> QED BY <1>2, <2>2, FS_Singleton DEF OneRun
<1> QED BY <1>1, <1>2 DEF FlagInv

\* Before anything happened.
LEMMA BackupInit == Init => IInv
<1> SUFFICES ASSUME Init PROVE IInv
    OBVIOUS
<1>1. Types
    BY BackupAssumption DEF Init, Types, TypeOK, Task
<1>2. FlagInv
    BY DEF Init, FlagInv, At, Idle
<1>3. ClockInv
    BY DEF Init, ClockInv
<1>4. DumpInv
    BY DEF Init, DumpInv, At, Idle, DumpIsConsistent, DumpIsComplete, LinesHaveOrders
<1> QED BY <1>1, <1>2, <1>3, <1>4 DEF IInv

\* A worker that gives the flag back was the only one that ran.
LEMMA ReturnStep ==
    ASSUME IInv, NEW w \in Workers, ~At(w, "idle"), Return(w),
           UNCHANGED <<configured, store, day, tried, crashes>>,
           delivered' \subseteq delivered \cup {Document(task[w])},
           delivered' # delivered => At(w, "send")
    PROVE  IInv'
<1> USE BackupAssumption
<1>1. /\ task' = [task EXCEPT ![w] = Idle] /\ task \in [Workers -> Task]
      /\ running' = 0 /\ next' \in {next, day + 1}
      /\ w = Scheduler => next' = day + 1
      /\ w # Scheduler => next' = next
    BY DEF Return, Goto, IInv, Types, NextMidnight
<1>2. \A v \in Workers : At(v, "idle")'
    BY <1>1 DEF IInv, FlagInv, At, Idle
<1>3. FlagInv'
    BY <1>1, <1>2 DEF FlagInv
<1>4. ClockInv'
    <2>1. SUFFICES ASSUME NEW d \in 0..MaxDays, tried[d] = 1
                   PROVE  d <= day /\ d < next'
        BY DEF ClockInv, IInv
    <2>2. d <= day /\ (At(Scheduler, "idle") => d < next)
        BY <2>1 DEF IInv, ClockInv
    <2>3. CASE w = Scheduler
        BY <1>1, <2>2, <2>3 DEF IInv, Types, TypeOK
    <2>4. CASE w # Scheduler
        <3>1. At(Scheduler, "idle")
            BY <2>4 DEF IInv, FlagInv, Workers
        <3> QED BY <1>1, <2>2, <2>4, <3>1
    <2> QED BY <2>3, <2>4
<1>5. ASSUME NEW x \in delivered'
      PROVE  /\ \A t \in TableNames : /\ x.begun[t] \subseteq x.dump[t]
                                      /\ x.dump[t] \subseteq x.made[t]
             /\ x.dump["order_items"] \subseteq x.dump["orders"]
             /\ x.dump["customers"] \subseteq Customers
             /\ x.dump["orders"] \subseteq Order
    <2>1. CASE x \in delivered
        BY <2>1 DEF IInv, DumpInv, DumpIsConsistent, DumpIsComplete, LinesHaveOrders, Types, TypeOK
    <2>2. CASE x \notin delivered
        <3>1. x = Document(task[w]) /\ At(w, "send")
            BY <2>2
        <3>2. DumpOK(task[w]) /\ task[w].table = 4
            BY <3>1 DEF IInv, DumpInv, At, DumpOK
        <3>3. \A t \in TableNames : /\ Read(t, 4)
                                    /\ x.begun[t] = task[w].begun[t]
                                    /\ x.dump[t] = task[w].dump[t]
                                    /\ x.made[t] = Rows(t)
            BY <3>1 DEF Document, Content, Read, TableNames
        <3>4. \A t \in TableNames : /\ x.begun[t] \subseteq x.dump[t]
                                    /\ x.dump[t] \subseteq Rows(t)
            BY <3>2, <3>3 DEF DumpOK
        <3>5. x.dump["order_items"] \subseteq x.dump["orders"]
            BY <3>2, <3>3 DEF DumpOK, TableNames
        <3>6. Rows("customers") \subseteq Customers /\ Rows("orders") \subseteq Order
            BY DEF Rows, IInv, Types, TypeOK
        <3> QED BY <3>3, <3>4, <3>5, <3>6 DEF TableNames
    <2> QED BY <2>1, <2>2
<1>6. Types'
    <2>1. task' \in [Workers -> Task]
        BY <1>1 DEF Task
    <2>2. next' \in 0..(MaxDays + 1)
        BY <1>1 DEF IInv, Types, TypeOK
    <2> QED BY <1>1, <1>5, <2>1, <2>2 DEF IInv, Types, TypeOK, store
<1>7. DumpInv'
    BY <1>2, <1>5 DEF DumpInv, DumpIsConsistent, DumpIsComplete, LinesHaveOrders, At
<1> QED BY <1>3, <1>4, <1>6, <1>7 DEF IInv

\* A worker that raises the flag is the one that runs.
LEMMA ClaimStep ==
    ASSUME IInv, NEW w \in Workers, running = 0, running' = 1,
           Goto(w, [step |-> "settings"]),
           UNCHANGED <<configured, store, day, delivered, crashes>>,
           next' = next, ClockInv', tried' \in [0..MaxDays -> 0..2]
    PROVE  IInv'
<1>1. /\ task' = [task EXCEPT ![w] = [step |-> "settings"]]
      /\ task \in [Workers -> Task] /\ \A v \in Workers : At(v, "idle")
    BY DEF Goto, IInv, Types, FlagInv
<1>2. Types'
    BY <1>1 DEF IInv, Types, TypeOK, store, Task
<1>3. FlagInv'
    BY <1>1 DEF FlagInv, At
<1>4. DumpInv'
    BY <1>1 DEF IInv, DumpInv, DumpIsConsistent, DumpIsComplete, LinesHaveOrders, At
<1> QED BY <1>2, <1>3, <1>4 DEF IInv

\* The tables only grow, and what is read stays below them.
LEMMA TablesGrow ==
    ASSUME IInv, customers \subseteq customers', orders \subseteq orders',
           UNCHANGED <<task, delivered>>
    PROVE  DumpInv'
<1>1. \A name \in TableNames : Rows(name) \subseteq Rows(name)'
    BY DEF Rows
<1>2. ASSUME NEW w \in Workers, task[w].step \in {"dump", "send"}
      PROVE  DumpOK(task[w])'
    <2>1. DumpOK(task[w])
        BY <1>2 DEF IInv, DumpInv
    <2> QED BY <1>1, <2>1 DEF DumpOK, Read
<1> QED BY <1>2 DEF IInv, DumpInv, DumpIsConsistent, DumpIsComplete, LinesHaveOrders

\* Reading the next table.
LEMMA DumpStep ==
    ASSUME IInv, NEW w \in Workers, DumpTable(w)
    PROVE  IInv'
<1> DEFINE t == task[w]
           name == Tables[t.table]
           s == [t EXCEPT !.dump[name] = Rows(name), !.table = @ + 1,
                          !.step = IF t.table = Len(Tables) THEN "send" ELSE @]
<1>1. /\ task' = [task EXCEPT ![w] = s] /\ task \in [Workers -> Task] /\ t.step = "dump"
      /\ UNCHANGED <<running, configured, store, clock, delivered, crashes>>
    BY DEF DumpTable, Goto, IInv, Types, At
<1>2. t \in Dumping /\ DumpOK(t)
    BY <1>1 DEF IInv, DumpInv, Task, Idle
<1>3. t.table \in 1..3 /\ Len(Tables) = 3
    BY <1>1, <1>2 DEF DumpOK, Dumping, Tables
<1>4. /\ t.table = 1 => name = "customers"
      /\ t.table = 2 => name = "order_items"
      /\ t.table = 3 => name = "orders"
      /\ name \in TableNames
    BY <1>3 DEF Tables, TableNames
<1>5. /\ s.dump = [t.dump EXCEPT ![name] = Rows(name)]
      /\ s.table = t.table + 1 /\ s.begun = t.begun
      /\ s.step = IF t.table = 3 THEN "send" ELSE "dump"
    BY <1>1, <1>2, <1>3 DEF Dumping
<1>6. Rows(name) \in SUBSET (Customers \cup Order)
    BY DEF Rows, IInv, Types, TypeOK
<1>7. s \in Dumping
    <2> DEFINE d == [t.dump EXCEPT ![name] = Rows(name)]
               st == IF t.table = 3 THEN "send" ELSE "dump"
    <2>1. d \in Dump
        BY <1>2, <1>4, <1>6 DEF Dumping, Dump
    <2>2. s = [t EXCEPT !.dump = d, !.table = t.table + 1, !.step = st]
        BY <1>1, <1>2, <1>3 DEF Dumping
    <2>3. st \in {"dump", "send"} /\ t.table + 1 \in 1..4
        BY <1>3
    <2> HIDE DEF d, st, s, t
    <2> QED BY <1>2, <2>1, <2>2, <2>3 DEF Dumping
<1>8. DumpOK(s)
    <2>1. /\ \A n \in TableNames : n # name => s.dump[n] = t.dump[n]
          /\ s.dump[name] = Rows(name)
        BY <1>2, <1>4, <1>5 DEF Dumping, Dump
    <2>2. \A n \in TableNames : Read(n, s.table) => n = name \/ Read(n, t.table)
        BY <1>3, <1>4, <1>5 DEF Read, TableNames
    <2>3. ASSUME NEW n \in TableNames
          PROVE  /\ s.begun[n] \subseteq Rows(n)
                 /\ Read(n, s.table) => /\ s.begun[n] \subseteq s.dump[n]
                                        /\ s.dump[n] \subseteq Rows(n)
        BY <1>2, <1>5, <2>1, <2>2 DEF DumpOK
    <2>4. s.table = 4 => s.dump["order_items"] \subseteq s.dump["orders"]
        <3>1. SUFFICES ASSUME t.table = 3
                       PROVE  s.dump["order_items"] \subseteq s.dump["orders"]
            BY <1>3, <1>5
        <3>2. name = "orders" /\ s.dump["orders"] = orders
            BY <1>4, <2>1, <3>1 DEF Rows
        <3>3. s.dump["order_items"] = t.dump["order_items"]
            BY <2>1, <3>2 DEF TableNames
        <3>4. t.dump["order_items"] \subseteq orders
            BY <1>2, <3>1 DEF DumpOK, Read, Rows, TableNames
        <3> QED BY <3>2, <3>3, <3>4
    <2>5. s.step = "send" <=> s.table = 4
        BY <1>3, <1>5
    <2> QED BY <2>3, <2>4, <2>5 DEF DumpOK
<1>9. s.step \in {"dump", "send"} /\ task'[w] = s /\ \A v \in Workers \ {w} : task'[v] = task[v]
    BY <1>1, <1>5
<1> HIDE DEF s, t, name
<1>10. Types'
    BY <1>1, <1>7 DEF IInv, Types, TypeOK, store, clock, Task
<1>11. FlagInv' /\ ClockInv'
    BY <1>1, <1>9 DEF IInv, FlagInv, ClockInv, At, clock, t
<1>12. DumpOK(task[w])'
    <2>1. DumpOK(task'[w])
        BY <1>8, <1>9
    <2> QED BY <1>1, <2>1 DEF DumpOK, Rows, store
<1>13. DumpInv'
    <2>1. ASSUME NEW v \in Workers, v # w, task[v].step \in {"dump", "send"}
          PROVE  DumpOK(task[v])'
        <3>1. DumpOK(task[v])
            BY <2>1 DEF IInv, DumpInv
        <3> QED BY <1>1, <1>9, <2>1, <3>1 DEF DumpOK, Rows, store
    <2>2. DumpIsConsistent'
        BY <1>1 DEF IInv, DumpInv, DumpIsConsistent, DumpIsComplete, LinesHaveOrders
    <2>3. ASSUME NEW v \in Workers, task'[v].step \in {"dump", "send"}
          PROVE  DumpOK(task[v])'
        <3>1. CASE v = w
            BY <1>12, <3>1
        <3>2. CASE v # w
            BY <1>9, <2>1, <2>3, <3>2
        <3> QED BY <3>1, <3>2
    <2> QED BY <2>2, <2>3 DEF DumpInv
<1> QED BY <1>10, <1>11, <1>13 DEF IInv

\* The scheduler wakes on a day it has not tried yet: the day is not behind
\* the midnight it waited for, and every tried day is.
LEMMA WakeStep ==
    ASSUME IInv, Wake
    PROVE  IInv'
<1> USE BackupAssumption
<1>1. /\ At(Scheduler, "idle") /\ day >= next
      /\ tried' = [tried EXCEPT ![day] = IF @ = 2 THEN 2 ELSE @ + 1]
      /\ next' = IF running = 1 THEN day + 1 ELSE next
      /\ UNCHANGED <<configured, store, day, delivered, crashes>>
    BY DEF Wake, NextMidnight
<1>2. /\ day \in 0..MaxDays /\ next \in 0..(MaxDays + 1)
      /\ tried \in [0..MaxDays -> 0..2] /\ Scheduler \in Workers
    BY DEF IInv, Types, TypeOK, Workers
<1>3. tried[day] = 0 /\ \A d \in 0..MaxDays : tried[d] = 1 => d < day
    BY <1>1, <1>2 DEF IInv, ClockInv
<1>4. /\ tried' \in [0..MaxDays -> 0..2] /\ tried'[day] = 1
      /\ \A d \in 0..MaxDays : d # day => tried'[d] = tried[d]
    BY <1>1, <1>2, <1>3
<1>5. \A d \in 0..MaxDays : tried'[d] <= 1 /\ (tried'[d] = 1 => d <= day)
    BY <1>2, <1>3, <1>4 DEF IInv, ClockInv
<1>6. CASE running = 0 /\ running' = 1 /\ Goto(Scheduler, [step |-> "settings"])
    <2>1. ~At(Scheduler, "idle")'
        BY <1>2, <1>6 DEF Goto, At, IInv, Types
    <2>2. ClockInv'
        BY <1>1, <1>5, <2>1 DEF ClockInv
    <2> QED BY <1>1, <1>2, <1>4, <1>6, <2>2, ClaimStep
<1>7. CASE running = 1 /\ UNCHANGED <<running, task>>
    <2>1. next' = day + 1
        BY <1>1, <1>7
    <2>2. ClockInv'
        BY <1>1, <1>2, <1>5, <2>1 DEF ClockInv
    <2>3. Types'
        BY <1>1, <1>2, <1>4, <1>7, <2>1 DEF IInv, Types, TypeOK, store
    <2>4. FlagInv'
        BY <1>7 DEF IInv, FlagInv, At
    <2>5. DumpInv'
        BY <1>1, <1>7, TablesGrow DEF store
    <2> QED BY <2>2, <2>3, <2>4, <2>5 DEF IInv
<1> QED BY <1>6, <1>7 DEF Wake, Claim

\* Tables grow while everything else rests.
LEMMA GrowStep ==
    ASSUME IInv, customers \subseteq customers', orders \subseteq orders',
           customers' \subseteq Customers, orders' \subseteq Order,
           UNCHANGED <<running, configured, clock, task, delivered, crashes>>
    PROVE  IInv'
<1>1. Types'
    BY DEF IInv, Types, TypeOK, clock
<1>2. FlagInv' /\ ClockInv'
    BY DEF IInv, FlagInv, ClockInv, At, clock
<1>3. DumpInv'
    BY TablesGrow
<1> QED BY <1>1, <1>2, <1>3 DEF IInv

LEMMA BackupNext == IInv /\ [Next]_vars => IInv'
<1> SUFFICES ASSUME IInv, [Next]_vars PROVE IInv'
    OBVIOUS
<1> USE BackupAssumption
<1>1. ASSUME NEW w \in Workers, RunNow(w) PROVE IInv'
    <2>1. /\ At(w, "idle") /\ Claim(w)
          /\ UNCHANGED <<configured, store, clock, delivered, crashes>>
        BY <1>1 DEF RunNow
    <2>2. CASE running = 0 /\ running' = 1 /\ Goto(w, [step |-> "settings"])
        <3>1. w # Scheduler
            BY <1>1 DEF RunNow
        <3>2. At(Scheduler, "idle")' <=> At(Scheduler, "idle")
            BY <2>2, <3>1 DEF Goto, At, IInv, Types, Workers
        <3>3. ClockInv' /\ tried' \in [0..MaxDays -> 0..2] /\ next' = next
            BY <2>1, <3>2 DEF ClockInv, IInv, clock, Types, TypeOK
        <3> QED BY <2>1, <2>2, <3>3, ClaimStep DEF clock
    <2>3. CASE running = 1 /\ UNCHANGED <<running, task>>
        BY <2>1, <2>3, GrowStep DEF store, IInv, Types, TypeOK
    <2> QED BY <2>1, <2>2, <2>3 DEF Claim
<1>2. ASSUME NEW w \in Workers, LoadSettings(w) PROVE IInv'
    <2>1. At(w, "settings") /\ UNCHANGED <<configured, store, day, tried, delivered, crashes>>
        BY <1>2 DEF LoadSettings
    <2>2. CASE configured
        <3> DEFINE s == [step |-> "dump", table |-> 1, dump |-> Empty, begun |-> Content]
        <3>1. /\ task' = [task EXCEPT ![w] = s] /\ UNCHANGED <<running, next>>
              /\ task \in [Workers -> Task]
            BY <1>2, <2>2 DEF LoadSettings, Goto, IInv, Types
        <3>2. s \in Dumping
            <4>1. Empty \in Dump /\ Content \in Dump
                BY DEF Empty, Content, Dump, Rows, IInv, Types, TypeOK
            <4> QED BY <4>1 DEF Dumping
        <3>3. DumpOK(s)
            BY DEF DumpOK, Content, Empty, Read
        <3>4. task'[w] = s /\ s.step = "dump" /\ \A v \in Workers \ {w} : task'[v] = task[v]
            BY <3>1
        <3> HIDE DEF s
        <3>5. Types'
            BY <2>1, <3>1, <3>2 DEF IInv, Types, TypeOK, store, Task
        <3>6. FlagInv' /\ ClockInv'
            BY <2>1, <3>1, <3>4 DEF IInv, FlagInv, ClockInv, At
        <3>7. ASSUME NEW v \in Workers, task'[v].step \in {"dump", "send"}
              PROVE  DumpOK(task[v])'
            <4>1. DumpOK(task'[v])
                BY <3>3, <3>4, <3>7 DEF IInv, DumpInv
            <4> QED BY <2>1, <4>1 DEF DumpOK, Rows, store
        <3>8. DumpInv'
            BY <2>1, <3>7 DEF DumpInv, IInv, DumpIsConsistent, DumpIsComplete, LinesHaveOrders
        <3> QED BY <3>5, <3>6, <3>8 DEF IInv
    <2>3. CASE ~configured
        <3>1. Return(w) /\ ~At(w, "idle") /\ delivered' = delivered
            BY <1>2, <2>1, <2>3 DEF LoadSettings, At
        <3> QED BY <2>1, <3>1, ReturnStep
    <2> QED BY <2>2, <2>3
<1>3. ASSUME NEW w \in Workers, Send(w) PROVE IInv'
    <2>1. At(w, "send") /\ ~At(w, "idle") /\ delivered' = {Document(task[w])} /\ Return(w)
        BY <1>3 DEF Send, At
    <2> QED BY <1>3, <2>1, ReturnStep DEF Send
<1>4. ASSUME NEW w \in Workers, Fail(w) PROVE IInv'
    BY <1>4, ReturnStep DEF Fail
<1>5. ASSUME NEW c \in Customers, Register(c) PROVE IInv'
    BY <1>5, GrowStep DEF Register, IInv, Types, TypeOK
<1>6. ASSUME NEW o \in Order, PlaceOrder(o) PROVE IInv'
    BY <1>6, GrowStep DEF PlaceOrder, IInv, Types, TypeOK
<1>7. CASE Configure
    <2>1. Types' /\ FlagInv' /\ ClockInv'
        BY <1>7 DEF Configure, IInv, Types, TypeOK, FlagInv, ClockInv, At, store, clock
    <2> QED BY <1>7, <2>1, TablesGrow DEF Configure, IInv, store
<1>8. CASE Midnight
    <2>1. day' = day + 1 /\ day < MaxDays /\ UNCHANGED <<store, next, task, delivered, tried>>
        BY <1>8 DEF Midnight
    <2>2. Types'
        BY <1>8 DEF Midnight, IInv, Types, TypeOK, store
    <2>3. FlagInv'
        BY <1>8 DEF Midnight, IInv, FlagInv, At
    <2>4. ClockInv'
        BY <2>1 DEF IInv, ClockInv, At, Types, TypeOK
    <2> QED BY <2>1, <2>2, <2>3, <2>4, TablesGrow DEF IInv, store
<1>9. CASE Crash
    <2>1. /\ task' = [w \in Workers |-> Idle] /\ running' = 0 /\ next' = day + 1
          /\ UNCHANGED <<configured, store, day, delivered, tried>>
        BY <1>9 DEF Crash, NextMidnight
    <2>2. Types'
        BY <1>9, <2>1 DEF Crash, IInv, Types, TypeOK, store, Task
    <2>3. FlagInv'
        BY <2>1 DEF FlagInv, At, Idle
    <2>4. ClockInv'
        BY <2>1 DEF IInv, ClockInv, Types, TypeOK
    <2>5. DumpInv'
        BY <2>1 DEF IInv, DumpInv, DumpIsConsistent, DumpIsComplete, LinesHaveOrders, Idle
    <2> QED BY <2>2, <2>3, <2>4, <2>5 DEF IInv
<1>10. CASE UNCHANGED vars
    <2>1. /\ UNCHANGED <<running, configured, clock, task, delivered, crashes, customers, orders>>
        BY <1>10 DEF vars, clock
    <2> QED BY <2>1, GrowStep DEF IInv, Types, TypeOK
<1> QED BY <1>1, <1>2, <1>3, <1>4, <1>5, <1>6, <1>7, <1>8, <1>9, <1>10,
           WakeStep, DumpStep DEF Next, Run

\* IInv holds at every moment: the flag is up exactly while one worker runs.
\* Every day that was tried is behind the midnight that is waited for, and a
\* dump under way lies between the tables of its beginning and of now.
THEOREM BackupInductive == Spec => []IInv
BY BackupInit, BackupNext, PTL DEF Spec

\* Every reachable state is well typed and two runs never overlap, whoever
\* starts them, whatever fails and however often the process restarts; the
\* flag is up exactly while one is under way (RunBackup's CompareAndSwap and
\* its deferred store).
THEOREM BackupIsExclusive == Spec => []BackupInv
<1>1. IInv => BackupInv
    BY FlagCounts DEF IInv, Types, BackupInv
<1> QED BY <1>1, BackupInductive, PTL

\* A delivered dump misses nothing that was there when the run began, invents
\* nothing, and has the order of every order line, for any number of
\* customers and orders placed while the tables are read (generateDump).
THEOREM DumpsAreConsistent == Spec => []DumpIsConsistent
<1>1. IInv => DumpIsConsistent
    BY DEF IInv, DumpInv
<1> QED BY <1>1, BackupInductive, PTL

\* The scheduler tries once a day at most, for any number of days, of runs
\* that last beyond midnight and of restarts (StartScheduler).
THEOREM ScheduledOnceADay == Spec => []OnceADay
<1>1. IInv => OnceADay
    BY DEF IInv, ClockInv, OnceADay
<1> QED BY <1>1, BackupInductive, PTL
=============================================================================
