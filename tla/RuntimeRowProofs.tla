--------------------------- MODULE RuntimeRowProofs ---------------------------
(***************************************************************************)
(* Machine-checked proofs about RuntimeRow, for every number of resources, *)
(* gateways and databases and for every bound.                             *)
(***************************************************************************)
EXTENDS RuntimeRow, TLAPS

TaskTyped == task \in [Resource -> [Slot -> Task]]
RowsTyped == rows \in [Database -> [Resource -> Version]]

\* SetTask gives one task its new record and leaves every other task alone.
LEMMA SetTaskEffect ==
    ASSUME NEW r \in Resource, NEW s \in Slot, NEW h \in Task, TaskTyped, SetTask(r, s, h)
    PROVE  /\ TaskTyped'
           /\ task'[r][s] = h
           /\ \A q \in Resource, t \in Slot : q # r \/ t # s => task'[q][t] = task[q][t]
           /\ \A q \in Resource : q # r => task'[q] = task[q]
<1>1. task' = [task EXCEPT ![r][s] = h] /\ task \in [Resource -> [Slot -> Task]]
  BY DEF SetTask, TaskTyped
<1>2. task' \in [Resource -> [Slot -> Task]]
  BY <1>1
<1>3. task'[r][s] = h
  BY <1>1
<1>4. ASSUME NEW q \in Resource, NEW t \in Slot, q # r \/ t # s
      PROVE  task'[q][t] = task[q][t]
  <2>1. CASE q # r
    BY <1>1, <2>1
  <2>2. CASE q = r
    BY <1>1, <1>4, <2>2
  <2> QED
    BY <2>1, <2>2
<1>5. \A q \in Resource : q # r => task'[q] = task[q]
  BY <1>1
<1> QED
  BY <1>2, <1>3, <1>4, <1>5 DEF TaskTyped

\* SetRow changes the row of one resource in one database.
LEMMA SetRowEffect ==
    ASSUME NEW d \in Database, NEW r \in Resource, NEW v \in Version, RowsTyped, SetRow(d, r, v)
    PROVE  /\ RowsTyped'
           /\ rows'[d][r] = v
           /\ \A e \in Database, q \in Resource : e # d \/ q # r => rows'[e][q] = rows[e][q]
<1>1. rows' = [rows EXCEPT ![d][r] = v] /\ rows \in [Database -> [Resource -> Version]]
  BY DEF SetRow, RowsTyped
<1>2. rows' \in [Database -> [Resource -> Version]]
  BY <1>1
<1>3. rows'[d][r] = v
  BY <1>1
<1>4. ASSUME NEW e \in Database, NEW q \in Resource, e # d \/ q # r
      PROVE  rows'[e][q] = rows[e][q]
  <2>1. CASE e # d
    BY <1>1, <2>1
  <2>2. CASE e = d
    BY <1>1, <1>4, <2>2
  <2> QED
    BY <2>1, <2>2
<1> QED
  BY <1>2, <1>3, <1>4 DEF RowsTyped

\* SetRow keeps the type of the rows, even given no database at all.
LEMMA SetRowTyped ==
    ASSUME NEW d, NEW r \in Resource, NEW v \in Version, RowsTyped, SetRow(d, r, v)
    PROVE  RowsTyped'
<1>1. CASE d \in Database
  BY <1>1, SetRowEffect
<1>2. CASE d \notin Database
  BY <1>2 DEF SetRow, RowsTyped
<1> QED
  BY <1>1, <1>2

Pc == {"idle"} \cup Reconciling \cup Reporting \cup Deleting

\* Goto moves one task on and keeps the rest of its record.
LEMMA GotoEffect ==
    ASSUME NEW r \in Resource, NEW s \in Slot, NEW pc \in Pc, TaskTyped, Goto(r, s, pc)
    PROVE  /\ TaskTyped'
           /\ task'[r][s].pc = pc
           /\ task'[r][s].version = task[r][s].version
           /\ task'[r][s].gateway = task[r][s].gateway
           /\ task'[r][s].db = task[r][s].db
           /\ task'[r][s].quiet = task[r][s].quiet
           /\ \A q \in Resource, t \in Slot : q # r \/ t # s => task'[q][t] = task[q][t]
           /\ \A q \in Resource : q # r => task'[q] = task[q]
<1> DEFINE h == [task[r][s] EXCEPT !.pc = pc]
<1>1. task[r][s] \in Task
  BY DEF TaskTyped
<1>2. h \in Task /\ h = [pc |-> pc, version |-> task[r][s].version, gateway |-> task[r][s].gateway,
                        db |-> task[r][s].db, quiet |-> task[r][s].quiet]
  BY <1>1 DEF Task, Pc
<1>3. SetTask(r, s, h)
  BY DEF Goto
<1> HIDE DEF h
<1>4. /\ TaskTyped'
      /\ task'[r][s] = h
      /\ \A q \in Resource, t \in Slot : q # r \/ t # s => task'[q][t] = task[q][t]
      /\ \A q \in Resource : q # r => task'[q] = task[q]
  BY <1>2, <1>3, SetTaskEffect
<1> QED
  BY <1>2, <1>4

LEMMA IdleTyped == Idle \in Task
  BY BoundAssumption DEF Idle, Task, Version, DbOrNone

\* One lemma for all steps: the types survive each of them.
LEMMA TypeStep == ASSUME TypeOK, [Next]_vars PROVE TypeOK'
<1> USE BoundAssumption DEF TypeOK, Version, DbOrNone, world
<1>0. TaskTyped /\ RowsTyped
  BY DEF TaskTyped, RowsTyped
<1>1. ASSUME NEW r \in Resource, NEW g \in Gateway, NEW ok \in BOOLEAN, Create(r, g, ok)
      PROVE  TypeOK'
  BY <1>1 DEF Create, Object
<1>2. ASSUME NEW r \in Resource, NEW g \in Gateway, NEW ok \in BOOLEAN, Edit(r, g, ok)
      PROVE  TypeOK'
  BY <1>2 DEF Edit, Object
<1>3. ASSUME NEW r \in Resource, RequestDelete(r)
      PROVE  TypeOK'
  BY <1>3 DEF RequestDelete, Object
<1>4. CASE Topology
  BY <1>4 DEF Topology, ChangeGateway, ToggleSecret
<1>5. ASSUME NEW r \in Resource, NEW s \in Slot, Begin(r, s),
             UNCHANGED <<obj, status, rows, handled, stopped, faults, world>>
      PROVE  TypeOK'
  <2>1. [pc |-> IF obj[r].valid THEN "resolve" ELSE "invalid",
         version |-> obj[r].version, gateway |-> obj[r].gateway,
         db |-> None, quiet |-> FALSE] \in Task
    BY DEF Task, Object, Reconciling, Reporting
  <2> QED
    BY <1>0, <1>5, <2>1, SetTaskEffect DEF Begin, TaskTyped
<1>6. ASSUME NEW r \in Resource, NEW s \in Slot, Resolve(r, s)
      PROVE  TypeOK'
  <2> DEFINE d == gateway[task[r][s].gateway]
  <2>1. CASE d \in secret
    <3>1. task[r][s] \in Task
      OBVIOUS
    <3>2. [task[r][s] EXCEPT !.pc = "write", !.db = d] \in Task
      BY <2>1, <3>1 DEF Task, Reconciling
    <3> QED
      BY <1>0, <1>6, <2>1, <3>2, SetTaskEffect DEF Resolve, TaskTyped
  <2>2. CASE d \notin secret
    <3>1. "error" \in Pc
      BY DEF Pc, Reporting
    <3> QED
      BY <1>0, <1>6, <2>2, <3>1, GotoEffect DEF Resolve, TaskTyped
  <2> QED
    BY <2>1, <2>2
<1>7. ASSUME NEW r \in Resource, NEW s \in Slot, Write(r, s) \/ CommitUnknown(r, s)
      PROVE  TypeOK'
  <2>1. /\ {"ready", "error"} \subseteq Pc
        /\ task[r][s].version \in Version
    BY DEF Pc, Reporting, Task
  <2>2. /\ Goto(r, s, "ready") \/ Goto(r, s, "error")
        /\ SetRow(task[r][s].db, r, task[r][s].version)
    BY <1>7 DEF Write, CommitUnknown
  <2>3. TaskTyped' /\ RowsTyped'
    BY <1>0, <2>1, <2>2, GotoEffect, SetRowTyped
  <2> QED
    BY <1>7, <2>3 DEF Write, CommitUnknown, TaskTyped, RowsTyped
<1>8. ASSUME NEW r \in Resource, NEW s \in Slot, DependencyFails(r, s)
      PROVE  TypeOK'
  <2>1. "error" \in Pc
    BY DEF Pc, Reporting
  <2> QED
    BY <1>0, <1>8, <2>1, GotoEffect DEF DependencyFails, TaskTyped
<1>9. ASSUME NEW r \in Resource, NEW s \in Slot, Patch(r, s)
      PROVE  TypeOK'
  <2>1. task[r][s] \in Task /\ status[r] \in Status
    OBVIOUS
  <2>2. PatchedStatus(status[r], task[r][s]) \in Status
    BY <2>1 DEF PatchedStatus, Status, Task
  <2>3. status' \in [Resource -> Status]
    BY <1>9, <2>2 DEF Patch
  <2>4. handled' \in [Resource -> Version]
    BY <1>9, <2>1 DEF Patch, Task
  <2> QED
    BY <1>0, <1>9, <2>3, <2>4, IdleTyped, SetTaskEffect DEF Patch, TaskTyped
<1>10. ASSUME NEW r \in Resource, StartDelete(r)
       PROVE  TypeOK'
  <2>1. [pc |-> "cleanup", version |-> obj[r].version, gateway |-> obj[r].gateway,
         db |-> status[r].db, quiet |-> At(r, "timer", "idle")] \in Task
    BY DEF Task, Object, Status, Deleting, At
  <2>2. TaskTyped'
    BY <1>0, <1>10, <2>1, SetTaskEffect DEF StartDelete, TaskTyped, Slot
  <2> QED
    BY <1>10, <2>2 DEF StartDelete, TaskTyped
<1>11. ASSUME NEW r \in Resource, CleanupDatabase(r) \/ CleanupFallback(r)
       PROVE  TypeOK'
  <2> DEFINE h == task[r]["change"]
  <2>1. h \in Task
    BY DEF Slot
  <2>2. ASSUME NEW d, CleanIn(r, d)
        PROVE  TaskTyped'
    <3>1. /\ d \in secret => [h EXCEPT !.pc = "erase", !.db = d] \in Task
          /\ [h EXCEPT !.pc = "release", !.db = None] \in Task
      BY <2>1 DEF Task, Deleting
    <3> QED
      BY <1>0, <2>2, <3>1, SetTaskEffect DEF CleanIn, Slot
  <2>3. TaskTyped'
    BY <1>11, <2>2 DEF CleanupDatabase, CleanupFallback
  <2> QED
    BY <1>11, <2>3 DEF CleanupDatabase, CleanupFallback, TaskTyped
<1>12. ASSUME NEW r \in Resource, Erase(r) \/ DeleteFails(r)
       PROVE  TypeOK'
  <2>1. "release" \in Pc /\ "change" \in Slot /\ 0 \in Version
    BY DEF Pc, Deleting, Slot
  <2>2. \/ Goto(r, "change", "release")
        \/ SetTask(r, "change", Idle)
    BY <1>12 DEF Erase, DeleteFails
  <2>3. UNCHANGED rows \/ SetRow(task[r]["change"].db, r, 0)
    BY <1>12 DEF Erase, DeleteFails
  <2>4. TaskTyped'
    BY <1>0, <2>1, <2>2, GotoEffect, SetTaskEffect, IdleTyped
  <2>5. RowsTyped'
    BY <1>0, <2>1, <2>3, SetRowTyped DEF RowsTyped
  <2> QED
    BY <1>12, <2>4, <2>5 DEF Erase, DeleteFails, TaskTyped, RowsTyped
<1>13. ASSUME NEW r \in Resource, Release(r) \/ RepeatDelete(r)
       PROVE  TypeOK'
  <2>1. TaskTyped'
    BY <1>0, <1>13, IdleTyped, SetTaskEffect DEF Release, RepeatDelete, Slot
  <2>2. CASE Release(r)
    <3>1. obj[r] \in Object /\ "absent" \in {"absent", "live", "deleting"}
      OBVIOUS
    <3>2. [obj[r] EXCEPT !.state = "absent"] \in Object
      BY <3>1 DEF Object
    <3>3. NoStatus \in Status
      BY DEF NoStatus, Status
    <3> QED
      BY <2>1, <2>2, <3>2, <3>3 DEF Release, TaskTyped
  <2>3. CASE RepeatDelete(r)
    BY <2>1, <2>3 DEF RepeatDelete, TaskTyped
  <2> QED
    BY <1>13, <2>2, <2>3
<1>14. CASE Crash
  BY <1>14, IdleTyped DEF Crash
<1>15. CASE UNCHANGED vars
  BY <1>15 DEF vars
<1>16. ASSUME NEW r \in Resource, ChangeTask(r) \/ TimerTask(r)
       PROVE  TypeOK'
  <2> USE DEF Slot
  <2>1. CASE StartChange(r) \/ StartTimer(r)
    BY <1>5, <2>1 DEF StartChange, StartTimer
  <2>2. CASE \E s \in Slot : ReconcileStep(r, s)
    BY <1>6, <1>7, <1>9, <2>2 DEF ReconcileStep
  <2>3. CASE DeleteStep(r)
    BY <1>10, <1>11, <1>12, <1>13, <2>3 DEF DeleteStep
  <2> QED
    BY <1>16, <2>1, <2>2, <2>3 DEF ChangeTask, TimerTask
<1>17. ASSUME NEW r \in Resource, UserStep(r) \/ FaultStep(r)
       PROVE  TypeOK'
  BY <1>1, <1>2, <1>3, <1>7, <1>8, <1>11, <1>12, <1>17 DEF UserStep, FaultStep
<1> QED
  BY <1>4, <1>14, <1>15, <1>16, <1>17 DEF Next

\* Every reachable state has the types TypeOK gives, whatever interleaving of
\* handlers, edits, failures and crashes led to it.
THEOREM TypeCorrect == Spec => []TypeOK
<1>1. Init => TypeOK
  BY BoundAssumption DEF Init, TypeOK, Object, Status, Task, Version, DbOrNone,
     NoStatus, Idle, Slot
<1>2. TypeOK /\ [Next]_vars => TypeOK'
  BY TypeStep
<1>3. QED
  BY <1>1, <1>2, PTL DEF Spec

-----------------------------------------------------------------------------
(***************************************************************************)
(* What the steps that set more than the control point do to the task.     *)
(***************************************************************************)
OthersKept(r, s) == \A t \in Slot : t # s => task'[r][t] = task[r][t]

LEMMA BeginEffect ==
    ASSUME TypeOK, NEW r \in Resource, NEW s \in Slot, Begin(r, s)
    PROVE  /\ task'[r][s].pc \in {"resolve", "invalid"}
           /\ task'[r][s].version = obj[r].version
           /\ task'[r][s].gateway = obj[r].gateway
           /\ OthersKept(r, s)
<1> DEFINE n == [pc |-> IF obj[r].valid THEN "resolve" ELSE "invalid",
                 version |-> obj[r].version, gateway |-> obj[r].gateway,
                 db |-> None, quiet |-> FALSE]
<1>1. n \in Task
  BY DEF TypeOK, Task, Object, Reconciling, Reporting, DbOrNone
<1>2. /\ n.pc \in {"resolve", "invalid"} /\ n.version = obj[r].version
      /\ n.gateway = obj[r].gateway
  OBVIOUS
<1>3. SetTask(r, s, n) /\ TaskTyped
  BY DEF Begin, TypeOK, TaskTyped
<1> HIDE DEF n
<1> QED
  BY <1>1, <1>2, <1>3, SetTaskEffect DEF OthersKept

LEMMA ResolveEffect ==
    ASSUME TypeOK, NEW r \in Resource, NEW s \in Slot, Resolve(r, s)
    PROVE  /\ \/ /\ task'[r][s].pc = "write"
                 /\ task'[r][s].db = gateway[task[r][s].gateway]
                 /\ task'[r][s].db \in secret
                 /\ task'[r][s].db # None
              \/ task'[r][s].pc = "error"
           /\ task'[r][s].version = task[r][s].version
           /\ task'[r][s].gateway = task[r][s].gateway
           /\ OthersKept(r, s)
<1> DEFINE d == gateway[task[r][s].gateway]
           w == [task[r][s] EXCEPT !.pc = "write", !.db = d]
<1>0. TaskTyped /\ task[r][s] \in Task
  BY DEF TypeOK, TaskTyped
<1>1. CASE d \in secret
  <2>1. /\ w \in Task /\ w.pc = "write" /\ w.db = d /\ w.version = task[r][s].version
        /\ w.gateway = task[r][s].gateway
    BY <1>0, <1>1 DEF Task, TypeOK, DbOrNone, Reconciling
  <2>2. SetTask(r, s, w) /\ d # None
    BY <1>1, NoneAssumption DEF Resolve, TypeOK
  <2> HIDE DEF w
  <2> QED
    BY <1>0, <1>1, <2>1, <2>2, SetTaskEffect DEF OthersKept
<1>2. CASE d \notin secret
  <2>1. "error" \in Pc /\ Goto(r, s, "error")
    BY <1>2 DEF Resolve, Pc, Reporting
  <2> QED
    BY <1>0, <2>1, GotoEffect DEF OthersKept
<1> QED
  BY <1>1, <1>2

LEMMA StartDeleteEffect ==
    ASSUME TypeOK, NEW r \in Resource, StartDelete(r), obj[r].valid
    PROVE  /\ task'[r]["change"].pc = "cleanup"
           /\ task'[r]["change"].gateway = obj[r].gateway
           /\ task'[r]["change"].db = status[r].db
           /\ task'[r]["change"].quiet <=> task[r]["timer"].pc = "idle"
           /\ task'[r]["timer"] = task[r]["timer"]
<1> DEFINE c == [pc |-> "cleanup", version |-> obj[r].version,
                 gateway |-> obj[r].gateway, db |-> status[r].db,
                 quiet |-> At(r, "timer", "idle")]
<1>1. c \in Task
  BY DEF TypeOK, Task, Object, Status, Deleting, At
<1>2. /\ c.pc = "cleanup" /\ (c.quiet <=> task[r]["timer"].pc = "idle")
      /\ c.gateway = obj[r].gateway /\ c.db = status[r].db
  BY DEF At
<1>3. SetTask(r, "change", c) /\ TaskTyped
  BY DEF StartDelete, TypeOK, TaskTyped
<1> HIDE DEF c
<1> QED
  BY <1>1, <1>2, <1>3, SetTaskEffect DEF Slot

LEMMA CleanInEffect ==
    ASSUME TypeOK, NEW r \in Resource, NEW d, CleanIn(r, d)
    PROVE  /\ \/ /\ task'[r]["change"].pc = "erase"
                 /\ task'[r]["change"].db = d /\ d \in secret /\ d # None
              \/ /\ task'[r]["change"].pc = "release"
                 /\ task'[r]["change"].db = None /\ d \notin secret
           /\ task'[r]["change"].quiet = task[r]["change"].quiet
           /\ task'[r]["change"].gateway = task[r]["change"].gateway
           /\ task'[r]["timer"] = task[r]["timer"]
<1> DEFINE h == task[r]["change"]
           n == IF d \in secret THEN [h EXCEPT !.pc = "erase", !.db = d]
                                ELSE [h EXCEPT !.pc = "release", !.db = None]
<1>0. TaskTyped /\ h \in Task
  BY DEF TypeOK, TaskTyped, Slot
<1>1. /\ n \in Task /\ n.quiet = h.quiet /\ n.gateway = h.gateway
      /\ \/ n.pc = "erase" /\ n.db = d /\ d \in secret
         \/ n.pc = "release" /\ n.db = None /\ d \notin secret
  BY <1>0 DEF TypeOK, Task, Deleting, DbOrNone
<1>2. SetTask(r, "change", n)
  BY DEF CleanIn
<1>3. d \in secret => d # None
  BY NoneAssumption DEF TypeOK
<1> HIDE DEF n, h
<1> QED
  BY <1>0, <1>1, <1>2, <1>3, SetTaskEffect DEF Slot, h

-----------------------------------------------------------------------------
RowStep(r) == ChangeTask(r) \/ TimerTask(r) \/ UserStep(r) \/ FaultStep(r)

Same(q) == /\ obj'[q] = obj[q]
           /\ status'[q] = status[q]
           /\ task'[q] = task[q]
           /\ stopped'[q] = stopped[q]
           /\ \A d \in Database : rows'[d][q] = rows[d][q]

\* A step of one resource leaves all other resources alone.
LEMMA Frame ==
    ASSUME TypeOK, NEW r \in Resource, RowStep(r), NEW q \in Resource, q # r
    PROVE  Same(q)
<1> USE DEF TypeOK, Same, world
<1>0. TaskTyped /\ RowsTyped
  BY DEF TaskTyped, RowsTyped
<1>1. ASSUME NEW s \in Slot, NEW h, SetTask(r, s, h)
      PROVE  task'[q] = task[q]
  BY <1>1 DEF SetTask
<1>2. ASSUME NEW d, NEW v, SetRow(d, r, v)
      PROVE  \A e \in Database : rows'[e][q] = rows[e][q]
  <2> TAKE e \in Database
  <2>1. rows' = [rows EXCEPT ![d] = [rows[d] EXCEPT ![r] = v]]
    BY <1>2 DEF SetRow
  <2>2. CASE e = d
    BY <2>1, <2>2
  <2>3. CASE e # d
    BY <2>1, <2>3
  <2> QED
    BY <2>2, <2>3
<1>3. ASSUME NEW s \in Slot, \/ Begin(r, s) /\ UNCHANGED <<obj, status, rows, stopped>>
                             \/ ReconcileStep(r, s)
                             \/ DependencyFails(r, s)
                             \/ CommitUnknown(r, s)
      PROVE  Same(q)
  <2>1. task'[q] = task[q]
    BY <1>1, <1>3 DEF Begin, ReconcileStep, Resolve, Write, Patch, DependencyFails,
       CommitUnknown, Goto
  <2>2. \A e \in Database : rows'[e][q] = rows[e][q]
    BY <1>2, <1>3 DEF Begin, ReconcileStep, Resolve, Write, Patch, DependencyFails,
       CommitUnknown
  <2>3. obj'[q] = obj[q] /\ stopped'[q] = stopped[q] /\ status'[q] = status[q]
    BY <1>3 DEF Begin, ReconcileStep, Resolve, Write, Patch, DependencyFails,
       CommitUnknown
  <2> QED
    BY <2>1, <2>2, <2>3
<1>4. ASSUME DeleteStep(r) \/ CleanupFallback(r) \/ DeleteFails(r)
      PROVE  Same(q)
  <2> USE DEF DeleteStep, StartDelete, CleanupDatabase, CleanupFallback, Erase,
      DeleteFails, Release, RepeatDelete
  <2>1. task'[q] = task[q]
    BY <1>1, <1>4 DEF CleanIn, Goto, Slot
  <2>2. \A e \in Database : rows'[e][q] = rows[e][q]
    BY <1>2, <1>4
  <2>3. obj'[q] = obj[q] /\ stopped'[q] = stopped[q] /\ status'[q] = status[q]
    BY <1>4
  <2> QED
    BY <2>1, <2>2, <2>3
<1>5. CASE StartChange(r) \/ StartTimer(r)
  BY <1>3, <1>5 DEF StartChange, StartTimer, Slot
<1>6. CASE UserStep(r)
  BY <1>6 DEF UserStep, Create, Edit, RequestDelete
<1> QED
  BY <1>3, <1>4, <1>5, <1>6 DEF RowStep, ChangeTask, TimerTask, FaultStep, Slot

\* The invariant of a resource looks at nothing but that resource.
LEMMA SameKeeps ==
    ASSUME TypeOK, NEW q \in Resource, LocalInv(q), Same(q)
    PROVE  LocalInv(q)'
<1>1. /\ status[q].db # None => status[q].db \in Database
      /\ \A s \in Slot : task[q][s].db # None => task[q][s].db \in Database
  BY DEF TypeOK, Status, Task, DbOrNone
<1>2. Lifecycle(q)'
  BY DEF LocalInv, Lifecycle, Same
<1>3. Holder(q)'
  BY <1>1 DEF LocalInv, Holder, Same
<1>4. Erased(q)'
  BY <1>1 DEF LocalInv, Erased, Same, Slot
<1> QED
  BY <1>2, <1>3, <1>4 DEF LocalInv

-----------------------------------------------------------------------------
\* The steps of a reconciliation keep the invariant of their resource.
LEMMA ReconcileKeeps ==
    ASSUME TypeOK, NEW r \in Resource, LocalInv(r), NEW s \in Slot,
           \/ ReconcileStep(r, s)
           \/ DependencyFails(r, s)
           \/ CommitUnknown(r, s)
    PROVE  LocalInv(r)'
<1> USE DEF world
<1>0. /\ TaskTyped /\ RowsTyped
      /\ "change" \in Slot /\ "timer" \in Slot
      /\ {"ready", "error", "write"} \subseteq Pc
      /\ task[r][s] \in Task /\ status[r] \in Status
  BY DEF TypeOK, TaskTyped, RowsTyped, Slot, Pc, Reporting, Reconciling
<1>1. CASE Resolve(r, s)
  <2>1. /\ task'[r][s].pc \in {"write", "error"}
        /\ task'[r][s].version = task[r][s].version
        /\ task'[r][s].pc = "write" => task'[r][s].db # None
        /\ \A t \in Slot : t # s => task'[r][t] = task[r][t]
    BY <1>1, ResolveEffect DEF OthersKept
  <2> QED
    BY <1>0, <1>1, <2>1 DEF Resolve, LocalInv, Lifecycle, Holder, Erased, At,
       Reconciling, Reporting, Deleting, Slot
<1>2. CASE Write(r, s) \/ CommitUnknown(r, s)
  <2> DEFINE db == task[r][s].db
             v == task[r][s].version
  <2>1. db \in Database /\ v \in Version /\ v # 0 /\ At(r, s, "write")
    BY <1>0, <1>2 DEF Write, CommitUnknown, LocalInv, Lifecycle, Holder, At, Task,
       DbOrNone, Reconciling
  <2>2. SetRow(db, r, v) /\ \E pc \in {"ready", "error"} : Goto(r, s, pc)
    BY <1>2 DEF Write, CommitUnknown
  <2>3. /\ rows'[db][r] = v
        /\ \A e \in Database : e # db => rows'[e][r] = rows[e][r]
    BY <1>0, <2>1, <2>2, SetRowEffect
  <2>4. /\ task'[r][s].pc \in {"ready", "error"}
        /\ task'[r][s].db = db /\ task'[r][s].version = v
        /\ \A t \in Slot : t # s => task'[r][t] = task[r][t]
    BY <1>0, <2>2, GotoEffect
  <2>5. UNCHANGED <<obj, status, stopped>>
    BY <1>2 DEF Write, CommitUnknown
  <2>6. \A e \in Database : rows[e][r] # 0 => rows'[e][r] # 0
    BY <2>1, <2>3
  <2>7. Lifecycle(r)'
    BY <1>0, <2>1, <2>4, <2>5 DEF LocalInv, Lifecycle, At, Reconciling, Reporting,
       Deleting, Slot
  <2>8. Holder(r)'
    <3>1. /\ status[r].db # None => status[r].db \in Database
          /\ \A t \in Slot : task[r][t].db # None => task[r][t].db \in Database
      BY DEF TypeOK, Status, Task, DbOrNone
    <3> QED
      BY <1>0, <2>1, <2>3, <2>4, <2>5, <2>6, <3>1, NoneAssumption DEF LocalInv, Holder
  <2>9. Erased(r)'
    <3>1. CASE s = "change"
      BY <2>1, <2>4, <3>1 DEF Erased
    <3>2. CASE s = "timer"
      <4>1. task'[r]["change"] = task[r]["change"]
        BY <1>0, <2>4, <3>2
      <4>2. ~(task[r]["change"].pc = "release" /\ task[r]["change"].quiet)
        BY <2>1, <3>2 DEF LocalInv, Lifecycle, At, Deleting
      <4> QED
        BY <4>1, <4>2 DEF LocalInv, Erased
    <3> QED
      BY <3>1, <3>2 DEF Slot
  <2> QED
    BY <2>7, <2>8, <2>9 DEF LocalInv
<1>3. CASE DependencyFails(r, s)
  <2>1. /\ task'[r][s].pc = "error" /\ task'[r][s].version = task[r][s].version
        /\ \A t \in Slot : t # s => task'[r][t] = task[r][t]
    BY <1>0, <1>3, GotoEffect DEF DependencyFails
  <2> QED
    BY <1>0, <1>3, <2>1 DEF DependencyFails, LocalInv, Lifecycle, Holder, Erased,
       Reconciling, Reporting, Deleting, Slot
<1>4. CASE Patch(r, s)
  <2>1. /\ task'[r][s] = Idle
        /\ \A t \in Slot : t # s => task'[r][t] = task[r][t]
    BY <1>0, <1>4, IdleTyped, SetTaskEffect DEF Patch
  <2>2. /\ status'[r] = PatchedStatus(status[r], task[r][s])
        /\ UNCHANGED <<obj, rows, stopped>>
        /\ task[r][s].pc \in Reporting
    BY <1>4 DEF Patch, TypeOK
  <2>3. /\ task[r][s].pc = "ready" => status'[r].db = task[r][s].db
        /\ task[r][s].pc # "ready" => status'[r].db = status[r].db
    BY <1>0, <2>2 DEF PatchedStatus, Status
  <2>4. Lifecycle(r)'
    BY <1>0, <2>1, <2>2, <2>3 DEF LocalInv, Lifecycle, Idle, Reconciling, Reporting,
       Deleting, Slot
  <2>5. Holder(r)'
    BY <1>0, <2>1, <2>2, <2>3 DEF LocalInv, Holder, Idle
  <2>6. Erased(r)'
    BY <1>0, <2>1, <2>2 DEF LocalInv, Erased, Idle, Slot
  <2> QED
    BY <2>4, <2>5, <2>6 DEF LocalInv
<1> QED
  BY <1>1, <1>2, <1>3, <1>4 DEF ReconcileStep

-----------------------------------------------------------------------------
\* The steps of a deletion keep the invariant of their resource.
LEMMA DeleteKeeps ==
    ASSUME TypeOK, NEW r \in Resource, LocalInv(r),
           DeleteStep(r) \/ CleanupFallback(r) \/ DeleteFails(r)
    PROVE  LocalInv(r)'
<1> USE DEF world
<1> DEFINE h == task[r]["change"]
<1>0. /\ TaskTyped /\ RowsTyped
      /\ "change" \in Slot /\ "timer" \in Slot
      /\ "release" \in Pc /\ 0 \in Version
      /\ h \in Task /\ status[r] \in Status /\ obj[r] \in Object
  BY BoundAssumption DEF TypeOK, TaskTyped, RowsTyped, Slot, Pc, Deleting, Version
<1>1. CASE StartDelete(r) /\ obj[r].valid
  <2>1. UNCHANGED <<obj, status, rows>> /\ stopped'[r] = TRUE /\ obj[r].state = "deleting"
    BY <1>1 DEF StartDelete, TypeOK
  <2> QED
    BY <1>1, <2>1, StartDeleteEffect DEF LocalInv, Lifecycle, Holder, Erased, Slot,
       Reconciling, Reporting
<1>2. CASE StartDelete(r) /\ ~obj[r].valid
  <2>1. UNCHANGED <<obj, status, rows, task>> /\ stopped'[r] = TRUE
    BY <1>2 DEF StartDelete, TypeOK
  <2> QED
    BY <2>1 DEF LocalInv, Lifecycle, Holder, Erased
<1>3. ASSUME NEW d, CleanIn(r, d), h.pc = "cleanup",
             UNCHANGED <<obj, status, rows, stopped>>
      PROVE  LocalInv(r)'
  BY <1>3, CleanInEffect DEF LocalInv, Lifecycle, Holder, Erased, Slot, Deleting,
     Reconciling, Reporting
<1>4. CASE CleanupDatabase(r) \/ CleanupFallback(r)
  BY <1>3, <1>4 DEF CleanupDatabase, CleanupFallback, At
<1>5. ASSUME h.pc = "erase", SetRow(h.db, r, 0)
      PROVE  /\ obj[r].state = "deleting"
             /\ h.db \in Database /\ rows'[h.db][r] = 0
  <2>1. obj[r].state = "deleting" /\ h.db # None
    BY <1>5 DEF LocalInv, Lifecycle, Erased, Deleting
  <2>2. h.db \in Database
    BY <1>0, <2>1 DEF Task, DbOrNone
  <2> QED
    BY <1>0, <1>5, <2>1, <2>2, SetRowEffect
<1>6. CASE Erase(r)
  <2>1. /\ task'[r]["change"].pc = "release" /\ task'[r]["change"].db = h.db
        /\ task'[r]["change"].quiet = h.quiet
        /\ task'[r]["timer"] = task[r]["timer"]
    BY <1>0, <1>6, GotoEffect DEF Erase
  <2>2. h.pc = "erase" /\ SetRow(h.db, r, 0) /\ UNCHANGED <<obj, status, stopped>>
    BY <1>6 DEF Erase, At
  <2> QED
    BY <1>5, <2>1, <2>2 DEF LocalInv, Lifecycle, Holder, Erased, Slot, Deleting,
       Reconciling, Reporting
<1>7. CASE DeleteFails(r)
  <2>1. task'[r]["change"] = Idle /\ task'[r]["timer"] = task[r]["timer"]
    BY <1>0, <1>7, IdleTyped, SetTaskEffect DEF DeleteFails
  <2>2. UNCHANGED <<obj, status, stopped>> /\ obj[r].state = "deleting"
    BY <1>7 DEF DeleteFails, LocalInv, Lifecycle, Deleting
  <2> QED
    BY <2>1, <2>2 DEF LocalInv, Lifecycle, Holder, Erased, Slot, Idle, Deleting,
       Reconciling, Reporting
<1>8. CASE Release(r)
  <2>1. task'[r]["change"] = Idle /\ task'[r]["timer"] = task[r]["timer"]
    BY <1>0, <1>8, IdleTyped, SetTaskEffect DEF Release
  <2>2. /\ obj'[r].state = "absent" /\ status'[r].db = None
        /\ task[r]["timer"].pc = "idle"
    BY <1>0, <1>8 DEF Release, NoStatus, TypeOK, LocalInv, Lifecycle, At, Deleting, Object
  <2> QED
    BY <2>1, <2>2 DEF LocalInv, Lifecycle, Holder, Erased, Slot, Idle, Deleting,
       Reconciling, Reporting
<1>9. CASE RepeatDelete(r)
  <2>1. task'[r]["change"] = Idle /\ task'[r]["timer"] = task[r]["timer"]
    BY <1>0, <1>9, IdleTyped, SetTaskEffect DEF RepeatDelete
  <2>2. UNCHANGED <<obj, status, stopped, rows>>
    BY <1>9 DEF RepeatDelete
  <2> QED
    BY <2>1, <2>2 DEF LocalInv, Lifecycle, Holder, Erased, Slot, Idle, Deleting,
       Reconciling, Reporting
<1> QED
  BY <1>1, <1>2, <1>4, <1>6, <1>7, <1>8, <1>9 DEF DeleteStep

\* So do the start of a reconciliation and the steps of the users.
LEMMA StartKeeps ==
    ASSUME TypeOK, NEW r \in Resource, LocalInv(r),
           StartChange(r) \/ StartTimer(r) \/ UserStep(r)
    PROVE  LocalInv(r)'
<1> USE DEF world
<1>0. /\ TaskTyped /\ "change" \in Slot /\ "timer" \in Slot
      /\ obj[r] \in Object /\ obj[r].version \in Nat
  BY BoundAssumption DEF TypeOK, TaskTyped, Slot, Object, Version
<1>1. ASSUME NEW s \in Slot, Begin(r, s), obj[r].state # "absent", ~stopped[r] \/ s = "change",
             task[r]["change"].pc = "idle" \/ s = "timer",
             UNCHANGED <<obj, status, rows, stopped>>
      PROVE  LocalInv(r)'
  BY <1>0, <1>1, BeginEffect DEF OthersKept, LocalInv, Lifecycle, Holder, Erased, Slot,
     Deleting, Reconciling, Reporting
<1>2. CASE StartChange(r) \/ StartTimer(r)
  BY <1>0, <1>1, <1>2 DEF StartChange, StartTimer, At
<1>3. ASSUME NEW g \in Gateway, NEW ok \in BOOLEAN, Create(r, g, ok) \/ Edit(r, g, ok)
      PROVE  LocalInv(r)'
  <2>1. /\ obj'[r].version # 0 /\ obj'[r].state # "absent"
        /\ obj'[r].state = (IF obj[r].state = "absent" THEN "live" ELSE obj[r].state)
    BY <1>0, <1>3 DEF Create, Edit, TypeOK
  <2>2. UNCHANGED <<status, rows, task>>
    BY <1>3 DEF Create, Edit
  <2>3. obj[r].state # "absent" => stopped'[r] = stopped[r]
    BY <1>3 DEF Create, Edit
  <2> QED
    BY <2>1, <2>2, <2>3 DEF LocalInv, Lifecycle, Holder, Erased, Slot, Deleting,
       Reconciling, Reporting
<1>4. CASE RequestDelete(r)
  <2>1. obj'[r].state = "deleting" /\ obj'[r].version = obj[r].version /\ obj[r].state = "live"
    BY <1>0, <1>4 DEF RequestDelete, TypeOK, Object
  <2>2. UNCHANGED <<status, rows, task, stopped>>
    BY <1>4 DEF RequestDelete
  <2> QED
    BY <2>1, <2>2 DEF LocalInv, Lifecycle, Holder, Erased
<1> QED
  BY <1>2, <1>3, <1>4 DEF UserStep

-----------------------------------------------------------------------------
LEMMA InvInit == Init => Inv
<1> SUFFICES ASSUME Init PROVE Inv
  OBVIOUS
<1>1. TypeOK
  BY BoundAssumption DEF Init, TypeOK, Object, Status, Task, Version, DbOrNone,
     NoStatus, Idle, Slot
<1>2. ASSUME NEW r \in Resource
      PROVE  LocalInv(r)
  BY <1>2 DEF Init, LocalInv, Lifecycle, Holder, Erased, NoStatus, Idle, Slot,
     Reconciling, Reporting, Deleting
<1> QED
  BY <1>1, <1>2 DEF Inv

\* Inv is inductive.
LEMMA InvStep == ASSUME Inv, [Next]_vars PROVE Inv'
<1>0. TypeOK /\ TypeOK' /\ \A q \in Resource : LocalInv(q)
  BY TypeStep DEF Inv
<1>1. ASSUME NEW r \in Resource, RowStep(r), NEW q \in Resource
      PROVE  LocalInv(q)'
  <2>1. CASE q # r
    BY <1>0, <1>1, <2>1, Frame, SameKeeps
  <2>2. CASE q = r
    BY <1>0, <1>1, <2>2, ReconcileKeeps, DeleteKeeps, StartKeeps
       DEF RowStep, ChangeTask, TimerTask, FaultStep, Slot
  <2> QED
    BY <2>1, <2>2
<1>2. ASSUME NEW q \in Resource, Topology \/ UNCHANGED vars
      PROVE  LocalInv(q)'
  <2>1. Same(q)
    BY <1>2 DEF Topology, ChangeGateway, ToggleSecret, Same, vars
  <2> QED
    BY <1>0, <2>1, SameKeeps
<1>3. ASSUME NEW q \in Resource, Crash
      PROVE  LocalInv(q)'
  <2>1. /\ \A s \in Slot : task'[q][s] = Idle
        /\ UNCHANGED <<obj, status, rows>>
    BY <1>3 DEF Crash
  <2> QED
    BY <1>0, <2>1 DEF LocalInv, Lifecycle, Holder, Erased, Idle, Slot, Deleting,
       Reconciling, Reporting
<1>4. CASE UNCHANGED vars
  BY <1>0, <1>2, <1>4 DEF Inv
<1>5. CASE Next
  <2>1. (\E r \in Resource : RowStep(r)) \/ Topology \/ Crash
    BY <1>5 DEF Next, RowStep
  <2> QED
    BY <1>0, <1>1, <1>2, <1>3, <2>1 DEF Inv
<1> QED
  BY <1>4, <1>5

LEMMA InvCorrect == Spec => []Inv
<1>1. Inv /\ [Next]_vars => Inv'
  BY InvStep
<1> QED
  BY InvInit, <1>1, PTL DEF Spec

\* The database in the status of a resource that is not being deleted holds its
\* row, in every topology: the name _cleanup_database falls back on can be trusted.
THEOREM StatusIsHolder == Spec => []StatusNamesRowHolder
<1>1. Inv => StatusNamesRowHolder
  BY DEF Inv, LocalInv, Holder, StatusNamesRowHolder
<1> QED
  BY InvCorrect, <1>1, PTL

\* The finalizer is removed only when no row is left in the database the deletion
\* resolved and no handler of the resource is running, even when a refresh was
\* running while the first cycle erased the row.
THEOREM ReleaseIsClean == Spec => ReleaseLeavesNoRow
<1>1. ASSUME Inv, [Next]_vars, NEW r \in Resource
      PROVE  CleanRelease(r)
  <2> SUFFICES ASSUME obj[r].state = "deleting", obj'[r].state = "absent"
               PROVE  /\ At(r, "change", "release")
                      /\ task[r]["change"].db # None => rows'[task[r]["change"].db][r] = 0
                      /\ \A s \in Slot : task'[r][s].pc = "idle"
    BY DEF CleanRelease
  <2>0. TypeOK /\ LocalInv(r)
    BY <1>1 DEF Inv
  <2>1. obj' # obj
    OBVIOUS
  <2>2. Release(r)
    <3>1. PICK q \in Resource : Release(q) \/ UserStep(q)
      BY <1>1, <2>1 DEF Next, vars, world, ChangeTask, TimerTask, FaultStep, ReconcileStep,
         DeleteStep, Topology, ChangeGateway, ToggleSecret, Crash, StartChange, StartTimer,
         Resolve, Write, Patch, StartDelete, CleanupDatabase, Erase, RepeatDelete,
         DependencyFails, CommitUnknown, CleanupFallback, DeleteFails
    <3>2. q = r
      BY <2>0, <3>1 DEF Release, UserStep, Create, Edit, RequestDelete, TypeOK
    <3>3. ~UserStep(r)
      BY <2>0 DEF UserStep, Create, Edit, RequestDelete, TypeOK
    <3> QED
      BY <3>1, <3>2, <3>3
  <2>3. At(r, "change", "release") /\ task[r]["change"].quiet /\ UNCHANGED rows
    BY <2>2 DEF Release
  <2>4. task[r]["timer"].pc = "idle"
    BY <2>0, <2>3 DEF LocalInv, Lifecycle, At, Deleting
  <2>5. \A s \in Slot : task'[r][s].pc = "idle"
    <3>1. TaskTyped /\ SetTask(r, "change", Idle)
      BY <2>0, <2>2 DEF Release, TypeOK, TaskTyped
    <3> QED
      BY <2>4, <3>1, IdleTyped, SetTaskEffect DEF Slot, Idle
  <2>6. task[r]["change"].db # None => rows[task[r]["change"].db][r] = 0
    BY <2>0, <2>3 DEF LocalInv, Erased, At
  <2> QED
    BY <2>3, <2>5, <2>6
<1>2. Inv /\ [Next]_vars => [\A r \in Resource : CleanRelease(r)]_vars
  BY <1>1
<1> QED
  BY InvCorrect, <1>2, PTL DEF ReleaseLeavesNoRow, Spec

-----------------------------------------------------------------------------
(***************************************************************************)
(* With no topology change the database of a resource never moves, and one *)
(* visit of the deletion is enough.                                        *)
(***************************************************************************)
Still == gateway' = gateway /\ secret' = secret

LEMMA HomeSame ==
    ASSUME TypeOK, NEW q \in Resource, Homed(q), Still, Same(q)
    PROVE  Homed(q)'
BY DEF Homed, Still, Same, Slot

\* No step of one resource gives it a second home.
LEMMA HomeReconcile ==
    ASSUME TypeOK, NEW r \in Resource, LocalInv(r), Homed(r), Still, NEW s \in Slot,
           \/ ReconcileStep(r, s)
           \/ DependencyFails(r, s)
           \/ CommitUnknown(r, s)
    PROVE  Homed(r)'
<1> USE DEF Still
<1>0. /\ TaskTyped /\ RowsTyped
      /\ "change" \in Slot /\ "timer" \in Slot
      /\ {"ready", "error"} \subseteq Pc
      /\ task[r][s] \in Task /\ status[r] \in Status
  BY DEF TypeOK, TaskTyped, RowsTyped, Slot, Pc, Reporting
<1>a. ASSUME task[r][s].pc # "idle"
      PROVE  obj[r].state # "absent" /\ task[r][s].gateway = obj[r].gateway
  BY <1>a DEF LocalInv, Lifecycle, Homed
<1>1. CASE Resolve(r, s)
  <2>1. /\ \/ /\ task'[r][s].pc = "write"
              /\ task'[r][s].db = gateway[obj[r].gateway]
              /\ gateway[obj[r].gateway] \in secret
           \/ task'[r][s].pc = "error"
        /\ task'[r][s].gateway = obj[r].gateway
        /\ \A t \in Slot : t # s => task'[r][t] = task[r][t]
    <3>1. task[r][s].pc = "resolve"
      BY <1>1 DEF Resolve, At
    <3>2. task[r][s].gateway = obj[r].gateway
      BY <1>a, <3>1
    <3> QED
      BY <1>1, <3>2, ResolveEffect DEF OthersKept
  <2>2. UNCHANGED <<obj, status, rows>> /\ obj[r].state # "absent"
    BY <1>1, <1>a DEF Resolve, At
  <2> QED
    BY <1>0, <2>1, <2>2 DEF Homed, Slot
<1>2. CASE Write(r, s) \/ CommitUnknown(r, s)
  <2> DEFINE db == task[r][s].db
             v == task[r][s].version
  <2>1. At(r, s, "write") /\ UNCHANGED <<obj, status>>
    BY <1>2 DEF Write, CommitUnknown
  <2>2. /\ db \in Database /\ v \in Version
        /\ obj[r].state # "absent" /\ db = gateway[obj[r].gateway] /\ db \in secret
    BY <1>0, <1>a, <2>1 DEF LocalInv, Holder, Homed, At, Task, DbOrNone
  <2>3. SetRow(db, r, v) /\ \E pc \in {"ready", "error"} : Goto(r, s, pc)
    BY <1>2 DEF Write, CommitUnknown
  <2>4. \A e \in Database : e # db => rows'[e][r] = rows[e][r]
    BY <1>0, <2>2, <2>3, SetRowEffect
  <2>5. /\ task'[r][s].pc \in {"ready", "error"}
        /\ task'[r][s].db = db /\ task'[r][s].gateway = task[r][s].gateway
        /\ \A t \in Slot : t # s => task'[r][t] = task[r][t]
    BY <1>0, <2>3, GotoEffect
  <2>6. s = "timer" => ~(task[r]["change"].pc = "release" /\ task[r]["change"].quiet)
    BY <2>1 DEF LocalInv, Lifecycle, At, Deleting
  <2> QED
    BY <1>0, <1>a, <2>1, <2>2, <2>4, <2>5, <2>6 DEF Homed, Slot, At
<1>3. CASE DependencyFails(r, s)
  <2>1. /\ task'[r][s].pc = "error" /\ task'[r][s].gateway = task[r][s].gateway
        /\ \A t \in Slot : t # s => task'[r][t] = task[r][t]
        /\ task[r][s].pc # "idle"
    BY <1>0, <1>3, GotoEffect DEF DependencyFails, Reconciling
  <2>2. UNCHANGED <<obj, status, rows>>
    BY <1>3 DEF DependencyFails
  <2> QED
    BY <1>0, <1>a, <2>1, <2>2 DEF Homed, Slot
<1>4. CASE Patch(r, s)
  <2>1. /\ task'[r][s].pc = "idle"
        /\ \A t \in Slot : t # s => task'[r][t] = task[r][t]
    BY <1>0, <1>4, IdleTyped, SetTaskEffect DEF Patch, Idle
  <2>2. /\ status'[r] = PatchedStatus(status[r], task[r][s])
        /\ UNCHANGED <<obj, rows>>
    BY <1>4 DEF Patch, TypeOK
  <2>3. /\ task[r][s].pc = "ready" => status'[r].db = task[r][s].db
        /\ task[r][s].pc # "ready" => status'[r].db = status[r].db
    BY <1>0, <2>2 DEF PatchedStatus, Status
  <2> QED
    BY <1>0, <2>1, <2>2, <2>3 DEF Homed, Slot
<1> QED
  BY <1>1, <1>2, <1>3, <1>4 DEF ReconcileStep

LEMMA HomeDelete ==
    ASSUME TypeOK, NEW r \in Resource, LocalInv(r), Homed(r), Still,
           DeleteStep(r) \/ CleanupFallback(r) \/ DeleteFails(r)
    PROVE  Homed(r)'
<1> USE DEF Still
<1> DEFINE h == task[r]["change"]
           home == gateway[obj[r].gateway]
<1>0. /\ TaskTyped /\ RowsTyped
      /\ "change" \in Slot /\ "timer" \in Slot
      /\ "release" \in Pc /\ 0 \in Version
      /\ h \in Task
  BY BoundAssumption DEF TypeOK, TaskTyped, RowsTyped, Slot, Pc, Deleting, Version
<1>1. CASE StartDelete(r)
  <2>1. UNCHANGED <<obj, status, rows>> /\ obj[r].state = "deleting"
    BY <1>1 DEF StartDelete
  <2>2. CASE obj[r].valid
    <3>1. /\ task'[r]["change"].pc = "cleanup"
          /\ task'[r]["change"].gateway = obj[r].gateway
          /\ task'[r]["change"].db = status[r].db
          /\ task'[r]["timer"] = task[r]["timer"]
      BY <1>1, <2>2, StartDeleteEffect
    <3> QED
      BY <2>1, <3>1 DEF Homed, Slot
  <2>3. CASE ~obj[r].valid
    BY <1>1, <2>1, <2>3 DEF StartDelete, Homed
  <2> QED
    BY <2>2, <2>3
<1>2. ASSUME NEW d, CleanIn(r, d), h.pc = "cleanup", UNCHANGED <<obj, status, rows>>,
             d = home \/ (home = None /\ d = h.db) \/ (d = h.db /\ h.db # None)
      PROVE  Homed(r)'
  <2>1. /\ obj[r].state # "absent" /\ h.gateway = obj[r].gateway
        /\ h.db \in {None, home}
    BY <1>0, <1>2 DEF LocalInv, Lifecycle, Homed, Deleting
  <2>2. d = home
    BY <1>2, <2>1
  <2>3. /\ \/ /\ task'[r]["change"].pc = "erase"
              /\ task'[r]["change"].db = home
           \/ /\ task'[r]["change"].pc = "release"
              /\ home \notin secret
        /\ task'[r]["change"].gateway = h.gateway
        /\ task'[r]["timer"] = task[r]["timer"]
    BY <1>2, <2>2, CleanInEffect
  <2>4. home \notin secret => \A e \in Database : rows[e][r] = 0
    BY DEF Homed
  <2> QED
    BY <1>2, <2>1, <2>3, <2>4 DEF Homed, Slot
<1>3. CASE CleanupDatabase(r) \/ CleanupFallback(r)
  <2>1. h.pc = "cleanup" /\ h.gateway = obj[r].gateway /\ UNCHANGED <<obj, status, rows>>
    BY <1>0, <1>3 DEF CleanupDatabase, CleanupFallback, At, LocalInv, Lifecycle, Homed,
       Deleting
  <2> QED
    BY <1>2, <1>3, <2>1 DEF CleanupDatabase, CleanupFallback
<1>4. ASSUME h.pc = "erase", SetRow(h.db, r, 0)
      PROVE  \A e \in Database : rows'[e][r] = 0
  <2>1. h.db = home /\ h.db # None
    BY <1>4 DEF LocalInv, Lifecycle, Erased, Deleting, Homed
  <2>2. h.db \in Database
    BY <1>0, <2>1 DEF Task, DbOrNone
  <2>3. /\ rows'[h.db][r] = 0
        /\ \A e \in Database : e # h.db => rows'[e][r] = rows[e][r]
    BY <1>0, <1>4, <2>2, SetRowEffect
  <2> QED
    BY <2>1, <2>3 DEF Homed
<1>5. CASE Erase(r)
  <2>1. /\ task'[r]["change"].pc = "release"
        /\ task'[r]["change"].gateway = h.gateway
        /\ task'[r]["timer"] = task[r]["timer"]
    BY <1>0, <1>5, GotoEffect DEF Erase
  <2>2. h.pc = "erase" /\ SetRow(h.db, r, 0) /\ UNCHANGED <<obj, status>>
    BY <1>5 DEF Erase, At
  <2> QED
    BY <1>4, <2>1, <2>2 DEF Homed, Slot
<1>6. ASSUME SetTask(r, "change", Idle), UNCHANGED <<obj, status>>,
             UNCHANGED rows \/ \A e \in Database : rows'[e][r] = 0
      PROVE  Homed(r)'
  <2>1. task'[r]["change"].pc = "idle" /\ task'[r]["timer"] = task[r]["timer"]
    BY <1>0, <1>6, IdleTyped, SetTaskEffect DEF Idle
  <2> QED
    BY <1>6, <2>1 DEF Homed, Slot
<1>7. CASE DeleteFails(r)
  BY <1>4, <1>6, <1>7 DEF DeleteFails, At
<1>8. CASE RepeatDelete(r)
  BY <1>6, <1>8 DEF RepeatDelete
<1>9. CASE Release(r)
  <2>1. \A e \in Database : rows'[e][r] = 0
    BY <1>9 DEF Release, At, LocalInv, Lifecycle, Deleting, Homed
  <2>2. obj'[r].state = "absent"
    BY <1>9 DEF Release, TypeOK, Object
  <2> QED
    BY <2>1, <2>2 DEF Homed
<1> QED
  BY <1>1, <1>3, <1>5, <1>7, <1>8, <1>9 DEF DeleteStep

LEMMA HomeStart ==
    ASSUME TypeOK, NEW r \in Resource, LocalInv(r), Homed(r), Still, moves' = moves,
           StartChange(r) \/ StartTimer(r) \/ UserStep(r)
    PROVE  Homed(r)'
<1> USE DEF Still
<1>0. obj[r] \in Object /\ "change" \in Slot /\ "timer" \in Slot
  BY DEF TypeOK, Slot
<1>1. ASSUME NEW s \in Slot, Begin(r, s), obj[r].state # "absent",
             UNCHANGED <<obj, status, rows>>
      PROVE  Homed(r)'
  BY <1>0, <1>1, BeginEffect DEF OthersKept, Homed, Slot
<1>2. CASE StartChange(r) \/ StartTimer(r)
  BY <1>0, <1>1, <1>2 DEF StartChange, StartTimer
<1>3. ASSUME NEW g \in Gateway, NEW ok \in BOOLEAN, Create(r, g, ok)
      PROVE  Homed(r)'
  <2>1. /\ obj[r].state = "absent" /\ obj'[r].gateway = g
        /\ UNCHANGED <<status, rows, task>>
    BY <1>0, <1>3 DEF Create, TypeOK
  <2>2. status[r].db = None /\ \A s \in Slot : task[r][s].pc = "idle"
    BY <2>1 DEF LocalInv, Lifecycle
  <2>3. \A d \in Database : rows[d][r] = 0
    BY <2>1 DEF Homed
  <2> QED
    BY <1>0, <2>1, <2>2, <2>3 DEF Homed
<1>4. ASSUME NEW g \in Gateway, NEW ok \in BOOLEAN, Edit(r, g, ok)
      PROVE  Homed(r)'
  <2>1. g = obj[r].gateway
    BY <1>4 DEF Edit, TypeOK
  <2>2. /\ obj'[r].gateway = obj[r].gateway /\ obj'[r].state = obj[r].state
        /\ UNCHANGED <<status, rows, task>>
    BY <1>0, <1>4, <2>1 DEF Edit, TypeOK
  <2> QED
    BY <2>2 DEF Homed
<1>5. CASE RequestDelete(r)
  <2>1. /\ obj'[r].gateway = obj[r].gateway
        /\ obj'[r].state = "deleting" /\ obj[r].state = "live"
        /\ UNCHANGED <<status, rows, task>>
    BY <1>0, <1>5 DEF RequestDelete, TypeOK, Object
  <2> QED
    BY <2>1 DEF Homed
<1> QED
  BY <1>2, <1>3, <1>4, <1>5 DEF UserStep

LEMMA HomeInit == Init => HomeInv
<1> SUFFICES ASSUME Init PROVE HomeInv
  OBVIOUS
<1>1. ASSUME NEW r \in Resource
      PROVE  Homed(r)
  BY <1>1 DEF Init, Homed, NoStatus, Idle
<1> QED
  BY <1>1, InvInit DEF HomeInv, Init

LEMMA HomeStep == ASSUME MaxMoves = 0, HomeInv, [Next]_vars PROVE HomeInv'
<1>0. /\ Inv' /\ TypeOK /\ moves = 0
      /\ \A q \in Resource : LocalInv(q) /\ Homed(q)
  BY InvStep DEF HomeInv, Inv
<1>1. moves' = 0
  BY <1>0 DEF Inv, TypeOK
<1>2. Still
  <2>1. ASSUME NEW r \in Resource, RowStep(r)
        PROVE  Still
    BY <2>1 DEF RowStep, ChangeTask, TimerTask, UserStep, FaultStep, ReconcileStep,
       DeleteStep, Still, world, Create, Edit, RequestDelete, StartChange, StartTimer,
       Resolve, Write, Patch, StartDelete, CleanupDatabase, Erase, Release, RepeatDelete,
       DependencyFails, CommitUnknown, CleanupFallback, DeleteFails
  <2>2. ~Topology
    BY <1>0 DEF Topology, ChangeGateway, ToggleSecret
  <2>3. Crash \/ UNCHANGED vars => Still
    BY DEF Crash, vars, world, Still
  <2> QED
    BY <2>1, <2>2, <2>3 DEF Next, RowStep
<1>3. ASSUME NEW r \in Resource, RowStep(r), NEW q \in Resource
      PROVE  Homed(q)'
  <2>1. CASE q # r
    BY <1>0, <1>2, <1>3, <2>1, Frame, HomeSame
  <2>2. CASE q = r
    BY <1>0, <1>1, <1>2, <1>3, <2>2, HomeReconcile, HomeDelete, HomeStart
       DEF RowStep, ChangeTask, TimerTask, FaultStep, Slot
  <2> QED
    BY <2>1, <2>2
<1>4. ASSUME NEW q \in Resource, UNCHANGED vars
      PROVE  Homed(q)'
  BY <1>0, <1>2, <1>4, HomeSame DEF vars, Same
<1>5. ASSUME NEW q \in Resource, Crash
      PROVE  Homed(q)'
  <2>1. /\ \A s \in Slot : task'[q][s].pc = "idle"
        /\ UNCHANGED <<obj, status, rows>>
    BY <1>5 DEF Crash, Idle
  <2> QED
    BY <1>0, <1>2, <2>1 DEF Homed, Still, Slot
<1>6. (\E r \in Resource : RowStep(r)) \/ Crash \/ UNCHANGED vars
  BY <1>0 DEF Next, RowStep, Topology, ChangeGateway, ToggleSecret
<1> QED
  BY <1>0, <1>1, <1>3, <1>4, <1>5, <1>6 DEF HomeInv

\* While gatewayRefs, gateways and database Secrets stay as they are, a deleted
\* resource leaves no row behind in any database: not after lost commits, failing
\* reads, operator crashes, or refreshes still running when it was deleted.
THEOREM StableNoOrphans == ASSUME MaxMoves = 0 PROVE Spec => []NoOrphans
<1>1. HomeInv /\ [Next]_vars => HomeInv'
  BY HomeStep
<1>2. HomeInv => NoOrphans
  BY DEF HomeInv, Homed, NoOrphans
<1> QED
  BY HomeInit, <1>1, <1>2, PTL DEF Spec

-----------------------------------------------------------------------------
(***************************************************************************)
(* What is settled stays settled.                                          *)
(***************************************************************************)
\* What a settled resource depends on, besides its runs.
Unmoved(r) ==
    /\ obj'[r] = obj[r] /\ Still
    /\ rows'[gateway[obj[r].gateway]][r] = rows[gateway[obj[r].gateway]][r]
    /\ status'[r].db = status[r].db

LEMMA SettledBy ==
    ASSUME NEW r \in Resource, Settled(r), Unmoved(r),
           \A s \in Slot : \/ task'[r][s] = task[r][s]
                           \/ UpToDate(r, task[r][s])'
    PROVE  Settled(r)'
<1>1. \A s \in Slot : UpToDate(r, task[r][s])'
  BY DEF Settled, Unmoved, Still, UpToDate
<1> QED
  BY <1>1 DEF Settled, Unmoved, Still, Resolvable

LEMMA SettledHome ==
    ASSUME TypeOK, NEW r \in Resource, Settled(r)
    PROVE  gateway[obj[r].gateway] \in Database /\ obj[r].version \in Version
BY DEF TypeOK, Settled, Resolvable, Object

\* A run that is up to date writes what is there, and reports what the status says;
\* one that fails reports nothing of the database.
LEMMA SettledReconcile ==
    ASSUME TypeOK, NEW r \in Resource, Settled(r), NEW s \in Slot,
           \/ ReconcileStep(r, s)
           \/ DependencyFails(r, s)
           \/ CommitUnknown(r, s)
    PROVE  Settled(r)'
<1> DEFINE home == gateway[obj[r].gateway]
           h == task[r][s]
<1>0. /\ TaskTyped /\ RowsTyped /\ home \in Database /\ obj[r].version \in Version
      /\ UpToDate(r, h) /\ obj' = obj /\ Still
  BY SettledHome DEF TypeOK, TaskTyped, RowsTyped, Settled, ReconcileStep, Resolve, Write,
     Patch, DependencyFails, CommitUnknown, Still, world
<1>1. CASE Resolve(r, s)
  <2>1. Unmoved(r) /\ h.pc = "resolve"
    BY <1>0, <1>1 DEF Resolve, Unmoved, At
  <2>2. UpToDate(r, task[r][s])'
    BY <1>0, <1>1, <2>1, ResolveEffect DEF UpToDate, Still, Reconciling
  <2> QED
    BY <1>1, <2>1, <2>2, ResolveEffect, SettledBy DEF OthersKept
<1>2. ASSUME h.pc = "write", SetRow(h.db, r, h.version), NEW pc \in {"ready", "error"},
             Goto(r, s, pc), UNCHANGED status
      PROVE  Settled(r)'
  <2>1. h.db = home /\ h.version = obj[r].version /\ h.gateway = obj[r].gateway
    BY <1>0, <1>2 DEF UpToDate, Reconciling
  <2>2. rows'[home][r] = obj[r].version
    BY <1>0, <1>2, <2>1, SetRowEffect
  <2>3. Unmoved(r)
    BY <1>0, <1>2, <2>2 DEF Unmoved, Settled
  <2>4. pc \in Pc
    BY DEF Pc, Reporting
  <2>5. UpToDate(r, task[r][s])'
    BY <1>0, <1>2, <2>1, <2>4, GotoEffect DEF UpToDate, Still
  <2> QED
    BY <1>0, <1>2, <2>3, <2>4, <2>5, GotoEffect, SettledBy
<1>3. CASE Write(r, s) \/ CommitUnknown(r, s)
  BY <1>2, <1>3 DEF Write, CommitUnknown, At
<1>4. CASE DependencyFails(r, s)
  <2>1. Goto(r, s, "error") /\ "error" \in Pc
    BY <1>4 DEF DependencyFails, Pc, Reporting
  <2>2. Unmoved(r)
    BY <1>0, <1>4 DEF DependencyFails, Unmoved
  <2>3. UpToDate(r, task[r][s])'
    BY <1>0, <2>1, GotoEffect DEF UpToDate, Reconciling
  <2> QED
    BY <1>0, <2>1, <2>2, <2>3, GotoEffect, SettledBy
<1>5. CASE Patch(r, s)
  <2>1. status'[r] = PatchedStatus(status[r], h)
    BY <1>5 DEF Patch, TypeOK
  <2>2. status'[r].db = status[r].db
    BY <1>0, <2>1 DEF PatchedStatus, UpToDate, Settled, TypeOK, Status
  <2>3. Unmoved(r)
    BY <1>0, <1>5, <2>2 DEF Patch, Unmoved
  <2>4. /\ task'[r][s] = Idle
        /\ \A t \in Slot : t # s => task'[r][t] = task[r][t]
    BY <1>0, <1>5, IdleTyped, SetTaskEffect DEF Patch
  <2>5. UpToDate(r, task[r][s])'
    BY <2>4 DEF UpToDate, Idle, Reconciling
  <2> QED
    BY <2>3, <2>4, <2>5, SettledBy
<1> QED
  BY <1>1, <1>3, <1>4, <1>5 DEF ReconcileStep

LEMMA SettledStart ==
    ASSUME TypeOK, NEW r \in Resource, Settled(r), StartChange(r) \/ StartTimer(r)
    PROVE  Settled(r)'
<1>1. PICK s \in Slot : Begin(r, s)
  BY DEF StartChange, StartTimer, Slot
<1>2. Unmoved(r)
  BY DEF StartChange, StartTimer, Unmoved, Still, world
<1>3. UpToDate(r, task[r][s])'
  BY <1>1, <1>2, BeginEffect DEF UpToDate, Unmoved
<1> QED
  BY <1>1, <1>2, <1>3, BeginEffect, SettledBy DEF OthersKept

\* A live resource is not being deleted by any run.
LEMMA SettledLive ==
    ASSUME NEW r \in Resource, LocalInv(r), Settled(r)
    PROVE  ~DeleteStep(r) /\ ~CleanupFallback(r) /\ ~DeleteFails(r)
BY DEF LocalInv, Lifecycle, Settled, Deleting, DeleteStep, StartDelete, CleanupDatabase,
   Erase, Release, RepeatDelete, CleanupFallback, DeleteFails, At

LEMMA SettledStep ==
    ASSUME Inv, [Next]_vars, NEW r \in Resource, Settled(r), ~UserStep(r), ~Topology
    PROVE  Settled(r)'
<1>0. TypeOK /\ LocalInv(r)
  BY DEF Inv
<1>1. CASE RowStep(r)
  <2>1. \/ StartChange(r) \/ StartTimer(r)
        \/ \E s \in Slot : \/ ReconcileStep(r, s)
                           \/ DependencyFails(r, s)
                           \/ CommitUnknown(r, s)
    BY <1>0, <1>1, SettledLive DEF RowStep, ChangeTask, TimerTask, FaultStep, Slot
  <2> QED
    BY <1>0, <2>1, SettledStart, SettledReconcile
<1>2. ASSUME NEW q \in Resource, RowStep(q), q # r
      PROVE  Settled(r)'
  <2>1. Same(r)
    BY <1>0, <1>2, Frame
  <2>2. Still
    BY <1>2 DEF RowStep, ChangeTask, TimerTask, UserStep, FaultStep, ReconcileStep,
       DeleteStep, Still, world, Create, Edit, RequestDelete, StartChange, StartTimer,
       Resolve, Write, Patch, StartDelete, CleanupDatabase, Erase, Release, RepeatDelete,
       DependencyFails, CommitUnknown, CleanupFallback, DeleteFails
  <2>3. Unmoved(r)
    BY <1>0, <2>1, <2>2, SettledHome DEF Same, Unmoved
  <2> QED
    BY <2>1, <2>3, SettledBy DEF Same
<1>3. CASE Crash
  <2>1. \A s \in Slot : task'[r][s] = Idle
    BY <1>3 DEF Crash
  <2>2. Unmoved(r)
    BY <1>3 DEF Crash, Unmoved, Still, world
  <2>3. \A s \in Slot : UpToDate(r, task[r][s])'
    BY <2>1 DEF UpToDate, Idle, Reconciling
  <2> QED
    BY <2>2, <2>3, SettledBy
<1>4. CASE UNCHANGED vars
  <2>1. Unmoved(r) /\ task' = task
    BY <1>4 DEF vars, Unmoved, Still, world
  <2> QED
    BY <2>1, SettledBy
<1> QED
  BY <1>1, <1>2, <1>3, <1>4 DEF Next, RowStep

\* The row of a resource whose references resolve, and the name of its database in
\* the status, stay through refreshes, failures, lost commits and restarts, and
\* through everything other resources do: only its user or the topology moves them.
THEOREM RowsStayPut == Spec => RowsStay
<1>1. Inv /\ [Next]_vars =>
          \A r \in Resource : Settled(r) => Settled(r)' \/ UserStep(r) \/ Topology
  BY SettledStep
<1> QED
  BY <1>1, InvCorrect, PTL DEF Spec, RowsStay

-----------------------------------------------------------------------------
(***************************************************************************)
(* While the topology is fixed the reconciler implements RowStore.         *)
(***************************************************************************)
Abstract == INSTANCE RowStoreProofs
            WITH Content <- 1..MaxVersion, None <- 0, wanted <- Wanted,
                 doomed <- Doomed, taken <- Pending, stored <- RowsOf

LEMMA AbstractIsRows ==
    /\ Abstract!Lose <=> Rows!Lose
    /\ [Abstract!StoreNext]_(Abstract!store) <=> [Rows!StoreNext]_(Rows!store)
BY DEF Abstract!StoreNext, Rows!StoreNext, Abstract!store, Rows!store,
   Abstract!Change, Rows!Change, Abstract!Doom, Rows!Doom, Abstract!Take, Rows!Take,
   Abstract!Lose, Rows!Lose, Abstract!Store, Rows!Store, Abstract!Erase, Rows!Erase,
   Abstract!Release, Rows!Release

\* The version a task may still write.
Due(h) == IF h.pc \in Reconciling THEN h.version ELSE 0

LEMMA PendingIs ==
    ASSUME NEW r \in Resource, Lifecycle(r)
    PROVE  Pending[r] = {Due(task[r]["change"]), Due(task[r]["timer"])} \ {0}
<1>1. \A s \in Slot : task[r][s].pc \in Reconciling => task[r][s].version # 0
  BY DEF Lifecycle
<1>2. \A n : n \in Pending[r] <=>
             \E s \in Slot : task[r][s].pc \in Reconciling /\ n = task[r][s].version
  BY DEF Pending
<1>3. \A n : n \in Pending[r] <=> n # 0 /\ \E s \in Slot : n = Due(task[r][s])
  BY <1>1, <1>2 DEF Due
<1> QED
  BY <1>3 DEF Slot

LEMMA PendingIsNext ==
    ASSUME NEW r \in Resource, Lifecycle(r)'
    PROVE  Pending'[r] = {Due(task'[r]["change"]), Due(task'[r]["timer"])} \ {0}
<1>1. \A s \in Slot : task'[r][s].pc \in Reconciling => task'[r][s].version # 0
  BY DEF Lifecycle
<1>2. \A n : n \in Pending'[r] <=>
             \E s \in Slot : task'[r][s].pc \in Reconciling /\ n = task'[r][s].version
  BY DEF Pending
<1>3. \A n : n \in Pending'[r] <=> n # 0 /\ \E s \in Slot : n = Due(task'[r][s])
  BY <1>1, <1>2 DEF Due
<1> QED
  BY <1>3 DEF Slot

\* One task of r goes on, and the other one does not.
LEMMA OneTask ==
    ASSUME NEW r \in Resource, NEW s \in Slot, Lifecycle(r), Lifecycle(r)', OthersKept(r, s)
    PROVE  LET a == Due(task[r][s])
               x == Due(task'[r][s])
           IN  /\ x = 0 => Pending'[r] \in {Pending[r], Pending[r] \ {a}}
               /\ a = 0 /\ x # 0 => Pending'[r] = Pending[r] \cup {x}
               /\ x = a => Pending'[r] = Pending[r]
<1>1. PICK t \in Slot : t # s /\ Slot = {s, t}
  BY DEF Slot
<1>2. task'[r][t] = task[r][t]
  BY <1>1 DEF OthersKept
<1>3. /\ Pending[r] = {Due(task[r][s]), Due(task[r][t])} \ {0}
      /\ Pending'[r] = {Due(task'[r][s]), Due(task'[r][t])} \ {0}
  BY <1>1, PendingIs, PendingIsNext DEF Slot
<1>4. Pending'[r] = {Due(task'[r][s]), Due(task[r][t])} \ {0}
  BY <1>2, <1>3
<1> QED
  BY <1>3, <1>4, Abstract!PairMoves

\* What is stored of r, when at most one database has a row of it.
LEMMA StoredIs ==
    ASSUME NEW r \in Resource
    PROVE  /\ \A d \in Database : (rows'[d][r] # 0 /\ \A e \in Database : e # d => rows'[e][r] = 0)
                                   => RowsOf'[r] = {rows'[d][r]}
           /\ (\A e \in Database : rows'[e][r] = 0) => RowsOf'[r] = {}
           /\ UNCHANGED rows => RowsOf'[r] = RowsOf[r]
BY DEF RowsOf

LEMMA SameRow ==
    ASSUME NEW q \in Resource, Same(q)
    PROVE  Abstract!Same(q)
<1>1. Wanted'[q] = Wanted[q] /\ Doomed'[q] = Doomed[q]
  BY DEF Same, Wanted, Doomed
<1>2. Pending'[q] = Pending[q]
  BY DEF Same, Pending
<1>3. RowsOf'[q] = RowsOf[q]
  BY DEF Same, RowsOf
<1> QED
  BY <1>1, <1>2, <1>3 DEF Abstract!Same

LEMMA ObjectKept ==
    ASSUME NEW r \in Resource, obj' = obj
    PROVE  Wanted'[r] = Wanted[r] /\ Doomed'[r] = Doomed[r]
BY DEF Wanted, Doomed

Like(r) == \/ Abstract!Same(r) \/ Abstract!Changed(r) \/ Abstract!DoomedNow(r)
           \/ Abstract!TakenNow(r) \/ Abstract!Lost(r) \/ Abstract!StoredNow(r)
           \/ Abstract!Erased(r) \/ Abstract!Released(r)

LEMMA ReconcileIsLike ==
    ASSUME TypeOK, NEW r \in Resource, LocalInv(r), LocalInv(r)', Homed(r), NEW s \in Slot,
           \/ ReconcileStep(r, s)
           \/ DependencyFails(r, s)
           \/ CommitUnknown(r, s)
    PROVE  Like(r)
<1>0. /\ TaskTyped /\ RowsTyped /\ Lifecycle(r) /\ Lifecycle(r)'
      /\ {"ready", "error"} \subseteq Pc
      /\ task[r][s] \in Task
  BY DEF TypeOK, TaskTyped, RowsTyped, Pc, Reporting, LocalInv
<1>1. UNCHANGED obj
  BY DEF ReconcileStep, Resolve, Write, Patch, DependencyFails, CommitUnknown
<1>2. CASE Resolve(r, s)
  <2>1. /\ task[r][s].pc = "resolve" /\ task'[r][s].pc \in {"write", "error"}
        /\ task'[r][s].version = task[r][s].version /\ OthersKept(r, s) /\ UNCHANGED rows
    BY <1>2, ResolveEffect DEF Resolve, At
  <2>2. Due(task'[r][s]) \in {0, Due(task[r][s])}
    BY <2>1 DEF Due, Reconciling
  <2>3. Pending'[r] \in {Pending[r], Pending[r] \ {Due(task[r][s])}}
    BY <1>0, <2>1, <2>2, OneTask
  <2>4. Abstract!Lost(r)
    BY <1>1, <2>1, <2>3, ObjectKept, StoredIs DEF Abstract!Lost
  <2> QED
    BY <2>4 DEF Like
<1>3. CASE Write(r, s) \/ CommitUnknown(r, s)
  <2> DEFINE db == task[r][s].db
             v == task[r][s].version
  <2>1. task[r][s].pc = "write" /\ SetRow(db, r, v)
        /\ \E pc \in {"ready", "error"} : Goto(r, s, pc)
    BY <1>3 DEF Write, CommitUnknown, At
  <2>2. /\ db \in Database /\ v \in Version /\ v # 0
        /\ \A e \in Database : e # db => rows[e][r] = 0
    BY <1>0, <2>1 DEF LocalInv, Lifecycle, Holder, Homed, Task, DbOrNone, Reconciling
  <2>3. rows'[db][r] = v /\ \A e \in Database : e # db => rows'[e][r] = 0
    BY <1>0, <2>1, <2>2, SetRowEffect
  <2>4. RowsOf'[r] = {v}
    BY <2>2, <2>3, StoredIs
  <2>5. task'[r][s].pc \in {"ready", "error"} /\ OthersKept(r, s)
    BY <1>0, <2>1, GotoEffect DEF OthersKept
  <2>6. Due(task'[r][s]) = 0 /\ Due(task[r][s]) = v
    BY <2>1, <2>5 DEF Due, Reconciling
  <2>7. Pending'[r] \in {Pending[r], Pending[r] \ {v}}
    BY <1>0, <2>5, <2>6, OneTask
  <2>8. v \in Pending[r]
    BY <2>1 DEF Pending, Reconciling
  <2>9. Abstract!StoredNow(r)
    BY <1>1, <2>4, <2>7, <2>8, ObjectKept DEF Abstract!StoredNow
  <2> QED
    BY <2>9 DEF Like
<1>4. CASE DependencyFails(r, s) \/ Patch(r, s)
  <2>1. /\ task'[r][s].pc \in {"idle", "error"} /\ OthersKept(r, s) /\ UNCHANGED rows
    BY <1>0, <1>4, GotoEffect, IdleTyped, SetTaskEffect
       DEF DependencyFails, Patch, OthersKept, Idle
  <2>2. Pending'[r] \in {Pending[r], Pending[r] \ {Due(task[r][s])}}
    BY <1>0, <2>1, OneTask DEF Due, Reconciling
  <2>3. Abstract!Lost(r)
    BY <1>1, <2>1, <2>2, ObjectKept, StoredIs DEF Abstract!Lost
  <2> QED
    BY <2>3 DEF Like
<1> QED
  BY <1>2, <1>3, <1>4 DEF ReconcileStep

LEMMA DeletionIsLike ==
    ASSUME TypeOK, NEW r \in Resource, LocalInv(r), LocalInv(r)', Homed(r), Homed(r)',
           DeleteStep(r) \/ CleanupFallback(r) \/ DeleteFails(r)
    PROVE  Like(r)
<1> DEFINE h == task[r]["change"]
<1>0. /\ TaskTyped /\ RowsTyped /\ Lifecycle(r) /\ Lifecycle(r)'
      /\ "change" \in Slot /\ "timer" \in Slot
      /\ "release" \in Pc
  BY DEF TypeOK, TaskTyped, RowsTyped, Pc, Deleting, LocalInv, Slot
<1>1. Due(h) = 0
  BY DEF DeleteStep, StartDelete, CleanupDatabase, CleanupFallback, Erase, Release,
     RepeatDelete, DeleteFails, At, Due, Reconciling
\* A deletion reads nothing of the resource that it could write.
<1>2. task'[r]["timer"] = task[r]["timer"] /\ Due(task'[r]["change"]) = 0
  <2>1. CASE StartDelete(r)
    <3>1. CASE obj[r].valid
      BY <2>1, <3>1, StartDeleteEffect DEF Due, Reconciling
    <3>2. CASE ~obj[r].valid
      BY <1>1, <2>1, <3>2 DEF StartDelete
    <3> QED
      BY <3>1, <3>2
  <2>2. CASE CleanupDatabase(r) \/ CleanupFallback(r)
    BY <2>2, CleanInEffect DEF CleanupDatabase, CleanupFallback, Due, Reconciling
  <2>3. CASE Erase(r)
    BY <1>0, <2>3, GotoEffect DEF Erase, Due, Reconciling
  <2>4. CASE SetTask(r, "change", Idle)
    BY <1>0, <2>4, IdleTyped, SetTaskEffect DEF Idle, Due, Reconciling
  <2> QED
    BY <2>1, <2>2, <2>3, <2>4 DEF DeleteStep, Release, RepeatDelete, DeleteFails
<1>3. Pending'[r] = Pending[r]
  BY <1>0, <1>1, <1>2, PendingIs, PendingIsNext
<1>4. CASE UNCHANGED <<obj, rows>>
  BY <1>3, <1>4, ObjectKept, StoredIs DEF Abstract!Same, Like
<1>5. ASSUME h.pc = "erase", SetRow(h.db, r, 0), UNCHANGED obj
      PROVE  Like(r)
  <2>1. obj[r].state = "deleting" /\ h.db = gateway[obj[r].gateway] /\ h.db # None
    BY <1>5 DEF LocalInv, Lifecycle, Erased, Homed, Deleting
  <2>2. h.db \in Database /\ 0 \in Version
    BY <1>0, <2>1, BoundAssumption DEF TaskTyped, Task, DbOrNone, Version
  <2>3. \A e \in Database : rows'[e][r] = 0
    BY <1>0, <1>5, <2>1, <2>2, SetRowEffect DEF Homed
  <2>4. RowsOf'[r] = {} /\ Doomed[r]
    BY <2>1, <2>3, StoredIs DEF Doomed
  <2>5. Abstract!Erased(r)
    BY <1>3, <1>5, <2>4, ObjectKept DEF Abstract!Erased
  <2> QED
    BY <2>5 DEF Like
<1>6. CASE Release(r)
  <2>1. /\ obj[r].state = "deleting" /\ h.pc = "release" /\ h.quiet
        /\ task[r]["timer"].pc = "idle" /\ obj'[r].state = "absent"
    BY <1>6 DEF Release, At, LocalInv, Lifecycle, Deleting, TypeOK, Object
  <2>2. Pending[r] = {}
    BY <1>0, <1>1, <2>1, PendingIs DEF Due, Reconciling
  <2>3. \A e \in Database : rows'[e][r] = 0
    BY <2>1 DEF Homed
  <2>4. Doomed[r] /\ Doomed'[r] = FALSE /\ Wanted'[r] = 0 /\ RowsOf'[r] = {}
    BY <2>1, <2>3, StoredIs DEF Doomed, Wanted
  <2>5. Abstract!Released(r)
    BY <1>3, <2>2, <2>4 DEF Abstract!Released
  <2> QED
    BY <2>5 DEF Like
<1> QED
  BY <1>4, <1>5, <1>6 DEF DeleteStep, StartDelete, CleanupDatabase, CleanupFallback,
     Erase, RepeatDelete, DeleteFails, At

LEMMA StartIsLike ==
    ASSUME TypeOK, NEW r \in Resource, LocalInv(r), LocalInv(r)', obj'[r] \in Object,
           StartChange(r) \/ StartTimer(r) \/ UserStep(r)
    PROVE  Like(r)
<1>0. Lifecycle(r) /\ Lifecycle(r)' /\ obj[r] \in Object
  BY DEF LocalInv, TypeOK
<1>1. ASSUME NEW s \in Slot, Begin(r, s), At(r, s, "idle"), obj[r].state # "absent",
             UNCHANGED <<obj, rows>>
      PROVE  Like(r)
  <2>1. /\ task'[r][s].pc \in {"resolve", "invalid"} /\ task'[r][s].version = obj[r].version
        /\ OthersKept(r, s) /\ Due(task[r][s]) = 0
    BY <1>1, BeginEffect DEF At, Due, Reconciling
  <2>2. Wanted[r] = obj[r].version /\ obj[r].version # 0
    BY <1>0, <1>1 DEF Wanted, Lifecycle
  <2>3. CASE task'[r][s].pc = "resolve"
    <3>1. Due(task'[r][s]) = Wanted[r]
      BY <2>1, <2>2, <2>3 DEF Due, Reconciling
    <3>2. Pending'[r] = Pending[r] \cup {Wanted[r]}
      BY <1>0, <2>1, <2>2, <3>1, OneTask
    <3>3. Abstract!TakenNow(r)
      BY <1>1, <2>2, <3>2, ObjectKept, StoredIs DEF Abstract!TakenNow
    <3> QED
      BY <3>3 DEF Like
  <2>4. CASE task'[r][s].pc = "invalid"
    <3>1. Due(task'[r][s]) = Due(task[r][s])
      BY <2>1, <2>4 DEF Due, Reconciling
    <3>2. Pending'[r] = Pending[r]
      BY <1>0, <2>1, <3>1, OneTask
    <3>3. Abstract!Same(r)
      BY <1>1, <3>2, ObjectKept, StoredIs DEF Abstract!Same
    <3> QED
      BY <3>3 DEF Like
  <2> QED
    BY <2>1, <2>3, <2>4
<1>2. CASE StartChange(r) \/ StartTimer(r)
  BY <1>1, <1>2 DEF StartChange, StartTimer, Slot
<1>3. ASSUME UNCHANGED <<rows, task>>
      PROVE  Pending'[r] = Pending[r] /\ RowsOf'[r] = RowsOf[r]
  BY <1>3 DEF Pending, RowsOf
<1>4. ASSUME NEW g \in Gateway, NEW ok \in BOOLEAN, Create(r, g, ok) \/ Edit(r, g, ok)
      PROVE  Like(r)
  <2>1. /\ obj'[r].version = obj[r].version + 1 /\ obj[r].version < MaxVersion
        /\ obj'[r].state # "absent"
        /\ (obj'[r].state = "deleting") = (obj[r].state = "deleting")
        /\ UNCHANGED <<rows, task>>
    BY <1>4 DEF Create, Edit, TypeOK
  <2>2. obj'[r].version \in 1..MaxVersion
    BY <1>0, <2>1, BoundAssumption DEF Object, Version
  <2>3. Wanted'[r] \in 1..MaxVersion /\ Doomed'[r] = Doomed[r]
    BY <2>1, <2>2 DEF Wanted, Doomed
  <2>4. Abstract!Changed(r)
    BY <1>3, <2>1, <2>3 DEF Abstract!Changed
  <2> QED
    BY <2>4 DEF Like
<1>5. CASE RequestDelete(r)
  <2>1. /\ obj[r].state = "live" /\ obj'[r].state = "deleting"
        /\ obj'[r].version = obj[r].version /\ UNCHANGED <<rows, task>>
    BY <1>0, <1>5 DEF RequestDelete, TypeOK, Object
  <2>2. Wanted[r] # 0 /\ Wanted'[r] = Wanted[r] /\ Doomed'[r]
    BY <1>0, <2>1 DEF Wanted, Doomed, Lifecycle
  <2>3. Abstract!DoomedNow(r)
    BY <1>3, <2>1, <2>2 DEF Abstract!DoomedNow
  <2> QED
    BY <2>3 DEF Like
<1> QED
  BY <1>2, <1>4, <1>5 DEF UserStep

LEMMA RowsInit == Init => Rows!StoreInit
<1> SUFFICES ASSUME Init PROVE Rows!StoreInit
  OBVIOUS
<1>1. ASSUME NEW r \in Resource
      PROVE  Wanted[r] = 0 /\ Doomed[r] = FALSE /\ Pending[r] = {} /\ RowsOf[r] = {}
  <2>1. \A s \in Slot : task[r][s].pc = "idle"
    BY DEF Init, Idle
  <2>2. \A d \in Database : rows[d][r] = 0
    BY DEF Init
  <2>3. obj[r].state = "absent"
    BY DEF Init
  <2>4. Pending[r] = {}
    BY <2>1 DEF Pending, Reconciling
  <2>5. RowsOf[r] = {}
    BY <2>2 DEF RowsOf
  <2> QED
    BY <2>3, <2>4, <2>5 DEF Wanted, Doomed
<1>2. /\ Wanted = [r \in Resource |-> 0] /\ Doomed = [r \in Resource |-> FALSE]
      /\ Pending = [r \in Resource |-> {}] /\ RowsOf = [r \in Resource |-> {}]
  BY <1>1 DEF Wanted, Doomed, Pending, RowsOf
<1> QED
  BY <1>2 DEF Rows!StoreInit

LEMMA RowsTypedAs ==
    ASSUME Inv
    PROVE  Abstract!StoreType
<1>1. /\ obj \in [Resource -> Object] /\ task \in [Resource -> [Slot -> Task]]
      /\ rows \in [Database -> [Resource -> Version]]
      /\ \A r \in Resource : Lifecycle(r)
  BY DEF Inv, TypeOK, LocalInv
<1>2. Version \ {0} = 1..MaxVersion /\ Version = (1..MaxVersion) \cup {0}
  BY BoundAssumption DEF Version
<1>3. Wanted \in [Resource -> (1..MaxVersion) \cup {0}] /\ Doomed \in [Resource -> BOOLEAN]
  BY <1>1, <1>2 DEF Wanted, Doomed, Object
<1>4. Pending \in [Resource -> SUBSET (1..MaxVersion)]
  BY <1>1, <1>2 DEF Pending, Lifecycle, Task
<1>5. RowsOf \in [Resource -> SUBSET (1..MaxVersion)]
  BY <1>1, <1>2 DEF RowsOf
<1> QED
  BY <1>3, <1>4, <1>5 DEF Abstract!StoreType

LEMMA RowsStep ==
    ASSUME MaxMoves = 0, HomeInv, HomeInv', Abstract!StoreType, Abstract!StoreType',
           [Next]_vars
    PROVE  [Rows!StoreNext]_(Rows!store)
<1>0. /\ TypeOK /\ TypeOK' /\ moves = 0
      /\ \A q \in Resource : LocalInv(q) /\ LocalInv(q)' /\ Homed(q) /\ Homed(q)'
  BY DEF HomeInv, Inv
<1>1. ASSUME NEW r \in Resource, RowStep(r)
      PROVE  [Rows!StoreNext]_(Rows!store)
  <2>1. \A q \in Resource \ {r} : Abstract!Same(q)
    BY <1>0, <1>1, Frame, SameRow
  <2>2. Like(r)
    BY <1>0, <1>1, ReconcileIsLike, DeletionIsLike, StartIsLike
       DEF RowStep, ChangeTask, TimerTask, FaultStep, Slot, TypeOK
  <2> QED
    BY <2>1, <2>2, Abstract!StepOfOne, AbstractIsRows DEF Like
<1>2. CASE Crash
  <2>1. Pending' = [r \in Resource |-> {}]
    BY <1>2 DEF Crash, Pending, Idle, Reconciling
  <2>2. UNCHANGED <<Wanted, Doomed, RowsOf>>
    BY <1>2 DEF Crash, Wanted, Doomed, RowsOf
  <2>3. Rows!Lose
    BY <2>1, <2>2 DEF Rows!Lose
  <2> QED
    BY <2>3 DEF Rows!StoreNext
<1>3. CASE UNCHANGED vars
  <2>1. UNCHANGED Rows!store
    BY <1>3 DEF vars, Rows!store, Wanted, Doomed, Pending, RowsOf
  <2> QED
    BY <2>1
<1>4. (\E r \in Resource : RowStep(r)) \/ Crash \/ UNCHANGED vars
  BY <1>0 DEF Next, RowStep, Topology, ChangeGateway, ToggleSecret
<1> QED
  BY <1>1, <1>2, <1>3, <1>4

\* While gatewayRefs, gateways and database Secrets stay as they are the reconciler
\* is a RowStore: with two tasks, edits during a run, lost commits, retries and
\* restarts, a resource has at most one row, the row holds what was read of the
\* resource since it was made, and it goes with the resource.
THEOREM StableRowsAreRowStore == ASSUME MaxMoves = 0 PROVE Spec => IsRowStore
<1>1. HomeInv /\ [Next]_vars => HomeInv'
  BY HomeStep
<1>2. HomeInv => Abstract!StoreType
  BY RowsTypedAs DEF HomeInv
<1>3. /\ HomeInv /\ HomeInv' /\ Abstract!StoreType /\ Abstract!StoreType' /\ [Next]_vars
      => [Rows!StoreNext]_(Rows!store)
  BY RowsStep
<1>4. Spec => []HomeInv
  BY HomeInit, <1>1, PTL DEF Spec
<1>5. Spec => [](Abstract!StoreType)
  BY <1>2, <1>4, PTL
<1> QED
  BY RowsInit, <1>3, <1>4, <1>5, PTL DEF Spec, IsRowStore, Rows!StoreSpec

=============================================================================
