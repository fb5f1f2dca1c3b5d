------------------------------ MODULE RuntimeRow ------------------------------
(***************************************************************************)
(* The life of the PostgreSQL runtime row of a CallScope, DialPolicy,      *)
(* SIPTrunk, CallRoute or SIPUser resource.                                *)
(*                                                                         *)
(* Two kopf tasks of one resource run at the same time: the task of its    *)
(* change handlers (create, update, resume and delete, one after another)  *)
(* and the task of its 30 s refresh timer.  Each run of a handler takes a  *)
(* snapshot of the spec, resolves the database through the SIPGateway the  *)
(* snapshot names, commits one transaction there, and only then is the     *)
(* status patched; the world may change between any two of these steps.    *)
(*                                                                         *)
(* A spec is abstracted to the version of its contents, the gateway it     *)
(* names, and whether the pydantic model accepts it (the CRD schema        *)
(* accepts more).  A row holds the version it was written from, 0 for no   *)
(* row.  MaxVersion, MaxMoves and MaxFaults bound the exploration.         *)
(***************************************************************************)
EXTENDS Naturals

CONSTANTS
    Resource,    \* the custom resources of one kind
    Gateway,     \* names of SIPGateway resources
    Database,    \* names of database Secrets, one database behind each
    None,        \* no gateway, no database
    MaxVersion,  \* bound on the spec contents a resource goes through
    MaxMoves,    \* bound on topology changes: gatewayRef, gateways, Secrets
    MaxFaults    \* bound on transient failures and operator crashes

ASSUME NoneAssumption == None \notin Gateway /\ None \notin Database
ASSUME BoundAssumption == /\ MaxVersion \in Nat \ {0}
                          /\ MaxMoves \in Nat
                          /\ MaxFaults \in Nat

VARIABLES
    obj,      \* obj[r]: the resource in the API server
    status,   \* status[r]: its status subresource
    gateway,  \* gateway[g]: the database Secret SIPGateway g names, None if g is gone
    secret,   \* the database Secrets that exist
    rows,     \* rows[d][r]: version of r's row in database d, 0 if there is none
    task,     \* task[r][s]: what the change or the timer task of r is doing
    handled,  \* handled[r]: version the change handlers last finished with
    stopped,  \* stopped[r]: the timer of r starts no further run
    moves,    \* topology changes so far
    faults    \* faults so far

vars == <<obj, status, gateway, secret, rows, task, handled, stopped, moves, faults>>
world == <<gateway, secret, moves>>

Slot == {"change", "timer"}
Reconciling == {"resolve", "write"}
Reporting == {"ready", "error", "invalid"}  \* the status about to be patched
Deleting == {"cleanup", "erase", "release"}
DbOrNone == Database \cup {None}
Version == 0..MaxVersion

Object == [state : {"absent", "live", "deleting"}, version : Version,
           gateway : Gateway \cup {None}, valid : BOOLEAN]
Status == [phase : {"None", "Ready", "Error"}, version : Version, db : DbOrNone]
Task == [pc : {"idle"} \cup Reconciling \cup Reporting \cup Deleting,
         version : Version, gateway : Gateway \cup {None}, db : DbOrNone,
         quiet : BOOLEAN]

NoStatus == [phase |-> "None", version |-> 0, db |-> None]
Idle == [pc |-> "idle", version |-> 0, gateway |-> None, db |-> None, quiet |-> FALSE]

-----------------------------------------------------------------------------
Init ==
    /\ obj = [r \in Resource |-> [state |-> "absent", version |-> 0,
                                  gateway |-> None, valid |-> FALSE]]
    /\ status = [r \in Resource |-> NoStatus]
    /\ gateway \in [Gateway -> DbOrNone]
    /\ secret \in SUBSET Database
    /\ rows = [d \in Database |-> [r \in Resource |-> 0]]
    /\ task = [r \in Resource |-> [s \in Slot |-> Idle]]
    /\ handled = [r \in Resource |-> 0]
    /\ stopped = [r \in Resource |-> FALSE]
    /\ moves = 0
    /\ faults = 0

SetTask(r, s, h) == task' = [task EXCEPT ![r][s] = h]
At(r, s, pc) == task[r][s].pc = pc
Goto(r, s, pc) == SetTask(r, s, [task[r][s] EXCEPT !.pc = pc])
SetRow(d, r, v) == rows' = [rows EXCEPT ![d][r] = v]

(***************************************************************************)
(* The users of the API server.                                            *)
(***************************************************************************)
Create(r, g, ok) ==
    /\ obj[r].state = "absent"
    /\ obj[r].version < MaxVersion
    /\ obj' = [obj EXCEPT ![r] = [state |-> "live", version |-> obj[r].version + 1,
                                  gateway |-> g, valid |-> ok]]
    /\ stopped' = [stopped EXCEPT ![r] = FALSE]
    /\ UNCHANGED <<status, rows, task, handled, faults, world>>

\* An edit of the spec; one that names another gateway is a topology change.
Edit(r, g, ok) ==
    /\ obj[r].state # "absent"
    /\ obj[r].version < MaxVersion
    /\ moves' = IF g = obj[r].gateway THEN moves ELSE moves + 1
    /\ moves' <= MaxMoves
    /\ obj' = [obj EXCEPT ![r] = [state |-> obj[r].state, version |-> obj[r].version + 1,
                                  gateway |-> g, valid |-> ok]]
    /\ UNCHANGED <<status, gateway, secret, rows, task, handled, stopped, faults>>

RequestDelete(r) ==
    /\ obj[r].state = "live"
    /\ obj' = [obj EXCEPT ![r].state = "deleting"]
    /\ UNCHANGED <<status, rows, task, handled, stopped, faults, world>>

\* A gateway is created, deleted, or given another databaseSecretRef.
ChangeGateway(g, d) ==
    /\ moves < MaxMoves
    /\ gateway[g] # d
    /\ gateway' = [gateway EXCEPT ![g] = d]
    /\ moves' = moves + 1
    /\ UNCHANGED <<obj, status, secret, rows, task, handled, stopped, faults>>

\* A database Secret is created or deleted.
ToggleSecret(d) ==
    /\ moves < MaxMoves
    /\ secret' = IF d \in secret THEN secret \ {d} ELSE secret \cup {d}
    /\ moves' = moves + 1
    /\ UNCHANGED <<obj, status, gateway, rows, task, handled, stopped, faults>>

-----------------------------------------------------------------------------
(***************************************************************************)
(* Reconciliation, in the change task or in the timer task.                *)
(***************************************************************************)

\* The handler snapshots the spec and validates it: an InvalidSpecError goes
\* straight to the status.
Begin(r, s) ==
    SetTask(r, s, [pc |-> IF obj[r].valid THEN "resolve" ELSE "invalid",
                   version |-> obj[r].version, gateway |-> obj[r].gateway,
                   db |-> None, quiet |-> FALSE])

StartChange(r) ==
    /\ obj[r].state = "live"
    /\ handled[r] # obj[r].version
    /\ At(r, "change", "idle")
    /\ Begin(r, "change")
    /\ UNCHANGED <<obj, status, rows, handled, stopped, faults, world>>

\* Variant: a refresh that skips resources whose version was already handled.
StartTimerIfUnhandled(r) ==
    /\ obj[r].state # "absent"
    /\ ~stopped[r]
    /\ handled[r] # obj[r].version
    /\ At(r, "timer", "idle")
    /\ Begin(r, "timer")
    /\ UNCHANGED <<obj, status, rows, handled, stopped, faults, world>>

\* The timer goes on firing for a resource being deleted until the first cycle
\* of the deletion has stopped it.
StartTimer(r) ==
    /\ obj[r].state # "absent"
    /\ ~stopped[r]
    /\ At(r, "timer", "idle")
    /\ Begin(r, "timer")
    /\ UNCHANGED <<obj, status, rows, handled, stopped, faults, world>>

\* The gateway and then its database Secret are read; without either the run
\* ends in a DependencyError.
Resolve(r, s) ==
    LET d == gateway[task[r][s].gateway] IN
    /\ At(r, s, "resolve")
    /\ IF d \in secret
       THEN SetTask(r, s, [task[r][s] EXCEPT !.pc = "write", !.db = d])
       ELSE Goto(r, s, "error")
    /\ UNCHANGED <<obj, status, rows, handled, stopped, faults, world>>

\* The transaction commits in the database resolved earlier.
Write(r, s) ==
    /\ At(r, s, "write")
    /\ SetRow(task[r][s].db, r, task[r][s].version)
    /\ Goto(r, s, "ready")
    /\ UNCHANGED <<obj, status, handled, stopped, faults, world>>

\* The API server, another dependency or the database fails.
DependencyFails(r, s) ==
    /\ faults < MaxFaults
    /\ task[r][s].pc \in Reconciling
    /\ Goto(r, s, "error")
    /\ faults' = faults + 1
    /\ UNCHANGED <<obj, status, rows, handled, stopped, world>>

\* The connection is lost while the transaction commits: it is durable, and the
\* handler sees an exception.
CommitUnknown(r, s) ==
    /\ faults < MaxFaults
    /\ At(r, s, "write")
    /\ SetRow(task[r][s].db, r, task[r][s].version)
    /\ Goto(r, s, "error")
    /\ faults' = faults + 1
    /\ UNCHANGED <<obj, status, handled, stopped, world>>

\* Variant: the phase of an unfinished platform status where an error is due.
PatchedReconciling(old, h) ==
    IF h.pc = "ready"
    THEN [phase |-> "Ready", version |-> h.version, db |-> h.db]
    ELSE [old EXCEPT !.phase = "Reconciling", !.version = h.version]

\* Variant: an error status that names the database the run had resolved.
PatchedResolved(old, h) ==
    [phase |-> IF h.pc = "ready" THEN "Ready" ELSE "Error",
     version |-> h.version, db |-> h.db]

\* A merge patch: the status of an error has no databaseSecretRef and keeps the
\* one that is there.
PatchedStatus(old, h) ==
    IF h.pc = "ready"
    THEN [phase |-> "Ready", version |-> h.version, db |-> h.db]
    ELSE [old EXCEPT !.phase = "Error", !.version = h.version]

\* The handler returned or raised: the status is patched, and the change task is
\* done with this version unless the error was a temporary one.
Patch(r, s) ==
    /\ task[r][s].pc \in Reporting
    /\ status' = [status EXCEPT ![r] = PatchedStatus(@, task[r][s])]
    /\ handled' = IF s = "change" /\ ~At(r, s, "error")
                  THEN [handled EXCEPT ![r] = task[r][s].version]
                  ELSE handled
    /\ SetTask(r, s, Idle)
    /\ UNCHANGED <<obj, rows, stopped, faults, world>>

-----------------------------------------------------------------------------
(***************************************************************************)
(* Deletion: cycles of the change task, repeated until one of them both    *)
(* found the timer finished and ran the delete handler with success.       *)
(***************************************************************************)

\* Variant: the timer goes on while the resource is deleted.
StartDeleteOnly(r) ==
    /\ obj[r].state = "deleting"
    /\ At(r, "change", "idle")
    /\ obj[r].valid
    /\ SetTask(r, "change",
               [pc |-> "cleanup", version |-> obj[r].version,
                gateway |-> obj[r].gateway, db |-> status[r].db,
                quiet |-> At(r, "timer", "idle")])
    /\ UNCHANGED <<obj, status, rows, handled, stopped, faults, world>>

\* A cycle stops the timer, notes whether its last run is over, and enters the
\* delete handler; the handler raises at once when the spec is not valid.
StartDelete(r) ==
    /\ obj[r].state = "deleting"
    /\ At(r, "change", "idle")
    /\ stopped' = [stopped EXCEPT ![r] = TRUE]
    /\ IF obj[r].valid
       THEN SetTask(r, "change",
                    [pc |-> "cleanup", version |-> obj[r].version,
                     gateway |-> obj[r].gateway, db |-> status[r].db,
                     quiet |-> At(r, "timer", "idle")])
       ELSE UNCHANGED task
    /\ UNCHANGED <<obj, status, rows, handled, faults, world>>

\* Erase from database d; with no Secret of that name the 404 is swallowed and
\* the handler succeeds without having touched any database.
CleanIn(r, d) ==
    SetTask(r, "change",
            IF d \in secret
            THEN [task[r]["change"] EXCEPT !.pc = "erase", !.db = d]
            ELSE [task[r]["change"] EXCEPT !.pc = "release", !.db = None])

\* The database of the gateway the spec names now, else the one in the status.
CleanupDatabase(r) ==
    LET h == task[r]["change"] IN
    /\ At(r, "change", "cleanup")
    /\ CleanIn(r, IF gateway[h.gateway] # None THEN gateway[h.gateway] ELSE h.db)
    /\ UNCHANGED <<obj, status, rows, handled, stopped, faults, world>>

\* Any exception while the gateway is read leads to the status's database, when
\* the status names one.
CleanupFallback(r) ==
    /\ faults < MaxFaults
    /\ At(r, "change", "cleanup")
    /\ task[r]["change"].db # None
    /\ CleanIn(r, task[r]["change"].db)
    /\ faults' = faults + 1
    /\ UNCHANGED <<obj, status, rows, handled, stopped, world>>

Erase(r) ==
    /\ At(r, "change", "erase")
    /\ SetRow(task[r]["change"].db, r, 0)
    /\ Goto(r, "change", "release")
    /\ UNCHANGED <<obj, status, handled, stopped, faults, world>>

\* Variant: every failure is swallowed as a 404 is.
DeleteSwallows(r) ==
    /\ faults < MaxFaults
    /\ task[r]["change"].pc \in {"cleanup", "erase"}
    /\ Goto(r, "change", "release")
    /\ faults' = faults + 1
    /\ UNCHANGED <<obj, status, rows, handled, stopped, world>>

\* The handler raises, before its transaction committed or after: the cycle is
\* repeated.
DeleteFails(r) ==
    /\ faults < MaxFaults
    /\ task[r]["change"].pc \in {"cleanup", "erase"}
    /\ \/ UNCHANGED rows
       \/ At(r, "change", "erase") /\ SetRow(task[r]["change"].db, r, 0)
    /\ SetTask(r, "change", Idle)
    /\ faults' = faults + 1
    /\ UNCHANGED <<obj, status, handled, stopped, world>>

\* Variant: the finalizer does not wait for a refresh that is still running.
ReleaseAtOnce(r) ==
    /\ At(r, "change", "release")
    /\ obj' = [obj EXCEPT ![r].state = "absent"]
    /\ status' = [status EXCEPT ![r] = NoStatus]
    /\ handled' = [handled EXCEPT ![r] = 0]
    /\ SetTask(r, "change", Idle)
    /\ UNCHANGED <<rows, stopped, faults, world>>

\* The finalizer is removed, and the API server drops the resource.
Release(r) ==
    /\ At(r, "change", "release")
    /\ task[r]["change"].quiet
    /\ obj' = [obj EXCEPT ![r].state = "absent"]
    /\ status' = [status EXCEPT ![r] = NoStatus]
    /\ handled' = [handled EXCEPT ![r] = 0]
    /\ SetTask(r, "change", Idle)
    /\ UNCHANGED <<rows, stopped, faults, world>>

\* The timer was still running when the cycle began.
RepeatDelete(r) ==
    /\ At(r, "change", "release")
    /\ ~task[r]["change"].quiet
    /\ SetTask(r, "change", Idle)
    /\ UNCHANGED <<obj, status, rows, handled, stopped, faults, world>>

\* The operator dies and restarts: the runs of all handlers are lost, resume
\* handlers run for every resource, and no timer starts for one being deleted.
Crash ==
    /\ faults < MaxFaults
    /\ task' = [r \in Resource |-> [s \in Slot |-> Idle]]
    /\ handled' = [r \in Resource |-> 0]
    /\ stopped' = [r \in Resource |-> obj[r].state = "deleting"]
    /\ faults' = faults + 1
    /\ UNCHANGED <<obj, status, rows, world>>

-----------------------------------------------------------------------------
ReconcileStep(r, s) == Resolve(r, s) \/ Write(r, s) \/ Patch(r, s)
DeleteStep(r) == \/ StartDelete(r) \/ CleanupDatabase(r) \/ Erase(r)
                 \/ Release(r) \/ RepeatDelete(r)
ChangeTask(r) == StartChange(r) \/ ReconcileStep(r, "change") \/ DeleteStep(r)
TimerTask(r) == StartTimer(r) \/ ReconcileStep(r, "timer")

UserStep(r) == \/ \E g \in Gateway, ok \in BOOLEAN : Create(r, g, ok) \/ Edit(r, g, ok)
               \/ RequestDelete(r)
Topology == \/ \E g \in Gateway, d \in DbOrNone : ChangeGateway(g, d)
            \/ \E d \in Database : ToggleSecret(d)
FaultStep(r) == \/ \E s \in Slot : DependencyFails(r, s) \/ CommitUnknown(r, s)
                \/ CleanupFallback(r) \/ DeleteFails(r)

Next == \/ \E r \in Resource : \/ ChangeTask(r) \/ TimerTask(r)
                               \/ UserStep(r) \/ FaultStep(r)
        \/ Topology
        \/ Crash

Spec == Init /\ [][Next]_vars

\* kopf schedules both tasks of every resource for ever; failures are bounded.
Fairness == \A r \in Resource : WF_vars(ChangeTask(r)) /\ WF_vars(TimerTask(r))
FairSpec == Spec /\ Fairness

-----------------------------------------------------------------------------
(***************************************************************************)
(* Properties.                                                             *)
(***************************************************************************)

\* Every variable keeps its type, and the bounds are respected.
TypeOK ==
    /\ obj \in [Resource -> Object]
    /\ status \in [Resource -> Status]
    /\ gateway \in [Gateway -> DbOrNone]
    /\ secret \in SUBSET Database
    /\ rows \in [Database -> [Resource -> Version]]
    /\ task \in [Resource -> [Slot -> Task]]
    /\ handled \in [Resource -> Version]
    /\ stopped \in [Resource -> BOOLEAN]
    /\ moves \in 0..MaxMoves
    /\ faults \in 0..MaxFaults

\* While a resource is not being deleted, the database its status names holds a
\* row of it.  _cleanup_database falls back on that name, so a status naming a
\* database without the row would send the deletion to the wrong place.
StatusNamesRowHolder ==
    \A r \in Resource :
        obj[r].state = "live" /\ status[r].db # None => rows[status[r].db][r] # 0

CleanRelease(r) ==
    obj[r].state = "deleting" /\ obj'[r].state = "absent" =>
        /\ At(r, "change", "release")
        /\ task[r]["change"].db # None => rows'[task[r]["change"].db][r] = 0
        /\ \A s \in Slot : task'[r][s].pc = "idle"

\* When the finalizer goes, no row of the resource is in the database that the
\* deletion resolved, whatever a refresh that was still running wrote there after
\* the erasing transaction, and no handler of the resource is left to write one.
ReleaseLeavesNoRow == [][\A r \in Resource : CleanRelease(r)]_vars

\* A resource that is gone has no row in any database.  Deletion visits only one
\* database, so this needs every earlier write to have gone there.
NoOrphans ==
    \A r \in Resource, d \in Database : obj[r].state = "absent" => rows[d][r] = 0

Resolvable(r) == obj[r].valid /\ gateway[obj[r].gateway] \in secret

Current(r) == /\ rows[gateway[obj[r].gateway]][r] = obj[r].version
              /\ status[r] = [phase |-> "Ready", version |-> obj[r].version,
                             db |-> gateway[obj[r].gateway]]

\* A run of r that has read nothing which has changed since.
UpToDate(r, h) ==
    /\ h.pc \in Reconciling \cup {"ready"} =>
           h.version = obj[r].version /\ h.gateway = obj[r].gateway
    /\ h.pc \in {"write", "ready"} => h.db = gateway[obj[r].gateway]

\* The database of the gateway holds the row of the spec, and the status names it.
Settled(r) ==
    /\ obj[r].state = "live" /\ Resolvable(r)
    /\ rows[gateway[obj[r].gateway]][r] = obj[r].version
    /\ status[r].db = gateway[obj[r].gateway]
    /\ \A s \in Slot : UpToDate(r, task[r][s])

\* What is settled stays so through every refresh, failure, lost commit and restart,
\* and whatever happens to other resources: it takes an edit or the deletion of the
\* resource, or a move of a gateway or a Secret, to disturb it.
RowsStay ==
    [][\A r \in Resource : Settled(r) => Settled(r)' \/ UserStep(r) \/ Topology]_vars

\* Once edits stop, the row and the status of every resource whose references
\* resolve agree with its spec for good: what a slow refresh wrote from an older
\* snapshot is repaired by the next one.
Converges ==
    \A r \in Resource : <>[](obj[r].state = "live" /\ Resolvable(r) => Current(r))

\* A deletion comes to its end, unless the spec stays invalid: the model raises
\* before the delete handler does anything, on every retry.
DeletionTerminates ==
    \A r \in Resource : []<>(~(obj[r].state = "deleting" /\ obj[r].valid))

\* The spec contents of every resource, what its runs may still write, and the rows
\* that databases have of it.
Wanted == [r \in Resource |-> IF obj[r].state = "absent" THEN 0 ELSE obj[r].version]
Doomed == [r \in Resource |-> obj[r].state = "deleting"]
Pending == [r \in Resource |->
              {task[r][s].version : s \in {t \in Slot : task[r][t].pc \in Reconciling}}]
RowsOf == [r \in Resource |-> {rows[d][r] : d \in Database} \ {0}]

Rows == INSTANCE RowStore WITH Content <- 1..MaxVersion, None <- 0, wanted <- Wanted,
                               doomed <- Doomed, taken <- Pending, stored <- RowsOf

\* While the topology is fixed the reconciler is a RowStore: two tasks, lost commits,
\* retries and restarts never leave a second row, a row that no run of this life of
\* the resource has read, or a row that outlives it.
IsRowStore == Rows!StoreSpec

-----------------------------------------------------------------------------
(***************************************************************************)
(* The inductive invariant behind StatusNamesRowHolder, ReleaseLeavesNoRow *)
(* and, while the topology is fixed, NoOrphans.                            *)
(***************************************************************************)

\* Which handlers can be running in which state of the resource.
Lifecycle(r) ==
    /\ obj[r].state = "absent" => /\ \A s \in Slot : task[r][s].pc = "idle"
                                 /\ status[r].db = None
    /\ obj[r].state # "absent" => obj[r].version # 0
    /\ task[r]["timer"].pc \notin Deleting
    /\ task[r]["change"].pc \in Deleting =>
           /\ obj[r].state = "deleting"
           /\ stopped[r]
           /\ task[r]["change"].quiet => task[r]["timer"].pc = "idle"
    /\ \A s \in Slot : task[r][s].pc \in Reconciling \cup Reporting => task[r][s].version # 0

\* A database a status names, or is about to name, holds the row.
Holder(r) ==
    /\ obj[r].state = "live" /\ status[r].db # None => rows[status[r].db][r] # 0
    /\ \A s \in Slot : task[r][s].pc \in {"write", "ready"} => task[r][s].db # None
    /\ \A s \in Slot : obj[r].state = "live" /\ task[r][s].pc = "ready"
                        => rows[task[r][s].db][r] # 0

\* What the deletion has erased stays erased once the timer is done.
Erased(r) ==
    LET h == task[r]["change"] IN
    /\ h.pc = "erase" => h.db # None
    /\ h.pc = "release" /\ h.quiet /\ h.db # None => rows[h.db][r] = 0

LocalInv(r) == Lifecycle(r) /\ Holder(r) /\ Erased(r)

Inv == TypeOK /\ \A r \in Resource : LocalInv(r)

\* While nothing moves, every handler and every status of a resource agrees on
\* one database, its home, and only that database can hold a row of it.
Homed(r) ==
    LET home == gateway[obj[r].gateway]
        h == task[r]["change"]
    IN
    /\ \A d \in Database : rows[d][r] # 0 =>
           obj[r].state # "absent" /\ d = home /\ d \in secret
    /\ obj[r].state # "absent" =>
           /\ obj[r].gateway \in Gateway
           /\ status[r].db \in {None, home}
           /\ \A s \in Slot :
                 /\ task[r][s].pc # "idle" => task[r][s].gateway = obj[r].gateway
                 /\ task[r][s].pc \in {"write", "ready"} => task[r][s].db = home
                 /\ task[r][s].pc = "write" => home \in secret
           /\ h.pc = "cleanup" => h.db \in {None, home}
           /\ h.pc = "erase" => h.db = home
           /\ h.pc = "release" /\ h.quiet => \A d \in Database : rows[d][r] = 0

HomeInv == Inv /\ moves = 0 /\ \A r \in Resource : Homed(r)

=============================================================================
