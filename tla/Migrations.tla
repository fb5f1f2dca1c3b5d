------------------------------ MODULE Migrations ------------------------------
(***************************************************************************)
(* run_migrations: every database transaction of the operator is preceded  *)
(* by a call that brings the schema to the newest revision.  A database    *)
(* that an older release made is recognised, stamped as revision 0001 and  *)
(* then upgraded; the revisions after 0001 look at what is there first.    *)
(*                                                                         *)
(* The lock in the code is of one process.  Operators of several           *)
(* namespaces, or two pods of one operator in a rollout, can share a       *)
(* database, so Process is a set.  They meet in PostgreSQL (READ           *)
(* COMMITTED): a statement sees the rows committed when it began, waits    *)
(* for rows locked by others, and a transaction commits as a whole.        *)
(*                                                                         *)
(* The schema is the number of the last revision whose tables are there,   *)
(* 0 with no tables.  RowId bounds the rows of alembic_version over time.  *)
(***************************************************************************)
EXTENDS Integers, FiniteSets

CONSTANTS
    Process,  \* operator processes
    RowId,    \* identities of rows of alembic_version
    Head      \* the newest revision

ASSUME HeadAssumption == Head \in Nat /\ Head >= 2

VARIABLES
    schema,   \* the tables there are, as a revision
    table,    \* whether alembic_version exists
    rows,     \* rows[id]: revision in that row of alembic_version, 0 if no such row
    call,     \* call[p]: what p is doing
    done      \* done[p]: the last call of p has returned

vars == <<schema, table, rows, call, done>>

Revision == 1..Head
Legacy == 1     \* the tables of releases before Alembic are those of 0001
Stampable == {1, 2}

\* seen: rows a DELETE is to remove; mine: rows changed and not yet committed.
Call == [pc : {"idle", "stamp", "delete", "insert", "upgrade", "create", "update", "commit"},
         revision : 0..Head, seen : SUBSET RowId, mine : SUBSET RowId]
Idle == [pc |-> "idle", revision |-> 0, seen |-> {}, mine |-> {}]

Live == {i \in RowId : rows[i] # 0}
\* Databases that are found: empty, from before Alembic, at a revision, or stamped
\* by a process that did not live to upgrade.
Known(s, r) == \/ r = 0 /\ s \in {0, Legacy}
               \/ r \in Revision /\ s = r
               \/ r = Legacy /\ s \in Stampable \cup {Head}

Init ==
    /\ schema \in 0..Head
    /\ \E i \in RowId, r \in 0..Head :
          /\ Known(schema, r)
          /\ table = (r # 0)
          /\ rows = [j \in RowId |-> IF j = i THEN r ELSE 0]
    /\ call = [p \in Process |-> Idle]
    /\ done = [p \in Process |-> FALSE]

At(p, pc) == call[p].pc = pc
SetCall(p, c) == call' = [call EXCEPT ![p] = c]
Goto(p, pc) == SetCall(p, [Idle EXCEPT !.pc = pc])

\* Revision 0001 creates its tables without looking; every later one looks at what
\* is there and makes the rest.
Tolerant(r) == r > 1
\* The revisions after `from` can be run on the tables there are.
Runs(from) == \A r \in (from + 1)..Head : Tolerant(r) \/ schema < r

Locked(p, i) == \E q \in Process \ {p} : i \in call[q].mine

-----------------------------------------------------------------------------
\* Variant: a schema is recognised by its alembic_version only.
RecognisedByStamp(first) == schema >= Legacy /\ table /\ first \in Stampable

\* _schema_matches_runtime_head, given the revision of the first row (0: none).
\* kubevoip_schema_migrations says 2 as long as the tables are those of 0001.
MatchesRuntimeHead(first) ==
    /\ schema >= Legacy
    /\ IF table THEN first \in Stampable ELSE schema = Legacy

\* The check, in a transaction of its own; a SELECT may return any row first.
Check(p) ==
    /\ At(p, "idle")
    /\ \E first \in {rows[i] : i \in Live} \cup (IF Live = {} THEN {0} ELSE {}) :
          Goto(p, IF MatchesRuntimeHead(first) THEN "stamp" ELSE "upgrade")
    /\ done' = [done EXCEPT ![p] = FALSE]
    /\ UNCHANGED <<schema, table, rows>>

(***************************************************************************)
(* command.stamp(config, "0001", purge=True): one transaction that creates *)
(* alembic_version if need be, deletes all rows and inserts 0001.          *)
(***************************************************************************)
StampBegin(p) ==
    /\ At(p, "stamp")
    /\ SetCall(p, [Idle EXCEPT !.pc = "delete", !.seen = Live])
    /\ UNCHANGED <<schema, table, rows, done>>

\* Variant: the purge is committed before the insert.
StampDeleteCommits(p) ==
    /\ At(p, "delete")
    /\ \A i \in call[p].seen : ~Locked(p, i)
    /\ table' = TRUE
    /\ rows' = [i \in RowId |-> IF i \in call[p].seen THEN 0 ELSE rows[i]]
    /\ Goto(p, "insert")
    /\ UNCHANGED <<schema, done>>

\* Variant: a stamp without purge.
StampKeepsRows(p) ==
    /\ At(p, "delete")
    /\ \A i \in call[p].seen : ~Locked(p, i)
    /\ Goto(p, "insert")
    /\ UNCHANGED <<schema, table, rows, done>>

\* Variant: the DELETE does not wait for the rows another transaction changed.
StampDeleteAtOnce(p) ==
    /\ At(p, "delete")
    /\ SetCall(p, [Idle EXCEPT !.pc = "insert", !.mine = call[p].seen \cap Live])
    /\ UNCHANGED <<schema, table, rows, done>>

\* The DELETE waits for locked rows, and takes those that are still there.
StampDelete(p) ==
    /\ At(p, "delete")
    /\ \A i \in call[p].seen : ~Locked(p, i)
    /\ SetCall(p, [Idle EXCEPT !.pc = "insert", !.mine = call[p].seen \cap Live])
    /\ UNCHANGED <<schema, table, rows, done>>

Others(p) == Live \ call[p].mine
Fresh(p) == {i \in RowId : rows[i] = 0 /\ \A q \in Process : i \notin call[q].seen}

\* Variant: the stamp claims the newest revision.
StampHead(p) ==
    /\ At(p, "insert")
    /\ \A i \in Others(p) : rows[i] # Head
    /\ \E new \in Fresh(p) :
          rows' = [i \in RowId |-> IF i = new THEN Head
                                  ELSE IF i \in call[p].mine THEN 0 ELSE rows[i]]
    /\ table' = TRUE
    /\ Goto(p, "upgrade")
    /\ UNCHANGED <<schema, done>>

\* The INSERT and the commit.
StampInsert(p) ==
    /\ At(p, "insert")
    /\ \A i \in Others(p) : rows[i] # Legacy
    /\ \E new \in Fresh(p) :
          rows' = [i \in RowId |-> IF i = new THEN Legacy
                                  ELSE IF i \in call[p].mine THEN 0 ELSE rows[i]]
    /\ table' = TRUE
    /\ Goto(p, "upgrade")
    /\ UNCHANGED <<schema, done>>

\* The version number is the key of alembic_version, and 0001 is there already;
\* while its row is locked the INSERT waits.
StampClash(p) ==
    /\ At(p, "insert")
    /\ \E i \in Others(p) : rows[i] = Legacy /\ ~Locked(p, i)
    /\ Goto(p, "idle")
    /\ UNCHANGED <<schema, table, rows, done>>

(***************************************************************************)
(* command.upgrade(config, "head"): all revisions in one transaction.      *)
(***************************************************************************)
\* The current revisions are read: none, one, or overlapping ones, an error.
UpgradeBegin(p) ==
    /\ At(p, "upgrade")
    /\ LET heads == {rows[i] : i \in Live} IN
       \/ /\ heads = {}
          /\ Goto(p, "create")
          /\ UNCHANGED done
       \/ /\ heads = {Head}
          /\ Goto(p, "idle")
          /\ done' = [done EXCEPT ![p] = TRUE]
       \/ /\ \E r \in 1..(Head - 1) :
                heads = {r} /\ SetCall(p, [Idle EXCEPT !.pc = "update", !.revision = r])
          /\ UNCHANGED done
       \/ /\ Cardinality(heads) > 1
          /\ Goto(p, "idle")
          /\ UNCHANGED done
    /\ UNCHANGED <<schema, table, rows>>

\* From nothing, revision 0001 included.
UpgradeCreate(p) ==
    /\ At(p, "create")
    /\ IF Runs(0)
       THEN /\ schema' = Head
            /\ table' = TRUE
            /\ \E new \in Fresh(p) : rows' = [rows EXCEPT ![new] = Head]
            /\ done' = [done EXCEPT ![p] = TRUE]
       ELSE UNCHANGED <<schema, table, rows, done>>
    /\ Goto(p, "idle")

\* After the first revision's tables its UPDATE of alembic_version locks the row.
UpgradeUpdate(p) ==
    /\ At(p, "update")
    /\ Runs(call[p].revision)
    /\ \E i \in Live :
          /\ rows[i] = call[p].revision
          /\ ~Locked(p, i)
          /\ SetCall(p, [call[p] EXCEPT !.pc = "commit", !.mine = {i}])
    /\ UNCHANGED <<schema, table, rows, done>>

\* A revision fails, or no row of its predecessor is there any more: Alembic
\* expects to match one.
UpgradeMissed(p) ==
    /\ At(p, "update")
    /\ Runs(call[p].revision) => \A i \in Live : rows[i] # call[p].revision
    /\ Goto(p, "idle")
    /\ UNCHANGED <<schema, table, rows, done>>

\* Rows that have a version the upgrade of p takes its own row through.
InTheWay(p) == {i \in Others(p) : rows[i] > call[p].revision}

UpgradeCommit(p) ==
    /\ At(p, "commit")
    /\ InTheWay(p) = {}
    /\ rows' = [i \in RowId |-> IF i \in call[p].mine THEN Head ELSE rows[i]]
    /\ schema' = Head
    /\ done' = [done EXCEPT ![p] = TRUE]
    /\ Goto(p, "idle")
    /\ UNCHANGED table

\* The UPDATEs take the row through every version up to the newest, and the version
\* number is the key: another row with one of them ends the upgrade.
UpgradeClash(p) ==
    /\ At(p, "commit")
    /\ \E i \in InTheWay(p) : ~Locked(p, i)
    /\ Goto(p, "idle")
    /\ UNCHANGED <<schema, table, rows, done>>

\* The process dies, the connection breaks, tables being created clash, a statement
\* that waited matches no row, or PostgreSQL ends a deadlock: the transaction is
\* rolled back, and the call is repeated with the next reconciliation.
Fail(p) ==
    /\ ~At(p, "idle")
    /\ Goto(p, "idle")
    /\ UNCHANGED <<schema, table, rows, done>>

Stamp(p) == StampBegin(p) \/ StampDelete(p) \/ StampInsert(p) \/ StampClash(p)
Upgrade(p) == \/ UpgradeBegin(p) \/ UpgradeCreate(p) \/ UpgradeUpdate(p)
              \/ UpgradeMissed(p) \/ UpgradeCommit(p) \/ UpgradeClash(p)
RunMigrations(p) == Check(p) \/ Stamp(p) \/ Upgrade(p)

Next == \E p \in Process : RunMigrations(p) \/ Fail(p)

Spec == Init /\ [][Next]_vars

\* The timers of the resources call run_migrations for ever, in every process.
Fairness == \A p \in Process : WF_vars(RunMigrations(p))
FairSpec == Spec /\ Fairness

-----------------------------------------------------------------------------
(***************************************************************************)
(* Properties.                                                             *)
(***************************************************************************)

\* Every variable keeps its type, and a row is changed by one process at a time.
TypeOK ==
    /\ schema \in 0..Head
    /\ table \in BOOLEAN
    /\ rows \in [RowId -> 0..Head]
    /\ call \in [Process -> Call]
    /\ done \in [Process -> BOOLEAN]
    /\ \A p, q \in Process : p # q => call[p].mine \cap call[q].mine = {}

\* Whatever is interrupted, what is committed can be gone on from: a revision is
\* never claimed before its tables exist, and tables are never left without a
\* revision, for revision 0001 would then be tried on top of them for ever (except
\* those of releases before Alembic, which the check recognises).
Recoverable ==
    /\ \A i \in Live : rows[i] <= schema
    /\ Live = {} => ~table /\ schema \in {0, Legacy}

\* The stamp empties alembic_version and the upgrade moves its one row.  Stamps can
\* cross: a DELETE does not see a row inserted after it began, and if that row has
\* gone on to the newest revision the keys do not clash.  Then there are two rows,
\* 0001 and the newest, whatever else the processes do, and never more.
CrossedStamps == \A i, j \in Live : i # j => {rows[i], rows[j]} = {Legacy, Head}

Overlapping == Cardinality(Live) > 1

\* From some time on no call is interrupted; one may still end in an error of its own.
Calm == <>[][\A p \in Process : Fail(p) => RunMigrations(p)]_vars

\* Every database of an earlier release, from before Alembic too, comes to the
\* tables of the newest revision and keeps them, and calls that succeed never end,
\* unless two stamps cross and leave two rows.  The version need not stay the
\* newest, and one process may never succeed: another may stamp 0001 on what it is
\* upgrading, again and again.
HeadReached ==
    Calm => \/ <>Overlapping
            \/ <>[](schema = Head) /\ \E p \in Process : []<>done[p]
=============================================================================
