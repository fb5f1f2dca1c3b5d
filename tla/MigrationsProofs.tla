--------------------------- MODULE MigrationsProofs ---------------------------
(* Machine-checked proofs about Migrations, for any processes and rows. *)
EXTENDS Migrations, TLAPS

\* A stamp is only under way on tables that are there.
Started == \A p \in Process : call[p].pc \in {"stamp", "delete", "insert"} => schema >= Legacy

\* The rows of the versions that a row can be inserted with or upgraded to.
Ends == {i \in RowId : rows[i] \in {Legacy, Head}}

\* What a transaction of p relies on while others commit: the rows it has changed
\* stay what they are, and a row it did not see when it began is at one of the ends.
Crossing(p) ==
    LET c == call[p] IN
    /\ c.mine \subseteq Live
    /\ c.pc = "delete" => Live \ c.seen \subseteq Ends
    /\ c.pc = "insert" => Live \ c.mine \subseteq Ends
    /\ c.pc = "update" => c.revision \in 1..(Head - 1)
    /\ c.pc = "commit" => /\ c.revision \in 1..(Head - 1)
                          /\ \E i \in RowId : c.mine = {i} /\ rows[i] = c.revision

Apart == CrossedStamps /\ \A p \in Process : Crossing(p)

Inv == TypeOK /\ Recoverable /\ Started /\ Apart

LEMMA IdleIsCall == Idle \in Call
BY HeadAssumption DEF Idle, Call

LEMMA InitInv == Init => Inv
<1> SUFFICES ASSUME Init PROVE Inv
  OBVIOUS
<1>1. PICK i \in RowId, r \in 0..Head :
          /\ Known(schema, r)
          /\ table = (r # 0)
          /\ rows = [j \in RowId |-> IF j = i THEN r ELSE 0]
  BY DEF Init
<1>2. r <= schema /\ (r = 0 => schema \in {0, Legacy})
  BY <1>1, HeadAssumption DEF Init, Known, Revision, Stampable, Legacy
<1>3. rows \in [RowId -> 0..Head] /\ rows[i] = r
      /\ \A j \in RowId : j # i => rows[j] = 0
  BY <1>1, HeadAssumption
<1>4. \A p \in Process : call[p] = Idle
  BY DEF Init
<1>5. TypeOK
  BY <1>1, <1>3, <1>4, IdleIsCall DEF Init, TypeOK, Idle
<1>6. Recoverable
  BY <1>1, <1>2, <1>3, HeadAssumption DEF Init, Recoverable, Live
<1>7. Started
  BY <1>4 DEF Started, Idle
<1>8. CrossedStamps
  BY <1>3 DEF CrossedStamps, Live
<1>9. \A p \in Process : Crossing(p)
  BY <1>4 DEF Crossing, Idle
<1> QED
  BY <1>5, <1>6, <1>7, <1>8, <1>9 DEF Inv, Apart

\* What a process does next takes its own record only, and holds no row that
\* another process has changed.
LEMMA CallEffect ==
    ASSUME TypeOK, NEW p \in Process, NEW c \in Call, SetCall(p, c),
           \A q \in Process \ {p} : c.mine \cap call[q].mine = {}
    PROVE  /\ call' \in [Process -> Call]
           /\ call'[p] = c
           /\ \A q \in Process \ {p} : call'[q] = call[q]
           /\ \A q, r \in Process : q # r => call'[q].mine \cap call'[r].mine = {}
<1>1. call \in [Process -> Call]
  BY DEF TypeOK
<1>2. call' \in [Process -> Call] /\ call'[p] = c
      /\ \A q \in Process \ {p} : call'[q] = call[q]
  BY <1>1 DEF SetCall
<1>3. \A q, r \in Process : q # r => call[q].mine \cap call[r].mine = {}
  BY DEF TypeOK
<1> QED
  BY <1>2, <1>3

\* The steps after which a process holds no row.
LEMMA GotoEffect ==
    ASSUME TypeOK, NEW p \in Process,
           NEW pc \in {"idle", "stamp", "upgrade", "create"}, Goto(p, pc)
    PROVE  /\ call' \in [Process -> Call]
           /\ call'[p].pc = pc /\ call'[p].mine = {}
           /\ \A q \in Process \ {p} : call'[q] = call[q]
           /\ \A q, r \in Process : q # r => call'[q].mine \cap call'[r].mine = {}
<1> DEFINE c == [Idle EXCEPT !.pc = pc]
<1>1. c \in Call /\ c.pc = pc /\ c.mine = {}
  BY IdleIsCall DEF Call, Idle
<1>2. SetCall(p, c)
  BY DEF Goto
<1> QED
  BY <1>1, <1>2, CallEffect

\* A step that leaves the tables and alembic_version alone keeps the invariant,
\* when the process goes on as it may.
LEMMA QuietStep ==
    ASSUME Inv, NEW p \in Process, UNCHANGED <<schema, table, rows>>,
           done' \in [Process -> BOOLEAN],
           call' \in [Process -> Call],
           \A q \in Process \ {p} : call'[q] = call[q],
           \A q, r \in Process : q # r => call'[q].mine \cap call'[r].mine = {},
           call'[p].pc \in {"stamp", "delete", "insert"} => schema >= Legacy,
           Crossing(p)'
    PROVE  Inv'
<1>1. TypeOK'
  BY DEF Inv, TypeOK
<1>2. Recoverable'
  BY DEF Inv, Recoverable, Live
<1>3. Started'
  BY DEF Inv, Started
<1>4. CrossedStamps'
  BY DEF Inv, Apart, CrossedStamps, Live
<1>5. ASSUME NEW q \in Process PROVE Crossing(q)'
  <2>1. CASE q = p
    BY <2>1
  <2>2. CASE q # p
    BY <2>2 DEF Inv, Apart, Crossing, Live, Ends
  <2> QED
    BY <2>1, <2>2
<1> QED
  BY <1>1, <1>2, <1>3, <1>4, <1>5 DEF Inv, Apart

\* What p commits is inserted at an end or replaces rows of its own, so the other
\* transactions can go on relying on what they have.
LEMMA OthersGoOn ==
    ASSUME Inv, NEW p \in Process,
           \A q \in Process \ {p} : call'[q] = call[q],
           \A i \in RowId : \/ rows'[i] = rows[i]
                            \/ i \notin Live \ call[p].mine /\ rows'[i] \in {0, Legacy, Head}
    PROVE  \A q \in Process \ {p} : Crossing(q)'
<1> SUFFICES ASSUME NEW q \in Process \ {p} PROVE Crossing(q)'
  OBVIOUS
<1>1. Crossing(q) /\ call'[q] = call[q] /\ call[q].mine \cap call[p].mine = {}
  BY DEF Inv, Apart, TypeOK
<1>2. \A i \in call[q].mine : i \in Live /\ rows'[i] = rows[i]
  BY <1>1 DEF Crossing, Live
<1>3. call'[q].mine \subseteq Live'
  BY <1>1, <1>2 DEF Live
<1>4. \A i \in Live' : rows'[i] # rows[i] => i \in Ends'
  BY DEF Live, Ends
<1>5. \A i \in Live' : rows'[i] = rows[i] => i \in Live /\ (i \in Ends => i \in Ends')
  BY DEF Live, Ends
<1>6. call'[q].pc = "delete" => Live' \ call'[q].seen \subseteq Ends'
  BY <1>1, <1>4, <1>5 DEF Crossing
<1>7. call'[q].pc = "insert" => Live' \ call'[q].mine \subseteq Ends'
  BY <1>1, <1>4, <1>5 DEF Crossing
<1>8. call'[q].pc = "update" => call'[q].revision \in 1..(Head - 1)
  BY <1>1 DEF Crossing
<1>9. call'[q].pc = "commit" => /\ call'[q].revision \in 1..(Head - 1)
                               /\ \E i \in RowId : call'[q].mine = {i} /\ rows'[i] = call'[q].revision
  BY <1>1, <1>2 DEF Crossing
<1> QED
  BY <1>3, <1>6, <1>7, <1>8, <1>9 DEF Crossing

LEMMA CheckStep ==
    ASSUME Inv, NEW p \in Process, Check(p)
    PROVE  Inv'
<1>1. TypeOK
  BY DEF Inv
<1>2. PICK first : Goto(p, IF MatchesRuntimeHead(first) THEN "stamp" ELSE "upgrade")
  BY DEF Check
<1> DEFINE pc == IF MatchesRuntimeHead(first) THEN "stamp" ELSE "upgrade"
<1>3. pc = "stamp" => schema >= Legacy
  BY DEF MatchesRuntimeHead
<1>4. pc \in {"idle", "stamp", "upgrade", "create"}
  OBVIOUS
<1>5. Goto(p, pc)
  BY <1>2
<1> HIDE DEF pc
<1>6. /\ call' \in [Process -> Call]
      /\ call'[p].pc = pc /\ call'[p].mine = {}
      /\ \A q \in Process \ {p} : call'[q] = call[q]
      /\ \A q, r \in Process : q # r => call'[q].mine \cap call'[r].mine = {}
  BY <1>1, <1>4, <1>5, GotoEffect
<1>7. UNCHANGED <<schema, table, rows>> /\ done' \in [Process -> BOOLEAN]
  BY <1>1 DEF Check, TypeOK
<1>8. Crossing(p)'
  BY <1>4, <1>6 DEF Crossing
<1> QED
  BY <1>3, <1>4, <1>6, <1>7, <1>8, QuietStep

LEMMA StampBeginStep ==
    ASSUME Inv, NEW p \in Process, StampBegin(p)
    PROVE  Inv'
<1> DEFINE c == [Idle EXCEPT !.pc = "delete", !.seen = Live]
<1>1. TypeOK
  BY DEF Inv
<1>2. c \in Call /\ c.pc = "delete" /\ c.mine = {} /\ c.seen = Live
  BY IdleIsCall DEF Call, Idle, Live
<1>3. schema >= Legacy
  BY DEF StampBegin, At, Inv, Started
<1>4. SetCall(p, c) /\ UNCHANGED <<schema, table, rows, done>>
  BY DEF StampBegin
<1>5. /\ call' \in [Process -> Call]
      /\ call'[p] = c
      /\ \A q \in Process \ {p} : call'[q] = call[q]
      /\ \A q, r \in Process : q # r => call'[q].mine \cap call'[r].mine = {}
  BY <1>1, <1>2, <1>4, CallEffect
<1>6. done' \in [Process -> BOOLEAN]
  BY <1>1, <1>4 DEF TypeOK
<1>7. Crossing(p)'
  BY <1>2, <1>4, <1>5 DEF Crossing, Live
<1> QED
  BY <1>2, <1>3, <1>4, <1>5, <1>6, <1>7, QuietStep

\* The DELETE takes rows that no other transaction holds.
LEMMA StampDeleteStep ==
    ASSUME Inv, NEW p \in Process, StampDelete(p)
    PROVE  Inv'
<1> DEFINE c == [Idle EXCEPT !.pc = "insert", !.mine = call[p].seen \cap Live]
<1>1. TypeOK
  BY DEF Inv
<1>2. c \in Call /\ c.pc = "insert" /\ c.mine = call[p].seen \cap Live
  BY IdleIsCall DEF Call, Idle, Live
<1>3. schema >= Legacy
  BY DEF StampDelete, At, Inv, Started
<1>4. SetCall(p, c) /\ UNCHANGED <<schema, table, rows, done>>
  BY DEF StampDelete
<1>5. \A q \in Process \ {p} : c.mine \cap call[q].mine = {}
  BY <1>2 DEF StampDelete, Locked
<1>6. /\ call' \in [Process -> Call]
      /\ call'[p] = c
      /\ \A q \in Process \ {p} : call'[q] = call[q]
      /\ \A q, r \in Process : q # r => call'[q].mine \cap call'[r].mine = {}
  BY <1>1, <1>2, <1>4, <1>5, CallEffect
<1>7. done' \in [Process -> BOOLEAN]
  BY <1>1, <1>4 DEF TypeOK
<1>8. Crossing(p)'
  <2>1. Live \ call[p].seen \subseteq Ends
    BY DEF StampDelete, At, Inv, Apart, Crossing
  <2>2. Live' = Live /\ Ends' = Ends
    BY <1>4 DEF Live, Ends
  <2> QED
    BY <1>2, <1>6, <2>1, <2>2 DEF Crossing
<1> QED
  BY <1>2, <1>3, <1>4, <1>6, <1>7, <1>8, QuietStep

LEMMA StampInsertStep ==
    ASSUME Inv, NEW p \in Process, StampInsert(p)
    PROVE  Inv'
<1>1. TypeOK /\ Recoverable /\ Started
  BY DEF Inv
<1>2. PICK new \in Fresh(p) :
          rows' = [i \in RowId |-> IF i = new THEN Legacy
                                  ELSE IF i \in call[p].mine THEN 0 ELSE rows[i]]
  BY DEF StampInsert
<1>3. table' = TRUE /\ Goto(p, "upgrade") /\ UNCHANGED <<schema, done>> /\ new \in RowId
  BY DEF StampInsert, Fresh
<1>4. schema >= Legacy
  BY <1>1 DEF StampInsert, At, Started
<1>5. /\ call' \in [Process -> Call]
      /\ call'[p].pc = "upgrade" /\ call'[p].mine = {}
      /\ \A q \in Process \ {p} : call'[q] = call[q]
      /\ \A q, r \in Process : q # r => call'[q].mine \cap call'[r].mine = {}
  BY <1>1, <1>3, GotoEffect
<1>6. /\ rows' \in [RowId -> 0..Head]
      /\ rows'[new] = Legacy
      /\ \A i \in RowId : i # new => rows'[i] \in {0, rows[i]}
  BY <1>1, <1>2, <1>3, HeadAssumption DEF TypeOK, Legacy
<1>7. TypeOK'
  BY <1>1, <1>3, <1>5, <1>6 DEF TypeOK
<1>8. Recoverable'
  <2>1. new \in Live'
    BY <1>3, <1>6 DEF Live, Legacy
  <2>2. ASSUME NEW i \in Live' PROVE rows'[i] <= schema'
    <3>1. CASE i = new
      BY <1>3, <1>4, <1>6, <3>1
    <3>2. CASE i # new
      <4>1. i \in RowId /\ rows'[i] # 0
        BY DEF Live
      <4>2. rows'[i] = rows[i] /\ i \in Live
        BY <1>6, <3>2, <4>1 DEF Live
      <4> QED
        BY <1>1, <1>3, <4>2 DEF Recoverable
    <3> QED
      BY <3>1, <3>2
  <2> QED
    BY <2>1, <2>2 DEF Recoverable
<1>9. Started'
  BY <1>1, <1>3, <1>5 DEF Started
<1>10. new \notin Live
  BY DEF Fresh, Live
<1>11. Crossing(p)'
  BY <1>5 DEF Crossing
<1>12. \A q \in Process \ {p} : Crossing(q)'
  <2>1. \A i \in RowId : i # new => rows'[i] = rows[i] \/ (i \in call[p].mine /\ rows'[i] = 0)
    BY <1>2, <1>3
  <2>2. \A i \in RowId : \/ rows'[i] = rows[i]
                         \/ i \notin Live \ call[p].mine /\ rows'[i] \in {0, Legacy, Head}
    BY <1>6, <1>10, <2>1
  <2> QED
    BY <1>5, <2>2, OthersGoOn
<1>13. CrossedStamps'
  <2>1. \A i \in Live' : i # new => i \in Others(p) /\ rows'[i] = rows[i]
    BY <1>2, <1>3 DEF Live, Others
  <2>2. \A i \in Others(p) : rows[i] = Head
    BY DEF StampInsert, At, Inv, Apart, Crossing, Others, Ends
  <2>3. ASSUME NEW i \in Others(p), NEW j \in Others(p), i # j PROVE FALSE
    <3>1. {rows[i], rows[j]} = {Legacy, Head}
      BY <2>3 DEF Inv, Apart, CrossedStamps, Others
    <3>2. Legacy \in {rows[i], rows[j]}
      BY <3>1
    <3> QED
      BY <2>2, <2>3, <3>2, HeadAssumption DEF Legacy
  <2> QED
    BY <1>6, <2>1, <2>2, <2>3 DEF CrossedStamps
<1> QED
  BY <1>1, <1>7, <1>8, <1>9, <1>11, <1>12, <1>13 DEF Inv, Apart

\* The steps that end a call without success.
LEMMA AbandonedStep ==
    ASSUME Inv, NEW p \in Process, Goto(p, "idle"), UNCHANGED <<schema, table, rows>>,
           done' \in [Process -> BOOLEAN]
    PROVE  Inv'
<1>1. TypeOK
  BY DEF Inv
<1>2. /\ call' \in [Process -> Call]
      /\ call'[p].pc = "idle" /\ call'[p].mine = {}
      /\ \A q \in Process \ {p} : call'[q] = call[q]
      /\ \A q, r \in Process : q # r => call'[q].mine \cap call'[r].mine = {}
  BY <1>1, GotoEffect
<1>3. Crossing(p)'
  BY <1>2 DEF Crossing
<1> QED
  BY <1>2, <1>3, QuietStep

LEMMA UpgradeBeginStep ==
    ASSUME Inv, NEW p \in Process, UpgradeBegin(p)
    PROVE  Inv'
<1>1. TypeOK
  BY DEF Inv
<1>2. UNCHANGED <<schema, table, rows>> /\ done' \in [Process -> BOOLEAN]
  BY <1>1 DEF UpgradeBegin, TypeOK
<1>3. CASE Goto(p, "create")
  <2>1. /\ call' \in [Process -> Call]
        /\ call'[p].pc = "create" /\ call'[p].mine = {}
        /\ \A q \in Process \ {p} : call'[q] = call[q]
        /\ \A q, r \in Process : q # r => call'[q].mine \cap call'[r].mine = {}
    BY <1>1, <1>3, GotoEffect
  <2>2. Crossing(p)'
    BY <2>1 DEF Crossing
  <2> QED
    BY <1>2, <2>1, <2>2, QuietStep
<1>4. CASE Goto(p, "idle")
  BY <1>2, <1>4, AbandonedStep
<1>5. ASSUME NEW r \in 1..(Head - 1), SetCall(p, [Idle EXCEPT !.pc = "update", !.revision = r])
      PROVE  Inv'
  <2> DEFINE c == [Idle EXCEPT !.pc = "update", !.revision = r]
  <2>1. r \in 0..Head
    BY <1>5, HeadAssumption
  <2>2. c \in Call /\ c.pc = "update" /\ c.mine = {} /\ c.revision = r
    BY <2>1, IdleIsCall DEF Call, Idle
  <2>3. /\ call' \in [Process -> Call]
        /\ call'[p] = c
        /\ \A q \in Process \ {p} : call'[q] = call[q]
        /\ \A q, s \in Process : q # s => call'[q].mine \cap call'[s].mine = {}
    BY <1>1, <1>5, <2>2, CallEffect
  <2>4. Crossing(p)'
    BY <1>5, <2>2, <2>3 DEF Crossing
  <2> QED
    BY <1>2, <2>2, <2>3, <2>4, QuietStep
<1> QED
  BY <1>3, <1>4, <1>5 DEF UpgradeBegin

LEMMA UpgradeCreateStep ==
    ASSUME Inv, NEW p \in Process, UpgradeCreate(p)
    PROVE  Inv'
<1>1. TypeOK /\ Recoverable /\ Started
  BY DEF Inv
<1>2. CASE Runs(0)
  <2>1. PICK new \in Fresh(p) : rows' = [rows EXCEPT ![new] = Head]
    BY <1>2 DEF UpgradeCreate
  <2>2. schema' = Head /\ table' = TRUE /\ Goto(p, "idle")
        /\ done' = [done EXCEPT ![p] = TRUE] /\ new \in RowId
    BY <1>2 DEF UpgradeCreate, Fresh
  <2>3. /\ call' \in [Process -> Call]
        /\ call'[p].pc = "idle" /\ call'[p].mine = {}
        /\ \A q \in Process \ {p} : call'[q] = call[q]
        /\ \A q, r \in Process : q # r => call'[q].mine \cap call'[r].mine = {}
    BY <1>1, <2>2, GotoEffect
  <2>4. rows' \in [RowId -> 0..Head] /\ rows'[new] = Head
    BY <1>1, <2>1, <2>2, HeadAssumption DEF TypeOK
  <2>5. TypeOK'
    BY <1>1, <2>2, <2>3, <2>4, HeadAssumption DEF TypeOK
  <2>6. new \in Live'
    BY <2>2, <2>4, HeadAssumption DEF Live
  <2>7. Recoverable'
    BY <2>2, <2>4, <2>6, HeadAssumption DEF Recoverable, Live
  <2>8. Started'
    BY <1>1, <2>2, <2>3, HeadAssumption DEF Started, Legacy, TypeOK
  <2>9. Live = {}
    <3>1. schema < 1
      BY <1>2, HeadAssumption DEF Runs, Tolerant
    <3> QED
      BY <1>1, <3>1 DEF TypeOK, Recoverable, Live
  <2>10. \A i \in RowId : i # new => rows'[i] = rows[i] /\ i \notin Live'
    BY <1>1, <2>1, <2>9 DEF TypeOK, Live
  <2>11. CrossedStamps'
    BY <2>10 DEF CrossedStamps, Live
  <2>12. Crossing(p)'
    BY <2>3 DEF Crossing
  <2>13. \A q \in Process \ {p} : Crossing(q)'
    BY <2>2, <2>3, <2>4, <2>9, <2>10, OthersGoOn
  <2> QED
    BY <1>1, <2>5, <2>7, <2>8, <2>11, <2>12, <2>13 DEF Inv, Apart
<1>3. CASE ~Runs(0)
  <2>1. Goto(p, "idle") /\ UNCHANGED <<schema, table, rows, done>>
    BY <1>3 DEF UpgradeCreate
  <2>2. done' \in [Process -> BOOLEAN]
    BY <1>1, <2>1 DEF TypeOK
  <2> QED
    BY <2>1, <2>2, AbandonedStep
<1> QED
  BY <1>2, <1>3

LEMMA UpgradeUpdateStep ==
    ASSUME Inv, NEW p \in Process, UpgradeUpdate(p)
    PROVE  Inv'
<1>1. TypeOK
  BY DEF Inv
<1>2. PICK i \in Live : /\ rows[i] = call[p].revision
                        /\ ~Locked(p, i)
                        /\ SetCall(p, [call[p] EXCEPT !.pc = "commit", !.mine = {i}])
  BY DEF UpgradeUpdate
<1> DEFINE c == [call[p] EXCEPT !.pc = "commit", !.mine = {i}]
<1>3. call[p] \in Call /\ i \in RowId
  BY <1>1 DEF TypeOK, Live
<1>4. c \in Call /\ c.pc = "commit" /\ c.mine = {i} /\ c.revision = call[p].revision
  BY <1>3 DEF Call
<1>5. \A q \in Process \ {p} : c.mine \cap call[q].mine = {}
  BY <1>2, <1>4 DEF Locked
<1>6. /\ call' \in [Process -> Call]
      /\ call'[p] = c
      /\ \A q \in Process \ {p} : call'[q] = call[q]
      /\ \A q, r \in Process : q # r => call'[q].mine \cap call'[r].mine = {}
  BY <1>1, <1>2, <1>4, <1>5, CallEffect
<1>7. UNCHANGED <<schema, table, rows>> /\ done' \in [Process -> BOOLEAN]
  BY <1>1 DEF UpgradeUpdate, TypeOK
<1>8. call[p].revision \in 1..(Head - 1)
  BY DEF UpgradeUpdate, At, Inv, Apart, Crossing
<1>9. Crossing(p)'
  BY <1>2, <1>3, <1>4, <1>6, <1>7, <1>8 DEF Crossing, Live
<1> QED
  BY <1>4, <1>6, <1>7, <1>9, QuietStep

LEMMA UpgradeCommitStep ==
    ASSUME Inv, NEW p \in Process, UpgradeCommit(p)
    PROVE  Inv'
<1>1. TypeOK /\ Recoverable /\ Started
  BY DEF Inv
<1>2. /\ rows' = [i \in RowId |-> IF i \in call[p].mine THEN Head ELSE rows[i]]
      /\ schema' = Head
      /\ done' = [done EXCEPT ![p] = TRUE]
      /\ Goto(p, "idle")
      /\ table' = table
  BY DEF UpgradeCommit
<1>3. /\ call' \in [Process -> Call]
      /\ call'[p].pc = "idle" /\ call'[p].mine = {}
      /\ \A q \in Process \ {p} : call'[q] = call[q]
      /\ \A q, r \in Process : q # r => call'[q].mine \cap call'[r].mine = {}
  BY <1>1, <1>2, GotoEffect
<1>4. rows' \in [RowId -> 0..Head]
  BY <1>1, <1>2, HeadAssumption DEF TypeOK
<1>5. TypeOK'
  <2>1. schema' \in 0..Head
    BY <1>2, HeadAssumption
  <2>2. table' \in BOOLEAN
    BY <1>1, <1>2 DEF TypeOK
  <2>3. done' \in [Process -> BOOLEAN]
    BY <1>1, <1>2 DEF TypeOK
  <2> QED
    BY <1>3, <1>4, <2>1, <2>2, <2>3 DEF TypeOK
<1>6. PICK i \in RowId : call[p].mine = {i} /\ rows[i] = call[p].revision
  BY DEF UpgradeCommit, At, Inv, Apart, Crossing
<1>7. i \in Live'
  BY <1>2, <1>6, HeadAssumption DEF Live
<1>8. Recoverable'
  BY <1>2, <1>4, <1>7, HeadAssumption DEF Recoverable, Live
<1>9. Started'
  BY <1>1, <1>2, <1>3, HeadAssumption DEF Started, Legacy
<1>10. \A j \in RowId : j # i => rows'[j] = rows[j]
  BY <1>2, <1>6
<1>11. Crossing(p)'
  BY <1>3 DEF Crossing
<1>12. \A q \in Process \ {p} : Crossing(q)'
  BY <1>2, <1>3, <1>6, <1>10, OthersGoOn
<1>13. CrossedStamps'
  \* An upgrade that was not stopped by another row had the only one.
  <2>1. call[p].revision \in 1..(Head - 1) /\ i \in Live
    BY <1>6 DEF UpgradeCommit, At, Inv, Apart, Crossing
  <2>2. \A j \in Others(p) : ~(rows[j] > call[p].revision)
    BY DEF UpgradeCommit, InTheWay
  <2>3. ASSUME NEW j \in Live, j # i PROVE FALSE
    <3>1. {rows[i], rows[j]} = {Legacy, Head}
      BY <2>1, <2>3 DEF Inv, Apart, CrossedStamps
    <3>2. rows[i] = Legacy /\ rows[j] = Head
      BY <1>6, <2>1, <3>1, HeadAssumption DEF Legacy
    <3>3. j \in Others(p)
      BY <1>6, <2>3 DEF Others
    <3> QED
      BY <1>6, <2>2, <3>2, <3>3, HeadAssumption DEF Legacy
  <2>4. \A j \in Live' : j = i
    BY <1>10, <2>3 DEF Live
  <2> QED
    BY <2>4 DEF CrossedStamps
<1> QED
  BY <1>1, <1>5, <1>8, <1>9, <1>11, <1>12, <1>13 DEF Inv, Apart

\* No step of any process breaks the invariant.
LEMMA NextInv == Inv /\ [Next]_vars => Inv'
<1> SUFFICES ASSUME Inv, [Next]_vars PROVE Inv'
  OBVIOUS
<1>1. CASE UNCHANGED vars
  BY <1>1 DEF vars, Inv, TypeOK, Recoverable, Live, Started, Apart, CrossedStamps, Crossing, Ends
<1>2. ASSUME NEW p \in Process, RunMigrations(p)
      PROVE  Inv'
  <2>1. ASSUME StampClash(p) \/ UpgradeMissed(p) \/ UpgradeClash(p)
        PROVE  Inv'
    BY <2>1, AbandonedStep DEF StampClash, UpgradeMissed, UpgradeClash, Inv, TypeOK
  <2> QED
    BY <1>2, <2>1, CheckStep, StampBeginStep, StampDeleteStep, StampInsertStep,
       UpgradeBeginStep, UpgradeCreateStep, UpgradeUpdateStep, UpgradeCommitStep
       DEF RunMigrations, Stamp, Upgrade
<1>3. ASSUME NEW p \in Process, Fail(p)
      PROVE  Inv'
  BY <1>3, AbandonedStep DEF Fail, Inv, TypeOK
<1> QED
  BY <1>1, <1>2, <1>3 DEF Next

LEMMA Invariance == Spec => []Inv
BY InitInv, NextInv, PTL DEF Spec

\* Two processes never hold the same row of alembic_version, and every variable
\* keeps its type (TypeOK of Migrations).
THEOREM TypeCorrect == Spec => []TypeOK
BY Invariance, PTL DEF Inv

\* Whatever is interrupted or overlaps in run_migrations, a revision is not claimed
\* before its tables are committed, and tables are not left without a revision,
\* except those of releases before Alembic.
THEOREM AlwaysRecoverable == Spec => []Recoverable
BY Invariance, PTL DEF Inv

\* However stamps and upgrades of any number of processes overlap or are cut short,
\* alembic_version has one row, or 0001 and the newest revision.
THEOREM AtMostCrossed == Spec => []CrossedStamps
BY Invariance, PTL DEF Inv, Apart
=============================================================================
