------------------------- MODULE VoicemailStoreProofs -------------------------
(* Machine-checked proofs about VoicemailStore, for any mailboxes and numbers. *)
EXTENDS VoicemailStore, TLAPS

\* A resource that is gone has no run, no status and no deletion.
GoneInv == \A m \in Mailbox : want[m] = None =>
               /\ ~deleting[m] /\ ~status[m]
               /\ \A s \in Slot : run[m][s].pc = "idle"

\* A run past its beginning has a number, and past its commit a row, unless a
\* deletion went between.
RunInv == \A m \in Mailbox, s \in Slot :
              /\ run[m][s].pc # "idle" => run[m][s].number \in Number
              /\ run[m][s].pc = "patch" /\ ~deleting[m] => mailbox[m] # None

IInv == TypeOK /\ GoneInv /\ RunInv /\ StatusHasRow

LEMMA InitInv ==
    ASSUME Init
    PROVE  IInv
BY BoundAssumption
   DEF Init, IInv, TypeOK, GoneInv, RunInv, StatusHasRow, Live, Run, Idle

\* run[m][s] takes one new value, every other run stays.
SetRun(m, s, h) == run' = [run EXCEPT ![m][s] = h]

LEMMA RunEffect ==
    ASSUME TypeOK, NEW m \in Mailbox, NEW s \in Slot, NEW h \in Run, SetRun(m, s, h)
    PROVE  /\ run' \in [Mailbox -> [Slot -> Run]]
           /\ run'[m][s] = h
           /\ \A q \in Mailbox, t \in Slot : q # m \/ t # s => run'[q][t] = run[q][t]
<1>1. run \in [Mailbox -> [Slot -> Run]]
  BY DEF TypeOK
<1>2. ASSUME NEW q \in Mailbox, NEW t \in Slot, q # m \/ t # s
      PROVE  run'[q][t] = run[q][t]
  BY <1>1, <1>2 DEF SetRun
<1> QED
  BY <1>1, <1>2 DEF SetRun

LEMMA IdleType == Idle \in Run /\ Idle.pc = "idle"
BY DEF Idle, Run

LEMMA SetNumberStep ==
    ASSUME IInv, NEW m \in Mailbox, NEW n \in Number, SetNumber(m, n)
    PROVE  IInv'
<1>1. /\ want' = [want EXCEPT ![m] = n] /\ want \in [Mailbox -> Number \cup {None}]
      /\ UNCHANGED <<deleting, userHere, status, run, mailbox, voicemail, faults>>
      /\ edits' \in 0..MaxEdits
  BY BoundAssumption DEF SetNumber, IInv, TypeOK
<1>2. TypeOK'
  BY <1>1 DEF IInv, TypeOK
<1>3. GoneInv'
  BY <1>1, NoneAssumption DEF IInv, GoneInv
<1>4. RunInv'
  BY <1>1 DEF IInv, RunInv
<1>5. StatusHasRow'
  BY <1>1 DEF IInv, GoneInv, StatusHasRow, Live
<1> QED
  BY <1>2, <1>3, <1>4, <1>5 DEF IInv

LEMMA UserSteps ==
    ASSUME IInv
    PROVE  /\ \A m \in Mailbox : RequestDelete(m) \/ ToggleUser(m) => IInv'
           /\ \A n \in Number : ChangePin(n) => IInv'
<1>1. ASSUME NEW m \in Mailbox, RequestDelete(m)
      PROVE  IInv'
  BY <1>1 DEF RequestDelete, IInv, TypeOK, GoneInv, RunInv, StatusHasRow, Live
<1>2. ASSUME NEW m \in Mailbox, ToggleUser(m)
      PROVE  IInv'
  BY <1>2, BoundAssumption
     DEF ToggleUser, IInv, TypeOK, GoneInv, RunInv, StatusHasRow, Live
<1>3. ASSUME NEW n \in Number, ChangePin(n)
      PROVE  IInv'
  BY <1>3 DEF ChangePin, IInv, TypeOK, GoneInv, RunInv, StatusHasRow, Live, Pin
<1> QED
  BY <1>1, <1>2, <1>3

LEMMA BeginStep ==
    ASSUME IInv, NEW m \in Mailbox, NEW s \in Slot, Begin(m, s)
    PROVE  IInv'
<1> DEFINE h == [pc |-> "commit", number |-> want[m]]
<1>1. TypeOK /\ want[m] \in Number /\ want[m] # None
  BY DEF IInv, TypeOK, Begin, Live
<1>2. /\ h \in Run /\ h.pc = "commit" /\ h.number \in Number
      /\ SetRun(m, s, h)
      /\ UNCHANGED <<want, deleting, userHere, status, mailbox, voicemail, edits, faults>>
  BY <1>1 DEF Run, Begin, SetRun
<1> HIDE DEF h
<1>3. /\ run' \in [Mailbox -> [Slot -> Run]] /\ run'[m][s] = h
      /\ \A q \in Mailbox, t \in Slot : q # m \/ t # s => run'[q][t] = run[q][t]
  BY <1>1, <1>2, RunEffect
<1>4. TypeOK'
  BY <1>1, <1>2, <1>3 DEF TypeOK
<1>5. GoneInv'
  BY <1>1, <1>2, <1>3 DEF IInv, GoneInv
<1>6. RunInv'
  BY <1>1, <1>2, <1>3 DEF IInv, RunInv
<1>7. StatusHasRow'
  BY <1>2 DEF IInv, StatusHasRow, Live
<1> QED
  BY <1>4, <1>5, <1>6, <1>7 DEF IInv

LEMMA CommitStep ==
    ASSUME IInv, NEW m \in Mailbox, NEW s \in Slot, Commit(m, s)
    PROVE  IInv'
<1> DEFINE n == run[m][s].number
           h == [run[m][s] EXCEPT !.pc = "patch"]
<1>1. TypeOK /\ run[m][s] \in Run /\ n \in Number /\ want[m] # None /\ n # None
  BY NoneAssumption DEF IInv, TypeOK, RunInv, GoneInv, Commit
<1>2. h \in Run /\ h.pc = "patch" /\ h.number = n
  BY <1>1 DEF Run
<1>3. /\ SetRun(m, s, h) /\ mailbox' = [mailbox EXCEPT ![m] = n]
      /\ voicemail' = [voicemail EXCEPT ![n] = IF @ = "none" THEN "initial" ELSE @]
      /\ UNCHANGED <<want, deleting, userHere, status, edits, faults>>
  BY <1>1 DEF Commit, UpsertVoicemail, TypeOK, SetRun
<1> HIDE DEF h, n
<1>4. /\ run' \in [Mailbox -> [Slot -> Run]] /\ run'[m][s] = h
      /\ \A q \in Mailbox, t \in Slot : q # m \/ t # s => run'[q][t] = run[q][t]
  BY <1>1, <1>2, <1>3, RunEffect
<1>5. /\ mailbox' \in [Mailbox -> Number \cup {None}] /\ mailbox'[m] = n
      /\ \A q \in Mailbox : q # m => mailbox'[q] = mailbox[q]
  BY <1>1, <1>3 DEF TypeOK
<1>6. voicemail' \in [Number -> Pin \cup {"none"}]
  BY <1>1, <1>3 DEF TypeOK, Pin
<1>7. TypeOK'
  BY <1>1, <1>3, <1>4, <1>5, <1>6 DEF TypeOK
<1>8. GoneInv' /\ StatusHasRow'
  BY <1>1, <1>3, <1>4, <1>5 DEF IInv, GoneInv, StatusHasRow, Live
<1>9. RunInv'
  BY <1>1, <1>2, <1>3, <1>4, <1>5 DEF IInv, RunInv
<1> QED
  BY <1>7, <1>8, <1>9 DEF IInv

LEMMA PatchStep ==
    ASSUME IInv, NEW m \in Mailbox, NEW s \in Slot, Patch(m, s)
    PROVE  IInv'
<1>1. /\ TypeOK /\ want[m] # None /\ run[m][s].pc = "patch"
      /\ ~deleting[m] => mailbox[m] # None
  BY DEF IInv, GoneInv, RunInv, Patch
<1>2. /\ status' = [status EXCEPT ![m] = TRUE] /\ SetRun(m, s, Idle)
      /\ UNCHANGED <<want, deleting, userHere, mailbox, voicemail, edits, faults>>
  BY DEF Patch, SetRun
<1>3. /\ run' \in [Mailbox -> [Slot -> Run]] /\ run'[m][s] = Idle
      /\ \A q \in Mailbox, t \in Slot : q # m \/ t # s => run'[q][t] = run[q][t]
  BY <1>1, <1>2, IdleType, RunEffect
<1>4. TypeOK'
  BY <1>1, <1>2, <1>3 DEF TypeOK
<1>5. GoneInv'
  <2>1. \A q \in Mailbox : q # m => status'[q] = status[q]
    BY <1>1, <1>2 DEF TypeOK
  <2>2. GoneInv
    BY DEF IInv
  <2> QED
    BY <1>1, <1>2, <1>3, <2>1, <2>2 DEF GoneInv
<1>6. RunInv'
  <2>1. RunInv /\ Idle.pc = "idle"
    BY IdleType DEF IInv
  <2> QED
    BY <1>2, <1>3, <2>1 DEF RunInv
<1>7. StatusHasRow'
  BY <1>1, <1>2 DEF IInv, TypeOK, StatusHasRow, Live
<1> QED
  BY <1>4, <1>5, <1>6, <1>7 DEF IInv

LEMMA AbandonStep ==
    ASSUME IInv, NEW m \in Mailbox, NEW s \in Slot, Abandon(m, s)
    PROVE  IInv'
<1>1. TypeOK
  BY DEF IInv
<1>2. /\ SetRun(m, s, Idle) /\ faults' \in 0..MaxFaults
      /\ UNCHANGED <<want, deleting, userHere, status, mailbox, voicemail, edits>>
  BY <1>1, BoundAssumption DEF Abandon, TypeOK, SetRun
<1>3. /\ run' \in [Mailbox -> [Slot -> Run]] /\ run'[m][s] = Idle
      /\ \A q \in Mailbox, t \in Slot : q # m \/ t # s => run'[q][t] = run[q][t]
  BY <1>1, <1>2, IdleType, RunEffect
<1>4. TypeOK'
  BY <1>1, <1>2, <1>3 DEF TypeOK
<1>5. GoneInv'
  BY <1>1, <1>2, <1>3, IdleType DEF IInv, GoneInv
<1>6. RunInv'
  BY <1>1, <1>2, <1>3, IdleType DEF IInv, RunInv
<1>7. StatusHasRow'
  BY <1>2 DEF IInv, StatusHasRow, Live
<1> QED
  BY <1>4, <1>5, <1>6, <1>7 DEF IInv

\* The resource that is deleted is no live one while its row is gone.
LEMMA DeleteStep ==
    ASSUME IInv, NEW m \in Mailbox, Delete(m)
    PROVE  IInv'
<1> DEFINE last == run[m]["timer"].pc = "idle"
<1>1. TypeOK /\ deleting[m] /\ run[m]["change"].pc = "idle"
  BY DEF IInv, Delete
<1>2. /\ voicemail' = [n \in Number |-> IF mailbox[m] = n THEN "none" ELSE voicemail[n]]
      /\ mailbox' = [mailbox EXCEPT ![m] = None]
      /\ UNCHANGED <<userHere, run, edits, faults>>
  BY DEF Delete
<1>3. CASE last
  <2>1. /\ want' = [want EXCEPT ![m] = None] /\ deleting' = [deleting EXCEPT ![m] = FALSE]
        /\ status' = [status EXCEPT ![m] = FALSE]
    BY <1>3 DEF Delete
  <2>2. TypeOK'
    BY <1>1, <1>2, <2>1 DEF TypeOK
  <2>3. \A s \in Slot : run[m][s].pc = "idle"
    BY <1>1, <1>3 DEF Slot
  <2>4. GoneInv' /\ RunInv' /\ StatusHasRow'
    BY <1>1, <1>2, <2>1, <2>3 DEF IInv, TypeOK, GoneInv, RunInv, StatusHasRow, Live
  <2> QED
    BY <2>2, <2>4 DEF IInv
<1>4. CASE ~last
  <2>1. UNCHANGED <<want, deleting, status>>
    BY <1>4 DEF Delete
  <2>2. TypeOK'
    BY <1>1, <1>2, <2>1 DEF TypeOK
  <2>3. GoneInv' /\ RunInv' /\ StatusHasRow'
    BY <1>1, <1>2, <2>1 DEF IInv, TypeOK, GoneInv, RunInv, StatusHasRow, Live
  <2> QED
    BY <2>2, <2>3 DEF IInv
<1> QED
  BY <1>3, <1>4

LEMMA NextInv ==
    ASSUME IInv, [Next]_vars
    PROVE  IInv'
<1>1. CASE UNCHANGED vars
  BY <1>1 DEF vars, IInv, TypeOK, GoneInv, RunInv, StatusHasRow, Live
<1> QED
  BY <1>1, SetNumberStep, UserSteps, BeginStep, CommitStep, PatchStep, AbandonStep, DeleteStep
     DEF Next, TaskStep

LEMMA Invariance == Spec => []IInv
<1> QED
  BY InitInv, NextInv, PTL DEF Spec

\* Every variable keeps its type, for any mailboxes, numbers and bounds.
THEOREM TypeCorrect == Spec => []TypeOK
<1>1. IInv => TypeOK
  BY DEF IInv
<1> QED
  BY <1>1, Invariance, PTL

\* The row a deletion has to find is there whenever the status of a live mailbox says
\* so, however the two tasks overlap, fail, and follow a mailbox made anew.
THEOREM StatusAlwaysHasRow == Spec => []StatusHasRow
<1>1. IInv => StatusHasRow
  BY DEF IInv
<1> QED
  BY <1>1, Invariance, PTL

\* No reconciliation sets a PIN back: it is changed by its owner, or goes with the
\* deletion of a mailbox of its number.
THEOREM PinKept == Spec => PinNotReconciled
<1> DEFINE Kept ==
        \A n \in Number : voicemail[n] \in Pin =>
          \/ voicemail'[n] \in {voicemail[n], "chosen"}
          \/ voicemail'[n] = "none" /\ \E m \in Mailbox : deleting[m] /\ mailbox[m] = n
<1>1. ASSUME IInv, [Next]_vars
      PROVE  [Kept]_vars
  <2>1. CASE UNCHANGED voicemail
    BY <2>1
  <2>2. ASSUME NEW k \in Number, ChangePin(k)
        PROVE  Kept
    BY <1>1, <2>2 DEF ChangePin, IInv, TypeOK
  <2>3. ASSUME NEW m \in Mailbox, NEW s \in Slot, Commit(m, s)
        PROVE  Kept
    BY <1>1, <2>3 DEF Commit, UpsertVoicemail, IInv, TypeOK, Pin
  <2>4. ASSUME NEW m \in Mailbox, Delete(m)
        PROVE  Kept
    BY <1>1, <2>4 DEF Delete
  <2> HIDE DEF Kept
  <2>5. CASE UNCHANGED vars
    BY <2>5
  <2>6. CASE Next
    BY <2>1, <2>2, <2>3, <2>4, <2>6
       DEF Next, TaskStep, SetNumber, RequestDelete, ToggleUser, Begin, Patch, Abandon
  <2> QED
    BY <1>1, <2>5, <2>6
<1> QED
  BY <1>1, Invariance, PTL DEF Spec, PinNotReconciled

-----------------------------------------------------------------------------
(***************************************************************************)
(* What is settled stays settled.                                          *)
(***************************************************************************)
\* A commit creates the realtime row of its number and takes no row away.
LEMMA CommitRows ==
    ASSUME IInv, NEW m \in Mailbox, NEW s \in Slot, Commit(m, s)
    PROVE  /\ \A k \in Number : voicemail[k] # "none" => voicemail'[k] # "none"
           /\ mailbox'[m] = run[m][s].number
           /\ \A q \in Mailbox \ {m} : mailbox'[q] = mailbox[q]
           /\ UNCHANGED <<want, deleting>>
           /\ \E h \in Run : h.pc = "patch" /\ SetRun(m, s, h)
<1> DEFINE n == run[m][s].number
           h == [run[m][s] EXCEPT !.pc = "patch"]
<1>1. TypeOK /\ run[m][s] \in Run /\ n \in Number
  BY DEF IInv, TypeOK, RunInv, Commit
<1>2. h \in Run /\ h.pc = "patch" /\ SetRun(m, s, h)
  BY <1>1 DEF Run, Commit, TypeOK, SetRun
<1>3. \A k \in Number : voicemail[k] # "none" => voicemail'[k] # "none"
  BY <1>1 DEF Commit, UpsertVoicemail, TypeOK
<1> QED
  BY <1>1, <1>2, <1>3 DEF Commit, TypeOK

LEMMA SettledStep ==
    ASSUME IInv, [Next]_vars, NEW m \in Mailbox, Settled(m), ~UserStep(m),
           \A q \in Mailbox \ {m} : mailbox[q] = mailbox[m] => ~Delete(q)
    PROVE  Settled(m)'
<1>1. /\ TypeOK /\ want[m] \in Number /\ Live(m)
      /\ mailbox[m] = want[m] /\ voicemail[want[m]] # "none"
      /\ \A s \in Slot : run[m][s].pc = "commit" => run[m][s].number = want[m]
  BY DEF IInv, TypeOK, Settled, Live
<1>2. ASSUME want'[m] = want[m], deleting'[m] = deleting[m], mailbox'[m] = want[m],
             voicemail'[want[m]] # "none",
             \A s \in Slot : run'[m][s].pc = "commit" => run'[m][s].number = want[m]
      PROVE  Settled(m)'
  BY <1>1, <1>2 DEF Settled, Live
<1>3. ASSUME NEW q \in Mailbox, NEW s \in Slot, NEW h \in Run, SetRun(q, s, h),
             q = m /\ h.pc = "commit" => h.number = want[m]
      PROVE  \A t \in Slot : run'[m][t].pc = "commit" => run'[m][t].number = want[m]
  BY <1>1, <1>3, RunEffect
<1>4. ASSUME NEW q \in Mailbox \ {m},
             RequestDelete(q) \/ \E n \in Number : SetNumber(q, n)
      PROVE  Settled(m)'
  <2>1. /\ want'[m] = want[m] /\ deleting'[m] = deleting[m]
        /\ UNCHANGED <<run, mailbox, voicemail>>
    BY <1>1, <1>4 DEF RequestDelete, SetNumber, TypeOK
  <2> QED
    BY <1>1, <1>2, <2>1
<1>5. ASSUME NEW q \in Mailbox, ToggleUser(q)
      PROVE  Settled(m)'
  BY <1>1, <1>2, <1>5 DEF ToggleUser
<1>6. ASSUME NEW n \in Number, ChangePin(n)
      PROVE  Settled(m)'
  <2>1. voicemail'[want[m]] # "none" /\ UNCHANGED <<want, deleting, run, mailbox>>
    BY <1>1, <1>6 DEF ChangePin, TypeOK
  <2> QED
    BY <1>1, <1>2, <2>1
<1>7. ASSUME NEW q \in Mailbox, NEW s \in Slot, Begin(q, s)
      PROVE  Settled(m)'
  <2> DEFINE h == [pc |-> "commit", number |-> want[q]]
  <2>1. h \in Run /\ h.number = want[q]
    BY <1>1 DEF Run, TypeOK
  <2>2. SetRun(q, s, h) /\ UNCHANGED <<want, deleting, mailbox, voicemail>>
    BY <1>7 DEF Begin, SetRun
  <2> HIDE DEF h
  <2>3. \A t \in Slot : run'[m][t].pc = "commit" => run'[m][t].number = want[m]
    BY <1>3, <2>1, <2>2
  <2> QED
    BY <1>1, <1>2, <2>2, <2>3
<1>8. ASSUME NEW q \in Mailbox, NEW s \in Slot, Commit(q, s)
      PROVE  Settled(m)'
  <2>1. PICK h \in Run : h.pc = "patch" /\ SetRun(q, s, h)
    BY <1>8, CommitRows
  <2>2. \A t \in Slot : run'[m][t].pc = "commit" => run'[m][t].number = want[m]
    BY <1>3, <2>1
  <2>3. UNCHANGED <<want, deleting>> /\ voicemail'[want[m]] # "none"
    BY <1>1, <1>8, CommitRows
  <2>4. mailbox'[m] = want[m]
    <3>1. CASE q = m
      BY <1>1, <1>8, <3>1, CommitRows DEF Commit
    <3>2. CASE q # m
      BY <1>1, <1>8, <3>2, CommitRows
    <3> QED
      BY <3>1, <3>2
  <2> QED
    BY <1>2, <2>2, <2>3, <2>4
<1>9. ASSUME NEW q \in Mailbox, NEW s \in Slot, Patch(q, s) \/ Abandon(q, s)
      PROVE  Settled(m)'
  <2>1. SetRun(q, s, Idle) /\ UNCHANGED <<want, deleting, mailbox, voicemail>>
    BY <1>9 DEF Patch, Abandon, SetRun
  <2>2. \A t \in Slot : run'[m][t].pc = "commit" => run'[m][t].number = want[m]
    BY <1>3, <2>1, IdleType
  <2> QED
    BY <1>1, <1>2, <2>1, <2>2
<1>10. ASSUME NEW q \in Mailbox, Delete(q)
       PROVE  Settled(m)'
  <2>1. q # m
    BY <1>1, <1>10 DEF Delete, Live
  <2>2. mailbox[q] # want[m]
    BY <1>1, <1>10, <2>1
  <2>3. voicemail'[want[m]] # "none" /\ mailbox'[m] = want[m] /\ UNCHANGED run
    BY <1>1, <1>10, <2>1, <2>2 DEF Delete, TypeOK
  <2>4. want'[m] = want[m] /\ deleting'[m] = deleting[m]
    BY <1>1, <1>10, <2>1 DEF Delete, TypeOK
  <2> QED
    BY <1>1, <1>2, <2>3, <2>4
<1>11. CASE UNCHANGED vars
  BY <1>1, <1>2, <1>11 DEF vars
<1> QED
  BY <1>4, <1>5, <1>6, <1>7, <1>8, <1>9, <1>10, <1>11 DEF Next, TaskStep, UserStep

\* A mailbox that has both rows of its number keeps them, for any mailboxes and
\* numbers: the deletion of another one takes them only if both are stored under
\* the same number, which the realtime row has no owner to tell apart.
THEOREM MailboxesStayPut == Spec => MailboxesStay
<1>1. IInv /\ [Next]_vars => \A m \in Mailbox : Settled(m) =>
          \/ Settled(m)' \/ UserStep(m)
          \/ \E q \in Mailbox \ {m} : mailbox[q] = mailbox[m] /\ Delete(q)
  BY SettledStep
<1> QED
  BY <1>1, Invariance, PTL DEF Spec, MailboxesStay

-----------------------------------------------------------------------------
(***************************************************************************)
(* The rows of kubevoip_voicemail_mailbox implement RowStore.              *)
(***************************************************************************)
Abstract == INSTANCE RowStoreProofs
            WITH Resource <- Mailbox, Content <- Number, wanted <- want,
                 doomed <- deleting, taken <- Pending, stored <- RowsOf

LEMMA AbstractIsRows ==
    /\ Abstract!StoreInit <=> Rows!StoreInit
    /\ [Abstract!StoreNext]_(Abstract!store) <=> [Rows!StoreNext]_(Rows!store)
BY DEF Abstract!StoreInit, Rows!StoreInit, Abstract!StoreNext, Rows!StoreNext,
   Abstract!store, Rows!store, Abstract!Change, Rows!Change, Abstract!Doom, Rows!Doom,
   Abstract!Take, Rows!Take, Abstract!Lose, Rows!Lose, Abstract!Store, Rows!Store,
   Abstract!Erase, Rows!Erase, Abstract!Release, Rows!Release

LEMMA AbstractSpecIsRows == Abstract!StoreSpec <=> Rows!StoreSpec
BY AbstractIsRows, PTL DEF Abstract!StoreSpec, Rows!StoreSpec

\* The number a run is about to commit.
Due(h) == IF h.pc = "commit" THEN h.number ELSE None

LEMMA PendingIs ==
    ASSUME RunInv, NEW m \in Mailbox
    PROVE  Pending[m] = {Due(run[m]["change"]), Due(run[m]["timer"])} \ {None}
<1>1. \A s \in Slot : run[m][s].pc = "commit" => run[m][s].number # None
  BY NoneAssumption DEF RunInv
<1>2. \A n : n \in Pending[m] <=> \E s \in Slot : run[m][s].pc = "commit" /\ n = run[m][s].number
  BY DEF Pending
<1>3. \A n : n \in Pending[m] <=> n # None /\ \E s \in Slot : n = Due(run[m][s])
  BY <1>1, <1>2 DEF Due
<1> QED
  BY <1>3 DEF Slot

LEMMA RowsOfIs ==
    ASSUME NEW m \in Mailbox
    PROVE  RowsOf[m] = {mailbox[m]} \ {None} /\ RowsOf'[m] = {mailbox'[m]} \ {None}
BY DEF RowsOf

LEMMA AbstractTyped == ASSUME TypeOK, RunInv PROVE Abstract!StoreType
BY DEF TypeOK, RunInv, Abstract!StoreType, Pending, RowsOf

\* A mailbox that a step leaves alone looks the same in the abstract store.
LEMMA SameMailbox ==
    ASSUME NEW m \in Mailbox,
           want'[m] = want[m], deleting'[m] = deleting[m], mailbox'[m] = mailbox[m],
           \A s \in Slot : run'[m][s] = run[m][s]
    PROVE  Abstract!Same(m)
<1>1. Pending'[m] = Pending[m]
  BY DEF Pending
<1>2. RowsOf'[m] = RowsOf[m]
  BY RowsOfIs
<1> QED
  BY <1>1, <1>2 DEF Abstract!Same

\* One run of m goes on to h, and nothing else of any run changes.
LEMMA OneRun ==
    ASSUME TypeOK, RunInv, RunInv', NEW m \in Mailbox, NEW s \in Slot, NEW h \in Run,
           SetRun(m, s, h),
           \A q \in Mailbox \ {m} : /\ want'[q] = want[q] /\ deleting'[q] = deleting[q]
                                     /\ mailbox'[q] = mailbox[q]
    PROVE  /\ \A q \in Mailbox \ {m} : Abstract!Same(q)
           /\ Due(h) = None => Pending'[m] \in {Pending[m], Pending[m] \ {Due(run[m][s])}}
           /\ Due(run[m][s]) = None /\ Due(h) # None => Pending'[m] = Pending[m] \cup {Due(h)}
<1>1. /\ run'[m][s] = h
      /\ \A q \in Mailbox, t \in Slot : q # m \/ t # s => run'[q][t] = run[q][t]
  BY RunEffect
<1>2. \A q \in Mailbox \ {m} : Abstract!Same(q)
  BY <1>1, SameMailbox
<1>3. ASSUME NEW t \in Slot, t # s, Slot = {s, t}
      PROVE  /\ Pending[m] = {Due(run[m][s]), Due(run[m][t])} \ {None}
             /\ Pending'[m] = {Due(h), Due(run[m][t])} \ {None}
  <2>1. Pending[m] = {Due(run[m][s]), Due(run[m][t])} \ {None}
    BY <1>3, PendingIs DEF Slot
  <2>2. \A n : n \in Pending'[m] <=>
                \E u \in Slot : run'[m][u].pc = "commit" /\ n = run'[m][u].number
    BY DEF Pending
  <2>3. \A u \in Slot : run'[m][u].pc = "commit" => run'[m][u].number # None
    BY NoneAssumption DEF RunInv
  <2>4. \A n : n \in Pending'[m] <=> n # None /\ \E u \in Slot : n = Due(run'[m][u])
    BY <2>2, <2>3 DEF Due
  <2>5. run'[m][s] = h /\ run'[m][t] = run[m][t]
    BY <1>1, <1>3
  <2> QED
    BY <1>3, <2>1, <2>4, <2>5
<1>4. PICK t \in Slot : t # s /\ Slot = {s, t}
  BY DEF Slot
<1>5. /\ Pending[m] = {Due(run[m][s]), Due(run[m][t])} \ {None}
      /\ Pending'[m] = {Due(h), Due(run[m][t])} \ {None}
  BY <1>3, <1>4
<1> QED
  BY <1>2, <1>5, Abstract!PairMoves

LEMMA RowsInit == Init => Rows!StoreInit
BY DEF Init, Rows!StoreInit, Pending, RowsOf, Idle

LEMMA RowsStep == ASSUME IInv, [Next]_vars PROVE [Rows!StoreNext]_(Rows!store)
<1>1. /\ TypeOK /\ GoneInv /\ RunInv /\ RunInv'
      /\ Abstract!StoreType /\ Abstract!StoreType'
  <2>1. TypeOK /\ GoneInv /\ RunInv /\ TypeOK' /\ RunInv'
    BY NextInv DEF IInv
  <2>2. Abstract!StoreType'
    BY <2>1 DEF TypeOK, RunInv, Abstract!StoreType, Pending, RowsOf
  <2> QED
    BY <2>1, <2>2, AbstractTyped
<1> DEFINE Like(m) == \/ Abstract!Same(m) \/ Abstract!Changed(m) \/ Abstract!DoomedNow(m)
                      \/ Abstract!TakenNow(m) \/ Abstract!Lost(m) \/ Abstract!StoredNow(m)
                      \/ Abstract!Erased(m) \/ Abstract!Released(m)
           Alone(m) == \A q \in Mailbox \ {m} : Abstract!Same(q)
<1>2. ASSUME NEW m \in Mailbox, Alone(m), Like(m)
      PROVE  [Rows!StoreNext]_(Rows!store)
  BY <1>1, <1>2, Abstract!StepOfOne, AbstractIsRows
<1> HIDE DEF Like, Alone
<1>3. ASSUME NEW m \in Mailbox, UNCHANGED run PROVE Pending'[m] = Pending[m]
  BY <1>3 DEF Pending
<1>4. ASSUME NEW m \in Mailbox, UNCHANGED mailbox PROVE RowsOf'[m] = RowsOf[m]
  BY <1>4 DEF RowsOf
<1>5. ASSUME NEW m \in Mailbox, NEW n \in Number, SetNumber(m, n)
      PROVE  Alone(m) /\ Like(m)
  <2>1. Alone(m)
    BY <1>1, <1>5, SameMailbox DEF SetNumber, TypeOK, Alone
  <2>2. Abstract!Changed(m)
    BY <1>1, <1>3, <1>4, <1>5 DEF SetNumber, TypeOK, Abstract!Changed
  <2> QED
    BY <2>1, <2>2 DEF Like
<1>6. ASSUME NEW m \in Mailbox, RequestDelete(m)
      PROVE  Alone(m) /\ Like(m)
  <2>1. Alone(m)
    BY <1>1, <1>6, SameMailbox DEF RequestDelete, TypeOK, Alone
  <2>2. Abstract!DoomedNow(m)
    BY <1>1, <1>3, <1>4, <1>6 DEF RequestDelete, Live, TypeOK, Abstract!DoomedNow
  <2> QED
    BY <2>1, <2>2 DEF Like
<1>7. ASSUME NEW m \in Mailbox, NEW s \in Slot, Begin(m, s)
      PROVE  Alone(m) /\ Like(m)
  <2> DEFINE h == [pc |-> "commit", number |-> want[m]]
  <2>1. /\ SetRun(m, s, h) /\ UNCHANGED <<want, deleting, mailbox>>
        /\ want[m] \in Number /\ want[m] # None /\ run[m][s].pc = "idle"
    BY <1>1, <1>7 DEF Begin, Live, SetRun, TypeOK
  <2>2. h \in Run /\ Due(h) = want[m] /\ Due(run[m][s]) = None
    BY <2>1 DEF Run, Due
  <2>3. Alone(m) /\ Pending'[m] = Pending[m] \cup {want[m]}
    BY <1>1, <2>1, <2>2, OneRun DEF Alone
  <2>4. Abstract!TakenNow(m)
    BY <1>4, <2>1, <2>3 DEF Abstract!TakenNow
  <2> QED
    BY <2>3, <2>4 DEF Like
<1>8. ASSUME NEW m \in Mailbox, NEW s \in Slot, Patch(m, s) \/ Abandon(m, s)
      PROVE  Alone(m) /\ Like(m)
  <2>1. /\ SetRun(m, s, Idle) /\ UNCHANGED <<want, deleting, mailbox>>
        /\ Idle \in Run /\ Due(Idle) = None
    BY <1>8, IdleType DEF Patch, Abandon, SetRun, Due
  <2>2. Alone(m) /\ Pending'[m] \in {Pending[m], Pending[m] \ {Due(run[m][s])}}
    BY <1>1, <2>1, OneRun DEF Alone
  <2>3. Abstract!Lost(m)
    BY <1>4, <2>1, <2>2 DEF Abstract!Lost
  <2> QED
    BY <2>2, <2>3 DEF Like
<1>9. ASSUME NEW m \in Mailbox, NEW s \in Slot, Commit(m, s)
      PROVE  Alone(m) /\ Like(m)
  <2> DEFINE h == [run[m][s] EXCEPT !.pc = "patch"]
             n == run[m][s].number
  <2>1. /\ run[m][s].pc = "commit" /\ SetRun(m, s, h) /\ mailbox' = [mailbox EXCEPT ![m] = n]
        /\ UNCHANGED <<want, deleting>>
    BY <1>1, <1>9 DEF Commit, SetRun, TypeOK
  <2>2. run[m][s] \in Run /\ n \in Number /\ n # None
    BY <1>1, <2>1, NoneAssumption DEF TypeOK, RunInv
  <2>3. h \in Run /\ Due(h) = None /\ Due(run[m][s]) = n
    BY <2>1, <2>2 DEF Run, Due
  <2>4. mailbox'[m] = n /\ \A q \in Mailbox \ {m} : mailbox'[q] = mailbox[q]
    BY <1>1, <2>1 DEF TypeOK
  <2> HIDE DEF h
  <2>5. Alone(m) /\ Pending'[m] \in {Pending[m], Pending[m] \ {n}}
    BY <1>1, <2>1, <2>3, <2>4, OneRun DEF Alone
  <2>6. n \in Pending[m]
    BY <2>1 DEF Pending
  <2>7. RowsOf'[m] = {n}
    BY <2>2, <2>4, RowsOfIs
  <2>8. Abstract!StoredNow(m)
    BY <2>1, <2>5, <2>6, <2>7 DEF Abstract!StoredNow
  <2> QED
    BY <2>5, <2>8 DEF Like
<1>10. ASSUME NEW m \in Mailbox, Delete(m)
       PROVE  Alone(m) /\ Like(m)
  <2>1. Alone(m)
    BY <1>1, <1>10, SameMailbox DEF Delete, TypeOK, Alone
  <2>2. deleting[m] /\ run[m]["change"].pc = "idle" /\ UNCHANGED run /\ mailbox'[m] = None
    BY <1>1, <1>10 DEF Delete, TypeOK
  <2>3. RowsOf'[m] = {} /\ Pending'[m] = Pending[m]
    BY <1>3, <2>2, RowsOfIs
  <2>4. CASE run[m]["timer"].pc = "idle"
    <3>1. want'[m] = None /\ deleting'[m] = FALSE
      BY <1>1, <1>10, <2>4 DEF Delete, TypeOK
    <3>2. Pending[m] = {}
      BY <2>2, <2>4 DEF Pending, Slot
    <3>3. Abstract!Released(m)
      BY <2>2, <2>3, <3>1, <3>2 DEF Abstract!Released
    <3> QED
      BY <2>1, <3>3 DEF Like
  <2>5. CASE run[m]["timer"].pc # "idle"
    <3>1. Abstract!Erased(m)
      BY <1>10, <2>2, <2>3, <2>5 DEF Delete, Abstract!Erased
    <3> QED
      BY <2>1, <3>1 DEF Like
  <2> QED
    BY <2>4, <2>5
<1>11. CASE UNCHANGED <<want, deleting, run, mailbox>>
  <2>1. UNCHANGED Rows!store
    BY <1>11 DEF Rows!store, Pending, RowsOf
  <2> QED
    BY <2>1
<1>12. ASSUME \/ UNCHANGED vars
              \/ \E m \in Mailbox : ToggleUser(m)
              \/ \E n \in Number : ChangePin(n)
       PROVE  UNCHANGED <<want, deleting, run, mailbox>>
  BY <1>12 DEF vars, ToggleUser, ChangePin
<1> QED
  BY <1>2, <1>5, <1>6, <1>7, <1>8, <1>9, <1>10, <1>11, <1>12 DEF Next, TaskStep

\* The rows of VoicemailMailbox resources are a RowStore: a mailbox has at most one
\* row, it holds a number that was read for it, and it goes with the resource.
THEOREM MailboxesAreRowStore == Spec => IsRowStore
<1>1. IInv /\ [Next]_vars => [Rows!StoreNext]_(Rows!store)
  BY RowsStep
<1> QED
  BY RowsInit, Invariance, <1>1, PTL DEF Spec, IsRowStore, Rows!StoreSpec

\* What RowStore promises holds of mailboxes: one that does not exist has no row, and
\* no run that could still write one.
THEOREM GoneMailboxesHaveNoRow == Spec => []Abstract!GoneIsGone
<1>1. Abstract!StoreSpec => []Abstract!GoneIsGone
  BY NoneAssumption, Abstract!GoneStaysGone
<1> QED
  BY <1>1, MailboxesAreRowStore, AbstractSpecIsRows DEF IsRowStore
=============================================================================
