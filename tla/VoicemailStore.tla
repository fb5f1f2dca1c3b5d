---------------------------- MODULE VoicemailStore ----------------------------
(***************************************************************************)
(* VoicemailMailbox resources and the two tables they are stored in:       *)
(* kubevoip_voicemail_mailbox, one row per resource, and the realtime      *)
(* table Asterisk reads, one row per mailbox number in the context         *)
(* "default", which also holds the PIN.  The realtime row has no owner:    *)
(* two mailboxes of one number share it.                                   *)
(*                                                                         *)
(* A mailbox without a number of its own takes the extension of its        *)
(* SIPUser, which is also the way to the database, so reconciliation and   *)
(* deletion both begin with reading that user.  One database; the tasks of *)
(* a resource are those of RuntimeRow.                                     *)
(***************************************************************************)
EXTENDS Naturals

CONSTANTS
    Mailbox,  \* names of VoicemailMailbox resources
    Number,   \* mailbox numbers
    None,     \* no row, no number, no run
    MaxEdits, \* bound on edits of mailboxes and on users coming and going
    MaxFaults \* bound on failed runs and operator crashes

ASSUME NoneAssumption == None \notin Number
ASSUME BoundAssumption == MaxEdits \in Nat /\ MaxFaults \in Nat

VARIABLES
    want,       \* want[m]: the number resource m resolves to, None if m is absent
    deleting,   \* deleting[m]: its deletion was requested
    userHere,   \* userHere[m]: the SIPUser m refers to exists
    status,     \* status[m]: its status names the database
    run,        \* run[m][s]: what task s of m is doing
    mailbox,    \* mailbox[m]: the number in the row of m, None without a row
    voicemail,  \* voicemail[n]: the PIN in the realtime row of n, or "none"
    edits,
    faults

vars == <<want, deleting, userHere, status, run, mailbox, voicemail, edits, faults>>

Slot == {"change", "timer"}
Pin == {"initial", "chosen"}  \* the number itself, or what the owner dialled in
Idle == [pc |-> "idle", number |-> None]
Run == [pc : {"idle", "commit", "patch"}, number : Number \cup {None}]

Init ==
    /\ want = [m \in Mailbox |-> None]
    /\ deleting = [m \in Mailbox |-> FALSE]
    /\ userHere = [m \in Mailbox |-> TRUE]
    /\ status = [m \in Mailbox |-> FALSE]
    /\ run = [m \in Mailbox |-> [s \in Slot |-> Idle]]
    /\ mailbox = [m \in Mailbox |-> None]
    /\ voicemail = [n \in Number |-> "none"]
    /\ edits = 0
    /\ faults = 0

Live(m) == want[m] # None /\ ~deleting[m]

(***************************************************************************)
(* The users of the API server, and the owner of a mailbox at the phone.   *)
(***************************************************************************)
\* The mailbox is created or edited, or its user gets another extension.
SetNumber(m, n) ==
    /\ edits < MaxEdits
    /\ ~deleting[m]
    /\ want[m] # n
    /\ want' = [want EXCEPT ![m] = n]
    /\ edits' = edits + 1
    /\ UNCHANGED <<deleting, userHere, status, run, mailbox, voicemail, faults>>

RequestDelete(m) ==
    /\ Live(m)
    /\ deleting' = [deleting EXCEPT ![m] = TRUE]
    /\ UNCHANGED <<want, userHere, status, run, mailbox, voicemail, edits, faults>>

ToggleUser(m) ==
    /\ edits < MaxEdits
    /\ userHere' = [userHere EXCEPT ![m] = ~@]
    /\ edits' = edits + 1
    /\ UNCHANGED <<want, deleting, status, run, mailbox, voicemail, faults>>

ChangePin(n) ==
    /\ voicemail[n] = "initial"
    /\ voicemail' = [voicemail EXCEPT ![n] = "chosen"]
    /\ UNCHANGED <<want, deleting, userHere, status, run, mailbox, edits, faults>>

(***************************************************************************)
(* Reconciliation.                                                         *)
(***************************************************************************)
\* Variant: the status is written before the transaction.
BeginWithStatus(m, s) ==
    /\ Live(m)
    /\ userHere[m]
    /\ run[m][s].pc = "idle"
    /\ run' = [run EXCEPT ![m][s] = [pc |-> "commit", number |-> want[m]]]
    /\ status' = [status EXCEPT ![m] = TRUE]
    /\ UNCHANGED <<want, deleting, userHere, mailbox, voicemail, edits, faults>>

\* Variant: a mailbox whose row is up to date is not reconciled.
BeginIfStale(m, s) ==
    /\ Live(m)
    /\ userHere[m]
    /\ mailbox[m] # want[m]
    /\ run[m][s].pc = "idle"
    /\ run' = [run EXCEPT ![m][s] = [pc |-> "commit", number |-> want[m]]]
    /\ UNCHANGED <<want, deleting, userHere, status, mailbox, voicemail, edits, faults>>

\* The user, the pool and the gateway are read; without the user the run ends in
\* a DependencyError.
Begin(m, s) ==
    /\ Live(m)
    /\ userHere[m]
    /\ run[m][s].pc = "idle"
    /\ run' = [run EXCEPT ![m][s] = [pc |-> "commit", number |-> want[m]]]
    /\ UNCHANGED <<want, deleting, userHere, status, mailbox, voicemail, edits, faults>>

\* Variants: the PIN is among the updated columns; the PIN is the raw number.
UpsertWithPin(n) == voicemail' = [voicemail EXCEPT ![n] = "initial"]
UpsertRawNumber(n) == voicemail' = [voicemail EXCEPT ![n] = IF @ = "none" THEN n ELSE @]

\* The PIN is in the inserted values and not in the updated columns.
UpsertVoicemail(n) ==
    voicemail' = [voicemail EXCEPT ![n] = IF @ = "none" THEN "initial" ELSE @]

Commit(m, s) ==
    /\ run[m][s].pc = "commit"
    /\ UpsertVoicemail(run[m][s].number)
    /\ mailbox' = [mailbox EXCEPT ![m] = run[m][s].number]
    /\ run' = [run EXCEPT ![m][s].pc = "patch"]
    /\ UNCHANGED <<want, deleting, userHere, status, edits, faults>>

Patch(m, s) ==
    /\ run[m][s].pc = "patch"
    /\ status' = [status EXCEPT ![m] = TRUE]
    /\ run' = [run EXCEPT ![m][s] = Idle]
    /\ UNCHANGED <<want, deleting, userHere, mailbox, voicemail, edits, faults>>

\* The operator dies, or the run fails, before the commit or after it.
Abandon(m, s) ==
    /\ faults < MaxFaults
    /\ run[m][s].pc # "idle"
    /\ run' = [run EXCEPT ![m][s] = Idle]
    /\ faults' = faults + 1
    /\ UNCHANGED <<want, deleting, userHere, status, mailbox, voicemail, edits>>

\* The deletion finds the database through the user, else through the status; with
\* neither the handler raises, and is retried.
DatabaseKnown(m) == userHere[m] \/ status[m]

\* Variant: the deletion knows no way to the database but the user.
DeleteByUser(m) ==
    /\ deleting[m]
    /\ run[m]["change"].pc = "idle"
    /\ userHere[m]
    /\ voicemail' = [n \in Number |-> IF mailbox[m] = n THEN "none" ELSE voicemail[n]]
    /\ mailbox' = [mailbox EXCEPT ![m] = None]
    /\ IF run[m]["timer"].pc = "idle"
       THEN /\ want' = [want EXCEPT ![m] = None]
            /\ deleting' = [deleting EXCEPT ![m] = FALSE]
            /\ status' = [status EXCEPT ![m] = FALSE]
       ELSE UNCHANGED <<want, deleting, status>>
    /\ UNCHANGED <<userHere, run, edits, faults>>

\* Variant: only the realtime row is dropped.
DeleteRealtimeRow(m) ==
    /\ deleting[m]
    /\ run[m]["change"].pc = "idle"
    /\ DatabaseKnown(m)
    /\ voicemail' = [n \in Number |-> IF mailbox[m] = n THEN "none" ELSE voicemail[n]]
    /\ IF run[m]["timer"].pc = "idle"
       THEN /\ want' = [want EXCEPT ![m] = None]
            /\ deleting' = [deleting EXCEPT ![m] = FALSE]
            /\ status' = [status EXCEPT ![m] = FALSE]
       ELSE UNCHANGED <<want, deleting, status>>
    /\ UNCHANGED <<userHere, run, mailbox, edits, faults>>

\* Variant: the realtime row is looked up by the number the spec resolves to.
DeleteWantedNumber(m) ==
    /\ deleting[m]
    /\ run[m]["change"].pc = "idle"
    /\ DatabaseKnown(m)
    /\ voicemail' = [n \in Number |-> IF want[m] = n THEN "none" ELSE voicemail[n]]
    /\ mailbox' = [mailbox EXCEPT ![m] = None]
    /\ IF run[m]["timer"].pc = "idle"
       THEN /\ want' = [want EXCEPT ![m] = None]
            /\ deleting' = [deleting EXCEPT ![m] = FALSE]
            /\ status' = [status EXCEPT ![m] = FALSE]
       ELSE UNCHANGED <<want, deleting, status>>
    /\ UNCHANGED <<userHere, run, edits, faults>>

\* One transaction drops the realtime row of the number in the row of m, and that
\* row.  The resource goes if the timer is done.
Delete(m) ==
    /\ deleting[m]
    /\ run[m]["change"].pc = "idle"
    /\ DatabaseKnown(m)
    /\ voicemail' = [n \in Number |-> IF mailbox[m] = n THEN "none" ELSE voicemail[n]]
    /\ mailbox' = [mailbox EXCEPT ![m] = None]
    /\ IF run[m]["timer"].pc = "idle"
       THEN /\ want' = [want EXCEPT ![m] = None]
            /\ deleting' = [deleting EXCEPT ![m] = FALSE]
            /\ status' = [status EXCEPT ![m] = FALSE]
       ELSE UNCHANGED <<want, deleting, status>>
    /\ UNCHANGED <<userHere, run, edits, faults>>

-----------------------------------------------------------------------------
TaskStep(m, s) == Begin(m, s) \/ Commit(m, s) \/ Patch(m, s)

Next == \/ \E m \in Mailbox :
              \/ \E n \in Number : SetNumber(m, n)
              \/ RequestDelete(m)
              \/ ToggleUser(m)
              \/ Delete(m)
              \/ \E s \in Slot : TaskStep(m, s) \/ Abandon(m, s)
        \/ \E n \in Number : ChangePin(n)

Spec == Init /\ [][Next]_vars

\* kopf goes on running both tasks of every resource; failures are bounded.
Fairness == \A m \in Mailbox : /\ WF_vars(Delete(m))
                               /\ \A s \in Slot : WF_vars(TaskStep(m, s))
FairSpec == Spec /\ Fairness

-----------------------------------------------------------------------------
TypeOK ==
    /\ want \in [Mailbox -> Number \cup {None}]
    /\ deleting \in [Mailbox -> BOOLEAN]
    /\ userHere \in [Mailbox -> BOOLEAN]
    /\ status \in [Mailbox -> BOOLEAN]
    /\ run \in [Mailbox -> [Slot -> Run]]
    /\ mailbox \in [Mailbox -> Number \cup {None}]
    /\ voicemail \in [Number -> Pin \cup {"none"}]
    /\ edits \in 0..MaxEdits
    /\ faults \in 0..MaxFaults

\* The row the deletion has to find is there whenever the status says so.
StatusHasRow == \A m \in Mailbox : Live(m) /\ status[m] => mailbox[m] # None

\* A PIN is changed by its owner and by nothing else, short of the deletion of a
\* mailbox of that number: no reconciliation sets it back.
PinNotReconciled ==
    [][\A n \in Number : voicemail[n] \in Pin =>
          \/ voicemail'[n] \in {voicemail[n], "chosen"}
          \/ voicemail'[n] = "none" /\ \E m \in Mailbox : deleting[m] /\ mailbox[m] = n]_vars

\* The owner of a stored mailbox keeps the PIN chosen for it as long as the mailbox
\* lives (test_voicemail_mailbox_initial_pin_is_mailbox_and_not_reconciled).  The
\* deletion of another mailbox of that number takes the PIN along.
PinSurvives ==
    [][\A m \in Mailbox, n \in Number :
          Live(m) /\ mailbox[m] = n /\ voicemail[n] = "chosen" => voicemail'[n] = "chosen"]_vars

UserStep(m) == RequestDelete(m) \/ \E n \in Number : SetNumber(m, n)

\* A mailbox has both rows of its number, and no run is about to store another one.
Settled(m) ==
    /\ Live(m)
    /\ mailbox[m] = want[m] /\ voicemail[want[m]] # "none"
    /\ \A s \in Slot : run[m][s].pc = "commit" => run[m][s].number = want[m]

\* A settled mailbox stays so: besides its own edit and deletion only the deletion
\* of a mailbox that is stored under the same number disturbs it, and not that of
\* one which merely asks for the number.
MailboxesStay ==
    [][\A m \in Mailbox : Settled(m) =>
          \/ Settled(m)' \/ UserStep(m)
          \/ \E q \in Mailbox \ {m} : mailbox[q] = mailbox[m] /\ Delete(q)]_vars

\* Once edits stop, every mailbox whose user exists has both of its rows for good:
\* what the deletion of another mailbox took away is written again.
MailboxesConverge ==
    \A m \in Mailbox :
        <>[](Live(m) /\ userHere[m] => mailbox[m] = want[m] /\ voicemail[want[m]] # "none")

\* A deletion comes to its end when the user is there or the status names the
\* database; a mailbox that was never stored and has lost its user stays.
DeletionTerminates ==
    \A m \in Mailbox : []<>(~(deleting[m] /\ DatabaseKnown(m)))

Pending == [m \in Mailbox |->
              {run[m][s].number : s \in {t \in Slot : run[m][t].pc = "commit"}}]
RowsOf == [m \in Mailbox |-> {mailbox[m]} \ {None}]

Rows == INSTANCE RowStore WITH Resource <- Mailbox, Content <- Number, wanted <- want,
                               doomed <- deleting, taken <- Pending, stored <- RowsOf

\* The rows of kubevoip_voicemail_mailbox are a RowStore, though the status is
\* written after the row and the deletion depends on it.
IsRowStore == Rows!StoreSpec
=============================================================================
