----------------------------- MODULE SipUserStore -----------------------------
(***************************************************************************)
(* The transactions of SIPUser resources on the two tables of one runtime  *)
(* database: kubevoip_sip_user, one row per resource, and subscriber, one  *)
(* row per username and domain (the gateway name), which Kamailio          *)
(* authenticates against and which names its owning resource.              *)
(*                                                                         *)
(* The users are those of one namespace.  The subscriber row is upserted   *)
(* first and the unique constraints of kubevoip_sip_user are met last, so  *)
(* a constraint that fails takes the transaction back as a whole.          *)
(*                                                                         *)
(* Each resource has a change task and a timer task, as in RuntimeRow,     *)
(* whose proofs justify what is assumed here of a deletion: it erases last *)
(* when no handler of the resource is running any more.                    *)
(***************************************************************************)
EXTENDS Naturals

CONSTANTS
    User,       \* names of SIPUser resources
    Username,   \* values of authUsername
    Gateway,    \* gateways of the database, the domains of its subscribers
    Extension,  \* values of extension
    None,       \* no row, no owner, no resource, no snapshot
    MaxEdits    \* bound on creations and edits of the resources

UserSpec == [username : Username, gateway : Gateway, extension : Extension]

ASSUME NoneAssumption == None \notin User /\ None \notin UserSpec
ASSUME BoundAssumption == MaxEdits \in Nat

VARIABLES
    want,        \* want[u]: the spec of resource u, None when it does not exist
    deleting,    \* deleting[u]: its deletion was requested
    snap,        \* snap[u][s]: the spec task s of u is reconciling, or None
    sipUser,     \* sipUser[u]: the row of u in kubevoip_sip_user, or None
    subscriber,  \* subscriber[n][g]: owner of the row of n in domain g, or None
    edits

vars == <<want, deleting, snap, sipUser, subscriber, edits>>

Slot == {"change", "timer"}

Init ==
    /\ want = [u \in User |-> None]
    /\ deleting = [u \in User |-> FALSE]
    /\ snap = [u \in User |-> [s \in Slot |-> None]]
    /\ sipUser = [u \in User |-> None]
    /\ subscriber = [n \in Username |-> [g \in Gateway |-> None]]
    /\ edits = 0

(***************************************************************************)
(* The users of the API server.                                            *)
(***************************************************************************)
SetSpec(u, sp) ==
    /\ edits < MaxEdits
    /\ ~deleting[u]
    /\ want[u] # sp
    /\ want' = [want EXCEPT ![u] = sp]
    /\ edits' = edits + 1
    /\ UNCHANGED <<deleting, snap, sipUser, subscriber>>

RequestDelete(u) ==
    /\ want[u] # None
    /\ ~deleting[u]
    /\ deleting' = [deleting EXCEPT ![u] = TRUE]
    /\ UNCHANGED <<want, snap, sipUser, subscriber, edits>>

(***************************************************************************)
(* Reconciliation: a snapshot of the spec, then one transaction.           *)
(***************************************************************************)
\* Variant: a user that has a row is not reconciled again.
BeginOnce(u, s) ==
    /\ want[u] # None
    /\ ~deleting[u]
    /\ sipUser[u] = None
    /\ snap[u][s] = None
    /\ snap' = [snap EXCEPT ![u][s] = want[u]]
    /\ UNCHANGED <<want, deleting, sipUser, subscriber, edits>>

Begin(u, s) ==
    /\ want[u] # None
    /\ ~deleting[u]
    /\ snap[u][s] = None
    /\ snap' = [snap EXCEPT ![u][s] = want[u]]
    /\ UNCHANGED <<want, deleting, sipUser, subscriber, edits>>

\* Variant: the constraint on auth_username is missing.
ClashByExtension(sp, row) == sp.gateway = row.gateway /\ sp.extension = row.extension

\* UNIQUE(namespace, gateway_name, extension), UNIQUE(namespace, gateway_name,
\* auth_username): rows sp cannot stand beside.
Clash(sp, row) == /\ sp.gateway = row.gateway
                  /\ sp.extension = row.extension \/ sp.username = row.username

Taken(u, sp) == \E v \in User \ {u} : sipUser[v] # None /\ Clash(sp, sipUser[v])

\* Variant: owner_name is filled with the username.
CommitUsernameAsOwner(u, s) ==
    LET sp == snap[u][s] IN
    /\ sp # None
    /\ IF Taken(u, sp)
       THEN UNCHANGED <<sipUser, subscriber>>
       ELSE /\ subscriber' = [subscriber EXCEPT ![sp.username][sp.gateway] = sp.username]
            /\ sipUser' = [sipUser EXCEPT ![u] = sp]
    /\ snap' = [snap EXCEPT ![u][s] = None]
    /\ UNCHANGED <<want, deleting, edits>>

\* Variant: the row is deleted and inserted anew, and a constraint that fails does
\* not take the deletion back.
CommitReplaces(u, s) ==
    LET sp == snap[u][s] IN
    /\ sp # None
    /\ IF Taken(u, sp)
       THEN /\ sipUser' = [sipUser EXCEPT ![u] = None]
            /\ UNCHANGED subscriber
       ELSE /\ subscriber' = [subscriber EXCEPT ![sp.username][sp.gateway] = u]
            /\ sipUser' = [sipUser EXCEPT ![u] = sp]
    /\ snap' = [snap EXCEPT ![u][s] = None]
    /\ UNCHANGED <<want, deleting, edits>>

\* The upserts of subscriber and kubevoip_sip_user, committed together or not at
\* all; on a constraint failure the handler ends in a DependencyError.
Commit(u, s) ==
    LET sp == snap[u][s] IN
    /\ sp # None
    /\ IF Taken(u, sp)
       THEN UNCHANGED <<sipUser, subscriber>>
       ELSE /\ subscriber' = [subscriber EXCEPT ![sp.username][sp.gateway] = u]
            /\ sipUser' = [sipUser EXCEPT ![u] = sp]
    /\ snap' = [snap EXCEPT ![u][s] = None]
    /\ UNCHANGED <<want, deleting, edits>>

\* The operator dies, or a dependency or the database fails, before the commit.
Abandon(u, s) ==
    /\ snap[u][s] # None
    /\ snap' = [snap EXCEPT ![u][s] = None]
    /\ UNCHANGED <<want, deleting, sipUser, subscriber, edits>>

\* Variant: only the subscriber of the current row is deleted.
DeleteCurrentName(u) ==
    /\ deleting[u]
    /\ snap[u]["change"] = None
    /\ sipUser' = [sipUser EXCEPT ![u] = None]
    /\ subscriber' = IF sipUser[u] = None THEN subscriber ELSE
          [subscriber EXCEPT ![sipUser[u].username][sipUser[u].gateway] = None]
    /\ IF snap[u]["timer"] = None
       THEN /\ want' = [want EXCEPT ![u] = None]
            /\ deleting' = [deleting EXCEPT ![u] = FALSE]
       ELSE UNCHANGED <<want, deleting>>
    /\ UNCHANGED <<snap, edits>>

\* One transaction deletes the row of u and every subscriber u owns.  The resource
\* goes with it if the timer is done, else the deletion is run again.
Delete(u) ==
    /\ deleting[u]
    /\ snap[u]["change"] = None
    /\ sipUser' = [sipUser EXCEPT ![u] = None]
    /\ subscriber' = [n \in Username |->
                        [g \in Gateway |-> IF subscriber[n][g] = u
                                           THEN None ELSE subscriber[n][g]]]
    /\ IF snap[u]["timer"] = None
       THEN /\ want' = [want EXCEPT ![u] = None]
            /\ deleting' = [deleting EXCEPT ![u] = FALSE]
       ELSE UNCHANGED <<want, deleting>>
    /\ UNCHANGED <<snap, edits>>

-----------------------------------------------------------------------------
HandlerStep(u, s) == Begin(u, s) \/ Commit(u, s)

Next == \E u \in User : \/ \E sp \in UserSpec : SetSpec(u, sp)
                        \/ RequestDelete(u)
                        \/ Delete(u)
                        \/ \E s \in Slot : HandlerStep(u, s) \/ Abandon(u, s)

Spec == Init /\ [][Next]_vars

\* kopf goes on running the tasks of every resource, and a transaction that is
\* tried again and again is not lost to failures every time.
Fairness == \A u \in User : /\ WF_vars(Delete(u))
                            /\ \A s \in Slot : /\ WF_vars(Begin(u, s))
                                               /\ SF_vars(Commit(u, s))
FairSpec == Spec /\ Fairness

-----------------------------------------------------------------------------
TypeOK ==
    /\ want \in [User -> UserSpec \cup {None}]
    /\ deleting \in [User -> BOOLEAN]
    /\ snap \in [User -> [Slot -> UserSpec \cup {None}]]
    /\ sipUser \in [User -> UserSpec \cup {None}]
    /\ subscriber \in [Username -> [Gateway -> User \cup {None}]]
    /\ edits \in 0..MaxEdits

\* A user the routing queries can find can authenticate: its subscriber row is
\* there and belongs to the same resource, whatever renames, takeovers of
\* abandoned names and deletions went before.
AuthBacked ==
    \A u \in User : sipUser[u] # None =>
        subscriber[sipUser[u].username][sipUser[u].gateway] = u

\* A resource that is gone owns nothing in either table, however many names it
\* went through (the subscribers of earlier names are only deleted by owner).
GoneOwnsNothing ==
    \A u \in User : want[u] = None =>
        /\ sipUser[u] = None
        /\ \A n \in Username, g \in Gateway : subscriber[n][g] # u

Stored(u) == /\ sipUser[u] = want[u]
             /\ subscriber[want[u].username][want[u].gateway] = u

UserStep(u) == RequestDelete(u) \/ \E sp \in UserSpec : SetSpec(u, sp)

\* Both rows of a user are those of its spec, and no task is at work on another one.
Settled(u) == /\ want[u] # None /\ ~deleting[u]
              /\ Stored(u)
              /\ \A s \in Slot : snap[u][s] \in {None, want[u]}

\* A settled user stays so whatever other users do: with renames, takeovers of
\* abandoned names and deletions around it, only its own edit or deletion touches it.
UsersStay ==
    [][\A u \in User : Settled(u) => Settled(u)' \/ UserStep(u)]_vars

\* Once edits stop, every user whose names no other row holds is stored for good.
FreeNamesConverge ==
    \A u \in User :
        <>[](want[u] # None /\ ~deleting[u] /\ ~Taken(u, want[u]) => Stored(u))

Pending == [u \in User |-> {snap[u][s] : s \in Slot} \ {None}]
RowsOf == [u \in User |-> {sipUser[u]} \ {None}]

Rows == INSTANCE RowStore WITH Resource <- User, Content <- UserSpec, wanted <- want,
                               doomed <- deleting, taken <- Pending, stored <- RowsOf

\* The users' rows are a RowStore: a commit that meets a constraint is a run that
\* failed, and leaves the row the resource had.
IsRowStore == Rows!StoreSpec
=============================================================================
