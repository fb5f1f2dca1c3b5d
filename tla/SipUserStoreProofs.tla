-------------------------- MODULE SipUserStoreProofs --------------------------
(* Machine-checked proofs about SipUserStore, for any users and names. *)
EXTENDS SipUserStore, TLAPS

\* A snapshot is only held for a resource that exists, and a deletion request too.
Busy == \A u \in User : want[u] = None =>
            ~deleting[u] /\ \A s \in Slot : snap[u][s] = None

Inv == TypeOK /\ AuthBacked /\ GoneOwnsNothing /\ Busy

LEMMA InitInv == Init => Inv
BY NoneAssumption, BoundAssumption
   DEF Init, Inv, TypeOK, AuthBacked, GoneOwnsNothing, Busy

\* snap[u][s] takes one new value, every other snapshot stays.
LEMMA SnapEffect ==
    ASSUME TypeOK, NEW u \in User, NEW s \in Slot, NEW x \in UserSpec \cup {None},
           snap' = [snap EXCEPT ![u][s] = x]
    PROVE  /\ snap' \in [User -> [Slot -> UserSpec \cup {None}]]
           /\ snap'[u][s] = x
           /\ \A v \in User, t \in Slot : v # u \/ t # s => snap'[v][t] = snap[v][t]
<1>1. snap \in [User -> [Slot -> UserSpec \cup {None}]]
  BY DEF TypeOK
<1>2. ASSUME NEW v \in User, NEW t \in Slot, v # u \/ t # s
      PROVE  snap'[v][t] = snap[v][t]
  BY <1>1, <1>2
<1> QED
  BY <1>1, <1>2

LEMMA CommitStep ==
    ASSUME Inv, NEW u \in User, NEW s \in Slot, Commit(u, s)
    PROVE  Inv'
<1> DEFINE sp == snap[u][s]
<1>0. /\ TypeOK /\ sp \in UserSpec /\ want[u] # None
      /\ sp.username \in Username /\ sp.gateway \in Gateway
  BY DEF Commit, Inv, TypeOK, Busy, UserSpec
<1>1. UNCHANGED <<want, deleting, edits>> /\ snap' = [snap EXCEPT ![u][s] = None]
  BY DEF Commit
<1>2. /\ snap' \in [User -> [Slot -> UserSpec \cup {None}]]
      /\ \A v \in User, t \in Slot : snap[v][t] = None => snap'[v][t] = None
  <2>1. /\ snap' \in [User -> [Slot -> UserSpec \cup {None}]]
        /\ snap'[u][s] = None
        /\ \A v \in User, t \in Slot : v # u \/ t # s => snap'[v][t] = snap[v][t]
    BY <1>0, <1>1, SnapEffect
  <2> QED
    BY <2>1
<1>3. CASE Taken(u, sp)
  BY <1>0, <1>1, <1>2, <1>3 DEF Commit, Inv, TypeOK, AuthBacked, GoneOwnsNothing, Busy
<1>4. CASE ~Taken(u, sp)
  <2>1. /\ subscriber' = [subscriber EXCEPT ![sp.username][sp.gateway] = u]
        /\ sipUser' = [sipUser EXCEPT ![u] = sp]
    BY <1>4 DEF Commit
  <2>2. subscriber \in [Username -> [Gateway -> User \cup {None}]]
    BY <1>0 DEF TypeOK
  <2>3. /\ subscriber' \in [Username -> [Gateway -> User \cup {None}]]
        /\ subscriber'[sp.username][sp.gateway] = u
    BY <1>0, <2>1, <2>2
  <2>4. ASSUME NEW n \in Username, NEW g \in Gateway, n # sp.username \/ g # sp.gateway
        PROVE  subscriber'[n][g] = subscriber[n][g]
    BY <1>0, <2>1, <2>2, <2>4
  <2>5. TypeOK'
    BY <1>0, <1>1, <1>2, <2>1, <2>3 DEF TypeOK
  <2>6. ASSUME NEW v \in User, sipUser'[v] # None
        PROVE  subscriber'[sipUser'[v].username][sipUser'[v].gateway] = v
    <3>1. CASE v = u
      BY <1>0, <2>1, <2>3, <3>1 DEF TypeOK
    <3>2. CASE v # u
      <4>1. sipUser'[v] = sipUser[v] /\ sipUser[v] \in UserSpec
        BY <1>0, <2>1, <2>6, <3>2 DEF TypeOK
      <4>2. ~Clash(sp, sipUser[v])
        BY <1>4, <2>6, <3>2, <4>1 DEF Taken
      <4>3. sipUser[v].username # sp.username \/ sipUser[v].gateway # sp.gateway
        BY <4>2 DEF Clash
      <4>4. subscriber[sipUser[v].username][sipUser[v].gateway] = v
        BY <2>6, <4>1 DEF Inv, AuthBacked
      <4> QED
        BY <2>4, <4>1, <4>3, <4>4 DEF UserSpec
    <3> QED
      BY <3>1, <3>2
  <2>7. GoneOwnsNothing'
    <3> SUFFICES ASSUME NEW v \in User, want[v] = None
                 PROVE  /\ sipUser'[v] = None
                        /\ \A n \in Username, g \in Gateway : subscriber'[n][g] # v
      BY <1>1 DEF GoneOwnsNothing
    <3>1. v # u
      BY <1>0
    <3>2. sipUser[v] = None /\ \A n \in Username, g \in Gateway : subscriber[n][g] # v
      BY DEF Inv, GoneOwnsNothing
    <3> QED
      BY <1>0, <2>1, <2>3, <2>4, <3>1, <3>2 DEF TypeOK
  <2>8. Busy'
    BY <1>1, <1>2 DEF Inv, Busy
  <2> QED
    BY <2>5, <2>6, <2>7, <2>8 DEF Inv, AuthBacked
<1> QED
  BY <1>3, <1>4

LEMMA DeleteStep == ASSUME Inv, NEW u \in User, Delete(u) PROVE Inv'
<1>0. TypeOK /\ u # None
  BY NoneAssumption DEF Inv
<1>1. /\ sipUser' = [sipUser EXCEPT ![u] = None]
      /\ UNCHANGED <<snap, edits>>
      /\ \A n \in Username, g \in Gateway :
            subscriber'[n][g] = IF subscriber[n][g] = u THEN None ELSE subscriber[n][g]
  BY DEF Delete
<1>2. TypeOK'
  BY <1>0 DEF Delete, TypeOK
<1>3. ASSUME NEW v \in User, sipUser'[v] # None
      PROVE  subscriber'[sipUser'[v].username][sipUser'[v].gateway] = v
  <2>1. v # u /\ sipUser'[v] = sipUser[v] /\ sipUser[v] \in UserSpec
    BY <1>0, <1>1, <1>3 DEF TypeOK
  <2>2. subscriber[sipUser[v].username][sipUser[v].gateway] = v
    BY <1>3, <2>1 DEF Inv, AuthBacked
  <2> QED
    BY <1>1, <2>1, <2>2 DEF UserSpec
<1>4. ASSUME NEW v \in User, want'[v] = None
      PROVE  /\ sipUser'[v] = None
             /\ \A n \in Username, g \in Gateway : subscriber'[n][g] # v
  <2>1. CASE v = u
    BY <1>0, <1>1, <2>1 DEF TypeOK
  <2>2. CASE v # u
    <3>1. want[v] = None
      BY <1>4, <2>2 DEF Delete, Inv, TypeOK
    <3>2. sipUser[v] = None /\ \A n \in Username, g \in Gateway : subscriber[n][g] # v
      BY <3>1 DEF Inv, GoneOwnsNothing
    <3>3. v # None
      BY NoneAssumption
    <3> QED
      BY <1>0, <1>1, <2>2, <3>2, <3>3 DEF TypeOK
  <2> QED
    BY <2>1, <2>2
<1>5. Busy'
  BY <1>0 DEF Delete, Inv, TypeOK, Busy, Slot
<1> QED
  BY <1>2, <1>3, <1>4, <1>5 DEF Inv, AuthBacked, GoneOwnsNothing

LEMMA NextInv == ASSUME Inv, [Next]_vars PROVE Inv'
<1> USE NoneAssumption DEF Inv
<1>1. ASSUME NEW u \in User, NEW sp \in UserSpec, SetSpec(u, sp)
      PROVE  Inv'
  <2>1. /\ want' = [want EXCEPT ![u] = sp] /\ edits' \in 0..MaxEdits
        /\ UNCHANGED <<deleting, snap, sipUser, subscriber>>
    BY <1>1, BoundAssumption DEF SetSpec, TypeOK
  <2>2. \A v \in User : want'[v] = None => want[v] = None
    BY <2>1 DEF TypeOK
  <2> QED
    BY <2>1, <2>2 DEF TypeOK, AuthBacked, GoneOwnsNothing, Busy
<1>2. ASSUME NEW u \in User, RequestDelete(u)
      PROVE  Inv'
  BY <1>2 DEF RequestDelete, TypeOK, AuthBacked, GoneOwnsNothing, Busy
<1>3. ASSUME NEW u \in User, NEW s \in Slot, Begin(u, s) \/ Abandon(u, s)
      PROVE  Inv'
  <2>1. /\ UNCHANGED <<want, deleting, sipUser, subscriber, edits>>
        /\ \E x \in UserSpec \cup {None} : snap' = [snap EXCEPT ![u][s] = x]
        /\ want[u] # None
    BY <1>3 DEF Begin, Abandon, TypeOK, Busy
  <2>2. /\ snap' \in [User -> [Slot -> UserSpec \cup {None}]]
        /\ \A v \in User, t \in Slot : v # u => snap'[v][t] = snap[v][t]
    BY <2>1, SnapEffect
  <2> QED
    BY <2>1, <2>2 DEF TypeOK, AuthBacked, GoneOwnsNothing, Busy
<1>4. CASE UNCHANGED vars
  BY <1>4 DEF vars, TypeOK, AuthBacked, GoneOwnsNothing, Busy
<1> QED
  BY <1>1, <1>2, <1>3, <1>4, CommitStep, DeleteStep DEF Next, HandlerStep

LEMMA Invariance == Spec => []Inv
<1>1. Inv /\ [Next]_vars => Inv'
  BY NextInv
<1> QED
  BY InitInv, <1>1, PTL DEF Spec

\* The type invariant of the user store, for any users, names, gateways and edits.
THEOREM TypeCorrect == Spec => []TypeOK
<1>1. Inv => TypeOK
  BY DEF Inv
<1> QED
  BY Invariance, <1>1, PTL

\* A routable user always has the subscriber row it authenticates with: no rename,
\* takeover of a name or deletion of another user takes it away.
THEOREM UsersAreBacked == Spec => []AuthBacked
<1>1. Inv => AuthBacked
  BY DEF Inv
<1> QED
  BY Invariance, <1>1, PTL

\* A deleted user leaves no row in either table, whatever names it went through.
THEOREM GoneUsersOwnNothing == Spec => []GoneOwnsNothing
<1>1. Inv => GoneOwnsNothing
  BY DEF Inv
<1> QED
  BY Invariance, <1>1, PTL

-----------------------------------------------------------------------------
(***************************************************************************)
(* What is settled stays settled.                                          *)
(***************************************************************************)
\* The effect of another user's commit on a settled user: the constraints of
\* kubevoip_sip_user keep the names apart, though subscriber has none.
LEMMA OtherCommit ==
    ASSUME Inv, NEW u \in User, Settled(u), NEW v \in User \ {u}, NEW s \in Slot,
           Commit(v, s)
    PROVE  Stored(u)'
<1> DEFINE sp == snap[v][s]
<1>1. /\ TypeOK /\ UNCHANGED want
      /\ sipUser[u] = want[u] /\ want[u] \in UserSpec
      /\ subscriber[want[u].username][want[u].gateway] = u
  BY DEF Inv, TypeOK, Settled, Stored, Commit
<1>2. CASE Taken(v, sp)
  BY <1>1, <1>2 DEF Commit, Stored
<1>3. CASE ~Taken(v, sp)
  <2>1. /\ subscriber' = [subscriber EXCEPT ![sp.username][sp.gateway] = v]
        /\ sipUser' = [sipUser EXCEPT ![v] = sp]
    BY <1>3 DEF Commit
  <2>2. ~Clash(sp, want[u])
    BY <1>1, <1>3, NoneAssumption DEF Taken
  <2>3. want[u].username # sp.username \/ want[u].gateway # sp.gateway
    BY <2>2 DEF Clash
  <2>4. want[u].username \in Username /\ want[u].gateway \in Gateway
    BY <1>1 DEF UserSpec
  <2>5. subscriber'[want[u].username][want[u].gateway] = u
    BY <1>1, <2>1, <2>3, <2>4 DEF TypeOK
  <2>6. sipUser'[u] = want[u]
    BY <1>1, <2>1 DEF TypeOK
  <2> QED
    BY <1>1, <2>5, <2>6 DEF Stored
<1> QED
  BY <1>2, <1>3

\* A commit of the settled user itself stores again what is there.
LEMMA OwnCommit ==
    ASSUME Inv, NEW u \in User, Settled(u), NEW s \in Slot, Commit(u, s)
    PROVE  Stored(u)'
<1>1. /\ TypeOK /\ UNCHANGED want /\ snap[u][s] = want[u]
      /\ sipUser[u] = want[u] /\ want[u] \in UserSpec
      /\ subscriber[want[u].username][want[u].gateway] = u
  BY DEF Inv, TypeOK, Settled, Stored, Commit
<1>2. want[u].username \in Username /\ want[u].gateway \in Gateway
  BY <1>1 DEF UserSpec
<1>3. CASE Taken(u, snap[u][s])
  BY <1>1, <1>3 DEF Commit, Stored
<1>4. CASE ~Taken(u, snap[u][s])
  <2>1. /\ subscriber' = [subscriber EXCEPT ![want[u].username][want[u].gateway] = u]
        /\ sipUser' = [sipUser EXCEPT ![u] = want[u]]
    BY <1>1, <1>4 DEF Commit
  <2>2. subscriber'[want[u].username][want[u].gateway] = u /\ sipUser'[u] = want[u]
    BY <1>1, <1>2, <2>1 DEF TypeOK
  <2> QED
    BY <1>1, <2>2 DEF Stored
<1> QED
  BY <1>3, <1>4

LEMMA SettledStep ==
    ASSUME Inv, [Next]_vars, NEW u \in User, Settled(u), ~UserStep(u)
    PROVE  Settled(u)'
<1>1. /\ TypeOK /\ want[u] # None /\ ~deleting[u] /\ Stored(u)
      /\ \A s \in Slot : snap[u][s] \in {None, want[u]}
  BY DEF Inv, Settled
<1>2. ASSUME NEW v \in User, NEW s \in Slot, NEW x \in UserSpec \cup {None},
             snap' = [snap EXCEPT ![v][s] = x], v = u => x \in {None, want[u]},
             UNCHANGED <<want, deleting>>, Stored(u)'
      PROVE  Settled(u)'
  <2>1. /\ snap'[v][s] = x
        /\ \A w \in User, t \in Slot : w # v \/ t # s => snap'[w][t] = snap[w][t]
    <3>1. snap \in [User -> [Slot -> UserSpec \cup {None}]]
      BY <1>1 DEF TypeOK
    <3> QED
      BY <1>2, <3>1
  <2>2. ASSUME NEW t \in Slot
        PROVE  snap'[u][t] \in {None, want[u]}
    <3>1. CASE v = u /\ t = s
      BY <1>2, <2>1, <3>1
    <3>2. CASE v # u \/ t # s
      BY <1>1, <2>1, <3>2
    <3> QED
      BY <3>1, <3>2
  <2>3. want'[u] = want[u] /\ deleting'[u] = deleting[u]
    BY <1>2
  <2> QED
    BY <1>1, <1>2, <2>2, <2>3 DEF Settled
<1>3. ASSUME NEW v \in User \ {u},
             RequestDelete(v) \/ \E sp \in UserSpec : SetSpec(v, sp)
      PROVE  Settled(u)'
  <2>1. /\ want'[u] = want[u] /\ deleting'[u] = deleting[u]
        /\ UNCHANGED <<snap, sipUser, subscriber>>
    BY <1>1, <1>3 DEF RequestDelete, SetSpec, TypeOK
  <2> QED
    BY <1>1, <2>1 DEF Settled, Stored
<1>4. ASSUME NEW v \in User, Delete(v)
      PROVE  Settled(u)'
  <2>1. v # u
    BY <1>1, <1>4 DEF Delete
  <2>2. /\ want'[u] = want[u] /\ deleting'[u] = deleting[u] /\ UNCHANGED snap
        /\ sipUser'[u] = sipUser[u]
        /\ \A n \in Username, g \in Gateway :
              subscriber[n][g] = u => subscriber'[n][g] = u
    BY <1>1, <1>4, <2>1 DEF Delete, TypeOK
  <2>3. want[u].username \in Username /\ want[u].gateway \in Gateway
    BY <1>1 DEF TypeOK, UserSpec
  <2>4. Stored(u)'
    BY <1>1, <2>2, <2>3 DEF Stored
  <2> QED
    BY <1>1, <2>2, <2>4 DEF Settled
<1>5. ASSUME NEW v \in User, NEW s \in Slot, Begin(v, s) \/ Abandon(v, s)
      PROVE  Settled(u)'
  <2>1. /\ UNCHANGED <<want, deleting, sipUser, subscriber>>
        /\ \E x \in {want[v], None} : snap' = [snap EXCEPT ![v][s] = x]
    BY <1>5 DEF Begin, Abandon
  <2>2. Stored(u)' /\ want[v] \in UserSpec \cup {None}
    BY <1>1, <2>1 DEF Stored, TypeOK
  <2> QED
    BY <1>2, <2>1, <2>2
<1>6. ASSUME NEW v \in User, NEW s \in Slot, Commit(v, s)
      PROVE  Settled(u)'
  <2>1. UNCHANGED <<want, deleting>> /\ snap' = [snap EXCEPT ![v][s] = None]
    BY <1>6 DEF Commit
  <2>2. Stored(u)'
    BY <1>6, OtherCommit, OwnCommit
  <2> QED
    BY <1>2, <2>1, <2>2
<1>7. CASE UNCHANGED vars
  BY <1>1, <1>7 DEF vars, Settled, Stored
<1> QED
  BY <1>3, <1>4, <1>5, <1>6, <1>7 DEF Next, HandlerStep, UserStep

\* A settled user is out of the reach of all others, for any number of them: no
\* commit, takeover of a name, failure or deletion changes either of its rows.
THEOREM UsersStayPut == Spec => UsersStay
<1>1. Inv /\ [Next]_vars =>
          \A u \in User : Settled(u) => Settled(u)' \/ UserStep(u)
  BY SettledStep
<1> QED
  BY <1>1, Invariance, PTL DEF Spec, UsersStay

-----------------------------------------------------------------------------
(***************************************************************************)
(* The users' rows implement RowStore.                                     *)
(***************************************************************************)
Abstract == INSTANCE RowStoreProofs
            WITH Resource <- User, Content <- UserSpec, wanted <- want,
                 doomed <- deleting, taken <- Pending, stored <- RowsOf

LEMMA AbstractIsRows ==
    /\ Abstract!StoreInit <=> Rows!StoreInit
    /\ [Abstract!StoreNext]_(Abstract!store) <=> [Rows!StoreNext]_(Rows!store)
BY DEF Abstract!StoreInit, Rows!StoreInit, Abstract!StoreNext, Rows!StoreNext,
   Abstract!store, Rows!store, Abstract!Change, Rows!Change, Abstract!Doom, Rows!Doom,
   Abstract!Take, Rows!Take, Abstract!Lose, Rows!Lose, Abstract!Store, Rows!Store,
   Abstract!Erase, Rows!Erase, Abstract!Release, Rows!Release

LEMMA PendingIs ==
    ASSUME NEW u \in User
    PROVE  /\ Pending[u] = {snap[u]["change"], snap[u]["timer"]} \ {None}
           /\ Pending'[u] = {snap'[u]["change"], snap'[u]["timer"]} \ {None}
           /\ RowsOf[u] = {sipUser[u]} \ {None}
           /\ RowsOf'[u] = {sipUser'[u]} \ {None}
BY DEF Pending, RowsOf, Slot

LEMMA AbstractTyped ==
    ASSUME TypeOK, TypeOK'
    PROVE  Abstract!StoreType /\ Abstract!StoreType'
BY DEF TypeOK, Abstract!StoreType, Pending, RowsOf

\* A resource that a step leaves alone looks the same in the abstract store.
LEMMA SameUser ==
    ASSUME NEW u \in User,
           want'[u] = want[u], deleting'[u] = deleting[u], sipUser'[u] = sipUser[u],
           \A s \in Slot : snap'[u][s] = snap[u][s]
    PROVE  Abstract!Same(u)
<1>1. snap'[u]["change"] = snap[u]["change"] /\ snap'[u]["timer"] = snap[u]["timer"]
  BY DEF Slot
<1>2. Pending'[u] = Pending[u] /\ RowsOf'[u] = RowsOf[u]
  BY <1>1, PendingIs
<1> QED
  BY <1>2 DEF Abstract!Same

\* One task of u takes a snapshot or ends, and nothing else of any task changes.
LEMMA OneSnap ==
    ASSUME TypeOK, NEW u \in User, NEW s \in Slot, NEW x \in UserSpec \cup {None},
           snap' = [snap EXCEPT ![u][s] = x],
           \A v \in User \ {u} : /\ want'[v] = want[v] /\ deleting'[v] = deleting[v]
                                  /\ sipUser'[v] = sipUser[v]
    PROVE  /\ \A v \in User \ {u} : Abstract!Same(v)
           /\ x = None => Pending'[u] \in {Pending[u], Pending[u] \ {snap[u][s]}}
           /\ snap[u][s] = None /\ x # None => Pending'[u] = Pending[u] \cup {x}
<1>1. /\ snap'[u][s] = x
      /\ \A v \in User, t \in Slot : v # u \/ t # s => snap'[v][t] = snap[v][t]
  BY SnapEffect
<1>2. \A v \in User \ {u} : Abstract!Same(v)
  BY <1>1, SameUser
<1>3. CASE s = "change"
  <2>1. "change" \in Slot /\ "timer" \in Slot /\ "timer" # s
    BY <1>3 DEF Slot
  <2>2. snap'[u]["timer"] = snap[u]["timer"] /\ snap'[u]["change"] = x
    BY <1>1, <1>3, <2>1
  <2>3. /\ Pending[u] = {snap[u]["change"], snap[u]["timer"]} \ {None}
        /\ Pending'[u] = {x, snap[u]["timer"]} \ {None}
    BY <2>2, PendingIs
  <2> QED
    BY <1>2, <1>3, <2>3, Abstract!PairMoves
<1>4. CASE s = "timer"
  <2>1. "change" \in Slot /\ "timer" \in Slot /\ "change" # s
    BY <1>4 DEF Slot
  <2>2. snap'[u]["change"] = snap[u]["change"] /\ snap'[u]["timer"] = x
    BY <1>1, <1>4, <2>1
  <2>3. /\ Pending[u] = {snap[u]["timer"], snap[u]["change"]} \ {None}
        /\ Pending'[u] = {x, snap[u]["change"]} \ {None}
    BY <2>2, PendingIs
  <2> QED
    BY <1>2, <1>4, <2>3, Abstract!PairMoves
<1> QED
  BY <1>3, <1>4 DEF Slot

LEMMA RowsInit == Init => Rows!StoreInit
BY DEF Init, Rows!StoreInit, Pending, RowsOf

LEMMA RowsStep == ASSUME Inv, [Next]_vars PROVE [Rows!StoreNext]_(Rows!store)
<1>1. /\ TypeOK /\ TypeOK' /\ Busy
      /\ Abstract!StoreType /\ Abstract!StoreType'
  BY NextInv, AbstractTyped DEF Inv
<1> DEFINE Like(u) == \/ Abstract!Same(u) \/ Abstract!Changed(u) \/ Abstract!DoomedNow(u)
                      \/ Abstract!TakenNow(u) \/ Abstract!Lost(u) \/ Abstract!StoredNow(u)
                      \/ Abstract!Erased(u) \/ Abstract!Released(u)
           Alone(u) == \A v \in User \ {u} : Abstract!Same(v)
<1>2. ASSUME NEW u \in User, Alone(u), Like(u)
      PROVE  [Rows!StoreNext]_(Rows!store)
  BY <1>1, <1>2, Abstract!StepOfOne, AbstractIsRows
<1> HIDE DEF Like, Alone
<1>3. ASSUME NEW u \in User, NEW sp \in UserSpec, SetSpec(u, sp)
      PROVE  Alone(u) /\ Like(u)
  <2>1. Alone(u)
    BY <1>1, <1>3, SameUser DEF SetSpec, TypeOK, Alone
  <2>2. Abstract!Changed(u)
    BY <1>1, <1>3, PendingIs DEF SetSpec, TypeOK, Abstract!Changed
  <2> QED
    BY <2>1, <2>2 DEF Like
<1>4. ASSUME NEW u \in User, RequestDelete(u)
      PROVE  Alone(u) /\ Like(u)
  <2>1. Alone(u)
    BY <1>1, <1>4, SameUser DEF RequestDelete, TypeOK, Alone
  <2>2. Abstract!DoomedNow(u)
    BY <1>1, <1>4, PendingIs DEF RequestDelete, TypeOK, Abstract!DoomedNow
  <2> QED
    BY <2>1, <2>2 DEF Like
<1>5. ASSUME NEW u \in User, UNCHANGED sipUser
      PROVE  RowsOf'[u] = RowsOf[u]
  BY <1>5, PendingIs
<1>6. ASSUME NEW u \in User, NEW s \in Slot, Begin(u, s)
      PROVE  Alone(u) /\ Like(u)
  <2>1. /\ want[u] # None /\ snap[u][s] = None /\ snap' = [snap EXCEPT ![u][s] = want[u]]
        /\ UNCHANGED <<want, deleting, sipUser>>
    BY <1>6 DEF Begin
  <2>2. want[u] \in UserSpec \cup {None}
    BY <1>1 DEF TypeOK
  <2>3. Alone(u) /\ Pending'[u] = Pending[u] \cup {want[u]}
    BY <1>1, <2>1, <2>2, OneSnap DEF Alone
  <2>4. Abstract!TakenNow(u)
    BY <1>5, <2>1, <2>3 DEF Abstract!TakenNow
  <2> QED
    BY <2>3, <2>4 DEF Like
<1>7. ASSUME NEW u \in User, NEW s \in Slot, snap' = [snap EXCEPT ![u][s] = None],
             UNCHANGED <<want, deleting, sipUser>>
      PROVE  Alone(u) /\ Like(u)
  <2>1. Alone(u) /\ Pending'[u] \in {Pending[u], Pending[u] \ {snap[u][s]}}
    BY <1>1, <1>7, OneSnap DEF Alone
  <2>2. Abstract!Lost(u)
    BY <1>5, <1>7, <2>1 DEF Abstract!Lost
  <2> QED
    BY <2>1, <2>2 DEF Like
<1>8. ASSUME NEW u \in User, NEW s \in Slot, Commit(u, s)
      PROVE  Alone(u) /\ Like(u)
  <2>1. CASE Taken(u, snap[u][s])
    BY <1>7, <1>8, <2>1 DEF Commit
  <2>2. CASE ~Taken(u, snap[u][s])
    <3>1. /\ snap[u][s] # None /\ sipUser' = [sipUser EXCEPT ![u] = snap[u][s]]
          /\ snap' = [snap EXCEPT ![u][s] = None] /\ UNCHANGED <<want, deleting>>
      BY <1>8, <2>2 DEF Commit
    <3>2. sipUser'[u] = snap[u][s] /\ \A v \in User \ {u} : sipUser'[v] = sipUser[v]
      BY <1>1, <3>1 DEF TypeOK
    <3>3. Alone(u) /\ Pending'[u] \in {Pending[u], Pending[u] \ {snap[u][s]}}
      BY <1>1, <3>1, <3>2, OneSnap DEF Alone
    <3>4. snap[u][s] \in Pending[u]
      BY <3>1 DEF Pending
    <3>5. RowsOf'[u] = {snap[u][s]}
      BY <3>1, <3>2, PendingIs
    <3>6. Abstract!StoredNow(u)
      BY <3>1, <3>3, <3>4, <3>5 DEF Abstract!StoredNow
    <3> QED
      BY <3>3, <3>6 DEF Like
  <2> QED
    BY <2>1, <2>2
<1>9. ASSUME NEW u \in User, Delete(u)
      PROVE  Alone(u) /\ Like(u)
  <2>1. Alone(u)
    BY <1>1, <1>9, SameUser DEF Delete, TypeOK, Alone
  <2>2. deleting[u] /\ snap[u]["change"] = None /\ UNCHANGED snap /\ sipUser'[u] = None
    BY <1>1, <1>9 DEF Delete, TypeOK
  <2>3. RowsOf'[u] = {} /\ Pending'[u] = Pending[u]
    BY <2>2, PendingIs
  <2>4. CASE snap[u]["timer"] = None
    <3>1. want'[u] = None /\ deleting'[u] = FALSE /\ Pending[u] = {}
      BY <1>1, <1>9, <2>2, <2>4, PendingIs DEF Delete, TypeOK
    <3>2. Abstract!Released(u)
      BY <2>2, <2>3, <3>1 DEF Abstract!Released
    <3> QED
      BY <2>1, <3>2 DEF Like
  <2>5. CASE snap[u]["timer"] # None
    <3>1. Abstract!Erased(u)
      BY <1>9, <2>2, <2>3, <2>5 DEF Delete, Abstract!Erased
    <3> QED
      BY <2>1, <3>1 DEF Like
  <2> QED
    BY <2>4, <2>5
<1>10. ASSUME NEW u \in User, NEW s \in Slot, Abandon(u, s)
       PROVE  Alone(u) /\ Like(u)
  BY <1>7, <1>10 DEF Abandon
<1>11. CASE UNCHANGED vars
  <2>1. UNCHANGED Rows!store
    BY <1>11 DEF vars, Rows!store, Pending, RowsOf
  <2> QED
    BY <2>1
<1> QED
  BY <1>2, <1>3, <1>4, <1>6, <1>8, <1>9, <1>10, <1>11 DEF Next, HandlerStep

\* The rows of SIPUser resources are a RowStore: with two tasks, constraints that
\* fail, names taken over and deletions under way, a user has at most one row, it
\* holds a spec that was read from the resource, and it goes with the resource.
THEOREM UsersAreRowStore == Spec => IsRowStore
<1>1. Inv /\ [Next]_vars => [Rows!StoreNext]_(Rows!store)
  BY RowsStep
<1> QED
  BY RowsInit, Invariance, <1>1, PTL DEF Spec, IsRowStore, Rows!StoreSpec

=============================================================================
