---------------------------- MODULE RowStoreProofs ----------------------------
(* Machine-checked proofs about RowStore, and the lemma by which a reconciler is *)
(* shown to implement it.                                                        *)
EXTENDS RowStore, TLAPS

StoreType ==
    /\ wanted \in [Resource -> Content \cup {None}]
    /\ doomed \in [Resource -> BOOLEAN]
    /\ taken \in [Resource -> SUBSET Content]
    /\ stored \in [Resource -> SUBSET Content]

\* The steps of a store as one resource sees them.
Same(r) == /\ wanted'[r] = wanted[r] /\ doomed'[r] = doomed[r]
           /\ taken'[r] = taken[r] /\ stored'[r] = stored[r]
Changed(r) == /\ wanted'[r] \in Content
              /\ doomed'[r] = doomed[r] /\ taken'[r] = taken[r] /\ stored'[r] = stored[r]
DoomedNow(r) == /\ wanted[r] # None /\ doomed'[r]
                /\ wanted'[r] = wanted[r] /\ taken'[r] = taken[r] /\ stored'[r] = stored[r]
TakenNow(r) == /\ wanted[r] # None /\ taken'[r] = taken[r] \cup {wanted[r]}
               /\ wanted'[r] = wanted[r] /\ doomed'[r] = doomed[r] /\ stored'[r] = stored[r]
Lost(r) == /\ taken'[r] \subseteq taken[r]
           /\ wanted'[r] = wanted[r] /\ doomed'[r] = doomed[r] /\ stored'[r] = stored[r]
StoredNow(r) == /\ \E c \in taken[r] : /\ stored'[r] = {c}
                                      /\ taken'[r] \in {taken[r], taken[r] \ {c}}
                /\ wanted'[r] = wanted[r] /\ doomed'[r] = doomed[r]
Erased(r) == /\ doomed[r] /\ stored'[r] = {}
             /\ wanted'[r] = wanted[r] /\ doomed'[r] = doomed[r] /\ taken'[r] = taken[r]
Released(r) == /\ doomed[r] /\ taken[r] = {} /\ wanted'[r] = None /\ doomed'[r] = FALSE
               /\ taken'[r] = {} /\ stored'[r] = {}

\* A step that moves one resource, and as a store does, is a step of the store.
LEMMA StepOfOne ==
    ASSUME StoreType, StoreType', NEW r \in Resource,
           \A q \in Resource \ {r} : Same(q),
           \/ Same(r) \/ Changed(r) \/ DoomedNow(r) \/ TakenNow(r) \/ Lost(r)
           \/ StoredNow(r) \/ Erased(r) \/ Released(r)
    PROVE  [StoreNext]_store
<1>1. /\ wanted' = [wanted EXCEPT ![r] = wanted'[r]]
      /\ doomed' = [doomed EXCEPT ![r] = doomed'[r]]
      /\ taken' = [taken EXCEPT ![r] = taken'[r]]
      /\ stored' = [stored EXCEPT ![r] = stored'[r]]
  BY DEF StoreType, Same
<1>2. /\ wanted'[r] = wanted[r] => UNCHANGED wanted
      /\ doomed'[r] = doomed[r] => UNCHANGED doomed
      /\ taken'[r] = taken[r] => UNCHANGED taken
      /\ stored'[r] = stored[r] => UNCHANGED stored
  BY <1>1 DEF StoreType
<1>3. CASE Same(r)
  BY <1>2, <1>3 DEF Same, store
<1>4. Changed(r) => Change(r)
  BY <1>1, <1>2 DEF Changed, Change
<1>5. DoomedNow(r) => Doom(r)
  <2>1. ASSUME doomed'[r] PROVE doomed'[r] = TRUE
    BY <2>1 DEF StoreType
  <2> QED
    BY <1>1, <1>2, <2>1 DEF DoomedNow, Doom
<1>6. TakenNow(r) => Take(r)
  BY <1>1, <1>2 DEF TakenNow, Take
<1>7. Lost(r) => Lose
  <2>1. ASSUME Lost(r), NEW q \in Resource PROVE taken'[q] \subseteq taken[q]
    BY <2>1 DEF Lost, Same
  <2> QED
    BY <1>2, <2>1 DEF Lost, Lose, StoreType
<1>8. StoredNow(r) => Store(r)
  BY <1>1, <1>2 DEF StoredNow, Store
<1>9. Erased(r) => Erase(r)
  BY <1>1, <1>2 DEF Erased, Erase
<1>10. Released(r) => Release(r)
  BY <1>1, <1>2 DEF Released, Release
<1> QED
  BY <1>3, <1>4, <1>5, <1>6, <1>7, <1>8, <1>9, <1>10 DEF StoreNext

\* What two tasks hold, when one of them goes from a to x.
LEMMA PairMoves ==
    ASSUME NEW a, NEW b, NEW x, NEW P, NEW Q,
           P = {a, b} \ {None}, Q = {x, b} \ {None}
    PROVE  /\ x = None => Q \in {P, P \ {a}}
           /\ a = None /\ x # None => Q = P \cup {x}
<1>1. ASSUME x = None, a = b PROVE Q = P
  BY <1>1
<1>2. ASSUME x = None, a # b PROVE Q = P \ {a}
  BY <1>2
<1>3. ASSUME a = None, x # None PROVE Q = P \cup {x}
  BY <1>3
<1> QED
  BY <1>1, <1>2, <1>3

LEMMA StoreTypeInit == StoreInit => StoreType /\ GoneIsGone
BY DEF StoreInit, StoreType, GoneIsGone

LEMMA StoreTypeStep ==
    ASSUME None \notin Content, StoreType, GoneIsGone, [StoreNext]_store
    PROVE  StoreType' /\ GoneIsGone'
<1> USE DEF StoreType, GoneIsGone
<1>1. CASE UNCHANGED store
  BY <1>1 DEF store
<1>2. CASE Lose
  BY <1>2 DEF Lose
<1>3. ASSUME NEW r \in Resource, Change(r) PROVE StoreType' /\ GoneIsGone'
  BY <1>3 DEF Change
<1>4. ASSUME NEW r \in Resource, Doom(r) PROVE StoreType' /\ GoneIsGone'
  BY <1>4 DEF Doom
<1>5. ASSUME NEW r \in Resource, Take(r) PROVE StoreType' /\ GoneIsGone'
  <2>1. wanted[r] \in Content
    BY <1>5 DEF Take
  <2> QED
    BY <1>5, <2>1 DEF Take
<1>6. ASSUME NEW r \in Resource, Store(r) PROVE StoreType' /\ GoneIsGone'
  <2>1. PICK c \in taken[r] : stored' = [stored EXCEPT ![r] = {c}]
    BY <1>6 DEF Store
  <2>2. taken' \in [Resource -> SUBSET Content] /\ \A q \in Resource : taken'[q] \subseteq taken[q]
    BY <1>6 DEF Store
  <2>3. c \in Content /\ wanted[r] # None
    BY <2>1
  <2>4. UNCHANGED <<wanted, doomed>>
    BY <1>6 DEF Store
  <2> QED
    BY <2>1, <2>2, <2>3, <2>4
<1>7. ASSUME NEW r \in Resource, Erase(r) PROVE StoreType' /\ GoneIsGone'
  BY <1>7 DEF Erase
<1>8. ASSUME NEW r \in Resource, Release(r) PROVE StoreType' /\ GoneIsGone'
  BY <1>8 DEF Release
<1> QED
  BY <1>1, <1>2, <1>3, <1>4, <1>5, <1>6, <1>7, <1>8 DEF StoreNext

\* In every implementation of RowStore a resource that does not exist has no row in
\* any database, and no run is left that has read it and could write one.
THEOREM GoneStaysGone == ASSUME None \notin Content PROVE StoreSpec => []GoneIsGone
<1>1. StoreType /\ GoneIsGone /\ [StoreNext]_store => (StoreType /\ GoneIsGone)'
  BY StoreTypeStep
<1> QED
  BY StoreTypeInit, <1>1, PTL DEF StoreSpec
=============================================================================
