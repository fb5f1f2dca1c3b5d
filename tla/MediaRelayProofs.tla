--------------------------- MODULE MediaRelayProofs ---------------------------
(* Machine-checked proofs about MediaRelay: the partition of the media range,  *)
(* and the reconciler for any number of replicas, ports, addresses and specs.  *)
EXTENDS MediaRelay, FiniteSetTheorems, TLAPS

-----------------------------------------------------------------------------
(***************************************************************************)
(* The partition of the media range.                                       *)
(***************************************************************************)

\* What \div and % are, for the arguments they have here.
LEMMA DivMod ==
    ASSUME NEW a \in Nat, NEW b \in Nat \ {0}
    PROVE  /\ a \div b \in Nat /\ a % b \in 0..(b - 1)
           /\ a = b * (a \div b) + (a % b)
OBVIOUS

\* Multiplication is monotone.
LEMMA MulStep ==
    ASSUME NEW q \in Nat, NEW i \in Nat, NEW j \in Nat, i < j
    PROVE  i * q + q <= j * q
<1> DEFINE d == j - i - 1
<1>1. d \in Nat /\ j = i + 1 + d
  OBVIOUS
<1>2. d * q \in Nat
  BY <1>1
<1>3. j * q = i * q + q + d * q
  BY <1>1
<1>4. i * q \in Nat
  OBVIOUS
<1> QED
  BY <1>2, <1>3, <1>4

LEMMA MulCancel ==
    ASSUME NEW q \in Nat, NEW i \in Nat, NEW j \in Nat, i * q < j * q
    PROVE  i < j
<1>1. CASE j = i
  BY <1>1
<1>2. CASE j < i
  <2>1. j * q + q <= i * q
    BY <1>2, MulStep
  <2>2. i * q \in Nat /\ j * q \in Nat
    OBVIOUS
  <2> QED
    BY <2>1, <2>2
<1> QED
  BY <1>1, <1>2

\* A spec of the partition: a range with a port for every replica.
Partitionable(s) ==
    /\ s.replicas \in Nat \ {0} /\ s.start \in Nat /\ s.end \in Nat
    /\ s.replicas <= s.end - s.start + 1

\* Everyone gets Size, and the first Remainder one more.
LEMMA Division ==
    ASSUME NEW s, Partitionable(s)
    PROVE  /\ Size(s) \in Nat \ {0} /\ Remainder(s) \in 0..(s.replicas - 1)
           /\ s.end + 1 = s.start + s.replicas * Size(s) + Remainder(s)
<1> DEFINE N == s.end - s.start + 1
           n == s.replicas
<1>1. N \in Nat /\ n \in Nat \ {0} /\ n <= N
  BY DEF Partitionable
<1> HIDE DEF N, n
<1>2. /\ N \div n \in Nat /\ N % n \in 0..(n - 1)
      /\ N = n * (N \div n) + (N % n)
  BY <1>1, DivMod
<1>3. N \div n # 0
  BY <1>1, <1>2
<1>4. Size(s) = N \div n /\ Remainder(s) = N % n
  BY DEF Size, Remainder, N, n
<1>5. s.end + 1 = s.start + N
  BY DEF N, Partitionable
<1>6. Size(s) \in Nat \ {0} /\ Remainder(s) \in 0..(n - 1)
  BY <1>1, <1>2, <1>3, <1>4
<1>7. s.start \in Nat /\ n * Size(s) \in Nat /\ N = n * Size(s) + Remainder(s)
  BY <1>1, <1>2, <1>4, <1>6 DEF Partitionable
<1>8. s.end + 1 = s.start + n * Size(s) + Remainder(s)
  BY <1>1, <1>5, <1>6, <1>7
<1> QED
  BY <1>6, <1>8 DEF n

\* The parts are intervals of at least one port.
LEMMA PartType ==
    ASSUME NEW s, Partitionable(s), NEW i \in Nat
    PROVE  /\ Count(s, i) \in Nat \ {0} /\ FirstPort(s, i) \in Nat
           /\ FirstPort(s, i) >= s.start
           /\ Part(s, i)[1] = FirstPort(s, i)
           /\ Part(s, i)[2] = FirstPort(s, i) + Count(s, i) - 1
<1>1. Size(s) \in Nat \ {0} /\ Remainder(s) \in Nat /\ s.start \in Nat
  BY Division DEF Partitionable
<1>2. i * Size(s) \in Nat
  BY <1>1
<1> QED
  BY <1>1, <1>2 DEF Count, FirstPort, Part

\* A later part begins after an earlier one has ended.
LEMMA PartsInOrder ==
    ASSUME NEW s, Partitionable(s), NEW i \in Nat, NEW j \in Nat, i < j
    PROVE  FirstPort(s, i) + Count(s, i) <= FirstPort(s, j)
<1> DEFINE q == Size(s)
           r == Remainder(s)
<1>1. q \in Nat /\ r \in Nat /\ s.start \in Nat
  BY Division DEF Partitionable
<1> HIDE DEF q, r
<1>2. i * q + q <= j * q /\ i * q \in Nat /\ j * q \in Nat
  BY <1>1, MulStep
<1>3. /\ FirstPort(s, i) = s.start + i * q + (IF i < r THEN i ELSE r)
      /\ FirstPort(s, j) = s.start + j * q + (IF j < r THEN j ELSE r)
      /\ Count(s, i) = q + (IF i < r THEN 1 ELSE 0)
  BY DEF FirstPort, Count, q, r
<1> QED
  BY <1>1, <1>2, <1>3

\* The part of the replicas ends where the range does.
LEMMA PartsEnd ==
    ASSUME NEW s, Partitionable(s)
    PROVE  FirstPort(s, s.replicas) = s.end + 1
<1>1. Remainder(s) \in Nat /\ Remainder(s) < s.replicas /\ s.replicas \in Nat
  BY Division DEF Partitionable
<1> QED
  BY <1>1, Division DEF FirstPort

\* Every port is in some part: among the longer ones, or after them.
LEMMA PortHasPart ==
    ASSUME NEW s, Partitionable(s), NEW k \in s.start..s.end
    PROVE  \E i \in 0..(s.replicas - 1) :
               FirstPort(s, i) <= k /\ k <= FirstPort(s, i) + Count(s, i) - 1
<1> DEFINE q == Size(s)
           r == Remainder(s)
           n == s.replicas
           x == k - s.start
<1>1. /\ q \in Nat \ {0} /\ r \in 0..(n - 1) /\ n \in Nat \ {0}
      /\ s.start \in Nat /\ s.end \in Nat
      /\ s.end + 1 = s.start + n * q + r
  BY Division DEF Partitionable
<1>2. k \in Nat /\ x \in Nat /\ k = s.start + x
  BY <1>1
<1>3. n * q \in Nat /\ x < n * q + r
  BY <1>1, <1>2
<1>4. \A i \in Nat : /\ FirstPort(s, i) = s.start + i * q + (IF i < r THEN i ELSE r)
                     /\ Count(s, i) = q + (IF i < r THEN 1 ELSE 0)
  BY DEF FirstPort, Count
<1> HIDE DEF q, r, n, x
<1>5. CASE x < r * (q + 1)
  <2> DEFINE i == x \div (q + 1)
             m == x % (q + 1)
  <2>1. i \in Nat /\ m \in 0..q /\ x = (q + 1) * i + m
    <3>1. q + 1 \in Nat \ {0} /\ (q + 1) - 1 = q
      BY <1>1
    <3>2. i \in Nat /\ m \in 0..((q + 1) - 1) /\ x = (q + 1) * i + m
      BY <1>2, <3>1, DivMod
    <3> QED
      BY <3>1, <3>2
  <2> HIDE DEF i, m
  <2>2. i * (q + 1) = i * q + i /\ (q + 1) * i = i * q + i /\ i * q \in Nat
    BY <1>1, <2>1
  <2>3. i * (q + 1) < r * (q + 1)
    <3>1. r * (q + 1) \in Nat
      BY <1>1
    <3> QED
      BY <1>2, <1>5, <2>1, <2>2, <3>1
  <2>4. i < r
    <3>1. q + 1 \in Nat /\ r \in Nat
      BY <1>1
    <3> QED
      BY <2>1, <2>3, <3>1, MulCancel
  <2>5. FirstPort(s, i) = s.start + i * q + i /\ Count(s, i) = q + 1
    BY <1>4, <2>1, <2>4
  <2>6. FirstPort(s, i) <= k /\ k <= FirstPort(s, i) + Count(s, i) - 1
    BY <1>1, <1>2, <2>1, <2>2, <2>5
  <2> QED
    BY <1>1, <2>1, <2>4, <2>6 DEF n
<1>6. CASE ~(x < r * (q + 1))
  <2> DEFINE y == x - r * (q + 1)
             j == y \div q
             m == y % q
             i == r + j
  <2>1. r * (q + 1) = r * q + r /\ r * q \in Nat
    BY <1>1
  <2>2. y \in Nat /\ x = r * q + r + y
    BY <1>1, <1>2, <1>6, <2>1
  <2> HIDE DEF y
  <2>3. j \in Nat /\ m \in 0..(q - 1) /\ y = q * j + m
    BY <1>1, <2>2, DivMod
  <2> HIDE DEF j, m
  <2>4. /\ q * j = j * q /\ j * q \in Nat
        /\ i * q = r * q + j * q
        /\ i \in Nat /\ ~(i < r)
    BY <1>1, <2>3
  <2> HIDE DEF i
  <2>5. i < n
    <3>1. i * q < n * q
      BY <1>1, <1>2, <1>3, <2>1, <2>2, <2>3, <2>4
    <3> QED
      BY <1>1, <2>4, <3>1, MulCancel
  <2>6. FirstPort(s, i) = s.start + i * q + r /\ Count(s, i) = q
    BY <1>1, <1>4, <2>4
  <2>7. FirstPort(s, i) <= k /\ k <= FirstPort(s, i) + Count(s, i) - 1
    BY <1>1, <1>2, <2>1, <2>2, <2>3, <2>4, <2>6
  <2> QED
    BY <1>1, <2>4, <2>5, <2>7 DEF n
<1> QED
  BY <1>5, <1>6

\* The ports of replica i.
PortsOf(s, i) == Part(s, i)[1]..Part(s, i)[2]

\* partition_range shares out the range: every replica has a port, no port is of
\* two replicas, and the ports of all replicas are those of the range.
THEOREM PartitionShares ==
    ASSUME NEW s, Partitionable(s)
    PROVE  LET replicas == 0..(s.replicas - 1)
           IN /\ \A i \in replicas : PortsOf(s, i) # {}
              /\ \A i, j \in replicas : i # j => PortsOf(s, i) \cap PortsOf(s, j) = {}
              /\ UNION {PortsOf(s, i) : i \in replicas} = s.start..s.end
<1> DEFINE replicas == 0..(s.replicas - 1)
<1>1. s.replicas \in Nat \ {0} /\ s.start \in Nat /\ s.end \in Nat
  BY DEF Partitionable
<1>2. ASSUME NEW i \in replicas
      PROVE  /\ i \in Nat /\ Count(s, i) \in Nat \ {0} /\ FirstPort(s, i) \in Nat
             /\ FirstPort(s, i) >= s.start
             /\ PortsOf(s, i) = FirstPort(s, i)..(FirstPort(s, i) + Count(s, i) - 1)
  <2>1. i \in Nat
    BY <1>1
  <2> QED
    BY <2>1, PartType DEF PortsOf
<1>3. ASSUME NEW i \in replicas
      PROVE  PortsOf(s, i) # {} /\ PortsOf(s, i) \subseteq s.start..s.end
  <2>1. FirstPort(s, i) + Count(s, i) <= FirstPort(s, s.replicas)
    BY <1>1, <1>2, PartsInOrder
  <2>2. FirstPort(s, i) + Count(s, i) <= s.end + 1
    BY <2>1, PartsEnd
  <2>3. FirstPort(s, i) \in PortsOf(s, i)
    BY <1>2
  <2>4. ASSUME NEW k \in PortsOf(s, i)
        PROVE  k \in s.start..s.end
    BY <1>1, <1>2, <2>2, <2>4
  <2> QED
    BY <2>3, <2>4
<1>4. ASSUME NEW i \in replicas, NEW j \in replicas, i # j
      PROVE  PortsOf(s, i) \cap PortsOf(s, j) = {}
  <2>1. \/ FirstPort(s, i) + Count(s, i) <= FirstPort(s, j)
        \/ FirstPort(s, j) + Count(s, j) <= FirstPort(s, i)
    <3>1. i < j \/ j < i
      BY <1>2, <1>4
    <3> QED
      BY <1>2, <3>1, PartsInOrder
  <2> QED
    BY <1>2, <2>1
<1>5. ASSUME NEW k \in s.start..s.end
      PROVE  \E i \in replicas : k \in PortsOf(s, i)
  <2>1. PICK i \in replicas :
            FirstPort(s, i) <= k /\ k <= FirstPort(s, i) + Count(s, i) - 1
    BY PortHasPart
  <2>2. k \in PortsOf(s, i)
    BY <1>1, <1>2, <2>1
  <2> QED
    BY <2>2
<1>6. UNION {PortsOf(s, i) : i \in replicas} = s.start..s.end
  <2> HIDE DEF replicas
  <2> QED
    BY <1>3, <1>5
<1> QED
  BY <1>3, <1>4, <1>6

-----------------------------------------------------------------------------
(***************************************************************************)
(* The closed form of the partition is what the loop of the code computes. *)
(***************************************************************************)
\* Induction over an interval, for a set G.  If some m of it were not in G, neither
\* would m - 1 be, and so on: i |-> i - 1 maps what is not in G of 0..m into itself,
\* one to one but without reaching m, which no finite set allows.
LEMMA IntervalInduction ==
    ASSUME NEW n \in Nat, NEW G, 0 \in G, \A i \in 0..(n - 1) : i \in G => i + 1 \in G
    PROVE  0..n \subseteq G
<1> SUFFICES ASSUME NEW m \in 0..n, m \notin G
             PROVE  FALSE
  OBVIOUS
<1> DEFINE T == {i \in 0..m : i \notin G}
           down == [i \in T |-> i - 1]
<1>1. ASSUME NEW i \in T
      PROVE  i - 1 \in T
  <2>1. i \in 1..n /\ i \notin G
    BY <1>1
  <2>2. i - 1 \in 0..(n - 1) /\ (i - 1) + 1 = i
    BY <2>1
  <2>3. i - 1 \notin G
    BY <2>1, <2>2
  <2> QED
    BY <1>1, <2>1, <2>3
<1>2. IsFiniteSet(T)
  <2>1. IsFiniteSet(0..m)
    BY FS_Interval
  <2> QED
    BY <2>1, FS_Subset
<1>3. down \in Injection(T, T)
  <2>1. down \in [T -> T]
    BY <1>1
  <2>2. ASSUME NEW i \in T, NEW j \in T, down[i] = down[j]
        PROVE  i = j
    <3>1. down[i] = i - 1 /\ down[j] = j - 1 /\ i \in Int /\ j \in Int
      OBVIOUS
    <3> QED
      BY <2>2, <3>1
  <2> HIDE DEF T, down
  <2> QED
    BY <2>1, <2>2 DEF Injection, IsInjective
<1>4. down \in Surjection(T, T)
  <2> HIDE DEF T, down
  <2> QED
    BY <1>2, <1>3, FS_Injection
<1>5. PICK i \in T : down[i] = m
  <2>1. m \in T
    OBVIOUS
  <2> HIDE DEF T, down
  <2> QED
    BY <1>4, <2>1 DEF Surjection
<1> QED
  BY <1>5

\* partition_range: `current` begins at the start of the range and grows by `count` in
\* each round; whatever the range and the number of replicas, FirstPort is its value
\* at the beginning of round i (and PartitionLoop in MCMediaRelay an instance of this).
THEOREM PartIsLoop ==
    ASSUME NEW s, Partitionable(s), NEW current,
           current[0] = s.start,
           \A i \in 0..(s.replicas - 1) : current[i + 1] = current[i] + Count(s, i)
    PROVE  /\ \A i \in 0..s.replicas : current[i] = FirstPort(s, i)
           /\ \A i \in 0..(s.replicas - 1) :
                  Part(s, i) = <<current[i], current[i + 1] - 1>>
<1> DEFINE n == s.replicas
           G == {i \in 0..n : current[i] = FirstPort(s, i)}
           q == Size(s)
           r == Remainder(s)
<1>1. n \in Nat \ {0} /\ s.start \in Nat /\ q \in Nat /\ r \in Nat
  BY Division DEF Partitionable
<1>2. 0 \in G
  BY <1>1 DEF FirstPort
<1>3. ASSUME NEW i \in 0..(n - 1), i \in G
      PROVE  i + 1 \in G
  <2>1. i \in Nat /\ i + 1 \in 0..n
    BY <1>1
  <2>2. current[i + 1] = FirstPort(s, i) + Count(s, i)
    BY <1>3
  <2>3. FirstPort(s, i + 1) = FirstPort(s, i) + Count(s, i)
    <3> HIDE DEF q, r
    <3>1. /\ FirstPort(s, i) = s.start + i * q + (IF i < r THEN i ELSE r)
          /\ FirstPort(s, i + 1) = s.start + (i + 1) * q + (IF i + 1 < r THEN i + 1 ELSE r)
          /\ Count(s, i) = q + (IF i < r THEN 1 ELSE 0)
      BY DEF FirstPort, Count, q, r
    <3>2. (i + 1) * q = i * q + q /\ i * q \in Nat
      BY <1>1, <2>1
    <3> QED
      BY <1>1, <2>1, <3>1, <3>2
  <2> QED
    BY <2>1, <2>2, <2>3
<1>4. 0..n \subseteq G
  <2> HIDE DEF G, n
  <2> QED
    BY <1>1, <1>2, <1>3, IntervalInduction
<1>5. \A i \in 0..n : current[i] = FirstPort(s, i)
  BY <1>4
<1>6. ASSUME NEW i \in 0..(n - 1)
      PROVE  Part(s, i) = <<current[i], current[i + 1] - 1>>
  <2>1. current[i] = FirstPort(s, i) /\ current[i + 1] = current[i] + Count(s, i)
    BY <1>1, <1>5
  <2>2. FirstPort(s, i) \in Nat /\ Count(s, i) \in Nat
    BY PartType
  <2>3. current[i + 1] - 1 = FirstPort(s, i) + Count(s, i) - 1
    BY <2>1, <2>2
  <2> QED
    BY <2>1, <2>3 DEF Part
<1> QED
  BY <1>5, <1>6

-----------------------------------------------------------------------------
(***************************************************************************)
(* The inductive invariant.                                                *)
(***************************************************************************)
LEMMA SpecType ==
    ASSUME NEW spec \in RelaySpecs
    PROVE  /\ spec \in RelaySpec /\ Partitionable(spec)
           /\ spec.replicas \in 1..MaxReplicas
           /\ spec.start \in 1..MaxPort /\ spec.end \in 1..MaxPort
           /\ spec.lb \in BOOLEAN /\ spec.host \in BOOLEAN
           /\ spec.override \in [Replica -> Maybe(Address)]
           /\ spec.address \in Maybe(Address)
BY SpecsAssumption, ReplicasAssumption DEF RelaySpec, Partitionable

\* The part of a replica is in the range of its spec.
LEMMA PartPorts ==
    ASSUME NEW spec \in RelaySpecs, NEW i \in 0..(spec.replicas - 1)
    PROVE  Part(spec, i) \in Ports
<1>1. Partitionable(spec) /\ spec.replicas \in Nat \ {0} /\ i \in Nat
  BY SpecType, ReplicasAssumption
<1>2. /\ Count(spec, i) \in Nat \ {0} /\ FirstPort(spec, i) \in Nat
      /\ FirstPort(spec, i) >= spec.start
  BY <1>1, PartType
<1>3. FirstPort(spec, i) + Count(spec, i) <= spec.end + 1
  <2>1. FirstPort(spec, i) + Count(spec, i) <= FirstPort(spec, spec.replicas)
    BY <1>1, PartsInOrder
  <2> QED
    BY <1>1, <2>1, PartsEnd
<1>4. spec.start \in 1..MaxPort /\ spec.end \in 1..MaxPort /\ MaxPort \in Nat
  BY SpecType, ReplicasAssumption
<1> DEFINE first == FirstPort(spec, i)
           last == FirstPort(spec, i) + Count(spec, i) - 1
<1>5. first \in 1..MaxPort /\ last \in 1..MaxPort
  BY <1>2, <1>3, <1>4
<1>6. Part(spec, i) = <<first, last>>
  BY DEF Part
<1> HIDE DEF first, last
<1> QED
  BY <1>5, <1>6 DEF Ports

\* The first n replicas have their Service and their Deployment.
Made(n, services, engines) ==
    \A i \in Replica : i < n => services[i] # None /\ engines[i] # None

\* What a run holds at each place.
RunOK(h) ==
    /\ h.pc \in {"services", "addresses", "engines", "applied"} => h.spec \in RelaySpecs
    /\ h.pc \in {"engines", "applied"} =>
           \A i \in 0..(h.spec.replicas - 1) : h.found[i] \in Known

RunInv == \A s \in Slot : /\ RunOK(relayRun[s])
                          /\ relayRun[s].pc = "applied" =>
                              Made(relayRun[s].spec.replicas, service, engine)

\* A status lists nothing, or what some run has reported.
ListInv == \/ relayStatus.relays = NoRelays
           \/ \E spec \in RelaySpecs, found \in [Replica -> Maybe(Known)] :
                  relayStatus.relays = RelayList(spec, found)

\* A Deployment is applied after its Service.
ObjectInv == \A i \in Replica : engine[i] # None => service[i] # None

IInv == TypeOK /\ RunInv /\ ListInv /\ ObjectInv

\* Objects are made, and never taken away.
Grows == \A i \in Replica : /\ service[i] # None => service'[i] # None
                            /\ engine[i] # None => engine'[i] # None

LEMMA ApplyServicesStep ==
    ASSUME TypeOK, NEW spec \in RelaySpecs, NEW n \in 0..spec.replicas,
           ApplyServices(spec, n)
    PROVE  /\ service' \in [Replica -> Maybe(Service)]
           /\ ingress' \in [Replica -> Maybe(Address)]
           /\ \A i \in Replica : service[i] # None \/ i < n => service'[i] # None
           /\ \A i \in Replica : service'[i] # None => service[i] # None \/ i < n
<1>1. /\ service' = [i \in Replica |-> IF i < n THEN [ports |-> Part(spec, i), lb |-> spec.lb]
                                        ELSE service[i]]
      /\ ingress' = [i \in Replica |-> IF i < n /\ ~spec.lb THEN None ELSE ingress[i]]
  BY DEF ApplyServices
<1>2. ASSUME NEW i \in Replica, i < n
      PROVE  [ports |-> Part(spec, i), lb |-> spec.lb] \in Service
  <2>1. i \in 0..(spec.replicas - 1)
    BY <1>2, SpecType, ReplicasAssumption DEF Replica
  <2>2. Part(spec, i) \in Ports /\ spec.lb \in BOOLEAN
    BY <2>1, PartPorts, SpecType
  <2> QED
    BY <2>2 DEF Service
<1>3. /\ service \in [Replica -> Maybe(Service)]
      /\ ingress \in [Replica -> Maybe(Address)]
  BY DEF TypeOK
<1>4. service' \in [Replica -> Maybe(Service)]
  BY <1>1, <1>2, <1>3 DEF Maybe
<1>5. ingress' \in [Replica -> Maybe(Address)]
  BY <1>1, <1>3 DEF Maybe
<1>6. \A i \in Replica : i < n => service'[i] # None
  BY <1>1, <1>2, ObjectAssumption
<1>7. \A i \in Replica : ~(i < n) => service'[i] = service[i]
  BY <1>1
<1> QED
  BY <1>4, <1>5, <1>6, <1>7

LEMMA ApplyEnginesStep ==
    ASSUME TypeOK, NEW h, h.spec \in RelaySpecs, NEW n \in 0..h.spec.replicas,
           \A i \in 0..(h.spec.replicas - 1) : h.found[i] \in Known,
           ApplyEnginesOf(h, n)
    PROVE  /\ engine' \in [Replica -> Maybe(Engine)]
           /\ \A i \in Replica : engine[i] # None \/ i < n => engine'[i] # None
           /\ \A i \in Replica : engine'[i] # None => engine[i] # None \/ i < n
<1> DEFINE made(i) == [ports |-> Part(h.spec, i), address |-> h.found[i], host |-> h.spec.host]
<1>1. engine' = [i \in Replica |-> IF i < n THEN made(i) ELSE engine[i]]
  BY DEF ApplyEnginesOf
<1>2. ASSUME NEW i \in Replica, i < n
      PROVE  made(i) \in Engine
  <2>1. i \in 0..(h.spec.replicas - 1)
    BY <1>2, SpecType, ReplicasAssumption DEF Replica
  <2>2. Part(h.spec, i) \in Ports /\ h.spec.host \in BOOLEAN /\ h.found[i] \in Known
    BY <2>1, PartPorts, SpecType
  <2> QED
    BY <2>2 DEF Engine
<1> HIDE DEF made
<1>3. engine \in [Replica -> Maybe(Engine)]
  BY DEF TypeOK
<1>4. engine' \in [Replica -> Maybe(Engine)]
  BY <1>1, <1>2, <1>3 DEF Maybe
<1>5. \A i \in Replica : i < n => engine'[i] # None
  BY <1>1, <1>2, ObjectAssumption
<1>6. \A i \in Replica : ~(i < n) => engine'[i] = engine[i]
  BY <1>1
<1> QED
  BY <1>4, <1>5, <1>6

\* A task that goes on with h, which is in order, leaves the others as they are.
LEMMA RunStep ==
    ASSUME IInv, NEW s \in Slot, NEW h \in RelayRun, RunOK(h), SetRelayRun(s, h),
           Grows, h.pc = "applied" => Made(h.spec.replicas, service', engine')
    PROVE  relayRun' \in [Slot -> RelayRun] /\ RunInv'
<1>1. relayRun \in [Slot -> RelayRun]
  BY DEF IInv, TypeOK
<1>2. /\ relayRun' \in [Slot -> RelayRun] /\ relayRun'[s] = h
      /\ \A t \in Slot : t # s => relayRun'[t] = relayRun[t]
  BY <1>1 DEF SetRelayRun
<1>3. ASSUME NEW t \in Slot
      PROVE  /\ RunOK(relayRun'[t])
             /\ relayRun'[t].pc = "applied" =>
                    Made(relayRun'[t].spec.replicas, service', engine')
  <2>1. CASE t = s
    BY <1>2, <2>1
  <2>2. CASE t # s
    <3>1. /\ RunOK(relayRun[t])
          /\ relayRun[t].pc = "applied" => Made(relayRun[t].spec.replicas, service, engine)
      BY DEF IInv, RunInv
    <3>2. relayRun'[t] = relayRun[t]
      BY <1>2, <2>2
    <3>3. ASSUME NEW n, Made(n, service, engine) PROVE Made(n, service', engine')
      BY <3>3 DEF Grows, Made
    <3> QED
      BY <3>1, <3>2, <3>3
  <2> QED
    BY <2>1, <2>2
<1>4. \A t \in Slot : /\ RunOK(relayRun[t])'
                      /\ (relayRun[t].pc = "applied" =>
                              Made(relayRun[t].spec.replicas, service, engine))'
  BY <1>3
<1> QED
  BY <1>2, <1>4 DEF RunInv

\* The runs that have nothing in hand are in order, too.
LEMMA IdleRun ==
    ASSUME NEW pc \in {"idle", "waiting", "error"}
    PROVE  LET h == [RelayIdle EXCEPT !.pc = pc]
           IN h \in RelayRun /\ RunOK(h) /\ h.pc # "applied"
BY DEF RelayIdle, Nothing, RelayRun, RunOK, Maybe

LEMMA HandType ==
    ASSUME TypeOK, NEW s \in Slot
    PROVE  /\ relayRun[s] \in RelayRun
           /\ relayRun[s] = [pc |-> relayRun[s].pc, spec |-> relayRun[s].spec,
                             profile |-> relayRun[s].profile, found |-> relayRun[s].found]
BY DEF TypeOK, RelayRun

LEMMA InitInv ==
    ASSUME RelayInit
    PROVE  IInv
<1>1. NoRelays \in [0..(0 - 1) -> Relay] /\ 0 \in 0..MaxReplicas
  BY ReplicasAssumption DEF NoRelays
<1>2. relayStatus \in RelayStatus
  BY <1>1 DEF RelayInit, RelayStatus
<1>3. RelayIdle \in RelayRun /\ RunOK(RelayIdle) /\ RelayIdle.pc = "idle"
  BY DEF RelayIdle, Nothing, RelayRun, RunOK, Maybe
<1>4. TypeOK
  BY <1>2, <1>3, BoundAssumption DEF RelayInit, TypeOK, Nothing, Maybe
<1>5. RunInv
  BY <1>3 DEF RelayInit, RunInv
<1>6. ListInv /\ ObjectInv
  BY DEF RelayInit, ListInv, ObjectInv, Nothing
<1> QED
  BY <1>4, <1>5, <1>6 DEF IInv

LEMMA BeginStep ==
    ASSUME IInv, NEW s \in Slot, BeginRelay(s)
    PROVE  IInv'
<1> DEFINE h == [RelayIdle EXCEPT !.pc = "services", !.spec = relay]
<1>1. TypeOK /\ relay \in RelaySpecs /\ relay \in RelaySpec
  BY SpecType DEF IInv, TypeOK
<1>2. h \in RelayRun /\ RunOK(h) /\ h.pc = "services"
  BY <1>1 DEF RelayIdle, Nothing, RelayRun, RunOK, Maybe
<1> HIDE DEF h
<1>3. SetRelayRun(s, h) /\ Grows
  BY DEF BeginRelay, h, Grows, relayObjects
<1>4. relayRun' \in [Slot -> RelayRun] /\ RunInv'
  BY <1>2, <1>3, RunStep
<1> QED
  BY <1>1, <1>4 DEF IInv, TypeOK, ListInv, ObjectInv, BeginRelay, relayObjects

LEMMA ServicesStep ==
    ASSUME IInv, NEW s \in Slot, ApplyRelayServices(s)
    PROVE  IInv' /\ Grows
<1> DEFINE g == relayRun[s]
           h == [g EXCEPT !.pc = "addresses", !.profile = profile]
<1>1. TypeOK /\ g.pc = "services" /\ g \in RelayRun /\ RunOK(g)
  BY HandType DEF IInv, RunInv, ApplyRelayServices, RelayAt
<1>2. g.spec \in RelaySpecs /\ profile \in Maybe(Address)
  BY <1>1 DEF RunOK, TypeOK
<1>3. h \in RelayRun /\ h.pc = "addresses" /\ h.spec = g.spec
  BY <1>1, <1>2 DEF RelayRun
<1>4. RunOK(h) /\ h.pc # "applied"
  BY <1>2, <1>3 DEF RunOK
<1>5. /\ service' \in [Replica -> Maybe(Service)]
      /\ ingress' \in [Replica -> Maybe(Address)]
      /\ \A i \in Replica : service[i] # None => service'[i] # None
  <2>1. ApplyServices(g.spec, g.spec.replicas)
    BY DEF ApplyRelayServices
  <2>2. g.spec.replicas \in 0..g.spec.replicas
    BY <1>2, SpecType, ReplicasAssumption
  <2> QED
    BY <1>1, <1>2, <2>1, <2>2, ApplyServicesStep
<1>6. SetRelayRun(s, h) /\ engine' = engine
  BY DEF ApplyRelayServices
<1>7. Grows
  BY <1>5, <1>6 DEF Grows
<1> HIDE DEF g, h
<1>8. relayRun' \in [Slot -> RelayRun] /\ RunInv'
  BY <1>3, <1>4, <1>6, <1>7, RunStep
<1>9. ListInv' /\ ObjectInv'
  BY <1>5, <1>6 DEF IInv, ListInv, ObjectInv, ApplyRelayServices
<1>10. TypeOK'
  BY <1>1, <1>5, <1>8 DEF TypeOK, ApplyRelayServices
<1> QED
  BY <1>7, <1>8, <1>9, <1>10 DEF IInv

\* What is resolved can be advertised.
LEMMA AddressType ==
    ASSUME NEW spec \in RelaySpecs, NEW prof \in Maybe(Address),
           NEW given \in [Replica -> Maybe(Address)]
    PROVE  RelayAddresses(spec, prof, given) \in [Replica -> Maybe(Known)]
BY SpecType DEF RelayAddresses, RelayAddress, ResolveAddress, Maybe, Known

LEMMA AddressesStep ==
    ASSUME IInv, NEW s \in Slot, ResolveRelayAddresses(s)
    PROVE  IInv'
<1> DEFINE g == relayRun[s]
           found == RelayAddresses(g.spec, g.profile, ingress)
           all == \A i \in 0..(g.spec.replicas - 1) : found[i] # None
           on == [g EXCEPT !.pc = "engines", !.profile = None, !.found = found]
           off == [RelayIdle EXCEPT !.pc = IF g.spec.lb THEN "waiting" ELSE "error"]
           h == IF all THEN on ELSE off
<1>1. TypeOK /\ g.pc = "addresses" /\ g \in RelayRun /\ RunOK(g)
  BY HandType DEF IInv, RunInv, ResolveRelayAddresses, RelayAt
<1>2. /\ g.spec \in RelaySpecs /\ g.profile \in Maybe(Address)
      /\ ingress \in [Replica -> Maybe(Address)]
  BY <1>1 DEF RunOK, TypeOK, RelayRun
<1>3. found \in [Replica -> Maybe(Known)]
  BY <1>2, AddressType
<1>4. Grows
  BY DEF ResolveRelayAddresses, Grows, relayObjects
<1>5. SetRelayRun(s, h)
  BY DEF ResolveRelayAddresses
<1>6. 0..(g.spec.replicas - 1) \subseteq Replica
  BY <1>2, SpecType, ReplicasAssumption DEF Replica
<1> HIDE DEF found
<1>7. h \in RelayRun /\ RunOK(h) /\ h.pc # "applied"
  <2> HIDE DEF h, all
  <2>1. CASE all
    <3>1. on \in RelayRun /\ on.pc = "engines" /\ on.spec = g.spec /\ on.found = found
      BY <1>1, <1>3 DEF RelayRun, Maybe
    <3>2. \A i \in 0..(g.spec.replicas - 1) : found[i] \in Known
      BY <1>3, <1>6, <2>1 DEF Maybe, all
    <3>3. RunOK(on) /\ on.pc # "applied"
      BY <1>2, <3>1, <3>2 DEF RunOK
    <3>4. h = on
      BY <2>1 DEF h
    <3> HIDE DEF on
    <3> QED
      BY <3>1, <3>3, <3>4
  <2>2. CASE ~all
    <3>1. h = off
      BY <2>2 DEF h
    <3> QED
      BY <3>1, IdleRun
  <2> QED
    BY <2>1, <2>2
<1> HIDE DEF g, h
<1>8. relayRun' \in [Slot -> RelayRun] /\ RunInv'
  BY <1>4, <1>5, <1>7, RunStep
<1> QED
  BY <1>1, <1>8 DEF IInv, TypeOK, ListInv, ObjectInv, ResolveRelayAddresses, relayObjects

\* A loop over Services and Deployments that has come to replica n.
LEMMA EnginesOfStep ==
    ASSUME IInv, NEW s \in Slot, relayRun[s].pc = "engines",
           NEW n \in 0..relayRun[s].spec.replicas, ApplyEnginesOf(relayRun[s], n)
    PROVE  /\ service' \in [Replica -> Maybe(Service)]
           /\ ingress' \in [Replica -> Maybe(Address)]
           /\ engine' \in [Replica -> Maybe(Engine)]
           /\ Grows /\ ObjectInv'
           /\ Made(n, service', engine')
           /\ \A i \in Replica : engine'[i] # None => engine[i] # None \/ i < n
<1> DEFINE g == relayRun[s]
<1>1. /\ TypeOK /\ g.spec \in RelaySpecs
      /\ \A i \in 0..(g.spec.replicas - 1) : g.found[i] \in Known
  BY DEF IInv, RunInv, RunOK
<1>2. ApplyServices(g.spec, n)
  BY DEF ApplyEnginesOf
<1>3. /\ service' \in [Replica -> Maybe(Service)]
      /\ ingress' \in [Replica -> Maybe(Address)]
      /\ \A i \in Replica : service[i] # None \/ i < n => service'[i] # None
  BY <1>1, <1>2, ApplyServicesStep
<1> HIDE DEF g
<1>4. n \in 0..g.spec.replicas /\ ApplyEnginesOf(g, n)
  BY DEF g
<1>5. /\ engine' \in [Replica -> Maybe(Engine)]
      /\ \A i \in Replica : engine[i] # None \/ i < n => engine'[i] # None
      /\ \A i \in Replica : engine'[i] # None => engine[i] # None \/ i < n
  BY <1>1, <1>4, ApplyEnginesStep
<1>6. Grows /\ Made(n, service', engine')
  BY <1>3, <1>5 DEF Grows, Made
<1>7. ObjectInv'
  BY <1>3, <1>5 DEF IInv, ObjectInv
<1> QED
  BY <1>3, <1>5, <1>6, <1>7

LEMMA EnginesStep ==
    ASSUME IInv, NEW s \in Slot, ApplyEngines(s)
    PROVE  /\ IInv' /\ Grows
           /\ relayRun[s].spec \in RelaySpecs
           /\ \A i \in Replica :
                  engine'[i] # None => engine[i] # None \/ i < relayRun[s].spec.replicas
<1> DEFINE g == relayRun[s]
           h == [g EXCEPT !.pc = "applied"]
           n == g.spec.replicas
<1>1. TypeOK /\ g.pc = "engines" /\ g \in RelayRun /\ RunOK(g)
  BY HandType DEF IInv, RunInv, ApplyEngines, RelayAt
<1>2. g.spec \in RelaySpecs /\ n \in 0..n
  BY <1>1, SpecType, ReplicasAssumption DEF RunOK
<1>3. /\ service' \in [Replica -> Maybe(Service)]
      /\ ingress' \in [Replica -> Maybe(Address)]
      /\ engine' \in [Replica -> Maybe(Engine)]
      /\ Grows /\ ObjectInv'
      /\ Made(n, service', engine')
      /\ \A i \in Replica : engine'[i] # None => engine[i] # None \/ i < n
  BY <1>1, <1>2, EnginesOfStep DEF ApplyEngines
<1>4. h \in RelayRun /\ h.pc = "applied" /\ h.spec = g.spec /\ h.found = g.found
  BY <1>1 DEF RelayRun
<1>5. RunOK(h)
  BY <1>1, <1>4 DEF RunOK
<1>6. SetRelayRun(s, h)
  BY DEF ApplyEngines
<1>7. relayRun' \in [Slot -> RelayRun] /\ RunInv'
  <2> HIDE DEF g, h
  <2> QED
    BY <1>3, <1>4, <1>5, <1>6, RunStep DEF n
<1>8. ListInv'
  BY DEF IInv, ListInv, ApplyEngines
<1>9. TypeOK'
  BY <1>1, <1>3, <1>7 DEF TypeOK, ApplyEngines
<1> QED
  BY <1>2, <1>3, <1>7, <1>8, <1>9 DEF IInv

LEMMA FailsStep ==
    ASSUME IInv, NEW s \in Slot, RelayFails(s)
    PROVE  /\ IInv' /\ Grows
           /\ \E n \in 0..MaxReplicas : \A i \in Replica :
                  /\ engine'[i] # None => engine[i] # None \/ i < n
                  /\ n # 0 /\ i < n => service'[i] # None /\ engine'[i] # None
<1> DEFINE g == relayRun[s]
           h == [RelayIdle EXCEPT !.pc = "error"]
           bound == \E n \in 0..MaxReplicas : \A i \in Replica :
                        /\ engine'[i] # None => engine[i] # None \/ i < n
                        /\ n # 0 /\ i < n => service'[i] # None /\ engine'[i] # None
<1>1. TypeOK /\ g \in RelayRun /\ RunOK(g)
  BY HandType DEF IInv, RunInv
<1>2. /\ service' \in [Replica -> Maybe(Service)]
      /\ ingress' \in [Replica -> Maybe(Address)]
      /\ engine' \in [Replica -> Maybe(Engine)]
      /\ Grows /\ ObjectInv' /\ bound
  <2>1. CASE g.pc = "services"
    <3>1. g.spec \in RelaySpecs /\ engine' = engine
      BY <1>1, <2>1 DEF RunOK, RelayFails, RelayAt
    <3>2. PICK n \in 0..(g.spec.replicas - 1) : ApplyServices(g.spec, n)
      BY <2>1 DEF RelayFails, RelayAt
    <3>3. n \in 0..g.spec.replicas
      BY <3>1, <3>2, SpecType, ReplicasAssumption
    <3>4. /\ service' \in [Replica -> Maybe(Service)]
          /\ ingress' \in [Replica -> Maybe(Address)]
          /\ \A i \in Replica : service[i] # None => service'[i] # None
      BY <1>1, <3>1, <3>2, <3>3, ApplyServicesStep
    <3>5. Grows /\ ObjectInv' /\ engine' \in [Replica -> Maybe(Engine)]
      BY <1>1, <3>1, <3>4 DEF Grows, IInv, ObjectInv, TypeOK
    <3>6. bound
      BY <3>1, ReplicasAssumption
    <3> QED
      BY <3>4, <3>5, <3>6
  <2>2. CASE g.pc \in {"addresses", "applied"}
    <3>1. UNCHANGED relayObjects
      BY <2>2 DEF RelayFails, RelayAt
    <3>2. bound
      BY <3>1, ReplicasAssumption DEF relayObjects
    <3> QED
      BY <1>1, <3>1, <3>2 DEF relayObjects, Grows, IInv, ObjectInv, TypeOK
  <2>3. CASE g.pc = "engines"
    <3>1. g.spec \in RelaySpecs
      BY <1>1, <2>3 DEF RunOK
    <3>2. PICK n \in 0..(g.spec.replicas - 1) : ApplyEnginesOf(g, n)
      BY <2>3 DEF RelayFails, RelayAt
    <3>3. n \in 0..g.spec.replicas /\ n \in 0..MaxReplicas
      BY <3>1, <3>2, SpecType, ReplicasAssumption
    <3>4. /\ service' \in [Replica -> Maybe(Service)]
          /\ ingress' \in [Replica -> Maybe(Address)]
          /\ engine' \in [Replica -> Maybe(Engine)]
          /\ Grows /\ ObjectInv'
          /\ Made(n, service', engine')
          /\ \A i \in Replica : engine'[i] # None => engine[i] # None \/ i < n
      BY <2>3, <3>2, <3>3, EnginesOfStep
    <3>5. bound
      BY <3>3, <3>4 DEF Made
    <3> QED
      BY <3>4, <3>5
  <2> QED
    BY <2>1, <2>2, <2>3 DEF RelayFails, RelayAt
<1>3. h \in RelayRun /\ RunOK(h) /\ h.pc # "applied"
  BY IdleRun
<1>4. SetRelayRun(s, h)
  BY DEF RelayFails
<1>5. relayRun' \in [Slot -> RelayRun] /\ RunInv'
  <2> HIDE DEF h
  <2> QED
    BY <1>2, <1>3, <1>4, RunStep
<1>6. ListInv'
  BY DEF IInv, ListInv, RelayFails
<1>7. TypeOK'
  BY <1>1, <1>2, <1>5 DEF TypeOK, RelayFails
<1> QED
  BY <1>2, <1>5, <1>6, <1>7 DEF IInv

\* A reported list has the type of one.
LEMMA ListType ==
    ASSUME NEW spec \in RelaySpecs, NEW found,
           \A i \in 0..(spec.replicas - 1) : found[i] \in Known
    PROVE  RelayList(spec, found) \in UNION {[0..(n - 1) -> Relay] : n \in 0..MaxReplicas}
<1>1. ASSUME NEW i \in 0..(spec.replicas - 1)
      PROVE  [address |-> found[i], ports |-> Part(spec, i)] \in Relay
  BY PartPorts DEF Relay
<1>2. RelayList(spec, found) \in [0..(spec.replicas - 1) -> Relay]
  BY <1>1 DEF RelayList
<1>3. spec.replicas \in 0..MaxReplicas
  BY SpecType, ReplicasAssumption
<1> QED
  BY <1>2, <1>3

LEMMA PatchStep ==
    ASSUME IInv, NEW s \in Slot, PatchRelay(s)
    PROVE  IInv'
<1> DEFINE g == relayRun[s]
<1>1. TypeOK /\ g \in RelayRun /\ RunOK(g)
  BY HandType DEF IInv, RunInv
<1>2. RelayIdle \in RelayRun /\ RunOK(RelayIdle) /\ RelayIdle.pc # "applied"
  BY DEF RelayIdle, Nothing, RelayRun, RunOK, Maybe
<1>3. SetRelayRun(s, RelayIdle) /\ Grows
  BY DEF PatchRelay, Grows, relayObjects
<1>4. relayRun' \in [Slot -> RelayRun] /\ RunInv'
  BY <1>2, <1>3, RunStep
<1>5. relayHandled' \in Maybe(RelaySpecs)
  BY <1>1 DEF PatchRelay, RelayAt, RunOK, TypeOK, Maybe
<1>6. relayStatus' \in RelayStatus /\ ListInv'
  <2>1. relayStatus \in RelayStatus /\ relayStatus' = PatchedRelay(relayStatus, g)
    BY <1>1 DEF TypeOK, PatchRelay
  <2>2. CASE g.pc = "applied"
    <3>1. relayStatus' = [phase |-> "Applied", relays |-> RelayList(g.spec, g.found)]
      BY <2>1, <2>2 DEF PatchedRelay
    <3>2. /\ g.spec \in RelaySpecs /\ g.found \in [Replica -> Maybe(Known)]
          /\ \A i \in 0..(g.spec.replicas - 1) : g.found[i] \in Known
      BY <1>1, <2>2 DEF RunOK, RelayRun
    <3>3. RelayList(g.spec, g.found)
              \in UNION {[0..(n - 1) -> Relay] : n \in 0..MaxReplicas}
      BY <3>2, ListType
    <3>4. relayStatus' \in RelayStatus
      BY <3>1, <3>3 DEF RelayStatus
    <3>5. relayStatus'.relays = RelayList(g.spec, g.found)
      BY <3>1
    <3>6. \E spec \in RelaySpecs, found \in [Replica -> Maybe(Known)] :
              relayStatus'.relays = RelayList(spec, found)
      BY <3>2, <3>5
    <3> QED
      BY <3>4, <3>6 DEF ListInv
  <2>3. CASE g.pc \in {"waiting", "error"}
    <3>1. relayStatus' \in RelayStatus /\ relayStatus'.relays = relayStatus.relays
      BY <2>1, <2>3 DEF PatchedRelay, RelayStatus
    <3>2. ListInv'
      BY <3>1 DEF IInv, ListInv
    <3> QED
      BY <3>1, <3>2
  <2> QED
    BY <2>2, <2>3 DEF PatchRelay
<1>7. TypeOK'
  BY <1>1, <1>4, <1>5, <1>6 DEF TypeOK, PatchRelay, relayObjects
<1>8. ObjectInv'
  BY DEF IInv, ObjectInv, PatchRelay, relayObjects
<1> QED
  BY <1>4, <1>6, <1>7, <1>8 DEF IInv

LEMMA WorldStep ==
    ASSUME IInv, RelayWorld \/ \E a \in Maybe(Address) : EditProfile(a)
    PROVE  IInv'
<1>1. RunInv' /\ ListInv' /\ ObjectInv'
  BY DEF IInv, RunInv, ListInv, ObjectInv, RelayWorld, EditRelay, EditProfile,
         AssignRelayAddress, relayObjects, relayVars
<1>2. TypeOK
  BY DEF IInv
<1>3. ASSUME NEW spec \in RelaySpecs, EditRelay(spec)
      PROVE  TypeOK'
  BY <1>2, <1>3, BoundAssumption DEF TypeOK, EditRelay, relayObjects
<1>4. ASSUME NEW a \in Maybe(Address), EditProfile(a)
      PROVE  TypeOK'
  BY <1>2, <1>4, BoundAssumption DEF TypeOK, EditProfile, relayVars, relayObjects
<1>5. ASSUME NEW i \in Replica, NEW a \in Address, AssignRelayAddress(i, a)
      PROVE  TypeOK'
  BY <1>2, <1>5, BoundAssumption DEF TypeOK, AssignRelayAddress, Maybe
<1> QED
  BY <1>1, <1>3, <1>4, <1>5 DEF IInv, RelayWorld

LEMMA CrashStep ==
    ASSUME IInv, Crash
    PROVE  IInv'
<1>1. /\ relayRun' = [s \in Slot |-> RelayIdle] /\ relayHandled' = None
      /\ UNCHANGED <<profile, relay, relayStatus, service, ingress, engine, changes>>
  BY DEF Crash, relayObjects
<1>2. RelayIdle \in RelayRun /\ RunOK(RelayIdle) /\ RelayIdle.pc = "idle"
  BY DEF RelayIdle, Nothing, RelayRun, RunOK, Maybe
<1>3. TypeOK'
  BY <1>1, <1>2 DEF IInv, TypeOK, Maybe
<1>4. RunInv'
  <2>1. \A s \in Slot : relayRun'[s] = RelayIdle
    BY <1>1
  <2> QED
    BY <1>2, <2>1 DEF RunInv
<1>5. ListInv' /\ ObjectInv'
  BY <1>1 DEF IInv, ListInv, ObjectInv
<1> QED
  BY <1>3, <1>4, <1>5 DEF IInv

LEMMA NextInv ==
    ASSUME IInv, [RelayNext]_vars
    PROVE  IInv'
<1>1. CASE UNCHANGED vars
  BY <1>1 DEF vars, relayVars, relayObjects, IInv, TypeOK, RunInv, ListInv, ObjectInv
<1>2. ASSUME NEW s \in Slot, RelayTask(s) \/ RelayFails(s)
      PROVE  IInv'
  BY <1>2, BeginStep, ServicesStep, AddressesStep, EnginesStep, FailsStep, PatchStep
     DEF RelayTask
<1> QED
  BY <1>1, <1>2, WorldStep, CrashStep DEF RelayNext

LEMMA Invariance == RelaySpecification => []IInv
<1> QED
  BY InitInv, NextInv, PTL DEF RelaySpecification

\* Every variable keeps its type, for any numbers of replicas, ports and changes and
\* any specs and addresses.
THEOREM TypeCorrect == RelaySpecification => []TypeOK
<1>1. IInv => TypeOK
  BY DEF IInv
<1> QED
  BY <1>1, Invariance, PTL

\* The relays of a status share out the media range of one spec: the range of every
\* spec, for every number of replicas, in every state of the reconciler.
THEOREM PartsAlwaysCover == RelaySpecification => []PartsCover
<1>1. ASSUME IInv PROVE PartsCover
  <2>1. CASE relayStatus.relays = NoRelays
    BY <2>1 DEF PartsCover, Listed, NoRelays
  <2>2. ASSUME NEW spec \in RelaySpecs, NEW found \in [Replica -> Maybe(Known)],
               relayStatus.relays = RelayList(spec, found)
        PROVE  PartsCover
    <3>1. /\ Listed = 0..(spec.replicas - 1)
          /\ \A i \in Listed : PartOf(i) = PortsOf(spec, i)
      BY <2>2 DEF RelayList, Listed, PartOf, PortsOf
    <3>2. /\ \A i \in Listed : PortsOf(spec, i) # {}
          /\ \A i, j \in Listed : i # j => PortsOf(spec, i) \cap PortsOf(spec, j) = {}
          /\ UNION {PortsOf(spec, i) : i \in Listed} = spec.start..spec.end
      BY <3>1, SpecType, PartitionShares
    <3>3. UNION {PartOf(i) : i \in Listed} = UNION {PortsOf(spec, i) : i \in Listed}
      BY <3>1
    <3> QED
      BY <3>1, <3>2, <3>3 DEF PartsCover
  <2> QED
    BY <1>1, <2>1, <2>2 DEF IInv, ListInv
<1> QED
  BY <1>1, Invariance, PTL

-----------------------------------------------------------------------------
(***************************************************************************)
(* The reconciler implements RelayBoard.                                   *)
(***************************************************************************)
LEMMA BoardInitially ==
    ASSUME RelayInit
    PROVE  Board!BoardInit
BY DEF RelayInit, Board!BoardInit, Provisioned, Listed, Nothing, NoRelays

LEMMA BoardReplica == Board!Replica = Replica
BY DEF Board!Replica, Replica

\* The Services alone provision nothing.
LEMMA BoardServices ==
    ASSUME IInv, NEW s \in Slot, ApplyRelayServices(s)
    PROVE  UNCHANGED Board!board
<1>1. Grows /\ engine' = engine /\ relayStatus' = relayStatus
  BY ServicesStep DEF ApplyRelayServices
<1>2. Provisioned' = Provisioned
  BY <1>1 DEF Grows, Provisioned, IInv, ObjectInv
<1> QED
  BY <1>1, <1>2 DEF Board!board, Listed

\* Deployments applied for the first n replicas are one Provision(n).
LEMMA BoardEngines ==
    ASSUME IInv, Grows, NEW n \in 1..MaxReplicas, relayStatus' = relayStatus,
           \A i \in Replica : /\ engine'[i] # None => engine[i] # None \/ i < n
                              /\ i < n => service'[i] # None /\ engine'[i] # None
    PROVE  Board!BoardNext
<1>1. Provisioned' = Provisioned \cup {i \in Replica : i < n}
  BY DEF Provisioned, Grows, IInv, ObjectInv
<1>2. Listed' = Listed
  BY DEF Listed
<1>3. Board!Provision(n)
  BY <1>1, <1>2, BoardReplica DEF Board!Provision, Board!First
<1> QED
  BY <1>3 DEF Board!BoardNext

\* A status is one Report, or says nothing of the list.
LEMMA BoardPatch ==
    ASSUME IInv, NEW s \in Slot, PatchRelay(s)
    PROVE  Board!BoardNext \/ UNCHANGED Board!board
<1> DEFINE g == relayRun[s]
           n == g.spec.replicas
<1>1. Provisioned' = Provisioned
  BY DEF Provisioned, PatchRelay, relayObjects
<1>2. /\ g.pc \in {"applied", "waiting", "error"}
      /\ relayStatus' = PatchedRelay(relayStatus, g) /\ relayStatus \in RelayStatus
  BY DEF PatchRelay, IInv, TypeOK
<1>3. CASE g.pc = "applied"
  <2>1. relayStatus' = [phase |-> "Applied", relays |-> RelayList(g.spec, g.found)]
    BY <1>2, <1>3 DEF PatchedRelay
  <2>2. RunOK(g) /\ Made(n, service, engine)
    BY <1>3 DEF IInv, RunInv
  <2>3. g.spec \in RelaySpecs /\ n \in 1..MaxReplicas /\ MaxReplicas \in Nat
    BY <1>3, <2>2, SpecType, ReplicasAssumption DEF RunOK
  <2>4. Listed' = 0..(n - 1)
    BY <2>1 DEF Listed, RelayList
  <2>5. Listed' = {i \in Replica : i < n}
    BY <2>3, <2>4 DEF Replica
  <2>6. {i \in Replica : i < n} \subseteq Provisioned
    BY <2>2 DEF Made, Provisioned
  <2>7. Board!Report(n)
    BY <1>1, <2>5, <2>6, BoardReplica DEF Board!Report, Board!First
  <2> QED
    BY <2>3, <2>7 DEF Board!BoardNext
<1>4. CASE g.pc \in {"waiting", "error"}
  <2>1. relayStatus'.relays = relayStatus.relays
    BY <1>2, <1>4 DEF PatchedRelay, RelayStatus
  <2> QED
    BY <1>1, <2>1 DEF Board!board, Listed
<1> QED
  BY <1>2, <1>3, <1>4

LEMMA BoardStep ==
    ASSUME IInv, [RelayNext]_vars
    PROVE  [Board!BoardNext]_(Board!board)
<1>1. ASSUME UNCHANGED <<service, engine, relayStatus>>
      PROVE  UNCHANGED Board!board
  BY <1>1 DEF Board!board, Provisioned, Listed
<1>2. CASE UNCHANGED vars
  BY <1>1, <1>2 DEF vars, relayVars, relayObjects
<1>3. CASE Crash \/ RelayWorld \/ \E a \in Maybe(Address) : EditProfile(a)
  BY <1>1, <1>3 DEF Crash, RelayWorld, EditRelay, EditProfile, AssignRelayAddress,
                    relayVars, relayObjects
<1>4. ASSUME NEW s \in Slot, BeginRelay(s) \/ ResolveRelayAddresses(s)
      PROVE  UNCHANGED Board!board
  BY <1>1, <1>4 DEF BeginRelay, ResolveRelayAddresses, relayObjects
<1>5. ASSUME NEW s \in Slot, ApplyEngines(s)
      PROVE  Board!BoardNext
  <2> DEFINE n == relayRun[s].spec.replicas
  <2>1. /\ IInv' /\ Grows /\ relayRun[s].spec \in RelaySpecs
        /\ \A i \in Replica : engine'[i] # None => engine[i] # None \/ i < n
    BY <1>5, EnginesStep
  <2>2. n \in 1..MaxReplicas /\ n \in 0..n
    BY <2>1, SpecType, ReplicasAssumption
  <2>3. Made(n, service', engine') /\ relayStatus' = relayStatus
    BY <1>5, <2>2, EnginesOfStep DEF ApplyEngines, RelayAt
  <2> HIDE DEF n
  <2> QED
    BY <2>1, <2>2, <2>3, BoardEngines DEF Made
<1>6. ASSUME NEW s \in Slot, RelayFails(s)
      PROVE  Board!BoardNext \/ UNCHANGED Board!board
  <2>1. Grows /\ relayStatus' = relayStatus
    BY <1>6, FailsStep DEF RelayFails
  <2>2. PICK n \in 0..MaxReplicas : \A i \in Replica :
            /\ engine'[i] # None => engine[i] # None \/ i < n
            /\ n # 0 /\ i < n => service'[i] # None /\ engine'[i] # None
    BY <1>6, FailsStep
  <2>3. CASE n = 0
    <3>1. \A i \in Replica : ~(i < n)
      BY <2>3, ReplicasAssumption DEF Replica
    <3>2. Provisioned' = Provisioned
      BY <2>1, <2>2, <3>1 DEF Grows, Provisioned, IInv, ObjectInv
    <3> QED
      BY <2>1, <3>2 DEF Board!board, Listed
  <2>4. CASE n # 0
    <3>1. n \in 1..MaxReplicas
      BY <2>4, ReplicasAssumption
    <3> QED
      BY <2>1, <2>2, <2>4, <3>1, BoardEngines
  <2> QED
    BY <2>3, <2>4
<1> QED
  BY <1>2, <1>3, <1>4, <1>5, <1>6, BoardServices, BoardPatch DEF RelayNext, RelayTask

\* Seen through its status and its objects, the reconciler is a RelayBoard, for any
\* numbers of replicas and any specs, however many runs overlap, fail or wait.
THEOREM ImplementsBoard == RelaySpecification => IsRelayBoard
<1> QED
  BY BoardInitially, Invariance, BoardStep, PTL
     DEF RelaySpecification, IsRelayBoard, Board!BoardSpec

-----------------------------------------------------------------------------
(***************************************************************************)
(* What is provided stays as it is.                                        *)
(***************************************************************************)
\* Only the Service of a load balancer has an address of its own.
GivenInv == \A i \in Replica : ingress[i] # None => service[i] # None /\ service[i].lb

LEMMA ServicesGiven ==
    ASSUME TypeOK, GivenInv, NEW spec \in RelaySpecs, NEW n \in 0..spec.replicas,
           ApplyServices(spec, n)
    PROVE  GivenInv'
<1>1. \A i \in Replica : service[i] # None \/ i < n => service'[i] # None
  BY ApplyServicesStep
<1>2. ASSUME NEW i \in Replica, i < n
      PROVE  service'[i].lb = spec.lb /\ (ingress'[i] # None => spec.lb)
  BY <1>2 DEF ApplyServices
<1>3. \A i \in Replica : ~(i < n) => service'[i] = service[i] /\ ingress'[i] = ingress[i]
  BY DEF ApplyServices
<1> QED
  BY <1>1, <1>2, <1>3 DEF GivenInv

LEMMA GivenStep == ASSUME IInv, GivenInv, [RelayNext]_vars PROVE GivenInv'
<1>0. TypeOK
  BY DEF IInv
<1>1. ASSUME NEW s \in Slot, NEW n \in 0..relayRun[s].spec.replicas,
             relayRun[s].pc \in {"services", "engines"}, ApplyServices(relayRun[s].spec, n)
      PROVE  GivenInv'
  <2>1. relayRun[s].spec \in RelaySpecs
    BY <1>1 DEF IInv, RunInv, RunOK
  <2> QED
    BY <1>0, <1>1, <2>1, ServicesGiven
<1>2. ASSUME NEW s \in Slot, ApplyRelayServices(s) \/ ApplyEngines(s)
      PROVE  GivenInv'
  <2>1. /\ relayRun[s].pc \in {"services", "engines"}
        /\ ApplyServices(relayRun[s].spec, relayRun[s].spec.replicas)
    BY <1>2 DEF ApplyRelayServices, ApplyEngines, ApplyEnginesOf, RelayAt
  <2>2. relayRun[s].spec.replicas \in 0..relayRun[s].spec.replicas
    BY <2>1, SpecType, ReplicasAssumption DEF IInv, RunInv, RunOK
  <2> QED
    BY <1>1, <2>1, <2>2
<1>3. ASSUME NEW s \in Slot, RelayFails(s)
      PROVE  GivenInv'
  <2>1. CASE relayRun[s].pc \in {"addresses", "applied"}
    BY <2>1, <1>3 DEF RelayFails, RelayAt, relayObjects, GivenInv
  <2>2. CASE relayRun[s].pc \in {"services", "engines"}
    <3>1. PICK n \in 0..(relayRun[s].spec.replicas - 1) : ApplyServices(relayRun[s].spec, n)
      BY <1>3, <2>2 DEF RelayFails, RelayAt, ApplyEnginesOf
    <3>2. n \in 0..relayRun[s].spec.replicas
      BY <2>2, <3>1, SpecType, ReplicasAssumption DEF IInv, RunInv, RunOK
    <3> QED
      BY <1>1, <2>2, <3>1, <3>2
  <2> QED
    BY <1>3, <2>1, <2>2 DEF RelayFails, RelayAt
<1>4. ASSUME NEW i \in Replica, NEW a \in Address, AssignRelayAddress(i, a)
      PROVE  GivenInv'
  BY <1>0, <1>4 DEF AssignRelayAddress, GivenInv, TypeOK
<1>5. ASSUME UNCHANGED relayObjects
      PROVE  GivenInv'
  BY <1>5 DEF relayObjects, GivenInv
<1>6. ASSUME NEW s \in Slot, BeginRelay(s) \/ ResolveRelayAddresses(s) \/ PatchRelay(s)
      PROVE  GivenInv'
  BY <1>5, <1>6 DEF BeginRelay, ResolveRelayAddresses, PatchRelay
<1>7. ASSUME Crash \/ UNCHANGED vars \/ (\E spec \in RelaySpecs : EditRelay(spec))
                   \/ (\E a \in Maybe(Address) : EditProfile(a))
      PROVE  GivenInv'
  BY <1>5, <1>7 DEF Crash, vars, relayVars, EditRelay, EditProfile
<1> QED
  BY <1>2, <1>3, <1>4, <1>6, <1>7 DEF RelayNext, RelayTask, RelayWorld

LEMMA GivenAlways == RelaySpecification => []GivenInv
<1>1. RelayInit => GivenInv
  BY DEF RelayInit, GivenInv, Nothing
<1>2. GivenInv /\ IInv /\ [RelayNext]_vars => GivenInv'
  BY GivenStep
<1> QED
  BY <1>1, <1>2, Invariance, PTL DEF RelaySpecification

\* Applying again what is applied changes nothing, not even an address that was given.
LEMMA ServicesAgain ==
    ASSUME TypeOK, GivenInv, RelayProvided, NEW n \in 0..relay.replicas,
           ApplyServices(relay, n)
    PROVE  service' = service /\ ingress' = ingress
<1>1. ASSUME NEW i \in Replica, i < n
      PROVE  /\ service[i] = [ports |-> Part(relay, i), lb |-> relay.lb]
             /\ ~relay.lb => ingress[i] = None
  <2>1. i \in RelayWanted
    BY <1>1, SpecType, ReplicasAssumption DEF TypeOK, RelayWanted, Replica
  <2>2. service[i] = [ports |-> Part(relay, i), lb |-> relay.lb]
    BY <2>1 DEF RelayProvided
  <2> QED
    BY <2>2 DEF GivenInv
<1>2. /\ service' = [i \in Replica |-> service[i]]
      /\ ingress' = [i \in Replica |-> ingress[i]]
  BY <1>1 DEF ApplyServices
<1> QED
  BY <1>2 DEF TypeOK

LEMMA EnginesAgain ==
    ASSUME TypeOK, RelayProvided, NEW h, RelayUpToDate(h), h.pc = "engines",
           NEW n \in 0..relay.replicas, ApplyEnginesOf(h, n)
    PROVE  engine' = engine
<1>1. h.spec = relay /\ \A i \in RelayWanted : h.found[i] = AddressNow(i)
  BY DEF RelayUpToDate
<1>2. ASSUME NEW i \in Replica, i < n
      PROVE  engine[i] = [ports |-> Part(h.spec, i), address |-> h.found[i],
                          host |-> h.spec.host]
  <2>1. i \in RelayWanted
    BY <1>2, SpecType, ReplicasAssumption DEF TypeOK, RelayWanted, Replica
  <2> QED
    BY <1>1, <2>1 DEF RelayProvided
<1>3. engine' = [i \in Replica |-> engine[i]]
  BY <1>2 DEF ApplyEnginesOf
<1> QED
  BY <1>3 DEF TypeOK

\* What is provided depends on these, and whether a run is up to date does, too.
Steady == /\ UNCHANGED <<profile, relay, service, ingress, engine>>
          /\ relayStatus'.relays = relayStatus.relays

LEMMA SteadyProvided ==
    ASSUME RelayProvided, Steady
    PROVE  RelayProvided' /\ \A h : RelayUpToDate(h) => RelayUpToDate(h)'
<1>1. RelayWanted' = RelayWanted /\ \A i : AddressNow(i)' = AddressNow(i)
  BY DEF Steady, RelayWanted, AddressNow
<1>2. RelayProvided'
  BY <1>1 DEF Steady, RelayProvided, Listed
<1>3. ASSUME NEW h, RelayUpToDate(h)
      PROVE  RelayUpToDate(h)'
  BY <1>1, <1>3 DEF Steady, RelayUpToDate
<1> QED
  BY <1>2, <1>3

LEMMA SettledBy ==
    ASSUME TypeOK, RelaySettled, Steady, NEW s \in Slot, NEW h, RelayUpToDate(h),
           SetRelayRun(s, h)
    PROVE  RelaySettled'
<1>1. RelayProvided' /\ \A g : RelayUpToDate(g) => RelayUpToDate(g)'
  BY SteadyProvided DEF RelaySettled
<1>2. \A t \in Slot : relayRun'[t] = IF t = s THEN h ELSE relayRun[t]
  BY DEF SetRelayRun, TypeOK
<1>3. \A t \in Slot : RelayUpToDate(relayRun'[t])
  BY <1>2 DEF RelaySettled
<1>4. \A t \in Slot : RelayUpToDate(relayRun[t])'
  BY <1>1, <1>2, <1>3 DEF RelayUpToDate
<1> QED
  BY <1>1, <1>4 DEF RelaySettled

\* A loop that has come to replica n, of a run that is up to date.
LEMMA LoopsSteady ==
    ASSUME TypeOK, GivenInv, RelaySettled, NEW s \in Slot, NEW n \in 0..relay.replicas,
           UNCHANGED <<profile, relay, relayStatus>>,
           \/ /\ relayRun[s].pc = "services" /\ UNCHANGED engine
              /\ ApplyServices(relayRun[s].spec, n)
           \/ relayRun[s].pc = "engines" /\ ApplyEnginesOf(relayRun[s], n)
    PROVE  Steady
<1>1. RelayProvided /\ RelayUpToDate(relayRun[s]) /\ relayRun[s].spec = relay
  BY DEF RelaySettled, RelayUpToDate
<1>2. service' = service /\ ingress' = ingress
  BY <1>1, ServicesAgain DEF ApplyEnginesOf
<1>3. engine' = engine
  BY <1>1, EnginesAgain
<1> QED
  BY <1>2, <1>3 DEF Steady

LEMMA SettledTask ==
    ASSUME IInv, GivenInv, RelaySettled, NEW s \in Slot, RelayTask(s) \/ RelayFails(s)
    PROVE  RelaySettled'
<1> DEFINE g == relayRun[s]
<1>0. /\ TypeOK /\ RelayProvided /\ RelayUpToDate(g) /\ g \in RelayRun
      /\ relay \in RelaySpecs /\ relay.replicas \in Nat
  BY HandType, SpecType, ReplicasAssumption DEF IInv, RelaySettled, TypeOK
<1>1. CASE BeginRelay(s)
  <2> DEFINE h == [RelayIdle EXCEPT !.pc = "services", !.spec = relay]
  <2>1. RelayUpToDate(h)
    BY DEF RelayIdle, RelayUpToDate
  <2>2. Steady /\ SetRelayRun(s, h)
    BY <1>1 DEF BeginRelay, Steady, relayObjects
  <2> HIDE DEF h
  <2> QED
    BY <1>0, <2>1, <2>2, SettledBy
<1>2. CASE ApplyRelayServices(s)
  <2> DEFINE h == [g EXCEPT !.pc = "addresses", !.profile = profile]
  <2>1. g.pc = "services" /\ g.spec = relay
    BY <1>0, <1>2 DEF ApplyRelayServices, RelayAt, RelayUpToDate
  <2>2. RelayUpToDate(h)
    BY <1>0, <2>1 DEF RelayUpToDate, RelayRun
  <2>3. Steady
    BY <1>0, <1>2, <2>1, LoopsSteady DEF ApplyRelayServices
  <2>4. SetRelayRun(s, h)
    BY <1>2 DEF ApplyRelayServices
  <2> HIDE DEF h
  <2> QED
    BY <1>0, <2>2, <2>3, <2>4, SettledBy
<1>3. CASE ResolveRelayAddresses(s)
  <2> DEFINE found == RelayAddresses(g.spec, g.profile, ingress)
             on == [g EXCEPT !.pc = "engines", !.profile = None, !.found = found]
             off == [RelayIdle EXCEPT !.pc = IF g.spec.lb THEN "waiting" ELSE "error"]
  <2>1. g.pc = "addresses" /\ g.spec = relay /\ g.profile = profile
    BY <1>0, <1>3 DEF ResolveRelayAddresses, RelayAt, RelayUpToDate
  <2>2. \A i \in RelayWanted : found[i] = AddressNow(i)
    <3>1. \A i \in RelayWanted : i \in Replica /\ i < relay.replicas
      BY <1>0, SpecType, ReplicasAssumption DEF RelayWanted, Replica
    <3> QED
      BY <2>1, <3>1 DEF RelayAddresses, AddressNow
  <2>3. Steady
    BY <1>3 DEF ResolveRelayAddresses, Steady, relayObjects
  <2> HIDE DEF found
  <2>4. RelayUpToDate(on)
    BY <1>0, <2>1, <2>2 DEF RelayUpToDate, RelayRun
  <2>5. RelayUpToDate(off)
    BY DEF RelayUpToDate, RelayIdle
  <2>6. SetRelayRun(s, on) \/ SetRelayRun(s, off)
    BY <1>3 DEF ResolveRelayAddresses, found
  <2> HIDE DEF on, off
  <2> QED
    BY <1>0, <2>3, <2>4, <2>5, <2>6, SettledBy
<1>4. CASE ApplyEngines(s)
  <2> DEFINE h == [g EXCEPT !.pc = "applied"]
  <2>1. g.pc = "engines" /\ g.spec = relay
    BY <1>0, <1>4 DEF ApplyEngines, RelayAt, RelayUpToDate
  <2>2. RelayUpToDate(h)
    BY <1>0, <2>1 DEF RelayUpToDate, RelayRun
  <2>3. Steady
    BY <1>0, <1>4, <2>1, LoopsSteady DEF ApplyEngines
  <2>4. SetRelayRun(s, h)
    BY <1>4 DEF ApplyEngines
  <2> HIDE DEF h
  <2> QED
    BY <1>0, <2>2, <2>3, <2>4, SettledBy
<1>5. CASE RelayFails(s)
  <2> DEFINE h == [RelayIdle EXCEPT !.pc = "error"]
  <2>1. Steady
    <3>1. CASE g.pc \in {"addresses", "applied"}
      BY <1>5, <3>1 DEF RelayFails, RelayAt, Steady, relayObjects
    <3>2. CASE g.pc \in {"services", "engines"}
      <4>1. g.spec = relay
        BY <1>0, <3>2 DEF RelayUpToDate
      <4>2. PICK n \in 0..(relay.replicas - 1) :
                \/ g.pc = "services" /\ UNCHANGED engine /\ ApplyServices(g.spec, n)
                \/ g.pc = "engines" /\ ApplyEnginesOf(g, n)
        BY <1>5, <3>2, <4>1 DEF RelayFails, RelayAt
      <4>3. n \in 0..relay.replicas
        BY <1>0, <4>2
      <4> QED
        BY <1>0, <1>5, <4>2, <4>3, LoopsSteady DEF RelayFails
    <3> QED
      BY <1>5, <3>1, <3>2 DEF RelayFails, RelayAt
  <2>2. RelayUpToDate(h)
    BY DEF RelayUpToDate, RelayIdle
  <2>3. SetRelayRun(s, h)
    BY <1>5 DEF RelayFails
  <2> HIDE DEF h
  <2> QED
    BY <1>0, <2>1, <2>2, <2>3, SettledBy
<1>6. CASE PatchRelay(s)
  <2>1. relayStatus' = PatchedRelay(relayStatus, g)
    BY <1>6 DEF PatchRelay
  <2>2. relayStatus'.relays = relayStatus.relays
    <3>1. CASE g.pc = "applied"
      <4>1. relayStatus'.relays = RelayList(g.spec, g.found)
        BY <2>1, <3>1 DEF PatchedRelay
      <4>2. g.spec = relay /\ \A i \in RelayWanted : g.found[i] = AddressNow(i)
        BY <1>0, <3>1 DEF RelayUpToDate
      <4>3. RelayList(g.spec, g.found) = [i \in RelayWanted |-> relayStatus.relays[i]]
        BY <1>0, <4>2 DEF RelayList, RelayProvided, RelayWanted
      <4>4. relayStatus.relays = [i \in RelayWanted |-> relayStatus.relays[i]]
        BY <1>0 DEF RelayProvided, Listed, TypeOK, RelayStatus
      <4> QED
        BY <4>1, <4>3, <4>4
    <3>2. CASE g.pc \in {"waiting", "error"}
      BY <1>0, <2>1, <3>2 DEF PatchedRelay, TypeOK, RelayStatus
    <3> QED
      BY <1>6, <3>1, <3>2 DEF PatchRelay
  <2>3. Steady /\ SetRelayRun(s, RelayIdle)
    BY <1>6, <2>2 DEF PatchRelay, Steady, relayObjects
  <2>4. RelayUpToDate(RelayIdle)
    BY DEF RelayUpToDate, RelayIdle
  <2> QED
    BY <1>0, <2>3, <2>4, SettledBy
<1> QED
  BY <1>1, <1>2, <1>3, <1>4, <1>5, <1>6 DEF RelayTask

LEMMA SettledStep ==
    ASSUME IInv, GivenInv, RelaySettled, [RelayNext]_vars
    PROVE  RelaySettled' \/ RelayWorld \/ \E a \in Maybe(Address) : EditProfile(a)
<1>1. CASE Crash
  <2>1. Steady /\ \A s \in Slot : relayRun'[s] = RelayIdle
    BY <1>1 DEF Crash, Steady, relayObjects
  <2>2. RelayProvided'
    BY <2>1, SteadyProvided DEF RelaySettled
  <2>3. \A s \in Slot : RelayUpToDate(relayRun[s])'
    BY <2>1 DEF RelayUpToDate, RelayIdle
  <2> QED
    BY <2>2, <2>3 DEF RelaySettled
<1>2. CASE UNCHANGED vars
  <2>1. Steady /\ relayRun' = relayRun
    BY <1>2 DEF vars, relayVars, relayObjects, Steady
  <2>2. RelayProvided' /\ \A h : RelayUpToDate(h) => RelayUpToDate(h)'
    BY <2>1, SteadyProvided DEF RelaySettled
  <2>3. \A s \in Slot : RelayUpToDate(relayRun[s])'
    BY <2>1, <2>2 DEF RelaySettled, RelayUpToDate
  <2> QED
    BY <2>2, <2>3 DEF RelaySettled
<1> QED
  BY <1>1, <1>2, SettledTask DEF RelayNext

\* Once a relay has what it is to have and no run with an older snapshot is left, its
\* addresses, Services, Deployments and list stay as they are through refreshes,
\* failing loops, error statuses and restarts: only users and load balancers move them.
THEOREM RelaysStayPut == RelaySpecification => RelaysStay
<1>1. IInv /\ GivenInv /\ [RelayNext]_vars =>
          (RelaySettled => \/ RelaySettled' \/ RelayWorld
                           \/ \E a \in Maybe(Address) : EditProfile(a))
  BY SettledStep
<1> QED
  BY <1>1, Invariance, GivenAlways, PTL DEF RelaySpecification, RelaysStay
=============================================================================
