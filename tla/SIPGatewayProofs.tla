--------------------------- MODULE SIPGatewayProofs ---------------------------
(* Machine-checked proofs about SIPGateway, for any numbers of replicas and     *)
(* changes and any specs and addresses: its types, and that a configuration     *)
(* only ever names relays that exist.                                           *)
EXTENDS SIPGateway, TLAPS

-----------------------------------------------------------------------------
(***************************************************************************)
(* The inductive invariant.                                                *)
(***************************************************************************)

\* The promise of the RelayBoard; a relay once provisioned stays.
BoardInv == listed \subseteq provisioned /\ provisioned \subseteq Replica

\* Relays that a run has read from the list: some, and each of them provisioned.
Usable(relays, there) == relays # {} /\ relays \subseteq there

\* What a run holds at each place.
RunOK(h) ==
    /\ h.pc \in {"service", "address", "relays", "config", "workload", "applied"} =>
           h.spec \in GatewaySpecs
    /\ h.pc \in {"relays", "config", "workload", "applied"} =>
           h.external \in Known /\ h.internal \in Known

\* And what it relies on: the relays it has read, the ConfigMap it has applied.
Relies(h, there, cm) ==
    /\ h.pc \in {"config", "workload"} => Usable(h.relays, there)
    /\ h.pc = "workload" => cm # None

RunInv == \A s \in Slot : RunOK(run[s]) /\ Relies(run[s], provisioned, configMap)

IInv == /\ TypeOK /\ BoardInv /\ RunInv /\ RelaysAreServed
        /\ deployment # None => configMap # None

LEMMA SpecType ==
    ASSUME NEW spec \in GatewaySpecs
    PROVE  /\ spec \in GatewaySpec /\ spec.lb \in BOOLEAN
           /\ spec.address \in Maybe(Address) /\ spec.internal \in Maybe(Address)
BY SpecsAssumption DEF GatewaySpec

LEMMA IdleRun ==
    ASSUME NEW pc \in {"idle", "waiting", "error"}
    PROVE  LET h == [Idle EXCEPT !.pc = pc]
           IN h \in Run /\ RunOK(h) /\ h.pc \notin {"config", "workload"}
BY DEF Idle, Run, RunOK, Maybe

\* Relays that were usable stay so, and an applied ConfigMap is there for good.
Keeps == /\ provisioned \subseteq provisioned'
         /\ configMap # None => configMap' # None

LEMMA OthersKeep ==
    ASSUME Keeps, NEW h, Relies(h, provisioned, configMap)
    PROVE  Relies(h, provisioned', configMap')
BY DEF Keeps, Relies, Usable

\* A task that goes on with h, which is in order, leaves the others as they are.
LEMMA RunStep ==
    ASSUME IInv, NEW s \in Slot, NEW h \in Run, RunOK(h), SetRun(s, h), Keeps,
           Relies(h, provisioned', configMap')
    PROVE  run' \in [Slot -> Run] /\ RunInv'
<1>1. run \in [Slot -> Run]
  BY DEF IInv, TypeOK
<1>2. /\ run' \in [Slot -> Run] /\ run'[s] = h
      /\ \A t \in Slot : t # s => run'[t] = run[t]
  BY <1>1 DEF SetRun
<1>3. ASSUME NEW t \in Slot
      PROVE  RunOK(run'[t]) /\ Relies(run'[t], provisioned', configMap')
  <2>1. CASE t = s
    BY <1>2, <2>1
  <2>2. CASE t # s
    <3>1. RunOK(run[t]) /\ Relies(run[t], provisioned, configMap)
      BY DEF IInv, RunInv
    <3>2. run'[t] = run[t]
      BY <1>2, <2>2
    <3> QED
      BY <3>1, <3>2, OthersKeep
  <2> QED
    BY <2>1, <2>2
<1>4. \A t \in Slot : RunOK(run[t])' /\ Relies(run[t], provisioned, configMap)'
  BY <1>3
<1> QED
  BY <1>2, <1>4 DEF RunInv

LEMMA HandType ==
    ASSUME IInv, NEW s \in Slot
    PROVE  /\ TypeOK /\ run[s] \in Run /\ RunOK(run[s])
           /\ Relies(run[s], provisioned, configMap)
BY DEF IInv, TypeOK, RunInv

LEMMA InitInv ==
    ASSUME Init
    PROVE  IInv
<1>1. Idle \in Run /\ RunOK(Idle) /\ Idle.pc = "idle"
  BY DEF Idle, Run, RunOK, Maybe
<1>2. status \in Status
  BY DEF Init, Status, Maybe
<1>3. TypeOK
  BY <1>1, <1>2, BoundAssumption DEF Init, BoardInit, TypeOK, Maybe
<1>4. RunInv
  BY <1>1 DEF Init, RunInv, Relies
<1> QED
  BY <1>3, <1>4 DEF IInv, BoardInv, RelaysAreServed, Init, BoardInit

LEMMA BeginStep ==
    ASSUME IInv, NEW s \in Slot, Begin(s)
    PROVE  IInv'
<1> DEFINE h == [Idle EXCEPT !.pc = "service", !.spec = gateway]
<1>1. TypeOK /\ gateway \in GatewaySpecs /\ gateway \in GatewaySpec
  BY SpecType DEF IInv, TypeOK
<1>2. h \in Run /\ RunOK(h) /\ h.pc = "service"
  BY <1>1 DEF Idle, Run, RunOK, Maybe
<1> HIDE DEF h
<1>3. SetRun(s, h) /\ Keeps /\ Relies(h, provisioned', configMap')
  BY <1>2 DEF Begin, h, Keeps, Relies, objects, world, board
<1>4. run' \in [Slot -> Run] /\ RunInv'
  BY <1>2, <1>3, RunStep
<1> QED
  BY <1>1, <1>4 DEF IInv, TypeOK, BoardInv, RelaysAreServed, Served, Begin, objects, world,
                    board

LEMMA ServiceStep ==
    ASSUME IInv, NEW s \in Slot, ApplyService(s)
    PROVE  IInv'
<1> DEFINE g == run[s]
           h == [g EXCEPT !.pc = "address", !.profile = profile]
<1>1. TypeOK /\ g.pc = "service" /\ g \in Run /\ RunOK(g)
  BY HandType DEF ApplyService, At
<1>2. g.spec \in GatewaySpecs /\ profile \in Maybe(Address)
  BY <1>1 DEF RunOK, TypeOK
<1>3. h \in Run /\ h.pc = "address" /\ h.spec = g.spec
  BY <1>1, <1>2 DEF Run
<1>4. RunOK(h)
  BY <1>2, <1>3 DEF RunOK
<1>5. SetRun(s, h) /\ Keeps
  BY DEF ApplyService, Keeps, world, board
<1> HIDE DEF g, h
<1>6. Relies(h, provisioned', configMap')
  BY <1>3 DEF Relies
<1>7. run' \in [Slot -> Run] /\ RunInv'
  BY <1>3, <1>4, <1>5, <1>6, RunStep
<1>8. service' \in {None, "LoadBalancer", "ClusterIP"} /\ ingress' \in Maybe(Address)
  BY <1>1 DEF ApplyService, TypeOK, Maybe
<1> QED
  BY <1>1, <1>7, <1>8 DEF IInv, TypeOK, BoardInv, RelaysAreServed, Served, ApplyService,
                          world, board

\* What is resolved can be advertised.
LEMMA AddressType ==
    ASSUME NEW spec \in GatewaySpecs, NEW prof \in Maybe(Address),
           NEW given \in Maybe(Address)
    PROVE  External(spec, prof, given) \in Maybe(Known) /\ Internal(spec, given) \in Known
BY SpecType DEF External, Internal, Maybe, Known

LEMMA ResolveStep ==
    ASSUME IInv, NEW s \in Slot, Resolve(s)
    PROVE  IInv'
<1> DEFINE g == run[s]
           external == External(g.spec, g.profile, ingress)
           internal == Internal(g.spec, ingress)
           on == [g EXCEPT !.pc = "relays", !.profile = None, !.external = external,
                           !.internal = internal]
           off == [Idle EXCEPT !.pc = "waiting"]
           h == IF external = None THEN off ELSE on
<1>1. TypeOK /\ g.pc = "address" /\ g \in Run /\ RunOK(g)
  BY HandType DEF Resolve, At
<1>2. g.spec \in GatewaySpecs /\ g.profile \in Maybe(Address) /\ ingress \in Maybe(Address)
  BY <1>1 DEF RunOK, TypeOK, Run
<1>3. external \in Maybe(Known) /\ internal \in Known
  BY <1>2, AddressType
<1>4. SetRun(s, h) /\ Keeps
  BY DEF Resolve, Keeps, world, board, objects
<1> HIDE DEF external, internal
<1>5. h \in Run /\ RunOK(h) /\ h.pc \notin {"config", "workload"}
  <2>1. CASE external = None
    <3>1. h = off
      BY <2>1
    <3> HIDE DEF h
    <3> QED
      BY <3>1, IdleRun
  <2>2. CASE external # None
    <3>1. external \in Known /\ h = on
      BY <1>3, <2>2 DEF Maybe
    <3>2. /\ on \in Run /\ on.pc = "relays" /\ on.spec = g.spec
          /\ on.external = external /\ on.internal = internal
      BY <1>1, <1>3 DEF Run, Maybe
    <3> HIDE DEF on, h
    <3> QED
      BY <1>2, <1>3, <3>1, <3>2 DEF RunOK
  <2> QED
    BY <2>1, <2>2
<1> HIDE DEF g, h
<1>6. Relies(h, provisioned', configMap')
  BY <1>5 DEF Relies
<1>7. run' \in [Slot -> Run] /\ RunInv'
  BY <1>4, <1>5, <1>6, RunStep
<1> QED
  BY <1>1, <1>7 DEF IInv, TypeOK, BoardInv, RelaysAreServed, Served, Resolve, objects, world,
                    board

\* The list is read: what it names is provisioned, and will be when it is used.
LEMMA RelaysStep ==
    ASSUME IInv, NEW s \in Slot, ReadRelays(s)
    PROVE  IInv'
<1> DEFINE g == run[s]
           on == [g EXCEPT !.pc = "config", !.relays = listed]
           off == [Idle EXCEPT !.pc = "error"]
           h == IF listed = {} THEN off ELSE on
<1>1. TypeOK /\ g.pc = "relays" /\ g \in Run /\ RunOK(g) /\ BoardInv
  BY HandType DEF ReadRelays, At, IInv
<1>2. /\ SetRun(s, h) /\ Keeps
      /\ provisioned' = provisioned /\ configMap' = configMap
  BY DEF ReadRelays, Keeps, world, board, objects
<1>3. h \in Run /\ RunOK(h) /\ Relies(h, provisioned, configMap)
  <2>1. CASE listed = {}
    <3>1. h = off
      BY <2>1
    <3> HIDE DEF h
    <3> QED
      BY <3>1, IdleRun DEF Relies
  <2>2. CASE listed # {}
    <3>1. h = on
      BY <2>2
    <3>2. /\ on \in Run /\ on.pc = "config" /\ on.spec = g.spec /\ on.relays = listed
          /\ on.external = g.external /\ on.internal = g.internal
      BY <1>1 DEF Run, TypeOK
    <3> HIDE DEF on, h
    <3> QED
      BY <1>1, <2>2, <3>1, <3>2 DEF RunOK, Relies, Usable, BoardInv
  <2> QED
    BY <2>1, <2>2
<1> HIDE DEF g, h
<1>4. run' \in [Slot -> Run] /\ RunInv'
  BY <1>2, <1>3, RunStep
<1> QED
  BY <1>1, <1>4 DEF IInv, TypeOK, BoardInv, RelaysAreServed, Served, ReadRelays, objects, world,
                    board

\* What is rendered is a configuration that is served.
LEMMA RenderedServed ==
    ASSUME NEW h \in Run, RunOK(h), h.pc \in {"config", "workload"},
           Usable(h.relays, provisioned)
    PROVE  Rendered(h) \in Config /\ Rendered(h) # None /\ Served(Rendered(h))
<1>1. h.external \in Known /\ h.internal \in Known /\ h.relays \in SUBSET Replica
  BY DEF RunOK, Run
<1>2. Rendered(h) \in Config
  BY <1>1 DEF Rendered, Config
<1>3. Rendered(h).relays = h.relays
  BY DEF Rendered
<1> QED
  BY <1>2, <1>3, ObjectAssumption DEF Served, Usable

LEMMA ConfigStep ==
    ASSUME IInv, NEW s \in Slot, ApplyConfigMap(s)
    PROVE  IInv'
<1> DEFINE g == run[s]
           h == [g EXCEPT !.pc = "workload"]
<1>1. /\ TypeOK /\ g.pc = "config" /\ g \in Run /\ RunOK(g)
      /\ Usable(g.relays, provisioned)
  BY HandType DEF ApplyConfigMap, At, Relies
<1>2. configMap' \in Config /\ configMap' # None /\ Served(configMap')
  <2>1. configMap' = Rendered(g)
    BY DEF ApplyConfigMap
  <2> HIDE DEF g
  <2> QED
    BY <1>1, <2>1, RenderedServed
<1>3. SetRun(s, h) /\ Keeps /\ provisioned' = provisioned
  BY <1>2 DEF ApplyConfigMap, Keeps, world, board
<1>4. /\ h \in Run /\ h.pc = "workload" /\ h.spec = g.spec /\ h.relays = g.relays
      /\ h.external = g.external /\ h.internal = g.internal
  BY <1>1 DEF Run
<1> HIDE DEF g, h
<1>5. RunOK(h) /\ Relies(h, provisioned', configMap')
  BY <1>1, <1>2, <1>3, <1>4 DEF RunOK, Relies
<1>6. run' \in [Slot -> Run] /\ RunInv'
  BY <1>3, <1>4, <1>5, RunStep
<1>7. UNCHANGED <<world, handled, status, service, ingress, deployment, pods, changes>>
  BY DEF ApplyConfigMap
<1>8. RelaysAreServed' /\ BoardInv' /\ (deployment # None => configMap # None)'
  BY <1>2, <1>7 DEF IInv, RelaysAreServed, Served, BoardInv, world, board
<1>9. TypeOK'
  BY <1>1, <1>2, <1>6, <1>7 DEF TypeOK, Maybe, world, board
<1> QED
  BY <1>6, <1>8, <1>9 DEF IInv

LEMMA DeploymentStep ==
    ASSUME IInv, NEW s \in Slot, ApplyDeployment(s)
    PROVE  IInv'
<1> DEFINE g == run[s]
           h == [g EXCEPT !.pc = "applied", !.relays = {}]
<1>1. /\ TypeOK /\ g.pc = "workload" /\ g \in Run /\ RunOK(g)
      /\ Usable(g.relays, provisioned) /\ configMap # None
  BY HandType DEF ApplyDeployment, At, Relies
<1>2. deployment' \in Config /\ Served(deployment')
  <2>1. deployment' = Rendered(g)
    BY DEF ApplyDeployment
  <2> HIDE DEF g
  <2> QED
    BY <1>1, <2>1, RenderedServed
<1>3. SetRun(s, h) /\ Keeps
  BY DEF ApplyDeployment, Keeps, world, board
<1>4. /\ h \in Run /\ h.pc = "applied" /\ h.spec = g.spec
      /\ h.external = g.external /\ h.internal = g.internal
  BY <1>1 DEF Run
<1>5. service' \in {None, "LoadBalancer", "ClusterIP"} /\ ingress' \in Maybe(Address)
  BY <1>1 DEF ApplyDeployment, TypeOK, Maybe
<1> HIDE DEF g, h
<1>6. RunOK(h) /\ Relies(h, provisioned', configMap')
  BY <1>1, <1>4 DEF RunOK, Relies
<1>7. run' \in [Slot -> Run] /\ RunInv'
  BY <1>3, <1>4, <1>6, RunStep
<1>8. UNCHANGED <<world, handled, status, configMap, pods, changes>>
  BY DEF ApplyDeployment
<1>9. RelaysAreServed' /\ BoardInv' /\ (deployment # None => configMap # None)'
  BY <1>1, <1>2, <1>8 DEF IInv, RelaysAreServed, Served, BoardInv, world, board
<1>10. TypeOK'
  BY <1>1, <1>2, <1>5, <1>7, <1>8 DEF TypeOK, Maybe, world, board
<1> QED
  BY <1>7, <1>9, <1>10 DEF IInv

LEMMA FailsStep ==
    ASSUME IInv, NEW s \in Slot, Fails(s)
    PROVE  IInv'
<1> DEFINE h == [Idle EXCEPT !.pc = "error"]
<1>1. h \in Run /\ RunOK(h) /\ h.pc \notin {"config", "workload"}
  BY IdleRun
<1>2. SetRun(s, h) /\ Keeps
  BY DEF Fails, Keeps, world, board, objects
<1> HIDE DEF h
<1>3. run' \in [Slot -> Run] /\ RunInv'
  BY <1>1, <1>2, RunStep DEF Relies
<1> QED
  BY <1>3 DEF IInv, TypeOK, BoardInv, RelaysAreServed, Served, Fails, objects, world, board

LEMMA PatchStep ==
    ASSUME IInv, NEW s \in Slot, Patch(s)
    PROVE  IInv'
<1> DEFINE g == run[s]
<1>1. TypeOK /\ g \in Run /\ RunOK(g)
  BY HandType
<1>2. Idle \in Run /\ RunOK(Idle) /\ Idle.pc = "idle"
  BY DEF Idle, Run, RunOK, Maybe
<1>3. SetRun(s, Idle) /\ Keeps
  BY DEF Patch, Keeps, world, board, objects
<1>4. run' \in [Slot -> Run] /\ RunInv'
  BY <1>2, <1>3, RunStep DEF Relies
<1>5. handled' \in Maybe(GatewaySpecs)
  BY <1>1 DEF Patch, At, RunOK, TypeOK, Maybe
<1>6. status' \in Status
  <2>1. status' = Patched(status, g) /\ status \in Status
    BY <1>1 DEF Patch, TypeOK
  <2>2. CASE g.pc = "applied"
    BY <1>1, <2>1, <2>2 DEF Patched, Status, RunOK, Maybe
  <2>3. CASE g.pc \in {"waiting", "error"}
    BY <2>1, <2>3 DEF Patched, Status
  <2> QED
    BY <2>2, <2>3 DEF Patch
<1> QED
  BY <1>1, <1>4, <1>5, <1>6 DEF IInv, TypeOK, BoardInv, RelaysAreServed, Served, Patch, objects,
                                world, board

\* A pod is started with a configuration that is there, and served.
LEMMA RollStep ==
    ASSUME IInv, Roll
    PROVE  IInv'
<1>1. /\ deployment \in Config /\ Served(deployment)
      /\ configMap \in Config /\ Served(configMap)
  BY DEF IInv, TypeOK, Maybe, RelaysAreServed, Roll
<1>2. /\ pods' = [hash |-> deployment, config |-> configMap]
      /\ UNCHANGED <<world, handled, run, status, objects, changes>>
  BY DEF Roll
<1>3. pods' \in Pods /\ pods'.hash = deployment /\ pods'.config = configMap
  BY <1>1, <1>2 DEF Pods
<1>4. RelaysAreServed'
  BY <1>1, <1>2, <1>3 DEF IInv, RelaysAreServed, Served, world, board, objects
<1>5. TypeOK'
  BY <1>2, <1>3 DEF IInv, TypeOK, Maybe, world, board, objects
<1>6. RunInv' /\ BoardInv'
  BY <1>2 DEF IInv, RunInv, BoardInv, world, board, objects
<1> QED
  BY <1>2, <1>4, <1>5, <1>6 DEF IInv, objects

\* Relays are added, and others listed; what was served still is.
LEMMA RelayStepInv ==
    ASSUME IInv, RelayStep
    PROVE  IInv'
<1>1. /\ provisioned \subseteq provisioned' /\ BoardInv'
  BY DEF RelayStep, BoardNext, Provision, Report, First, IInv, BoardInv
<1>2. UNCHANGED <<profile, gateway, handled, run, status, objects, pods>>
  BY DEF RelayStep
<1>3. changes' \in 0..MaxChanges
  BY BoundAssumption DEF RelayStep, IInv, TypeOK
<1>4. RunInv'
  <2>1. Keeps
    BY <1>1, <1>2 DEF Keeps, objects
  <2>2. ASSUME NEW t \in Slot
        PROVE  RunOK(run'[t]) /\ Relies(run'[t], provisioned', configMap')
    BY <1>2, <2>1, OthersKeep DEF IInv, RunInv
  <2>3. \A t \in Slot : RunOK(run[t])' /\ Relies(run[t], provisioned, configMap)'
    BY <2>2
  <2> QED
    BY <2>3 DEF RunInv
<1>5. RelaysAreServed'
  BY <1>1, <1>2 DEF IInv, RelaysAreServed, Served, objects
<1>6. TypeOK'
  BY <1>1, <1>2, <1>3 DEF IInv, TypeOK, BoardInv, objects
<1> QED
  BY <1>1, <1>2, <1>4, <1>5, <1>6 DEF IInv, objects

LEMMA EnvironmentStep ==
    ASSUME IInv, Environment
    PROVE  IInv'
<1>1. ASSUME NEW spec \in GatewaySpecs, EditGateway(spec)
      PROVE  IInv'
  BY <1>1, BoundAssumption DEF EditGateway, IInv, TypeOK, BoardInv, RunInv, RelaysAreServed,
                               Served, objects, board
<1>2. ASSUME NEW a \in Maybe(Address), EditProfile(a)
      PROVE  IInv'
  BY <1>2, BoundAssumption DEF EditProfile, IInv, TypeOK, BoardInv, RunInv, RelaysAreServed,
                               Served, objects, board
<1>3. ASSUME NEW a \in Address, AssignAddress(a)
      PROVE  IInv'
  BY <1>3, BoundAssumption DEF AssignAddress, IInv, TypeOK, BoardInv, RunInv,
                               RelaysAreServed, Served, Maybe, world, board
<1> QED
  BY <1>1, <1>2, <1>3, RelayStepInv DEF Environment

LEMMA NextInv ==
    ASSUME IInv, [Next]_vars
    PROVE  IInv'
<1>1. CASE UNCHANGED vars
  BY <1>1 DEF vars, world, board, objects, IInv, TypeOK, BoardInv, RunInv, RelaysAreServed,
              Served
<1>2. ASSUME NEW s \in Slot, Task(s) \/ Fails(s)
      PROVE  IInv'
  BY <1>2, BeginStep, ServiceStep, ResolveStep, RelaysStep, ConfigStep, DeploymentStep,
     FailsStep, PatchStep DEF Task
<1> QED
  BY <1>1, <1>2, EnvironmentStep, RollStep DEF Next

LEMMA Invariance == Spec => []IInv
<1> QED
  BY InitInv, NextInv, PTL DEF Spec

\* Every variable keeps its type, for any numbers of replicas and changes and any
\* specs and addresses.
THEOREM TypeCorrect == Spec => []TypeOK
<1>1. IInv => TypeOK
  BY DEF IInv
<1> QED
  BY <1>1, Invariance, PTL

\* Every configuration that is stored, rolled out or mounted names relays, and only
\* relays that exist, though a run renders from a list it has read some calls ago.
THEOREM AlwaysServed == Spec => []RelaysAreServed
<1>1. IInv => RelaysAreServed
  BY DEF IInv
<1> QED
  BY <1>1, Invariance, PTL

-----------------------------------------------------------------------------
(***************************************************************************)
(* What is rolled out stays as it is.                                      *)
(***************************************************************************)
\* Only the Service of a load balancer has an address of its own.
GivenInv == service # "LoadBalancer" => ingress = None

LEMMA GivenStep == ASSUME TypeOK, GivenInv, [Next]_vars PROVE GivenInv'
<1>1. ASSUME NEW s \in Slot, Task(s) \/ Fails(s)
      PROVE  GivenInv'
  BY <1>1 DEF Task, Begin, ApplyService, Resolve, ReadRelays, ApplyConfigMap, ApplyDeployment,
     Patch, Fails, GivenInv, objects
<1>2. CASE Environment
  BY <1>2 DEF Environment, EditGateway, EditProfile, AssignAddress, RelayStep, GivenInv, objects
<1>3. CASE Roll \/ UNCHANGED vars
  BY <1>3 DEF Roll, vars, objects, GivenInv
<1> QED
  BY <1>1, <1>2, <1>3 DEF Next

LEMMA GivenAlways == Spec => []GivenInv
<1>1. Init => GivenInv
  BY DEF Init, GivenInv
<1>2. GivenInv /\ TypeOK /\ [Next]_vars => GivenInv'
  BY GivenStep
<1> QED
  BY <1>1, <1>2, TypeCorrect, PTL DEF Spec

\* What is rolled out, and what a run has to agree with.
Steady == /\ UNCHANGED <<gateway, profile, listed, service, ingress, configMap, deployment, pods>>
          /\ status'.external = status.external /\ status'.internal = status.internal

LEMMA SettledBy ==
    ASSUME TypeOK, Settled, Steady,
           \A s \in Slot : UpToDate(run'[s])
    PROVE  Settled'
<1>1. Wanted' = Wanted
  BY DEF Steady, Wanted, ExternalNow
<1>2. \A s \in Slot : UpToDate(run[s])'
  BY <1>1 DEF Steady, UpToDate
<1> QED
  BY <1>1, <1>2 DEF Settled, Steady

\* The same, when task s goes on with h.
LEMMA SettledOn ==
    ASSUME TypeOK, Settled, Steady, NEW s \in Slot, NEW h, UpToDate(h), SetRun(s, h)
    PROVE  Settled'
<1>1. \A t \in Slot : run'[t] = IF t = s THEN h ELSE run[t]
  BY DEF SetRun, TypeOK
<1>2. \A t \in Slot : UpToDate(run'[t])
  BY <1>1 DEF Settled
<1> QED
  BY <1>2, SettledBy

\* The runs that have nothing in hand are up to date.
LEMMA IdleUpToDate ==
    ASSUME NEW pc \in {"idle", "waiting", "error"}
    PROVE  UpToDate([Idle EXCEPT !.pc = pc])
BY DEF Idle, UpToDate

LEMMA SettledTask ==
    ASSUME TypeOK, GivenInv, Settled, NEW s \in Slot, Task(s) \/ Fails(s)
    PROVE  Settled'
<1> DEFINE g == run[s]
<1>0. UpToDate(g) /\ g \in Run
  BY DEF Settled, TypeOK
<1>1. CASE Begin(s)
  <2> DEFINE h == [Idle EXCEPT !.pc = "service", !.spec = gateway]
  <2>1. UpToDate(h)
    BY DEF Idle, UpToDate
  <2>2. Steady /\ SetRun(s, h)
    BY <1>1 DEF Begin, Steady, world, board, objects
  <2> HIDE DEF h
  <2> QED
    BY <2>1, <2>2, SettledOn
<1>2. CASE ApplyService(s)
  <2> DEFINE h == [g EXCEPT !.pc = "address", !.profile = profile]
  <2>1. g.pc = "service" /\ g.spec = gateway
    BY <1>0, <1>2 DEF ApplyService, At, UpToDate
  <2>2. UpToDate(h)
    BY <1>0, <2>1 DEF UpToDate, Run
  <2>3. Steady
    BY <1>2, <2>1 DEF ApplyService, Settled, GivenInv, Steady, world, board
  <2>4. SetRun(s, h)
    BY <1>2 DEF ApplyService
  <2> HIDE DEF h
  <2> QED
    BY <2>2, <2>3, <2>4, SettledOn
<1>3. CASE Resolve(s)
  <2> DEFINE external == External(g.spec, g.profile, ingress)
             internal == Internal(g.spec, ingress)
             on == [g EXCEPT !.pc = "relays", !.profile = None, !.external = external,
                             !.internal = internal]
             off == [Idle EXCEPT !.pc = "waiting"]
  <2>1. g.pc = "address" /\ g.spec = gateway /\ g.profile = profile
    BY <1>0, <1>3 DEF Resolve, At, UpToDate
  <2>2. external = Wanted.external /\ internal = Wanted.internal
    BY <2>1 DEF Wanted, ExternalNow
  <2> HIDE DEF external, internal
  <2>3. UpToDate(on)
    BY <1>0, <2>1, <2>2 DEF UpToDate, Run
  <2>4. UpToDate(off)
    BY IdleUpToDate
  <2>5. SetRun(s, on) \/ SetRun(s, off)
    BY <1>3 DEF Resolve, external, internal
  <2>6. Steady
    BY <1>3 DEF Resolve, Steady, world, board, objects
  <2> HIDE DEF on, off
  <2> QED
    BY <2>3, <2>4, <2>5, <2>6, SettledOn
<1>4. CASE ReadRelays(s)
  <2> DEFINE on == [g EXCEPT !.pc = "config", !.relays = listed]
             off == [Idle EXCEPT !.pc = "error"]
  <2>1. g.pc = "relays"
    BY <1>4 DEF ReadRelays, At
  <2>2. UpToDate(on)
    BY <1>0, <2>1 DEF UpToDate, Run
  <2>3. UpToDate(off)
    BY IdleUpToDate
  <2>4. SetRun(s, on) \/ SetRun(s, off)
    BY <1>4 DEF ReadRelays
  <2>5. Steady
    BY <1>4 DEF ReadRelays, Steady, world, board, objects
  <2> HIDE DEF on, off
  <2> QED
    BY <2>2, <2>3, <2>4, <2>5, SettledOn
<1>5. CASE ApplyConfigMap(s)
  <2> DEFINE h == [g EXCEPT !.pc = "workload"]
  <2>1. g.pc = "config"
    BY <1>5 DEF ApplyConfigMap, At
  <2>2. Rendered(g) = Wanted
    BY <1>0, <2>1 DEF UpToDate, Rendered, Wanted
  <2>3. UpToDate(h)
    BY <1>0, <2>1 DEF UpToDate, Run
  <2>4. Steady /\ SetRun(s, h)
    BY <1>5, <2>2 DEF ApplyConfigMap, Settled, Steady, world, board
  <2> HIDE DEF h
  <2> QED
    BY <2>3, <2>4, SettledOn
<1>6. CASE ApplyDeployment(s)
  <2> DEFINE h == [g EXCEPT !.pc = "applied", !.relays = {}]
  <2>1. g.pc = "workload" /\ g.spec = gateway
    BY <1>0, <1>6 DEF ApplyDeployment, At, UpToDate
  <2>2. Rendered(g) = Wanted
    BY <1>0, <2>1 DEF UpToDate, Rendered, Wanted
  <2>3. UpToDate(h)
    BY <1>0, <2>1 DEF UpToDate, Run
  <2>4. Steady
    BY <1>6, <2>1, <2>2 DEF ApplyDeployment, Settled, GivenInv, Steady, world, board
  <2>5. SetRun(s, h)
    BY <1>6 DEF ApplyDeployment
  <2> HIDE DEF h
  <2> QED
    BY <2>3, <2>4, <2>5, SettledOn
<1>7. CASE Fails(s)
  <2> DEFINE h == [Idle EXCEPT !.pc = "error"]
  <2>1. UpToDate(h)
    BY IdleUpToDate
  <2>2. Steady /\ SetRun(s, h)
    BY <1>7 DEF Fails, Steady, world, board, objects
  <2> HIDE DEF h
  <2> QED
    BY <2>1, <2>2, SettledOn
<1>8. CASE Patch(s)
  <2>1. status' = Patched(status, g) /\ g.pc \in {"applied", "waiting", "error"}
    BY <1>8 DEF Patch
  <2>2. status'.external = status.external /\ status'.internal = status.internal
    BY <1>0, <2>1 DEF Patched, UpToDate, Settled, TypeOK, Status
  <2>3. UpToDate(Idle)
    BY DEF Idle, UpToDate
  <2>4. Steady /\ SetRun(s, Idle)
    BY <1>8, <2>2 DEF Patch, Steady, world, board, objects
  <2> QED
    BY <2>3, <2>4, SettledOn
<1> QED
  BY <1>1, <1>2, <1>3, <1>4, <1>5, <1>6, <1>7, <1>8 DEF Task

LEMMA SettledStep ==
    ASSUME TypeOK, GivenInv, Settled, [Next]_vars
    PROVE  Settled' \/ Environment
<1>1. CASE Roll
  <2>1. Steady /\ run' = run
    BY <1>1 DEF Roll, Settled, world, board, objects, Steady
  <2> QED
    BY <2>1, SettledBy DEF Settled
<1>2. CASE UNCHANGED vars
  <2>1. Steady /\ run' = run
    BY <1>2 DEF vars, world, board, objects, Steady
  <2> QED
    BY <2>1, SettledBy DEF Settled
<1> QED
  BY <1>1, <1>2, SettledTask DEF Next

\* Once the pods of a gateway run what is wanted and no run with an older snapshot is
\* left, its Service, address, configuration, pods and the addresses of its status stay
\* through refreshes and failures: no pod is started again without an edit, another
\* address or another list of relays.
THEOREM GatewayStaysPut == Spec => GatewayStays
<1>1. TypeOK /\ GivenInv /\ [Next]_vars => (Settled => Settled' \/ Environment)
  BY SettledStep
<1> QED
  BY <1>1, TypeCorrect, GivenAlways, PTL DEF Spec, GatewayStays
=============================================================================
