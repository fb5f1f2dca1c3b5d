------------------------------ MODULE SIPGateway ------------------------------
(***************************************************************************)
(* The reconciler of a SIPGateway, composed with a RelayBoard: Service,    *)
(* ConfigMap with kamailio.cfg, and Deployment with the hash of that       *)
(* configuration, by which Kubernetes rolls the Kamailio pods.             *)
(*                                                                         *)
(* The change handlers and the 30 s timer run reconcile_gateway at the     *)
(* same time.  What a run renders it has read over several API calls, and  *)
(* the ConfigMap and the Deployment are two more.                          *)
(*                                                                         *)
(* A configuration is abstracted to what it is rendered from: the two      *)
(* addresses and the relay endpoints.  Its hash stands for itself.         *)
(***************************************************************************)
EXTENDS RelayBoard

CONSTANTS
    Address,      \* addresses that are configured or that a load balancer assigns
    Dns,          \* the cluster-local name of the gateway's Service
    None,         \* no address, no object
    GatewaySpecs, \* the SIPGateway specs users apply
    MaxChanges    \* bound on edits, address and relay changes

Maybe(S) == S \cup {None}
Known == Address \cup {Dns}
GatewaySpec == [address : Maybe(Address), internal : Maybe(Address), lb : BOOLEAN]

ASSUME AddressAssumption == None \notin Known /\ Dns \notin Address
ASSUME SpecsAssumption == GatewaySpecs \subseteq GatewaySpec /\ GatewaySpecs # {}
ASSUME BoundAssumption == MaxChanges \in Nat /\ MaxReplicas \in Nat

VARIABLES
    profile,    \* externalAddress of the NetworkProfile, None: of the Service
    gateway,    \* spec of the SIPGateway
    handled,    \* spec the change handlers last finished with
    run,        \* run[s]: what the change or the timer task is doing
    status,     \* its status subresource
    service,    \* the gateway's Service: its type, None if it is not applied
    ingress,    \* address the load balancer gave it
    configMap,  \* the configuration in the ConfigMap
    deployment, \* the configuration whose hash the Deployment carries
    pods,       \* the Kamailio pods: hash of their template, mounted configuration
    changes     \* edits and changes so far

objects == <<service, ingress, configMap, deployment>>
world == <<profile, gateway, board>>
vars == <<world, handled, run, status, objects, pods, changes>>

Slot == {"change", "timer"}
Config == [external : Known, internal : Known, relays : SUBSET Replica]
Pods == [hash : Config, config : Config]
Status == [phase : {"None", "Ready", "Reconciling", "Waiting", "Error"},
           external : Maybe(Known), internal : Maybe(Known)]
Run == [pc : {"idle", "service", "address", "relays", "config", "workload", "applied",
              "waiting", "error"},
        spec : Maybe(GatewaySpec), profile : Maybe(Address),
        external : Maybe(Known), internal : Maybe(Known), relays : SUBSET Replica]

ASSUME ObjectAssumption == None \notin Config

Idle == [pc |-> "idle", spec |-> None, profile |-> None,
         external |-> None, internal |-> None, relays |-> {}]

-----------------------------------------------------------------------------
\* resolve_external_address without a replica, and the fall back of a ClusterIP
\* Service on its own name.
External(spec, prof, serviceAddress) ==
    IF spec.address # None THEN spec.address
    ELSE IF prof # None THEN prof
    ELSE IF serviceAddress # None THEN serviceAddress
    ELSE IF spec.lb THEN None ELSE Dns

\* Variant: without the fall back on the name of the Service.
InternalOfService(spec, serviceAddress) ==
    IF spec.internal # None THEN spec.internal ELSE serviceAddress

Internal(spec, serviceAddress) ==
    IF spec.internal # None THEN spec.internal
    ELSE IF serviceAddress # None THEN serviceAddress
    ELSE Dns

Rendered(h) == [external |-> h.external, internal |-> h.internal, relays |-> h.relays]

Init ==
    /\ BoardInit
    /\ profile \in Maybe(Address)
    /\ gateway \in GatewaySpecs
    /\ handled = None
    /\ run = [s \in Slot |-> Idle]
    /\ status = [phase |-> "None", external |-> None, internal |-> None]
    /\ service = None
    /\ ingress = None
    /\ configMap = None
    /\ deployment = None
    /\ pods = None
    /\ changes = 0

At(s, pc) == run[s].pc = pc
SetRun(s, h) == run' = [run EXCEPT ![s] = h]

(***************************************************************************)
(* Users, the MediaRelay, the load balancer and the Deployment controller. *)
(***************************************************************************)
EditGateway(spec) ==
    /\ changes < MaxChanges
    /\ gateway # spec
    /\ gateway' = spec
    /\ changes' = changes + 1
    /\ UNCHANGED <<profile, board, handled, run, status, objects, pods>>

EditProfile(a) ==
    /\ changes < MaxChanges
    /\ profile # a
    /\ profile' = a
    /\ changes' = changes + 1
    /\ UNCHANGED <<gateway, board, handled, run, status, objects, pods>>

\* A step of the relays; a list that replaces another counts as a change.
RelayStep ==
    /\ BoardNext
    /\ changes' = IF listed' # listed /\ listed # {} THEN changes + 1 ELSE changes
    /\ changes' <= MaxChanges
    /\ UNCHANGED <<profile, gateway, handled, run, status, objects, pods>>

\* The first address of the Service comes at no cost of the bound.
AssignAddress(a) ==
    /\ service = "LoadBalancer"
    /\ ingress # a
    /\ changes' = IF ingress = None THEN changes ELSE changes + 1
    /\ changes' <= MaxChanges
    /\ ingress' = a
    /\ UNCHANGED <<world, handled, run, status, service, configMap, deployment, pods>>

\* A template with another hash replaces the pods; a pod mounts kamailio.cfg by
\* subPath when it starts, and never sees a later ConfigMap.
Roll ==
    /\ deployment # None
    /\ IF pods = None THEN TRUE ELSE pods.hash # deployment
    /\ pods' = [hash |-> deployment, config |-> configMap]
    /\ UNCHANGED <<world, handled, run, status, objects, changes>>

-----------------------------------------------------------------------------
(***************************************************************************)
(* reconcile_gateway, in task s.                                           *)
(***************************************************************************)
\* Variant: the timer too runs only for a spec that is not handled yet.
BeginUnhandled(s) ==
    /\ At(s, "idle")
    /\ gateway # handled
    /\ SetRun(s, [Idle EXCEPT !.pc = "service", !.spec = gateway])
    /\ UNCHANGED <<world, handled, status, objects, pods, changes>>

Begin(s) ==
    /\ At(s, "idle")
    /\ s = "change" => gateway # handled
    /\ SetRun(s, [Idle EXCEPT !.pc = "service", !.spec = gateway])
    /\ UNCHANGED <<world, handled, status, objects, pods, changes>>

\* Variant: the Service is replaced instead of patched, and gets its address anew.
ApplyServiceAnew(s) ==
    LET h == run[s] IN
    /\ At(s, "service")
    /\ service' = IF h.spec.lb THEN "LoadBalancer" ELSE "ClusterIP"
    /\ ingress' = None
    /\ SetRun(s, [h EXCEPT !.pc = "address", !.profile = profile])
    /\ UNCHANGED <<world, handled, status, configMap, deployment, pods, changes>>

\* The profile is read and the Service applied; one that stops being a
\* LoadBalancer loses its address.
ApplyService(s) ==
    LET h == run[s] IN
    /\ At(s, "service")
    /\ service' = IF h.spec.lb THEN "LoadBalancer" ELSE "ClusterIP"
    /\ ingress' = IF h.spec.lb THEN ingress ELSE None
    /\ SetRun(s, [h EXCEPT !.pc = "address", !.profile = profile])
    /\ UNCHANGED <<world, handled, status, configMap, deployment, pods, changes>>

Resolve(s) ==
    LET h == run[s]
        external == External(h.spec, h.profile, ingress)
    IN
    /\ At(s, "address")
    /\ SetRun(s, IF external = None THEN [Idle EXCEPT !.pc = "waiting"]
                 ELSE [h EXCEPT !.pc = "relays", !.profile = None, !.external = external,
                                !.internal = Internal(h.spec, ingress)])
    /\ UNCHANGED <<world, handled, status, objects, pods, changes>>

\* Variant: an empty relay list is rendered instead of waited out.
ReadRelaysAnyway(s) ==
    /\ At(s, "relays")
    /\ SetRun(s, [run[s] EXCEPT !.pc = "config", !.relays = listed])
    /\ UNCHANGED <<world, handled, status, objects, pods, changes>>

\* The relay list in the MediaRelay's status; an empty one is a dependency error.
ReadRelays(s) ==
    /\ At(s, "relays")
    /\ SetRun(s, IF listed = {} THEN [Idle EXCEPT !.pc = "error"]
                 ELSE [run[s] EXCEPT !.pc = "config", !.relays = listed])
    /\ UNCHANGED <<world, handled, status, objects, pods, changes>>

ApplyConfigMap(s) ==
    /\ At(s, "config")
    /\ configMap' = Rendered(run[s])
    /\ SetRun(s, [run[s] EXCEPT !.pc = "workload"])
    /\ UNCHANGED <<world, handled, status, service, ingress, deployment, pods, changes>>

\* The Service once more, and the Deployment.
ApplyDeployment(s) ==
    LET h == run[s] IN
    /\ At(s, "workload")
    /\ service' = IF h.spec.lb THEN "LoadBalancer" ELSE "ClusterIP"
    /\ ingress' = IF h.spec.lb THEN ingress ELSE None
    /\ deployment' = Rendered(h)
    /\ SetRun(s, [h EXCEPT !.pc = "applied", !.relays = {}])
    /\ UNCHANGED <<world, handled, status, configMap, pods, changes>>

\* The profile, the Secret, the database or any call of the API server fails, the
\* readiness of the applied Deployment being read last.
Fails(s) ==
    /\ run[s].pc \in {"service", "address", "relays", "config", "workload", "applied"}
    /\ SetRun(s, [Idle EXCEPT !.pc = "error"])
    /\ UNCHANGED <<world, handled, status, objects, pods, changes>>

\* Ready counts the pods that are ready, whichever template they come from.  A
\* merge patch: waiting and failing leave the addresses that are there.
Patched(old, h) ==
    CASE h.pc = "applied" -> [phase |-> IF pods = None THEN "Reconciling" ELSE "Ready",
                              external |-> h.external, internal |-> h.internal]
      [] h.pc = "waiting" -> [old EXCEPT !.phase = "Waiting"]
      [] h.pc = "error"   -> [old EXCEPT !.phase = "Error"]

\* The change task is done with its spec unless the run is to be retried.
Patch(s) ==
    /\ run[s].pc \in {"applied", "waiting", "error"}
    /\ status' = Patched(status, run[s])
    /\ handled' = IF s = "change" /\ At(s, "applied") THEN run[s].spec ELSE handled
    /\ SetRun(s, Idle)
    /\ UNCHANGED <<world, objects, pods, changes>>

Task(s) == \/ Begin(s) \/ ApplyService(s) \/ Resolve(s) \/ ReadRelays(s)
           \/ ApplyConfigMap(s) \/ ApplyDeployment(s) \/ Patch(s)

Environment == \/ \E spec \in GatewaySpecs : EditGateway(spec)
               \/ \E a \in Maybe(Address) : EditProfile(a)
               \/ \E a \in Address : AssignAddress(a)
               \/ RelayStep

Next == \/ \E s \in Slot : Task(s) \/ Fails(s)
        \/ Environment
        \/ Roll

Spec == Init /\ [][Next]_vars

\* kopf schedules both tasks for ever, and Kubernetes rolls; nothing is assumed of
\* the relays and the load balancer.
Fairness == WF_vars(Roll) /\ \A s \in Slot : WF_vars(Task(s))
FairSpec == Spec /\ Fairness

-----------------------------------------------------------------------------
(***************************************************************************)
(* Properties.                                                             *)
(***************************************************************************)

\* Every variable keeps its type, and the bounds are respected.
TypeOK ==
    /\ provisioned \subseteq Replica /\ listed \subseteq Replica
    /\ profile \in Maybe(Address)
    /\ gateway \in GatewaySpecs
    /\ handled \in Maybe(GatewaySpecs)
    /\ run \in [Slot -> Run]
    /\ status \in Status
    /\ service \in {None, "LoadBalancer", "ClusterIP"}
    /\ ingress \in Maybe(Address)
    /\ configMap \in Maybe(Config)
    /\ deployment \in Maybe(Config)
    /\ pods \in Maybe(Pods)
    /\ changes \in 0..MaxChanges

Served(c) == c.relays # {} /\ c.relays \subseteq provisioned

\* Every configuration that is stored, rolled out or mounted names relays, and
\* only relays whose Service and Deployment exist, however old the list was that
\* the run had read.
RelaysAreServed == /\ configMap # None => Served(configMap)
                   /\ deployment # None => Served(deployment)
                   /\ pods # None => Served(pods.hash) /\ Served(pods.config)

ExternalNow == External(gateway, profile, ingress)
Wanted == [external |-> ExternalNow, internal |-> Internal(gateway, ingress),
           relays |-> listed]
Resolvable == ExternalNow # None /\ listed # {}

\* From some time on no call fails; a run may still end in an error of its own.
Calm == <>[][\A s \in Slot : Fails(s) => Task(s)]_vars

\* Once edits, address and relay changes and failures end and an address and
\* relays are there, the ConfigMap, the Deployment, the template of the pods and
\* the status agree with them for good, though runs with older snapshots overlap.
GatewayConverges ==
    Calm => <>[](Resolvable =>
           /\ configMap = Wanted
           /\ deployment = Wanted
           /\ pods # None
           /\ pods.hash = Wanted
           /\ status = [phase |-> "Ready", external |-> Wanted.external,
                        internal |-> Wanted.internal])

\* After an address is assigned or changed, reconciliation starts or rolls the
\* component with that advertised address (docs/networking.md).
PodsConverge == Calm => <>[](Resolvable => pods # None /\ pods.config = Wanted)

\* A run that has read nothing which has changed since.
UpToDate(h) ==
    /\ h.pc \in {"service", "address", "relays", "config", "workload", "applied"}
           => h.spec = gateway
    /\ h.pc = "address" => h.profile = profile
    /\ h.pc \in {"relays", "config", "workload", "applied"}
           => h.external = Wanted.external /\ h.internal = Wanted.internal
    /\ h.pc \in {"config", "workload"} => h.relays = listed

Settled ==
    /\ service = IF gateway.lb THEN "LoadBalancer" ELSE "ClusterIP"
    /\ configMap = Wanted
    /\ deployment = Wanted
    /\ pods = [hash |-> Wanted, config |-> Wanted]
    /\ status.external = Wanted.external
    /\ status.internal = Wanted.internal
    /\ \A s \in Slot : UpToDate(run[s])

\* Once the pods run what is wanted and no run with an older snapshot is left, no
\* refresh or failure disturbs the address, the configuration, the pods (they are
\* not started again) or the addresses of the status: only a user, the load
\* balancer or the relays do.
GatewayStays == [][Settled => Settled' \/ Environment]_vars
=============================================================================
