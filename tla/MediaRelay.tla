------------------------------ MODULE MediaRelay ------------------------------
(***************************************************************************)
(* The reconciler of a MediaRelay: one Service and one RTPengine           *)
(* Deployment per replica, each replica with its part of the media port    *)
(* range and an external address of its own.                               *)
(*                                                                         *)
(* The change handlers and the 30 s timer run reconcile_media_relay at the *)
(* same time, each as a chain of API calls from a snapshot of the spec: the *)
(* NetworkProfile is read, every Service applied, every address resolved,  *)
(* and only then every Deployment applied and the relay list reported.     *)
(* A load balancer gives a Service its address when it likes.  Round i of  *)
(* a loop touches the objects of replica i only, so a loop is one step     *)
(* here, and a failing one has dealt with the first replicas.              *)
(*                                                                         *)
(* Objects are abstracted to the ports and the address in them.            *)
(***************************************************************************)
EXTENDS Integers

CONSTANTS
    MaxReplicas, \* bound on spec.replicas
    MaxPort,     \* bound on the media range
    Address,     \* addresses that are configured or that a load balancer assigns
    Dns,         \* the cluster-local name of a component's own Service
    None,        \* no address, no object
    RelaySpecs,  \* the MediaRelay specs users apply
    MaxChanges   \* bound on edits and on addresses that change

Replica == 0..(MaxReplicas - 1)
Maybe(S) == S \cup {None}
Known == Address \cup {Dns}    \* what can be advertised

\* What the model accepts: a port for every replica, and overrides only for
\* replicas there are.
RelaySpec ==
    {s \in [replicas : 1..MaxReplicas, start : 1..MaxPort, end : 1..MaxPort,
            override : [Replica -> Maybe(Address)], address : Maybe(Address),
            lb : BOOLEAN, host : BOOLEAN] :
        /\ s.replicas <= s.end - s.start + 1
        /\ \A i \in Replica : i >= s.replicas => s.override[i] = None}

ASSUME AddressAssumption == None \notin Known /\ Dns \notin Address
ASSUME ReplicasAssumption == MaxReplicas \in Nat \ {0} /\ MaxPort \in Nat \ {0}
ASSUME SpecsAssumption == RelaySpecs \subseteq RelaySpec /\ RelaySpecs # {}
ASSUME BoundAssumption == MaxChanges \in Nat

VARIABLES
    profile,      \* externalAddress of the NetworkProfile, None: of the Service
    relay,        \* spec of the MediaRelay
    relayHandled, \* spec the change handlers last finished with
    relayRun,     \* relayRun[s]: what the change or the timer task is doing
    relayStatus,  \* its status subresource
    service,      \* service[i]: the Service of replica i
    ingress,      \* ingress[i]: address the load balancer gave it
    engine,       \* engine[i]: the RTPengine Deployment of replica i
    changes       \* edits and address changes so far

relayObjects == <<service, ingress, engine>>
relayVars == <<relay, relayHandled, relayRun, relayStatus, relayObjects>>
vars == <<profile, relayVars, changes>>

Slot == {"change", "timer"}
Ports == (1..MaxPort) \X (1..MaxPort)
Service == [ports : Ports, lb : BOOLEAN]
Engine == [ports : Ports, address : Known, host : BOOLEAN]
Relay == [address : Known, ports : Ports]
RelayStatus == [phase : {"None", "Applied", "Waiting", "Error"},
                relays : UNION {[0..(n - 1) -> Relay] : n \in 0..MaxReplicas}]
RelayRun == [pc : {"idle", "services", "addresses", "engines", "applied", "waiting", "error"},
             spec : Maybe(RelaySpec), profile : Maybe(Address),
             found : [Replica -> Maybe(Known)]]

ASSUME ObjectAssumption == None \notin Service /\ None \notin Engine

-----------------------------------------------------------------------------
(***************************************************************************)
(* Pure parts of the reconciler.                                           *)
(***************************************************************************)

\* partition_range: the first replicas get one port more each, as many as the
\* division leaves over.  FirstPort is what `current` has come to in round i.
Size(s) == (s.end - s.start + 1) \div s.replicas
Remainder(s) == (s.end - s.start + 1) % s.replicas
Count(s, i) == Size(s) + (IF i < Remainder(s) THEN 1 ELSE 0)
FirstPort(s, i) == s.start + i * Size(s) + (IF i < Remainder(s) THEN i ELSE Remainder(s))
\* Variant: the ports left over are for the last replica, missed by one.
PartLastTakesRest(s, i) ==
    <<s.start + i * Size(s),
      s.start + (i + 1) * Size(s) - 1 + (IF i = s.replicas THEN Remainder(s) ELSE 0)>>
Part(s, i) == <<FirstPort(s, i), FirstPort(s, i) + Count(s, i) - 1>>

\* resolve_external_address: the first there is of replica override, component
\* override, profile and Service address.
ResolveAddress(replica, component, prof, serviceAddress) ==
    IF replica # None THEN replica
    ELSE IF component # None THEN component
    ELSE IF prof # None THEN prof
    ELSE serviceAddress

\* The address of replica i: a ClusterIP Service falls back on its own name.
RelayAddress(s, prof, i, serviceAddress) ==
    LET a == ResolveAddress(s.override[i], s.address, prof, serviceAddress)
    IN IF a = None /\ ~s.host /\ ~s.lb THEN Dns ELSE a

RelayAddresses(s, prof, given) ==
    [i \in Replica |-> IF i < s.replicas THEN RelayAddress(s, prof, i, given[i]) ELSE None]

RelayList(s, found) ==
    [i \in 0..(s.replicas - 1) |-> [address |-> found[i], ports |-> Part(s, i)]]

-----------------------------------------------------------------------------
NoRelays == [i \in {} |-> None]
Nothing == [i \in Replica |-> None]
RelayIdle == [pc |-> "idle", spec |-> None, profile |-> None, found |-> Nothing]

RelayInit ==
    /\ profile \in Maybe(Address)
    /\ relay \in RelaySpecs
    /\ relayHandled = None
    /\ relayRun = [s \in Slot |-> RelayIdle]
    /\ relayStatus = [phase |-> "None", relays |-> NoRelays]
    /\ service = Nothing
    /\ ingress = Nothing
    /\ engine = Nothing
    /\ changes = 0

RelayAt(s, pc) == relayRun[s].pc = pc
SetRelayRun(s, h) == relayRun' = [relayRun EXCEPT ![s] = h]

(***************************************************************************)
(* Users, and the load balancer.                                           *)
(***************************************************************************)
EditRelay(spec) ==
    /\ changes < MaxChanges
    /\ relay # spec
    /\ relay' = spec
    /\ changes' = changes + 1
    /\ UNCHANGED <<profile, relayHandled, relayRun, relayStatus, relayObjects>>

EditProfile(a) ==
    /\ changes < MaxChanges
    /\ profile # a
    /\ profile' = a
    /\ changes' = changes + 1
    /\ UNCHANGED <<relayVars>>

\* The first address of a Service comes at no cost of the bound.
AssignRelayAddress(i, a) ==
    /\ service[i] # None
    /\ service[i].lb
    /\ ingress[i] # a
    /\ changes' = IF ingress[i] = None THEN changes ELSE changes + 1
    /\ changes' <= MaxChanges
    /\ ingress' = [ingress EXCEPT ![i] = a]
    /\ UNCHANGED <<profile, relay, relayHandled, relayRun, relayStatus, service, engine>>

-----------------------------------------------------------------------------
(***************************************************************************)
(* reconcile_media_relay, in task s.                                       *)
(***************************************************************************)
\* Variant: the timer too runs only for a spec that is not handled yet.
BeginRelayUnhandled(s) ==
    /\ RelayAt(s, "idle")
    /\ relay # relayHandled
    /\ SetRelayRun(s, [RelayIdle EXCEPT !.pc = "services", !.spec = relay])
    /\ UNCHANGED <<profile, relay, relayHandled, relayStatus, relayObjects, changes>>

BeginRelay(s) ==
    /\ RelayAt(s, "idle")
    /\ s = "change" => relay # relayHandled
    /\ SetRelayRun(s, [RelayIdle EXCEPT !.pc = "services", !.spec = relay])
    /\ UNCHANGED <<profile, relay, relayHandled, relayStatus, relayObjects, changes>>

\* Variant: a Service is replaced instead of patched, and gets its address anew.
ReplaceServices(spec, n) ==
    /\ service' = [i \in Replica |-> IF i < n THEN [ports |-> Part(spec, i), lb |-> spec.lb]
                                    ELSE service[i]]
    /\ ingress' = [i \in Replica |-> IF i < n THEN None ELSE ingress[i]]

\* A Service that stops being a LoadBalancer loses its address.
ApplyServices(spec, n) ==
    /\ service' = [i \in Replica |-> IF i < n THEN [ports |-> Part(spec, i), lb |-> spec.lb]
                                    ELSE service[i]]
    /\ ingress' = [i \in Replica |-> IF i < n /\ ~spec.lb THEN None ELSE ingress[i]]

\* The profile is read and the Services of all replicas are applied.
ApplyRelayServices(s) ==
    LET h == relayRun[s] IN
    /\ RelayAt(s, "services")
    /\ ApplyServices(h.spec, h.spec.replicas)
    /\ SetRelayRun(s, [h EXCEPT !.pc = "addresses", !.profile = profile])
    /\ UNCHANGED <<profile, relay, relayHandled, relayStatus, engine, changes>>

\* Variant: only the first replica has to have an address.
ResolveFirstAddress(s) ==
    LET h == relayRun[s]
        found == RelayAddresses(h.spec, h.profile, ingress)
    IN
    /\ RelayAt(s, "addresses")
    /\ SetRelayRun(s,
           IF found[0] # None
           THEN [h EXCEPT !.pc = "engines", !.profile = None, !.found = found]
           ELSE [RelayIdle EXCEPT !.pc = IF h.spec.lb THEN "waiting" ELSE "error"])
    /\ UNCHANGED <<profile, relay, relayHandled, relayStatus, relayObjects, changes>>

\* One replica without an address ends the run before any Deployment.
ResolveRelayAddresses(s) ==
    LET h == relayRun[s]
        found == RelayAddresses(h.spec, h.profile, ingress)
    IN
    /\ RelayAt(s, "addresses")
    /\ SetRelayRun(s,
           IF \A i \in 0..(h.spec.replicas - 1) : found[i] # None
           THEN [h EXCEPT !.pc = "engines", !.profile = None, !.found = found]
           ELSE [RelayIdle EXCEPT !.pc = IF h.spec.lb THEN "waiting" ELSE "error"])
    /\ UNCHANGED <<profile, relay, relayHandled, relayStatus, relayObjects, changes>>

\* For each of the first n replicas the Service once more, then the Deployment.
ApplyEnginesOf(h, n) ==
    /\ ApplyServices(h.spec, n)
    /\ engine' = [i \in Replica |->
                     IF i < n THEN [ports |-> Part(h.spec, i), address |-> h.found[i],
                                    host |-> h.spec.host]
                     ELSE engine[i]]

ApplyEngines(s) ==
    /\ RelayAt(s, "engines")
    /\ ApplyEnginesOf(relayRun[s], relayRun[s].spec.replicas)
    /\ SetRelayRun(s, [relayRun[s] EXCEPT !.pc = "applied"])
    /\ UNCHANGED <<profile, relay, relayHandled, relayStatus, changes>>

\* The profile or any call of the API server fails, the readiness of the applied
\* Deployments being read last; a loop over the replicas may have dealt with the
\* first n by then.
RelayFails(s) ==
    LET h == relayRun[s] IN
    /\ \/ RelayAt(s, "services") /\ UNCHANGED engine
          /\ \E n \in 0..(h.spec.replicas - 1) : ApplyServices(h.spec, n)
       \/ relayRun[s].pc \in {"addresses", "applied"} /\ UNCHANGED relayObjects
       \/ RelayAt(s, "engines")
          /\ \E n \in 0..(h.spec.replicas - 1) : ApplyEnginesOf(h, n)
    /\ SetRelayRun(s, [RelayIdle EXCEPT !.pc = "error"])
    /\ UNCHANGED <<profile, relay, relayHandled, relayStatus, changes>>

\* Variant: a status that is not ready carries an empty relay list.
PatchedEmpty(old, h) ==
    CASE h.pc = "applied" -> [phase |-> "Applied", relays |-> RelayList(h.spec, h.found)]
      [] h.pc = "waiting" -> [phase |-> "Waiting", relays |-> NoRelays]
      [] h.pc = "error"   -> [phase |-> "Error", relays |-> NoRelays]

\* A merge patch: the statuses of a waiting or failed run keep the relay list.
PatchedRelay(old, h) ==
    CASE h.pc = "applied" -> [phase |-> "Applied", relays |-> RelayList(h.spec, h.found)]
      [] h.pc = "waiting" -> [old EXCEPT !.phase = "Waiting"]
      [] h.pc = "error"   -> [old EXCEPT !.phase = "Error"]

\* The change task has finished with its spec unless the run is to be retried.
PatchRelay(s) ==
    /\ relayRun[s].pc \in {"applied", "waiting", "error"}
    /\ relayStatus' = PatchedRelay(relayStatus, relayRun[s])
    /\ relayHandled' = IF s = "change" /\ RelayAt(s, "applied")
                       THEN relayRun[s].spec ELSE relayHandled
    /\ SetRelayRun(s, RelayIdle)
    /\ UNCHANGED <<profile, relay, relayObjects, changes>>

\* The operator dies and restarts: both runs are lost without a status, in a loop
\* after RelayFails has cut it short, and the resume handler reconciles the relay.
Crash ==
    /\ relayRun' = [s \in Slot |-> RelayIdle]
    /\ relayHandled' = None
    /\ UNCHANGED <<profile, relay, relayStatus, relayObjects, changes>>

RelayTask(s) == \/ BeginRelay(s) \/ ApplyRelayServices(s) \/ ResolveRelayAddresses(s)
                \/ ApplyEngines(s) \/ PatchRelay(s)

RelayWorld == \/ \E spec \in RelaySpecs : EditRelay(spec)
              \/ \E i \in Replica, a \in Address : AssignRelayAddress(i, a)

RelayNext == \/ \E s \in Slot : RelayTask(s) \/ RelayFails(s)
             \/ Crash
             \/ \E a \in Maybe(Address) : EditProfile(a)
             \/ RelayWorld

RelaySpecification == RelayInit /\ [][RelayNext]_vars

\* kopf schedules both tasks for ever; nothing is assumed of the load balancer.
RelayFairness == \A s \in Slot : WF_vars(RelayTask(s))
FairRelaySpecification == RelaySpecification /\ RelayFairness

-----------------------------------------------------------------------------
(***************************************************************************)
(* Properties.                                                             *)
(***************************************************************************)

\* Every variable keeps its type, and the bounds are respected.
TypeOK ==
    /\ profile \in Maybe(Address)
    /\ relay \in RelaySpecs
    /\ relayHandled \in Maybe(RelaySpecs)
    /\ relayRun \in [Slot -> RelayRun]
    /\ relayStatus \in RelayStatus
    /\ service \in [Replica -> Maybe(Service)]
    /\ ingress \in [Replica -> Maybe(Address)]
    /\ engine \in [Replica -> Maybe(Engine)]
    /\ changes \in 0..MaxChanges

Listed == DOMAIN relayStatus.relays
PartOf(i) == relayStatus.relays[i].ports[1]..relayStatus.relays[i].ports[2]

\* The relays of a status share out the whole media range of one spec: every port
\* belongs to exactly one relay, and no relay is without a port, whatever the
\* remainder of the division (the forwarding rules are made from these parts).
PartsCover ==
    Listed # {} =>
        \E spec \in RelaySpecs :
            /\ Listed = 0..(spec.replicas - 1)
            /\ \A i \in Listed : PartOf(i) # {}
            /\ \A i, j \in Listed : i # j => PartOf(i) \cap PartOf(j) = {}
            /\ UNION {PartOf(i) : i \in Listed} = spec.start..spec.end

\* The gateways' view of a MediaRelay.
Provisioned == {i \in Replica : service[i] # None /\ engine[i] # None}
Board == INSTANCE RelayBoard WITH provisioned <- Provisioned, listed <- Listed

\* Seen through its status and its objects, the reconciler is a RelayBoard: a
\* relay is listed only after its Service and Deployment were applied, by however
\* many overlapping runs, and a run that waits or fails does not empty the list
\* (the patch of its status has none).
IsRelayBoard == Board!BoardSpec

AddressNow(i) == RelayAddress(relay, profile, i, ingress[i])
RelayWanted == 0..(relay.replicas - 1)
\* The list and the objects are what the relay is to have.
RelayProvided ==
    /\ Listed = RelayWanted
    /\ \A i \in RelayWanted :
          /\ relayStatus.relays[i] = [address |-> AddressNow(i), ports |-> Part(relay, i)]
          /\ engine[i] = [ports |-> Part(relay, i), address |-> AddressNow(i), host |-> relay.host]
          /\ service[i] = [ports |-> Part(relay, i), lb |-> relay.lb]
RelayCurrent == relayStatus.phase = "Applied" /\ RelayProvided

\* From some time on no call fails and the operator stays up; a run may still end in
\* an error of its own.
Calm == <>[][Crash \/ (\E s \in Slot : RelayFails(s)) => \E s \in Slot : RelayTask(s)]_vars

\* Once edits, address changes, failures and crashes end and every replica has an address
\* (the load balancer may be late by any time), the Services, the Deployments and
\* the status agree with the spec, the profile and the addresses for good, in
\* spite of runs that overlap or were left behind by an edit.
RelaysConverge ==
    Calm => <>[]((\A i \in RelayWanted : AddressNow(i) # None) => RelayCurrent)

\* A run that has read nothing which has changed since.
RelayUpToDate(h) ==
    /\ h.pc \in {"services", "addresses", "engines", "applied"} => h.spec = relay
    /\ h.pc = "addresses" => h.profile = profile
    /\ h.pc \in {"engines", "applied"} => \A i \in RelayWanted : h.found[i] = AddressNow(i)

RelaySettled == RelayProvided /\ \A s \in Slot : RelayUpToDate(relayRun[s])

\* What is provided stays as it is: once no run with an older snapshot is left, no
\* refresh, failing loop, error status or restart disturbs an address, a Service, a
\* Deployment or the list; only a user or the load balancer does.  (Applying a
\* Service again keeps the address it was given, and resolving comes after it.)
RelaysStay ==
    [][RelaySettled => \/ RelaySettled' \/ RelayWorld
                       \/ \E a \in Maybe(Address) : EditProfile(a)]_vars
=============================================================================
