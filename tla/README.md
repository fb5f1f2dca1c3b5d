# KubeVoIP in TLA+

KubeVoIP is a Kubernetes operator (kopf, Python) that turns custom resources
into a SIP platform: Kamailio gateways, RTPengine media relays, Asterisk workers,
and a PostgreSQL database through which most changes reach the running gateways.
This directory holds its specifications, the TLC configurations that check them
on small instances, and TLAPS proofs of the main results. Paths below are
relative to the repository; `platform_controller.py` and the like are under
`kubevoip/`.

## 1. Inventory

| Component | Where | State | Operations |
|---|---|---|---|
| Resource handlers | `main.py` | per resource: the running change handlers, the running 30 s timer, kopf's record of the last handled spec | create, update, resume, timer, delete; errors become a status and a retry or a stop |
| Runtime-row reconcilers | `platform_controller.py:304-508, 590-620` | status of the resource; one or more rows of it in the database of its gateway | resolve gateway, Secret and references; one transaction; status. Deletion: find the database, erase |
| Mailbox reconciler | `platform_controller.py:511-587` | status; a `kubevoip_voicemail_mailbox` row and a realtime `voicemail` row | the same, by way of the SIPUser |
| Runtime store | `database.py:336-660`, `database/versions/` | tables `subscriber`, `location`, `kubevoip_*`, `voicemail`, `voicemessages` | upserts and deletions, each one transaction, with unique constraints |
| Schema migrations | `database.py:299-333`, `database/versions/` | `alembic_version`, `kubevoip_schema_migrations`, the tables themselves | recognise an older schema and stamp it, upgrade to head; before every transaction |
| Platform reconcilers | `platform_controller.py:126-301`, `platform_resources.py` | Services, Deployments, StatefulSets, ConfigMaps; statuses with addresses and relays | apply services, resolve addresses, apply workloads, report readiness |
| Port partition | `platform_resources.py:64-72` | none | divide the RTP range among the relay replicas |
| Route selection | `platform_render.py` | none (reads the runtime store) | the SQL of trusted trunks, caller policy, routes, MWI |
| Call routing | `templates/kamailio.cfg.j2` | per call: transaction, dialog variables, rtpengine session, flags and AVPs | REGISTER, INVITE, BYE, CANCEL, replies, failure routes |
| Message waiting | `templates/kamailio.cfg.j2:126-225` | presentities, message counts | SUBSCRIBE, PUBLISH, NOTIFY after REGISTER |
| Asterisk workers | `templates/asterisk/` | configuration only | echo and voicemail applications |
| Models, status, client | `models.py`, `status.py`, `k8s.py` | none | validation, conditions, API calls |

**How they interact.** Handlers read other resources and Secrets through the API
server, never each other's memory. A SIPGateway names the database Secret for
every resource that refers to it; the operator writes rows there and Kamailio
and Asterisk read them on each request (Asterisk also writes: a user's PIN, and
messages). MediaRelay hands its relays to SIPGateway through its status: the
gateway reads the list when it is reconciled, and renders it into the
configuration of Kamailio. One operator pod is active at a time (`README.md:50-60`,
kopf peering, provided the generated priorities do not collide), but releases in
several namespaces may share one database, and each migrates it.

**What is hard.** Two kopf tasks of one resource run concurrently, the change
handlers and the timer, both with the same function and without a common lock. A
handler's work is a chain of remote calls, and the world may change between
any two of them; the transaction and the status patch are not atomic. What must
be cleaned up is found through references which can change before the cleanup.
Tables are shared among resources that know nothing of each other. The
operator can die anywhere. `PROJECT.json` lists these hazards line by line.

**What correctness means here.**
Rows: each live, resolvable resource ends up with the row of its current spec;
a deleted one leaves none; deletions end; the fallback name in the status can be
trusted. Users: a routable user can authenticate, as itself. Mailboxes: a PIN is
its owner's to change. Platform: a gateway uses the relays that exist and
converges after addresses appear. Calls: at most one retry and one fallback, an
offer and its answer agree, a media session ends with its call. Migrations: every
interrupted or concurrent run can be gone on from. Partition: the parts are disjoint
and cover the range.

## 2. Plan

The modules, in the order they were written, the most important behaviour first.

| Module | Subject | State |
|---|---|---|
| `RowStore` | abstract: what the reconcilers promise about the row of a resource | implemented by the next three |
| `RuntimeRow` | the life of a runtime row, the centre of the operator | checked, proved, refinement proved |
| `SipUserStore`, `VoicemailStore` | the two stores in which rows are shared between resources | checked, proved, refinement proved |
| `CallFlow` | one call through `kamailio.cfg.j2`: authentication, routing, digest retry, voicemail fallback, CANCEL and BYE against rtpengine, with lost and crossing messages | checked, proved |
| `Migrations` | `run_migrations` in several processes | checked, proved |
| `RelayBoard` | abstract: what a MediaRelay promises to gateways | implemented by `MediaRelay` |
| `MediaRelay` | the relay reconciler, with the port partition | checked, proved, refinement proved |
| `SIPGateway` | the gateway reconciler, composed with `RelayBoard` | checked, proved |

`SIPGateway` EXTENDS `RelayBoard` and takes its steps for those of the relays, so
the composition of the two reconcilers is checked against the promise and the
promise against the relay reconciler, each on a small state space. What is left
out, and why, is section 7.

Modules that carry proofs use no recursive operators; each has a `...Proofs`
module that extends it, and those whose runs need model values or specs an
`MC...` module.

## 3. The modules

### RowStore

What the three modules of rows have in common, with a resource, its contents and
sets where they have tables, tasks and program counters. `wanted[r]` is the spec
of a resource, `doomed[r]` that its deletion was requested, `taken[r]` what runs have
read of it and may still write, `stored[r]` the contents of its rows, in whatever database.
A run may write what is no longer wanted (`Store` takes any element of `taken`), runs may
be lost (`Lose`), and only a deletion takes rows away (`Erase`); the resource goes when
nothing is `taken` any more (`Release`). So the specification says: at most one row,
of contents some run of this life of the resource has read; no row taken away
except by a deletion; and nothing left when the resource is gone (`GoneIsGone`).

| Module | `wanted` | `taken` | `stored` |
|---|---|---|---|
| `RuntimeRow`, topology fixed | version of the spec, 0 if absent | versions in the hands of runs that resolve or write | versions of the rows in all databases |
| `SipUserStore` | the spec | specs of runs about to commit | row of `kubevoip_sip_user` |
| `VoicemailStore` | the number | numbers of runs about to commit | row of `kubevoip_voicemail_mailbox` |

`RuntimeRow` with a moving topology is no `RowStore`: two databases can hold rows
of one resource, and one may stay (`rows_moved`).

### RuntimeRow

One kind of resource out of CallScope, DialPolicy, SIPTrunk, CallRoute and
SIPUser; the five controllers have one shape (validate, resolve, one
transaction, status), and their delete handlers are one function
(`_delete_runtime_row`).

| Specification | Code |
|---|---|
| `obj[r]`: lifecycle, version of the contents, gatewayRef, accepted by the model | the custom resource |
| `status[r]`: phase, generation, `databaseSecretRef` | `status.py`, merge-patched by kopf |
| `gateway[g]`, `secret` | SIPGateway resources and database Secrets |
| `rows[d][r]`: version it was written from | the rows of `r` in database `d` |
| `task[r]["change"]`, `task[r]["timer"]`: program counter and locals | the run of a handler |
| `Begin`, `Resolve`, `Write`, `Patch` | `_model`; `_gateway_database`; the transaction; `_run` |
| `DependencyFails`, `CommitUnknown` | the `except` branches: nothing was written, or it was and the handler cannot know |
| `StartDelete`, `CleanupDatabase`, `CleanupFallback`, `Erase`, `DeleteFails` | `_delete_runtime_row` and `_cleanup_database` |
| `Release`, `RepeatDelete`, `Crash` | kopf: the finalizer goes after a cycle in which the delete handler succeeded and the timer was found finished; handlers are lost in a crash and resume handlers run |

The patch of an error status carries no `databaseSecretRef`, and a merge patch
leaves the old one: `PatchedStatus` says so, and the invariant
`StatusNamesRowHolder` shows why this is right, since the name is what
`_cleanup_database` falls back on.

### SipUserStore

The transactions of SIPUser resources of one namespace. `subscriber` is keyed by
username and domain and carries its owner; `kubevoip_sip_user` is keyed by
resource, with two unique constraints. `Commit` is `reconcile_sip_user` as a
whole: both upserts or, when a constraint fails, neither. `Delete` is
`delete_sip_user`. The lifecycle is coarser than in `RuntimeRow`: a deletion is one
step that also releases the resource when the timer is not running, which
`RuntimeRow!ReleaseLeavesNoRow` justifies.

### VoicemailStore

VoicemailMailbox resources and the realtime table Asterisk reads. The realtime
row is keyed by number and has no owner. The PIN is the number at first
(`"initial"`) until its user changes it (`ChangePin`, done by Asterisk).
`DatabaseKnown` is the way `delete_voicemail_mailbox_controller` finds the
database: through the user, else through the status.

### CallFlow

One call through the routes of `kamailio.cfg.j2`. A run of a route is one action;
messages to the gateway are a set they are taken from in any order, or never.

| Specification | Code |
|---|---|
| `call` | what the SQL queries return for this caller and number: trusted address, policy, kind of route, voicemail fallback, digest credentials |
| `ReceiveInvite`, `Destination`, `RelayInvite` | `request_route` for an INVITE, `ROUTE_INVITE`, the `RELAY` routes |
| `ReceiveCancel`, `ReceiveBye`, `ReceiveReInvite` | `request_route` for these: `rtpengine_delete`, `loose_route` and, for a CANCEL, the way of an INVITE without the authentication |
| `media`, `session`, `Offer`, `Answer` | `$dlg_var(media_target)`, the session in RTPengine, the `RTPENGINE_OFFER` routes, `MANAGE_REPLY` |
| `tx`, `legs` | the INVITE transaction of tm, its armed failure route, its branches |
| `TrunkAuth`, `VoicemailFallback`, `GiveUp` | the failure routes, or that they end without a relay |
| `callerSdp`, `calleeSdp` | what was done to the SDP each side got last: `"relayed"` through RTPengine for the right side, `"crossed"` for the other side, `"direct"`, as it came |

Kamailio's transaction layer and RTPengine are external and modelled by what the
routes rely on. A CANCEL sent by a user has no policy (`caller_policy` is loaded
in the INVITE branch), so its route query finds nothing and it is refused:
`ReceiveCancel` cancels the transaction only for trusted trunks.

### MediaRelay and RelayBoard

`reconcile_media_relay` in its two tasks, the change handlers and the timer, each
a chain of API calls from a snapshot of the spec.

| Specification | Code |
|---|---|
| `relay`, `profile` | the MediaRelay's spec (replicas, media range, addresses, Service type, host network), `externalAddress` of its NetworkProfile |
| `relayRun[s]` | a running `reconcile_media_relay`: where it is, its spec, and what it has read |
| `service[i]`, `engine[i]`, `ingress[i]` | Service and RTPengine Deployment of replica `i`; the address a load balancer gave the Service |
| `relayStatus` | phase and `relays` of the status; a merge patch, so a run that waits or fails leaves the list |
| `Part` | `partition_range`, in closed form |
| `BeginRelay`, `ApplyRelayServices`, `ResolveRelayAddresses`, `ApplyEngines`, `PatchRelay` | the order of the calls: all Services, all addresses, all Deployments, status |
| `RelayFails` | an exception anywhere, up to the reading of the readiness after the last Deployment (`applied`); a loop over the replicas has done its first `n` rounds |
| `Crash` | the operator is restarted: both runs are lost, no status is written, the resume handler runs |

A loop over the replicas is one step: round `i` touches only the objects of
replica `i`. Two loops that interleave can leave objects of two specs side by side,
which two whole loops do not; a run that fails after any number of rounds
leaves them too, and the properties hold with that.

`RelayBoard` is what a gateway may rely on: the relays listed are provisioned, a
provisioned relay is never taken away (the operator deletes no object), and a list
once there is only replaced. The mapping takes `provisioned` for the
replicas with a Service and a Deployment and `listed` for the domain of the
status's list.

### SIPGateway

`reconcile_gateway` in its two tasks. A configuration is what it is rendered from:
external and internal address and the relays. Its SHA-256 in the pod template is
the configuration itself (no collisions). `configMap` and `deployment` are
applied by two calls, `ApplyConfigMap` and `ApplyDeployment`. `Roll` is the
Deployment controller: new pods get the template's hash and mount
`kamailio.cfg` by `subPath`, that is, once, as the ConfigMap is at that
moment (`pods.hash`, `pods.config`). Readiness counts ready pods, whichever
template they come from; reading it is the last call, so a run may still fail
(`Fails`) with everything applied. The Service is applied before the addresses are
resolved, and again with the Deployment.

### Migrations

`run_migrations` of several processes on one database, which is found empty, as a
release before Alembic left it, at any revision, or stamped by a process that did not
live to upgrade. `_schema_matches_runtime_head` is `MatchesRuntimeHead`; the
check, the stamp (`stamp(config, "0001", purge=True)`) and the upgrade are three
transactions. `schema` is the last revision whose tables are there; `rows` are
the rows of `alembic_version`, by identity, since under READ COMMITTED a DELETE
does not see a row inserted after it began, waits for a locked one and skips one
that is gone. `Tolerant` says which revisions look before they create: all but
0001. The upgrade ends with Alembic's UPDATE of its version row to the newest one, which
cannot succeed while another row has that version (`InTheWay`): the primary key
refuses it, and the upgrade is rolled back (`UpgradeClash`).

## 4. What the runs check

| Run | Shows |
|---|---|
| `rows_moving` | with two topology changes and a fault at any point: `StatusNamesRowHolder`; `ReleaseLeavesNoRow`, the finalizer goes only when the row is gone from the database the deletion resolved and no handler is left; `RowsStay`, a settled row is disturbed by its user and the topology only |
| `rows_stable` | while the topology stays, with two faults: `NoOrphans`; `IsRowStore`, the refinement; `Converges` (stale refreshes are repaired); `DeletionTerminates` for valid specs |
| `sip_users` | `AuthBacked`, `GoneOwnsNothing`, `IsRowStore`, `FreeNamesConverge`, and `UsersStay`, a settled user is out of the reach of the others, over three edits of two users with two usernames and two extensions |
| `mailboxes` | `StatusHasRow`, `PinNotReconciled`, `IsRowStore`, `MailboxesConverge`, `DeletionTerminates`, and `MailboxesStay`, a settled mailbox is disturbed by its user and by the deletion of one stored under its number, for two mailboxes that share or exchange two numbers |
| `calls` | for each kind of caller, route and fallback: `OnlyPermitted`; `RetryOnce`, one digest retry or one fallback; `NothingAfterCancel`; `AnswersFit`, an answer is rewritten for the leg it comes from, through fallbacks and late replies |
| `relays` | a relay of one or two replicas, cluster-local, behind load balancers or on the host network, with an edit or an address that changes: `PartsCover`; `IsRelayBoard`, the refinement; `RelaysStay`, a settled relay is left alone; `RelaysConverge` |
| `gateway` | a gateway composed with `RelayBoard`: `RelaysAreServed`, every configuration names relays and only provisioned ones; `GatewayStays`, settled pods are left alone; `GatewayConverges`, ConfigMap, Deployment, pod template and status |
| `migrations` | three processes: `Recoverable`, what is committed can be gone on from; `CrossedStamps`, what crossing stamps leave at the most; `HeadReached` |
| `rows_moved` | violated: `NoOrphans`, when the gateway is pointed to another database between the write and the deletion |
| `gateway_rolls` | violated: `PodsConverge`. After a change of address two runs overlap, and the older one applies its ConfigMap between the newer run's ConfigMap and Deployment (or before the roll): the pods mount the older file under the newer hash; later refreshes restore the ConfigMap, and the hash is unchanged, so no pod starts again |
| `mailboxes_pin` | violated: `PinSurvives`, when another mailbox of the number is deleted |
| `calls_cancel` | violated: `AnswersRewritten`, when a CANCEL that deleted the media session is refused and the callee answers |

**Bounds.** One resource suffices for `RuntimeRow`: resources of it share no
variable except the environment, and the theorems hold for any number. Two
gateways and two databases allow every relation between the place of a write and
the place of a deletion. Two versions allow one stale snapshot beside a newer
one, a recreation, and an edit during the deletion; with the topology at rest
`Edit` may change contents and validity only. Three edits of two users are a
creation each and a rename, a swap attempt or a recreation. For `CallFlow` the initial
states are all calls the tables can describe; one retransmission and one change
of registration let a second pass through the routing differ from the first.
`AnswersFit` makes an exception for calls with a retransmission or a CANCEL,
where it is false (hazards in `PROJECT.json`).
`relays` has two replicas and three ports, so a division with a remainder occurs; each
of its three specs can be edited into another, addresses appear in any order,
and one change (an edit, or another address) is enough to leave a run with an older
snapshot behind.
`PartitionLoop` in `MCMediaRelay` compares the closed form of the partition with the
loop of the code for every range of up to 12 ports. `gateway` has two replicas
behind the board and one change, which may be an edit, an address, or a list that
replaces another, while runs are under way. `gateway_rolls` needs a
second address instead. `migrations` has three processes, two being
enough for every race of a stamp and an upgrade and the third for one that stays
behind, all five revisions, and five identities of rows: a stamp takes a new one,
and `Fresh` uses those that no process remembers.
In `RuntimeRow`, `MaxMoves` and `MaxFaults` count topology changes and faults; `MaxVersion`
and `MaxEdits` count edits. No run has a state constraint. Resources need not
ever be created or edited again, so the runs do not check deadlock: a system at
rest is one whose timers have nothing to do, or whose resources are gone, and a call ends.

**Symmetry** is used in `rows_moving` only, which checks no liveness: nothing
distinguishes gateways or databases from each other.

## 5. Fairness

`RuntimeRow!Fairness`: weak fairness of each of the two tasks of each resource. kopf
starts the timer again every 30 s and repeats change handlers after a
`TemporaryError` (and after any other exception), without limit; every call it
makes returns or fails. Failures are separate actions, bounded by `MaxFaults`, so
the liveness results read: once failures and edits stop, within the bounds, the
system converges. At most one step of a task is enabled in a state, faults
apart, so weak fairness of the disjunction makes the task progress.

`SipUserStore` does not bound `Abandon` and so assumes strong fairness of `Commit`:
a transaction that is attempted again and again is not lost each time. Users
of the API server are under no fairness.

`MediaRelay` and `SIPGateway` assume weak fairness of each task, for the same reasons,
and `SIPGateway` of `Roll`, which Kubernetes does. Load balancers and relays
are under no fairness: `RelaysConverge` and `GatewayConverges` are about the time
when an address is there, whenever that is. `Migrations` assumes weak fairness of
each process: the timers call `run_migrations` again and again.
None of the three bounds failures. Their liveness properties have the premise `Calm`: from
some time on no call fails by itself and no process dies (`RelayFails`, `Crash`,
`Fails`, `Fail`). Errors the code
makes out of what it finds (no address yet, an empty relay list, a version
that was replaced, a duplicate key) remain possible after that, and the properties say
that they do not last.

## 6. Proofs

`RuntimeRowProofs` proves, for every finite or infinite set of resources,
gateways and databases and every value of the bounds:

- `TypeCorrect`: `Spec => []TypeOK`.
- `StatusIsHolder`: `Spec => []StatusNamesRowHolder`.
- `ReleaseIsClean`: `Spec => ReleaseLeavesNoRow`.
- `RowsStayPut`: `Spec => RowsStay`.
- `StableNoOrphans`: with `MaxMoves = 0`, `Spec => []NoOrphans`.
- `StableRowsAreRowStore`: with `MaxMoves = 0`, `Spec => IsRowStore`.

All rest on the inductive invariant `Inv`. `StatusNamesRowHolder`
alone is not inductive: a `Patch` needs to know that a handler about to report
success has its row in place, which in turn needs that nobody erased it, that is,
that a deletion only erases while the resource is no longer live
(`Lifecycle`). For the release, `Erased` says that once a cycle began with a
finished and stopped timer, what it erased stays erased. `Lifecycle` ties
the pieces together: a timer found finished does not start again.

`RowsStayPut` (`Spec => RowsStay`) is the safety half of `Converges`: a run that is up
to date writes what is there and reports what the status says, a failing one
reports nothing of the database, and no step of another resource comes near
(`Frame`). So once the last run with an older snapshot is over, it takes
a user or the topology to disturb the row.

`StableNoOrphans` adds `Homed`: all handlers, the status and every row of a
resource agree on one database, the one its gateway names. This is what fails as
soon as the topology moves, as `rows_moved` shows.

`RowStoreProofs` proves `GoneStaysGone` of every `RowStore`, and the lemma the
refinements are built on (`StepOfOne`): a step that leaves all resources but one alone,
and does to that one what an action allows, is a step of the store. In the three
modules (`StableRowsAreRowStore`, `UsersAreRowStore`, `MailboxesAreRowStore`) each
action is then one or two small facts about one resource. What they need of the
invariants: a run that may still write holds a spec that was read in this life of the
resource, and nothing is left when it goes; and, in `RuntimeRow`, `HomeInv`, so that
the rows in all databases are one. `GoneMailboxesHaveNoRow` takes `GoneStaysGone` down to
the mailboxes.

`SipUserStoreProofs` proves `UsersAreBacked` (`AuthBacked`) and
`GoneUsersOwnNothing` (`GoneOwnsNothing`). `AuthBacked` needs the unique
constraint: an upsert may take a subscriber over only when its owner's row no
longer uses the name. The invariant adds that rows and ownership exist
only for resources that exist, and that no snapshot outlives its resource. `UsersStayPut`
(`UsersStay`) is the same constraint seen from the user it protects: whoever commits
a spec beside a settled row cannot have its name in its domain, so the
subscriber row stays with its owner.

`VoicemailStoreProofs` proves `StatusAlwaysHasRow` and `PinKept`. The first needs that
a run about to report has its row unless a deletion went between, and that
nothing is left of a resource that is gone, since its name may be used again.
`MailboxesStayPut` (`MailboxesStay`) bounds what the shared realtime row costs: only the
deletion of a mailbox whose row has the number takes it, not that of one that asks
for the number and was never stored, because the deletion goes by the stored row.

`CallFlowProofs` proves all the properties of `calls`: `AlwaysPermitted`,
`AnswersAlwaysFit`, `OneRetry`, `CancelIsFinal`, for every kind of call and any number of
retransmissions and registration changes. The invariant has three parts besides
types: what the messages still on their way say of the caller (`SentInv`), how
the transaction and the legs belong together (`TxInv`: only the newest leg is
open, and a failure route is armed on the first leg alone, which gives
`OneRetry`), and `FitInv` for `AnswersFit`: in a call neither cancelled nor sent twice,
an open leg is the one `media` and `session` were set for, and no INVITE is
under way that could set them otherwise. With a retransmission this is false,
which is why the property exempts it.

`MediaRelayProofs` proves

- `PartitionShares`: for every range and number of replicas with a port for each,
  the parts are not empty, disjoint, and cover the range. Parts are in order of
  their replicas (`PartsInOrder`), none ends after the range (`PartsEnd`), and
  every port has a part, among the longer ones or after them (`PortHasPart`).
- `PartIsLoop`: `Part` is what the loop of `partition_range` computes: for any
  `current` that starts at the start of the range and grows by `Count` in each
  round, it is `FirstPort` at every round. The induction over the rounds is
  `IntervalInduction`, of a set rather than a predicate, from the fact that an injection of
  a finite set into itself is onto; `PartitionLoop` in `MCMediaRelay` lets TLC
  evaluate the same for ranges of up to 12 ports.
- `PartsAlwaysCover`: the relays listed share out the range of one spec, since a
  status is only ever written whole from one run (`ListInv`).
- `ImplementsBoard`: `RelaySpecification => IsRelayBoard`, by step simulation. A run that
  has applied its Deployments has all its objects, and objects only grow
  (`Grows`), so a report is a `Report` of the board however old the run is; a failing
  loop is a `Provision` of the replicas it got to.

- `RelaysStayPut`: `RelaySpecification => RelaysStay`. Applying again what is applied changes
  nothing (`ServicesAgain`, `EnginesAgain`), for which only Services of load
  balancers may have an address (`GivenInv`); so failing loops and restarts do no harm.

`SIPGatewayProofs` proves `GatewayStaysPut`, the same of a gateway down to its
running pods, which are not started again (`Roll` changes nothing), and `AlwaysServed`: a run may render relays from a list it read
many steps ago; the invariant is that they were provisioned then and, by the board's
promise, still are, and that no pod starts before a ConfigMap is there.

`MigrationsProofs` proves `AlwaysRecoverable` for any number of processes and of
revisions. The invariant adds what a process under way rests on (`Started`): a stamp
is only begun on tables that are there, and no tables are ever dropped; an upgrade
only commits with a row to show for it. That a row is changed by one process
at a time is part of `TypeOK`. `AtMostCrossed` proves `CrossedStamps`. Its invariant says of
each transaction under way (`Crossing`) that the rows it has changed stay what they
are, and that a row it did not see when it began is at one of the ends, 0001 or the
newest revision (`Ends`): a stamp inserts the one, and only an upgrade that has
committed shows the other. That an upgrade cannot make a second row of the newest version is
where the primary key is needed.

The modules' type invariants are proved with the same strengthenings (`TypeCorrect` of each
`...Proofs` module).

The assumptions are those of the modules: `None` is distinct from the values it
stands beside, bounds are natural numbers, specs are such as the model accepts, and
`Head` is at least 2.

**Only model-checked:** all liveness (`Converges`, `DeletionTerminates`,
`FreeNamesConverge`, `MailboxesConverge`, `RelaysConverge`, `GatewayConverges`,
`HeadReached`), which is beyond the prover. For `Converges`, `FreeNamesConverge`,
`MailboxesConverge`, `RelaysConverge` and `GatewayConverges` the safety half is proved:
what has converged stays (`RowsStay`, `UsersStay`, `MailboxesStay`, `RelaysStay`,
`GatewayStays`). That it is reached needs the fairness.

## 7. Not modelled

- The contents of rows: a row is the version of the spec it came from (in
  `RuntimeRow`), or its keys and owner (in the stores). Passwords, HA1, caller ID
  and the list of scopes or CIDRs are written in the same transaction.
- A DialPolicy, trunk or route reads further resources before it writes (scopes,
  targets, Secrets). Their absence is one more reason for a dependency error, and
  `DependencyFails` stands for it; as it is bounded, convergence is claimed for
  resources whose references resolve.
- `SIPTrunk` treats an invalid gateway spec as a permanent error where the other
  kinds treat it as a dependency error; an invalid gateway is not in the model.
- Specs that the Pydantic models reject, in `MediaRelay` and `SIPGateway`: the run ends
  before its first call, with an error status and no retry. `RuntimeRow` has them, since
  there they also stop a deletion.
- `generation` is read from the body kopf passes in; a body and spec are taken as
  one snapshot.
- Users of two namespaces on one database whose gateways have one name share the
  `subscriber` key; the store is that of one namespace.
- In `CallFlow`: credentials that are wrong (`caller.auth` says that the caller
  sent valid ones; an INVITE with wrong ones is challenged like one without);
  the replies to requests within a dialog, 3xx and 6xx beyond the
  failures named, tables that change during a call, relay errors, several
  contacts of one user, the delay RTPengine may keep a deleted session for, and
  what it makes of the SDP in late replies that go to nobody.
- In `SIPGateway`: a crash of the operator. For the objects it is what a failure at
  the same place is (`Fails`); it writes no status, and the change run begins
  again, as the timer does anyway. `RuntimeRow` and `MediaRelay` have it as an action.
- In `MediaRelay` and `SIPGateway`: the readiness of relays (reported, used by
  nothing), the database and its credentials in the gateway's pods (their absence is
  one more failure), and the deletion of a MediaRelay, SIPGateway or
  NetworkProfile, for which the operator has no handler: owner references
  leave it to Kubernetes' garbage collection.
- AsteriskPool: it applies its objects, counts ready pods and reports, and no other
  reconciler reads what it reports.
- Route selection (`platform_render.py`): SQL that PostgreSQL evaluates in one
  statement on one snapshot; `CallFlow` takes its result as the kind of the call.
- Message waiting: the routes hand PUBLISH and SUBSCRIBE to Kamailio's presence
  modules, so an order of NOTIFYs would have to be assumed, not translated.
- Asterisk's dialplan, CRD generation, docs export and packaging, which keep no
  state.
- Two operator processes that reconcile at once: peering excludes them. Only the
  migrations are of several processes.

**What the models allow and no run singles out.** These follow from the code
and are behaviours of the modules: a resource whose stored spec the model rejects
cannot be deleted (`DeletionTerminates` is for valid specs); a slow run may put a status
Ready over a row it has just made older, until the next refresh (`Converges`); two
users that exchange a username wait for each other (`FreeNamesConverge` is for free names);
a re-INVITE makes no offer; a process that stamps 0001 on the newest
tables may make another one's upgrade fail again and again, and two stamps
may leave two rows, 0001 and the newest one (`CrossedStamps`; `HeadReached` has both as
exceptions); a
relay that is scaled down keeps the objects of its former replicas; a renumbered
mailbox leaves the realtime row of the old number.

## 8. Running

    tlc -config rows_moving.cfg MCRuntimeRow
    tlc -config relays.cfg MCMediaRelay
    tlapm RuntimeRowProofs.tla

Each configuration is for the module that `PROJECT.json` names beside it.
