# TLA+ verification of the cluster health monitor

This directory models the concurrent core of the repository in TLA+, checks the
models with TLC on small instances, and proves the main properties with TLAPS for
every value of the constants.  Paths without a directory are relative to the
repository's `pkg/`.

Contents: [inventory](#1-inventory) · [plan](#2-plan) ·
[the models](#3-the-models) · [the runs](#4-the-runs) ·
[the proofs](#5-the-proofs) · [where code and documents part](#6-where-code-and-documents-part) ·
[what is not modelled](#7-what-is-not-modelled)

## 1. Inventory

The repository builds three programs.

* **cluster health monitor** (`cmd/clusterhealthmonitor`): runs synthetic
  checkers periodically and exposes their results as Prometheus counters.
* **checknodehealth controller** (`cmd/controller/checknodehealth`): a
  controller-runtime manager with up to three controllers, which turn requests to
  check a node into pods and their results into verdicts.
* **node checker** (`cmd/nodechecker`): runs once in the pod made for one check
  and writes its result into the CheckNodeHealth custom resource (CR).

### 1.1 The checknodehealth controller

| Component | State | Operations | What makes it correct |
|---|---|---|---|
| CheckNodeHealth controller (`controller/checknodehealth/controller.go`, `pod.go`) | the CR (finalizer, status) and the checker pod at the API server; informer caches of both; the work queue | `Reconcile`: expiry, finalizer, `ensureHealthCheckPod`, `markStarted`, `updatePodstartCheckerResult`, `determineCheckResult`, `cleanupPod`, `handleCompletion`, `handleDeletion` | one conclusion per check, drawn from the stored results and never taken back; no result lost to a concurrent status update; True only on evidence; every check ends and leaves no pod |
| Node checker (`nodecheckerrunner/runner.go`) | one process per pod; the CR it read | `Run`, retries, `updateCheckNodeHealthStatus` (read, append, `Status().Update`) | its result is kept, and kept apart from other incarnations' |
| Health verdict (`determineHealthyCondition`) | none | results to True, False or Unknown | True only with a Healthy result of every required check |
| Circuit breaker (`circuit_breaker.go`) | recent unhealthy results, open/openedAt, in memory | `Allow`, `RecordUnhealthyNode`, `RecordHealthyNode` | bounds the nodes marked unhealthy in a row; opens only on its streak; closes again |
| Node condition writer (`updateNodeCondition`) | the NodeHealthy condition of the node | read, merge patch of the whole conditions list | shows the stored verdict; does not undo others' writes |
| Node reboot controller (`controller/node/controller.go`) | the node's `last-boot-id` annotation; its cache, queue, timers | `Reconcile`: `removeStaleNodeCondition`, bootID comparison, readiness, `createCheckNodeHealth`, `updateBootIDAnnotation` | each boot checked, and again only when its CR has gone too early; none taken for seen without; old verdicts go |
| HealthCheckRequest controller (`controller/healthcheckrequest/controller.go`) | HealthSignal and CheckNodeHealth found by owner UID in the cache | `ensureHealthSignal`, `ensureCheckNodeHealth`, `syncHealthSignalStatus` | one signal and one check per request, the signal shows the check's verdict |
| Manager (`cmd/controller/checknodehealth/main.go`) | caches, queues, leases | start, resync, restart | one instance writes |

They interact through API objects only: the node reboot and HealthCheckRequest
controllers create CheckNodeHealths; the CheckNodeHealth controller creates the
pod; the node checker in the pod writes the CR's status; the CheckNodeHealth
controller concludes, and patches the node that the node reboot controller and the
kubelet patch too.  What each reads from a cache lags behind, and the pod is found
by a label that holds the CR's *name*, which several incarnations of a CR share.

### 1.2 The cluster health monitor

| Component | State | Operations | What makes it correct |
|---|---|---|---|
| Scheduler and process (`scheduler`, `cmd/clusterhealthmonitor`) | a ticker and a goroutine per checker | `Start`, runs with a timeout, shutdown | every checker runs once per interval, never twice at a time; shutdown ends all and yields the exit code |
| Pod startup checker (`checker/podstartup`) | synthetic pods, PVCs, storage classes, node pools, named with its prefix | `Run`: garbage collection, limit, create, wait, delete | the number of leftover objects stays within its limit; leftovers go |
| API server checker (`checker/apiserver`) | ConfigMaps, likewise | create, get, delete, garbage collection | as above; latency over the limit is unhealthy |
| DNS, pod network, metrics server, Azure policy checkers | none between runs | one query or a few, and a decision | the decision table |
| Registry and results (`checker`) | registered builders, counters | `Build`, `RecordResult` | each run counted once, under its status |
| Configuration (`config`) | none | `ParseFromYAML`, `validate` | what passes can be run |
| Metrics endpoint (`metrics`) | HTTP server | `Run`, shutdown | stops with its context |

### 1.3 What is hard

* **Lagging copies and optimistic concurrency.**  Two writers replace the whole
  status of a CR, each from a copy it read earlier; several API calls follow one
  cached read of a Reconcile.
* **Writes without a version.**  Three parties patch the node's conditions list as
  a whole; the annotation patch names the node and nothing else.
* **Incarnations.**  The same CR, pod or node name exists again after deletion,
  while workers, caches and node checkers of the first are still at work.
* **Partial failure.**  A call may be done although its answer is lost; a cleanup
  that failed after the conclusion is not retried by an error.
* **Time.**  PodTimeout, CRTTL, thresholds for new nodes, cooldown and window are
  read from clocks at several places of one decision.
* **Liveness.**  Early returns without a requeue lean on resyncs, timers and owner
  references.

`PROJECT.json`, "hazards", lists each of these at its line, with the properties
that would catch it going wrong, or why none does yet.

## 2. Plan

Modules in the order in which they were written; each row's properties answer the
hazards of its component.

| # | Modules | Build on | State |
|---|---|---|---|
| 1 | `CheckNodeHealth`: controller, node checker, API server, caches | `HealthVerdict`; implements `OneShotCheck` and `CheckLife` | done, proved |
| 2 | `CircuitBreaker`: the breaker and the step that consults it | – | done, proved |
| 3 | `NodeReboot`: node reboot controller beside the node's other writers | – | done, proved |
| 4 | `HealthCheckRequest`: request, signal and check; index lag, taken names, expiry, ownership garbage collection | `CheckLife`, what `CheckNodeHealth` promises of a check | done, proved |
| 5 | `SyntheticChecks`: limit, creation, deferred deletion and garbage collection of the objects of two checkers | `SyntheticObjects`, `PodStartup`, `APIServerCheck`; implements `BoundedPool` three times | done, proved |
| 6 | `ClusterHealthMonitor`: process, scheduler, results, and the checkers that only look | `CheckerRuns`, `DNSChecker`, `PodNetworkChecker` | done, proved |
| 7 | Two instances of the controller at once (rolling update, leader election off by default) over module 1 | `CheckNodeHealth` | left |
| 8 | The measurement of the pod startup checker, and the results of module 5's runs | `PodStartup` | left |

Abstract specifications: `OneShotCheck`, what a CheckNodeHealth promises its creator;
`CheckLife`, the part of it that the HealthCheckRequest controller relies on, where
modules 1 and 4 meet; and `BoundedPool`, what the limit checks promise the cluster.

## 3. The models

Conventions.  An API call is one action with a success, a refusal (conflict, not
found, already exists), a failure without effect (`CallFails`) and a success whose
answer is lost (`Answered`).  What a Reconcile does between two calls belongs to the
action of the next call or the previous one, since nobody else sees it.  An
informer cache is a copy of the object that jumps to its latest version when its
watch delivers; versions may be skipped, which is what the client library's
deduplication amounts to.  Work queues hold a key at most once.  Names with a
suffix (`isCompleted_Never`) are faulty variants, one per property, that show
that the property notices the bug they stand for; no specification uses them.

### 3.1 `HealthVerdict`, `OneShotCheck`, `CheckLife`, `CheckNodeHealth`

`HealthVerdict` translates `determineHealthyCondition`.  A result is a name and a
status, a result list the set of its members: no rule reads order, multiplicity,
message or error code.

`CheckNodeHealth` follows one CR *name* through its incarnations.

| Variable | Code |
|---|---|
| `cr` | the CheckNodeHealth: uid, resourceVersion, deletionTimestamp, finalizer, `StartedAt`, `FinishedAt`, the Healthy condition, results; uid 0: no object |
| `pod`, `runner` | the checker pod and the process in it (`cmd/nodechecker`, `runner.go`) |
| `nodeCond` | the verdict last published on the node, and whose |
| `crCache`, `podCache`, `queued` | informer caches and work queue |
| `wk` | the single worker (`MaxConcurrentReconciles` is left at 1): its place in `Reconcile` and its local `cnh` and `pod` |
| `crCount`, `podCount` | uids handed out |
| `crOld`, `podOld` | the newest CR past CRTTL, the newest pod past PodTimeout; time passes for those that are gone too, as copies of them are still at work |

The actions, in the order of `Reconcile`: `Reconcile` (cached read and early
returns), `DeleteExpired`, `AddFinalizer`, `EnsureHealthCheckPod`, `RefetchPod`,
`MarkStarted`, `UpdatePodstartCheckerResult`, `DetermineCheckResult`,
`UpdateNodeCondition`, `CleanupPod`, and `HandleCompletion`, `HandleDeletion`,
`RemoveFinalizer`; `CallFails` and `Crash` for its failures.  Around it: the
watches, `Resync`, the passing of time, creation and deletion of the CR, the kubelet
(`PodStarts`, `PodRejected`, `PodExits`, `PodRemoved`), the node checker
(`RunnerReads`, `RunnerWrites`, `RunnerFails`), owner garbage collection and
eviction.

Abstractions.
* A resourceVersion counts the writes to an incarnation, so that comparing it is
  comparing uid and count.  Optimistic concurrency is in `RVMatches`; the deletion of
  an expired CR and of a pod is by name, as in the code.
* Succeeded and Failed are one phase, `Terminal`: the controller treats them alike.
* Deleting a terminal pod takes effect at once; any other is first marked and
  `PodRemoved` once the kubelet has stopped it.
* Which status the node checker's network check reports is a choice from
  `ReportedStatus`; how it comes about is in `PodNetworkChecker`.  A write without `StartedAt` is refused
  by the CRD's schema (`SchemaAccepts`).
* The breaker's answer is a choice in `UpdateNodeCondition`, which may skip the
  write; the breaker itself is `CircuitBreaker`, the contents of the patch
  `NodeReboot`.

`OneShotCheck` says what all this is for: a check is requested, begins, collects
results, and concludes once with the verdict they imply.  `CheckOf` maps the CR to
it; `ImplementsOneShotCheck` is checked by TLC and proved.

`CheckLife` is the same check seen by who only waits for it: it is created, finishes
at most once and not when it is being deleted, is marked for deletion, and goes.
`LifeOf` maps the CR to it (`ImplementsCheckLife`, checked and proved), and the check
of section 3.4 too, so that module 4 may leave out how a check gets where it gets.

### 3.2 `CircuitBreaker`

`cb` is the breaker (`events`: its list of recent unhealthy results), `worker` the
place in step 2 of `determineCheckResult`: `Conclude` (a verdict has been stored),
`AskBreaker` (`Allow`), `WriteCondition` (the node is read and patched, or that
fails), `TellBreaker` (`RecordUnhealthyNode` or `RecordHealthyNode`).  `Tick` may
come between any two of them, since the calls take time.  `Restart` loses the
breaker, which is memory of the process.

The breaker does not know which node a verdict is about, so nodes have no names.
The mutex is left out: one worker is the only caller.  The clock is discrete, and
`Threshold`, `Window` and `Cooldown` are arbitrary numbers, in the order of the
code's comparisons.  `log` and `marks` are history.

### 3.3 `NodeReboot`

One node, since nodes share nothing but the queue.  `node` is the object with the
fields the controller reads: creation time, pool, bootID, annotation, Ready and its
transition time, the NodeHealthy condition and its.  `cache` is the informer's
copy, `wk.node` the worker's, `writer` the copy `updateNodeCondition` has read.

`Reconcile`, `removeStaleNodeCondition`, `Detect` (from the bootID comparison to the
call of `Create`: every early return and requeue), `createCheckNodeHealth` and
`updateBootIDAnnotation` are the controller; `VerdictReads` and `VerdictPatches` the
condition writer, in the same process but another worker; `ReadyChanges`, `Boot`,
`KarpenterInitializes`, `NodeRemoved`, `NodeRegisters`, `CoreDNSChanges` and
`CNHExpires` the cluster.

* No write carries a resourceVersion, and a status patch replaces the whole
  conditions list: `ConditionsPatched` puts the *writer's copy* of Ready back.
* The patch that removes a stale condition returns the present node, and Reconcile
  goes on with it, ahead of its own cache.
* Boots are numbered as they happen; a CheckNodeHealth is known by the boot its
  name is a hash of (`GenerateCNHName`).
* `timer` is a pending `RequeueAfter`, of 30 seconds or of the TTL alike.
* A CheckNodeHealth goes by age alone (`CNHExpires`, CRTTL), whatever has become of the
  node meanwhile: while its boot is deferred after a crash or a failed patch, or a
  worker that is ahead of its cache has yet to see it annotated.
* A node that is registered again may be in the boot of its predecessor: the Node
  object was deleted, and the machine did not restart.  Nodes of one name differ in
  `uid`; `nodes` counts registrations, up to `MaxNodes`.
* History: `created` (CheckNodeHealths per boot), `existing` (which node was annotated
  as an existing one, and with which boot), `seenNew` (a Reconcile found this node new
  and without annotation), and `lapses`: how often a boot lost its CheckNodeHealth
  before everyone who knew the boot had it annotated (not `Handled`), or came with a
  new registration.

`OneCheckUnlessLapsed` bounds the checks of a boot by one more than its lapses.  Where
nothing lapses that is the one check per boot that the deterministic name is there
for; where something does, a second check is what the code does (section 6).

### 3.4 `HealthCheckRequest`

The requests of one name.  `hcr`, `hs` and `cnh` are the request, its HealthSignal
and the signal's CheckNodeHealth at the API server, the three caches the informers'
copies; `wk` the worker, with the signal it has found or created.  The names of
signal and check are made from the request's, so there is one of each, and the next
request of the name meets the previous one's; but they are *found* by the owner's
uid (`OwnedSignal`, `OwnedCheck`).

`Skip`, `ensureHealthSignal`, `ensureCheckNodeHealth`, `awaitCheck` and
`syncHealthSignalStatus` are the branches of `Reconcile`; `WatchCheck` includes
`mapCheckNodeHealthToHealthCheckRequest`, which goes by the cached signal and drops
the event when there is none.

* A cache read and the API call that follows it are one step: caches only lag, so a
  read that is followed later by its call is a read of a cache that lags more.
* `RequeueAfter` leaves the request queued: when it fires is up to the worker.
* Two copies of a signal have one resourceVersion when they are equal.  Updating a
  status without a change does not count one up, and no content comes back: a check
  that was shown and has gone never comes again.  Uids are reused only when no copy
  of anything mentions them.
* A check is what module 1 promises: its verdict is final (`VerdictFinal`), it lives as
  `CheckLife` says, and it finishes, and goes after its deletion (`ChecksComeToRest`,
  of which the fairness of `CheckFinishes` and `CheckRemoved` is made).  It is known by
  itself: the conditions in a signal are named by the check they are of.
* That the environment here (`CheckFinishes`, `CheckExpires`, `CheckRemoved`) does what
  `CheckLife` allows, and all of it, is proved (`ChecksLiveAsTheyDo`,
  `EveryLifeIsAllowed`): what is shown of requests holds with the checks of module 1.
* The garbage collector takes what has no owner any more (`CollectSignal`,
  `CollectCheck`).  Of a request that is deleted in the foreground it takes signal and
  check first, while the request is still there (`CollectFirst`); a worker that does not
  know yet may make them anew.
* `target` is the request whose node the check is about, for the property only.

### 3.5 `SyntheticObjects`, `PodStartup`, `APIServerCheck`, `SyntheticChecks`

One checker of the configuration file, in each of the processes that run it (a
rolling update has two).  `objects` is what it has created, each a kind and the
timestamp in its name; `terminating` what is deleted but still there; `outdated` the
timestamps whose objects are older than the checker's Timeout.  `run[p]` is where the
run in process `p` is; each API call is one action, named after the method that
makes it (`createCSIResources`, `listPods`, `deletePod`, ...; deferred calls in the
order they run).  `config` is chosen once, among those that validation lets through.

* Timeout is both the deadline of a run and the age at which garbage is collected,
  so the objects of a run are outdated when it is over (`Age`), all at one moment,
  although its claims are created before its pod.  But creation times
  are whole seconds, and another process has another clock: its collection may take
  what a run that is about to end still uses (`AgeEarly`, counted as a fault).
* Once a run's context is over all its calls fail, deferred ones included: the run
  is then over for the cluster.  So a deadline is a failure that ends the run, and a
  SIGTERM is for the cluster a process that dies at once (`Terminate`).
* A call that fails is carried out or not, there and then; not later.
* Garbage collection lists and deletes in one step, and deletes any part of it when
  a call fails.  What is listed stays until it is deleted, under a name nobody uses
  again.
* A StorageClass that is missing is a call that fails, as often as `MaxFaults` allows; one
  that stays away ends every run before it creates anything.
* Removal (`Removed`) waits for the kubelet, for the pods that use a claim, or for
  Karpenter's finalizer; ConfigMaps go at once.
* Reads that decide nothing about objects (polling, image pull time, pod IP, TCP
  connection) are one step, `poll`, and results are left out.  When something the
  pod needs has been collected, `poll` may last until the deadline; when its
  ConfigMap has been, the API server checker fails in `getConfigMap`.
* Timestamps that nothing is named after any more are used again.

`OneRunPerFault` says what the deferred calls are for: what a run leaves behind when it
is over is due to a fault of its own, and so there are at most as many such runs as
faults.  The exceptions are a run whose node pool another process has collected, which
waits for its pod until the deadline, and two drivers of one CSI type (section 6).

`BoundedPool` is the promise of the limits: a process is admitted on a count below
the limit, and creates at most a batch of objects in its turn.  `PodsAdmitted`,
`ClaimsAdmitted` and `ConfigMapsAdmitted` say that the three kinds implement it, with
a run between its count and its creation as the admitted turn.  Counting and
creating are two calls, so processes that overlap exceed the configured maximum,
each by its batch; that, not the maximum, is what is proved.

### 3.6 `CheckerRuns`, `DNSChecker`, `PodNetworkChecker`, `ClusterHealthMonitor`

The world is `server` (what a query to each server comes to: an answer, a refusal,
silence), `ready` (CoreDNS pods behind the service) and `service`; `ServerChanges`
lets any of it change between any two steps of a run.  `run[c]` is the current or
last run of checker `c`: its context, the pods it has listed and has not asked yet,
and the results it has counted.  The actions of `DNSChecker` are the calls of its
three targets; `checkMetricsServerAPI` and `dryRunCreate` are whole checks.
`PodNetworkChecker` is the check in a node checker's pod, with the attempts of
`runCheckers` around it.

`ClusterHealthMonitor` adds the process: `Tick` and the one-tick channel of a ticker,
`StartRun` and `StopLoop` (the two cases of `scheduleChecker`'s select), `Deadline`,
`Signal`, and the three goroutines that may end the process: `MainReturns` with
success, `MetricsServerReturns` and `SchedulerReturns` with an error, because they
take the context's error for a failure.  After a SIGTERM the exit code depends on
who is first.

* Contexts: open, expired (deadline) or cancelled (signal).  A deadline may pass at
  any time, as any call may be slow.  A request fails when the context is over, and
  otherwise as often as `MaxFaults` allows; a query returns by its own deadline at
  the latest, with a timeout or, as the resolver gives up by itself, an error.
* An endpoint has one address.  The per-pod target lists endpoints that name their
  pod; the others are skipped without a result, as in the code.
* The timeout and error codes of LocalDNS, and of the metrics server, are one.  An
  answer of `azure-policy` is a warning or an error that names a policy; any error
  but a timeout counts as enforcement that is missing.  That its client cannot be
  built is a fault, and ends the run as Unknown.
* LocalDNS is in the schedule or not (`isLocalDNSEnabled`); if nothing is, the
  process idles.
* The node checker has no deadline and no signal (`context.Background()`): the
  controller deletes its pod.  Any DNS response is a success, errors included.
* Checkers share nothing but the process, so each is checked in a process of its
  own, and two together once, where one of them may be skipped.
* `answered`, `failed` and `since` are history: whom a run asked in vain or not
  while its context was open, and when it began, counted in changes of the world.

## 4. The runs

| Run | Module, configuration | Shows |
|---|---|---|
| `faults` | `CheckNodeHealth_faults` | one check, all interleavings with one fault anywhere: `TrueNeedsEvidence`, `NodeConditionMatchesVerdict`, `NothingForgotten`, `VerdictFinal`, `NotFinishedEarly` |
| `recreated` | `CheckNodeHealth_recreated` | a CR deleted and created again while worker, caches and node checker of the first are at work: `SnapshotCoherent`, `NoLostResults`, `ImplementsOneShotCheck`, `ImplementsCheckLife` |
| `live` | `CheckNodeHealth_live` | with fairness and one fault: `ChecksComeToRest` |
| `breaker` | `CircuitBreaker` | `BoundedHarm`, `OpenWithCause` |
| `reboots` | `NodeReboot_replaced` | two boots, a node registered again in the same boot or the next, checks that expire, one fault: `SeenMeansChecked`, `OneCheckUnlessLapsed` |
| `reboots_live` | `NodeReboot_live` | one fault: `NothingForgotten`; with fairness `RebootsAreSeen`, `StaleConditionsGo` |
| `requests` | `HealthCheckRequest` | two requests of one name, a check that expires or is collected before its request, one fault: `SignalShowsOwnVerdict`, `NothingForgotten`; with fairness `RequestsAnswered`, `OrphansGo` |
| `synthetic` | `SyntheticChecks_MC`, `SyntheticChecks` | two processes, one fault: `OneRunPerFault`, `ObjectsBounded` (pods, claims and ConfigMaps), the refinements `PodsAdmitted`, `ClaimsAdmitted`, `ConfigMapsAdmitted`; with fairness `LeftoversGo`, `ChecksGoOn` |
| `monitor` | `ClusterHealthMonitor` | every checker that only looks, two changes of the world, one fault: `RecordedOnce`, `ResultsHaveCause`, `StillWorldTruth`, `NodeCheckTruth`; with fairness `ChecksRepeat`, `NotMute`, `NodeCheckEnds` |
| `adopted`, `new_nodes`, `fresh_verdict` | | counterexamples, section 6 |

**Bounds.**  *CheckNodeHealth*: one incarnation with one fault, or two incarnations
without; a wrong mixture of incarnations takes two of them, and an error path
taken wrongly takes one fault (a second fault meets the same states, since a
failed call leaves the worker idle with the key queued, as a resync does).  The
number of pods is not bounded by a constant: faults and incarnations bound it.
Two reported statuses tell a good result from a bad one.  *CircuitBreaker*:
`Threshold` 2, `Window` 3, `Cooldown` 2, seven ticks and five results, which allow
a streak, its expiry, an opening, a full cooldown and a second opening; the proofs
hold for all values.  *NodeReboot*: two boots (an old bootID and a new one), one
change of Ready or CoreDNS (a new node is not ready yet, CoreDNS may be), one fault, times 0 and 1, as only the
comparison of an age with a threshold matters, and thresholds 0 and 1 have both
outcomes; `CRTTL` 0, so that a check may expire at the time after its creation;
`MaxVerdicts` 1, or 2 where one verdict replaces another.  `reboots` has two registrations
of the node and no verdict, as its properties are about annotations; `reboots_live` has
a verdict and one registration, as what is eventually done is done for a node that stays.
*HealthCheckRequest*: two requests, so that the second meets what the first has left,
one check that expires or object that goes before its request, one fault; four uids, of
which one is always free.
*SyntheticChecks*: two processes and a limit of one object (or of one batch of two
claims), so that both may be admitted on the same count; one fault, which leaves
something behind that the limit then counts; three configurations, for two claims
with a pod, a node pool with a pod, and a ConfigMap; three timestamps, for two runs
and what an earlier one has left.  *ClusterHealthMonitor*: three CoreDNS pods, of
which one has no name and one is on the node checker's node, which leaves two to
go through for every checker; two changes of the world, so that something may fail
and recover in the middle of a run; one fault.  Runs follow one another without
bound in the last two.

Deadlock is checked for the breaker and the synthetic checks, which never stop;
elsewhere a cluster in which nothing happens any more is legitimate.

**Fairness**, weak throughout.  The worker: the work queue hands out what it holds,
and client calls return.  The watches: an informer reconnects and relists.  Resync:
`SyncPeriod` is one hour (and the kubelet's heartbeats update the node); the requests
are answered without it.  Timers fire: `RequeueAfter`, tickers.  `PodTimesOut`, `Age`:
clocks advance.  `PodRemoved`, `OwnerGC`, `Removed`, `CollectSignal`, `CollectCheck`:
kubelet, volume controller, Karpenter and garbage collection do their work.
`CheckerStep`, `NodeCheckerStep`: each call returns, by its context or its own
deadline at the latest.  `ProcessStep`: goroutines that can run do, and the kubelet
starts an ended container again.  Nothing obliges a container to start, a node
checker of module 1 to progress, a node to become ready, a run's deadline to pass,
or anybody to create or delete a CR; `RebootsAreSeen` says what follows *if* node and
CoreDNS stay ready, `RequestsAnswered` what follows *if* the request stays.

`NothingForgotten`, of each of the three controllers, is what its liveness property
rests on, said without fairness: when nothing is queued, running, requeued or still
to be told by a watch, there is nothing left to do.  A lost wakeup would violate it
at once.  It is stronger than the liveness properties in that no resync is needed,
and weaker in that it does not say that the rest is ever reached; what it leaves open
is left open by the code: a node that has not been ready for too long, and the pod of
a CR that is gone, which the ownerReference collects.

`NoLostResults` is about the results a node checker has *stored*; one refused by a
conflict is gone, and the check concludes Unknown or False (`TrueNeedsEvidence`
says it does not conclude True).  `ChecksComeToRest` allows as many evictions as
`MaxFaults`: a pod deleted again and again before PodTimeout is created again each
time, with a new creation time.  `ResultsHaveCause` lets a run whose context is over
say Unhealthy without a failure: that is what the code does with pods it has not
come to, and with a CoreDNS run that a SIGTERM cuts short.

## 5. The proofs

All theorems hold for every value of the constants their `ASSUME` allows, which only
fixes their types (and `Threshold > 0`, as it is wherever a breaker is made), except
that processes and pods are finitely many.

**`CheckNodeHealth_proofs`.**  The inductive invariant is `Types /\ ValidStatus(cr)
/\ SnapshotCoherent`.  The safety properties speak of the object at the API server
only, but a step may write whatever copy it holds; so the induction needs to know
of *each* copy that it is not ahead of the object, is the object if its version is
the object's, and shows the same verdict if it is finished; and of the worker what its
place in `Reconcile` implies of its copy.  The lemma `CRStep` classifies what any
step can do to the CR (nothing, create, remove, or one of the writes); the action
properties and the refinement follow from it case by case.  Theorems: `TypeCorrect`,
`CopiesCoherent`, `VerdictsAreFinal`, `ResultsAreKept`, `ChecksRunTheirTime`,
`TrueVerdictsHaveEvidence`, `PublishedVerdictsAreStored`, and `RefinesOneShotCheck`.

`NothingForgotten` is not inductive, as it says nothing while the worker is busy.
`Served` does: while nothing is queued, the cache holds a CR, and what the worker has
done has either put the cache behind (`Behind`), so that an event is to come, or left a
finished check with its pod going.  A write is never lost on the cache
(`WrittenIsBehind`).  Theorem: `NoCheckForgotten`.  `RefinesCheckLife` needs of the
worker that its copy is not being deleted while it works (`Undeleted`), which makes
a conclusion of a check that is being deleted a conflict, and of the API server that
nothing is left of a CR that is gone (`Gone`).

**`CircuitBreaker_proofs`.**  `BoundedHarm` relates writes to writes, while the
breaker holds times of *records*, each later than its write, pruned, and reset by
cooldowns.  The invariant aligns the two.  Count marks and events from their ends:
a mark at least as far from the end as an event is no later than it (`Aligned`),
because every mark is followed by an event of its own; so a mark whose event was
pruned has left the Window, and one whose breaker has closed is a Cooldown old
(`Spaced`).  `Sorted`, `Past`, `Closing` and `Logged` order events, clock and log.
`PruneStops` shows that the pruning loop stops, `Pruned` says what it leaves.
Theorems: `BreakerTypes`, `HarmIsBounded`, `OpensWithCause`.

**`NodeReboot_proofs`.**  The invariant speaks of all copies of the node (API server,
cache, worker): the boots they show have happened (`BootsHappened`), the boots they
have annotated were checked or were an existing node's (`AllSeen`), the worker's
place implies what its copy called for (`Decided`), and, while nothing has lapsed for a
boot, whoever knows the boot whose CheckNodeHealth was created and is gone has it
annotated (`GoneMeansHandled`), which is what keeps a stale copy from creating it
again.  Nothing is assumed of CRTTL: an expiry before that is so is a lapse, and each
lapse makes room for one more check.  Theorems: `NodeTypesCorrect`, `BootsAreChecked`,
`BootsAreCheckedOnceUnlessLapsed`.  `BootsAreChecked` also says that no boot of a node
younger than NewNodeThreshold, but one left to it by an earlier node of its name,
is taken for seen without its check, so that age is all there is to the counterexample
`new_nodes`: copies that show one boot are of one node (`OneNode`), and a boot taken
for an existing node's is of a node that was old enough (`ExistingOld`).  For `NoBootForgotten` the invariant is `Followed`: while nothing is queued, the
worker's copy shows of this boot what the cache shows, unless the node has changed
in a way that does not change back (`Alike`, `PoolGoesOn`), and the watch's predicate
lets every change through that could call the worker again.

**`HealthCheckRequest_proofs`.**  The signal shows what the worker copied from a check it
found by the uid of a signal it found by the uid of a request.  The invariant
carries this chain through the copies: a signal's uid has one owner, whoever holds
it (`OneOwner`); a check whose owner is such a signal is about that owner's node
(`ChecksOfSignals`); what a copy of a signal shows is a check of that signal
(`ShownIsOwn`); and the worker's request owns the worker's signal (`WorkerHolds`).
Reused uids are why "no copy mentions it" has to be an assumption of `Fresh`.
Theorems: `TypeCorrect`, `ShowsOwnVerdict`.

`NoRequestForgotten` follows from `Kept`: requests are told apart by their uids
(`RequestsKnown`), a signal that the worker has just made has no check yet, so that what
it does next requeues the request (`NoCheckYet`), and a request at rest has the answer
of the check *the cache holds* (`RestsAnswered`), since the check itself may be gone,
which is then heard of.  `ChecksLiveAsTheyDo` and `EveryLifeIsAllowed` are the two
directions of the composition with module 1 (`RefinesCheckLife`).

**`BoundedPool_proofs`, `SyntheticChecks_proofs`.**  The bound is proved once, for the
abstract pool (`AdmissionBounds`): the objects and the turns not yet used are counted
together, because an admission happens below the limit and leaves every process with
a batch at most, and a creation moves one from the turns to the objects.  Then every step of a
checker is shown to be an admission, an addition, a drop or a stutter of each of the three pools
(`PodsRefine`, `ClaimsRefine`, `ConfigMapsRefine`), and the bounds follow
(`ObjectsNeverTooMany`).  The
invariant behind the refinement is the types, with what a run holds while it is under
way (`RunsTyped`).

**`ClusterHealthMonitor_proofs`.**  The invariant says of every run that it is `Good`:
it is where its checker can be (`Placed`), the pods a per-pod run is through with are
those it has recorded (`PodsCounted`), what it saw is still so unless the world has
changed since it began (`Current`), and what it recorded is counted once, caused and
true (`CountedOnce`, `AllCaused`, `AllTrue`); `NodeGood` says the like of the node
checker's attempt.  A lemma per helper (`Asked`, `Records`, `Listed`, ...) says what it
makes of each field of a run, and each call is then a combination of them.  A change
of the world leaves the claims about a still world nothing to say, as every run is
then one of an earlier world; without `since` in the invariant the induction has no
hold.  Theorems: `MonitorTypes`, `EveryRunCounted`, `EveryResultCaused`,
`StillWorldToldTruly`, `NodeToldTruly`.

**Only model-checked**: the liveness properties (`ChecksComeToRest`, `RebootsAreSeen`,
`StaleConditionsGo`, `RequestsAnswered`, `OrphansGo`, `LeftoversGo`, `ChecksGoOn`,
`ChecksRepeat`, `NotMute`, `NodeCheckEnds`), which need `ENABLED` and fairness, out of the
prover's reach; `OneRunPerFault`; and the counterexamples.  Of the three controllers' liveness the part
without fairness is proved (`NoCheckForgotten`, `NoBootForgotten`, `NoRequestForgotten`).

## 6. Where code and documents part

Each is a run whose property says what a comment or test says, and which TLC finds
violated by a behaviour of the code; `PROJECT.json`, "findings", quotes the lines.

* `adopted`, `RunsItsOwnCheck`: pods are found by a label with the CR's name, so a CR
  created again is concluded on its predecessor's pod.
* `new_nodes`, `NewNodesChecked`: a new node that is not ready within
  NewNodeThreshold (5 minutes) is annotated as an existing one; its first boot is
  never checked.  NodeReadyMaxWait (10 minutes) therefore never ends the wait of a
  new node.
* `fresh_verdict`, `RemovesOnlyStale`: the removal of a stale condition is computed
  from the cache and removes the fresh verdict that replaced it.

Read in the code, and not made into runs:
* A node checker that is still running when PodTimeout ends its check adds its result
  to the finished CR, which `types.go` says is not modified any more; the verdict
  stays (`VerdictFinal`), the results may disagree with it.
* Unhealthy results during the circuit breaker's cooldown start it again
  (`circuit_breaker.go:118`), which the constant's comment does not say.
* `hasUnknownResult`'s comment says a missing result counts as unknown, which
  `findMissingResult` decides instead.
* A verdict that confirms the previous one does not renew `LastTransitionTime`, and is
  removed by the age of the first.
* An existing node that reboots while its annotation is being initialized may have its
  new boot taken for the old.
* A boot may be checked twice: when the annotation patch fails after `Create`, or the
  process dies, and the node or CoreDNS is then not ready until CRTTL has passed, every
  retry is deferred without annotating (`node/controller.go:166-175`), the CR expires
  (`checknodehealth/controller.go:128`), and the node gets another one for the same boot
  when it is ready.  So it does when the node is registered again without a reboot.
  `test/e2e/nodereboot_test.go:291` says "should not create duplicate CheckNodeHealth CRs
  for the same bootID", of a controller that reconciles again within the life of the CR.
* The annotation patch names the node only: one of a worker that still holds the removed
  node annotates the new node of the name, which in the same boot then goes unchecked.
* An expired CR is deleted by name (`checknodehealth/controller.go:130`): from a lagging
  cache the deletion may hit a CR that was created since.  Both abstract specifications
  let a check be deleted at any time.
* An Unknown verdict resets the breaker's streak.
* `RecordResult` counts statuses other than Healthy and Unhealthy under an empty one.
* `config.go:97` and `:158` speak of the maximum of objects that "can exist at any one
  time"; two processes that overlap exceed it, as section 3.5 says.
* Two CSI drivers of one type with different storage classes pass validation
  (`validation.go:161`), but their claims have one name: every run then ends in an
  AlreadyExists, and its first claim stays until it is collected.
* The Azure policy checker takes any error that is not a timeout, a lost connection
  for one, for a policy that is not enforced (`azure_policy.go:144`).

## 7. What is not modelled

* Two controller processes at once: one replica is deployed, leader election is off by
  default, and a rolling update may overlap.
* What the pod startup checker measures and concludes, and the results of both
  checkers that create objects; the models follow their objects.
* The metrics endpoint but for its failure and end; logging, probes and flags:
  I/O and library code.
* Configuration files, but for what validation lets through of limits and drivers.
* Manifests, CRDs and generated deep copies, but for what the models cite of them
  (the required `startedAt`, one replica, `restartPolicy: Never`).
* Names, messages and reasons; cut pod names that might collide.  Error codes matter in
  module 6 only.
* Signals and checks that are deleted by hand while their owner stays.
* Kubernetes itself, beyond the calls of this code: objects, optimistic
  concurrency, finalizers, watches and owner garbage collection are modelled as
  their clients see them.
