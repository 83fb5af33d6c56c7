--------------------------- MODULE CheckNodeHealth ---------------------------
(***************************************************************************)
(* The life of one CheckNodeHealth name: the custom resource (CR) in the    *)
(* API server, the checker pod made for it, the node checker that runs in   *)
(* the pod (pkg/nodecheckerrunner) and the controller that drives them      *)
(* (pkg/controller/checknodehealth).                                        *)
(*                                                                          *)
(* One name sees several incarnations of the CR, and each may see several   *)
(* pods; the pod's name is computed from the CR's, so at most one pod       *)
(* object exists at a time.  The controller reads both through informer     *)
(* caches that lag behind the API server, and writes with optimistic        *)
(* concurrency; the node checker reads and writes the API server.           *)
(*                                                                          *)
(* An object is a record; uid = 0 stands for "no such object".  A CR's rv   *)
(* counts the writes to that incarnation: the resourceVersion is unique to  *)
(* an incarnation and a write, so comparing it is comparing uid and rv.     *)
(***************************************************************************)
EXTENDS Naturals, HealthVerdict

CONSTANTS
    MaxCRs,               \* how many times the CR may be created
    MaxFaults,            \* failed calls, lost answers, crashes, evictions
    ReportedStatus,       \* what the node checker's network check may conclude
    UsersDelete,          \* whether anybody deletes a CR before it expires
    EnableNodeCondition   \* the flag of cmd/controller/checknodehealth

ASSUME ConstantsAssumption ==
    /\ MaxCRs \in Nat
    /\ MaxFaults \in Nat
    /\ ReportedStatus \subseteq CheckStatus
    /\ UsersDelete \in BOOLEAN
    /\ EnableNodeCondition \in BOOLEAN

VARIABLES
    cr,         \* the CR in the API server
    pod,        \* its checker pod in the API server
    runner,     \* the node checker process in that pod
    nodeCond,   \* the NodeHealthy condition last written on the node
    crCache,    \* the controller's informer cache of the CR
    podCache,   \* the controller's informer cache of the pod
    queued,     \* the CR's name is in the controller's work queue
    wk,         \* the controller's worker: where it is, and its local copies
    crCount,    \* CRs created so far; the newest has this uid
    podCount,   \* pods created so far
    crOld,      \* CRs with a uid up to this one are older than CRTTL
    podOld,     \* pods with a uid up to this one are older than PodTimeout
    faults      \* faults so far

apiVars   == <<cr, pod, crCount, podCount>>
cacheVars == <<crCache, podCache>>
timeVars  == <<crOld, podOld>>
vars == <<apiVars, runner, nodeCond, cacheVars, queued, wk, timeVars, faults>>

-----------------------------------------------------------------------------
(* Objects *)

CR == [uid : Nat, rv : Nat, deleting : BOOLEAN, finalizer : BOOLEAN,
       started : BOOLEAN, finished : BOOLEAN,
       healthy : Verdicts \union {"none"}, results : SUBSET CheckResult]

\* Terminal stands for Succeeded and for Failed: the controller treats them alike.
Phase == {"Pending", "Running", "Terminal"}

\* started: every container is running, or has terminated after it started.
Pod == [uid : Nat, owner : Nat, phase : Phase, started : BOOLEAN, deleting : BOOLEAN]

\* A CR as its creator submits it; the finalizer is the controller's to add.
NewCR(uid) == [uid |-> uid, rv |-> 1, deleting |-> FALSE, finalizer |-> FALSE,
               started |-> FALSE, finished |-> FALSE,
               healthy |-> "none", results |-> {}]

\* buildHealthCheckPod: the pod is owned by the CR it is built from.
NewPod(uid, cnh) == [uid |-> uid, owner |-> cnh.uid, phase |-> "Pending",
                     started |-> FALSE, deleting |-> FALSE]

NoCR  == NewCR(0)
NoPod == NewPod(0, NoCR)

Exists(obj) == obj.uid # 0

\* (Names with a suffix, as in isCompleted_Never, are faulty variants of the
\* definition that follows them: PROJECT.json pairs each with the property that
\* rules it out.)
isCompleted_Never(cnh) == FALSE
isCompleted(cnh) == cnh.finished
isExpired(cnh) == cnh.uid <= crOld
isPodTimeout_AtOnce(p) == p.uid <= podCount
isPodTimeout(p) == p.uid <= podOld
isPodCompleted(p) == p.phase = "Terminal"
areAllContainersStarted(p) == p.started

-----------------------------------------------------------------------------
(* The API server, as the clients' calls use it *)

\* An update carries the resourceVersion it was read at, and is refused when
\* the object has been written, deleted or replaced since.
RVMatches_UidOnly(new) == Exists(cr) /\ cr.uid = new.uid
RVMatches(new) == Exists(cr) /\ cr.uid = new.uid /\ cr.rv = new.rv

\* The object after Status().Update(new): the whole status is new's, metadata
\* stays.  A write that changes nothing leaves the resourceVersion alone.
StatusUpdated_KeepsVersion(new) ==
    [cr EXCEPT !.started = new.started, !.finished = new.finished,
               !.healthy = new.healthy, !.results = new.results]

StatusUpdated(new) ==
    LET obj == [cr EXCEPT !.started = new.started, !.finished = new.finished,
                          !.healthy = new.healthy, !.results = new.results]
    IN  IF obj = cr THEN cr ELSE [obj EXCEPT !.rv = @ + 1]

\* Delete: an object with a finalizer is only marked.
DeletedCR ==
    IF ~ cr.finalizer THEN NoCR
    ELSE IF cr.deleting THEN cr
    ELSE [cr EXCEPT !.deleting = TRUE, !.rv = @ + 1]

\* A terminal pod goes at once; for any other the kubelet first stops it.
DeletedPod == IF isPodCompleted(pod) THEN NoPod ELSE [pod EXCEPT !.deleting = TRUE]

-----------------------------------------------------------------------------
(* The worker (MaxConcurrentReconciles is 1) *)

WorkerPC == {"idle", "expire", "finalize", "ensure", "refetch", "start", "podstart",
             "determine", "condition", "cleanup", "complete", "delete", "unfinalize"}

Idle == [pc |-> "idle", cnh |-> NoCR, pod |-> NoPod]

Fault == faults < MaxFaults /\ faults' = faults + 1

\* Reconcile returned an error or asked to be called again.
Requeue == wk' = Idle /\ queued' = TRUE

\* The call was done: the worker goes on as w, or the answer got lost and it
\* takes the call for failed.
Answered(w) ==
    \/ wk' = w /\ UNCHANGED <<queued, faults>>
    \/ Fault /\ Requeue

\* r.Status().Update(ctx, cnh): on success cnh becomes the stored object.
UpdateStatus(new, next) ==
    \/ /\ RVMatches(new)
       /\ cr' = StatusUpdated(new)
       /\ Answered([wk EXCEPT !.pc = next, !.cnh = cr'])
    \/ /\ ~ RVMatches(new)
       /\ Requeue
       /\ UNCHANGED <<cr, faults>>

ReconcileAt(pc) == wk' = [Idle EXCEPT !.pc = pc, !.cnh = crCache]
CleanUpAt(pc) == wk' = [Idle EXCEPT !.pc = pc]

\* The head of Reconcile: one cached read, then the early returns in order.
Reconcile ==
    /\ wk.pc = "idle"
    /\ queued
    /\ queued' = FALSE
    /\ \/ ~ Exists(crCache) /\ wk' = Idle
       \/ /\ Exists(crCache)
          /\ \/ crCache.deleting /\ ReconcileAt("delete")
             \/ /\ ~ crCache.deleting
                /\ \/ isExpired(crCache) /\ CleanUpAt("expire")
                   \/ /\ ~ isExpired(crCache)
                      /\ \/ ~ crCache.finalizer /\ ReconcileAt("finalize")
                         \/ /\ crCache.finalizer
                            /\ \/ isCompleted(crCache) /\ CleanUpAt("complete")
                               \/ ~ isCompleted(crCache) /\ ReconcileAt("ensure")
    /\ UNCHANGED <<apiVars, runner, nodeCond, cacheVars, timeVars, faults>>

\* r.Delete(ctx, cnh) of an expired CR: by name, with no precondition.
DeleteExpired ==
    /\ wk.pc = "expire"
    /\ cr' = IF Exists(cr) THEN DeletedCR ELSE cr
    /\ Answered(Idle)
    /\ UNCHANGED <<pod, crCount, podCount, runner, nodeCond, cacheVars, timeVars>>

\* r.Update(ctx, cnh) with the finalizer added, and on in the same Reconcile.
AddFinalizer ==
    /\ wk.pc = "finalize"
    /\ \/ /\ RVMatches(wk.cnh)
          /\ cr' = [cr EXCEPT !.finalizer = TRUE, !.rv = @ + 1]
          /\ Answered([wk EXCEPT !.pc = IF isCompleted(cr) THEN "complete" ELSE "ensure",
                                 !.cnh = cr'])
       \/ /\ ~ RVMatches(wk.cnh)
          /\ Requeue
          /\ UNCHANGED <<cr, faults>>
    /\ UNCHANGED <<pod, crCount, podCount, runner, nodeCond, cacheVars, timeVars>>

\* ensureHealthCheckPod: any pod with the CR's label in the cache will do, even
\* one that is terminating; otherwise create it (the name may be taken).
EnsureHealthCheckPod ==
    /\ wk.pc = "ensure"
    /\ \/ /\ Exists(podCache)
          /\ wk' = [wk EXCEPT !.pc = "start", !.pod = podCache]
          /\ UNCHANGED <<pod, podCount, queued, faults>>
       \/ /\ ~ Exists(podCache)
          /\ Exists(pod)
          /\ Requeue
          /\ UNCHANGED <<pod, podCount, faults>>
       \/ /\ ~ Exists(podCache)
          /\ ~ Exists(pod)
          /\ podCount' = podCount + 1
          /\ pod' = NewPod(podCount', wk.cnh)
          /\ Answered([wk EXCEPT !.pc = "refetch"])
    /\ UNCHANGED <<cr, crCount, runner, nodeCond, cacheVars, timeVars>>

\* The created pod is read back through the cache, which may not have it yet.
RefetchPod ==
    /\ wk.pc = "refetch"
    /\ \/ /\ Exists(podCache)
          /\ wk' = [wk EXCEPT !.pc = "start", !.pod = podCache]
          /\ UNCHANGED queued
       \/ /\ ~ Exists(podCache)
          /\ Requeue
    /\ UNCHANGED <<apiVars, runner, nodeCond, cacheVars, timeVars, faults>>

markStarted_NoCondition(cnh) == [cnh EXCEPT !.started = TRUE]
markStarted(cnh) == [cnh EXCEPT !.started = TRUE, !.healthy = "Unknown"]

MarkStarted ==
    /\ wk.pc = "start"
    /\ \/ /\ wk.cnh.started
          /\ wk' = [wk EXCEPT !.pc = "podstart"]
          /\ UNCHANGED <<cr, queued, faults>>
       \/ /\ ~ wk.cnh.started
          /\ UpdateStatus(markStarted(wk.cnh), "podstart")
    /\ UNCHANGED <<pod, crCount, podCount, runner, nodeCond, cacheVars, timeVars>>

PodStuck(p) == p.phase = "Pending" /\ isPodTimeout(p)

markPodStartupResult(status) ==
    UpdateStatus([wk.cnh EXCEPT !.results = updateCheckResult(@, Result("PodStartup", status))],
                 "determine")

UpdatePodstartCheckerResult ==
    /\ wk.pc = "podstart"
    /\ \/ areAllContainersStarted(wk.pod) /\ markPodStartupResult("Healthy")
       \/ /\ ~ areAllContainersStarted(wk.pod)
          /\ PodStuck(wk.pod)
          /\ markPodStartupResult("Unhealthy")
       \/ /\ ~ areAllContainersStarted(wk.pod)
          /\ ~ PodStuck(wk.pod)
          /\ wk' = [wk EXCEPT !.pc = "determine"]
          /\ UNCHANGED <<cr, queued, faults>>
    /\ UNCHANGED <<pod, crCount, podCount, runner, nodeCond, cacheVars, timeVars>>

markCompleted(cnh) ==
    [cnh EXCEPT !.finished = TRUE, !.healthy = determineHealthyCondition(cnh.results)]

CheckOver(p) == isPodCompleted(p) \/ isPodTimeout(p)

AfterCompletion == IF EnableNodeCondition THEN "condition" ELSE "cleanup"

DetermineCheckResult_IgnoresError ==
    /\ wk.pc = "determine"
    /\ CheckOver(wk.pod)
    /\ cr' = IF RVMatches(wk.cnh) THEN StatusUpdated(markCompleted(wk.cnh)) ELSE cr
    /\ wk' = [wk EXCEPT !.pc = AfterCompletion, !.cnh = markCompleted(wk.cnh)]
    /\ UNCHANGED <<pod, crCount, podCount, runner, nodeCond, cacheVars, queued, timeVars, faults>>

\* determineCheckResult up to step 1.  The clock is read again here, after
\* UpdatePodstartCheckerResult read it.
DetermineCheckResult ==
    /\ wk.pc = "determine"
    /\ \/ /\ CheckOver(wk.pod)
          /\ UpdateStatus(markCompleted(wk.cnh), AfterCompletion)
       \/ /\ ~ CheckOver(wk.pod)
          /\ Requeue
          /\ UNCHANGED <<cr, faults>>
    /\ UNCHANGED <<pod, crCount, podCount, runner, nodeCond, cacheVars, timeVars>>

\* Step 2.  The breaker may be open, the node may be gone, a call may fail:
\* each is logged and the cleanup goes on.
UpdateNodeCondition ==
    /\ wk.pc = "condition"
    /\ CleanUpAt("cleanup")
    /\ nodeCond' \in {nodeCond, [uid |-> wk.cnh.uid, status |-> wk.cnh.healthy]}
    /\ UNCHANGED <<apiVars, runner, cacheVars, queued, timeVars, faults>>

NodeCheckerPC == {"off", "checking", "read", "exited"}

RunnerOff == [pc |-> "off", cnh |-> NoCR]
RunnerExited == [pc |-> "exited", cnh |-> NoCR]

\* cleanupPod: the pods to delete are listed from the cache.
cleanupPod ==
    IF Exists(podCache) /\ Exists(pod)
    THEN /\ pod' = DeletedPod
         /\ runner' = IF Exists(DeletedPod) THEN runner ELSE RunnerOff
    ELSE UNCHANGED <<pod, runner>>

\* Step 3.  A failure returns no error, so nothing is requeued.
CleanupPod ==
    /\ wk.pc = "cleanup"
    /\ wk' = Idle
    /\ \/ cleanupPod /\ UNCHANGED faults
       \/ Fault /\ UNCHANGED <<pod, runner>>
       \/ Fault /\ cleanupPod
    /\ UNCHANGED <<cr, crCount, podCount, nodeCond, cacheVars, queued, timeVars>>

HandleCompletion_NoCleanup ==
    /\ wk.pc = "complete"
    /\ Answered(Idle)
    /\ UNCHANGED <<apiVars, runner, nodeCond, cacheVars, timeVars>>

HandleCompletion ==
    /\ wk.pc = "complete"
    /\ cleanupPod
    /\ Answered(Idle)
    /\ UNCHANGED <<cr, crCount, podCount, nodeCond, cacheVars, timeVars>>

HandleDeletion ==
    /\ wk.pc = "delete"
    /\ cleanupPod
    /\ Answered([wk EXCEPT !.pc = "unfinalize"])
    /\ UNCHANGED <<cr, crCount, podCount, nodeCond, cacheVars, timeVars>>

\* The end of handleDeletion: the object goes with its last finalizer.
RemoveFinalizer ==
    /\ wk.pc = "unfinalize"
    /\ \/ RVMatches(wk.cnh) /\ cr' = NoCR /\ Answered(Idle)
       \/ ~ RVMatches(wk.cnh) /\ Requeue /\ UNCHANGED <<cr, faults>>
    /\ UNCHANGED <<pod, crCount, podCount, runner, nodeCond, cacheVars, timeVars>>

\* Whether the worker is about to call the API server (or list the cache).
Calling ==
    \/ wk.pc \in {"expire", "finalize", "ensure", "complete", "delete", "unfinalize"}
    \/ wk.pc = "start" /\ ~ wk.cnh.started
    \/ wk.pc = "podstart" /\ (areAllContainersStarted(wk.pod) \/ PodStuck(wk.pod))
    \/ wk.pc = "determine" /\ CheckOver(wk.pod)

\* The call fails and changes nothing; Reconcile returns the error.
CallFails ==
    /\ Calling
    /\ Fault
    /\ Requeue
    /\ UNCHANGED <<apiVars, runner, nodeCond, cacheVars, timeVars>>

\* The controller process restarts: empty queue, fresh lists, and every listed
\* object enqueues its CR's name.
Crash ==
    /\ Fault
    /\ wk' = Idle
    /\ crCache' = cr
    /\ podCache' = pod
    /\ queued' = (Exists(cr) \/ Exists(pod))
    /\ UNCHANGED <<apiVars, runner, nodeCond, timeVars>>

WorkerStep ==
    \/ Reconcile \/ DeleteExpired \/ AddFinalizer \/ EnsureHealthCheckPod \/ RefetchPod
    \/ MarkStarted \/ UpdatePodstartCheckerResult \/ DetermineCheckResult
    \/ UpdateNodeCondition \/ CleanupPod \/ HandleCompletion \/ HandleDeletion
    \/ RemoveFinalizer

-----------------------------------------------------------------------------
(* Informers, time, and the users of the API server *)

\* Every event of the CR enqueues it (For) ...
WatchCR ==
    /\ crCache # cr
    /\ crCache' = cr
    /\ queued' = TRUE
    /\ UNCHANGED <<apiVars, runner, nodeCond, podCache, wk, timeVars, faults>>

\* ... and so does every event of a pod it owns, by the owner's name (Owns).
WatchPod ==
    /\ podCache # pod
    /\ podCache' = pod
    /\ queued' = TRUE
    /\ UNCHANGED <<apiVars, runner, nodeCond, crCache, wk, timeVars, faults>>

\* SyncPeriod: every cached CR is enqueued once an hour.
Resync ==
    /\ Exists(crCache)
    /\ ~ queued
    /\ queued' = TRUE
    /\ UNCHANGED <<apiVars, runner, nodeCond, cacheVars, wk, timeVars, faults>>

\* PodTimeout passes for a pod and all older ones, there or not ...
PodTimesOut ==
    /\ podOld' \in (podOld + 1)..podCount
    /\ UNCHANGED <<apiVars, runner, nodeCond, cacheVars, queued, wk, crOld, faults>>

\* ... and CRTTL for a CR.
CRExpires ==
    /\ crOld' \in (crOld + 1)..crCount
    /\ UNCHANGED <<apiVars, runner, nodeCond, cacheVars, queued, wk, podOld, faults>>

\* The node controller, the HealthCheckRequest controller or a user creates
\* the CR; the name is free for reuse once the previous one is gone.
CreateCR ==
    /\ ~ Exists(cr)
    /\ crCount < MaxCRs
    /\ crCount' = crCount + 1
    /\ cr' = NewCR(crCount')
    /\ UNCHANGED <<pod, podCount, runner, nodeCond, cacheVars, queued, wk, timeVars, faults>>

\* A user, or the garbage collector on behalf of the CR's owner, deletes it.
DeleteCR ==
    /\ UsersDelete
    /\ Exists(cr)
    /\ ~ cr.deleting
    /\ cr' = DeletedCR
    /\ UNCHANGED <<pod, crCount, podCount, runner, nodeCond, cacheVars, queued, wk, timeVars,
                   faults>>

-----------------------------------------------------------------------------
(* The node: kubelet, node checker, garbage collection of pods *)

nodeUnchanged == UNCHANGED <<crCount, podCount, nodeCond, cacheVars, queued, wk, timeVars>>

PodStarts ==
    /\ Exists(pod)
    /\ pod.phase = "Pending"
    /\ pod' = [pod EXCEPT !.phase = "Running", !.started = TRUE]
    /\ runner' = [runner EXCEPT !.pc = "checking"]
    /\ UNCHANGED <<cr, faults>> /\ nodeUnchanged

\* The kubelet refuses the pod, or it fails before its container starts.
PodRejected ==
    /\ Exists(pod)
    /\ pod.phase = "Pending"
    /\ pod' = [pod EXCEPT !.phase = "Terminal"]
    /\ UNCHANGED <<cr, runner, faults>> /\ nodeUnchanged

\* The checkers are done; updateCheckNodeHealthStatus reads the CR by name.
RunnerReads ==
    /\ runner.pc = "checking"
    /\ runner' = IF Exists(cr) THEN [pc |-> "read", cnh |-> cr] ELSE RunnerExited
    /\ UNCHANGED <<cr, pod, faults>> /\ nodeUnchanged

\* The CRD's schema requires status.startedAt.
SchemaAccepts(cnh) == cnh.started

\* It appends the result and updates the status; on a conflict it does not read
\* again.  Whatever the answer, main exits: with 0, or with 1.
RunnerWrites(status) ==
    LET new == [runner.cnh EXCEPT !.results = @ \union {Result("PodNetwork", status)}]
    IN  /\ runner.pc = "read"
        /\ \/ /\ RVMatches(new)
              /\ SchemaAccepts(new)
              /\ cr' = [StatusUpdated(new) EXCEPT !.rv = cr.rv + 1]
           \/ ~ (RVMatches(new) /\ SchemaAccepts(new)) /\ UNCHANGED cr
        /\ runner' = RunnerExited
        /\ UNCHANGED <<pod, faults>> /\ nodeUnchanged

\* A client, a read or the write fails: main exits with 1.
RunnerFails ==
    /\ runner.pc \in {"checking", "read"}
    /\ runner' = RunnerExited
    /\ UNCHANGED <<cr, pod, faults>> /\ nodeUnchanged

\* restartPolicy: Never.
PodExits ==
    /\ Exists(pod)
    /\ pod.phase = "Running"
    /\ runner.pc = "exited"
    /\ pod' = [pod EXCEPT !.phase = "Terminal"]
    /\ runner' = RunnerOff
    /\ UNCHANGED <<cr, faults>> /\ nodeUnchanged

\* The kubelet has stopped a deleted pod, wherever its node checker was.
PodRemoved ==
    /\ pod.deleting
    /\ pod' = NoPod
    /\ runner' = RunnerOff
    /\ UNCHANGED <<cr, faults>> /\ nodeUnchanged

deletePod ==
    /\ Exists(pod)
    /\ ~ pod.deleting
    /\ pod' = DeletedPod
    /\ runner' = IF Exists(DeletedPod) THEN runner ELSE RunnerOff

\* The ownerReference's garbage collection: the owner is looked up by uid.
OwnerGC == pod.owner # cr.uid /\ deletePod /\ UNCHANGED <<cr, faults>> /\ nodeUnchanged

\* Eviction, a drain, or the pod garbage collector.
PodEvicted == Fault /\ deletePod /\ UNCHANGED cr /\ nodeUnchanged

Environment ==
    \/ WatchCR \/ WatchPod \/ Resync \/ PodTimesOut \/ CRExpires \/ CreateCR \/ DeleteCR
    \/ PodStarts \/ PodRejected \/ RunnerReads \/ (\E s \in ReportedStatus : RunnerWrites(s))
    \/ RunnerFails \/ PodExits \/ PodRemoved \/ OwnerGC \/ PodEvicted

-----------------------------------------------------------------------------
Init ==
    /\ cr = NoCR /\ crCache = NoCR /\ crCount = 0 /\ crOld = 0
    /\ pod = NoPod /\ podCache = NoPod /\ podCount = 0 /\ podOld = 0
    /\ runner = RunnerOff
    /\ nodeCond = [uid |-> 0, status |-> "Unknown"]
    /\ queued = FALSE
    /\ wk = Idle
    /\ faults = 0

Next == WorkerStep \/ CallFails \/ Crash \/ Environment

Spec == Init /\ [][Next]_vars

\* The work queue hands out what it holds and the worker's calls return; watches
\* deliver; the resync timer and PodTimeout pass; kubelets stop deleted pods and
\* the garbage collector collects.  Nothing obliges a container to start, the
\* node checker to make progress, or anybody to create or delete a CR.
Fairness ==
    /\ WF_vars(WorkerStep)
    /\ WF_vars(WatchCR) /\ WF_vars(WatchPod) /\ WF_vars(Resync)
    /\ WF_vars(PodTimesOut)
    /\ WF_vars(PodRemoved) /\ WF_vars(OwnerGC)

FairSpec == Spec /\ Fairness

-----------------------------------------------------------------------------
(* Properties *)

Types ==
    /\ cr \in CR /\ crCache \in CR
    /\ pod \in Pod /\ podCache \in Pod
    /\ runner \in [pc : NodeCheckerPC, cnh : CR]
    /\ nodeCond \in [uid : Nat, status : Verdicts \union {"none"}]
    /\ queued \in BOOLEAN
    /\ wk \in [pc : WorkerPC, cnh : CR, pod : Pod]
    /\ crCount \in Nat /\ podCount \in Nat /\ crOld \in Nat /\ podOld \in Nat
    /\ faults \in Nat

ValidStatus(cnh) ==
    /\ cnh.finished => cnh.started
    /\ cnh.started <=> cnh.healthy \in Verdicts

\* Types, and what makes a status valid: the Healthy condition is there once
\* StartedAt is, and FinishedAt never without it (markStarted, markCompleted).
TypeOK == Types /\ ValidStatus(cr)

Coherent(copy) ==
    /\ copy.uid <= crCount
    /\ Exists(copy) /\ copy.uid = cr.uid =>
          /\ copy.rv <= cr.rv
          /\ copy.rv = cr.rv => copy = cr
          /\ copy.finished => cr.finished /\ cr.healthy = copy.healthy

\* A pod that a copy shows terminated has terminated.
PodCoherent(copy) ==
    /\ copy.uid <= podCount
    /\ Exists(copy) /\ copy.uid = pod.uid /\ isPodCompleted(copy) => isPodCompleted(pod)

\* What the worker's place in Reconcile says of its copy.
WorkerKnows ==
    /\ wk.pc \in {"ensure", "refetch", "start", "podstart", "determine"} =>
          Exists(wk.cnh) /\ ~ wk.cnh.finished
    /\ wk.pc \in {"podstart", "determine"} => wk.cnh.started
    /\ wk.pc = "condition" => Exists(wk.cnh) /\ wk.cnh.finished

\* Every copy of the CR anybody holds, the cache's, the worker's and the node
\* checker's, is of this or an earlier incarnation; a copy with the current
\* resourceVersion is the current object, and a copy that is finished shows the
\* current verdict; and the copies of the pod are behind it, never ahead.  This is
\* what makes the optimistic concurrency of Update and Status().Update sound;
\* every other safety property here rests on it.
SnapshotCoherent ==
    /\ WorkerKnows
    /\ cr.uid <= crCount
    /\ Coherent(crCache)
    /\ Coherent(wk.cnh)
    /\ Coherent(runner.cnh)
    /\ pod.uid <= podCount
    /\ PodCoherent(podCache)
    /\ PodCoherent(wk.pod)

\* A True verdict rests on a Healthy result of every required check in the same
\* status, however many controllers' and node checkers' writes came between
\* (determineHealthyCondition, RequiredCheckResults).
TrueNeedsEvidence ==
    cr.healthy = "True" =>
        \A name \in {"PodStartup", "PodNetwork"} : Result(name, "Healthy") \in cr.results

\* The node's NodeHealthy condition never shows a verdict that is not the one
\* stored in the CR it came from: updateNodeCondition follows a markCompleted
\* that succeeded, and the stored verdict does not change afterwards.
NodeConditionMatchesVerdict ==
    Exists(nodeCond) /\ nodeCond.uid = cr.uid => cr.finished /\ cr.healthy = nodeCond.status

SameCR == Exists(cr) /\ cr'.uid = cr.uid

Finishing == SameCR /\ ~ cr.finished /\ cr'.finished

\* Once a check is finished its verdict is never changed or withdrawn: neither
\* by a worker with an old copy nor by a node checker that reports late.
VerdictFinal ==
    [][SameCR /\ cr.finished => cr'.finished /\ cr'.healthy = cr.healthy]_vars

\* A result the node checker has stored is never lost to the controller's
\* status updates, which overwrite the whole list (markStarted,
\* markPodStartupResult, markCompleted).
NoLostResults ==
    [][SameCR => \A r \in cr.results : r.name # "PodStartup" => r \in cr'.results]_vars

\* A check is not finished on stale grounds: the pod the worker decided on has,
\* in the API server too, terminated, gone, or outlived PodTimeout.
NotFinishedEarly ==
    [][Finishing => \/ pod.uid # wk.pod.uid
                    \/ pod.phase = "Terminal"
                    \/ pod.uid <= podOld]_vars

\* types.go: "When created, the controller runs health checks on the target
\* node": the pod a check is finished on is one created for that check.
RunsItsOwnCheck == [][Finishing => wk.pod.owner = cr.uid]_vars

\* Reconcile never forgets a check: when nothing is queued and the worker is at rest,
\* with nothing new of the CR and of its pod to be heard of, the check is finished
\* and its pod gone or going.  An unfinished check is always called for again, every
\* deletion is served, and a cleanup that failed is made up for (DetermineCheckResult,
\* CleanupPod, HandleCompletion, HandleDeletion).
NothingForgotten ==
    /\ wk = Idle /\ ~ queued
    /\ crCache = cr /\ podCache = pod
    /\ Exists(cr)
    => /\ cr.finished /\ ~ cr.deleting
       /\ Exists(pod) => pod.deleting

\* Every CR comes to rest: finished with no pod left behind, or, once deleted or
\* past CRTTL, gone together with its pod.  PodTimeout ends the check however the
\* pod and the node checker fare; a cleanup that failed and requeued nothing, or
\* did not see a pod just created, is made up for by later events, by the resync
\* or by the ownerReference (determineCheckResult, handleCompletion,
\* handleDeletion, buildHealthCheckPod).
AtRest(u) ==
    \/ cr.uid = u /\ cr.finished /\ ~ cr.deleting /\ crOld < u /\ ~ Exists(pod)
    \/ cr.uid # u /\ pod.owner # u

ChecksComeToRest == \A u \in 1..MaxCRs : (cr.uid = u \/ pod.owner = u) ~> AtRest(u)

\* The CR, seen without the machinery, is a one-time check (types.go:14-17).
StageOf(cnh) ==
    IF ~ Exists(cnh) THEN "absent"
    ELSE IF cnh.finished THEN "finished"
    ELSE IF cnh.started THEN "started"
    ELSE "requested"

CheckOf(cnh) == [uid |-> cnh.uid, stage |-> StageOf(cnh), results |-> cnh.results,
                 verdict |-> IF cnh.finished THEN cnh.healthy ELSE "none"]

OneShot == INSTANCE OneShotCheck WITH check <- CheckOf(cr), requested <- crCount

\* The controller, the node checkers and the API server together implement the
\* one-time check: whatever is lost, refused or repeated, each step of theirs is
\* a step of OneShotCheck or none at all.
ImplementsOneShotCheck == OneShot!Spec

\* And what other controllers rely on (healthcheckrequest/controller.go:161): a check
\* finishes once, never after somebody has deleted it, however old the copy is that a
\* worker concludes it on, and no late write of a worker or a node checker undoes the
\* end or the deletion.
LifeOf(cnh) == [exists |-> Exists(cnh), finished |-> cnh.finished, deleting |-> cnh.deleting]

Life == INSTANCE CheckLife WITH check <- LifeOf(cr)

ImplementsCheckLife == Life!Spec
=============================================================================
