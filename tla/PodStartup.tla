------------------------------ MODULE PodStartup ------------------------------
(***************************************************************************)
(* A run of the pod startup checker (pkg/checker/podstartup): it creates a  *)
(* claim for each CSI driver, a node pool if configured, and a pod, looks   *)
(* how long the pod takes to start, and deletes all of them in deferred     *)
(* calls, in reverse order.  What is left behind by calls that fail, by     *)
(* deadlines and by processes that die is for the garbage collection at the *)
(* beginning of a later run.                                                *)
(*                                                                          *)
(* The result of the run and how it is measured are left out: polling, the  *)
(* image pull time, the pod's IP and the TCP connection only read.          *)
(***************************************************************************)
EXTENDS SyntheticObjects

drivers == Len(config.csis)

-----------------------------------------------------------------------------
(* Garbage collection *)

\* (Names with a suffix are faulty variants of the definition that follows.)
syntheticPodGarbageCollection_Never == {}
syntheticPodGarbageCollection ==
    {o \in OfKind({"pod"}) : o.id \in outdated}

persistentVolumeClaimGarbageCollection_Never == {}
persistentVolumeClaimGarbageCollection ==
    {o \in OfKind(CSITypes) : o.id \in outdated}

\* All node pools that carry the label's key: of any age, and of any run.
deleteAllKarpenterNodePools ==
    IF config.nodepools THEN OfKind({"nodepool"}) ELSE {}

\* A tick starts a run: garbage is collected, errors notwithstanding, and then the
\* run takes its timestamp.
garbageCollect(p) ==
    /\ At(p, "idle")
    /\ \E id \in Ids :
        /\ Fresh(id)
        /\ Collect(p,
                   syntheticPodGarbageCollection \union deleteAllKarpenterNodePools
                     \union persistentVolumeClaimGarbageCollection,
                   Started("checkCSIResourceLimit", id))

-----------------------------------------------------------------------------
(* Persistent volume claims *)

\* validateStorageClasses reads, and ends the run when one is missing or cannot be
\* read, here as a call that fails (a class that stays away ends every run here); then
\* the claims are counted, if there are drivers to create claims for.
checkCSIResourceLimit_OffByOne(p) ==
    /\ At(p, "checkCSIResourceLimit")
    /\ IF drivers = 0
       THEN Succeeds(p, To(p, "listPods")) /\ UNCHANGED cluster
       ELSE Count(p, CSITypes, config.max * drivers + 1,
                  ToItem(p, "createCSIResources", 1), NoRun)
checkCSIResourceLimit(p) ==
    /\ At(p, "checkCSIResourceLimit")
    /\ IF drivers = 0
       THEN Succeeds(p, To(p, "listPods")) /\ UNCHANGED cluster
       ELSE Count(p, CSITypes, config.max * drivers,
                  ToItem(p, "createCSIResources", 1), NoRun)

\* One claim after the other; after an error the run ends, and as deleteCSIResources
\* is deferred only later, the claims created so far stay.
createCSIResources(p) ==
    /\ At(p, "createCSIResources")
    /\ Create(p, Obj(config.csis[run[p].i], run[p].id),
              IF run[p].i < drivers THEN ToItem(p, "createCSIResources", run[p].i + 1)
                                    ELSE To(p, "listPods"),
              NoRun)

\* Deferred: where a run that has its claims ends.
Unwound_Only(p) == NoRun
Unwound(p) == IF drivers = 0 THEN NoRun ELSE ToItem(p, "deleteCSIResources", 1)

\* The deletion of the claims stops at the first error.
deleteCSIResources(p) ==
    /\ At(p, "deleteCSIResources")
    /\ Delete(p, Obj(config.csis[run[p].i], run[p].id),
              IF run[p].i < drivers THEN ToItem(p, "deleteCSIResources", run[p].i + 1)
                                    ELSE NoRun,
              NoRun)

-----------------------------------------------------------------------------
(* Node pool and pod *)

listPods_OffByOne(p) ==
    /\ At(p, "listPods")
    /\ Count(p, {"pod"}, config.max + 1,
             To(p, IF config.nodepools THEN "createKarpenterNodePool" ELSE "createPod"),
             Unwound(p))
listPods(p) ==
    /\ At(p, "listPods")
    /\ Count(p, {"pod"}, config.max,
             To(p, IF config.nodepools THEN "createKarpenterNodePool" ELSE "createPod"),
             Unwound(p))

\* Without Karpenter's CRD the run is skipped, which for the cluster is an error of
\* isKarpenterNodePoolCRDPresent.
createKarpenterNodePool(p) ==
    /\ At(p, "createKarpenterNodePool")
    /\ Create(p, Obj("nodepool", run[p].id), To(p, "createPod"), Unwound(p))

\* The deletion of the node pool is deferred together with the pod's, after this
\* call: if it fails the node pool stays.
createPod(p) ==
    /\ At(p, "createPod")
    /\ Create(p, Obj("pod", run[p].id), To(p, "poll"), Unwound(p))

\* What the pod of p needs, and the pod itself.
Needed(p) ==
    {Obj(kind, run[p].id) :
        kind \in {"pod"} \union {config.csis[i] : i \in 1..drivers}
                   \union (IF config.nodepools THEN {"nodepool"} ELSE {})}

\* All that is read until the result is known.  When another process has collected
\* some of what is needed, that may not be before the deadline.
poll(p) ==
    /\ At(p, "poll")
    /\ \/ Succeeds(p, To(p, "deletePod"))
       \/ Fails(p, To(p, "deletePod"))
       \/ ~ (Needed(p) \subseteq objects \ terminating) /\ Succeeds(p, NoRun)
    /\ UNCHANGED cluster

AfterPod(p) == IF config.nodepools THEN To(p, "deleteKarpenterNodePool") ELSE Unwound(p)

deletePod(p) ==
    /\ At(p, "deletePod")
    /\ Delete(p, Obj("pod", run[p].id), AfterPod(p), AfterPod(p))

deleteKarpenterNodePool(p) ==
    /\ At(p, "deleteKarpenterNodePool")
    /\ Delete(p, Obj("nodepool", run[p].id), Unwound(p), Unwound(p))

\* PodStartupChecker.check, step by step.
PodStartupStep(p) ==
    /\ config.checker = "PodStartup"
    /\ \/ garbageCollect(p)
       \/ checkCSIResourceLimit(p)
       \/ createCSIResources(p)
       \/ listPods(p)
       \/ createKarpenterNodePool(p)
       \/ createPod(p)
       \/ poll(p)
       \/ deletePod(p)
       \/ deleteKarpenterNodePool(p)
       \/ deleteCSIResources(p)
    /\ UNCHANGED config
=============================================================================
