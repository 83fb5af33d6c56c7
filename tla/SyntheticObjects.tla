--------------------------- MODULE SyntheticObjects ---------------------------
(***************************************************************************)
(* The objects that checkers of the cluster health monitor create in the    *)
(* cluster to see whether it can, the runs that create them, and the API    *)
(* calls in between.  One checker of the configuration file is modelled,    *)
(* in every process that has read the file: during a rolling update of the  *)
(* Deployment there are two.                                                *)
(*                                                                          *)
(* Ages are compared with the checker's Timeout only.  It is also the       *)
(* deadline of a run (main.go:112, podstartup.go:71): what a run created    *)
(* is outdated at some time after the run's deadline, or its death.  Only   *)
(* when clocks differ, or by the second to which creation times are cut,    *)
(* is it so for another process a little before.                            *)
(***************************************************************************)
EXTENDS Naturals, Sequences, FiniteSets

CONSTANTS
    Processes,     \* processes of the Deployment that may overlap
    Ids,           \* timestamps in names, reused once nothing is named after them
    Configs,       \* configurations to consider
    MaxFaults      \* bound on failed calls, lost answers, deadlines, deaths and
                   \* differing clocks

CSITypes == {"azuredisk", "azurefile", "azureblob"}
Kinds == CSITypes \union {"pod", "nodepool", "configmap"}

\* What validation lets through (validation.go): max is MaxSyntheticPods or MaxObjects.
Config == [checker : {"PodStartup", "APIServer"}, max : Nat \ {0},
           csis : Seq(CSITypes), nodepools : BOOLEAN]

ASSUME SyntheticObjectsAssumption ==
    /\ IsFiniteSet(Processes)
    /\ Ids \subseteq Nat \ {0}
    /\ Configs \subseteq Config
    /\ MaxFaults \in Nat

VARIABLES
    config,        \* the checker's configuration
    objects,       \* the checker's objects at the API server
    terminating,   \* those that are deleted, but held by a grace period or a finalizer
    outdated,      \* ids whose objects are older than the checker's timeout
    run,           \* the run of each process
    faults

cluster == <<objects, terminating, outdated>>
vars == <<config, cluster, run, faults>>

Object == [kind : Kinds, id : Ids]
Obj(kind, id) == [kind |-> kind, id |-> id]
OfKind(kinds) == {o \in objects : o.kind \in kinds}
IdsOf(S) == {o.id : o \in S}

\* A run: where it is, the timestamp it names objects with, and the CSI driver its
\* loop is at.  Once its context is over all its calls fail, the deferred ones too, and
\* it changes nothing any more: it is then NoRun at once.
PCs == {"idle",
        "checkCSIResourceLimit", "createCSIResources", "listPods",
        "createKarpenterNodePool", "createPod", "poll",
        "deletePod", "deleteKarpenterNodePool", "deleteCSIResources",
        "listConfigMaps", "createConfigMap", "getConfigMap",
        "deleteConfigMap", "deferredDelete"}
Run == [pc : PCs, id : Ids \union {0}, i : Nat]
NoRun == [pc |-> "idle", id |-> 0, i |-> 0]

At(p, pc) == run[p].pc = pc
To(p, pc) == [pc |-> pc, id |-> run[p].id, i |-> 0]
ToItem(p, pc, i) == [pc |-> pc, id |-> run[p].id, i |-> i]
Started(pc, id) == [pc |-> pc, id |-> id, i |-> 0]

-----------------------------------------------------------------------------
(* API calls *)

\* A call of p succeeds, and p goes on as r.
Succeeds(p, r) ==
    /\ run' = [run EXCEPT ![p] = r]
    /\ UNCHANGED faults

\* A call of p fails, and p goes on as r, unless it is the run's deadline that fails it.
Fails(p, r) ==
    /\ faults < MaxFaults
    /\ faults' = faults + 1
    /\ \E next \in {r, NoRun} : run' = [run EXCEPT ![p] = next]

Created(o) ==
    /\ objects' = objects \union {o}
    /\ UNCHANGED <<terminating, outdated>>

\* Pods have a grace period, claims and node pools a finalizer; ConfigMaps go at once.
Deleted(S) ==
    /\ objects' = {o \in objects : o \notin S \/ o.kind # "configmap"}
    /\ terminating' = terminating \union {o \in objects \cap S : o.kind # "configmap"}
    /\ outdated' = outdated \cap IdsOf(objects')

\* The creation of o by p: on success p goes on as r, after an error as r_error, and
\* the object may be there all the same.
Create(p, o, r, r_error) ==
    \/ o \notin objects /\ Succeeds(p, r) /\ Created(o)
    \/ o \in objects /\ Succeeds(p, r_error) /\ UNCHANGED cluster
    \/ Fails(p, r_error) /\ (UNCHANGED cluster \/ Created(o))

\* The deletion of o by p (NotFound is no error here).
Delete(p, o, r, r_error) ==
    \/ Succeeds(p, r) /\ Deleted({o})
    \/ Fails(p, r_error) /\ (UNCHANGED cluster \/ Deleted({o}))

\* A List that decides between r and r_full, or fails.
Count(p, kinds, limit, r, r_full) ==
    /\ \/ Succeeds(p, IF Cardinality(OfKind(kinds)) < limit THEN r ELSE r_full)
       \/ Fails(p, r_full)
    /\ UNCHANGED cluster

\* Garbage collection: a List and a deletion for each of the objects in S; p goes on,
\* whichever of the calls fail.  What is listed stays in S until it is deleted, and no
\* name is used twice, so the calls are one step.
Collect(p, S, r) ==
    \/ Succeeds(p, r) /\ Deleted(S)
    \/ Fails(p, r) /\ \E part \in SUBSET S : Deleted(part)

\* A timestamp nothing is named after.
Fresh(id) ==
    LET free == Ids \ (IdsOf(objects) \union {run[p].id : p \in Processes}) IN
    /\ id \in free
    /\ \A other \in free : id <= other

-----------------------------------------------------------------------------
(* The surroundings *)

\* A process ends in the middle of a run, and another takes its place.  After a SIGTERM
\* the context is over, and all calls fail until main returns: for the cluster it is
\* as if the process had died at once.
Terminate(p) ==
    /\ run[p].pc # "idle"
    /\ faults < MaxFaults
    /\ run' = [run EXCEPT ![p] = NoRun]
    /\ faults' = faults + 1
    /\ UNCHANGED <<config, cluster>>

\* What was created under id grows older than the checker's timeout: taken as one
\* moment, although a run's claims are created before its pod.
Age(id) ==
    /\ id \in IdsOf(objects) \ outdated
    /\ \A p \in Processes : run[p].id # id
    /\ outdated' = outdated \union {id}
    /\ UNCHANGED <<config, objects, terminating, run, faults>>

\* It already is, for the clock of another process, although its run is not over.
AgeEarly(id) ==
    /\ id \in IdsOf(objects) \ outdated
    /\ faults < MaxFaults
    /\ outdated' = outdated \union {id}
    /\ faults' = faults + 1
    /\ UNCHANGED <<config, objects, terminating, run>>

\* The kubelet, the volume controller and Karpenter let go of what is deleted: a
\* claim (pvc-protection) once no pod uses it.
Removed(o) ==
    /\ o \in terminating
    /\ o.kind \in CSITypes => Obj("pod", o.id) \notin objects
    /\ objects' = objects \ {o}
    /\ terminating' = terminating \ {o}
    /\ outdated' = outdated \cap IdsOf(objects')
    /\ UNCHANGED <<config, run, faults>>

Init ==
    /\ config \in Configs
    /\ objects = {}
    /\ terminating = {}
    /\ outdated = {}
    /\ run = [p \in Processes |-> NoRun]
    /\ faults = 0
=============================================================================
