------------------------ MODULE SyntheticChecks_proofs ------------------------
(***************************************************************************)
(* The types of module SyntheticChecks, and that pods, claims and ConfigMaps *)
(* are each created as module BoundedPool says; the bounds follow from that  *)
(* module's theorem.                                                         *)
(***************************************************************************)
EXTENDS SyntheticChecks, TLAPS

\* What a run holds while it is under way.
RunsTyped ==
    \A p \in Processes :
        /\ run[p].pc # "idle" => run[p].id \in Ids
        /\ run[p].pc \in {"createCSIResources", "deleteCSIResources"} =>
             run[p].i \in 1..drivers

IInv == TypeOK /\ RunsTyped

-----------------------------------------------------------------------------
(* The calls *)

\* The configuration as validation leaves it.
LEMMA ConfigTyped ==
    ASSUME TypeOK
    PROVE  /\ drivers \in Nat
           /\ config.max \in Nat \ {0}
           /\ \A i \in 1..drivers : config.csis[i] \in CSITypes
           /\ \A i \in 1..drivers : config.csis[i] \in Kinds
<1>1. config \in Config
  BY SyntheticObjectsAssumption DEF TypeOK
<1>2. config.csis \in Seq(CSITypes) /\ config.max \in Nat \ {0}
  BY <1>1 DEF Config
<1> QED
  BY <1>2 DEF drivers, Kinds

\* A process that moves leaves the others where they are.
LEMMA MovesAlone ==
    ASSUME TypeOK, NEW p \in Processes, NEW r,
           Succeeds(p, r) \/ Fails(p, r)
    PROVE  /\ run'[p] = r \/ run'[p] = NoRun
           /\ \A q \in Processes : q # p => run'[q] = run[q]
           /\ run' \in [Processes -> {run[q] : q \in Processes} \union {r, NoRun}]
           /\ faults' \in 0..MaxFaults
BY SyntheticObjectsAssumption DEF Succeeds, Fails, TypeOK

ClusterTyped ==
    /\ objects \subseteq Object
    /\ terminating \subseteq {o \in objects : o.kind # "configmap"}
    /\ outdated \subseteq IdsOf(objects)

LEMMA CreatedTyped ==
    ASSUME ClusterTyped, NEW o \in Object, Created(o)
    PROVE  ClusterTyped'
BY DEF ClusterTyped, Created, IdsOf

LEMMA DeletedTyped ==
    ASSUME ClusterTyped, NEW S, Deleted(S)
    PROVE  ClusterTyped' /\ objects' \subseteq objects
<1>1. objects' \subseteq objects /\ objects' \subseteq Object
  BY DEF Deleted, ClusterTyped
<1>2. outdated' \subseteq IdsOf(objects')
  BY DEF Deleted
<1>3. terminating' \subseteq {o \in objects' : o.kind # "configmap"}
  BY DEF Deleted, ClusterTyped
<1> QED
  BY <1>1, <1>2, <1>3 DEF ClusterTyped, IdsOf

LEMMA SameTyped ==
    ASSUME ClusterTyped, UNCHANGED cluster
    PROVE  ClusterTyped'
BY DEF ClusterTyped, cluster, IdsOf

\* What each call leaves behind: the types, and r or an end to the run.
Effect(p, targets) ==
    /\ ClusterTyped'
    /\ faults' \in 0..MaxFaults
    /\ run'[p] \in targets \union {NoRun}
    /\ \A q \in Processes : q # p => run'[q] = run[q]
    /\ run' \in [Processes -> {run[q] : q \in Processes} \union targets \union {NoRun}]

LEMMA CreateEffect ==
    ASSUME TypeOK, NEW p \in Processes, NEW o \in Object, NEW r, NEW r_error,
           Create(p, o, r, r_error)
    PROVE  Effect(p, {r, r_error}) /\ objects' \in {objects, objects \union {o}}
<1>0. ClusterTyped
  BY DEF TypeOK, ClusterTyped
<1>1. CASE Succeeds(p, r) /\ Created(o)
  <2>1. ClusterTyped' /\ objects' \in {objects, objects \union {o}}
    BY <1>0, <1>1, CreatedTyped DEF Created
  <2> QED
    BY <1>1, <2>1, MovesAlone DEF Effect
<1>2. CASE Succeeds(p, r_error) /\ UNCHANGED cluster
  <2>1. ClusterTyped' /\ objects' = objects
    BY <1>0, <1>2, SameTyped DEF cluster
  <2> QED
    BY <1>2, <2>1, MovesAlone DEF Effect
<1>3. CASE Fails(p, r_error) /\ (UNCHANGED cluster \/ Created(o))
  <2>1. ClusterTyped' /\ objects' \in {objects, objects \union {o}}
    BY <1>0, <1>3, SameTyped, CreatedTyped DEF cluster, Created
  <2> QED
    BY <1>3, <2>1, MovesAlone DEF Effect
<1> QED
  BY <1>1, <1>2, <1>3 DEF Create

LEMMA DeleteEffect ==
    ASSUME TypeOK, NEW p \in Processes, NEW o, NEW r, NEW r_error,
           Delete(p, o, r, r_error)
    PROVE  Effect(p, {r, r_error}) /\ objects' \subseteq objects
<1>0. ClusterTyped
  BY DEF TypeOK, ClusterTyped
<1>1. ClusterTyped' /\ objects' \subseteq objects
  BY <1>0, SameTyped, DeletedTyped DEF Delete, cluster
<1> QED
  BY <1>1, MovesAlone DEF Delete, Effect

LEMMA CountEffect ==
    ASSUME TypeOK, NEW p \in Processes, NEW kinds, NEW limit, NEW r, NEW r_full,
           Count(p, kinds, limit, r, r_full)
    PROVE  /\ Effect(p, {r, r_full})
           /\ objects' = objects
           /\ ~ (Cardinality(OfKind(kinds)) < limit) => run'[p] \in {r_full, NoRun}
<1>0. ClusterTyped
  BY DEF TypeOK, ClusterTyped
<1>1. ClusterTyped' /\ objects' = objects
  BY <1>0, SameTyped DEF Count, cluster
<1>2. CASE ~ (Cardinality(OfKind(kinds)) < limit)
  <2>1. Succeeds(p, r_full) \/ Fails(p, r_full)
    BY <1>2 DEF Count
  <2> QED
    BY <1>1, <1>2, <2>1, MovesAlone DEF Effect
<1>3. CASE Cardinality(OfKind(kinds)) < limit
  <2>1. Succeeds(p, r) \/ Fails(p, r_full)
    BY <1>3 DEF Count
  <2> QED
    BY <1>1, <1>3, <2>1, MovesAlone DEF Effect
<1> QED
  BY <1>2, <1>3

LEMMA CollectEffect ==
    ASSUME TypeOK, NEW p \in Processes, NEW S, NEW r, Collect(p, S, r)
    PROVE  Effect(p, {r}) /\ objects' \subseteq objects
<1>0. ClusterTyped
  BY DEF TypeOK, ClusterTyped
<1>1. ClusterTyped' /\ objects' \subseteq objects
  BY <1>0, DeletedTyped DEF Collect
<1> QED
  BY <1>1, MovesAlone DEF Collect, Effect

-----------------------------------------------------------------------------
(* Types *)

LEMMA InitTyped == Init => IInv
<1> SUFFICES ASSUME Init PROVE IInv
  OBVIOUS
<1>1. run \in [Processes -> Run]
  BY DEF Init, NoRun, Run, PCs
<1>2. TypeOK
  BY <1>1, SyntheticObjectsAssumption DEF Init, TypeOK, IdsOf
<1>3. RunsTyped
  BY DEF Init, RunsTyped, NoRun
<1> QED
  BY <1>2, <1>3 DEF IInv

\* A run that p may have: where Effect is shown with such runs, types are preserved.
GoodRun(r) ==
    /\ r \in Run
    /\ r.pc # "idle" => r.id \in Ids
    /\ r.pc \in {"createCSIResources", "deleteCSIResources"} => r.i \in 1..drivers

LEMMA NoRunGood == GoodRun(NoRun)
BY DEF GoodRun, NoRun, Run, PCs

LEMMA EffectTyped ==
    ASSUME IInv, NEW p \in Processes, NEW targets, Effect(p, targets),
           \A r \in targets : GoodRun(r), UNCHANGED config
    PROVE  IInv'
<1>1. \A q \in Processes : GoodRun(run[q])
  BY DEF IInv, TypeOK, RunsTyped, GoodRun
<1>2. \A q \in Processes : GoodRun(run'[q])
  BY <1>1, NoRunGood DEF Effect
<1>3. run' \in [Processes -> Run]
  BY <1>2 DEF Effect, GoodRun
<1>4. TypeOK'
  BY <1>3 DEF Effect, ClusterTyped, TypeOK, IInv, IdsOf
<1>5. drivers' = drivers
  BY DEF drivers
<1>6. RunsTyped'
  BY <1>2, <1>5 DEF RunsTyped, GoodRun
<1> QED
  BY <1>4, <1>6 DEF IInv

\* To and ToItem keep a run good, and so do the ends of a run that has its claims.
LEMMA TargetsGood ==
    ASSUME IInv, NEW p \in Processes, run[p].pc # "idle"
    PROVE  /\ \A pc \in PCs \ {"createCSIResources", "deleteCSIResources"} :
                GoodRun(To(p, pc))
           /\ \A pc \in PCs : \A i \in 1..drivers : GoodRun(ToItem(p, pc, i))
           /\ GoodRun(Unwound(p))
           /\ GoodRun(AfterPod(p))
<1>1. drivers \in Nat
  BY ConfigTyped DEF IInv
<1>0. run[p].id \in Ids
  BY DEF IInv, RunsTyped
<1>2. \A pc \in PCs \ {"createCSIResources", "deleteCSIResources"} : GoodRun(To(p, pc))
  BY <1>0 DEF GoodRun, To, Run
<1>3. \A pc \in PCs : \A i \in 1..drivers : GoodRun(ToItem(p, pc, i))
  BY <1>0, <1>1 DEF GoodRun, ToItem, Run
<1>4. GoodRun(Unwound(p))
  <2>1. CASE drivers = 0
    BY <2>1, NoRunGood DEF Unwound
  <2>2. CASE drivers # 0
    BY <1>1, <1>3, <2>2 DEF Unwound, PCs
  <2> QED
    BY <2>1, <2>2
<1>5. GoodRun(AfterPod(p))
  <2>1. GoodRun(To(p, "deleteKarpenterNodePool"))
    BY <1>2 DEF PCs
  <2>2. AfterPod(p) = To(p, "deleteKarpenterNodePool") \/ AfterPod(p) = Unwound(p)
    BY DEF AfterPod
  <2> QED
    BY <1>4, <2>1, <2>2
<1> QED
  BY <1>2, <1>3, <1>4, <1>5

\* The types hold after each step of a run.
LEMMA StepTyped ==
    ASSUME IInv, NEW p \in Processes, CheckerStep(p)
    PROVE  IInv'
<1>0. UNCHANGED config /\ TypeOK
  BY DEF CheckerStep, PodStartupStep, APIServerStep, IInv
<1>id. ASSUME run[p].pc # "idle" PROVE run[p].id \in Ids
  BY <1>id DEF IInv, RunsTyped
<1>1. ASSUME garbageCollect(p) \/ garbageCollectConfigMaps(p) PROVE IInv'
  <2>0. \A id \in Ids : \A pc \in {"checkCSIResourceLimit", "listConfigMaps"} :
          GoodRun(Started(pc, id))
    BY DEF GoodRun, Started, Run, PCs
  <2>1. \A S : \A id \in Ids : \A pc \in {"checkCSIResourceLimit", "listConfigMaps"} :
          Collect(p, S, Started(pc, id)) => IInv'
    <3> TAKE S
    <3> TAKE id \in Ids
    <3> TAKE pc \in {"checkCSIResourceLimit", "listConfigMaps"}
    <3> HAVE Collect(p, S, Started(pc, id))
    <3>1. Effect(p, {Started(pc, id)})
      BY <1>0, CollectEffect
    <3> QED
      BY <1>0, <2>0, <3>1, EffectTyped
  <2>2. CASE garbageCollect(p)
    BY <2>1, <2>2 DEF garbageCollect
  <2>3. CASE garbageCollectConfigMaps(p)
    BY <2>1, <2>3 DEF garbageCollectConfigMaps
  <2> QED
    BY <1>1, <2>2, <2>3
<1>2. ASSUME checkCSIResourceLimit(p) PROVE IInv'
  <2>0. GoodRun(To(p, "listPods")) /\ GoodRun(NoRun)
    BY <1>2, TargetsGood, NoRunGood DEF checkCSIResourceLimit, At, PCs
  <2>1. CASE drivers = 0
    <3>1. Succeeds(p, To(p, "listPods")) /\ UNCHANGED cluster
      BY <1>2, <2>1 DEF checkCSIResourceLimit
    <3>2. ClusterTyped'
      BY <1>0, <3>1, SameTyped DEF TypeOK, ClusterTyped
    <3>3. Effect(p, {To(p, "listPods")})
      BY <1>0, <3>1, <3>2, MovesAlone DEF Effect
    <3> QED
      BY <1>0, <2>0, <3>3, EffectTyped
  <2>2. CASE drivers # 0
    <3>1. GoodRun(ToItem(p, "createCSIResources", 1))
      BY <1>0, <1>2, <2>2, TargetsGood, ConfigTyped DEF checkCSIResourceLimit, At, PCs
    <3>2. Count(p, CSITypes, config.max * drivers, ToItem(p, "createCSIResources", 1), NoRun)
      BY <1>2, <2>2 DEF checkCSIResourceLimit
    <3>3. Effect(p, {ToItem(p, "createCSIResources", 1), NoRun})
      BY <1>0, <3>2, CountEffect
    <3> QED
      BY <1>0, <2>0, <3>1, <3>3, EffectTyped
  <2> QED
    BY <2>1, <2>2
<1>3. ASSUME createCSIResources(p) \/ deleteCSIResources(p) PROVE IInv'
  <2>1. PICK pc \in {"createCSIResources", "deleteCSIResources"} : run[p].pc = pc
    BY <1>3 DEF createCSIResources, deleteCSIResources, At
  <2>2. run[p].i \in 1..drivers /\ drivers \in Nat
    BY <1>0, <2>1, ConfigTyped DEF IInv, RunsTyped
  <2>3. Obj(config.csis[run[p].i], run[p].id) \in Object
    BY <1>0, <1>id, <2>1, <2>2, ConfigTyped DEF Obj, Object
  <2>4. PICK r \in {ToItem(p, pc, run[p].i + 1), To(p, "listPods"), NoRun} :
          /\ \/ Create(p, Obj(config.csis[run[p].i], run[p].id), r, NoRun)
             \/ Delete(p, Obj(config.csis[run[p].i], run[p].id), r, NoRun)
          /\ r = ToItem(p, pc, run[p].i + 1) => run[p].i < drivers \/ r = To(p, "listPods") \/ r = NoRun
    BY <1>3, <2>1 DEF createCSIResources, deleteCSIResources, At
  <2>5. GoodRun(NoRun) /\ GoodRun(To(p, "listPods"))
    BY <2>1, NoRunGood, TargetsGood DEF PCs
  <2>6. run[p].i < drivers => GoodRun(ToItem(p, pc, run[p].i + 1))
    <3> SUFFICES ASSUME run[p].i < drivers PROVE GoodRun(ToItem(p, pc, run[p].i + 1))
      OBVIOUS
    <3>1. run[p].i + 1 \in 1..drivers /\ pc \in PCs
      BY <2>2 DEF PCs
    <3> QED
      BY <2>1, <3>1, TargetsGood
  <2>7. GoodRun(r)
    BY <2>4, <2>5, <2>6
  <2>8. Effect(p, {r, NoRun})
    BY <1>0, <2>3, <2>4, CreateEffect, DeleteEffect
  <2> QED
    BY <1>0, <2>5, <2>7, <2>8, EffectTyped
<1>4. ASSUME listPods(p) PROVE IInv'
  <2>1. PICK pc \in {"createKarpenterNodePool", "createPod"} :
          Count(p, {"pod"}, config.max, To(p, pc), Unwound(p))
    BY <1>4 DEF listPods
  <2>2. GoodRun(To(p, pc)) /\ GoodRun(Unwound(p))
    BY <1>4, TargetsGood DEF listPods, At, PCs
  <2>3. Effect(p, {To(p, pc), Unwound(p)})
    BY <1>0, <2>1, CountEffect
  <2> QED
    BY <1>0, <2>2, <2>3, EffectTyped
<1>5. ASSUME createKarpenterNodePool(p) \/ createPod(p) PROVE IInv'
  <2>1. PICK kind \in {"nodepool", "pod"}, pc \in {"createPod", "poll"} :
          Create(p, Obj(kind, run[p].id), To(p, pc), Unwound(p))
    BY <1>5 DEF createKarpenterNodePool, createPod
  <2>2. run[p].pc # "idle"
    BY <1>5 DEF createKarpenterNodePool, createPod, At
  <2>3. Obj(kind, run[p].id) \in Object
    BY <1>id, <2>2 DEF Obj, Object, Kinds
  <2>4. GoodRun(To(p, pc)) /\ GoodRun(Unwound(p))
    BY <2>2, TargetsGood DEF PCs
  <2>5. Effect(p, {To(p, pc), Unwound(p)})
    BY <1>0, <2>1, <2>3, CreateEffect
  <2> QED
    BY <1>0, <2>4, <2>5, EffectTyped
<1>6. ASSUME poll(p) \/ getConfigMap(p) PROVE IInv'
  <2>1. PICK pc \in {"deletePod", "deleteConfigMap", "deferredDelete"} :
          /\ Succeeds(p, To(p, pc)) \/ Fails(p, To(p, pc)) \/ Succeeds(p, NoRun)
          /\ UNCHANGED cluster
    BY <1>6 DEF poll, getConfigMap
  <2>2. GoodRun(To(p, pc)) /\ GoodRun(NoRun)
    BY <1>6, TargetsGood, NoRunGood DEF poll, getConfigMap, At, PCs
  <2>3. ClusterTyped'
    BY <1>0, <2>1, SameTyped DEF TypeOK, ClusterTyped
  <2>4. Effect(p, {To(p, pc), NoRun})
    BY <1>0, <2>1, <2>3, MovesAlone DEF Effect
  <2> QED
    BY <1>0, <2>2, <2>4, EffectTyped
<1>7. ASSUME deletePod(p) \/ deleteKarpenterNodePool(p) PROVE IInv'
  <2>1. GoodRun(AfterPod(p)) /\ GoodRun(Unwound(p))
    BY <1>7, TargetsGood DEF deletePod, deleteKarpenterNodePool, At
  <2>2. \A r : {r, r} = {r}
    OBVIOUS
  <2>3. CASE deletePod(p)
    <3>1. Effect(p, {AfterPod(p)})
      BY <1>0, <2>2, <2>3, DeleteEffect DEF deletePod
    <3> QED
      BY <1>0, <2>1, <3>1, EffectTyped
  <2>4. CASE deleteKarpenterNodePool(p)
    <3>1. Effect(p, {Unwound(p)})
      BY <1>0, <2>2, <2>4, DeleteEffect DEF deleteKarpenterNodePool
    <3> QED
      BY <1>0, <2>1, <3>1, EffectTyped
  <2> QED
    BY <1>7, <2>3, <2>4
<1>8. ASSUME listConfigMaps(p) PROVE IInv'
  <2>1. Count(p, {"configmap"}, config.max, To(p, "createConfigMap"), NoRun)
    BY <1>8 DEF listConfigMaps
  <2>2. GoodRun(To(p, "createConfigMap")) /\ GoodRun(NoRun)
    BY <1>8, TargetsGood, NoRunGood DEF listConfigMaps, At, PCs
  <2>3. Effect(p, {To(p, "createConfigMap"), NoRun})
    BY <1>0, <2>1, CountEffect
  <2> QED
    BY <1>0, <2>2, <2>3, EffectTyped
<1>9. ASSUME createConfigMap(p) PROVE IInv'
  <2>1. Create(p, ConfigMap(p), To(p, "getConfigMap"), NoRun)
    BY <1>9 DEF createConfigMap
  <2>2. ConfigMap(p) \in Object
    BY <1>9, <1>id DEF createConfigMap, At, ConfigMap, Obj, Object, Kinds
  <2>3. GoodRun(To(p, "getConfigMap")) /\ GoodRun(NoRun)
    BY <1>9, TargetsGood, NoRunGood DEF createConfigMap, At, PCs
  <2>4. Effect(p, {To(p, "getConfigMap"), NoRun})
    BY <1>0, <2>1, <2>2, CreateEffect
  <2> QED
    BY <1>0, <2>3, <2>4, EffectTyped
<1>10. ASSUME deleteConfigMap(p) \/ deferredDelete(p) PROVE IInv'
  <2>1. PICK r \in {To(p, "deferredDelete"), NoRun} : Delete(p, ConfigMap(p), r, r)
    BY <1>10 DEF deleteConfigMap, deferredDelete
  <2>2. GoodRun(r)
    BY <1>10, TargetsGood, NoRunGood DEF deleteConfigMap, deferredDelete, At, PCs
  <2>3. Effect(p, {r, r}) /\ {r, r} = {r}
    BY <1>0, <2>1, DeleteEffect
  <2> QED
    BY <1>0, <2>2, <2>3, EffectTyped
<1> QED
  BY <1>1, <1>2, <1>3, <1>4, <1>5, <1>6, <1>7, <1>8, <1>9, <1>10
     DEF CheckerStep, PodStartupStep, APIServerStep

LEMMA NextTyped == IInv /\ [Next]_vars => IInv'
<1> SUFFICES ASSUME IInv, [Next]_vars PROVE IInv'
  OBVIOUS
<1> USE DEF IInv
<1>1. ASSUME NEW p \in Processes, CheckerStep(p) PROVE IInv'
  BY <1>1, StepTyped
<1>2. ASSUME NEW p \in Processes, Terminate(p) PROVE IInv'
  <2>1. run' \in [Processes -> Run] /\ faults' \in 0..MaxFaults
    BY <1>2, NoRunGood, SyntheticObjectsAssumption DEF Terminate, TypeOK, GoodRun
  <2>2. TypeOK'
    BY <1>2, <2>1 DEF Terminate, TypeOK, cluster, IdsOf
  <2>3. RunsTyped'
    BY <1>2 DEF Terminate, TypeOK, RunsTyped, NoRun, drivers
  <2> QED
    BY <2>2, <2>3
<1>3. ASSUME NEW id \in Ids, Age(id) \/ AgeEarly(id) PROVE IInv'
  <2>1. faults' \in 0..MaxFaults
    BY <1>3, SyntheticObjectsAssumption DEF Age, AgeEarly, TypeOK
  <2> QED
    BY <1>3, <2>1 DEF Age, AgeEarly, TypeOK, RunsTyped, drivers, IdsOf
<1>4. ASSUME NEW o \in Object, Removed(o) PROVE IInv'
  <2>1. TypeOK'
    BY <1>4 DEF Removed, TypeOK, IdsOf
  <2>2. RunsTyped'
    BY <1>4 DEF Removed, RunsTyped, drivers
  <2> QED
    BY <2>1, <2>2
<1>5. CASE UNCHANGED vars
  BY <1>5 DEF vars, cluster, TypeOK, RunsTyped, drivers, IdsOf
<1> QED
  BY <1>1, <1>2, <1>3, <1>4, <1>5 DEF Next

LEMMA AlwaysTyped == Spec => []IInv
BY InitTyped, NextTyped, PTL DEF Spec

\* TypeOK holds of every run of both checkers: what is being deleted or is outdated is
\* there, for any configuration, number of processes and of faults.
THEOREM SyntheticTypes == Spec => []TypeOK
BY AlwaysTyped, PTL DEF IInv

-----------------------------------------------------------------------------
(* What a step means to the three pools *)

Creating == {"createCSIResources", "createKarpenterNodePool", "createPod", "createConfigMap"}

Quiet(p) ==
    /\ objects' \subseteq objects
    /\ run'[p].pc \notin Creating
AdmitsClaims(p) ==
    /\ objects' = objects
    /\ Cardinality(OfKind(CSITypes)) < config.max * drivers
    /\ run'[p] = ToItem(p, "createCSIResources", 1)
CreatesClaim(p) ==
    /\ run[p].pc = "createCSIResources"
    /\ \E o \in Object : o.kind \in CSITypes /\ objects' \in {objects, objects \union {o}}
    /\ \/ run'[p] = ToItem(p, "createCSIResources", run[p].i + 1)
       \/ run'[p].pc \notin Creating
AdmitsPod(p) ==
    /\ objects' = objects
    /\ Cardinality(OfKind({"pod"})) < config.max
    /\ run'[p].pc \in CreatingPod
CreatesNodePool(p) ==
    /\ run[p].pc = "createKarpenterNodePool"
    /\ \E o \in Object : o.kind = "nodepool" /\ objects' \in {objects, objects \union {o}}
    /\ run'[p].pc = "createPod" \/ run'[p].pc \notin Creating
CreatesPod(p) ==
    /\ run[p].pc = "createPod"
    /\ \E o \in Object : o.kind = "pod" /\ objects' \in {objects, objects \union {o}}
    /\ run'[p].pc \notin Creating
AdmitsConfigMap(p) ==
    /\ objects' = objects
    /\ Cardinality(OfKind({"configmap"})) < config.max
    /\ run'[p].pc = "createConfigMap"
CreatesConfigMap(p) ==
    /\ run[p].pc = "createConfigMap"
    /\ \E o \in Object : o.kind = "configmap" /\ objects' \in {objects, objects \union {o}}
    /\ run'[p].pc \notin Creating

Meaning(p) ==
    \/ Quiet(p) \/ AdmitsClaims(p) \/ CreatesClaim(p) \/ AdmitsPod(p)
    \/ CreatesNodePool(p) \/ CreatesPod(p) \/ AdmitsConfigMap(p) \/ CreatesConfigMap(p)

Others(p) == \A q \in Processes : q # p => run'[q] = run[q]

LEMMA AtRest ==
    ASSUME NEW p
    PROVE  /\ NoRun.pc \notin Creating
           /\ Unwound(p).pc \notin Creating
           /\ AfterPod(p).pc \notin Creating
           /\ \A pc : pc \notin Creating => To(p, pc).pc \notin Creating
           /\ \A pc : To(p, pc).pc = pc
BY DEF NoRun, Unwound, AfterPod, To, ToItem, Creating

LEMMA StepMeaning ==
    ASSUME IInv, NEW p \in Processes, CheckerStep(p)
    PROVE  UNCHANGED config /\ Others(p) /\ Meaning(p)
<1>0. UNCHANGED config /\ TypeOK
  BY DEF CheckerStep, PodStartupStep, APIServerStep, IInv
<1>1. ASSUME garbageCollect(p) \/ garbageCollectConfigMaps(p) PROVE Others(p) /\ Meaning(p)
  <2>1. \A S : \A id \in Ids : \A pc \in {"checkCSIResourceLimit", "listConfigMaps"} :
          Collect(p, S, Started(pc, id)) => Others(p) /\ Quiet(p)
    <3> TAKE S
    <3> TAKE id \in Ids
    <3> TAKE pc \in {"checkCSIResourceLimit", "listConfigMaps"}
    <3> HAVE Collect(p, S, Started(pc, id))
    <3>1. Effect(p, {Started(pc, id)}) /\ objects' \subseteq objects
      BY <1>0, CollectEffect
    <3>2. Started(pc, id).pc \notin Creating
      BY DEF Started, Creating
    <3> QED
      BY <3>1, <3>2, AtRest DEF Effect, Quiet, Others
  <2>2. CASE garbageCollect(p)
    BY <2>1, <2>2 DEF garbageCollect, Meaning
  <2>3. CASE garbageCollectConfigMaps(p)
    BY <2>1, <2>3 DEF garbageCollectConfigMaps, Meaning
  <2> QED
    BY <1>1, <2>2, <2>3
<1>2. ASSUME checkCSIResourceLimit(p) PROVE Others(p) /\ Meaning(p)
  <2>0. "listPods" \notin Creating
    BY DEF Creating
  <2>1. CASE drivers = 0
    <3>1. Succeeds(p, To(p, "listPods")) /\ UNCHANGED cluster
      BY <1>2, <2>1 DEF checkCSIResourceLimit
    <3>2. run'[p] \in {To(p, "listPods"), NoRun} /\ Others(p) /\ objects' = objects
      BY <1>0, <3>1, MovesAlone DEF Others, cluster
    <3>3. run'[p].pc \notin Creating
      BY <2>0, <3>2, AtRest
    <3> QED
      BY <3>2, <3>3 DEF Quiet, Meaning
  <2>2. CASE drivers # 0
    <3>1. Count(p, CSITypes, config.max * drivers, ToItem(p, "createCSIResources", 1), NoRun)
      BY <1>2, <2>2 DEF checkCSIResourceLimit
    <3>2. /\ Effect(p, {ToItem(p, "createCSIResources", 1), NoRun})
          /\ objects' = objects
          /\ ~ (Cardinality(OfKind(CSITypes)) < config.max * drivers) => run'[p] = NoRun
      BY <1>0, <3>1, CountEffect
    <3>3. CASE run'[p] = NoRun
      BY <3>2, <3>3, AtRest DEF Quiet, Meaning, Effect, Others
    <3>4. CASE run'[p] # NoRun
      <4>1. run'[p] = ToItem(p, "createCSIResources", 1) /\ Others(p)
        BY <3>2, <3>4 DEF Effect, Others
      <4>3. Cardinality(OfKind(CSITypes)) < config.max * drivers
        BY <3>2, <3>4
      <4> QED
        BY <3>2, <4>1, <4>3 DEF AdmitsClaims, Meaning
    <3> QED
      BY <3>3, <3>4
  <2> QED
    BY <2>1, <2>2
<1>3. ASSUME createCSIResources(p) PROVE Others(p) /\ Meaning(p)
  <2>1. run[p].pc = "createCSIResources"
    BY <1>3 DEF createCSIResources, At
  <2>2. /\ Obj(config.csis[run[p].i], run[p].id) \in Object
        /\ Obj(config.csis[run[p].i], run[p].id).kind \in CSITypes
    BY <1>0, <2>1, ConfigTyped DEF Obj, Object, IInv, RunsTyped
  <2>3. PICK r \in {ToItem(p, "createCSIResources", run[p].i + 1), To(p, "listPods")} :
          Create(p, Obj(config.csis[run[p].i], run[p].id), r, NoRun)
    BY <1>3 DEF createCSIResources
  <2>4. /\ Effect(p, {r, NoRun})
        /\ objects' \in {objects, objects \union {Obj(config.csis[run[p].i], run[p].id)}}
    BY <1>0, <2>2, <2>3, CreateEffect
  <2>5. To(p, "listPods").pc \notin Creating
    BY AtRest DEF Creating
  <2> QED
    BY <2>1, <2>2, <2>4, <2>5, AtRest DEF Effect, Others, CreatesClaim, Meaning
<1>4. ASSUME listPods(p) PROVE Others(p) /\ Meaning(p)
  <2>1. PICK pc \in {"createKarpenterNodePool", "createPod"} :
          Count(p, {"pod"}, config.max, To(p, pc), Unwound(p))
    BY <1>4 DEF listPods
  <2>2. /\ Effect(p, {To(p, pc), Unwound(p)})
        /\ objects' = objects
        /\ ~ (Cardinality(OfKind({"pod"})) < config.max) => run'[p] \in {Unwound(p), NoRun}
    BY <1>0, <2>1, CountEffect
  <2>3. CASE run'[p] \in {Unwound(p), NoRun}
    BY <2>2, <2>3, AtRest DEF Effect, Others, Quiet, Meaning
  <2>4. CASE run'[p] = To(p, pc) /\ Cardinality(OfKind({"pod"})) < config.max
    BY <2>2, <2>4, AtRest DEF Effect, Others, AdmitsPod, CreatingPod, Meaning
  <2> QED
    BY <2>2, <2>3, <2>4 DEF Effect
<1>5. ASSUME createKarpenterNodePool(p) PROVE Others(p) /\ Meaning(p)
  <2>1. run[p].pc = "createKarpenterNodePool"
    BY <1>5 DEF createKarpenterNodePool, At
  <2>2. Obj("nodepool", run[p].id) \in Object /\ Obj("nodepool", run[p].id).kind = "nodepool"
    BY <2>1 DEF Obj, Object, Kinds, IInv, RunsTyped
  <2>3. /\ Effect(p, {To(p, "createPod"), Unwound(p)})
        /\ objects' \in {objects, objects \union {Obj("nodepool", run[p].id)}}
    BY <1>0, <1>5, <2>2, CreateEffect DEF createKarpenterNodePool
  <2> QED
    BY <2>1, <2>2, <2>3, AtRest DEF Effect, Others, CreatesNodePool, Meaning
<1>6. ASSUME createPod(p) PROVE Others(p) /\ Meaning(p)
  <2>1. run[p].pc = "createPod"
    BY <1>6 DEF createPod, At
  <2>2. Obj("pod", run[p].id) \in Object /\ Obj("pod", run[p].id).kind = "pod"
    BY <2>1 DEF Obj, Object, Kinds, IInv, RunsTyped
  <2>3. /\ Effect(p, {To(p, "poll"), Unwound(p)})
        /\ objects' \in {objects, objects \union {Obj("pod", run[p].id)}}
    BY <1>0, <1>6, <2>2, CreateEffect DEF createPod
  <2>4. To(p, "poll").pc \notin Creating
    BY AtRest DEF Creating
  <2> QED
    BY <2>1, <2>2, <2>3, <2>4, AtRest DEF Effect, Others, CreatesPod, Meaning
<1>7. ASSUME poll(p) \/ getConfigMap(p) PROVE Others(p) /\ Meaning(p)
  <2>1. PICK pc \in {"deletePod", "deleteConfigMap", "deferredDelete"} :
          /\ Succeeds(p, To(p, pc)) \/ Fails(p, To(p, pc)) \/ Succeeds(p, NoRun)
          /\ UNCHANGED cluster
    BY <1>7 DEF poll, getConfigMap
  <2>2. (run'[p] = To(p, pc) \/ run'[p] = NoRun) /\ Others(p) /\ objects' = objects
    BY <1>0, <2>1, MovesAlone DEF Others, cluster
  <2>3. pc \notin Creating
    BY DEF Creating
  <2> QED
    BY <2>2, <2>3, AtRest DEF Quiet, Meaning
<1>8. ASSUME deletePod(p) \/ deleteKarpenterNodePool(p) \/ deleteCSIResources(p)
               \/ deleteConfigMap(p) \/ deferredDelete(p)
      PROVE  Others(p) /\ Meaning(p)
  <2>1. \A o, r, r_error :
          /\ Delete(p, o, r, r_error)
          /\ r.pc \notin Creating
          /\ r_error.pc \notin Creating
          => Others(p) /\ Quiet(p)
    BY <1>0, DeleteEffect, AtRest DEF Effect, Others, Quiet
  <2>2. /\ To(p, "deferredDelete").pc \notin Creating
        /\ ToItem(p, "deleteCSIResources", run[p].i + 1).pc \notin Creating
    BY DEF To, ToItem, Creating
  <2> QED
    BY <1>8, <2>1, <2>2, AtRest
       DEF deletePod, deleteKarpenterNodePool, deleteCSIResources, deleteConfigMap,
           deferredDelete, Meaning
<1>9. ASSUME listConfigMaps(p) PROVE Others(p) /\ Meaning(p)
  <2>1. /\ Effect(p, {To(p, "createConfigMap"), NoRun})
        /\ objects' = objects
        /\ ~ (Cardinality(OfKind({"configmap"})) < config.max) => run'[p] = NoRun
    BY <1>0, <1>9, CountEffect DEF listConfigMaps
  <2>2. CASE run'[p] = NoRun
    BY <2>1, <2>2, AtRest DEF Effect, Others, Quiet, Meaning
  <2>3. CASE run'[p] # NoRun
    <3>1. run'[p] = To(p, "createConfigMap") /\ Others(p)
      BY <2>1, <2>3 DEF Effect, Others
    <3>2. run'[p].pc = "createConfigMap"
      BY <3>1, AtRest
    <3>3. Cardinality(OfKind({"configmap"})) < config.max
      BY <2>1, <2>3
    <3> QED
      BY <2>1, <3>1, <3>2, <3>3 DEF AdmitsConfigMap, Meaning
  <2> QED
    BY <2>2, <2>3
<1>10. ASSUME createConfigMap(p) PROVE Others(p) /\ Meaning(p)
  <2>1. run[p].pc = "createConfigMap"
    BY <1>10 DEF createConfigMap, At
  <2>2. ConfigMap(p) \in Object /\ ConfigMap(p).kind = "configmap"
    BY <2>1 DEF ConfigMap, Obj, Object, Kinds, IInv, RunsTyped
  <2>3. /\ Effect(p, {To(p, "getConfigMap"), NoRun})
        /\ objects' \in {objects, objects \union {ConfigMap(p)}}
    BY <1>0, <1>10, <2>2, CreateEffect DEF createConfigMap
  <2>4. To(p, "getConfigMap").pc \notin Creating
    BY AtRest DEF Creating
  <2> QED
    BY <2>1, <2>2, <2>3, <2>4, AtRest DEF Effect, Others, CreatesConfigMap, Meaning
<1> QED
  BY <1>0, <1>1, <1>2, <1>3, <1>4, <1>5, <1>6, <1>7, <1>8, <1>9, <1>10
     DEF CheckerStep, PodStartupStep, APIServerStep

\* Nothing is created, and no process starts to create.
Unnoticed ==
    /\ objects' \subseteq objects
    /\ \A q \in Processes : run'[q] = run[q] \/ run'[q].pc \notin Creating

LEMMA SystemMeaning ==
    ASSUME IInv, [Next]_vars
    PROVE  /\ UNCHANGED config
           /\ Unnoticed \/ \E p \in Processes : Others(p) /\ Meaning(p)
<1>1. ASSUME NEW p \in Processes, CheckerStep(p)
      PROVE  UNCHANGED config /\ Others(p) /\ Meaning(p)
  BY <1>1, StepMeaning
<1>2. ASSUME NEW p \in Processes, Terminate(p) PROVE UNCHANGED config /\ Unnoticed
  <2>1. run'[p] = NoRun /\ Others(p)
    BY <1>2 DEF Terminate, IInv, TypeOK, Others
  <2> QED
    BY <1>2, <2>1, AtRest DEF Terminate, Unnoticed, Others, cluster
<1>3. ASSUME NEW id \in Ids, Age(id) \/ AgeEarly(id) PROVE UNCHANGED config /\ Unnoticed
  BY <1>3 DEF Age, AgeEarly, Unnoticed
<1>4. ASSUME NEW o \in Object, Removed(o) PROVE UNCHANGED config /\ Unnoticed
  BY <1>4 DEF Removed, Unnoticed
<1>5. CASE UNCHANGED vars
  BY <1>5 DEF vars, cluster, Unnoticed
<1> QED
  BY <1>1, <1>2, <1>3, <1>4, <1>5 DEF Next

-----------------------------------------------------------------------------
(* Pods *)

LEMMA PodStep ==
    ASSUME IInv, [Next]_vars
    PROVE  [PodPool!Next]_(PodPool!vars)
<1>0. UNCHANGED config
  BY SystemMeaning
<1>1. ASSUME \A o \in objects' : o \in objects \/ o.kind # "pod",
             \A q \in Processes :
               run'[q].pc \in CreatingPod => run[q].pc \in CreatingPod
      PROVE  PodPool!Next
  <2>1. PodPool!Drop
    BY <1>1 DEF PodPool!Drop, OfKind, PodTurns
  <2> QED
    BY <1>0, <2>1 DEF PodPool!Next
<1>2. CASE Unnoticed
  BY <1>1, <1>2 DEF Unnoticed, Creating, CreatingPod
<1>3. ASSUME NEW p \in Processes, Others(p), Meaning(p) PROVE PodPool!Next
  <2>1. CASE Quiet(p) \/ AdmitsClaims(p) \/ CreatesClaim(p)
    <3>1. run'[p].pc \notin CreatingPod
      BY <2>1 DEF Quiet, AdmitsClaims, CreatesClaim, ToItem, Creating, CreatingPod
    <3>2. \A o \in objects' : o \in objects \/ o.kind # "pod"
      BY <2>1 DEF Quiet, AdmitsClaims, CreatesClaim, CSITypes
    <3> QED
      BY <1>1, <1>3, <3>1, <3>2 DEF Others
  <2>2. CASE AdmitsConfigMap(p) \/ CreatesConfigMap(p) \/ CreatesNodePool(p)
    BY <1>1, <1>3, <2>2
       DEF AdmitsConfigMap, CreatesConfigMap, CreatesNodePool, Others, Creating, CreatingPod
  <2>3. CASE AdmitsPod(p)
    <3>1. PodTurns' = PodTurns \union {<<p, 1>>}
      BY <1>3, <2>3 DEF AdmitsPod, Others, PodTurns
    <3>2. {<<p, i>> : i \in 1..1} = {<<p, 1>>}
      OBVIOUS
    <3>3. PodPool!Admit(p)
      BY <2>3, <3>1, <3>2 DEF AdmitsPod, PodPool!Admit, OfKind, PodPool!Cardinality, Cardinality
    <3> QED
      BY <1>0, <3>3 DEF PodPool!Next
  <2>4. CASE CreatesPod(p)
    <3>1. <<p, 1>> \in PodTurns /\ PodTurns' \subseteq PodTurns \ {<<p, 1>>}
      BY <1>3, <2>4 DEF CreatesPod, Others, PodTurns, Creating, CreatingPod
    <3>2. PICK o \in Object : o.kind = "pod" /\ objects' \in {objects, objects \union {o}}
      BY <2>4 DEF CreatesPod
    <3>3. CASE objects' = objects
      <4>1. PodPool!Drop
        BY <3>1, <3>3 DEF PodPool!Drop, OfKind
      <4> QED
        BY <1>0, <4>1 DEF PodPool!Next
    <3>4. CASE objects' = objects \union {o}
      <4>1. OfKind({"pod"})' = OfKind({"pod"}) \union {o}
        BY <3>2, <3>4 DEF OfKind
      <4>2. PodPool!Add(<<p, 1>>, o)
        BY <3>1, <4>1 DEF PodPool!Add
      <4> QED
        BY <1>0, <3>1, <4>2 DEF PodPool!Next
    <3> QED
      BY <3>2, <3>3, <3>4
  <2> QED
    BY <1>3, <2>1, <2>2, <2>3, <2>4 DEF Meaning
<1> QED
  BY <1>2, <1>3, SystemMeaning

\* Pods are created as BoundedPool says, whatever else the runs do: a pod is only ever
\* created in a turn that was admitted on a count below MaxSyntheticPods.
THEOREM PodsRefine == Spec => PodsAdmitted
<1>1. Init => PodPool!Init
  <2> SUFFICES ASSUME Init PROVE PodPool!Init
    OBVIOUS
  <2>1. config.max \in Nat
    BY InitTyped, ConfigTyped DEF IInv
  <2>2. OfKind({"pod"}) = {} /\ PodTurns = {}
    BY DEF Init, OfKind, PodTurns, NoRun, CreatingPod
  <2> QED
    BY <2>1, <2>2 DEF PodPool!Init
<1>2. IInv /\ [Next]_vars => [PodPool!Next]_(PodPool!vars)
  BY PodStep
<1> QED
  BY <1>1, <1>2, AlwaysTyped, PTL DEF Spec, PodsAdmitted, PodPool!Spec

PodBound == INSTANCE BoundedPool_proofs WITH
    Elements <- Object, limit <- config.max, batch <- 1,
    pool <- OfKind({"pod"}), admitted <- PodTurns

\* There are never more pods than the limit and one for every further process.
LEMMA PodsNeverTooMany == Spec => []PodsBounded
<1>1. PodBound!IsFiniteSet(Processes)
  BY SyntheticObjectsAssumption DEF IsFiniteSet, PodBound!IsFiniteSet
<1>2. PodPool!Init => PodBound!Init
  BY DEF PodPool!Init, PodBound!Init
<1>3. [PodPool!Next]_(PodPool!vars) => [PodBound!Next]_(PodBound!vars)
  BY DEF PodPool!Next, PodPool!vars, PodBound!Next, PodBound!vars, PodPool!Drop, PodBound!Drop,
         PodPool!Admit, PodBound!Admit, PodPool!Add, PodBound!Add,
         PodPool!Cardinality, PodBound!Cardinality
<1>4. PodBound!Bounded => PodsBounded
  BY DEF PodBound!Bounded, PodsBounded, Limited, PodBound!Cardinality, Cardinality
<1>5. PodPool!Spec => PodBound!Spec
  BY <1>2, <1>3, PTL DEF PodPool!Spec, PodBound!Spec
<1>6. PodBound!Spec => []PodBound!Bounded
  BY <1>1, PodBound!AdmissionBounds, PTL
<1> QED
  BY <1>4, <1>5, <1>6, PodsRefine, PTL DEF PodsAdmitted

-----------------------------------------------------------------------------
(* ConfigMaps *)

LEMMA ConfigMapStep ==
    ASSUME IInv, [Next]_vars
    PROVE  [ConfigMapPool!Next]_(ConfigMapPool!vars)
<1>0. UNCHANGED config
  BY SystemMeaning
<1>1. ASSUME \A o \in objects' : o \in objects \/ o.kind # "configmap",
             \A q \in Processes :
               run'[q].pc = "createConfigMap" => run[q].pc = "createConfigMap"
      PROVE  ConfigMapPool!Next
  <2>1. ConfigMapPool!Drop
    BY <1>1 DEF ConfigMapPool!Drop, OfKind, ConfigMapTurns
  <2> QED
    BY <1>0, <2>1 DEF ConfigMapPool!Next
<1>2. CASE Unnoticed
  BY <1>1, <1>2 DEF Unnoticed, Creating
<1>3. ASSUME NEW p \in Processes, Others(p), Meaning(p) PROVE ConfigMapPool!Next
  <2>1. CASE Quiet(p) \/ AdmitsClaims(p) \/ CreatesClaim(p)
    <3>1. run'[p].pc # "createConfigMap"
      BY <2>1 DEF Quiet, AdmitsClaims, CreatesClaim, ToItem, Creating
    <3>2. \A o \in objects' : o \in objects \/ o.kind # "configmap"
      BY <2>1 DEF Quiet, AdmitsClaims, CreatesClaim, CSITypes
    <3> QED
      BY <1>1, <1>3, <3>1, <3>2 DEF Others
  <2>2. CASE AdmitsPod(p) \/ CreatesPod(p) \/ CreatesNodePool(p)
    BY <1>1, <1>3, <2>2
       DEF AdmitsPod, CreatesPod, CreatesNodePool, Others, Creating, CreatingPod
  <2>3. CASE AdmitsConfigMap(p)
    <3>1. ConfigMapTurns' = ConfigMapTurns \union {<<p, 1>>}
      BY <1>3, <2>3 DEF AdmitsConfigMap, Others, ConfigMapTurns
    <3>2. {<<p, i>> : i \in 1..1} = {<<p, 1>>}
      OBVIOUS
    <3>3. ConfigMapPool!Admit(p)
      BY <2>3, <3>1, <3>2
         DEF AdmitsConfigMap, ConfigMapPool!Admit, OfKind, ConfigMapPool!Cardinality, Cardinality
    <3> QED
      BY <1>0, <3>3 DEF ConfigMapPool!Next
  <2>4. CASE CreatesConfigMap(p)
    <3>1. /\ <<p, 1>> \in ConfigMapTurns
          /\ ConfigMapTurns' \subseteq ConfigMapTurns \ {<<p, 1>>}
      BY <1>3, <2>4 DEF CreatesConfigMap, Others, ConfigMapTurns, Creating
    <3>2. PICK o \in Object :
            o.kind = "configmap" /\ objects' \in {objects, objects \union {o}}
      BY <2>4 DEF CreatesConfigMap
    <3>3. CASE objects' = objects
      <4>1. ConfigMapPool!Drop
        BY <3>1, <3>3 DEF ConfigMapPool!Drop, OfKind
      <4> QED
        BY <1>0, <4>1 DEF ConfigMapPool!Next
    <3>4. CASE objects' = objects \union {o}
      <4>1. OfKind({"configmap"})' = OfKind({"configmap"}) \union {o}
        BY <3>2, <3>4 DEF OfKind
      <4>2. ConfigMapPool!Add(<<p, 1>>, o)
        BY <3>1, <4>1 DEF ConfigMapPool!Add
      <4> QED
        BY <1>0, <3>1, <4>2 DEF ConfigMapPool!Next
    <3> QED
      BY <3>2, <3>3, <3>4
  <2> QED
    BY <1>3, <2>1, <2>2, <2>3, <2>4 DEF Meaning
<1> QED
  BY <1>2, <1>3, SystemMeaning

\* ConfigMaps are created as BoundedPool says: the API server checker creates one only
\* in a turn that was admitted on a count below MaxObjects.
THEOREM ConfigMapsRefine == Spec => ConfigMapsAdmitted
<1>1. Init => ConfigMapPool!Init
  <2> SUFFICES ASSUME Init PROVE ConfigMapPool!Init
    OBVIOUS
  <2>1. config.max \in Nat
    BY InitTyped, ConfigTyped DEF IInv
  <2>2. OfKind({"configmap"}) = {} /\ ConfigMapTurns = {}
    BY DEF Init, OfKind, ConfigMapTurns, NoRun
  <2> QED
    BY <2>1, <2>2 DEF ConfigMapPool!Init
<1>2. IInv /\ [Next]_vars => [ConfigMapPool!Next]_(ConfigMapPool!vars)
  BY ConfigMapStep
<1> QED
  BY <1>1, <1>2, AlwaysTyped, PTL DEF Spec, ConfigMapsAdmitted, ConfigMapPool!Spec

ConfigMapBound == INSTANCE BoundedPool_proofs WITH
    Elements <- Object, limit <- config.max, batch <- 1,
    pool <- OfKind({"configmap"}), admitted <- ConfigMapTurns

\* There are never more ConfigMaps than the limit and one for every further process,
\* those that timed out creations left behind included.
LEMMA ConfigMapsNeverTooMany == Spec => []ConfigMapsBounded
<1>1. ConfigMapBound!IsFiniteSet(Processes)
  BY SyntheticObjectsAssumption DEF IsFiniteSet, ConfigMapBound!IsFiniteSet
<1>2. ConfigMapPool!Init => ConfigMapBound!Init
  BY DEF ConfigMapPool!Init, ConfigMapBound!Init
<1>3. [ConfigMapPool!Next]_(ConfigMapPool!vars) => [ConfigMapBound!Next]_(ConfigMapBound!vars)
  BY DEF ConfigMapPool!Next, ConfigMapPool!vars, ConfigMapBound!Next, ConfigMapBound!vars,
         ConfigMapPool!Drop, ConfigMapBound!Drop, ConfigMapPool!Admit, ConfigMapBound!Admit,
         ConfigMapPool!Add, ConfigMapBound!Add,
         ConfigMapPool!Cardinality, ConfigMapBound!Cardinality
<1>4. ConfigMapBound!Bounded => ConfigMapsBounded
  BY DEF ConfigMapBound!Bounded, ConfigMapsBounded, Limited,
         ConfigMapBound!Cardinality, Cardinality
<1>5. ConfigMapPool!Spec => ConfigMapBound!Spec
  BY <1>2, <1>3, PTL DEF ConfigMapPool!Spec, ConfigMapBound!Spec
<1>6. ConfigMapBound!Spec => []ConfigMapBound!Bounded
  BY <1>1, ConfigMapBound!AdmissionBounds, PTL
<1> QED
  BY <1>4, <1>5, <1>6, ConfigMapsRefine, PTL DEF ConfigMapsAdmitted

-----------------------------------------------------------------------------
(* Claims *)

LEMMA ClaimStep ==
    ASSUME IInv, [Next]_vars
    PROVE  [ClaimPool!Next]_(ClaimPool!vars)
<1>0. UNCHANGED config
  BY SystemMeaning
<1>d. drivers' = drivers /\ drivers \in Nat
  BY <1>0, ConfigTyped DEF drivers, IInv
<1>1. ASSUME \A o \in objects' : o \in objects \/ o.kind \notin CSITypes,
             \A q \in Processes :
               run'[q] = run[q] \/ run'[q].pc # "createCSIResources"
      PROVE  ClaimPool!Next
  <2>1. ClaimPool!Drop
    BY <1>1, <1>d DEF ClaimPool!Drop, OfKind, ClaimTurns
  <2> QED
    BY <1>0, <1>d, <2>1 DEF ClaimPool!Next
<1>2. CASE Unnoticed
  BY <1>1, <1>2 DEF Unnoticed, Creating
<1>3. ASSUME NEW p \in Processes, Others(p), Meaning(p) PROVE ClaimPool!Next
  <2>1. CASE Quiet(p) \/ AdmitsPod(p) \/ CreatesNodePool(p) \/ CreatesPod(p)
             \/ AdmitsConfigMap(p) \/ CreatesConfigMap(p)
    <3>1. run'[p].pc # "createCSIResources"
      BY <2>1 DEF Quiet, AdmitsPod, CreatesNodePool, CreatesPod, AdmitsConfigMap,
                  CreatesConfigMap, Creating, CreatingPod
    <3>2. \A o \in objects' : o \in objects \/ o.kind \notin CSITypes
      BY <2>1 DEF Quiet, AdmitsPod, CreatesNodePool, CreatesPod, AdmitsConfigMap,
                  CreatesConfigMap, CSITypes
    <3> QED
      BY <1>1, <1>3, <3>1, <3>2 DEF Others
  <2>2. CASE AdmitsClaims(p)
    <3>1. run'[p].pc = "createCSIResources" /\ run'[p].i = 1
      BY <2>2 DEF AdmitsClaims, ToItem
    <3>2. ClaimTurns' = ClaimTurns \union {<<p, i>> : i \in 1..drivers}
      <4>1. \A t \in Processes \X (1..drivers) :
              t \in ClaimTurns' <=> t \in ClaimTurns \/ t[1] = p
        BY <1>3, <1>d, <3>1 DEF ClaimTurns, Others
      <4>2. \A t \in Processes \X (1..drivers) :
              t[1] = p <=> t \in {<<p, i>> : i \in 1..drivers}
        OBVIOUS
      <4>3. /\ ClaimTurns' \subseteq Processes \X (1..drivers)
            /\ ClaimTurns \subseteq Processes \X (1..drivers)
            /\ {<<p, i>> : i \in 1..drivers} \subseteq Processes \X (1..drivers)
        BY <1>d DEF ClaimTurns
      <4> QED
        BY <4>1, <4>2, <4>3
    <3>3. ClaimPool!Admit(p)
      BY <2>2, <3>2 DEF AdmitsClaims, ClaimPool!Admit, OfKind, ClaimPool!Cardinality, Cardinality
    <3> QED
      BY <1>0, <1>d, <3>3 DEF ClaimPool!Next
  <2>3. CASE CreatesClaim(p)
    <3> DEFINE turn == <<p, run[p].i>>
    <3>0. run[p].pc = "createCSIResources" /\ run[p].i \in 1..drivers
      BY <2>3 DEF CreatesClaim, IInv, RunsTyped
    <3>1. turn \in ClaimTurns
      BY <1>d, <3>0 DEF ClaimTurns
    <3>2. \/ run'[p].pc # "createCSIResources"
          \/ run'[p].i = run[p].i + 1
      BY <2>3 DEF CreatesClaim, ToItem, Creating
    <3>3. ClaimTurns' \subseteq ClaimTurns \ {turn}
      BY <1>3, <1>d, <3>0, <3>2 DEF ClaimTurns, Others
    <3>4. PICK o \in Object :
            o.kind \in CSITypes /\ objects' \in {objects, objects \union {o}}
      BY <2>3 DEF CreatesClaim
    <3>5. CASE objects' = objects
      <4>1. ClaimPool!Drop
        BY <3>3, <3>5 DEF ClaimPool!Drop, OfKind
      <4> QED
        BY <1>0, <1>d, <4>1 DEF ClaimPool!Next
    <3>6. CASE objects' = objects \union {o}
      <4>1. OfKind(CSITypes)' = OfKind(CSITypes) \union {o}
        BY <3>4, <3>6 DEF OfKind
      <4>2. ClaimPool!Add(turn, o)
        BY <3>1, <3>3, <4>1 DEF ClaimPool!Add
      <4> QED
        BY <1>0, <1>d, <3>1, <4>2 DEF ClaimPool!Next
    <3> QED
      BY <3>4, <3>5, <3>6
  <2> QED
    BY <1>3, <2>1, <2>2, <2>3 DEF Meaning
<1> QED
  BY <1>2, <1>3, SystemMeaning

\* Claims are created as BoundedPool says, in batches of one for each CSI driver: what a
\* run creates was admitted on a count below MaxSyntheticPods times the drivers, and a
\* run that fails in the middle of its batch gives up the rest.
THEOREM ClaimsRefine == Spec => ClaimsAdmitted
<1>1. Init => ClaimPool!Init
  <2> SUFFICES ASSUME Init PROVE ClaimPool!Init
    OBVIOUS
  <2>1. config.max \in Nat /\ drivers \in Nat
    BY InitTyped, ConfigTyped DEF IInv
  <2>2. config.max * drivers \in Nat
    BY <2>1
  <2>3. OfKind(CSITypes) = {} /\ ClaimTurns = {}
    BY DEF Init, OfKind, ClaimTurns, NoRun
  <2> QED
    BY <2>1, <2>2, <2>3 DEF ClaimPool!Init
<1>2. IInv /\ [Next]_vars => [ClaimPool!Next]_(ClaimPool!vars)
  BY ClaimStep
<1> QED
  BY <1>1, <1>2, AlwaysTyped, PTL DEF Spec, ClaimsAdmitted, ClaimPool!Spec

ClaimBound == INSTANCE BoundedPool_proofs WITH
    Elements <- Object, limit <- config.max * drivers, batch <- drivers,
    pool <- OfKind(CSITypes), admitted <- ClaimTurns

\* There are never more claims than the limit less one and a batch for every process,
\* those that a failed batch or a dead process left behind included.
LEMMA ClaimsNeverTooMany == Spec => []ClaimsBounded
<1>1. ClaimBound!IsFiniteSet(Processes)
  BY SyntheticObjectsAssumption DEF IsFiniteSet, ClaimBound!IsFiniteSet
<1>2. ClaimPool!Init => ClaimBound!Init
  BY DEF ClaimPool!Init, ClaimBound!Init
<1>3. [ClaimPool!Next]_(ClaimPool!vars) => [ClaimBound!Next]_(ClaimBound!vars)
  BY DEF ClaimPool!Next, ClaimPool!vars, ClaimBound!Next, ClaimBound!vars,
         ClaimPool!Drop, ClaimBound!Drop, ClaimPool!Admit, ClaimBound!Admit,
         ClaimPool!Add, ClaimBound!Add, ClaimPool!Cardinality, ClaimBound!Cardinality
<1>4. ClaimBound!Bounded => ClaimsBounded
  BY DEF ClaimBound!Bounded, ClaimsBounded, Limited, ClaimBound!Cardinality, Cardinality
<1>5. ClaimPool!Spec => ClaimBound!Spec
  BY <1>2, <1>3, PTL DEF ClaimPool!Spec, ClaimBound!Spec
<1>6. ClaimBound!Spec => []ClaimBound!Bounded
  BY <1>1, ClaimBound!AdmissionBounds, PTL
<1> QED
  BY <1>4, <1>5, <1>6, ClaimsRefine, PTL DEF ClaimsAdmitted

\* check (podstartup.go, api_server.go), checkCSIResourceLimit: whatever the limits, the
\* drivers, the number of processes and the calls that fail, none of the three kinds of
\* objects outgrows its limit by more than the batches of processes that overlap.
THEOREM ObjectsNeverTooMany == Spec => []ObjectsBounded
BY PodsNeverTooMany, ClaimsNeverTooMany, ConfigMapsNeverTooMany, PTL DEF ObjectsBounded
=============================================================================
