------------------------ MODULE CheckNodeHealth_proofs ------------------------
(***************************************************************************)
(* Proofs about CheckNodeHealth, for every number of CRs, of faults, and    *)
(* every choice of the flags.                                               *)
(***************************************************************************)
EXTENDS CheckNodeHealth, TLAPS

-----------------------------------------------------------------------------
(* Types *)

LEMMA VerdictType ==
    ASSUME NEW results
    PROVE  determineHealthyCondition(results) \in Verdicts
BY DEF determineHealthyCondition, Verdicts

LEMMA UpdateResultType ==
    ASSUME NEW results \in SUBSET CheckResult, NEW new \in CheckResult
    PROVE  updateCheckResult(results, new) \in SUBSET CheckResult
BY DEF updateCheckResult

LEMMA ResultType ==
    /\ \A s \in CheckStatus : Result("PodStartup", s) \in CheckResult
    /\ \A s \in CheckStatus : Result("PodNetwork", s) \in CheckResult
BY DEF Result, CheckResult, RequiredCheckResults

LEMMA NewCRType == ASSUME NEW u \in Nat PROVE NewCR(u) \in CR
BY DEF NewCR, CR

LEMMA NoCRType == NoCR \in CR
BY NewCRType DEF NoCR

LEMMA NewPodType == ASSUME NEW u \in Nat, NEW c \in CR PROVE NewPod(u, c) \in Pod
BY DEF NewPod, Pod, Phase, CR

LEMMA NoPodType == NoPod \in Pod
BY NewPodType, NoCRType DEF NoPod

\* Writing one field, or bumping the version, keeps the type.
LEMMA BumpType ==
    ASSUME NEW c \in CR
    PROVE  [c EXCEPT !.rv = @ + 1] \in CR
<1>1. c.rv \in Nat /\ c.rv + 1 \in Nat
  BY DEF CR
<1> QED BY <1>1 DEF CR

LEMMA StatusUpdatedType ==
    ASSUME Types, NEW new \in CR
    PROVE  StatusUpdated(new) \in CR
<1> DEFINE obj == [cr EXCEPT !.started = new.started, !.finished = new.finished,
                            !.healthy = new.healthy, !.results = new.results]
<1>1. obj \in CR
  BY DEF Types, CR
<1> HIDE DEF obj
<1>2. [obj EXCEPT !.rv = @ + 1] \in CR
  BY <1>1, BumpType
<1> USE DEF obj
<1> QED BY <1>2 DEF StatusUpdated, Types

LEMMA DeletedTypes ==
    ASSUME Types
    PROVE  DeletedCR \in CR /\ DeletedPod \in Pod
<1>1. cr.rv + 1 \in Nat
  BY DEF Types, CR
<1>2. [cr EXCEPT !.deleting = TRUE, !.rv = @ + 1] \in CR
  BY <1>1 DEF Types, CR
<1>3. [pod EXCEPT !.deleting = TRUE] \in Pod
  BY DEF Types, Pod
<1> QED BY <1>2, <1>3, NoCRType, NoPodType DEF Types, DeletedCR, DeletedPod

WorkerType == [pc : WorkerPC, cnh : CR, pod : Pod]
RunnerType == [pc : NodeCheckerPC, cnh : CR]

LEMMA IdleType == Idle \in WorkerType
BY NoCRType, NoPodType DEF Idle, WorkerType, WorkerPC

LEMMA AnsweredType ==
    ASSUME Types, NEW w \in WorkerType, Answered(w)
    PROVE  wk' \in WorkerType /\ queued' \in BOOLEAN /\ faults' \in Nat
<1>1. CASE wk' = w /\ UNCHANGED <<queued, faults>>
  BY <1>1 DEF Types
<1>2. CASE Fault /\ Requeue
  <2>1. faults' \in Nat BY <1>2 DEF Fault, Types
  <2> QED BY <1>2, <2>1, IdleType DEF Requeue
<1> QED BY <1>1, <1>2 DEF Answered

LEMMA UpdateStatusType ==
    ASSUME Types, NEW new \in CR, NEW next \in WorkerPC, UpdateStatus(new, next)
    PROVE  cr' \in CR /\ wk' \in WorkerType /\ queued' \in BOOLEAN /\ faults' \in Nat
<1>1. CASE RVMatches(new)
  <2>1. cr' \in CR BY <1>1, StatusUpdatedType DEF UpdateStatus
  <2>2. [wk EXCEPT !.pc = next, !.cnh = cr'] \in WorkerType
    BY <2>1 DEF Types, WorkerType
  <2> QED BY <1>1, <2>1, <2>2, AnsweredType DEF UpdateStatus
<1>2. CASE ~ RVMatches(new)
  BY <1>2, IdleType DEF UpdateStatus, Requeue, Types
<1> QED BY <1>1, <1>2

LEMMA CleanupType ==
    ASSUME Types, cleanupPod
    PROVE  pod' \in Pod /\ runner' \in RunnerType
<1>1. RunnerOff \in RunnerType
  BY NoCRType DEF RunnerOff, RunnerType, NodeCheckerPC
<1> QED BY <1>1, DeletedTypes DEF cleanupPod, Types, RunnerType

LEMMA DeletePodType ==
    ASSUME Types, deletePod
    PROVE  pod' \in Pod /\ runner' \in RunnerType
<1>1. RunnerOff \in RunnerType
  BY NoCRType DEF RunnerOff, RunnerType, NodeCheckerPC
<1> QED BY <1>1, DeletedTypes DEF deletePod, Types, RunnerType

LEMMA InitTypes == Init => Types
<1> SUFFICES ASSUME Init PROVE Types
  OBVIOUS
<1>1. runner \in [pc : NodeCheckerPC, cnh : CR]
  BY NoCRType DEF Init, RunnerOff, NodeCheckerPC
<1>2. nodeCond \in [uid : Nat, status : Verdicts \union {"none"}]
  BY DEF Init, Verdicts
<1> QED BY <1>1, <1>2, NoCRType, NoPodType, IdleType DEF Init, Types, WorkerType

\* Each step of the worker, and each fault, keeps the types.
LEMMA WorkerTypes == Types /\ (WorkerStep \/ CallFails \/ Crash) => Types'
<1> SUFFICES ASSUME Types, WorkerStep \/ CallFails \/ Crash PROVE Types'
  OBVIOUS
<1> USE DEF apiVars, cacheVars, timeVars
<1>1. CASE Reconcile
  <2>1. \A pc \in WorkerPC : /\ [Idle EXCEPT !.pc = pc] \in WorkerType
                            /\ [Idle EXCEPT !.pc = pc, !.cnh = crCache] \in WorkerType
    <3> TAKE pc \in WorkerPC
    <3> QED BY IdleType DEF Types, WorkerType
  <2>2. wk' \in WorkerType
    BY <1>1, <2>1, IdleType DEF Reconcile, ReconcileAt, CleanUpAt, WorkerPC
  <2> QED BY <1>1, <2>2 DEF Reconcile, Types, WorkerType
<1>2. CASE DeleteExpired
  <2>1. cr' \in CR BY <1>2, DeletedTypes DEF DeleteExpired, Types
  <2>2. wk' \in WorkerType /\ queued' \in BOOLEAN /\ faults' \in Nat
    BY <1>2, AnsweredType, IdleType DEF DeleteExpired
  <2> QED BY <1>2, <2>1, <2>2 DEF DeleteExpired, Types, WorkerType
<1>3. CASE AddFinalizer
  <2>1. CASE RVMatches(wk.cnh)
    <3>1. cr.rv + 1 \in Nat BY DEF Types, CR
    <3>2. cr' \in CR
      <4>1. cr' = [cr EXCEPT !.finalizer = TRUE, !.rv = @ + 1]
        BY <1>3, <2>1 DEF AddFinalizer
      <4> QED BY <3>1, <4>1 DEF Types, CR
    <3>3. [wk EXCEPT !.pc = IF isCompleted(cr) THEN "complete" ELSE "ensure",
                     !.cnh = cr'] \in WorkerType
      BY <3>2 DEF Types, WorkerType, WorkerPC
    <3>4. wk' \in WorkerType /\ queued' \in BOOLEAN /\ faults' \in Nat
      BY <1>3, <2>1, <3>3, AnsweredType DEF AddFinalizer
    <3> QED BY <1>3, <3>2, <3>4 DEF AddFinalizer, Types, WorkerType
  <2>2. CASE ~ RVMatches(wk.cnh)
    BY <1>3, <2>2, IdleType DEF AddFinalizer, Requeue, Types, WorkerType
  <2> QED BY <2>1, <2>2
<1>4. CASE EnsureHealthCheckPod
  <2>1. /\ [wk EXCEPT !.pc = "start", !.pod = podCache] \in WorkerType
        /\ [wk EXCEPT !.pc = "refetch"] \in WorkerType
    BY DEF Types, WorkerType, WorkerPC
  <2>2. NewPod(podCount + 1, wk.cnh) \in Pod /\ podCount + 1 \in Nat
    BY NewPodType DEF Types
  <2>3. pod' \in Pod /\ podCount' \in Nat
    BY <1>4, <2>2 DEF EnsureHealthCheckPod, Types
  <2>4. wk' \in WorkerType /\ queued' \in BOOLEAN /\ faults' \in Nat
    BY <1>4, <2>1, IdleType, AnsweredType DEF EnsureHealthCheckPod, Requeue, Types
  <2> QED BY <1>4, <2>3, <2>4 DEF EnsureHealthCheckPod, Types, WorkerType
<1>5. CASE RefetchPod
  <2>1. [wk EXCEPT !.pc = "start", !.pod = podCache] \in WorkerType
    BY DEF Types, WorkerType, WorkerPC
  <2> QED BY <1>5, <2>1, IdleType DEF RefetchPod, Requeue, Types, WorkerType
<1>6. CASE MarkStarted
  <2>1. markStarted(wk.cnh) \in CR
    BY DEF markStarted, Types, CR, Verdicts
  <2>2. [wk EXCEPT !.pc = "podstart"] \in WorkerType
    BY DEF Types, WorkerType, WorkerPC
  <2>3. "podstart" \in WorkerPC
    BY DEF WorkerPC
  <2>4. cr' \in CR /\ wk' \in WorkerType /\ queued' \in BOOLEAN /\ faults' \in Nat
    BY <1>6, <2>1, <2>2, <2>3, UpdateStatusType DEF MarkStarted, Types
  <2> QED BY <1>6, <2>4 DEF MarkStarted, Types, WorkerType
<1>7. CASE UpdatePodstartCheckerResult
  <2>1. [wk EXCEPT !.pc = "determine"] \in WorkerType /\ "determine" \in WorkerPC
    BY DEF Types, WorkerType, WorkerPC
  <2>2. \A status \in CheckStatus :
          [wk.cnh EXCEPT !.results = updateCheckResult(@, Result("PodStartup", status))] \in CR
    <3> SUFFICES ASSUME NEW status \in CheckStatus
                 PROVE  [wk.cnh EXCEPT !.results =
                            updateCheckResult(@, Result("PodStartup", status))] \in CR
      OBVIOUS
    <3>1. wk.cnh \in CR /\ wk.cnh.results \in SUBSET CheckResult
      BY DEF Types, CR
    <3>2. updateCheckResult(wk.cnh.results, Result("PodStartup", status))
             \in SUBSET CheckResult
      BY <3>1, ResultType, UpdateResultType
    <3> QED BY <3>1, <3>2 DEF CR
  <2>3. \A status \in CheckStatus : markPodStartupResult(status) =>
          cr' \in CR /\ wk' \in WorkerType /\ queued' \in BOOLEAN /\ faults' \in Nat
    BY <2>1, <2>2, UpdateStatusType DEF markPodStartupResult
  <2>4. cr' \in CR /\ wk' \in WorkerType /\ queued' \in BOOLEAN /\ faults' \in Nat
    BY <1>7, <2>1, <2>3 DEF UpdatePodstartCheckerResult, Types, CheckStatus
  <2> QED BY <1>7, <2>4 DEF UpdatePodstartCheckerResult, Types, WorkerType
<1>8. CASE DetermineCheckResult
  <2>1. markCompleted(wk.cnh) \in CR
    BY VerdictType DEF markCompleted, Types, CR
  <2>2. AfterCompletion \in WorkerPC
    BY DEF AfterCompletion, WorkerPC
  <2>3. cr' \in CR /\ wk' \in WorkerType /\ queued' \in BOOLEAN /\ faults' \in Nat
    BY <1>8, <2>1, <2>2, UpdateStatusType, IdleType
       DEF DetermineCheckResult, Requeue, Types
  <2> QED BY <1>8, <2>3 DEF DetermineCheckResult, Types, WorkerType
<1>9. CASE UpdateNodeCondition
  <2>1. [uid |-> wk.cnh.uid, status |-> wk.cnh.healthy]
           \in [uid : Nat, status : Verdicts \union {"none"}]
    BY DEF Types, CR
  <2>2. [Idle EXCEPT !.pc = "cleanup"] \in WorkerType
    BY IdleType DEF WorkerType, WorkerPC
  <2> QED BY <1>9, <2>1, <2>2 DEF UpdateNodeCondition, CleanUpAt, Types, WorkerType
<1>10. CASE CleanupPod
  <2>1. pod' \in Pod /\ runner' \in RunnerType
    BY <1>10, CleanupType DEF CleanupPod, Types, RunnerType
  <2>2. faults' \in Nat
    BY <1>10 DEF CleanupPod, Fault, Types
  <2> QED BY <1>10, <2>1, <2>2, IdleType DEF CleanupPod, Types, WorkerType, RunnerType
<1>11. CASE HandleCompletion
  <2>1. pod' \in Pod /\ runner' \in RunnerType
    BY <1>11, CleanupType DEF HandleCompletion
  <2>2. wk' \in WorkerType /\ queued' \in BOOLEAN /\ faults' \in Nat
    BY <1>11, AnsweredType, IdleType DEF HandleCompletion
  <2> QED BY <1>11, <2>1, <2>2 DEF HandleCompletion, Types, WorkerType, RunnerType
<1>12. CASE HandleDeletion
  <2>1. pod' \in Pod /\ runner' \in RunnerType
    BY <1>12, CleanupType DEF HandleDeletion
  <2>2. [wk EXCEPT !.pc = "unfinalize"] \in WorkerType
    BY DEF Types, WorkerType, WorkerPC
  <2>3. wk' \in WorkerType /\ queued' \in BOOLEAN /\ faults' \in Nat
    BY <1>12, <2>2, AnsweredType DEF HandleDeletion
  <2> QED BY <1>12, <2>1, <2>3 DEF HandleDeletion, Types, WorkerType, RunnerType
<1>13. CASE RemoveFinalizer
  <2>1. cr' \in CR
    BY <1>13, NoCRType DEF RemoveFinalizer, Types
  <2>2. wk' \in WorkerType /\ queued' \in BOOLEAN /\ faults' \in Nat
    BY <1>13, AnsweredType, IdleType DEF RemoveFinalizer, Requeue, Types
  <2> QED BY <1>13, <2>1, <2>2 DEF RemoveFinalizer, Types, WorkerType
<1>14. CASE CallFails
  <2>1. faults' \in Nat BY <1>14 DEF CallFails, Fault, Types
  <2> QED BY <1>14, <2>1, IdleType DEF CallFails, Requeue, Types, WorkerType
<1>15. CASE Crash
  <2>1. faults' \in Nat BY <1>15 DEF Crash, Fault, Types
  <2> QED BY <1>15, <2>1, IdleType DEF Crash, Exists, Types, WorkerType
<1> QED BY <1>1, <1>2, <1>3, <1>4, <1>5, <1>6, <1>7, <1>8, <1>9, <1>10, <1>11, <1>12,
           <1>13, <1>14, <1>15 DEF WorkerStep

LEMMA EnvironmentTypes == Types /\ Environment => Types'
<1> SUFFICES ASSUME Types, Environment PROVE Types'
  OBVIOUS
<1> USE DEF apiVars, cacheVars, timeVars, nodeUnchanged
<1>1. RunnerOff \in RunnerType /\ RunnerExited \in RunnerType
  BY NoCRType DEF RunnerOff, RunnerExited, RunnerType, NodeCheckerPC
<1>2. CASE WatchCR BY <1>2 DEF WatchCR, Types
<1>3. CASE WatchPod BY <1>3 DEF WatchPod, Types
<1>4. CASE Resync BY <1>4 DEF Resync, Types
<1>5. CASE PodTimesOut
  <2>1. pod.uid \in Nat BY DEF Types, Pod
  <2> QED BY <1>5, <2>1 DEF PodTimesOut, Types
<1>6. CASE CRExpires
  <2>1. cr.uid \in Nat BY DEF Types, CR
  <2> QED BY <1>6, <2>1 DEF CRExpires, Types
<1>7. CASE CreateCR
  <2>1. crCount + 1 \in Nat BY DEF Types
  <2>2. NewCR(crCount + 1) \in CR BY <2>1, NewCRType
  <2> QED BY <1>7, <2>1, <2>2 DEF CreateCR, Types
<1>8. CASE DeleteCR
  <2>1. cr' \in CR BY <1>8, DeletedTypes DEF DeleteCR
  <2> QED BY <1>8, <2>1 DEF DeleteCR, Types
<1>9. CASE PodStarts
  <2>1. pod' \in Pod BY <1>9 DEF PodStarts, Types, Pod, Phase
  <2>2. runner' \in RunnerType BY <1>9 DEF PodStarts, Types, RunnerType, NodeCheckerPC
  <2> QED BY <1>9, <2>1, <2>2 DEF PodStarts, Types, RunnerType
<1>10. CASE PodRejected
  <2>1. pod' \in Pod BY <1>10 DEF PodRejected, Types, Pod, Phase
  <2> QED BY <1>10, <2>1 DEF PodRejected, Types
<1>11. CASE RunnerReads
  <2>1. runner' \in RunnerType
    BY <1>1, <1>11 DEF RunnerReads, Types, RunnerType, NodeCheckerPC
  <2> QED BY <1>11, <2>1 DEF RunnerReads, Types, RunnerType
<1>12. ASSUME NEW status \in ReportedStatus, RunnerWrites(status) PROVE Types'
  <2> DEFINE new == [runner.cnh EXCEPT !.results = @ \union {Result("PodNetwork", status)}]
  <2>1. Result("PodNetwork", status) \in CheckResult
    BY ResultType, ConstantsAssumption
  <2>2. new \in CR
    BY <2>1 DEF Types, CR
  <2>3. cr.rv + 1 \in Nat
    BY DEF Types, CR
  <2>4. [StatusUpdated(new) EXCEPT !.rv = cr.rv + 1] \in CR
    <3>1. StatusUpdated(new) \in CR BY <2>2, StatusUpdatedType
    <3> QED BY <2>3, <3>1 DEF CR
  <2>5. cr' \in CR
    BY <1>12, <2>4 DEF RunnerWrites, Types
  <2>6. runner' \in RunnerType
    BY <1>1, <1>12 DEF RunnerWrites
  <2> QED BY <1>12, <2>5, <2>6 DEF RunnerWrites, Types, RunnerType
<1>13. CASE RunnerFails BY <1>1, <1>13 DEF RunnerFails, Types, RunnerType
<1>14. CASE PodExits
  <2>1. pod' \in Pod BY <1>14 DEF PodExits, Types, Pod, Phase
  <2> QED BY <1>1, <1>14, <2>1 DEF PodExits, Types, RunnerType
<1>15. CASE PodRemoved BY <1>1, <1>15, NoPodType DEF PodRemoved, Types, RunnerType
<1>16. CASE OwnerGC BY <1>16, DeletePodType DEF OwnerGC, Types, RunnerType
<1>17. CASE PodEvicted
  <2>1. faults' \in Nat BY <1>17 DEF PodEvicted, Fault, Types
  <2> QED BY <1>17, <2>1, DeletePodType DEF PodEvicted, Types, RunnerType
<1> QED BY <1>2, <1>3, <1>4, <1>5, <1>6, <1>7, <1>8, <1>9, <1>10, <1>11, <1>12, <1>13,
           <1>14, <1>15, <1>16, <1>17 DEF Environment

LEMMA StutterTypes == Types /\ UNCHANGED vars => Types'
BY DEF vars, apiVars, cacheVars, timeVars, Types

LEMMA TypesInvariant == Spec => []Types
<1>1. Types /\ [Next]_vars => Types'
  BY WorkerTypes, EnvironmentTypes, StutterTypes DEF Next
<1> QED BY InitTypes, <1>1, PTL DEF Spec

-----------------------------------------------------------------------------
(* The optimistic concurrency: what can happen to the CR in one step *)

SameStatus == /\ cr'.started = cr.started /\ cr'.finished = cr.finished
              /\ cr'.healthy = cr.healthy /\ cr'.results = cr.results

Begins == /\ ~ cr.started /\ ~ cr.finished
          /\ cr'.started /\ ~ cr'.finished
          /\ cr'.healthy = "Unknown" /\ cr'.results = cr.results

Assesses == /\ cr.started /\ ~ cr.finished
            /\ cr'.started /\ ~ cr'.finished /\ cr'.healthy = cr.healthy
            /\ \E s \in CheckStatus :
                  cr'.results = updateCheckResult(cr.results, Result("PodStartup", s))

Concludes == /\ CheckOver(wk.pod)
             /\ cr.started /\ ~ cr.finished
             /\ cr'.started /\ cr'.finished /\ cr'.results = cr.results
             /\ cr'.healthy = determineHealthyCondition(cr.results)

Reports == /\ cr.started
           /\ cr'.started /\ cr'.finished = cr.finished /\ cr'.healthy = cr.healthy
           /\ \E s \in CheckStatus :
                 cr'.results = cr.results \union {Result("PodNetwork", s)}

Rewritten == /\ Exists(cr) /\ cr'.uid = cr.uid /\ cr'.rv = cr.rv + 1
             /\ SameStatus \/ Begins \/ Assesses \/ Concludes \/ Reports

\* One step keeps the CR, creates it, removes it, or writes it once.
CRStep == \/ cr' = cr /\ crCount' = crCount
          \/ ~ Exists(cr) /\ crCount' = crCount + 1 /\ cr' = NewCR(crCount')
          \/ Exists(cr) /\ cr' = NoCR /\ crCount' = crCount
          \/ Rewritten /\ crCount' = crCount

\* A copy that passes the resourceVersion check is the object itself.
LEMMA MatchIsCurrent ==
    ASSUME Types, NEW copy \in CR, Coherent(copy), RVMatches(copy)
    PROVE  copy = cr
BY DEF Coherent, RVMatches, Exists

LEMMA UpdateStatusCases ==
    ASSUME NEW new, NEW next, UpdateStatus(new, next)
    PROVE  \/ /\ RVMatches(new)
              /\ cr' = StatusUpdated(new)
              /\ wk' = Idle \/ wk' = [wk EXCEPT !.pc = next, !.cnh = cr']
           \/ cr' = cr /\ wk' = Idle
BY DEF UpdateStatus, Answered, Requeue

\* A status update of an object that the version check let through changes the
\* status fields to the new ones and nothing else, if it changes anything.
LEMMA StatusUpdatedCases ==
    ASSUME Types, NEW new \in CR
    PROVE  \/ /\ StatusUpdated(new) = cr
              /\ new.started = cr.started /\ new.finished = cr.finished
              /\ new.healthy = cr.healthy /\ new.results = cr.results
           \/ /\ StatusUpdated(new).uid = cr.uid
              /\ StatusUpdated(new).rv = cr.rv + 1
              /\ StatusUpdated(new).started = new.started
              /\ StatusUpdated(new).finished = new.finished
              /\ StatusUpdated(new).healthy = new.healthy
              /\ StatusUpdated(new).results = new.results
<1> DEFINE obj == [cr EXCEPT !.started = new.started, !.finished = new.finished,
                            !.healthy = new.healthy, !.results = new.results]
<1>1. /\ obj \in CR /\ obj.uid = cr.uid /\ obj.rv = cr.rv
      /\ obj.started = new.started /\ obj.finished = new.finished
      /\ obj.healthy = new.healthy /\ obj.results = new.results
  BY DEF Types, CR
<1>2. StatusUpdated(new) = IF obj = cr THEN cr ELSE [obj EXCEPT !.rv = obj.rv + 1]
  BY DEF StatusUpdated
<1> HIDE DEF obj
<1>3. /\ [obj EXCEPT !.rv = obj.rv + 1].uid = obj.uid
      /\ [obj EXCEPT !.rv = obj.rv + 1].rv = obj.rv + 1
      /\ [obj EXCEPT !.rv = obj.rv + 1].started = obj.started
      /\ [obj EXCEPT !.rv = obj.rv + 1].finished = obj.finished
      /\ [obj EXCEPT !.rv = obj.rv + 1].healthy = obj.healthy
      /\ [obj EXCEPT !.rv = obj.rv + 1].results = obj.results
  BY <1>1 DEF CR
<1> QED BY <1>1, <1>2, <1>3

LEMMA DeletedStep ==
    ASSUME Types, Exists(cr), cr' = DeletedCR, crCount' = crCount
    PROVE  CRStep
<1>1. CASE ~ cr.finalizer
  BY <1>1 DEF DeletedCR, CRStep
<1>2. CASE cr.finalizer /\ cr.deleting
  BY <1>2 DEF DeletedCR, CRStep
<1>3. CASE cr.finalizer /\ ~ cr.deleting
  <2>1. cr' = [cr EXCEPT !.deleting = TRUE, !.rv = @ + 1]
    BY <1>3 DEF DeletedCR
  <2> QED BY <2>1 DEF Types, CR, CRStep, Rewritten, SameStatus
<1> QED BY <1>1, <1>2, <1>3

LEMMA WorkerCRStep ==
    ASSUME Types, SnapshotCoherent, ValidStatus(cr), WorkerStep
    PROVE  CRStep
<1> USE DEF apiVars
<1>1. CASE \/ Reconcile \/ EnsureHealthCheckPod \/ RefetchPod \/ UpdateNodeCondition
           \/ CleanupPod \/ HandleCompletion \/ HandleDeletion
  BY <1>1 DEF Reconcile, EnsureHealthCheckPod, RefetchPod, UpdateNodeCondition,
              CleanupPod, HandleCompletion, HandleDeletion, CRStep
<1>2. CASE DeleteExpired
  BY <1>2, DeletedStep DEF DeleteExpired, CRStep
<1>3. CASE AddFinalizer
  <2>1. CASE RVMatches(wk.cnh)
    <3>1. cr' = [cr EXCEPT !.finalizer = TRUE, !.rv = @ + 1] /\ crCount' = crCount
      BY <1>3, <2>1 DEF AddFinalizer
    <3> QED BY <2>1, <3>1 DEF RVMatches, Types, CR, CRStep, Rewritten, SameStatus
  <2>2. CASE ~ RVMatches(wk.cnh)
    BY <1>3, <2>2 DEF AddFinalizer, CRStep
  <2> QED BY <2>1, <2>2
<1>4. CASE MarkStarted
  <2> DEFINE new == markStarted(wk.cnh)
  <2>1. /\ new \in CR /\ new.uid = wk.cnh.uid /\ new.rv = wk.cnh.rv
        /\ new.started /\ new.finished = wk.cnh.finished /\ new.healthy = "Unknown"
        /\ new.results = wk.cnh.results
    BY DEF markStarted, Types, CR, Verdicts
  <2>2. crCount' = crCount /\ (cr' = cr \/ (~ wk.cnh.started /\ UpdateStatus(new, "podstart")))
    BY <1>4 DEF MarkStarted
  <2>3. wk.cnh \in CR /\ Coherent(wk.cnh) /\ ~ wk.cnh.finished
    BY <1>4 DEF Types, SnapshotCoherent, WorkerKnows, MarkStarted
  <2> HIDE DEF new
  <2>4. CASE cr' = cr
    BY <2>2, <2>4 DEF CRStep
  <2>5. CASE cr' # cr
    <3>1. RVMatches(new) /\ cr' = StatusUpdated(new) /\ ~ wk.cnh.started
      BY <2>2, <2>5, UpdateStatusCases
    <3>2. wk.cnh = cr
      BY <2>1, <2>3, <3>1, MatchIsCurrent DEF RVMatches
    <3> QED BY <2>1, <2>2, <2>3, <2>5, <3>1, <3>2, StatusUpdatedCases
            DEF CRStep, Rewritten, Begins, RVMatches
  <2> QED BY <2>4, <2>5
<1>5. CASE UpdatePodstartCheckerResult
  <2>1. crCount' = crCount
        /\ (cr' = cr \/ \E s \in CheckStatus : markPodStartupResult(s))
    BY <1>5 DEF UpdatePodstartCheckerResult, CheckStatus
  <2>2. CASE cr' = cr
    BY <2>1, <2>2 DEF CRStep
  <2>3. CASE cr' # cr
    <3>1. PICK s \in CheckStatus : markPodStartupResult(s)
      BY <2>1, <2>3
    <3> DEFINE new == [wk.cnh EXCEPT !.results = updateCheckResult(@, Result("PodStartup", s))]
    <3>2. UpdateStatus(new, "determine")
      BY <3>1 DEF markPodStartupResult
    <3>3. wk.cnh \in CR /\ Coherent(wk.cnh) /\ ~ wk.cnh.finished /\ wk.cnh.started
      BY <1>5 DEF Types, SnapshotCoherent, WorkerKnows, UpdatePodstartCheckerResult
    <3>4. /\ new \in CR /\ new.uid = wk.cnh.uid /\ new.rv = wk.cnh.rv
          /\ new.started = wk.cnh.started /\ new.finished = wk.cnh.finished
          /\ new.healthy = wk.cnh.healthy
          /\ new.results = updateCheckResult(wk.cnh.results, Result("PodStartup", s))
      <4>1. updateCheckResult(wk.cnh.results, Result("PodStartup", s)) \in SUBSET CheckResult
        BY <3>3, ResultType, UpdateResultType DEF CR
      <4> QED BY <3>3, <4>1 DEF CR
    <3> HIDE DEF new
    <3>5. RVMatches(new) /\ cr' = StatusUpdated(new)
      BY <2>3, <3>2, UpdateStatusCases
    <3>6. wk.cnh = cr
      BY <3>3, <3>4, <3>5, MatchIsCurrent DEF RVMatches
    <3> QED BY <2>1, <2>3, <3>3, <3>4, <3>5, <3>6, StatusUpdatedCases
            DEF CRStep, Rewritten, Assesses, RVMatches
  <2> QED BY <2>2, <2>3
<1>6. CASE DetermineCheckResult
  <2> DEFINE new == markCompleted(wk.cnh)
  <2>1. /\ new \in CR /\ new.uid = wk.cnh.uid /\ new.rv = wk.cnh.rv
        /\ new.started = wk.cnh.started /\ new.finished /\ new.results = wk.cnh.results
        /\ new.healthy = determineHealthyCondition(wk.cnh.results)
    BY VerdictType DEF markCompleted, Types, CR
  <2>2. /\ crCount' = crCount
        /\ cr' = cr \/ (CheckOver(wk.pod) /\ UpdateStatus(new, AfterCompletion))
    BY <1>6 DEF DetermineCheckResult
  <2>3. wk.cnh \in CR /\ Coherent(wk.cnh) /\ ~ wk.cnh.finished /\ wk.cnh.started
    BY <1>6 DEF Types, SnapshotCoherent, WorkerKnows, DetermineCheckResult
  <2> HIDE DEF new
  <2>4. CASE cr' = cr
    BY <2>2, <2>4 DEF CRStep
  <2>5. CASE cr' # cr
    <3>1. RVMatches(new) /\ cr' = StatusUpdated(new)
      BY <2>2, <2>5, UpdateStatusCases
    <3>2. wk.cnh = cr
      BY <2>1, <2>3, <3>1, MatchIsCurrent DEF RVMatches
    <3> QED BY <2>1, <2>2, <2>3, <2>5, <3>1, <3>2, StatusUpdatedCases
            DEF CRStep, Rewritten, Concludes, RVMatches
  <2> QED BY <2>4, <2>5
<1>7. CASE RemoveFinalizer
  BY <1>7 DEF RemoveFinalizer, RVMatches, CRStep
<1> QED BY <1>1, <1>2, <1>3, <1>4, <1>5, <1>6, <1>7 DEF WorkerStep

LEMMA EnvironmentCRStep ==
    ASSUME Types, SnapshotCoherent, ValidStatus(cr), Environment
    PROVE  CRStep
<1> USE DEF apiVars, nodeUnchanged
<1>1. CASE \/ WatchCR \/ WatchPod \/ Resync \/ PodTimesOut \/ CRExpires \/ PodStarts
           \/ PodRejected \/ RunnerReads \/ RunnerFails \/ PodExits \/ PodRemoved
           \/ OwnerGC \/ PodEvicted
  BY <1>1 DEF WatchCR, WatchPod, Resync, PodTimesOut, CRExpires, PodStarts, PodRejected,
              RunnerReads, RunnerFails, PodExits, PodRemoved, OwnerGC, PodEvicted, CRStep
<1>2. CASE CreateCR
  BY <1>2 DEF CreateCR, CRStep
<1>3. CASE DeleteCR
  BY <1>3, DeletedStep DEF DeleteCR
<1>4. ASSUME NEW status \in ReportedStatus, RunnerWrites(status) PROVE CRStep
  <2> DEFINE new == [runner.cnh EXCEPT !.results = @ \union {Result("PodNetwork", status)}]
  <2>1. status \in CheckStatus /\ Result("PodNetwork", status) \in CheckResult
    BY ResultType, ConstantsAssumption
  <2>2. runner.cnh \in CR /\ Coherent(runner.cnh)
    BY DEF Types, SnapshotCoherent
  <2>3. /\ new \in CR /\ new.uid = runner.cnh.uid /\ new.rv = runner.cnh.rv
        /\ new.started = runner.cnh.started /\ new.finished = runner.cnh.finished
        /\ new.healthy = runner.cnh.healthy
        /\ new.results = runner.cnh.results \union {Result("PodNetwork", status)}
    BY <2>1, <2>2 DEF CR
  <2>4. /\ crCount' = crCount
        /\ \/ cr' = cr
           \/ /\ RVMatches(new) /\ new.started
              /\ cr' = [StatusUpdated(new) EXCEPT !.rv = cr.rv + 1]
    BY <1>4 DEF RunnerWrites, SchemaAccepts
  <2> HIDE DEF new
  <2>5. CASE cr' = cr
    BY <2>4, <2>5 DEF CRStep
  <2>6. CASE cr' # cr
    <3>1. runner.cnh = cr
      BY <2>2, <2>3, <2>4, <2>6, MatchIsCurrent DEF RVMatches
    <3>2. StatusUpdated(new) \in CR /\ cr.rv + 1 \in Nat
      BY <2>3, StatusUpdatedType DEF Types, CR
    <3>3. /\ cr'.uid = StatusUpdated(new).uid /\ cr'.rv = cr.rv + 1
          /\ cr'.started = StatusUpdated(new).started
          /\ cr'.finished = StatusUpdated(new).finished
          /\ cr'.healthy = StatusUpdated(new).healthy
          /\ cr'.results = StatusUpdated(new).results
      BY <2>4, <2>6, <3>2 DEF CR
    <3> QED BY <2>1, <2>3, <2>4, <2>6, <3>1, <3>3, StatusUpdatedCases
            DEF CRStep, Rewritten, Reports, RVMatches
  <2> QED BY <2>5, <2>6
<1> QED BY <1>1, <1>2, <1>3, <1>4 DEF Environment

LEMMA NextCRStep ==
    ASSUME Types, SnapshotCoherent, ValidStatus(cr), [Next]_vars
    PROVE  CRStep
<1>1. CASE CallFails \/ Crash \/ UNCHANGED vars
  BY <1>1 DEF CallFails, Crash, vars, apiVars, CRStep
<1> QED BY <1>1, WorkerCRStep, EnvironmentCRStep DEF Next

-----------------------------------------------------------------------------
(* The copies: each is kept, or taken from the CR or from another copy *)

LEMMA CacheStep ==
    ASSUME [Next]_vars
    PROVE  crCache' = crCache \/ crCache' = cr'
<1> USE DEF apiVars, cacheVars, nodeUnchanged
<1>1. CASE WorkerStep
  BY <1>1 DEF WorkerStep, Reconcile, DeleteExpired, AddFinalizer, EnsureHealthCheckPod,
       RefetchPod, MarkStarted, UpdatePodstartCheckerResult, DetermineCheckResult,
       UpdateNodeCondition, CleanupPod, HandleCompletion, HandleDeletion, RemoveFinalizer
<1>2. CASE Environment
  BY <1>2 DEF Environment, WatchCR, WatchPod, Resync, PodTimesOut, CRExpires, CreateCR,
       DeleteCR, PodStarts, PodRejected, RunnerReads, RunnerWrites, RunnerFails, PodExits,
       PodRemoved, OwnerGC, PodEvicted
<1>3. CASE CallFails \/ Crash \/ UNCHANGED vars
  BY <1>3 DEF CallFails, Crash, vars
<1> QED BY <1>1, <1>2, <1>3 DEF Next

LEMMA RunnerStep ==
    ASSUME Types, [Next]_vars
    PROVE  runner'.cnh \in {runner.cnh, cr', NoCR}
<1> USE DEF apiVars, nodeUnchanged, RunnerOff, RunnerExited
<1>1. cleanupPod \/ deletePod => runner'.cnh \in {runner.cnh, NoCR}
  BY DEF cleanupPod, deletePod
<1>2. CASE WorkerStep
  BY <1>1, <1>2 DEF WorkerStep, Reconcile, DeleteExpired, AddFinalizer, EnsureHealthCheckPod,
       RefetchPod, MarkStarted, UpdatePodstartCheckerResult, DetermineCheckResult,
       UpdateNodeCondition, CleanupPod, HandleCompletion, HandleDeletion, RemoveFinalizer
<1>3. CASE Environment
  <2>1. PodStarts => runner'.cnh = runner.cnh
    BY DEF PodStarts, Types
  <2>2. \A s \in ReportedStatus : RunnerWrites(s) => runner'.cnh = NoCR
    BY DEF RunnerWrites
  <2>3. RunnerReads => runner'.cnh \in {cr', NoCR}
    BY DEF RunnerReads
  <2> QED BY <1>1, <1>3, <2>1, <2>2, <2>3 DEF Environment, WatchCR, WatchPod, Resync,
       PodTimesOut, CRExpires, CreateCR, DeleteCR, PodRejected, RunnerFails, PodExits,
       PodRemoved, OwnerGC, PodEvicted
<1>4. CASE CallFails \/ Crash \/ UNCHANGED vars
  BY <1>4 DEF CallFails, Crash, vars
<1> QED BY <1>2, <1>3, <1>4 DEF Next

\* What the worker's next place and copy are, if they change at all.
LEMMA WorkerMoves ==
    ASSUME Types, WorkerKnows, [Next]_vars
    PROVE  wk'.cnh \in {wk.cnh, crCache, cr', NoCR} /\ WorkerKnows'
<1> USE DEF apiVars, nodeUnchanged
<1>a. Idle.pc = "idle" /\ Idle.cnh = NoCR
  BY DEF Idle
<1>b. \A pc : ReconcileAt(pc) => wk'.pc = pc /\ wk'.cnh = crCache
  BY DEF ReconcileAt, Idle
<1>c. \A pc : CleanUpAt(pc) => wk'.pc = pc /\ wk'.cnh = NoCR
  BY DEF CleanUpAt, Idle
<1>1. CASE wk' = Idle
  BY <1>1, <1>a DEF WorkerKnows
<1>2. CASE UNCHANGED wk
  BY <1>2 DEF WorkerKnows
<1>3. CASE Reconcile
  <2>1. \/ wk' = Idle
        \/ wk'.pc \in {"delete", "finalize"} /\ wk'.cnh = crCache
        \/ wk'.pc \in {"expire", "complete"} /\ wk'.cnh = NoCR
        \/ wk'.pc = "ensure" /\ wk'.cnh = crCache /\ Exists(crCache) /\ ~ crCache.finished
    BY <1>3, <1>b, <1>c DEF Reconcile, isCompleted
  <2> QED BY <1>1, <2>1 DEF WorkerKnows
<1>4. CASE AddFinalizer
  <2>1. CASE wk' # Idle
    <3>1. /\ RVMatches(wk.cnh) /\ cr' = [cr EXCEPT !.finalizer = TRUE, !.rv = @ + 1]
          /\ wk' = [wk EXCEPT !.pc = IF isCompleted(cr) THEN "complete" ELSE "ensure",
                              !.cnh = cr']
      BY <1>4, <2>1 DEF AddFinalizer, Answered, Requeue
    <3>2. cr'.uid = cr.uid /\ cr'.finished = cr.finished /\ Exists(cr)
      BY <3>1 DEF Types, CR, RVMatches
    <3>3. wk'.cnh = cr' /\ wk'.pc = IF isCompleted(cr) THEN "complete" ELSE "ensure"
      BY <3>1 DEF Types
    <3> QED BY <3>2, <3>3 DEF WorkerKnows, isCompleted, Exists
  <2> QED BY <1>1, <2>1
<1>5. CASE EnsureHealthCheckPod \/ RefetchPod
  <2>1. CASE wk' # Idle
    <3>1. wk.pc \in {"ensure", "refetch"}
      BY <1>5 DEF EnsureHealthCheckPod, RefetchPod
    <3>2. wk'.cnh = wk.cnh /\ wk'.pc \in {"start", "refetch"}
      BY <1>5, <2>1 DEF EnsureHealthCheckPod, RefetchPod, Answered, Requeue, Types
    <3> QED BY <3>1, <3>2 DEF WorkerKnows
  <2> QED BY <1>1, <2>1
<1>6. CASE MarkStarted
  <2> DEFINE new == markStarted(wk.cnh)
  <2>1. /\ new \in CR /\ new.uid = wk.cnh.uid /\ new.started
        /\ new.finished = wk.cnh.finished
    BY DEF markStarted, Types, CR, Verdicts
  <2>2. wk.pc = "start" /\ Exists(wk.cnh) /\ ~ wk.cnh.finished
    BY <1>6 DEF MarkStarted, WorkerKnows
  <2>3. \/ wk.cnh.started /\ wk' = [wk EXCEPT !.pc = "podstart"]
        \/ UpdateStatus(new, "podstart")
    BY <1>6 DEF MarkStarted
  <2> HIDE DEF new
  <2>4. CASE wk' # Idle /\ wk' # [wk EXCEPT !.pc = "podstart"]
    <3>1. RVMatches(new) /\ cr' = StatusUpdated(new)
          /\ wk' = [wk EXCEPT !.pc = "podstart", !.cnh = cr']
      BY <2>3, <2>4, UpdateStatusCases
    <3>2. wk'.cnh = cr' /\ wk'.pc = "podstart"
      BY <3>1 DEF Types
    <3>3. Exists(cr') /\ ~ cr'.finished /\ cr'.started
      BY <2>1, <2>2, <3>1, StatusUpdatedCases DEF RVMatches, Exists
    <3> QED BY <3>2, <3>3 DEF WorkerKnows
  <2>5. CASE wk' = [wk EXCEPT !.pc = "podstart"]
    <3>1. wk'.pc = "podstart" /\ wk'.cnh = wk.cnh
      BY <2>5 DEF Types
    <3>2. wk.cnh.started \/ wk' = [wk EXCEPT !.pc = "podstart", !.cnh = cr'] \/ wk' = Idle
      BY <2>3, UpdateStatusCases
    <3>3. CASE wk.cnh.started
      BY <2>2, <3>1, <3>3 DEF WorkerKnows
    <3>4. CASE ~ wk.cnh.started
      <4>1. UpdateStatus(new, "podstart") /\ wk' # Idle
        BY <1>a, <2>3, <3>1, <3>4
      <4>2. /\ RVMatches(new) /\ cr' = StatusUpdated(new)
            /\ wk' = [wk EXCEPT !.pc = "podstart", !.cnh = cr']
        BY <4>1, UpdateStatusCases
      <4>3. wk'.cnh = cr'
        BY <4>2 DEF Types
      <4>4. Exists(cr') /\ ~ cr'.finished /\ cr'.started
        BY <2>1, <2>2, <4>2, StatusUpdatedCases DEF RVMatches, Exists
      <4> QED BY <3>1, <4>3, <4>4 DEF WorkerKnows
    <3> QED BY <3>3, <3>4
  <2> QED BY <1>1, <2>4, <2>5
<1>7. CASE UpdatePodstartCheckerResult
  <2>1. /\ wk.pc = "podstart" /\ Exists(wk.cnh) /\ ~ wk.cnh.finished /\ wk.cnh.started
        /\ wk.cnh \in CR
    BY <1>7 DEF UpdatePodstartCheckerResult, WorkerKnows, Types
  <2>2. CASE wk' = [wk EXCEPT !.pc = "determine"]
    <3>1. wk'.pc = "determine" /\ wk'.cnh = wk.cnh
      BY <2>2 DEF Types
    <3> QED BY <2>1, <3>1 DEF WorkerKnows
  <2>3. ASSUME NEW s \in CheckStatus, markPodStartupResult(s), wk' # Idle
        PROVE  wk'.cnh \in {wk.cnh, crCache, cr', NoCR} /\ WorkerKnows'
    <3> DEFINE new == [wk.cnh EXCEPT !.results = updateCheckResult(@, Result("PodStartup", s))]
    <3>1. UpdateStatus(new, "determine")
      BY <2>3 DEF markPodStartupResult
    <3>2. /\ new \in CR /\ new.uid = wk.cnh.uid
          /\ new.started = wk.cnh.started /\ new.finished = wk.cnh.finished
      <4>1. updateCheckResult(wk.cnh.results, Result("PodStartup", s)) \in SUBSET CheckResult
        BY <2>1, ResultType, UpdateResultType DEF CR
      <4> QED BY <2>1, <4>1 DEF CR
    <3> HIDE DEF new
    <3>3. RVMatches(new) /\ cr' = StatusUpdated(new)
          /\ wk' = [wk EXCEPT !.pc = "determine", !.cnh = cr']
      BY <2>3, <3>1, UpdateStatusCases
    <3>4. wk'.pc = "determine" /\ wk'.cnh = cr'
      BY <3>3 DEF Types
    <3>5. Exists(cr') /\ ~ cr'.finished /\ cr'.started
      BY <2>1, <3>2, <3>3, StatusUpdatedCases DEF RVMatches, Exists
    <3> QED BY <3>4, <3>5 DEF WorkerKnows
  <2> QED BY <1>1, <1>7, <2>2, <2>3 DEF UpdatePodstartCheckerResult, CheckStatus
<1>8. CASE DetermineCheckResult
  <2>1. CASE wk' # Idle
    <3> DEFINE new == markCompleted(wk.cnh)
    <3>1. new \in CR /\ new.uid = wk.cnh.uid /\ new.finished
      BY VerdictType DEF markCompleted, Types, CR
    <3>2. UpdateStatus(new, AfterCompletion)
      BY <1>8, <2>1 DEF DetermineCheckResult, Requeue
    <3> HIDE DEF new
    <3>3. RVMatches(new) /\ cr' = StatusUpdated(new)
          /\ wk' = [wk EXCEPT !.pc = AfterCompletion, !.cnh = cr']
      BY <2>1, <3>2, UpdateStatusCases
    <3>4. wk'.pc \in {"condition", "cleanup"} /\ wk'.cnh = cr'
      BY <3>3 DEF Types, AfterCompletion
    <3>5. Exists(cr') /\ cr'.finished
      BY <3>1, <3>3, StatusUpdatedCases DEF RVMatches, Exists
    <3> QED BY <3>4, <3>5 DEF WorkerKnows
  <2> QED BY <1>1, <2>1
<1>9. CASE UpdateNodeCondition
  BY <1>9, <1>c DEF UpdateNodeCondition, WorkerKnows
<1>10. CASE HandleDeletion
  <2>1. CASE wk' # Idle
    <3>1. wk' = [wk EXCEPT !.pc = "unfinalize"]
      BY <1>10, <2>1 DEF HandleDeletion, Answered, Requeue
    <3>2. wk'.pc = "unfinalize" /\ wk'.cnh = wk.cnh
      BY <3>1 DEF Types
    <3> QED BY <3>2 DEF WorkerKnows
  <2> QED BY <1>1, <2>1
<1>11. CASE DeleteExpired \/ CleanupPod \/ HandleCompletion \/ RemoveFinalizer \/ CallFails
            \/ Crash
  BY <1>1, <1>11 DEF DeleteExpired, CleanupPod, HandleCompletion, RemoveFinalizer, CallFails,
       Crash, Answered, Requeue
<1>12. CASE Environment \/ UNCHANGED vars
  BY <1>2, <1>12 DEF Environment, WatchCR, WatchPod, Resync, PodTimesOut, CRExpires, CreateCR,
       DeleteCR, PodStarts, PodRejected, RunnerReads, RunnerWrites, RunnerFails, PodExits,
       PodRemoved, OwnerGC, PodEvicted, vars
<1> QED BY <1>3, <1>4, <1>5, <1>6, <1>7, <1>8, <1>9, <1>10, <1>11, <1>12 DEF Next, WorkerStep

-----------------------------------------------------------------------------
(* The copies of the pod *)

NewPodFields == /\ \A u, c : NewPod(u, c).uid = u /\ NewPod(u, c).phase = "Pending"
                /\ NoPod.uid = 0

LEMMA NewPodFieldsHold == NewPodFields
BY DEF NewPodFields, NewPod, NoPod

\* One step keeps the pod, removes it, creates it, or writes it; a terminal pod
\* stays terminal.
PodStep == \/ pod' = pod /\ podCount' = podCount
           \/ pod' = NoPod /\ podCount' = podCount
           \/ podCount' = podCount + 1 /\ pod'.uid = podCount'
           \/ /\ podCount' = podCount /\ pod'.uid = pod.uid
              /\ isPodCompleted(pod) => isPodCompleted(pod')

LEMMA NextPodStep ==
    ASSUME Types, [Next]_vars
    PROVE  PodStep
<1> USE DEF apiVars, nodeUnchanged, isPodCompleted
<1>1. DeletedPod = NoPod \/ (DeletedPod.uid = pod.uid /\ DeletedPod.phase = pod.phase)
  BY DEF DeletedPod, Types, Pod
<1>2. cleanupPod \/ deletePod =>
        pod' = pod \/ pod' = NoPod \/ (pod'.uid = pod.uid /\ pod'.phase = pod.phase)
  BY <1>1 DEF cleanupPod, deletePod
<1>3. CASE WorkerStep
  <2>1. CASE EnsureHealthCheckPod
    BY <2>1, NewPodFieldsHold DEF EnsureHealthCheckPod, PodStep, NewPodFields
  <2>2. CASE CleanupPod \/ HandleCompletion \/ HandleDeletion
    BY <1>2, <2>2 DEF CleanupPod, HandleCompletion, HandleDeletion, PodStep
  <2> QED BY <1>3, <2>1, <2>2 DEF WorkerStep, Reconcile, DeleteExpired, AddFinalizer,
          RefetchPod, MarkStarted, UpdatePodstartCheckerResult, DetermineCheckResult,
          UpdateNodeCondition, RemoveFinalizer, PodStep
<1>4. CASE Environment
  <2>1. CASE PodStarts
    <3>1. pod'.uid = pod.uid /\ pod.phase = "Pending" /\ podCount' = podCount
      BY <2>1 DEF PodStarts, Types, Pod
    <3> QED BY <3>1 DEF PodStep
  <2>2. CASE PodRejected \/ PodExits
    <3>1. pod'.uid = pod.uid /\ pod'.phase = "Terminal" /\ podCount' = podCount
      BY <2>2 DEF PodRejected, PodExits, Types, Pod
    <3> QED BY <3>1 DEF PodStep
  <2>3. CASE OwnerGC \/ PodEvicted
    BY <1>2, <2>3 DEF OwnerGC, PodEvicted, PodStep
  <2>4. CASE PodRemoved
    BY <2>4 DEF PodRemoved, PodStep
  <2> QED BY <1>4, <2>1, <2>2, <2>3, <2>4 DEF Environment, WatchCR, WatchPod, Resync,
       PodTimesOut, CRExpires, CreateCR, DeleteCR, RunnerReads, RunnerWrites, RunnerFails,
       PodStep
<1>5. CASE CallFails \/ Crash \/ UNCHANGED vars
  BY <1>5 DEF CallFails, Crash, vars, PodStep
<1> QED BY <1>3, <1>4, <1>5 DEF Next

LEMMA PodCopiesStep ==
    ASSUME Types, [Next]_vars
    PROVE  podCache' \in {podCache, pod'} /\ wk'.pod \in {wk.pod, podCache, NoPod}
<1> USE DEF apiVars, cacheVars, nodeUnchanged
<1>1. podCache' \in {podCache, pod'}
  <2>1. CASE WorkerStep
    BY <2>1 DEF WorkerStep, Reconcile, DeleteExpired, AddFinalizer, EnsureHealthCheckPod,
       RefetchPod, MarkStarted, UpdatePodstartCheckerResult, DetermineCheckResult,
       UpdateNodeCondition, CleanupPod, HandleCompletion, HandleDeletion, RemoveFinalizer
  <2>2. CASE Environment
    BY <2>2 DEF Environment, WatchCR, WatchPod, Resync, PodTimesOut, CRExpires, CreateCR,
       DeleteCR, PodStarts, PodRejected, RunnerReads, RunnerWrites, RunnerFails, PodExits,
       PodRemoved, OwnerGC, PodEvicted
  <2>3. CASE CallFails \/ Crash \/ UNCHANGED vars
    BY <2>3 DEF CallFails, Crash, vars
  <2> QED BY <2>1, <2>2, <2>3 DEF Next
<1>2. wk'.pod \in {wk.pod, podCache, NoPod}
  <2>0. /\ Idle.pod = NoPod
        /\ \A pc : ReconcileAt(pc) \/ CleanUpAt(pc) => wk'.pod = NoPod
    BY DEF Idle, ReconcileAt, CleanUpAt
  <2>1. \A new, next : UpdateStatus(new, next) => wk'.pod \in {wk.pod, NoPod}
    BY <2>0, UpdateStatusCases DEF Types
  <2>2. CASE WorkerStep
    <3>1. CASE Reconcile
      BY <2>0, <3>1 DEF Reconcile
    <3>2. CASE MarkStarted
      BY <2>1, <3>2 DEF MarkStarted, Types
    <3>3. CASE UpdatePodstartCheckerResult
      BY <2>1, <3>3 DEF UpdatePodstartCheckerResult, markPodStartupResult, Types
    <3>4. CASE DetermineCheckResult
      BY <2>0, <2>1, <3>4 DEF DetermineCheckResult, Requeue
    <3>5. CASE EnsureHealthCheckPod \/ RefetchPod
      BY <2>0, <3>5 DEF EnsureHealthCheckPod, RefetchPod, Answered, Requeue, Types
    <3>6. CASE AddFinalizer \/ HandleDeletion
      BY <2>0, <3>6 DEF AddFinalizer, HandleDeletion, Answered, Requeue, Types
    <3>7. CASE UpdateNodeCondition
      BY <2>0, <3>7 DEF UpdateNodeCondition
    <3>8. CASE DeleteExpired \/ CleanupPod \/ HandleCompletion \/ RemoveFinalizer
      BY <2>0, <3>8 DEF DeleteExpired, CleanupPod, HandleCompletion, RemoveFinalizer,
         Answered, Requeue
    <3> QED BY <2>2, <3>1, <3>2, <3>3, <3>4, <3>5, <3>6, <3>7, <3>8 DEF WorkerStep
  <2>3. CASE Environment \/ UNCHANGED vars
    BY <2>3 DEF Environment, WatchCR, WatchPod, Resync, PodTimesOut, CRExpires, CreateCR,
       DeleteCR, PodStarts, PodRejected, RunnerReads, RunnerWrites, RunnerFails, PodExits,
       PodRemoved, OwnerGC, PodEvicted, vars
  <2>4. CASE CallFails \/ Crash
    BY <2>0, <2>4 DEF CallFails, Crash, Requeue
  <2> QED BY <2>2, <2>3, <2>4 DEF Next
<1> QED BY <1>1, <1>2

LEMMA PodCopiesKept ==
    ASSUME Types, Types', SnapshotCoherent, [Next]_vars
    PROVE  pod'.uid <= podCount' /\ PodCoherent(podCache)' /\ PodCoherent(wk.pod)'
<1> DEFINE Behind(copy) == /\ copy.uid <= podCount'
                           /\ copy.uid # 0 /\ copy.uid = pod'.uid /\ isPodCompleted(copy)
                                => isPodCompleted(pod')
<1>0. /\ pod.uid \in Nat /\ pod.uid <= podCount /\ podCount \in Nat
      /\ pod'.uid \in Nat /\ podCount' \in Nat
      /\ podCache \in Pod /\ wk.pod \in Pod
      /\ PodCoherent(podCache) /\ PodCoherent(wk.pod)
  BY DEF Types, Pod, SnapshotCoherent
<1>1. PodStep
  BY NextPodStep
<1>2. pod'.uid <= podCount' /\ Behind(pod') /\ Behind(NoPod)
  <2>1. pod'.uid <= podCount'
    BY <1>0, <1>1, NewPodFieldsHold DEF PodStep, NewPodFields
  <2> QED BY <1>0, <2>1, NewPodFieldsHold DEF NewPodFields
<1>3. ASSUME NEW copy \in Pod, PodCoherent(copy)
      PROVE  Behind(copy)
  <2>1. copy.uid \in Nat
    BY DEF Pod
  <2> QED BY <1>0, <1>1, <1>3, <2>1, NewPodFieldsHold
          DEF PodStep, NewPodFields, PodCoherent, Exists
<1>4. Behind(podCache') /\ Behind(wk'.pod)
  BY <1>0, <1>2, <1>3, PodCopiesStep
<1> QED BY <1>2, <1>4 DEF PodCoherent, Exists, isPodCompleted

-----------------------------------------------------------------------------
(* The inductive invariant *)

IInv == Types /\ ValidStatus(cr) /\ SnapshotCoherent

CoherentNext(copy) ==
    /\ copy.uid <= crCount'
    /\ copy.uid # 0 /\ copy.uid = cr'.uid =>
          /\ copy.rv <= cr'.rv
          /\ copy.rv = cr'.rv => copy = cr'
          /\ copy.finished => cr'.finished /\ cr'.healthy = copy.healthy

LEMMA NewCRFields ==
    ASSUME NEW u
    PROVE  /\ NewCR(u).uid = u /\ NewCR(u).rv = 1
           /\ ~ NewCR(u).started /\ ~ NewCR(u).finished
           /\ NewCR(u).healthy = "none" /\ NewCR(u).results = {}
BY DEF NewCR

\* A copy that agreed with the CR still does after any step of the CR: a write
\* raises the version past the copy's, and no write touches a stored verdict.
LEMMA CoherentKept ==
    ASSUME IInv, Types', CRStep, NEW copy \in CR, Coherent(copy)
    PROVE  CoherentNext(copy)
<1> USE DEF IInv, Coherent, CoherentNext, Exists
<1>0. /\ copy.uid \in Nat /\ copy.rv \in Nat /\ cr.uid \in Nat /\ cr.rv \in Nat
      /\ crCount \in Nat /\ cr.uid <= crCount
  BY DEF Types, CR, SnapshotCoherent
<1>1. CASE cr' = cr /\ crCount' = crCount
  BY <1>1
<1>2. CASE ~ Exists(cr) /\ crCount' = crCount + 1 /\ cr' = NewCR(crCount')
  BY <1>0, <1>2, NewCRFields
<1>3. CASE Exists(cr) /\ cr' = NoCR /\ crCount' = crCount
  BY <1>0, <1>3, NewCRFields DEF NoCR
<1>4. CASE Rewritten /\ crCount' = crCount
  <2>1. cr'.uid = cr.uid /\ cr'.rv = cr.rv + 1
    BY <1>4 DEF Rewritten
  <2>2. cr.finished => cr'.finished /\ cr'.healthy = cr.healthy
    BY <1>4 DEF Rewritten, SameStatus, Begins, Assesses, Concludes, Reports
  <2> QED BY <1>0, <1>4, <2>1, <2>2
<1> QED BY <1>1, <1>2, <1>3, <1>4 DEF CRStep

LEMMA CoherentSelf ==
    ASSUME IInv, Types', CRStep
    PROVE  CoherentNext(cr') /\ cr'.uid <= crCount' /\ CoherentNext(NoCR)
<1>0. /\ cr.uid \in Nat /\ crCount \in Nat /\ cr.uid <= crCount
      /\ cr'.uid \in Nat /\ cr'.rv \in Nat /\ crCount' \in Nat
  BY DEF IInv, Types, CR, SnapshotCoherent
<1>1. cr'.uid <= crCount'
  BY <1>0, NewCRFields DEF CRStep, NoCR, Rewritten
<1> QED BY <1>0, <1>1, NewCRFields DEF CoherentNext, NoCR

LEMMA ValidStatusKept == ASSUME IInv, CRStep PROVE ValidStatus(cr')
<1> USE DEF IInv, ValidStatus
<1>1. CASE cr' = cr BY <1>1
<1>2. CASE cr' = NewCR(crCount') \/ cr' = NoCR
  BY <1>2, NewCRFields DEF NoCR, Verdicts
<1>3. CASE Rewritten
  BY <1>3, VerdictType
     DEF Rewritten, SameStatus, Begins, Assesses, Concludes, Reports, Verdicts
<1> QED BY <1>1, <1>2, <1>3 DEF CRStep

LEMMA InitIInv == Init => IInv
<1> SUFFICES ASSUME Init PROVE IInv
  OBVIOUS
<1>1. cr = NoCR /\ crCache = NoCR /\ crCount = 0 /\ wk = Idle /\ runner = RunnerOff
  BY DEF Init
<1>2. wk.pc = "idle" /\ wk.cnh = NoCR /\ runner.cnh = NoCR
  BY <1>1 DEF Idle, RunnerOff
<1>3. NoCR.uid = 0 /\ ~ NoCR.started /\ ~ NoCR.finished /\ NoCR.healthy = "none"
  BY NewCRFields DEF NoCR
<1>4. pod = NoPod /\ podCache = NoPod /\ wk.pod = NoPod /\ podCount = 0
  BY DEF Init, Idle
<1>5. SnapshotCoherent
  BY <1>1, <1>2, <1>3, <1>4, NewPodFieldsHold
     DEF SnapshotCoherent, WorkerKnows, Coherent, PodCoherent, Exists, NewPodFields
<1> QED BY <1>1, <1>3, <1>5, InitTypes DEF IInv, ValidStatus, Verdicts

LEMMA IInvStep == ASSUME IInv, Types', [Next]_vars PROVE IInv' /\ CRStep
<1>1. CRStep
  BY NextCRStep DEF IInv
<1>2. \A copy \in CR : Coherent(copy) => CoherentNext(copy)
  BY <1>1, CoherentKept
<1>3. CoherentNext(cr') /\ cr'.uid <= crCount' /\ CoherentNext(NoCR)
  BY <1>1, CoherentSelf
<1>4. crCache \in CR /\ wk.cnh \in CR /\ runner.cnh \in CR
  BY DEF IInv, Types
<1>p. pod'.uid <= podCount' /\ PodCoherent(podCache)' /\ PodCoherent(wk.pod)'
  BY PodCopiesKept DEF IInv
<1>5. CoherentNext(crCache')
  BY <1>2, <1>3, <1>4, CacheStep DEF IInv, SnapshotCoherent
<1>6. CoherentNext(runner'.cnh)
  BY <1>2, <1>3, <1>4, RunnerStep DEF IInv, SnapshotCoherent
<1>7. CoherentNext(wk'.cnh) /\ WorkerKnows'
  BY <1>2, <1>3, <1>4, WorkerMoves DEF IInv, SnapshotCoherent
<1>8. SnapshotCoherent'
  BY <1>3, <1>5, <1>6, <1>7, <1>p DEF SnapshotCoherent, Coherent, CoherentNext, Exists
<1>9. ValidStatus(cr')
  BY <1>1, ValidStatusKept
<1> QED BY <1>1, <1>8, <1>9 DEF IInv, ValidStatus

\* The version checks of the API server and the places where the controller and
\* the node checker refresh their copies keep every copy of the CR coherent.
THEOREM CopiesCoherent == Spec => []SnapshotCoherent
<1>1. IInv /\ Types' /\ [Next]_vars => IInv'
  BY IInvStep
<1>2. IInv => SnapshotCoherent
  BY DEF IInv
<1> QED BY InitIInv, TypesInvariant, <1>1, <1>2, PTL DEF Spec

LEMMA IInvInvariant == Spec => []IInv
<1>1. IInv /\ Types' /\ [Next]_vars => IInv'
  BY IInvStep
<1> QED BY InitIInv, TypesInvariant, <1>1, PTL DEF Spec

\* Every state is well typed, and a stored status has its Healthy condition from
\* the moment it has a StartedAt.
THEOREM TypeCorrect == Spec => []TypeOK
<1>1. IInv => TypeOK
  BY DEF IInv, TypeOK
<1> QED BY IInvInvariant, <1>1, PTL

-----------------------------------------------------------------------------
(* What follows for the check's users *)

\* A finished check keeps its verdict for as long as it exists, whoever writes.
THEOREM VerdictsAreFinal == Spec => VerdictFinal
<1>1. IInv /\ Types' /\ [Next]_vars =>
        [SameCR /\ cr.finished => cr'.finished /\ cr'.healthy = cr.healthy]_vars
  <2> SUFFICES ASSUME IInv, Types', [Next]_vars, SameCR, cr.finished
               PROVE  cr'.finished /\ cr'.healthy = cr.healthy
    OBVIOUS
  <2>1. CRStep
    BY IInvStep
  <2>2. CASE Rewritten
    BY <2>2 DEF Rewritten, SameStatus, Begins, Assesses, Concludes, Reports
  <2> QED BY <2>1, <2>2, NewCRFields DEF CRStep, SameCR, Exists, NoCR
<1> QED BY IInvInvariant, TypesInvariant, <1>1, PTL DEF Spec, VerdictFinal

\* No status update of the controller drops a result a node checker has stored.
THEOREM ResultsAreKept == Spec => NoLostResults
<1>1. IInv /\ Types' /\ [Next]_vars =>
        [SameCR => \A r \in cr.results : r.name # "PodStartup" => r \in cr'.results]_vars
  <2> SUFFICES ASSUME IInv, Types', [Next]_vars, SameCR,
                      NEW r \in cr.results, r.name # "PodStartup"
               PROVE  r \in cr'.results
    OBVIOUS
  <2>1. CRStep
    BY IInvStep
  <2>2. CASE Rewritten
    <3>1. Assesses => r \in cr'.results
      BY DEF Assesses, updateCheckResult, Result
    <3> QED BY <2>2, <3>1 DEF Rewritten, SameStatus, Begins, Concludes, Reports
  <2> QED BY <2>1, <2>2, NewCRFields DEF CRStep, SameCR, Exists, NoCR
<1> QED BY IInvInvariant, TypesInvariant, <1>1, PTL DEF Spec, NoLostResults

\* A check is only ever finished when its pod has terminated, gone or timed out,
\* however old the copy of the pod the controller decides on.
THEOREM ChecksRunTheirTime == Spec => NotFinishedEarly
<1>1. IInv /\ Types' /\ [Next]_vars =>
        [Finishing => \/ pod.uid # wk.pod.uid
                      \/ pod.phase = "Terminal"
                      \/ pod.uid <= podOld]_vars
  <2> SUFFICES ASSUME IInv, Types', [Next]_vars, Finishing, pod.uid = wk.pod.uid
               PROVE  pod.phase = "Terminal" \/ pod.uid <= podOld
    OBVIOUS
  <2>1. CRStep
    BY IInvStep
  <2>2. CheckOver(wk.pod)
    <3>1. CASE Rewritten
      BY <3>1 DEF Rewritten, SameStatus, Begins, Assesses, Concludes, Reports, Finishing
    <3> QED BY <2>1, <3>1, NewCRFields DEF CRStep, Finishing, SameCR, Exists, NoCR
  <2>3. CASE isPodTimeout(wk.pod)
    BY <2>3 DEF isPodTimeout
  <2>4. CASE isPodCompleted(wk.pod) /\ Exists(wk.pod)
    BY <2>4 DEF IInv, SnapshotCoherent, PodCoherent, isPodCompleted
  <2>5. CASE ~ Exists(wk.pod)
    BY <2>5 DEF Exists, IInv, Types
  <2> QED BY <2>2, <2>3, <2>4, <2>5 DEF CheckOver
<1> QED BY IInvInvariant, TypesInvariant, <1>1, PTL DEF Spec, NotFinishedEarly

-----------------------------------------------------------------------------
(* Verdicts and their evidence *)

LEMMA TrueVerdict ==
    ASSUME NEW results \in SUBSET CheckResult, determineHealthyCondition(results) = "True"
    PROVE  \A name \in {"PodStartup", "PodNetwork"} : Result(name, "Healthy") \in results
<1>1. findMissingResult(results) = {} /\ allResultsHealthy(results)
  BY DEF determineHealthyCondition
<1> TAKE name \in {"PodStartup", "PodNetwork"}
<1>2. PICK r \in results : r.name = name
  BY <1>1 DEF findMissingResult, RequiredCheckResults
<1>3. r.status = "Healthy"
  BY <1>1 DEF allResultsHealthy
<1>4. r = [name |-> r.name, status |-> r.status]
  BY DEF CheckResult
<1> QED BY <1>2, <1>3, <1>4 DEF Result

\* A True verdict is a stored one, and so the evidence is no longer disturbed.
Evidence == cr.healthy = "True" =>
    /\ cr.finished
    /\ \A name \in {"PodStartup", "PodNetwork"} : Result(name, "Healthy") \in cr.results

\* Whoever sees Healthy=True on a CheckNodeHealth also finds a Healthy result of
\* each required check in it.
THEOREM TrueVerdictsHaveEvidence == Spec => []TrueNeedsEvidence
<1>1. Init => Evidence
  BY NewCRFields DEF Init, NoCR, Evidence
<1>2. IInv /\ Types' /\ Evidence /\ [Next]_vars => Evidence'
  <2> SUFFICES ASSUME IInv, Types', Evidence, [Next]_vars PROVE Evidence'
    OBVIOUS
  <2>1. CRStep
    BY IInvStep
  <2>2. CASE cr' = cr
    BY <2>2 DEF Evidence
  <2>3. CASE cr' = NewCR(crCount') \/ cr' = NoCR
    BY <2>3, NewCRFields DEF Evidence, NoCR
  <2>4. CASE Concludes
    <3>1. cr.results \in SUBSET CheckResult
      BY DEF IInv, Types, CR
    <3> QED BY <2>4, <3>1, TrueVerdict DEF Concludes, Evidence
  <2>5. CASE SameStatus \/ Begins \/ Assesses \/ Reports
    BY <2>5 DEF SameStatus, Begins, Assesses, Reports, Evidence
  <2> QED BY <2>1, <2>2, <2>3, <2>4, <2>5 DEF CRStep, Rewritten
<1>3. Evidence => TrueNeedsEvidence
  BY DEF Evidence, TrueNeedsEvidence
<1> QED BY IInvInvariant, TypesInvariant, <1>1, <1>2, <1>3, PTL DEF Spec

\* The node's condition is of this or an earlier incarnation.
Published == nodeCond.uid <= crCount /\ NodeConditionMatchesVerdict

LEMMA NodeConditionStep ==
    ASSUME Types, [Next]_vars
    PROVE  \/ nodeCond' = nodeCond
           \/ /\ wk.pc = "condition" /\ cr' = cr /\ crCount' = crCount
              /\ nodeCond' = [uid |-> wk.cnh.uid, status |-> wk.cnh.healthy]
<1> USE DEF apiVars, nodeUnchanged
<1>1. CASE UpdateNodeCondition
  BY <1>1 DEF UpdateNodeCondition
<1>2. CASE WorkerStep /\ ~ UpdateNodeCondition
  BY <1>2 DEF WorkerStep, Reconcile, DeleteExpired, AddFinalizer, EnsureHealthCheckPod,
       RefetchPod, MarkStarted, UpdatePodstartCheckerResult, DetermineCheckResult,
       CleanupPod, HandleCompletion, HandleDeletion, RemoveFinalizer
<1>3. CASE Environment
  BY <1>3 DEF Environment, WatchCR, WatchPod, Resync, PodTimesOut, CRExpires, CreateCR,
       DeleteCR, PodStarts, PodRejected, RunnerReads, RunnerWrites, RunnerFails, PodExits,
       PodRemoved, OwnerGC, PodEvicted
<1>4. CASE CallFails \/ Crash \/ UNCHANGED vars
  BY <1>4 DEF CallFails, Crash, vars
<1> QED BY <1>1, <1>2, <1>3, <1>4 DEF Next

\* NodeHealthy on the node repeats a verdict that is stored in the CR it came
\* from, and stored for good.
THEOREM PublishedVerdictsAreStored == Spec => []NodeConditionMatchesVerdict
<1>1. Init => Published
  BY DEF Init, Published, NodeConditionMatchesVerdict, Exists
<1>2. IInv /\ Types' /\ Published /\ [Next]_vars => Published'
  <2> SUFFICES ASSUME IInv, Types', Published, [Next]_vars PROVE Published'
    OBVIOUS
  <2> USE DEF Published, NodeConditionMatchesVerdict, Exists
  <2>0. /\ nodeCond.uid \in Nat /\ crCount \in Nat /\ cr.uid \in Nat
        /\ wk.cnh \in CR /\ Coherent(wk.cnh)
    BY DEF IInv, Types, CR, SnapshotCoherent
  <2>1. CRStep
    BY IInvStep
  <2>2. CASE nodeCond' = nodeCond
    <3>1. CASE cr' = cr /\ crCount' = crCount
      BY <2>2, <3>1
    <3>2. CASE ~ Exists(cr) /\ crCount' = crCount + 1 /\ cr' = NewCR(crCount')
      BY <2>0, <2>2, <3>2, NewCRFields
    <3>3. CASE cr' = NoCR /\ crCount' = crCount
      BY <2>2, <3>3, NewCRFields DEF NoCR
    <3>4. CASE Rewritten /\ crCount' = crCount
      BY <2>2, <3>4 DEF Rewritten, SameStatus, Begins, Assesses, Concludes, Reports
    <3> QED BY <2>1, <3>1, <3>2, <3>3, <3>4 DEF CRStep
  <2>3. CASE /\ wk.pc = "condition" /\ cr' = cr /\ crCount' = crCount
             /\ nodeCond' = [uid |-> wk.cnh.uid, status |-> wk.cnh.healthy]
    <3>1. wk.cnh.finished /\ wk.cnh.uid # 0
      BY <2>3 DEF IInv, SnapshotCoherent, WorkerKnows
    <3> QED BY <2>0, <2>3, <3>1 DEF Coherent
  <2> QED BY <2>2, <2>3, NodeConditionStep DEF IInv
<1>3. Published => NodeConditionMatchesVerdict
  BY DEF Published
<1> QED BY IInvInvariant, TypesInvariant, <1>1, <1>2, <1>3, PTL DEF Spec

-----------------------------------------------------------------------------
(* No check is forgotten: what the worker has to do, and what is queued *)

\* The cache holds a CR that has been written or removed since: an event is to come.
Behind == Exists(crCache) /\ crCache # cr

\* The pod that the cache holds is gone or going.
PodGoing == Exists(podCache) => ~ Exists(pod) \/ pod.deleting

\* While nothing is queued, the worker is busy with the CR that the cache holds, and
\* what it leaves undone will be asked for by an event.
Served ==
    ~ queued =>
        /\ wk.pc # "idle" => Exists(crCache)
        /\ wk.pc = "expire" => ~ crCache.deleting
        /\ wk.pc = "complete" => Behind \/ (crCache.finished /\ ~ crCache.deleting)
        /\ wk.pc \in {"condition", "cleanup"} => Behind
        /\ wk.pc = "idle" /\ Exists(cr) /\ crCache = cr =>
               cr.finished /\ ~ cr.deleting /\ PodGoing

\* A write is never lost on the cache: once behind, it stays behind until it is told.
LEMMA WrittenIsBehind ==
    ASSUME IInv, CRStep, Exists(crCache), crCache' = crCache, Behind \/ cr' # cr
    PROVE  Behind'
<1>1. /\ crCache.uid \in Nat /\ crCache.rv \in Nat /\ cr.uid \in Nat /\ cr.rv \in Nat
      /\ crCount \in Nat
  BY DEF IInv, Types, CR
<1>2. crCache.uid <= crCount /\ crCache.uid # 0
  BY DEF IInv, SnapshotCoherent, Coherent, Exists
<1>3. CASE cr' = cr
  BY <1>3 DEF Behind
<1>4. CASE cr' = NoCR
  BY <1>2, <1>4, NewCRFields DEF Behind, NoCR, Exists
<1>5. CASE crCount' = crCount + 1 /\ cr' = NewCR(crCount')
  BY <1>1, <1>2, <1>5, NewCRFields DEF Behind, Exists
<1>6. CASE Rewritten
  <2>1. Exists(cr) /\ cr'.uid = cr.uid /\ cr'.rv = cr.rv + 1
    BY <1>6 DEF Rewritten
  <2>2. crCache.uid = cr.uid => crCache.rv <= cr.rv
    BY <1>2 DEF IInv, SnapshotCoherent, Coherent, Exists
  <2> QED BY <1>1, <2>1, <2>2 DEF Behind
<1> QED BY <1>3, <1>4, <1>5, <1>6 DEF CRStep

\* Who is not told stays with what it has to do.
LEMMA Unasked ==
    ASSUME IInv, CRStep, Served, ~ queued, UNCHANGED <<crCache, podCache, wk>>,
           PodGoing => PodGoing'
    PROVE  Served'
<1>1. CASE wk.pc = "idle"
  <2>1. CASE cr' = cr
    BY <1>1, <2>1 DEF Served
  <2>2. ASSUME cr' # cr, Exists(cr'), crCache' = cr' PROVE FALSE
    BY <2>2, WrittenIsBehind DEF Behind
  <2> QED BY <1>1, <2>1, <2>2 DEF Served
<1>2. CASE wk.pc # "idle"
  <2>1. Exists(crCache)
    BY <1>2 DEF Served
  <2>2. Behind => Behind'
    BY <2>1, WrittenIsBehind
  <2> QED BY <1>2, <2>1, <2>2 DEF Served
<1> QED BY <1>1, <1>2

\* Nothing but the worker creates pods, and no deletion is taken back.
LEMMA PodGoesOn ==
    ASSUME Types, Environment
    PROVE  ~ Exists(pod) \/ pod.deleting => ~ Exists(pod') \/ pod'.deleting
<1> USE DEF apiVars, nodeUnchanged
<1>1. pod \in Pod /\ NoPod.uid = 0
  BY NewPodFieldsHold DEF Types, NewPodFields
<1>2. CASE PodStarts \/ PodRejected \/ PodExits
  BY <1>1, <1>2 DEF PodStarts, PodRejected, PodExits, Pod, Exists
<1>3. CASE OwnerGC \/ PodEvicted
  BY <1>1, <1>3 DEF OwnerGC, PodEvicted, deletePod, DeletedPod, Pod, Exists
<1>4. CASE PodRemoved
  BY <1>1, <1>4 DEF PodRemoved, Exists
<1>5. CASE \/ WatchCR \/ WatchPod \/ Resync \/ PodTimesOut \/ CRExpires \/ CreateCR \/ DeleteCR
           \/ RunnerReads \/ (\E s \in ReportedStatus : RunnerWrites(s)) \/ RunnerFails
  BY <1>5 DEF WatchCR, WatchPod, Resync, PodTimesOut, CRExpires, CreateCR, DeleteCR,
       RunnerReads, RunnerWrites, RunnerFails
<1> QED BY <1>2, <1>3, <1>4, <1>5 DEF Environment

LEMMA EnvironmentServes ==
    ASSUME IInv, CRStep, Served, Environment
    PROVE  Served'
<1> USE DEF apiVars, cacheVars, nodeUnchanged
<1>1. CASE queued'
  BY <1>1 DEF Served
<1>2. CASE ~ queued'
  <2>1. ~ queued /\ UNCHANGED <<crCache, podCache, wk>>
    <3>1. CASE WatchCR \/ WatchPod \/ Resync
      BY <1>2, <3>1 DEF WatchCR, WatchPod, Resync
    <3>2. ASSUME NEW s \in ReportedStatus, RunnerWrites(s) PROVE UNCHANGED <<queued, crCache, podCache, wk>>
      BY <3>2 DEF RunnerWrites
    <3>3. CASE \/ PodTimesOut \/ CRExpires \/ CreateCR \/ DeleteCR \/ PodStarts \/ PodRejected
               \/ RunnerReads \/ RunnerFails \/ PodExits \/ PodRemoved \/ OwnerGC \/ PodEvicted
      BY <1>2, <3>3 DEF PodTimesOut, CRExpires, CreateCR, DeleteCR, PodStarts, PodRejected,
         RunnerReads, RunnerFails, PodExits, PodRemoved, OwnerGC, PodEvicted
    <3> QED BY <1>2, <3>1, <3>2, <3>3 DEF Environment
  <2>2. PodGoing => PodGoing'
    BY <2>1, PodGoesOn DEF PodGoing, IInv
  <2> QED BY <2>1, <2>2, Unasked
<1> QED BY <1>1, <1>2

\* cleanupPod leaves no pod that the cache knows of.
LEMMA CleanedUp ==
    ASSUME Types, cleanupPod, podCache' = podCache
    PROVE  PodGoing'
<1>1. pod \in Pod /\ NoPod.uid = 0
  BY NewPodFieldsHold DEF Types, NewPodFields
<1>2. CASE Exists(podCache) /\ Exists(pod)
  BY <1>1, <1>2 DEF cleanupPod, DeletedPod, Pod, PodGoing, Exists
<1>3. CASE ~ (Exists(podCache) /\ Exists(pod))
  BY <1>3 DEF cleanupPod, PodGoing, Exists
<1> QED BY <1>2, <1>3

\* DetermineCheckResult goes on only when it has written the CR.
LEMMA ConcludedIsWritten ==
    ASSUME IInv, DetermineCheckResult, wk' # Idle
    PROVE  cr' # cr /\ wk'.pc \in {"condition", "cleanup"}
<1> DEFINE new == markCompleted(wk.cnh)
<1>1. /\ new \in CR /\ new.uid = wk.cnh.uid /\ new.rv = wk.cnh.rv /\ new.finished
      /\ wk.cnh \in CR /\ Coherent(wk.cnh) /\ ~ wk.cnh.finished
  BY VerdictType
     DEF markCompleted, IInv, Types, CR, DetermineCheckResult, SnapshotCoherent, WorkerKnows
<1>2. UpdateStatus(new, AfterCompletion)
  BY DEF DetermineCheckResult, Requeue
<1> HIDE DEF new
<1>3. /\ RVMatches(new) /\ cr' = StatusUpdated(new)
      /\ wk' = [wk EXCEPT !.pc = AfterCompletion, !.cnh = cr']
  BY <1>2, UpdateStatusCases
<1>4. wk.cnh = cr
  BY <1>1, <1>3, MatchIsCurrent DEF RVMatches, IInv
<1>5. StatusUpdated(new) # cr
  BY <1>1, <1>4, StatusUpdatedCases DEF IInv, Types
<1> QED BY <1>3, <1>5 DEF IInv, Types, AfterCompletion

\* DeleteExpired leaves a CR that is not the one the worker found, which was not deleted.
LEMMA ExpiredIsWritten ==
    ASSUME IInv, CRStep, Served, ~ queued, DeleteExpired
    PROVE  Behind'
<1>1. crCache' = crCache /\ Exists(crCache) /\ ~ crCache.deleting
  BY DEF DeleteExpired, Served, cacheVars
<1>2. CASE cr' # cr
  BY <1>1, <1>2, WrittenIsBehind
<1>3. CASE cr' = cr
  <2>1. CASE ~ Exists(cr)
    BY <1>1, <1>3, <2>1 DEF Behind, Exists
  <2>2. CASE Exists(cr)
    <3>1. cr = DeletedCR /\ cr \in CR /\ NoCR.uid = 0
      BY <1>3, <2>2, NewCRFields DEF DeleteExpired, IInv, Types, NoCR
    <3>2. cr.deleting
      BY <2>2, <3>1 DEF DeletedCR, CR, Exists
    <3> QED BY <1>1, <1>3, <3>2 DEF Behind
  <2> QED BY <2>1, <2>2
<1> QED BY <1>2, <1>3

LEMMA WorkerServes ==
    ASSUME IInv, CRStep, Served, WorkerStep
    PROVE  Served'
<1> USE DEF apiVars, cacheVars
<1>q. CASE queued'
  BY <1>q DEF Served
<1>n. CASE ~ queued'
  <2>a. crCache' = crCache /\ podCache' = podCache
    BY DEF WorkerStep, Reconcile, DeleteExpired, AddFinalizer, EnsureHealthCheckPod,
       RefetchPod, MarkStarted, UpdatePodstartCheckerResult, DetermineCheckResult,
       UpdateNodeCondition, CleanupPod, HandleCompletion, HandleDeletion, RemoveFinalizer
  <2>i. Idle.pc = "idle" /\ ~ Requeue
    BY <1>n DEF Idle, Requeue
  <2>1. CASE Reconcile
    <3>1. \/ ~ Exists(crCache) /\ wk' = Idle
          \/ /\ Exists(crCache)
             /\ \/ wk'.pc \in {"delete", "finalize", "ensure"}
                \/ wk'.pc = "expire" /\ ~ crCache.deleting
                \/ wk'.pc = "complete" /\ crCache.finished /\ ~ crCache.deleting
      BY <2>1 DEF Reconcile, ReconcileAt, CleanUpAt, Idle, isCompleted
    <3>2. cr' = cr
      BY <2>1 DEF Reconcile
    <3> QED BY <2>a, <2>i, <3>1, <3>2 DEF Served, Exists
  <2> SUFFICES ASSUME ~ Reconcile PROVE Served'
    BY <2>1
  <2>w. wk.pc # "idle" /\ ~ queued
    BY <1>n, <2>i DEF WorkerStep, Reconcile, DeleteExpired, AddFinalizer, EnsureHealthCheckPod,
       RefetchPod, MarkStarted, UpdatePodstartCheckerResult, DetermineCheckResult,
       UpdateNodeCondition, CleanupPod, HandleCompletion, HandleDeletion, RemoveFinalizer,
       Answered, UpdateStatus, markPodStartupResult
  <2>e. Exists(crCache)
    BY <2>w DEF Served
  <2>b. ASSUME wk' = Idle, Behind' PROVE Served'
    BY <2>i, <2>b DEF Served, Behind
  <2>g. ASSUME wk'.pc \in {"ensure", "refetch", "start", "podstart", "determine", "unfinalize"}
        PROVE  Served'
    BY <2>a, <2>e, <2>g DEF Served
  <2>2. CASE DeleteExpired
    <3>1. wk' = Idle
      BY <2>2, <2>i DEF DeleteExpired, Answered
    <3> QED BY <2>2, <2>b, <2>w, <3>1, ExpiredIsWritten
  <2>3. CASE AddFinalizer
    <3>1. /\ RVMatches(wk.cnh) /\ cr' = [cr EXCEPT !.finalizer = TRUE, !.rv = @ + 1]
          /\ wk' = [wk EXCEPT !.pc = IF isCompleted(cr) THEN "complete" ELSE "ensure", !.cnh = cr']
      BY <2>3, <2>i DEF AddFinalizer, Answered
    <3>2. cr' # cr
      <4>1. cr \in CR /\ cr'.rv = cr.rv + 1
        BY <3>1 DEF IInv, Types, CR
      <4> QED BY <4>1 DEF CR
    <3>3. Behind' /\ wk'.pc \in {"complete", "ensure"}
      BY <2>a, <2>e, <3>1, <3>2, WrittenIsBehind DEF IInv, Types
    <3> QED BY <2>a, <2>e, <3>3 DEF Served, Behind
  <2>4. CASE EnsureHealthCheckPod \/ RefetchPod
    <3>1. wk' = [wk EXCEPT !.pc = "start", !.pod = podCache] \/ wk' = [wk EXCEPT !.pc = "refetch"]
      BY <2>4, <2>i DEF EnsureHealthCheckPod, RefetchPod, Answered
    <3> QED BY <2>g, <3>1 DEF IInv, Types
  <2>5. CASE MarkStarted
    <3>1. wk' = [wk EXCEPT !.pc = "podstart"] \/ wk' = [wk EXCEPT !.pc = "podstart", !.cnh = cr']
      BY <2>5, <2>i DEF MarkStarted, UpdateStatus, Answered
    <3> QED BY <2>g, <3>1 DEF IInv, Types
  <2>6. CASE UpdatePodstartCheckerResult
    <3>1. wk' = [wk EXCEPT !.pc = "determine"] \/ wk' = [wk EXCEPT !.pc = "determine", !.cnh = cr']
      BY <2>6, <2>i DEF UpdatePodstartCheckerResult, markPodStartupResult, UpdateStatus, Answered
    <3> QED BY <2>g, <3>1 DEF IInv, Types
  <2>7. CASE DetermineCheckResult
    <3>1. wk' # Idle
      BY <2>7, <2>i DEF DetermineCheckResult, UpdateStatus, Answered, IInv, Types, AfterCompletion, Idle
    <3>2. cr' # cr /\ wk'.pc \in {"condition", "cleanup"}
      BY <2>7, <3>1, ConcludedIsWritten
    <3>3. Behind'
      BY <2>a, <2>e, <3>2, WrittenIsBehind
    <3> QED BY <2>a, <2>e, <3>2, <3>3 DEF Served, Behind
  <2>8. CASE UpdateNodeCondition
    <3>1. wk'.pc = "cleanup" /\ cr' = cr /\ Behind
      BY <2>8, <2>w DEF UpdateNodeCondition, CleanUpAt, Idle, Served
    <3> QED BY <2>a, <2>e, <3>1 DEF Served, Behind
  <2>9. CASE CleanupPod
    <3>1. wk' = Idle /\ cr' = cr /\ Behind
      BY <2>9, <2>w DEF CleanupPod, Served
    <3> QED BY <2>a, <2>b, <3>1 DEF Behind
  <2>10. CASE HandleCompletion
    <3>1. wk' = Idle /\ cr' = cr /\ (Behind \/ (crCache.finished /\ ~ crCache.deleting)) /\ cleanupPod
      BY <2>10, <2>i, <2>w DEF HandleCompletion, Answered, Served
    <3>2. PodGoing'
      BY <2>a, <3>1, CleanedUp DEF IInv
    <3> QED BY <2>a, <2>b, <2>i, <3>1, <3>2 DEF Served, Behind
  <2>11. CASE HandleDeletion
    <3>1. wk' = [wk EXCEPT !.pc = "unfinalize"]
      BY <2>11, <2>i DEF HandleDeletion, Answered
    <3> QED BY <2>g, <3>1 DEF IInv, Types
  <2>12. CASE RemoveFinalizer
    <3>1. wk' = Idle /\ cr' = NoCR /\ RVMatches(wk.cnh)
      BY <2>12, <2>i DEF RemoveFinalizer, Answered
    <3>2. cr' # cr
      BY <3>1, NewCRFields DEF RVMatches, Exists, NoCR
    <3> QED BY <2>a, <2>b, <2>e, <3>1, <3>2, WrittenIsBehind
  <2> QED BY <2>2, <2>3, <2>4, <2>5, <2>6, <2>7, <2>8, <2>9, <2>10, <2>11, <2>12 DEF WorkerStep
<1> QED BY <1>q, <1>n

LEMMA ServedStep == ASSUME IInv, CRStep, Served, [Next]_vars PROVE Served'
<1>1. CASE CallFails
  BY <1>1 DEF CallFails, Requeue, Served
<1>2. CASE Crash
  <2>1. queued' \/ ~ Exists(cr')
    BY <1>2 DEF Crash, apiVars, Exists
  <2>2. wk'.pc = "idle"
    BY <1>2 DEF Crash, Idle
  <2> QED BY <2>1, <2>2 DEF Served, Exists
<1>3. CASE UNCHANGED vars
  BY <1>3 DEF vars, apiVars, cacheVars, Served, Behind, PodGoing, Exists
<1> QED BY <1>1, <1>2, <1>3, WorkerServes, EnvironmentServes DEF Next

\* Whatever fails, is lost, lags behind or is deleted and created again, for every
\* number of CRs and faults: when the controller has nothing left to do or to hear of
\* a CR, its check is finished, and its pod is gone or going.  Nothing of this waits
\* for the hourly resync.
THEOREM NoCheckForgotten == Spec => []NothingForgotten
<1>1. Init => Served
  <2>1. Init => ~ Exists(cr) /\ wk.pc = "idle"
    BY NewCRFields DEF Init, Idle, NoCR, Exists
  <2> QED BY <2>1 DEF Served
<1>2. IInv /\ Types' /\ Served /\ [Next]_vars => Served'
  BY IInvStep, ServedStep
<1>3. Served => NothingForgotten
  <2> SUFFICES ASSUME Served, wk = Idle, ~ queued, crCache = cr, podCache = pod, Exists(cr)
               PROVE  cr.finished /\ ~ cr.deleting /\ (Exists(pod) => pod.deleting)
    BY DEF NothingForgotten
  <2>1. wk.pc = "idle"
    BY DEF Idle
  <2> QED BY <2>1 DEF Served, PodGoing
<1> QED BY IInvInvariant, TypesInvariant, <1>1, <1>2, <1>3, PTL DEF Spec

-----------------------------------------------------------------------------
(* Refinement: the CR is a one-time check *)

LEMMA InitRefines == Init => OneShot!Init
BY NewCRFields DEF Init, OneShot!Init, OneShot!Absent, CheckOf, StageOf, NoCR, Exists

\* The instance speaks of results and verdicts as HealthVerdict does.
LEMMA SameVocabulary ==
    /\ OneShot!CheckStatus = CheckStatus
    /\ \A name, status : OneShot!Result(name, status) = Result(name, status)
    /\ \A results, new :
          OneShot!updateCheckResult(results, new) = updateCheckResult(results, new)
    /\ \A results :
          OneShot!determineHealthyCondition(results) = determineHealthyCondition(results)
<1>1. OneShot!CheckStatus = CheckStatus /\ OneShot!RequiredCheckResults = RequiredCheckResults
  BY DEF OneShot!CheckStatus, CheckStatus, OneShot!RequiredCheckResults, RequiredCheckResults
<1>2. \A name, status : OneShot!Result(name, status) = Result(name, status)
  BY DEF OneShot!Result, Result
<1>3. \A results, new :
        OneShot!updateCheckResult(results, new) = updateCheckResult(results, new)
  BY DEF OneShot!updateCheckResult, updateCheckResult
<1>4. ASSUME NEW results
      PROVE  OneShot!determineHealthyCondition(results) = determineHealthyCondition(results)
  <2>1. OneShot!hasUnhealthyResult(results) = hasUnhealthyResult(results)
    BY DEF OneShot!hasUnhealthyResult, hasUnhealthyResult
  <2>2. OneShot!hasUnknownResult(results) = hasUnknownResult(results)
    BY DEF OneShot!hasUnknownResult, hasUnknownResult
  <2>3. OneShot!findMissingResult(results) = findMissingResult(results)
    BY <1>1 DEF OneShot!findMissingResult, findMissingResult
  <2>4. OneShot!allResultsHealthy(results) = allResultsHealthy(results)
    BY DEF OneShot!allResultsHealthy, allResultsHealthy
  <2> QED BY <2>1, <2>2, <2>3, <2>4
          DEF OneShot!determineHealthyCondition, determineHealthyCondition
<1> QED BY <1>1, <1>2, <1>3, <1>4

LEMMA StepRefines ==
    ASSUME IInv, CRStep
    PROVE  [OneShot!Next]_(OneShot!vars)
<1> USE DEF CheckOf, StageOf, Exists, OneShot!vars
<1>0. ValidStatus(cr) /\ cr \in CR
  BY DEF IInv, Types
<1>1. CASE cr' = cr /\ crCount' = crCount
  BY <1>1
<1>2. CASE ~ Exists(cr) /\ crCount' = crCount + 1 /\ cr' = NewCR(crCount')
  <2>1. crCount + 1 # 0
    BY DEF IInv, Types
  <2>2. OneShot!Request
    <3>1. /\ CheckOf(cr).stage = "absent"
          /\ CheckOf(cr') = [uid |-> crCount', stage |-> "requested",
                             results |-> {}, verdict |-> "none"]
      BY <1>2, <2>1, NewCRFields
    <3> HIDE DEF CheckOf
    <3> QED BY <1>2, <3>1 DEF OneShot!Request
  <2> QED BY <2>2 DEF OneShot!Next
<1>3. CASE Exists(cr) /\ cr' = NoCR /\ crCount' = crCount
  <2>1. OneShot!Withdraw
    BY <1>3, NewCRFields DEF OneShot!Withdraw, OneShot!Absent, NoCR
  <2> QED BY <2>1 DEF OneShot!Next
<1>4. CASE Rewritten /\ crCount' = crCount
  <2>1. cr.uid # 0 /\ cr'.uid = cr.uid
    BY <1>4 DEF Rewritten
  <2>2. CASE SameStatus
    BY <1>4, <2>1, <2>2 DEF SameStatus
  <2>3. CASE Begins
    <3>1. OneShot!Begin
      BY <1>4, <2>1, <2>3 DEF Begins, OneShot!Begin
    <3> QED BY <3>1 DEF OneShot!Next
  <2>4. CASE Assesses
    <3>1. OneShot!AssessStartup
      <4>1. PICK s \in CheckStatus :
               cr'.results = updateCheckResult(cr.results, Result("PodStartup", s))
        BY <2>4 DEF Assesses
      <4>2. /\ CheckOf(cr) = [uid |-> cr.uid, stage |-> "started", results |-> cr.results,
                              verdict |-> "none"]
            /\ CheckOf(cr') = [uid |-> cr.uid, stage |-> "started",
                               results |-> updateCheckResult(cr.results, Result("PodStartup", s)),
                               verdict |-> "none"]
        BY <2>1, <2>4, <4>1 DEF Assesses
      <4> HIDE DEF CheckOf
      <4> QED BY <1>4, <4>2, SameVocabulary DEF OneShot!AssessStartup
    <3> QED BY <3>1 DEF OneShot!Next
  <2>5. CASE Concludes
    <3>1. OneShot!Conclude
      <4>1. /\ CheckOf(cr) = [uid |-> cr.uid, stage |-> "started", results |-> cr.results,
                              verdict |-> "none"]
            /\ CheckOf(cr') = [uid |-> cr.uid, stage |-> "finished", results |-> cr.results,
                               verdict |-> determineHealthyCondition(cr.results)]
        BY <2>1, <2>5 DEF Concludes
      <4> HIDE DEF CheckOf
      <4> QED BY <1>4, <4>1, SameVocabulary DEF OneShot!Conclude
    <3> QED BY <3>1 DEF OneShot!Next
  <2>6. CASE Reports
    <3>1. OneShot!Report
      <4>1. PICK s \in CheckStatus :
               cr'.results = cr.results \union {Result("PodNetwork", s)}
        BY <2>6 DEF Reports
      <4>2. /\ CheckOf(cr).stage \in {"started", "finished"}
            /\ CheckOf(cr) = [uid |-> cr.uid, stage |-> CheckOf(cr).stage,
                              results |-> cr.results, verdict |-> CheckOf(cr).verdict]
            /\ CheckOf(cr') = [uid |-> cr.uid, stage |-> CheckOf(cr).stage,
                               results |-> cr.results \union {Result("PodNetwork", s)},
                               verdict |-> CheckOf(cr).verdict]
        BY <2>1, <2>6, <4>1 DEF Reports
      <4> HIDE DEF CheckOf
      <4> QED BY <1>4, <4>2, SameVocabulary DEF OneShot!Report
    <3> QED BY <3>1 DEF OneShot!Next
  <2> QED BY <1>4, <2>2, <2>3, <2>4, <2>5, <2>6 DEF Rewritten
<1> QED BY <1>1, <1>2, <1>3, <1>4 DEF CRStep

\* Controller, node checkers, API server, caches and faults together implement
\* the one-time check that types.go describes.
THEOREM RefinesOneShotCheck == Spec => ImplementsOneShotCheck
<1>1. IInv /\ Types' /\ [Next]_vars => [OneShot!Next]_(OneShot!vars)
  BY IInvStep, StepRefines
<1> QED BY IInvInvariant, TypesInvariant, InitRefines, <1>1, PTL
        DEF Spec, ImplementsOneShotCheck, OneShot!Spec

-----------------------------------------------------------------------------
(* Refinement: the CR lives as other controllers rely on *)

\* On its way to a status update the worker holds a copy that nobody has deleted.
Working == {"finalize", "ensure", "refetch", "start", "podstart", "determine"}
Undeleted == wk.pc \in Working => ~ wk.cnh.deleting

\* Without a CR there is nothing left of one.
Gone == Exists(cr) \/ cr = NoCR

\* How the end and the deletion of a CR move: one at a time, and not back.
LifeStep ==
    \/ cr'.deleting = cr.deleting /\ cr'.finished = cr.finished
    \/ ~ cr.deleting /\ ~ cr'.deleting
    \/ ~ cr.deleting /\ cr'.deleting /\ cr'.finished = cr.finished
    \/ ~ Exists(cr)
    \/ cr' = NoCR

LEMMA StatusKeepsDeletion ==
    ASSUME Types, NEW new
    PROVE  StatusUpdated(new).deleting = cr.deleting
<1> DEFINE obj == [cr EXCEPT !.started = new.started, !.finished = new.finished,
                            !.healthy = new.healthy, !.results = new.results]
<1>1. obj.deleting = cr.deleting /\ [obj EXCEPT !.rv = @ + 1].deleting = obj.deleting
  BY DEF Types, CR
<1>2. StatusUpdated(new) = IF obj = cr THEN cr ELSE [obj EXCEPT !.rv = @ + 1]
  BY DEF StatusUpdated
<1> HIDE DEF obj
<1> QED BY <1>1, <1>2

\* A status update of the worker is refused, or it is of an undeleted CR.
LEMMA UndeletedUpdate ==
    ASSUME IInv, Undeleted, wk.pc \in Working, NEW next, NEW new, UpdateStatus(new, next),
           new.uid = wk.cnh.uid, new.rv = wk.cnh.rv
    PROVE  LifeStep /\ (wk' = Idle \/ ~ wk'.cnh.deleting)
<1>1. CASE RVMatches(new) /\ cr' = StatusUpdated(new)
  <2>1. wk.cnh = cr
    BY <1>1, MatchIsCurrent DEF RVMatches, IInv, Types, SnapshotCoherent
  <2>2. ~ cr.deleting /\ ~ cr'.deleting
    BY <1>1, <2>1, StatusKeepsDeletion DEF Undeleted, IInv
  <2>3. wk' = Idle \/ wk' = [wk EXCEPT !.pc = next, !.cnh = cr'] \/ wk'.cnh = wk.cnh
    BY UpdateStatusCases
  <2> QED BY <2>1, <2>2, <2>3 DEF LifeStep, IInv, Types
<1>2. CASE cr' = cr /\ wk' = Idle
  BY <1>2 DEF LifeStep
<1> QED BY <1>1, <1>2, UpdateStatusCases

LEMMA WorkerLives ==
    ASSUME IInv, Undeleted, WorkerStep
    PROVE  LifeStep /\ Undeleted'
<1> USE DEF apiVars
<1>0. Types /\ cr \in CR /\ wk.cnh \in CR
  BY DEF IInv, Types
<1>a. Idle.pc = "idle" /\ "idle" \notin Working
  BY DEF Idle, Working
<1>b. ASSUME wk' = Idle PROVE Undeleted'
  BY <1>a, <1>b DEF Undeleted
<1>c. ASSUME cr' = cr PROVE LifeStep
  BY <1>c DEF LifeStep
<1>1. CASE Reconcile
  <2>1. \/ wk' = Idle
        \/ wk'.pc \in {"delete", "expire", "complete"}
        \/ wk'.cnh = crCache /\ ~ crCache.deleting
    BY <1>1 DEF Reconcile, ReconcileAt, CleanUpAt, Idle
  <2>2. cr' = cr
    BY <1>1 DEF Reconcile
  <2> QED BY <1>b, <1>c, <2>1, <2>2 DEF Undeleted, Working
<1>2. CASE EnsureHealthCheckPod \/ RefetchPod
  <2>1. cr' = cr /\ wk.pc \in Working
    BY <1>2 DEF EnsureHealthCheckPod, RefetchPod, Working
  <2>2. wk' = Idle \/ wk'.cnh = wk.cnh
    BY <1>0, <1>2 DEF EnsureHealthCheckPod, RefetchPod, Answered, Requeue, Types
  <2> QED BY <1>b, <1>c, <2>1, <2>2 DEF Undeleted
<1>3. CASE UpdateNodeCondition \/ CleanupPod \/ HandleCompletion \/ HandleDeletion
  <2>1. cr' = cr
    BY <1>3 DEF UpdateNodeCondition, CleanupPod, HandleCompletion, HandleDeletion
  <2>2. wk' = Idle \/ wk'.pc \in {"cleanup", "unfinalize"}
    BY <1>0, <1>3 DEF UpdateNodeCondition, CleanupPod, HandleCompletion, HandleDeletion, CleanUpAt,
                      Answered, Requeue, Idle, Types
  <2> QED BY <1>b, <1>c, <2>1, <2>2 DEF Undeleted, Working
<1>4. CASE DeleteExpired
  <2>1. wk' = Idle
    BY <1>4 DEF DeleteExpired, Answered, Requeue
  <2>2. LifeStep
    BY <1>0, <1>4 DEF DeleteExpired, DeletedCR, LifeStep, CR
  <2> QED BY <1>b, <2>1, <2>2
<1>5. CASE AddFinalizer
  <2>1. CASE RVMatches(wk.cnh)
    <3>1. wk.cnh = cr
      BY <1>0, <2>1, MatchIsCurrent DEF IInv, SnapshotCoherent
    <3>2. ~ cr.deleting
      BY <1>5, <3>1 DEF AddFinalizer, Undeleted, Working
    <3>3. cr' = [cr EXCEPT !.finalizer = TRUE, !.rv = @ + 1] /\ (wk' = Idle \/ wk'.cnh = cr')
      BY <1>0, <1>5, <2>1 DEF AddFinalizer, Answered, Requeue, Types
    <3>4. ~ cr'.deleting
      BY <1>0, <3>2, <3>3 DEF CR
    <3> QED BY <1>b, <3>2, <3>3, <3>4 DEF LifeStep, Undeleted
  <2>2. CASE ~ RVMatches(wk.cnh)
    BY <1>5, <1>b, <1>c, <2>2 DEF AddFinalizer, Requeue
  <2> QED BY <2>1, <2>2
<1>6. CASE MarkStarted
  <2>1. wk.pc \in Working
    BY <1>6 DEF MarkStarted, Working
  <2>2. CASE cr' = cr /\ wk' = [wk EXCEPT !.pc = "podstart"]
    <3>1. wk'.cnh = wk.cnh
      BY <2>2
    <3> QED BY <1>c, <2>1, <2>2, <3>1 DEF Undeleted
  <2>3. CASE UpdateStatus(markStarted(wk.cnh), "podstart")
    <3> DEFINE new == markStarted(wk.cnh)
    <3>1. new.uid = wk.cnh.uid /\ new.rv = wk.cnh.rv
      BY <1>0 DEF markStarted, CR
    <3> HIDE DEF new
    <3>2. LifeStep /\ (wk' = Idle \/ ~ wk'.cnh.deleting)
      BY <2>1, <2>3, <3>1, UndeletedUpdate DEF new
    <3> QED BY <1>b, <3>2 DEF Undeleted
  <2> QED BY <1>6, <2>2, <2>3 DEF MarkStarted
<1>7. CASE UpdatePodstartCheckerResult
  <2>1. wk.pc \in Working
    BY <1>7 DEF UpdatePodstartCheckerResult, Working
  <2>2. CASE cr' = cr /\ wk' = [wk EXCEPT !.pc = "determine"]
    <3>1. wk'.cnh = wk.cnh
      BY <2>2
    <3> QED BY <1>c, <2>1, <2>2, <3>1 DEF Undeleted
  <2>3. ASSUME NEW s, markPodStartupResult(s) PROVE LifeStep /\ Undeleted'
    <3> DEFINE new == [wk.cnh EXCEPT !.results = updateCheckResult(@, Result("PodStartup", s))]
    <3>1. new.uid = wk.cnh.uid /\ new.rv = wk.cnh.rv
      BY <1>0 DEF CR
    <3>2. UpdateStatus(new, "determine")
      BY <2>3 DEF markPodStartupResult
    <3> HIDE DEF new
    <3>3. LifeStep /\ (wk' = Idle \/ ~ wk'.cnh.deleting)
      BY <2>1, <3>1, <3>2, UndeletedUpdate
    <3> QED BY <1>b, <3>3 DEF Undeleted
  <2> QED BY <1>7, <2>2, <2>3 DEF UpdatePodstartCheckerResult
\* The only step that finishes a check.
<1>8. CASE DetermineCheckResult
  <2>1. wk.pc \in Working
    BY <1>8 DEF DetermineCheckResult, Working
  <2>2. CASE cr' = cr /\ wk' = Idle
    BY <1>b, <1>c, <2>2
  <2>3. CASE UpdateStatus(markCompleted(wk.cnh), AfterCompletion)
    <3> DEFINE new == markCompleted(wk.cnh)
    <3>1. new.uid = wk.cnh.uid /\ new.rv = wk.cnh.rv
      BY <1>0 DEF markCompleted, CR
    <3> HIDE DEF new
    <3>2. LifeStep /\ (wk' = Idle \/ ~ wk'.cnh.deleting)
      BY <2>1, <2>3, <3>1, UndeletedUpdate DEF new
    <3> QED BY <1>b, <3>2 DEF Undeleted
  <2> QED BY <1>8, <2>2, <2>3 DEF DetermineCheckResult, Requeue
<1>9. CASE RemoveFinalizer
  BY <1>9, <1>b DEF RemoveFinalizer, Answered, Requeue, LifeStep
<1> QED BY <1>1, <1>2, <1>3, <1>4, <1>5, <1>6, <1>7, <1>8, <1>9 DEF WorkerStep

LEMMA NextLives ==
    ASSUME IInv, Undeleted, [Next]_vars
    PROVE  LifeStep /\ Undeleted'
<1> USE DEF apiVars, nodeUnchanged
<1>0. cr \in CR
  BY DEF IInv, Types
<1>a. ASSUME wk' = wk PROVE Undeleted'
  BY <1>a DEF Undeleted
<1>b. Idle.pc = "idle"
  BY DEF Idle
<1>1. CASE CallFails \/ Crash
  BY <1>1, <1>b DEF CallFails, Crash, Requeue, LifeStep, Undeleted, Working
<1>2. CASE Environment
  <2>1. wk' = wk
    BY <1>2 DEF Environment, WatchCR, WatchPod, Resync, PodTimesOut, CRExpires, CreateCR, DeleteCR,
         PodStarts, PodRejected, RunnerReads, RunnerWrites, RunnerFails, PodExits, PodRemoved,
         OwnerGC, PodEvicted
  <2>2. CASE DeleteCR
    <3>1. LifeStep
      BY <1>0, <2>2 DEF DeleteCR, DeletedCR, LifeStep, CR
    <3> QED BY <1>a, <2>1, <3>1
  <2>3. CASE CreateCR
    BY <1>a, <2>1, <2>3 DEF CreateCR, LifeStep
  <2>4. ASSUME NEW status \in ReportedStatus, RunnerWrites(status) PROVE LifeStep
    <3> DEFINE new == [runner.cnh EXCEPT !.results = @ \union {Result("PodNetwork", status)}]
    <3>1. runner.cnh \in CR /\ Coherent(runner.cnh) /\ Types
      BY DEF IInv, Types, SnapshotCoherent
    <3>2. new \in CR /\ new.uid = runner.cnh.uid /\ new.rv = runner.cnh.rv
          /\ new.finished = runner.cnh.finished
      <4>1. Result("PodNetwork", status) \in CheckResult
        BY ResultType, ConstantsAssumption
      <4> QED BY <3>1, <4>1 DEF CR
    <3>3. \/ cr' = cr
          \/ RVMatches(new) /\ cr' = [StatusUpdated(new) EXCEPT !.rv = cr.rv + 1]
      BY <2>4 DEF RunnerWrites
    <3> HIDE DEF new
    <3>4. CASE cr' = cr
      BY <3>4 DEF LifeStep
    <3>5. CASE RVMatches(new) /\ cr' = [StatusUpdated(new) EXCEPT !.rv = cr.rv + 1]
      <4>1. runner.cnh = cr
        BY <3>1, <3>2, <3>5, MatchIsCurrent DEF RVMatches
      <4>2. StatusUpdated(new) \in CR
        BY <3>1, <3>2, StatusUpdatedType
      <4>3. StatusUpdated(new).deleting = cr.deleting /\ StatusUpdated(new).finished = cr.finished
        BY <3>1, <3>2, <4>1, StatusKeepsDeletion, StatusUpdatedCases
      <4>4. cr'.deleting = cr.deleting /\ cr'.finished = cr.finished
        BY <3>5, <4>2, <4>3 DEF CR
      <4> QED BY <4>4 DEF LifeStep
    <3> QED BY <3>3, <3>4, <3>5
  <2>5. CASE cr' = cr
    BY <1>a, <2>1, <2>5 DEF LifeStep
  <2> QED BY <1>2, <1>a, <2>1, <2>2, <2>3, <2>4, <2>5
          DEF Environment, WatchCR, WatchPod, Resync, PodTimesOut, CRExpires, PodStarts, PodRejected,
              RunnerReads, RunnerFails, PodExits, PodRemoved, OwnerGC, PodEvicted
<1>3. CASE UNCHANGED vars
  BY <1>3, <1>a DEF vars, LifeStep
<1> QED BY <1>1, <1>2, <1>3, WorkerLives DEF Next

LEMMA StepLives ==
    ASSUME IInv, Types', Gone, CRStep, LifeStep
    PROVE  Gone' /\ [Life!Next]_(LifeOf(cr))
<1>0. /\ \A u : NewCR(u).uid = u /\ ~ NewCR(u).finished /\ ~ NewCR(u).deleting
      /\ NoCR.uid = 0 /\ ~ NoCR.finished /\ ~ NoCR.deleting
      /\ NewCR(crCount').finished = FALSE /\ NewCR(crCount').deleting = FALSE
      /\ NoCR.finished = FALSE /\ NoCR.deleting = FALSE
  BY DEF NewCR, NoCR
<1>1. cr \in CR /\ crCount \in Nat
  BY DEF IInv, Types
<1>2. CASE cr' = cr
  BY <1>2 DEF Gone, LifeOf, Exists
<1>3. CASE ~ Exists(cr) /\ crCount' = crCount + 1 /\ cr' = NewCR(crCount')
  <2>1. cr = NoCR /\ cr'.uid # 0
    BY <1>0, <1>1, <1>3 DEF Gone
  <2>2. /\ LifeOf(cr) = [exists |-> FALSE, finished |-> FALSE, deleting |-> FALSE]
        /\ LifeOf(cr)' = [exists |-> TRUE, finished |-> FALSE, deleting |-> FALSE]
    <3>1. Exists(NoCR) = FALSE /\ Exists(cr') = TRUE
      BY <1>0, <2>1 DEF Exists
    <3>2. /\ LifeOf(NoCR) = [exists |-> Exists(NoCR), finished |-> NoCR.finished,
                             deleting |-> NoCR.deleting]
          /\ LifeOf(cr)' = [exists |-> Exists(cr'), finished |-> cr'.finished,
                            deleting |-> cr'.deleting]
      BY DEF LifeOf
    <3>3. cr'.finished = FALSE /\ cr'.deleting = FALSE
      BY <1>0, <1>3
    <3> QED BY <1>0, <2>1, <3>1, <3>2, <3>3, Zenon
  <2>3. Life!Create
    BY <2>2, Zenon DEF Life!Create, Life!Absent, Life!Present
  <2> QED BY <2>1, <2>3 DEF Gone, Exists, Life!Next
<1>4. CASE Exists(cr) /\ cr' = NoCR
  <2>1. LifeOf(cr).exists /\ LifeOf(cr)' = Life!Absent
    BY <1>0, <1>4 DEF LifeOf, Life!Absent, Exists
  <2> QED BY <1>4, <2>1 DEF Gone, Life!Next, Life!Remove
<1>5. CASE Rewritten
  <2>1. Exists(cr) /\ Exists(cr') /\ (cr.finished => cr'.finished)
    BY <1>5 DEF Rewritten, Exists, SameStatus, Begins, Assesses, Concludes, Reports
  <2>2. cr' # NoCR /\ cr'.finished \in BOOLEAN /\ cr.finished \in BOOLEAN /\ cr.deleting \in BOOLEAN
    BY <1>0, <1>1, <2>1 DEF Types, CR, Exists
  <2>3. /\ LifeOf(cr) = [exists |-> TRUE, finished |-> cr.finished, deleting |-> cr.deleting]
        /\ LifeOf(cr)' = [exists |-> TRUE, finished |-> cr'.finished, deleting |-> cr'.deleting]
    BY <2>1 DEF LifeOf
  <2>4. Gone'
    BY <2>1 DEF Gone
  <2>5. CASE cr'.deleting = cr.deleting /\ cr'.finished = cr.finished
    BY <2>3, <2>4, <2>5
  <2>6. CASE cr'.deleting = cr.deleting /\ ~ cr.deleting /\ ~ cr.finished /\ cr'.finished
    <3>1. cr.deleting = FALSE /\ cr'.deleting = FALSE /\ cr.finished = FALSE /\ cr'.finished = TRUE
      BY <2>2, <2>6
    <3>2. Life!Finish
      BY <2>3, <3>1, Zenon DEF Life!Finish, Life!Present
    <3> QED BY <2>4, <3>2 DEF Life!Next
  <2>7. CASE ~ cr.deleting /\ cr'.deleting = TRUE /\ cr'.finished = cr.finished
    <3>1. cr.deleting = FALSE
      BY <2>2, <2>7
    <3>2. Life!MarkDeleted
      BY <2>2, <2>3, <2>7, <3>1, Zenon DEF Life!MarkDeleted, Life!Present
    <3> QED BY <2>4, <3>2 DEF Life!Next
  <2>8. cr'.deleting \in BOOLEAN
    BY DEF Types, CR
  <2> QED BY <2>1, <2>2, <2>5, <2>6, <2>7, <2>8 DEF LifeStep
<1> QED BY <1>2, <1>3, <1>4, <1>5 DEF CRStep

\* What the HealthCheckRequest controller takes for granted of a check, whatever its
\* own informer has seen of it: finished once, and not once it is being deleted; no
\* update of a stale copy brings a deleted or finished check back.
THEOREM RefinesCheckLife == Spec => ImplementsCheckLife
<1>1. Init => Undeleted /\ Gone /\ Life!Init
  <2> SUFFICES ASSUME Init PROVE Undeleted /\ Gone /\ Life!Init
    OBVIOUS
  <2>1. wk.pc = "idle" /\ cr = NoCR
    BY DEF Init, Idle
  <2>2. Exists(NoCR) = FALSE /\ NoCR.finished = FALSE /\ NoCR.deleting = FALSE
    BY DEF Exists, NoCR, NewCR
  <2>3. Life!Init
    BY <2>1, <2>2, Zenon DEF Life!Init, Life!Absent, LifeOf
  <2> QED BY <2>1, <2>3 DEF Undeleted, Working, Gone
<1>2. IInv /\ Types' /\ Undeleted /\ Gone /\ [Next]_vars =>
        Undeleted' /\ Gone' /\ [Life!Next]_(LifeOf(cr))
  BY IInvStep, NextLives, StepLives
<1> QED BY IInvInvariant, TypesInvariant, <1>1, <1>2, PTL
        DEF Spec, ImplementsCheckLife, Life!Spec
===============================================================================
