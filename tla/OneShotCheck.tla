----------------------------- MODULE OneShotCheck -----------------------------
(***************************************************************************)
(* What a CheckNodeHealth promises to whoever created it (apis/chm/v1alpha1 *)
(* types.go): a one-time check that is requested, begins, collects results, *)
(* and concludes once, with the verdict its results imply.  It may be       *)
(* withdrawn at any stage, and requested anew under the same name.          *)
(*                                                                          *)
(* Nothing of pods, caches, retries or resource versions is visible here.   *)
(* A node checker's result may still be added after the conclusion; it      *)
(* never changes the verdict, and no result of a node checker is dropped.   *)
(***************************************************************************)
EXTENDS Naturals, HealthVerdict

VARIABLES
    check,      \* the check under this name
    requested   \* how many have been requested so far

vars == <<check, requested>>

Stage == {"absent", "requested", "started", "finished"}

Check == [uid : Nat, stage : Stage, results : SUBSET CheckResult,
          verdict : Verdicts \union {"none"}]

Absent == [uid |-> 0, stage |-> "absent", results |-> {}, verdict |-> "none"]

Init == check = Absent /\ requested = 0

Request ==
    /\ check.stage = "absent"
    /\ requested' = requested + 1
    /\ check' = [uid |-> requested', stage |-> "requested",
                 results |-> {}, verdict |-> "none"]

Begin ==
    /\ check.stage = "requested"
    /\ check' = [check EXCEPT !.stage = "started"]
    /\ UNCHANGED requested

\* The controller's own result: did the pod start?  The last answer counts.
AssessStartup ==
    /\ check.stage = "started"
    /\ \E status \in CheckStatus :
          check' = [check EXCEPT !.results = updateCheckResult(@, Result("PodStartup", status))]
    /\ UNCHANGED requested

\* A node checker's result.
Report ==
    /\ check.stage \in {"started", "finished"}
    /\ \E status \in CheckStatus :
          check' = [check EXCEPT !.results = @ \union {Result("PodNetwork", status)}]
    /\ UNCHANGED requested

Conclude ==
    /\ check.stage = "started"
    /\ check' = [uid |-> check.uid, stage |-> "finished", results |-> check.results,
                 verdict |-> determineHealthyCondition(check.results)]
    /\ UNCHANGED requested

Withdraw ==
    /\ check.stage # "absent"
    /\ check' = Absent
    /\ UNCHANGED requested

Next == Request \/ Begin \/ AssessStartup \/ Report \/ Conclude \/ Withdraw

Spec == Init /\ [][Next]_vars
===============================================================================
