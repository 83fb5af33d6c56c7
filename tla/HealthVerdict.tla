---------------------------- MODULE HealthVerdict ----------------------------
(***************************************************************************)
(* How the results of a CheckNodeHealth become its Healthy condition:       *)
(* pkg/controller/checknodehealth/controller.go, determineHealthyCondition  *)
(* and its helpers.  A result is reduced to its checker's name and its      *)
(* status, and the list of results to the set of its members: no rule looks *)
(* at the order, the multiplicity, the message or the error code.           *)
(***************************************************************************)

Verdicts == {"True", "False", "Unknown"}
CheckStatus == {"Healthy", "Unhealthy", "Unknown"}

RequiredCheckResults == {"PodStartup", "PodNetwork"}

CheckResult == [name : RequiredCheckResults, status : CheckStatus]

Result(name, status) == [name |-> name, status |-> status]

hasUnhealthyResult(results) == \E r \in results : r.status = "Unhealthy"

hasUnknownResult(results) == \E r \in results : r.status = "Unknown"

\* (Faulty: takes an empty list of results for complete.)
findMissingResult_IfAny(results) ==
    IF results = {} THEN RequiredCheckResults ELSE {}

findMissingResult(results) == RequiredCheckResults \ {r.name : r \in results}

allResultsHealthy(results) == \A r \in results : r.status = "Healthy"

\* Rules 1 to 4, in the order the code tries them.
determineHealthyCondition(results) ==
    IF hasUnhealthyResult(results) THEN "False"
    ELSE IF hasUnknownResult(results) THEN "Unknown"
    ELSE IF findMissingResult(results) # {} THEN "Unknown"
    ELSE IF allResultsHealthy(results) THEN "True"
    ELSE "Unknown"

\* updateCheckResult: replaces the result of the same checker, or appends it.
updateCheckResult(results, new) == {r \in results : r.name # new.name} \union {new}

=============================================================================
