--------------------------- MODULE PodNetworkChecker ---------------------------
(***************************************************************************)
(* The check that a node checker pod runs (pkg/checker/podnetwork), with    *)
(* the attempts its runner makes (pkg/nodecheckerrunner): can CoreDNS pods  *)
(* on other nodes be reached, and the DNS service?  The result goes into    *)
(* the CheckNodeHealth.  There is no deadline but that of each query: the   *)
(* controller deletes the pod when it takes too long.                       *)
(***************************************************************************)
EXTENDS CheckerRuns

VARIABLE node      \* the one run of the runner

maxRetryAttempts == 3

Results == {"none", "Healthy", "Unhealthy", "Unknown"}
NodeRun == [pc : {"off", "getEligibleCoreDNSPods", "getService", "checkDNSPods",
                  "checkDNSSvc", "done"},
            attempts : 0..maxRetryAttempts, eligible : SUBSET Pods, todo : SUBSET Pods,
            succeeded : SUBSET Pods, since : 0..MaxChanges, result : Results]

NodeAt(pc) == node.pc = pc
NodeTo(pc) == node' = [node EXCEPT !.pc = pc]

\* Run returns an error: another attempt, or Unknown after the last.
\* (Names with a suffix are faulty variants of the definition that follows.)
Retry_Unlimited ==
    node' = [node EXCEPT !.pc = "getEligibleCoreDNSPods"]
Retry_OnceMore ==
    node' = [node EXCEPT
        !.attempts = @ + 1,
        !.pc = IF node.attempts = maxRetryAttempts THEN "done" ELSE "getEligibleCoreDNSPods",
        !.result = IF node.attempts = maxRetryAttempts THEN "Unknown" ELSE @]
Retry ==
    node' = [node EXCEPT
        !.attempts = @ + 1,
        !.pc = IF node.attempts + 1 = maxRetryAttempts THEN "done" ELSE "getEligibleCoreDNSPods",
        !.result = IF node.attempts + 1 = maxRetryAttempts THEN "Unknown" ELSE @]

RequestFails == faults < MaxFaults /\ faults' = faults + 1

\* Pods on other nodes that are ready; one alone is not enough to tell.
getEligibleCoreDNSPods ==
    /\ NodeAt("getEligibleCoreDNSPods")
    /\ LET eligible == ready \ OnNode
           few == Cardinality(eligible) <= 1 IN
       \/ /\ node' = [node EXCEPT
                !.eligible = eligible, !.todo = eligible, !.succeeded = {}, !.since = changes,
                !.pc = IF few THEN "done" ELSE "getService",
                !.result = IF few THEN "Unknown" ELSE @]
          /\ UNCHANGED faults
       \/ RequestFails /\ Retry

\* A service without a cluster IP is there all the same.
getService ==
    /\ NodeAt("getService")
    /\ \/ NodeTo("checkDNSPods") /\ UNCHANGED faults
       \/ ~service /\ Retry /\ UNCHANGED faults
       \/ RequestFails /\ Retry

\* Any DNS response is a success, errors included.
ping(s) == server[s] # "silent" /\ (s = "kube-dns" => service)

checkDNSPodConnectivity ==
    /\ NodeAt("checkDNSPods")
    /\ \E p \in node.todo :
        node' = [node EXCEPT
            !.succeeded = IF ping(p) THEN @ \union {p} ELSE @,
            !.todo = @ \ {p},
            !.pc = IF node.todo = {p} THEN "checkDNSSvc" ELSE @]
    /\ UNCHANGED faults

evaluateResults_AnyPath(pods, svc) == IF svc \/ pods # {} THEN "Healthy" ELSE "Unhealthy"
evaluateResults(pods, svc) == IF svc /\ pods # {} THEN "Healthy" ELSE "Unhealthy"

checkDNSSvcConnectivity ==
    /\ NodeAt("checkDNSSvc")
    /\ node' = [node EXCEPT
        !.pc = "done", !.result = evaluateResults(node.succeeded, ping("kube-dns"))]
    /\ UNCHANGED faults

NodeStep ==
    \/ getEligibleCoreDNSPods
    \/ getService
    \/ checkDNSPodConnectivity
    \/ checkDNSSvcConnectivity
=============================================================================
