------------------------- MODULE ClusterHealthMonitor -------------------------
(***************************************************************************)
(* The process cluster-health-monitor (cmd/clusterhealthmonitor/main.go):   *)
(* main, the metrics server, and the scheduler (pkg/scheduler), which runs  *)
(* each checker in a loop of its own, driven by a ticker whose channel      *)
(* holds one tick; and beside it a node checker, which looks at the same    *)
(* CoreDNS from a node.                                                     *)
(*                                                                          *)
(* The checkers here are those that only look.  Those that create objects   *)
(* are in module SyntheticChecks.                                           *)
(***************************************************************************)
EXTENDS DNSChecker, PodNetworkChecker

VARIABLES
    built,         \* the schedule is built, and the scheduler started
    schedule,      \* the checkers in it
    tick,          \* whether a tick waits in the channel of a checker's ticker
    signalled,     \* a SIGTERM has ended main's context
    serving,       \* the metrics server listens
    exit           \* how the process has ended

process == <<built, schedule, tick, signalled, serving, exit>>
vars == <<world, run, faults, node, configured, process>>

Alive == exit = "none"

-----------------------------------------------------------------------------
(* Checkers with a single request *)

checkMetricsServerAPI(c) ==
    /\ At(c, "checkMetricsServerAPI")
    /\ \E outcome \in Query(run[c], "metrics-server") :
        LET r == Asked(run[c], "metrics-server", outcome) IN
        \/ outcome = "answer" /\ Healthy(c, r)
        \/ outcome # "answer" /\ Unhealthy(c, r, "MetricsServer")
    /\ UNCHANGED faults

\* AzurePolicyChecker.check: an answer is a warning or an error that names a policy; any
\* other error but a timeout counts as an enforcement that is missing.  The client of the
\* run may fail to be built.
dryRunCreate(c) ==
    /\ At(c, "dryRunCreate")
    /\ \/ /\ \E outcome \in Query(run[c], "azure-policy") :
                LET r == Asked(run[c], "azure-policy", outcome) IN
                \/ outcome = "answer" /\ Healthy(c, r)
                \/ outcome = "timeout" /\ Unknown(c, r)
                \/ outcome = "error" /\ Unhealthy(c, r, "AzurePolicyEnforcementMissing")
          /\ UNCHANGED faults
       \/ /\ faults < MaxFaults
          /\ faults' = faults + 1
          /\ Unknown(c, run[c])

-----------------------------------------------------------------------------
(* The scheduler *)

First == [c \in Checkers |->
    CASE c = "CoreDNS" -> "getCoreDNSSvcIP"
      [] c = "CoreDNSPerPod" -> "perPodEndpoints"
      [] c = "LocalDNS" -> "checkLocalDNS"
      [] c = "MetricsServer" -> "checkMetricsServerAPI"
      [] OTHER -> "dryRunCreate"]

\* The ticker drops the ticks for which there is no room.
Tick(c) ==
    /\ c \in schedule /\ Alive
    /\ run[c].pc \notin {"off", "returned"}
    /\ ~tick[c]
    /\ tick' = [tick EXCEPT ![c] = TRUE]
    /\ UNCHANGED <<world, run, faults, node, configured, built, schedule, signalled, serving, exit>>

\* The two cases of scheduleChecker's select; when both are ready either is taken.
StartRun(c) ==
    /\ At(c, "select")
    /\ tick[c]
    /\ tick' = [tick EXCEPT ![c] = FALSE]
    /\ Becomes(c, Started(First[c], IF signalled THEN "cancelled" ELSE "open"))
    /\ UNCHANGED <<faults, built, schedule, signalled, serving, exit>>

StopLoop(c) ==
    /\ At(c, "select")
    /\ signalled
    /\ Becomes(c, To(run[c], "returned"))
    /\ UNCHANGED <<faults, process>>

\* A step of the goroutine of checker c.
CheckerStep(c) ==
    /\ Alive
    /\ \/ StartRun(c)
       \/ StopLoop(c)
       \/ (DNSStep(c) \/ checkMetricsServerAPI(c) \/ dryRunCreate(c)) /\ UNCHANGED process
    /\ UNCHANGED <<world, node, configured>>

Deadline(c) ==
    /\ Alive
    /\ Expire(c)
    /\ UNCHANGED <<world, faults, node, configured, process>>

-----------------------------------------------------------------------------
(* The process *)

Exits(how) ==
    /\ exit' = how
    /\ UNCHANGED <<world, run, faults, node, configured, built, schedule, tick, signalled, serving>>

\* From the configuration to the start of the scheduler; LocalDNS is skipped where the
\* resolver configuration does not name it, and an error ends the process.
Build ==
    /\ Alive /\ ~built
    /\ built' = TRUE
    /\ schedule' \in {configured \cap Checkers, (configured \cap Checkers) \ {"LocalDNS"}}
    /\ run' = [c \in Checkers |-> IF c \in schedule' THEN To(run[c], "select") ELSE run[c]]
    /\ UNCHANGED <<world, faults, node, configured, tick, signalled, serving, exit>>

BuildFails ==
    /\ Alive /\ ~built
    /\ faults < MaxFaults
    /\ faults' = faults + 1
    /\ exit' = "error"
    /\ UNCHANGED <<world, run, node, configured, built, schedule, tick, signalled, serving>>

\* SIGTERM, or SIGINT: the contexts of the runs under way are children of main's.
Signal ==
    /\ Alive /\ ~signalled
    /\ faults < MaxFaults
    /\ faults' = faults + 1
    /\ signalled' = TRUE
    /\ run' = [c \in Checkers |->
        IF run[c].ctx = "open" /\ run[c].pc \notin Resting
        THEN [run[c] EXCEPT !.ctx = "cancelled"] ELSE run[c]]
    /\ UNCHANGED <<world, node, configured, built, schedule, tick, serving, exit>>

\* ListenAndServe returns an error.
ServerFails ==
    /\ Alive /\ serving
    /\ faults < MaxFaults
    /\ faults' = faults + 1
    /\ serving' = FALSE
    /\ UNCHANGED <<world, run, node, configured, built, schedule, tick, signalled, exit>>

\* After a signal three goroutines hurry to end the process: main, with success, and
\* those of the metrics server and of the scheduler, which take the context's error
\* for a failure.
\* (Names with a suffix are faulty variants of the definition that follows.)
MainReturns == Alive /\ signalled /\ built /\ Exits("success")
MetricsServerReturns_Logged == Alive /\ signalled /\ Exits("error")
MetricsServerReturns == Alive /\ (signalled \/ ~serving) /\ Exits("error")
SchedulerReturns ==
    /\ Alive
    /\ schedule # {} /\ \A c \in schedule : run[c].pc = "returned"
    /\ Exits("error")

\* The kubelet starts the container again.
Restart ==
    /\ ~Alive
    /\ built' = FALSE
    /\ schedule' = {}
    /\ tick' = [c \in Checkers |-> FALSE]
    /\ signalled' = FALSE
    /\ serving' = TRUE
    /\ exit' = "none"
    /\ run' = [c \in Checkers |-> NoRun]
    /\ UNCHANGED <<world, faults, node, configured>>

ProcessStep ==
    \/ Build
    \/ MainReturns
    \/ MetricsServerReturns
    \/ SchedulerReturns
    \/ Restart

NodeCheckerStep ==
    /\ NodeStep
    /\ UNCHANGED <<world, run, configured, process>>

Change == ServerChanges /\ UNCHANGED <<run, faults, node, configured, process>>

Init ==
    /\ server = [s \in Servers |-> "answers"]
    /\ ready = Pods
    /\ service = TRUE
    /\ changes = 0
    /\ faults = 0
    /\ configured \in Configurations
    /\ built = FALSE
    /\ schedule = {}
    /\ tick = [c \in Checkers |-> FALSE]
    /\ signalled = FALSE
    /\ serving = TRUE
    /\ exit = "none"
    /\ run = [c \in Checkers |-> NoRun]
    /\ node = [pc |-> IF "PodNetwork" \in configured THEN "getEligibleCoreDNSPods" ELSE "off",
               attempts |-> 0, eligible |-> {}, todo |-> {}, succeeded |-> {},
               since |-> 0, result |-> "none"]

Next ==
    \/ \E c \in Checkers : Tick(c) \/ CheckerStep(c) \/ Deadline(c)
    \/ ProcessStep
    \/ BuildFails
    \/ Signal
    \/ ServerFails
    \/ NodeCheckerStep
    \/ Change

Spec == Init /\ [][Next]_vars

\* Tickers tick, queries and requests come to an end, and the goroutines of the process
\* run; nothing is assumed of deadlines.
Fairness ==
    /\ \A c \in Checkers : WF_vars(Tick(c)) /\ WF_vars(CheckerStep(c))
    /\ WF_vars(ProcessStep)
    /\ WF_vars(NodeCheckerStep)

FairSpec == Spec /\ Fairness

-----------------------------------------------------------------------------
(* Properties *)

TypeOK ==
    /\ server \in [Servers -> Answers]
    /\ ready \in SUBSET Pods /\ service \in BOOLEAN
    /\ changes \in 0..MaxChanges /\ faults \in 0..MaxFaults
    /\ run \in [Checkers -> Run]
    /\ node \in NodeRun
    /\ configured \in Configurations
    /\ schedule \subseteq configured \cap Checkers
    /\ tick \in [Checkers -> BOOLEAN]
    /\ built \in BOOLEAN /\ signalled \in BOOLEAN /\ serving \in BOOLEAN
    /\ exit \in {"none", "success", "error"}

\* The result counters can be added up (checker.go:46-75): every run that has returned
\* was counted once, or for the per-pod target once for each pod it listed, whatever
\* failed, and also when its deadline or a signal cut it short.
CountedOnce(c, r) ==
    r.ctx # "none" /\ r.pc \in Resting =>
        IF c = "CoreDNSPerPod"
        THEN /\ Len(r.records) = Cardinality(r.listed)
             /\ \A p \in r.listed : \E i \in 1..Len(r.records) : r.records[i].subject = p
        ELSE Len(r.records) = 1 /\ r.records[1].subject = c
RecordedOnce == \A c \in Checkers : CountedOnce(c, run[c])

\* Who must have answered for a Healthy, and of whom one must have failed for an
\* Unhealthy.
Asks(c, r, record) ==
    CASE c = "CoreDNS" -> {"kube-dns"} \union r.listed
      [] c = "CoreDNSPerPod" -> {record.subject}
      [] c = "LocalDNS" -> {"localdns"}
      [] c = "MetricsServer" -> {"metrics-server"}
      [] OTHER -> {"azure-policy"}

\* A result is about those it names (dns_checker.go:92-131, 146-180), while servers fail
\* and recover in the middle of the run: Healthy needs an answer of every one in this
\* run.  An Unhealthy without a failure is one of a run whose context was over.
HasCause(c, r, record) ==
    /\ record.status = "Healthy" => Asks(c, r, record) \subseteq r.answered
    /\ record.status = "Unhealthy" =>
         \/ r.failed \cap Asks(c, r, record) # {}
         \/ record.code \in {"ServiceNotReady", "PodsNotReady"}
         \/ r.ctx # "open"
ResultsHaveCause ==
    \A c \in Checkers : \A i \in 1..Len(run[c].records) :
        HasCause(c, run[c], run[c].records[i])

\* In a world that stands still a run that is given its time tells the truth: it says
\* Healthy when all is well, and only then.
AllWell(c, r, record) ==
    /\ \A s \in Asks(c, r, record) : server[s] = "answers"
    /\ c = "CoreDNS" => service /\ ready # {} /\ r.listed = ready
TellsTruth(c, r, record) ==
    r.since = changes /\ r.ctx = "open" =>
        /\ record.status = "Healthy" => AllWell(c, r, record)
        /\ record.status = "Unhealthy" => ~AllWell(c, r, record)
StillWorldTruth ==
    \A c \in Checkers : \A i \in 1..Len(run[c].records) :
        TellsTruth(c, run[c], run[c].records[i])

\* So does the node checker (pod_network_checker.go:177-181), from one attempt: Healthy
\* when the service and a pod on another node can be reached, Unhealthy when one of the
\* two cannot, Unknown only with too few pods to tell or after its last attempt.
NodeCheckTruth ==
    NodeAt("done") /\ node.since = changes =>
        LET reached == ping("kube-dns") /\ \E p \in ready \ OnNode : ping(p) IN
        /\ node.result = "Healthy" => reached
        /\ node.result = "Unhealthy" => ~reached
        /\ node.result = "Unknown" =>
             Cardinality(ready \ OnNode) <= 1 \/ node.attempts = maxRetryAttempts

\* Every checker is run again and again, and every run returns (scheduler.go:56-71): no
\* silent server, deadline that has passed, failed request or restart of the process
\* puts an end to its loop.
ChecksRepeat ==
    \A c \in Checkers \ {"LocalDNS"} :
        c \in configured => /\ []<>(run[c].pc \notin Resting)
                           /\ []<>(run[c].pc \in Resting)

\* A process that cannot serve its metrics any more does not go on without them
\* (main.go:56-60): it ends, to be started again.
NotMute == ~serving ~> serving

\* The node checker comes to a result.
NodeCheckEnds == "PodNetwork" \in configured => <>NodeAt("done")
=============================================================================
