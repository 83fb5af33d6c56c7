------------------------------ MODULE CheckerRuns ------------------------------
(***************************************************************************)
(* What the checkers that only look have in common: the servers they ask,   *)
(* the runs that ask them, the context of a run (scheduler.go:58-62) and    *)
(* the results it records (pkg/checker/checker.go).  Servers come and go,   *)
(* and fall silent and answer again, between any two steps.                 *)
(***************************************************************************)
EXTENDS Naturals, Sequences, FiniteSets

CONSTANTS
    Pods,              \* CoreDNS pods
    Nameless,          \* those whose endpoint has no targetRef
    OnNode,            \* those on the node that the node checker looks at
    Configurations,    \* sets of checkers to consider
    MaxChanges,        \* bound on changes of the servers
    MaxFaults          \* bound on failed API calls, signals and failures of the server

Checkers == {"CoreDNS", "CoreDNSPerPod", "LocalDNS", "MetricsServer", "AzurePolicy"}
Others == {"kube-dns", "localdns", "metrics-server", "azure-policy"}
Servers == Pods \union Others

ASSUME CheckerRunsAssumption ==
    /\ IsFiniteSet(Pods) /\ Pods \cap Others = {}
    /\ Nameless \subseteq Pods /\ OnNode \subseteq Pods
    /\ Configurations \subseteq SUBSET (Checkers \union {"PodNetwork"})
    /\ MaxChanges \in Nat /\ MaxFaults \in Nat

VARIABLES
    server,        \* what a query to each server comes to
    ready,         \* CoreDNS pods that are ready: the endpoints
    service,       \* whether the service has a cluster IP
    configured,    \* the checkers of the configuration file
    run,           \* the current or last run of each checker
    changes, faults

world == <<server, ready, service, changes>>

\* "refuses" is an answer that is an error, or for azure-policy one without a violation.
Answers == {"answers", "refuses", "silent"}

\* A run: its context, the pods it has listed and those it has not asked yet, and what
\* it has recorded.  answered and failed are history: who was asked while the context
\* was open, and did answer or did not; since is when it began, counted in changes.
Resting == {"off", "select", "returned"}
PCs == Resting \union
    {"getCoreDNSSvcIP", "lookupService", "getCoreDNSEndpoints", "lookupPods",
     "perPodEndpoints", "lookupPerPod", "checkLocalDNS",
     "checkMetricsServerAPI", "dryRunCreate"}
Contexts == {"none", "open", "expired", "cancelled"}
Codes == {"", "ServiceNotReady", "ServiceTimeout", "ServiceError",
          "PodsNotReady", "PodTimeout", "PodError", "LocalDNS", "MetricsServer",
          "AzurePolicyEnforcementMissing"}
Record == [subject : Pods \union Checkers, status : {"Healthy", "Unhealthy", "Unknown"},
           code : Codes]
Run == [pc : PCs, ctx : Contexts, listed : SUBSET Pods, todo : SUBSET Pods,
        answered : SUBSET Servers, failed : SUBSET Servers, since : 0..MaxChanges,
        records : Seq(Record)]

NoRun == [pc |-> "off", ctx |-> "none", listed |-> {}, todo |-> {},
          answered |-> {}, failed |-> {}, since |-> 0, records |-> <<>>]
Started(pc, ctx) == [NoRun EXCEPT !.pc = pc, !.ctx = ctx, !.since = changes]

At(c, pc) == run[c].pc = pc
Becomes(c, r) == run' = [run EXCEPT ![c] = r]
To(r, pc) == [r EXCEPT !.pc = pc]

-----------------------------------------------------------------------------
(* Calls *)

\* A request to the API server: it fails when the run's context is over, and now and
\* then for reasons of its own.
Works(c) == run[c].ctx = "open" /\ UNCHANGED faults
CallFails(c) ==
    \/ run[c].ctx # "open" /\ UNCHANGED faults
    \/ faults < MaxFaults /\ faults' = faults + 1

\* A query to s with a deadline of its own within the context.  A silent server is
\* given up by the deadline, or by the resolver after its own attempts.
\* (Names with a suffix are faulty variants of the definition that follows.)
Query_WithoutContext(r, s) ==
    CASE server[s] = "answers" -> {"answer"}
      [] server[s] = "refuses" -> {"error"}
      [] OTHER -> {}
Query(r, s) ==
    CASE r.ctx = "expired" -> {"timeout"}
      [] r.ctx = "cancelled" -> {"error"}
      [] r.ctx = "open" /\ server[s] = "answers" -> {"answer"}
      [] r.ctx = "open" /\ server[s] = "refuses" -> {"error"}
      [] OTHER -> {"timeout", "error"}

\* The run r after s was asked, with this outcome.
Asked(r, s, outcome) ==
    [r EXCEPT !.answered = IF outcome = "answer" THEN @ \union {s} ELSE @,
              !.failed = IF outcome # "answer" /\ r.ctx = "open" THEN @ \union {s} ELSE @]

-----------------------------------------------------------------------------
(* Results *)

Records(r, subject, status, code) ==
    [r EXCEPT !.records =
        Append(@, [subject |-> subject, status |-> status, code |-> code])]

\* Checker.Run returns, with RecordResult for the result of its check.
Over(r) == To(r, "select")

RecordResult(c, r, status, code) == Becomes(c, Over(Records(r, c, status, code)))
Healthy(c, r) == RecordResult(c, r, "Healthy", "")
Unhealthy(c, r, code) == RecordResult(c, r, "Unhealthy", code)
Unknown(c, r) == RecordResult(c, r, "Unknown", "")

-----------------------------------------------------------------------------
(* The surroundings *)

\* The deadline of a run passes: at any time, as any call may be slow.
Expire(c) ==
    /\ run[c].pc \notin Resting
    /\ run[c].ctx = "open"
    /\ run' = [run EXCEPT ![c].ctx = "expired"]

\* Only what is asked by a configured checker is of interest.
AskDNS == {"CoreDNS", "CoreDNSPerPod", "PodNetwork"}
AskedBy(c) ==
    CASE c \in AskDNS -> Pods \union {"kube-dns"}
      [] c = "LocalDNS" -> {"localdns"}
      [] c = "MetricsServer" -> {"metrics-server"}
      [] OTHER -> {"azure-policy"}

ServerChanges ==
    /\ changes < MaxChanges
    /\ changes' = changes + 1
    /\ \/ \E c \in configured : \E s \in AskedBy(c) : \E a \in Answers \ {server[s]} :
            server' = [server EXCEPT ![s] = a] /\ UNCHANGED <<ready, service>>
       \/ \E p \in Pods :
            /\ configured \cap AskDNS # {}
            /\ ready' \in {ready \union {p}, ready \ {p}} \ {ready}
            /\ UNCHANGED <<server, service>>
       \/ /\ configured \cap AskDNS # {}
          /\ service' = ~service
          /\ UNCHANGED <<server, ready>>
=============================================================================
