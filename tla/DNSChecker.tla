------------------------------ MODULE DNSChecker ------------------------------
(***************************************************************************)
(* A run of the DNS checker (pkg/checker/dnscheck) for each of its targets: *)
(* the CoreDNS service and its pods, each CoreDNS pod on its own account,   *)
(* and LocalDNS.                                                            *)
(*                                                                          *)
(* An endpoint has one address, as those of the service have.               *)
(***************************************************************************)
EXTENDS CheckerRuns

\* Get of the service: it may be missing, or have no cluster IP.
getCoreDNSSvcIP(c) ==
    /\ At(c, "getCoreDNSSvcIP")
    /\ \/ Works(c) /\ service /\ Becomes(c, To(run[c], "lookupService"))
       \/ Works(c) /\ ~service /\ Unhealthy(c, run[c], "ServiceNotReady")
       \/ CallFails(c) /\ Unknown(c, run[c])

lookupService(c) ==
    /\ At(c, "lookupService")
    /\ \E outcome \in Query(run[c], "kube-dns") :
        LET r == Asked(run[c], "kube-dns", outcome) IN
        \/ outcome = "answer" /\ Becomes(c, To(r, "getCoreDNSEndpoints"))
        \/ outcome = "timeout" /\ Unhealthy(c, r, "ServiceTimeout")
        \/ outcome = "error" /\ Unhealthy(c, r, "ServiceError")
    /\ UNCHANGED faults

\* The pods to ask are those whose endpoint is ready.
Listed(r, pc, pods) == [r EXCEPT !.pc = pc, !.listed = pods, !.todo = pods]

getCoreDNSEndpoints(c) ==
    /\ At(c, "getCoreDNSEndpoints")
    /\ \/ Works(c) /\ ready # {} /\ Becomes(c, Listed(run[c], "lookupPods", ready))
       \/ Works(c) /\ ready = {} /\ Unhealthy(c, run[c], "PodsNotReady")
       \/ CallFails(c) /\ Unknown(c, run[c])

AskedPod(r, p, outcome) == [Asked(r, p, outcome) EXCEPT !.todo = @ \ {p}]

\* The first pod that does not answer ends the run.
\* (Names with a suffix are faulty variants of the definition that follows.)
lookupPods_FirstOnly(c) ==
    /\ At(c, "lookupPods")
    /\ \E p \in run[c].todo : \E outcome \in Query(run[c], p) :
        LET r == AskedPod(run[c], p, outcome) IN
        \/ outcome = "answer" /\ Healthy(c, r)
        \/ outcome = "timeout" /\ Unhealthy(c, r, "PodTimeout")
        \/ outcome = "error" /\ Unhealthy(c, r, "PodError")
    /\ UNCHANGED faults
lookupPods(c) ==
    /\ At(c, "lookupPods")
    /\ \E p \in run[c].todo : \E outcome \in Query(run[c], p) :
        LET r == AskedPod(run[c], p, outcome) IN
        \/ outcome = "answer" /\ r.todo # {} /\ Becomes(c, r)
        \/ outcome = "answer" /\ r.todo = {} /\ Healthy(c, r)
        \/ outcome = "timeout" /\ Unhealthy(c, r, "PodTimeout")
        \/ outcome = "error" /\ Unhealthy(c, r, "PodError")
    /\ UNCHANGED faults

-----------------------------------------------------------------------------
(* Per pod *)

\* Nothing is recorded without endpoints, or when they cannot be listed, nor for an
\* endpoint that does not name its pod.
perPodEndpoints(c) ==
    /\ At(c, "perPodEndpoints")
    /\ LET named == ready \ Nameless IN
       \/ Works(c) /\ named # {} /\ Becomes(c, Listed(run[c], "lookupPerPod", named))
       \/ Works(c) /\ named = {} /\ Becomes(c, Over(run[c]))
       \/ CallFails(c) /\ Becomes(c, Over(run[c]))

\* RecordCoreDNSPodResult.
RecordPod(r, p, outcome) ==
    CASE outcome = "answer" -> Records(r, p, "Healthy", "")
      [] outcome = "timeout" -> Records(r, p, "Unhealthy", "PodTimeout")
      [] OTHER -> Records(r, p, "Unknown", "")

\* One pod after the other: one that fails does not keep the others from being asked.
Continues_UntilFailure(c, r, outcome) ==
    Becomes(c, IF r.todo = {} \/ outcome # "answer" THEN Over(r) ELSE r)
Continues(c, r, outcome) == Becomes(c, IF r.todo = {} THEN Over(r) ELSE r)

lookupPerPod(c) ==
    /\ At(c, "lookupPerPod")
    /\ \E p \in run[c].todo : \E outcome \in Query(run[c], p) :
        LET r == AskedPod(run[c], p, outcome)
        IN  Continues(c, RecordPod(r, p, outcome), outcome)
    /\ UNCHANGED faults

-----------------------------------------------------------------------------

checkLocalDNS(c) ==
    /\ At(c, "checkLocalDNS")
    /\ \E outcome \in Query(run[c], "localdns") :
        LET r == Asked(run[c], "localdns", outcome) IN
        \/ outcome = "answer" /\ Healthy(c, r)
        \/ outcome # "answer" /\ Unhealthy(c, r, "LocalDNS")
    /\ UNCHANGED faults

\* DNSChecker.Run, step by step.
DNSStep(c) ==
    \/ getCoreDNSSvcIP(c)
    \/ lookupService(c)
    \/ getCoreDNSEndpoints(c)
    \/ lookupPods(c)
    \/ perPodEndpoints(c)
    \/ lookupPerPod(c)
    \/ checkLocalDNS(c)
=============================================================================
