---------------------- MODULE ClusterHealthMonitor_proofs ----------------------
(***************************************************************************)
(* What the runs of module ClusterHealthMonitor record, for every set of    *)
(* pods and every configuration: once each, with cause, and truly while the *)
(* world stands still; and the same of the node checker.                    *)
(***************************************************************************)
EXTENDS ClusterHealthMonitor, FiniteSetTheorems, TLAPS

-----------------------------------------------------------------------------
(* The invariant of a run *)

PCsOf(c) ==
    CASE c = "CoreDNS" ->
           {"getCoreDNSSvcIP", "lookupService", "getCoreDNSEndpoints", "lookupPods"}
      [] c = "CoreDNSPerPod" -> {"perPodEndpoints", "lookupPerPod"}
      [] c = "LocalDNS" -> {"checkLocalDNS"}
      [] c = "MetricsServer" -> {"checkMetricsServerAPI"}
      [] OTHER -> {"dryRunCreate"}

\* How far a run under way has come.
Placed(c, r) ==
    /\ r.pc \in Resting \union PCsOf(c)
    /\ r.ctx = "none" => r.pc \in Resting /\ r.records = <<>>
    /\ r.pc = "off" => r.ctx = "none"
    /\ r.pc \notin Resting \union {"lookupPerPod"} => r.records = <<>>
    /\ r.pc = "perPodEndpoints" => r.listed = {}
    /\ r.pc \in {"getCoreDNSEndpoints", "lookupPods"} => "kube-dns" \in r.answered
    /\ r.pc = "lookupPods" => r.todo \subseteq r.listed /\ r.listed \ r.todo \subseteq r.answered

\* The pods that a per-pod run is through with are those it has recorded.
PodsCounted(r) ==
    r.pc = "lookupPerPod" =>
        /\ r.todo # {} /\ r.todo \subseteq r.listed
        /\ Len(r.records) = Cardinality(r.listed \ r.todo)
        /\ \A p \in r.listed \ r.todo :
             \E i \in 1..Len(r.records) : r.records[i].subject = p

\* What a run has seen is still so, if the world has not changed since.
Current(r) ==
    /\ r.since <= changes
    /\ r.since = changes =>
         /\ \A s \in r.answered : server[s] = "answers"
         /\ \A s \in r.failed : server[s] # "answers"
         /\ r.pc \in {"lookupService", "getCoreDNSEndpoints", "lookupPods"} => service
         /\ r.pc = "lookupPods" => r.listed = ready /\ ready # {}

AllCaused(c, r) == \A i \in 1..Len(r.records) : HasCause(c, r, r.records[i])
AllTrue(c, r) == \A i \in 1..Len(r.records) : TellsTruth(c, r, r.records[i])

Good(c, r) ==
    /\ r \in Run
    /\ Placed(c, r)
    /\ PodsCounted(r)
    /\ Current(r)
    /\ CountedOnce(c, r)
    /\ AllCaused(c, r)
    /\ AllTrue(c, r)

\* The rest of the types.
RestOK ==
    /\ server \in [Servers -> Answers]
    /\ ready \in SUBSET Pods /\ service \in BOOLEAN
    /\ changes \in 0..MaxChanges /\ faults \in 0..MaxFaults
    /\ configured \in Configurations
    /\ schedule \subseteq configured \cap Checkers
    /\ tick \in [Checkers -> BOOLEAN]
    /\ built \in BOOLEAN /\ signalled \in BOOLEAN /\ serving \in BOOLEAN
    /\ exit \in {"none", "success", "error"}

RunsGood ==
    /\ run \in [Checkers -> Run]
    /\ \A c \in Checkers : Good(c, run[c])
    /\ ~built => \A c \in Checkers : run[c].pc = "off"

-----------------------------------------------------------------------------
(* The invariant of the node checker *)

NodeGood ==
    /\ node \in NodeRun
    /\ node.pc \in {"getEligibleCoreDNSPods", "getService", "checkDNSPods", "checkDNSSvc"} =>
         node.attempts < maxRetryAttempts
    /\ node.since <= changes
    /\ node.since = changes =>
         /\ node.pc \in {"getService", "checkDNSPods", "checkDNSSvc"} =>
              /\ node.eligible = ready \ OnNode
              /\ node.succeeded \subseteq node.eligible /\ node.todo \subseteq node.eligible
              /\ \A p \in node.eligible \ node.todo : p \in node.succeeded <=> ping(p)
              /\ \A p \in node.succeeded : ping(p)
         /\ node.pc = "checkDNSSvc" => node.todo = {}
    /\ NodeCheckTruth

IInv == RestOK /\ RunsGood /\ NodeGood

-----------------------------------------------------------------------------
(* What the helpers make of a run *)

LEMMA ToIs ==
    ASSUME NEW r \in Run, NEW pc \in PCs
    PROVE  /\ To(r, pc) \in Run
           /\ To(r, pc).pc = pc /\ To(r, pc).ctx = r.ctx
           /\ To(r, pc).listed = r.listed /\ To(r, pc).todo = r.todo
           /\ To(r, pc).answered = r.answered /\ To(r, pc).failed = r.failed
           /\ To(r, pc).since = r.since /\ To(r, pc).records = r.records
BY DEF To, Run

LEMMA StartedIs ==
    ASSUME NEW pc \in PCs, NEW ctx \in Contexts, changes \in 0..MaxChanges
    PROVE  LET r == Started(pc, ctx) IN
           /\ r \in Run
           /\ r.pc = pc /\ r.ctx = ctx /\ r.listed = {} /\ r.todo = {}
           /\ r.answered = {} /\ r.failed = {} /\ r.since = changes /\ r.records = <<>>
<1>1. <<>> \in Seq(Record)
  OBVIOUS
<1> QED
  BY <1>1 DEF Started, NoRun, Run

LEMMA NoRunIs ==
    /\ NoRun \in Run
    /\ NoRun.pc = "off" /\ NoRun.ctx = "none" /\ NoRun.listed = {} /\ NoRun.todo = {}
    /\ NoRun.answered = {} /\ NoRun.failed = {} /\ NoRun.since = 0 /\ NoRun.records = <<>>
<1>1. <<>> \in Seq(Record) /\ 0 \in 0..MaxChanges
  BY CheckerRunsAssumption
<1>2. "off" \in PCs /\ "none" \in Contexts
  BY DEF PCs, Resting, Contexts
<1> QED
  BY <1>1, <1>2 DEF NoRun, Run

LEMMA AskedIs ==
    ASSUME NEW r \in Run, NEW s \in Servers, NEW outcome \in {"answer", "timeout", "error"}
    PROVE  LET q == Asked(r, s, outcome) IN
           /\ q \in Run
           /\ q.pc = r.pc /\ q.ctx = r.ctx /\ q.listed = r.listed /\ q.todo = r.todo
           /\ q.since = r.since /\ q.records = r.records
           /\ outcome = "answer" => q.answered = r.answered \union {s} /\ q.failed = r.failed
           /\ outcome # "answer" =>
                /\ q.answered = r.answered
                /\ q.failed = IF r.ctx = "open" THEN r.failed \union {s} ELSE r.failed
BY DEF Asked, Run

\* A run without some of the pods it has to ask.
LEMMA TodoIs ==
    ASSUME NEW r \in Run, NEW p
    PROVE  LET q == [r EXCEPT !.todo = @ \ {p}] IN
           /\ q \in Run
           /\ q.pc = r.pc /\ q.ctx = r.ctx /\ q.listed = r.listed /\ q.todo = r.todo \ {p}
           /\ q.since = r.since /\ q.records = r.records
           /\ q.answered = r.answered /\ q.failed = r.failed
BY DEF Run

LEMMA ListedIs ==
    ASSUME NEW r \in Run, NEW pc \in PCs, NEW pods \in SUBSET Pods
    PROVE  LET q == Listed(r, pc, pods) IN
           /\ q \in Run
           /\ q.pc = pc /\ q.ctx = r.ctx /\ q.listed = pods /\ q.todo = pods
           /\ q.since = r.since /\ q.records = r.records
           /\ q.answered = r.answered /\ q.failed = r.failed
BY DEF Listed, Run

LEMMA CutIs ==
    ASSUME NEW r \in Run, NEW ctx \in Contexts
    PROVE  LET q == [r EXCEPT !.ctx = ctx] IN
           /\ q \in Run
           /\ q.pc = r.pc /\ q.ctx = ctx /\ q.listed = r.listed /\ q.todo = r.todo
           /\ q.since = r.since /\ q.records = r.records
           /\ q.answered = r.answered /\ q.failed = r.failed
BY DEF Run

LEMMA RecordsIs ==
    ASSUME NEW r \in Run, NEW s \in Pods \union Checkers,
           NEW status \in {"Healthy", "Unhealthy", "Unknown"}, NEW code \in Codes
    PROVE  LET q == Records(r, s, status, code)
               record == [subject |-> s, status |-> status, code |-> code]
           IN  /\ q \in Run
               /\ q.pc = r.pc /\ q.ctx = r.ctx /\ q.listed = r.listed /\ q.todo = r.todo
               /\ q.since = r.since /\ q.answered = r.answered /\ q.failed = r.failed
               /\ Len(r.records) \in Nat /\ Len(q.records) = Len(r.records) + 1
               /\ q.records[Len(q.records)] = record
               /\ \A i \in 1..Len(r.records) : q.records[i] = r.records[i]
<1> DEFINE record == [subject |-> s, status |-> status, code |-> code]
<1>1. record \in Record
  BY DEF Record
<1>2. r.records \in Seq(Record)
  BY DEF Run
<1> DEFINE more == Append(r.records, record)
<1>3. /\ more \in Seq(Record) /\ Len(r.records) \in Nat /\ Len(more) = Len(r.records) + 1
      /\ more[Len(r.records) + 1] = record
      /\ \A i \in 1..Len(r.records) : more[i] = r.records[i]
  BY <1>1, <1>2
<1> HIDE DEF more
<1>4. Records(r, s, status, code) = [r EXCEPT !.records = more]
  BY DEF Records, more
<1>5. LET q == [r EXCEPT !.records = more] IN
      /\ q \in Run
      /\ q.pc = r.pc /\ q.ctx = r.ctx /\ q.listed = r.listed /\ q.todo = r.todo
      /\ q.since = r.since /\ q.answered = r.answered /\ q.failed = r.failed
      /\ q.records = more
  BY <1>3 DEF Run
<1> QED
  BY <1>3, <1>4, <1>5

-----------------------------------------------------------------------------
(* A run that begins, and no run at all *)

LEMMA StartGood ==
    ASSUME RestOK, NEW c \in Checkers, NEW ctx \in {"open", "cancelled"}
    PROVE  Good(c, Started(First[c], ctx))
<1> DEFINE r == Started(First[c], ctx)
<1>1. /\ First[c] \in PCsOf(c) /\ First[c] \in PCs
      /\ First[c] \notin Resting \union {"lookupPerPod", "lookupService",
                              "getCoreDNSEndpoints", "lookupPods"}
  BY DEF First, PCsOf, PCs, Resting, Checkers
<1>2. /\ r \in Run
      /\ r.pc = First[c] /\ r.ctx = ctx /\ r.listed = {} /\ r.todo = {}
      /\ r.answered = {} /\ r.failed = {} /\ r.since = changes /\ r.records = <<>>
  BY <1>1, StartedIs DEF Contexts, RestOK
<1> HIDE DEF r
<1>3. Placed(c, r) /\ PodsCounted(r)
  BY <1>1, <1>2 DEF Placed, PodsCounted, Resting
<1>4. Current(r)
  BY <1>1, <1>2 DEF Current, RestOK
<1>5. CountedOnce(c, r)
  BY <1>1, <1>2 DEF CountedOnce
<1>6. AllCaused(c, r) /\ AllTrue(c, r)
  BY <1>2 DEF AllCaused, AllTrue
<1> QED
  BY <1>2, <1>3, <1>4, <1>5, <1>6 DEF Good, r

LEMMA NoRunGood ==
    ASSUME RestOK, NEW c \in Checkers
    PROVE  Good(c, NoRun)
<1>1. Placed(c, NoRun) /\ PodsCounted(NoRun) /\ CountedOnce(c, NoRun)
  BY NoRunIs DEF Placed, PodsCounted, CountedOnce, Resting
<1>2. Current(NoRun)
  BY NoRunIs DEF Current, RestOK
<1>3. AllCaused(c, NoRun) /\ AllTrue(c, NoRun)
  BY NoRunIs DEF AllCaused, AllTrue
<1> QED
  BY <1>1, <1>2, <1>3, NoRunIs DEF Good

\* A run that rests may go to another state of rest, once it has begun or has never.
LEMMA RestGood ==
    ASSUME NEW c \in Checkers, NEW r, Good(c, r), NEW pc \in {"select", "returned"},
           r.pc \in Resting
    PROVE  Good(c, To(r, pc))
<1> DEFINE q == To(r, pc)
<1>1. pc \in PCs /\ pc \in Resting /\ pc \notin {"off", "lookupPerPod", "perPodEndpoints",
        "lookupService", "getCoreDNSEndpoints", "lookupPods"}
  BY DEF PCs, Resting
<1>2. /\ q \in Run
      /\ q.pc = pc /\ q.ctx = r.ctx /\ q.listed = r.listed /\ q.todo = r.todo
      /\ q.answered = r.answered /\ q.failed = r.failed
      /\ q.since = r.since /\ q.records = r.records
  BY <1>1, ToIs DEF Good
<1> HIDE DEF q
<1>3. Placed(c, q) /\ PodsCounted(q) /\ Current(q)
  BY <1>1, <1>2 DEF Good, Placed, PodsCounted, Current
<1>4. CountedOnce(c, q)
  BY <1>1, <1>2 DEF Good, CountedOnce
<1>5. AllCaused(c, q) /\ AllTrue(c, q)
  BY <1>2 DEF Good, AllCaused, AllTrue, HasCause, TellsTruth, Asks, AllWell
<1> QED
  BY <1>2, <1>3, <1>4, <1>5 DEF Good, q

\* Its context may end while it is under way.
LEMMA CutGood ==
    ASSUME NEW c \in Checkers, NEW r, Good(c, r), NEW ctx \in {"expired", "cancelled"},
           r.pc \notin Resting
    PROVE  Good(c, [r EXCEPT !.ctx = ctx])
<1> DEFINE q == [r EXCEPT !.ctx = ctx]
<1>1. ctx \in Contexts /\ ctx \notin {"none", "open"}
  BY DEF Contexts
<1>2. /\ q \in Run
      /\ q.pc = r.pc /\ q.ctx = ctx /\ q.listed = r.listed /\ q.todo = r.todo
      /\ q.answered = r.answered /\ q.failed = r.failed
      /\ q.since = r.since /\ q.records = r.records
  BY <1>1, CutIs DEF Good
<1> HIDE DEF q
<1>3. Placed(c, q) /\ PodsCounted(q) /\ Current(q)
  BY <1>1, <1>2 DEF Good, Placed, PodsCounted, Current, Resting
<1>4. CountedOnce(c, q)
  BY <1>2 DEF CountedOnce
<1>5. AllCaused(c, q) /\ AllTrue(c, q)
  BY <1>1, <1>2 DEF Good, AllCaused, AllTrue, HasCause, TellsTruth, Asks
<1> QED
  BY <1>2, <1>3, <1>4, <1>5 DEF Good, q

-----------------------------------------------------------------------------
(* A query, and a result recorded *)

\* What holds of a run under way wherever it is.
Fresh(r) ==
    /\ r \in Run /\ r.ctx # "none"
    /\ r.since <= changes
    /\ r.since = changes =>
         /\ \A s \in r.answered : server[s] = "answers"
         /\ \A s \in r.failed : server[s] # "answers"

LEMMA UnderWay ==
    ASSUME NEW c \in Checkers, NEW r, Good(c, r), r.pc \notin Resting
    PROVE  Fresh(r) /\ r.pc \in PCsOf(c)
BY DEF Good, Placed, Current, Fresh

LEMMA QueryFresh ==
    ASSUME NEW r, Fresh(r), NEW s \in Servers, NEW outcome \in Query(r, s)
    PROVE  LET q == Asked(r, s, outcome) IN
           /\ Fresh(q)
           /\ q.pc = r.pc /\ q.ctx = r.ctx /\ q.listed = r.listed /\ q.todo = r.todo
           /\ q.since = r.since /\ q.records = r.records
           /\ r.answered \subseteq q.answered /\ r.failed \subseteq q.failed
           /\ outcome \in {"answer", "timeout", "error"}
           /\ outcome = "answer" => s \in q.answered
           /\ outcome # "answer" /\ r.ctx = "open" => s \in q.failed /\ server[s] # "answers"
<1> DEFINE q == Asked(r, s, outcome)
<1>1. /\ outcome \in {"answer", "timeout", "error"}
      /\ outcome = "answer" => server[s] = "answers"
      /\ outcome # "answer" /\ r.ctx = "open" => server[s] # "answers"
  BY DEF Query
<1>2. /\ q \in Run
      /\ q.pc = r.pc /\ q.ctx = r.ctx /\ q.listed = r.listed /\ q.todo = r.todo
      /\ q.since = r.since /\ q.records = r.records
      /\ outcome = "answer" => q.answered = r.answered \union {s} /\ q.failed = r.failed
      /\ outcome # "answer" =>
           /\ q.answered = r.answered
           /\ q.failed = IF r.ctx = "open" THEN r.failed \union {s} ELSE r.failed
  <2>1. r \in Run
    BY DEF Fresh
  <2> QED
    BY <1>1, <2>1, AskedIs
<1> HIDE DEF q
<1>3. Fresh(q)
  BY <1>1, <1>2 DEF Fresh
<1> QED
  BY <1>1, <1>2, <1>3 DEF q

\* The one result of a run.
LEMMA ResultGood ==
    ASSUME NEW c \in Checkers, c # "CoreDNSPerPod",
           NEW r, Fresh(r), r.records = <<>>,
           NEW status \in {"Healthy", "Unhealthy", "Unknown"}, NEW code \in Codes,
           LET record == [subject |-> c, status |-> status, code |-> code]
           IN  HasCause(c, r, record) /\ TellsTruth(c, r, record)
    PROVE  Good(c, Over(Records(r, c, status, code)))
<1> DEFINE record == [subject |-> c, status |-> status, code |-> code]
           w == Records(r, c, status, code)
           q == Over(w)
<1>1. /\ w \in Run /\ w.ctx = r.ctx /\ w.listed = r.listed /\ w.since = r.since
      /\ w.answered = r.answered /\ w.failed = r.failed
      /\ Len(w.records) = 1 /\ w.records[1] = record
  <2>1. r \in Run /\ Len(r.records) = 0 /\ c \in Pods \union Checkers
    BY DEF Fresh
  <2>2. /\ w \in Run /\ w.ctx = r.ctx /\ w.listed = r.listed /\ w.since = r.since
        /\ w.answered = r.answered /\ w.failed = r.failed
    BY <2>1, RecordsIs
  <2>3. Len(w.records) = Len(r.records) + 1 /\ w.records[Len(w.records)] = record
    BY <2>1, RecordsIs
  <2> QED
    BY <2>1, <2>2, <2>3
<1> HIDE DEF w
<1>2. "select" \in PCs /\ "select" \in Resting
  BY DEF PCs, Resting
<1>3. /\ q \in Run /\ q.pc = "select" /\ q.ctx = r.ctx /\ q.listed = r.listed
      /\ q.answered = r.answered /\ q.failed = r.failed
      /\ q.since = r.since /\ Len(q.records) = 1 /\ q.records[1] = record
  BY <1>1, <1>2, ToIs DEF Over
<1> HIDE DEF q
<1>4. Placed(c, q) /\ PodsCounted(q) /\ Current(q)
  BY <1>2, <1>3 DEF Fresh, Placed, PodsCounted, Current, Resting
<1>5. CountedOnce(c, q)
  BY <1>3 DEF CountedOnce
<1>6. /\ HasCause(c, q, record) <=> HasCause(c, r, record)
      /\ TellsTruth(c, q, record) <=> TellsTruth(c, r, record)
  BY <1>3 DEF HasCause, TellsTruth, Asks, AllWell
<1>7. AllCaused(c, q) /\ AllTrue(c, q)
  BY <1>3, <1>6 DEF AllCaused, AllTrue
<1> QED
  BY <1>3, <1>4, <1>5, <1>7 DEF Good, q, w

\* A result that says Unknown claims nothing.
LEMMA UnknownGood ==
    ASSUME NEW c \in Checkers, c # "CoreDNSPerPod", NEW r, Fresh(r), r.records = <<>>
    PROVE  Good(c, Over(Records(r, c, "Unknown", "")))
<1>1. "" \in Codes
  BY DEF Codes
<1>2. LET record == [subject |-> c, status |-> "Unknown", code |-> ""]
      IN  HasCause(c, r, record) /\ TellsTruth(c, r, record)
  BY DEF HasCause, TellsTruth
<1> QED
  BY <1>1, <1>2, ResultGood

\* A step of the run of checker c leaves it good.
Steps(c) == \E q : Good(c, q) /\ run' = [run EXCEPT ![c] = q]

\* The checkers with a single request: what they make of its outcome.
LEMMA RequestGood ==
    ASSUME NEW c \in Checkers, c \notin {"CoreDNS", "CoreDNSPerPod"},
           NEW r, Fresh(r), r.records = <<>>,
           NEW s \in Servers, \A record : Asks(c, r, record) = {s},
           NEW outcome \in Query(r, s), NEW code \in Codes
    PROVE  LET q == Asked(r, s, outcome) IN
           /\ outcome = "answer" => Good(c, Over(Records(q, c, "Healthy", "")))
           /\ outcome # "answer" => Good(c, Over(Records(q, c, "Unhealthy", code)))
           /\ Good(c, Over(Records(q, c, "Unknown", "")))
<1> DEFINE q == Asked(r, s, outcome)
<1>1. Fresh(q) /\ q.ctx = r.ctx /\ q.records = r.records
  BY QueryFresh
<1>2. /\ outcome = "answer" => s \in q.answered
      /\ outcome # "answer" /\ q.ctx = "open" => s \in q.failed /\ server[s] # "answers"
  BY <1>1, QueryFresh
<1>3. \A record : Asks(c, q, record) = {s}
  BY DEF Asks, Checkers
<1> HIDE DEF q
<1>4. "" \in Codes
  BY DEF Codes
<1>5. ASSUME outcome = "answer" PROVE Good(c, Over(Records(q, c, "Healthy", "")))
  <2> DEFINE record == [subject |-> c, status |-> "Healthy", code |-> ""]
  <2>1. HasCause(c, q, record)
    BY <1>2, <1>3, <1>5 DEF HasCause
  <2>2. TellsTruth(c, q, record)
    BY <1>1, <1>2, <1>3, <1>5 DEF TellsTruth, AllWell, Fresh
  <2> QED
    BY <1>1, <1>2, <1>4, <2>1, <2>2, ResultGood
<1>6. ASSUME outcome # "answer" PROVE Good(c, Over(Records(q, c, "Unhealthy", code)))
  <2> DEFINE record == [subject |-> c, status |-> "Unhealthy", code |-> code]
  <2>1. HasCause(c, q, record)
    BY <1>2, <1>3, <1>6 DEF HasCause
  <2>2. TellsTruth(c, q, record)
    BY <1>1, <1>2, <1>3, <1>6 DEF TellsTruth, AllWell
  <2> QED
    BY <1>1, <1>2, <2>1, <2>2, ResultGood
<1>7. Good(c, Over(Records(q, c, "Unknown", "")))
  BY <1>1, <1>2, UnknownGood
<1> QED
  BY <1>5, <1>6, <1>7 DEF q

-----------------------------------------------------------------------------
(* The CoreDNS service and its pods *)

\* The run r of the CoreDNS checker at pc, before anything is recorded.
LEMMA Running ==
    ASSUME IInv, NEW c \in Checkers, run[c].pc \notin Resting \union {"lookupPerPod"}
    PROVE  /\ run[c] \in Run /\ Fresh(run[c]) /\ run[c].records = <<>>
           /\ run[c].pc \in PCsOf(c) /\ Placed(c, run[c]) /\ Current(run[c])
<1>1. Good(c, run[c])
  BY DEF IInv, RunsGood
<1> QED
  BY <1>1, UnderWay DEF Good, Placed

\* A code that needs no failed server.
LEMMA NotReadyGood ==
    ASSUME NEW r, Fresh(r), r.records = <<>>,
           NEW code \in {"ServiceNotReady", "PodsNotReady"},
           code = "ServiceNotReady" => ~service, code = "PodsNotReady" => ready = {}
    PROVE  Good("CoreDNS", Over(Records(r, "CoreDNS", "Unhealthy", code)))
<1>1. "CoreDNS" \in Checkers /\ code \in Codes
  BY DEF Checkers, Codes
<1> DEFINE record == [subject |-> "CoreDNS", status |-> "Unhealthy", code |-> code]
<1>2. HasCause("CoreDNS", r, record)
  BY DEF HasCause
<1>3. TellsTruth("CoreDNS", r, record)
  BY DEF TellsTruth, AllWell
<1> QED
  BY <1>1, <1>2, <1>3, ResultGood

LEMMA SvcIPSteps ==
    ASSUME IInv, NEW c \in Checkers, getCoreDNSSvcIP(c)
    PROVE  Steps(c)
<1> DEFINE r == run[c]
<1>1. r.pc = "getCoreDNSSvcIP" /\ r.pc \notin Resting \union {"lookupPerPod"}
  BY DEF getCoreDNSSvcIP, At, Resting
<1>2. r \in Run /\ Fresh(r) /\ r.records = <<>> /\ Placed(c, r) /\ Current(r) /\ c = "CoreDNS"
  BY <1>1, Running DEF PCsOf, Checkers
<1> HIDE DEF r
<1>3. ASSUME service PROVE Good(c, To(r, "lookupService"))
  <2> DEFINE q == To(r, "lookupService")
  <2>1. "lookupService" \in PCs
    BY DEF PCs
  <2>2. /\ q \in Run
        /\ q.pc = "lookupService" /\ q.ctx = r.ctx /\ q.listed = r.listed /\ q.todo = r.todo
        /\ q.answered = r.answered /\ q.failed = r.failed
        /\ q.since = r.since /\ q.records = <<>>
    BY <1>2, <2>1, ToIs
  <2> HIDE DEF q
  <2>3. Placed(c, q) /\ PodsCounted(q)
    BY <1>2, <2>2 DEF Placed, PodsCounted, PCsOf, Resting, Fresh
  <2>4. Current(q) /\ CountedOnce(c, q)
    BY <1>2, <1>3, <2>2 DEF Current, CountedOnce, Resting, Fresh
  <2>5. AllCaused(c, q) /\ AllTrue(c, q)
    BY <2>2 DEF AllCaused, AllTrue
  <2> QED
    BY <2>2, <2>3, <2>4, <2>5 DEF Good, q
<1>4. ASSUME ~service PROVE Good(c, Over(Records(r, c, "Unhealthy", "ServiceNotReady")))
  BY <1>2, <1>4, NotReadyGood
<1>5. Good(c, Over(Records(r, c, "Unknown", "")))
  BY <1>2, UnknownGood
<1>6. \/ service /\ run' = [run EXCEPT ![c] = To(r, "lookupService")]
      \/ ~service /\ run' = [run EXCEPT ![c] = Over(Records(r, c, "Unhealthy", "ServiceNotReady"))]
      \/ run' = [run EXCEPT ![c] = Over(Records(r, c, "Unknown", ""))]
  BY DEF getCoreDNSSvcIP, Becomes, Unhealthy, Unknown, RecordResult, r
<1> QED
  BY <1>3, <1>4, <1>5, <1>6 DEF Steps

\* Of the CoreDNS run, a server that is asked and does not answer.
LEMMA CoreDNSFailure ==
    ASSUME NEW r, Fresh(r), r.records = <<>>, NEW s \in Servers,
           s \in {"kube-dns"} \union r.listed,
           r.ctx = "open" => s \in r.failed /\ server[s] # "answers", NEW code \in Codes
    PROVE  Good("CoreDNS", Over(Records(r, "CoreDNS", "Unhealthy", code)))
<1>1. "CoreDNS" \in Checkers
  BY DEF Checkers
<1> DEFINE record == [subject |-> "CoreDNS", status |-> "Unhealthy", code |-> code]
<1>2. s \in Asks("CoreDNS", r, record)
  BY DEF Asks
<1>3. HasCause("CoreDNS", r, record)
  BY <1>2 DEF HasCause
<1>4. TellsTruth("CoreDNS", r, record)
  BY <1>2 DEF TellsTruth, AllWell
<1> QED
  BY <1>1, <1>3, <1>4, ResultGood

LEMMA ServiceSteps ==
    ASSUME IInv, NEW c \in Checkers, lookupService(c)
    PROVE  Steps(c)
<1> DEFINE r == run[c]
<1>1. r.pc = "lookupService" /\ r.pc \notin Resting \union {"lookupPerPod"}
  BY DEF lookupService, At, Resting
<1>2. r \in Run /\ Fresh(r) /\ r.records = <<>> /\ Placed(c, r) /\ Current(r) /\ c = "CoreDNS"
  BY <1>1, Running DEF PCsOf, Checkers
<1> HIDE DEF r
<1>3. PICK outcome \in Query(r, "kube-dns") :
        LET q == Asked(r, "kube-dns", outcome) IN
        \/ outcome = "answer" /\ run' = [run EXCEPT ![c] = To(q, "getCoreDNSEndpoints")]
        \/ outcome = "timeout" /\ run' = [run EXCEPT ![c] =
                Over(Records(q, c, "Unhealthy", "ServiceTimeout"))]
        \/ outcome = "error" /\ run' = [run EXCEPT ![c] =
                Over(Records(q, c, "Unhealthy", "ServiceError"))]
  BY DEF lookupService, Becomes, Unhealthy, RecordResult, r
<1> DEFINE q == Asked(r, "kube-dns", outcome)
<1>4. "kube-dns" \in Servers /\ {"ServiceTimeout", "ServiceError"} \subseteq Codes
  BY DEF Servers, Others, Codes
<1>5. /\ Fresh(q) /\ q.pc = r.pc /\ q.ctx = r.ctx /\ q.listed = r.listed /\ q.todo = r.todo
      /\ q.since = r.since /\ q.records = <<>>
      /\ outcome = "answer" => "kube-dns" \in q.answered
      /\ outcome # "answer" /\ q.ctx = "open" =>
           "kube-dns" \in q.failed /\ server["kube-dns"] # "answers"
  BY <1>2, <1>4, QueryFresh
<1> HIDE DEF q
<1>6. ASSUME outcome = "answer" PROVE Good(c, To(q, "getCoreDNSEndpoints"))
  <2> DEFINE w == To(q, "getCoreDNSEndpoints")
  <2>1. "getCoreDNSEndpoints" \in PCs
    BY DEF PCs
  <2>2. /\ w \in Run
        /\ w.pc = "getCoreDNSEndpoints" /\ w.ctx = q.ctx /\ w.listed = q.listed
        /\ w.todo = q.todo /\ w.answered = q.answered /\ w.failed = q.failed
        /\ w.since = q.since /\ w.records = <<>>
    BY <1>5, <2>1, ToIs DEF Fresh
  <2> HIDE DEF w
  <2>3. Placed(c, w) /\ PodsCounted(w)
    BY <1>2, <1>5, <1>6, <2>2 DEF Placed, PodsCounted, PCsOf, Resting, Fresh
  <2>4. CountedOnce(c, w)
    BY <2>2 DEF CountedOnce, Resting
  <2>5. Current(w)
    BY <1>1, <1>2, <1>5, <2>2 DEF Current, Fresh
  <2>6. AllCaused(c, w) /\ AllTrue(c, w)
    BY <2>2 DEF AllCaused, AllTrue
  <2> QED
    BY <2>2, <2>3, <2>4, <2>5, <2>6 DEF Good, w
<1>7. ASSUME outcome # "answer", NEW code \in Codes
      PROVE  Good(c, Over(Records(q, c, "Unhealthy", code)))
  BY <1>2, <1>4, <1>5, <1>7, CoreDNSFailure
<1> QED
  BY <1>3, <1>4, <1>6, <1>7 DEF Steps, q

LEMMA EndpointsSteps ==
    ASSUME IInv, NEW c \in Checkers, getCoreDNSEndpoints(c)
    PROVE  Steps(c)
<1> DEFINE r == run[c]
<1>1. r.pc = "getCoreDNSEndpoints" /\ r.pc \notin Resting \union {"lookupPerPod"}
  BY DEF getCoreDNSEndpoints, At, Resting
<1>2. r \in Run /\ Fresh(r) /\ r.records = <<>> /\ Placed(c, r) /\ Current(r) /\ c = "CoreDNS"
  BY <1>1, Running DEF PCsOf, Checkers
<1> HIDE DEF r
<1>3. ASSUME ready # {} PROVE Good(c, Listed(r, "lookupPods", ready))
  <2> DEFINE q == Listed(r, "lookupPods", ready)
  <2>1. "lookupPods" \in PCs /\ ready \in SUBSET Pods
    BY DEF PCs, IInv, RestOK
  <2>2. /\ q \in Run
        /\ q.pc = "lookupPods" /\ q.ctx = r.ctx /\ q.listed = ready /\ q.todo = ready
        /\ q.answered = r.answered /\ q.failed = r.failed
        /\ q.since = r.since /\ q.records = <<>>
    BY <1>2, <2>1, ListedIs
  <2> HIDE DEF q
  <2>3. Placed(c, q) /\ PodsCounted(q)
    BY <1>1, <1>2, <2>2 DEF Placed, PodsCounted, PCsOf, Resting, Fresh
  <2>4. CountedOnce(c, q)
    BY <2>2 DEF CountedOnce, Resting
  <2>5. Current(q)
    BY <1>1, <1>2, <1>3, <2>2 DEF Current, Fresh
  <2>6. AllCaused(c, q) /\ AllTrue(c, q)
    BY <2>2 DEF AllCaused, AllTrue
  <2> QED
    BY <2>2, <2>3, <2>4, <2>5, <2>6 DEF Good, q
<1>4. ASSUME ready = {} PROVE Good(c, Over(Records(r, c, "Unhealthy", "PodsNotReady")))
  BY <1>2, <1>4, NotReadyGood
<1>5. Good(c, Over(Records(r, c, "Unknown", "")))
  BY <1>2, UnknownGood
<1>6. \/ ready # {} /\ run' = [run EXCEPT ![c] = Listed(r, "lookupPods", ready)]
      \/ ready = {} /\ run' = [run EXCEPT ![c] = Over(Records(r, c, "Unhealthy", "PodsNotReady"))]
      \/ run' = [run EXCEPT ![c] = Over(Records(r, c, "Unknown", ""))]
  BY DEF getCoreDNSEndpoints, Becomes, Unhealthy, Unknown, RecordResult, r
<1> QED
  BY <1>3, <1>4, <1>5, <1>6 DEF Steps

LEMMA PodsSteps ==
    ASSUME IInv, NEW c \in Checkers, lookupPods(c)
    PROVE  Steps(c)
<1> DEFINE r == run[c]
<1>1. r.pc = "lookupPods" /\ r.pc \notin Resting \union {"lookupPerPod"}
  BY DEF lookupPods, At, Resting
<1>2. r \in Run /\ Fresh(r) /\ r.records = <<>> /\ Placed(c, r) /\ Current(r) /\ c = "CoreDNS"
  BY <1>1, Running DEF PCsOf, Checkers
<1> HIDE DEF r
<1>3. PICK p \in r.todo : \E outcome \in Query(r, p) :
        LET q == AskedPod(r, p, outcome) IN
        \/ outcome = "answer" /\ q.todo # {} /\ Becomes(c, q)
        \/ outcome = "answer" /\ q.todo = {} /\ Healthy(c, q)
        \/ outcome = "timeout" /\ Unhealthy(c, q, "PodTimeout")
        \/ outcome = "error" /\ Unhealthy(c, q, "PodError")
  BY DEF lookupPods, r
<1>4. PICK outcome \in Query(r, p) :
        LET q == AskedPod(r, p, outcome) IN
        \/ outcome = "answer" /\ q.todo # {} /\ run' = [run EXCEPT ![c] = q]
        \/ outcome = "answer" /\ q.todo = {} /\ run' = [run EXCEPT ![c] =
                Over(Records(q, c, "Healthy", ""))]
        \/ outcome = "timeout" /\ run' = [run EXCEPT ![c] =
                Over(Records(q, c, "Unhealthy", "PodTimeout"))]
        \/ outcome = "error" /\ run' = [run EXCEPT ![c] =
                Over(Records(q, c, "Unhealthy", "PodError"))]
  BY <1>3 DEF Becomes, Healthy, Unhealthy, RecordResult
<1> DEFINE a == Asked(r, p, outcome)
           q == AskedPod(r, p, outcome)
<1>5. p \in Servers /\ p \in r.listed
  BY <1>1, <1>2 DEF Servers, Run, Placed
<1>6. /\ Fresh(a) /\ a.pc = r.pc /\ a.ctx = r.ctx /\ a.listed = r.listed /\ a.todo = r.todo
      /\ a.since = r.since /\ a.records = <<>>
      /\ r.answered \subseteq a.answered
      /\ outcome = "answer" => p \in a.answered
      /\ outcome # "answer" /\ a.ctx = "open" => p \in a.failed /\ server[p] # "answers"
  BY <1>2, <1>5, QueryFresh
<1> HIDE DEF a
<1>7. /\ q \in Run
      /\ q.pc = a.pc /\ q.ctx = a.ctx /\ q.listed = a.listed /\ q.todo = a.todo \ {p}
      /\ q.since = a.since /\ q.records = a.records
      /\ q.answered = a.answered /\ q.failed = a.failed
  BY <1>6, TodoIs DEF Fresh, AskedPod, a
<1> HIDE DEF q
<1>8. Fresh(q) /\ q.records = <<>>
  BY <1>6, <1>7 DEF Fresh
<1>9. ASSUME outcome = "answer" PROVE q.listed \ q.todo \subseteq q.answered
  BY <1>1, <1>2, <1>6, <1>7, <1>9 DEF Placed
<1>10. /\ "kube-dns" \in q.answered
       /\ q.since = changes => service /\ q.listed = ready /\ ready # {}
  BY <1>1, <1>2, <1>6, <1>7 DEF Placed, Current
<1>11. ASSUME outcome = "answer", q.todo # {} PROVE Good(c, q)
  <2>1. Placed(c, q) /\ PodsCounted(q)
    BY <1>1, <1>2, <1>6, <1>7, <1>8, <1>9, <1>10, <1>11 DEF Placed, PodsCounted, Resting, Fresh
  <2>2. CountedOnce(c, q)
    BY <1>1, <1>6, <1>7 DEF CountedOnce, Resting
  <2>3. Current(q)
    BY <1>8, <1>10 DEF Current, Fresh
  <2>4. AllCaused(c, q) /\ AllTrue(c, q)
    BY <1>8 DEF AllCaused, AllTrue
  <2> QED
    BY <1>7, <2>1, <2>2, <2>3, <2>4 DEF Good
<1>12. ASSUME outcome = "answer", q.todo = {}
       PROVE  Good(c, Over(Records(q, c, "Healthy", "")))
  <2> DEFINE record == [subject |-> c, status |-> "Healthy", code |-> ""]
  <2>1. Asks(c, q, record) = {"kube-dns"} \union q.listed
    BY <1>2 DEF Asks
  <2>2. Asks(c, q, record) \subseteq q.answered
    <3>1. q.listed \subseteq q.answered
      BY <1>9, <1>12
    <3> QED
      BY <1>10, <2>1, <3>1
  <2>3. HasCause(c, q, record)
    BY <2>2 DEF HasCause
  <2>4. TellsTruth(c, q, record)
    BY <1>8, <1>10, <2>2 DEF TellsTruth, AllWell, Fresh
  <2>5. "" \in Codes
    BY DEF Codes
  <2> QED
    BY <1>2, <1>8, <2>3, <2>4, <2>5, ResultGood
<1>13. ASSUME outcome # "answer", NEW code \in Codes
       PROVE  Good(c, Over(Records(q, c, "Unhealthy", code)))
  BY <1>2, <1>5, <1>6, <1>7, <1>8, <1>13, CoreDNSFailure
<1>14. {"PodTimeout", "PodError"} \subseteq Codes
  BY DEF Codes
<1> QED
  BY <1>4, <1>11, <1>12, <1>13, <1>14 DEF Steps, a, q

-----------------------------------------------------------------------------
(* Each pod on its own account *)

LEMMA PerPodEndpointsSteps ==
    ASSUME IInv, NEW c \in Checkers, perPodEndpoints(c)
    PROVE  Steps(c)
<1> DEFINE r == run[c]
<1>1. r.pc = "perPodEndpoints" /\ r.pc \notin Resting \union {"lookupPerPod"}
  BY DEF perPodEndpoints, At, Resting
<1>2. /\ r \in Run /\ Fresh(r) /\ r.records = <<>> /\ Placed(c, r) /\ Current(r)
      /\ c = "CoreDNSPerPod" /\ r.listed = {}
  BY <1>1, Running DEF PCsOf, Checkers, Placed
<1> HIDE DEF r
<1> DEFINE named == ready \ Nameless
<1>3. ASSUME named # {} PROVE Good(c, Listed(r, "lookupPerPod", named))
  <2> DEFINE q == Listed(r, "lookupPerPod", named)
  <2>1. "lookupPerPod" \in PCs /\ named \in SUBSET Pods
    BY DEF PCs, IInv, RestOK
  <2>2. /\ q \in Run
        /\ q.pc = "lookupPerPod" /\ q.ctx = r.ctx /\ q.listed = named /\ q.todo = named
        /\ q.answered = r.answered /\ q.failed = r.failed
        /\ q.since = r.since /\ q.records = <<>>
    BY <1>2, <2>1, ListedIs
  <2> HIDE DEF q
  <2>3. Placed(c, q) /\ CountedOnce(c, q)
    BY <1>1, <1>2, <2>2 DEF Placed, CountedOnce, PCsOf, Resting, Fresh
  <2>4. PodsCounted(q)
    <3>1. q.listed \ q.todo = {} /\ Len(q.records) = 0
      BY <2>2
    <3>2. Cardinality({}) = 0
      BY FS_EmptySet
    <3> QED
      BY <1>3, <2>2, <3>1, <3>2 DEF PodsCounted
  <2>5. Current(q)
    BY <1>2, <2>2 DEF Current, Fresh
  <2>6. AllCaused(c, q) /\ AllTrue(c, q)
    BY <2>2 DEF AllCaused, AllTrue
  <2> QED
    BY <2>2, <2>3, <2>4, <2>5, <2>6 DEF Good, q
<1>4. Good(c, Over(r))
  <2> DEFINE q == Over(r)
  <2>1. "select" \in PCs /\ "select" \in Resting
    BY DEF PCs, Resting
  <2>2. /\ q \in Run
        /\ q.pc = "select" /\ q.ctx = r.ctx /\ q.listed = {}
        /\ q.answered = r.answered /\ q.failed = r.failed
        /\ q.since = r.since /\ q.records = <<>>
    BY <1>2, <2>1, ToIs DEF Over
  <2> HIDE DEF q
  <2>3. Placed(c, q) /\ PodsCounted(q)
    BY <1>2, <2>1, <2>2 DEF Placed, PodsCounted, Fresh
  <2>4. CountedOnce(c, q)
    <3>1. Len(q.records) = 0 /\ Cardinality(q.listed) = 0
      BY <2>2, FS_EmptySet
    <3> QED
      BY <1>2, <2>2, <3>1 DEF CountedOnce
  <2>5. Current(q)
    BY <1>2, <2>2 DEF Current, Fresh
  <2>6. AllCaused(c, q) /\ AllTrue(c, q)
    BY <2>2 DEF AllCaused, AllTrue
  <2> QED
    BY <2>2, <2>3, <2>4, <2>5, <2>6 DEF Good, q
<1>5. \/ named # {} /\ run' = [run EXCEPT ![c] = Listed(r, "lookupPerPod", named)]
      \/ run' = [run EXCEPT ![c] = Over(r)]
  BY DEF perPodEndpoints, Becomes, r
<1> QED
  BY <1>3, <1>4, <1>5 DEF Steps

\* The per-pod run r, whose pod p was just asked, records this about it: the pods
\* recorded are then one more, and the run is over when none is left.
LEMMA PodResultGood ==
    ASSUME NEW r, Fresh(r), r.pc = "lookupPerPod", NEW p \in r.listed, p \notin r.todo,
           r.todo \subseteq r.listed,
           Len(r.records) + 1 = Cardinality(r.listed \ r.todo),
           \A s \in r.listed \ (r.todo \union {p}) :
               \E i \in 1..Len(r.records) : r.records[i].subject = s,
           AllCaused("CoreDNSPerPod", r), AllTrue("CoreDNSPerPod", r),
           NEW status \in {"Healthy", "Unhealthy", "Unknown"}, NEW code \in Codes,
           LET record == [subject |-> p, status |-> status, code |-> code]
           IN  HasCause("CoreDNSPerPod", r, record) /\ TellsTruth("CoreDNSPerPod", r, record)
    PROVE  LET w == Records(r, p, status, code)
           IN  Good("CoreDNSPerPod", IF w.todo = {} THEN Over(w) ELSE w)
<1> DEFINE c == "CoreDNSPerPod"
           record == [subject |-> p, status |-> status, code |-> code]
           w == Records(r, p, status, code)
           n == Len(w.records)
<1>1. r \in Run /\ p \in Pods \union Checkers
  BY DEF Fresh, Run
<1>2. /\ w \in Run
      /\ w.pc = r.pc /\ w.ctx = r.ctx /\ w.listed = r.listed /\ w.todo = r.todo
      /\ w.since = r.since /\ w.answered = r.answered /\ w.failed = r.failed
  BY <1>1, RecordsIs
<1>3. /\ Len(r.records) \in Nat /\ n = Len(r.records) + 1 /\ w.records[n] = record
      /\ \A i \in 1..Len(r.records) : w.records[i] = r.records[i]
  BY <1>1, RecordsIs
<1> HIDE DEF w, n
<1>4. record.subject = p
  OBVIOUS
<1>5. \A i \in 1..n : w.records[i] = record \/
                      (i \in 1..Len(r.records) /\ w.records[i] = r.records[i])
  BY <1>3
<1>6. \A s \in w.listed \ w.todo : \E i \in 1..n : w.records[i].subject = s
  <2> TAKE s \in w.listed \ w.todo
  <2>1. CASE s = p
    <3>1. n \in 1..n
      BY <1>3
    <3> QED
      BY <1>3, <1>4, <2>1, <3>1
  <2>2. CASE s # p
    <3>1. PICK i \in 1..Len(r.records) : r.records[i].subject = s
      BY <1>2, <2>2
    <3>2. i \in 1..n /\ w.records[i].subject = s
      BY <1>3, <3>1
    <3> QED
      BY <3>2
  <2> QED
    BY <2>1, <2>2
<1>7. \A x : HasCause(c, r, x) => HasCause(c, w, x)
  BY <1>2 DEF HasCause, Asks
<1>8. \A x : TellsTruth(c, r, x) => TellsTruth(c, w, x)
  BY <1>2 DEF TellsTruth, AllWell, Asks
<1>9. AllCaused(c, w)
  <2> SUFFICES ASSUME NEW i \in 1..n PROVE HasCause(c, w, w.records[i])
    BY DEF AllCaused, n
  <2> QED
    BY <1>5, <1>7 DEF AllCaused
<1>10. AllTrue(c, w)
  <2> SUFFICES ASSUME NEW i \in 1..n PROVE TellsTruth(c, w, w.records[i])
    BY DEF AllTrue, n
  <2> QED
    BY <1>5, <1>8 DEF AllTrue
<1>11. ASSUME w.todo # {} PROVE Good(c, w)
  <2>1. Placed(c, w) /\ CountedOnce(c, w)
    BY <1>2 DEF Placed, CountedOnce, PCsOf, Resting, Fresh
  <2>2. PodsCounted(w)
    BY <1>2, <1>3, <1>6, <1>11 DEF PodsCounted, n
  <2>3. Current(w)
    BY <1>2 DEF Current, Fresh
  <2> QED
    BY <1>2, <1>9, <1>10, <2>1, <2>2, <2>3 DEF Good
<1>12. ASSUME w.todo = {} PROVE Good(c, Over(w))
  <2> DEFINE q == Over(w)
  <2>1. "select" \in PCs /\ "select" \in Resting
    BY DEF PCs, Resting
  <2>2. /\ q \in Run
        /\ q.pc = "select" /\ q.ctx = w.ctx /\ q.listed = w.listed /\ q.todo = w.todo
        /\ q.answered = w.answered /\ q.failed = w.failed
        /\ q.since = w.since /\ q.records = w.records
    BY <1>2, <2>1, ToIs DEF Over
  <2> HIDE DEF q
  <2>3. Placed(c, q) /\ PodsCounted(q)
    BY <1>2, <2>1, <2>2 DEF Placed, PodsCounted, Fresh
  <2>4. CountedOnce(c, q)
    <3>1. q.listed \ q.todo = q.listed /\ w.listed \ w.todo = q.listed
      BY <1>12, <2>2
    <3>2. Len(q.records) = Cardinality(q.listed)
      BY <1>2, <1>3, <2>2, <3>1 DEF n
    <3>3. \A s \in q.listed : \E i \in 1..Len(q.records) : q.records[i].subject = s
      BY <1>6, <2>2, <3>1 DEF n
    <3> QED
      BY <3>2, <3>3 DEF CountedOnce
  <2>5. Current(q)
    BY <1>2, <2>2 DEF Current, Fresh
  <2>6. AllCaused(c, q) /\ AllTrue(c, q)
    BY <1>9, <1>10, <2>2 DEF AllCaused, AllTrue, HasCause, TellsTruth, AllWell, Asks
  <2> QED
    BY <2>2, <2>3, <2>4, <2>5, <2>6 DEF Good, q
<1> QED
  BY <1>11, <1>12 DEF w

LEMMA PerPodSteps ==
    ASSUME IInv, NEW c \in Checkers, lookupPerPod(c)
    PROVE  Steps(c)
<1> DEFINE r == run[c]
<1>1. r.pc = "lookupPerPod" /\ r.pc \notin Resting
  BY DEF lookupPerPod, At, Resting
<1>2. Good(c, r)
  BY DEF IInv, RunsGood
<1>3. r \in Run /\ Fresh(r) /\ PodsCounted(r) /\ AllCaused(c, r) /\ AllTrue(c, r)
  BY <1>1, <1>2, UnderWay DEF Good
<1>4. c = "CoreDNSPerPod"
  BY <1>1, <1>2, UnderWay DEF PCsOf, Checkers
<1> HIDE DEF r
<1>5. PICK p \in r.todo : \E outcome \in Query(r, p) :
        Continues(c, RecordPod(AskedPod(r, p, outcome), p, outcome), outcome)
  BY DEF lookupPerPod, r
<1>6. PICK outcome \in Query(r, p) :
        Continues(c, RecordPod(AskedPod(r, p, outcome), p, outcome), outcome)
  BY <1>5
<1> DEFINE a == Asked(r, p, outcome)
           q == AskedPod(r, p, outcome)
           w == RecordPod(q, p, outcome)
<1>7. p \in Servers /\ p \in r.listed
  BY <1>1, <1>3 DEF Servers, Run, PodsCounted
<1>8. /\ Fresh(a) /\ a.pc = r.pc /\ a.ctx = r.ctx /\ a.listed = r.listed /\ a.todo = r.todo
      /\ a.since = r.since /\ a.records = r.records
      /\ r.answered \subseteq a.answered /\ r.failed \subseteq a.failed
      /\ outcome \in {"answer", "timeout", "error"}
      /\ outcome = "answer" => p \in a.answered
      /\ outcome # "answer" /\ a.ctx = "open" => p \in a.failed /\ server[p] # "answers"
  BY <1>3, <1>7, QueryFresh
<1> HIDE DEF a
<1>9. /\ q \in Run
      /\ q.pc = a.pc /\ q.ctx = a.ctx /\ q.listed = a.listed /\ q.todo = a.todo \ {p}
      /\ q.since = a.since /\ q.records = a.records
      /\ q.answered = a.answered /\ q.failed = a.failed
  BY <1>8, TodoIs DEF Fresh, AskedPod, a
<1> HIDE DEF q
<1>10. Fresh(q)
  BY <1>8, <1>9 DEF Fresh
<1>11. AllCaused(c, q)
  <2>1. \A x : HasCause(c, r, x) => HasCause(c, q, x)
    BY <1>4, <1>8, <1>9 DEF HasCause, Asks
  <2> QED
    BY <1>3, <1>8, <1>9, <2>1 DEF AllCaused
<1>12. AllTrue(c, q)
  <2>1. \A x : TellsTruth(c, r, x) => TellsTruth(c, q, x)
    BY <1>4, <1>8, <1>9 DEF TellsTruth, AllWell, Asks
  <2> QED
    BY <1>3, <1>8, <1>9, <2>1 DEF AllTrue
<1>13. Len(q.records) + 1 = Cardinality(q.listed \ q.todo)
  <2>1. Len(r.records) = Cardinality(r.listed \ r.todo)
    BY <1>1, <1>3 DEF PodsCounted
  <2>2. IsFiniteSet(r.listed \ r.todo)
    <3>1. r.listed \ r.todo \subseteq Pods
      BY <1>3 DEF Run
    <3> QED
      BY <3>1, FS_Subset, CheckerRunsAssumption
  <2>3. q.listed \ q.todo = (r.listed \ r.todo) \union {p} /\ p \notin r.listed \ r.todo
    BY <1>7, <1>8, <1>9
  <2>4. Cardinality(q.listed \ q.todo) = Cardinality(r.listed \ r.todo) + 1
    BY <2>2, <2>3, FS_AddElement
  <2> QED
    BY <1>8, <1>9, <2>1, <2>4
<1>14. /\ q.pc = "lookupPerPod" /\ p \in q.listed /\ p \notin q.todo
       /\ q.todo \subseteq q.listed
       /\ \A s \in q.listed \ (q.todo \union {p}) :
            \E i \in 1..Len(q.records) : q.records[i].subject = s
  BY <1>1, <1>3, <1>7, <1>8, <1>9 DEF PodsCounted
<1>15. Good(c, IF w.todo = {} THEN Over(w) ELSE w)
  <2> DEFINE rec(status, code) == [subject |-> p, status |-> status, code |-> code]
  <2>1. {"", "PodTimeout"} \subseteq Codes
    BY DEF Codes
  <2>2. ASSUME NEW status \in {"Healthy", "Unhealthy", "Unknown"}, NEW code \in Codes,
               w = Records(q, p, status, code),
               HasCause(c, q, rec(status, code)), TellsTruth(c, q, rec(status, code))
        PROVE  Good(c, IF w.todo = {} THEN Over(w) ELSE w)
    BY <1>4, <1>10, <1>11, <1>12, <1>13, <1>14, <2>2, PodResultGood
  <2>3. CASE outcome = "answer"
    <3>1. w = Records(q, p, "Healthy", "")
      BY <2>3 DEF RecordPod
    <3>2. Asks(c, q, rec("Healthy", "")) = {p}
      BY <1>4 DEF Asks
    <3>3. HasCause(c, q, rec("Healthy", ""))
      BY <1>8, <1>9, <2>3, <3>2 DEF HasCause
    <3>4. TellsTruth(c, q, rec("Healthy", ""))
      BY <1>4, <1>8, <1>9, <1>10, <2>3, <3>2 DEF TellsTruth, AllWell, Fresh
    <3> QED
      BY <2>1, <2>2, <3>1, <3>3, <3>4
  <2>4. CASE outcome = "timeout"
    <3>1. w = Records(q, p, "Unhealthy", "PodTimeout")
      BY <2>4 DEF RecordPod
    <3>2. Asks(c, q, rec("Unhealthy", "PodTimeout")) = {p}
      BY <1>4 DEF Asks
    <3>3. HasCause(c, q, rec("Unhealthy", "PodTimeout"))
      BY <1>8, <1>9, <2>4, <3>2 DEF HasCause
    <3>4. TellsTruth(c, q, rec("Unhealthy", "PodTimeout"))
      BY <1>8, <1>9, <2>4, <3>2 DEF TellsTruth, AllWell
    <3> QED
      BY <2>1, <2>2, <3>1, <3>3, <3>4
  <2>5. CASE outcome = "error"
    <3>1. w = Records(q, p, "Unknown", "")
      BY <2>5 DEF RecordPod
    <3>2. HasCause(c, q, rec("Unknown", "")) /\ TellsTruth(c, q, rec("Unknown", ""))
      BY DEF HasCause, TellsTruth
    <3> QED
      BY <2>1, <2>2, <3>1, <3>2
  <2> QED
    BY <1>8, <2>3, <2>4, <2>5
<1>16. run' = [run EXCEPT ![c] = IF w.todo = {} THEN Over(w) ELSE w]
  BY <1>6 DEF Continues, Becomes, q
<1> QED
  BY <1>15, <1>16 DEF Steps

-----------------------------------------------------------------------------
(* The checkers with a single request *)

LEMMA LocalDNSSteps ==
    ASSUME IInv, NEW c \in Checkers, checkLocalDNS(c)
    PROVE  Steps(c)
<1> DEFINE r == run[c]
<1>1. r.pc = "checkLocalDNS" /\ r.pc \notin Resting \union {"lookupPerPod"}
  BY DEF checkLocalDNS, At, Resting
<1>2. Fresh(r) /\ r.records = <<>> /\ c = "LocalDNS"
  BY <1>1, Running DEF PCsOf, Checkers
<1>3. \A record : Asks(c, r, record) = {"localdns"}
  BY <1>2 DEF Asks
<1>4. "localdns" \in Servers /\ "LocalDNS" \in Codes
  BY DEF Servers, Others, Codes
<1> HIDE DEF r
<1>5. PICK outcome \in Query(r, "localdns") :
        LET q == Asked(r, "localdns", outcome) IN
        \/ outcome = "answer" /\ run' = [run EXCEPT ![c] = Over(Records(q, c, "Healthy", ""))]
        \/ outcome # "answer" /\ run' = [run EXCEPT ![c] =
                Over(Records(q, c, "Unhealthy", "LocalDNS"))]
  BY DEF checkLocalDNS, Becomes, Healthy, Unhealthy, RecordResult, r
<1>6. LET q == Asked(r, "localdns", outcome) IN
      /\ outcome = "answer" => Good(c, Over(Records(q, c, "Healthy", "")))
      /\ outcome # "answer" => Good(c, Over(Records(q, c, "Unhealthy", "LocalDNS")))
  BY <1>2, <1>3, <1>4, RequestGood
<1> QED
  BY <1>5, <1>6 DEF Steps

LEMMA MetricsServerSteps ==
    ASSUME IInv, NEW c \in Checkers, checkMetricsServerAPI(c)
    PROVE  Steps(c)
<1> DEFINE r == run[c]
<1>1. r.pc = "checkMetricsServerAPI" /\ r.pc \notin Resting \union {"lookupPerPod"}
  BY DEF checkMetricsServerAPI, At, Resting
<1>2. Fresh(r) /\ r.records = <<>> /\ c = "MetricsServer"
  BY <1>1, Running DEF PCsOf, Checkers
<1>3. \A record : Asks(c, r, record) = {"metrics-server"}
  BY <1>2 DEF Asks
<1>4. "metrics-server" \in Servers /\ "MetricsServer" \in Codes
  BY DEF Servers, Others, Codes
<1> HIDE DEF r
<1>5. PICK outcome \in Query(r, "metrics-server") :
        LET q == Asked(r, "metrics-server", outcome) IN
        \/ outcome = "answer" /\ run' = [run EXCEPT ![c] = Over(Records(q, c, "Healthy", ""))]
        \/ outcome # "answer" /\ run' = [run EXCEPT ![c] =
                Over(Records(q, c, "Unhealthy", "MetricsServer"))]
  BY DEF checkMetricsServerAPI, Becomes, Healthy, Unhealthy, RecordResult, r
<1>6. LET q == Asked(r, "metrics-server", outcome) IN
      /\ outcome = "answer" => Good(c, Over(Records(q, c, "Healthy", "")))
      /\ outcome # "answer" => Good(c, Over(Records(q, c, "Unhealthy", "MetricsServer")))
  BY <1>2, <1>3, <1>4, RequestGood
<1> QED
  BY <1>5, <1>6 DEF Steps

LEMMA AzurePolicySteps ==
    ASSUME IInv, NEW c \in Checkers, dryRunCreate(c)
    PROVE  Steps(c)
<1> DEFINE r == run[c]
           missing == "AzurePolicyEnforcementMissing"
<1>1. r.pc = "dryRunCreate" /\ r.pc \notin Resting \union {"lookupPerPod"}
  BY DEF dryRunCreate, At, Resting
<1>2. Fresh(r) /\ r.records = <<>> /\ c = "AzurePolicy"
  BY <1>1, Running DEF PCsOf, Checkers
<1>3. \A record : Asks(c, r, record) = {"azure-policy"}
  BY <1>2 DEF Asks
<1>4. "azure-policy" \in Servers /\ missing \in Codes
  BY DEF Servers, Others, Codes
<1> HIDE DEF r
<1>5. ASSUME NEW outcome \in Query(r, "azure-policy")
      PROVE  LET q == Asked(r, "azure-policy", outcome) IN
             /\ outcome = "answer" => Good(c, Over(Records(q, c, "Healthy", "")))
             /\ Good(c, Over(Records(q, c, "Unknown", "")))
             /\ outcome # "answer" => Good(c, Over(Records(q, c, "Unhealthy", missing)))
  BY <1>2, <1>3, <1>4, RequestGood
<1>6. CASE \E outcome \in Query(r, "azure-policy") :
        LET q == Asked(r, "azure-policy", outcome) IN
        \/ outcome = "answer" /\ run' = [run EXCEPT ![c] = Over(Records(q, c, "Healthy", ""))]
        \/ run' = [run EXCEPT ![c] = Over(Records(q, c, "Unknown", ""))]
        \/ outcome # "answer" /\ run' = [run EXCEPT ![c] =
                Over(Records(q, c, "Unhealthy", missing))]
  BY <1>5, <1>6 DEF Steps
<1>7. CASE run' = [run EXCEPT ![c] = Over(Records(r, c, "Unknown", ""))]
  <2>1. Good(c, Over(Records(r, c, "Unknown", "")))
    BY <1>2, UnknownGood
  <2> QED
    BY <1>7, <2>1 DEF Steps
<1>8. \/ \E outcome \in Query(r, "azure-policy") :
           LET q == Asked(r, "azure-policy", outcome) IN
           \/ outcome = "answer" /\ run' = [run EXCEPT ![c] = Over(Records(q, c, "Healthy", ""))]
           \/ run' = [run EXCEPT ![c] = Over(Records(q, c, "Unknown", ""))]
           \/ outcome # "answer" /\ run' = [run EXCEPT ![c] =
                   Over(Records(q, c, "Unhealthy", missing))]
      \/ run' = [run EXCEPT ![c] = Over(Records(r, c, "Unknown", ""))]
  BY DEF dryRunCreate, Becomes, Healthy, Unhealthy, Unknown, RecordResult, r
<1> QED
  BY <1>6, <1>7, <1>8

-----------------------------------------------------------------------------
(* All runs *)

\* A run stays good while the world stays as it is.
LEMMA SameWorld ==
    ASSUME UNCHANGED world, NEW c, NEW r
    PROVE  Good(c, r) => Good(c, r)'
BY DEF world, Good, Placed, PodsCounted, Current, CountedOnce, AllCaused, AllTrue,
       HasCause, TellsTruth, AllWell, Asks

LEMMA StepsGood ==
    ASSUME IInv, UNCHANGED world, UNCHANGED built, NEW c \in Checkers, Steps(c),
           run[c].pc # "off"
    PROVE  RunsGood'
<1>1. PICK q : Good(c, q) /\ run' = [run EXCEPT ![c] = q]
  BY DEF Steps
<1>2. /\ run \in [Checkers -> Run] /\ built
      /\ \A d \in Checkers : Good(d, run[d])
  BY DEF IInv, RunsGood
<1>3. q \in Run
  BY <1>1 DEF Good
<1>4. /\ run' \in [Checkers -> Run]
      /\ \A d \in Checkers : run'[d] = IF d = c THEN q ELSE run[d]
  BY <1>1, <1>2, <1>3
<1>5. ASSUME NEW d \in Checkers PROVE Good(d, run[d])'
  <2> DEFINE r == IF d = c THEN q ELSE run[d]
  <2>1. Good(d, r)
    BY <1>1, <1>2
  <2>2. \A w : Good(d, w) => Good(d, w)'
    BY SameWorld
  <2>3. run'[d] = r
    BY <1>4
  <2> QED
    BY <2>1, <2>2, <2>3
<1> QED
  BY <1>2, <1>4, <1>5 DEF RunsGood

\* What does not concern the runs.
LEMMA RunsStay ==
    ASSUME IInv, UNCHANGED <<world, run, built>>
    PROVE  RunsGood'
<1>1. \A c \in Checkers : Good(c, run[c]) => Good(c, run[c])'
  BY DEF world, Good, Placed, PodsCounted, Current, CountedOnce, AllCaused, AllTrue,
         HasCause, TellsTruth, AllWell, Asks
<1> QED
  BY <1>1 DEF IInv, RunsGood

\* A step of a checker's goroutine.
LEMMA CheckerStepInv ==
    ASSUME IInv, NEW c \in Checkers, CheckerStep(c)
    PROVE  RestOK' /\ RunsGood'
<1>1. UNCHANGED <<world, node, configured>>
  BY DEF CheckerStep
<1>2. Good(c, run[c]) /\ RestOK
  BY DEF IInv, RunsGood
<1>3. CASE StartRun(c)
  <2>1. RestOK'
    BY <1>1, <1>2, <1>3 DEF StartRun, RestOK, world
  <2> DEFINE ctx == IF signalled THEN "cancelled" ELSE "open"
  <2>2. Good(c, Started(First[c], ctx))
    BY <1>2, StartGood
  <2>3. Steps(c)
    BY <1>3, <2>2 DEF StartRun, Becomes, Steps
  <2>4. run[c].pc # "off" /\ UNCHANGED built
    BY <1>3 DEF StartRun, At
  <2> QED
    BY <1>1, <2>1, <2>3, <2>4, StepsGood
<1>4. CASE StopLoop(c)
  <2>1. RestOK'
    BY <1>1, <1>2, <1>4 DEF StopLoop, process, RestOK, world
  <2>2. run[c].pc = "select" /\ run[c].pc \in Resting
    BY <1>4 DEF StopLoop, At, Resting
  <2>3. Good(c, To(run[c], "returned"))
    BY <1>2, <2>2, RestGood
  <2>4. Steps(c)
    BY <1>4, <2>3 DEF StopLoop, Becomes, Steps
  <2>5. UNCHANGED built
    BY <1>4 DEF StopLoop, process
  <2> QED
    BY <1>1, <2>1, <2>2, <2>4, <2>5, StepsGood
<1>5. CASE (DNSStep(c) \/ checkMetricsServerAPI(c) \/ dryRunCreate(c)) /\ UNCHANGED process
  <2>1. Steps(c)
    BY <1>5, SvcIPSteps, ServiceSteps, EndpointsSteps, PodsSteps, PerPodEndpointsSteps,
       PerPodSteps, LocalDNSSteps, MetricsServerSteps, AzurePolicySteps DEF DNSStep
  <2>2. run[c].pc # "off"
    BY <1>5 DEF DNSStep, getCoreDNSSvcIP, lookupService, getCoreDNSEndpoints, lookupPods,
       perPodEndpoints, lookupPerPod, checkLocalDNS, checkMetricsServerAPI, dryRunCreate, At
  <2>3. faults' \in 0..MaxFaults
    <3>1. faults' = faults \/ (faults < MaxFaults /\ faults' = faults + 1)
      BY <1>5 DEF DNSStep, getCoreDNSSvcIP, lookupService, getCoreDNSEndpoints, lookupPods,
         perPodEndpoints, lookupPerPod, checkLocalDNS, checkMetricsServerAPI, dryRunCreate,
         Works, CallFails
    <3> QED
      BY <1>2, <3>1, CheckerRunsAssumption DEF RestOK
  <2>4. RestOK'
    BY <1>1, <1>2, <1>5, <2>3 DEF RestOK, process, world
  <2>5. UNCHANGED built
    BY <1>5 DEF process
  <2> QED
    BY <1>1, <2>1, <2>2, <2>4, <2>5, StepsGood
<1> QED
  BY <1>3, <1>4, <1>5 DEF CheckerStep

LEMMA DeadlineInv ==
    ASSUME IInv, NEW c \in Checkers, Deadline(c)
    PROVE  RestOK' /\ RunsGood'
<1>1. UNCHANGED <<world, faults, node, configured, process>> /\ Expire(c)
  BY DEF Deadline
<1>2. RestOK'
  BY <1>1 DEF IInv, RestOK, world, process
<1>3. Good(c, run[c]) /\ run \in [Checkers -> Run]
  BY DEF IInv, RunsGood
<1>4. Good(c, [run[c] EXCEPT !.ctx = "expired"])
  BY <1>1, <1>3, CutGood DEF Expire
<1>5. run' = [run EXCEPT ![c] = [run[c] EXCEPT !.ctx = "expired"]]
  BY <1>1, <1>3 DEF Expire
<1>6. Steps(c)
  BY <1>4, <1>5 DEF Steps
<1>7. run[c].pc # "off" /\ UNCHANGED built
  BY <1>1 DEF Expire, Resting, process
<1> QED
  BY <1>1, <1>2, <1>6, <1>7, StepsGood

\* A signal, which cuts every run that is under way.
LEMMA SignalInv ==
    ASSUME IInv, Signal
    PROVE  RestOK' /\ RunsGood'
<1>1. UNCHANGED <<world, node, configured, built, schedule, tick, serving, exit>>
  BY DEF Signal
<1>2. RestOK'
  BY <1>1, CheckerRunsAssumption DEF Signal, IInv, RestOK, world
<1> DEFINE cut(c) == [run[c] EXCEPT !.ctx = "cancelled"]
           new(c) == IF run[c].ctx = "open" /\ run[c].pc \notin Resting THEN cut(c) ELSE run[c]
<1>3. run' = [c \in Checkers |-> new(c)]
  BY DEF Signal
<1>4. /\ run \in [Checkers -> Run] /\ \A c \in Checkers : Good(c, run[c])
      /\ ~built => \A c \in Checkers : run[c].pc = "off"
  BY DEF IInv, RunsGood
<1>5. ASSUME NEW c \in Checkers PROVE new(c) \in Run /\ Good(c, new(c)) /\ new(c).pc = run[c].pc
  <2>1. CASE new(c) = run[c]
    BY <1>4, <2>1
  <2>2. CASE run[c].pc \notin Resting /\ new(c) = cut(c)
    <3>1. Good(c, cut(c))
      BY <1>4, <2>2, CutGood
    <3>2. cut(c) \in Run /\ cut(c).pc = run[c].pc
      BY <1>4, CutIs DEF Contexts
    <3> QED
      BY <2>2, <3>1, <3>2
  <2> QED
    BY <2>1, <2>2
<1> HIDE DEF new
<1>6. run' \in [Checkers -> Run] /\ \A c \in Checkers : run'[c] = new(c)
  BY <1>3, <1>5
<1>7. ASSUME NEW c \in Checkers PROVE Good(c, run[c])'
  <2>1. \A w : Good(c, w) => Good(c, w)'
    BY <1>1, SameWorld
  <2> QED
    BY <1>5, <1>6, <2>1
<1>8. ~built' => \A c \in Checkers : run'[c].pc = "off"
  BY <1>1, <1>4, <1>5, <1>6
<1> QED
  BY <1>2, <1>6, <1>7, <1>8 DEF RunsGood

-----------------------------------------------------------------------------
(* The process and the world *)

LEMMA BuildInv ==
    ASSUME IInv, Build
    PROVE  RestOK' /\ RunsGood'
<1>1. /\ UNCHANGED <<world, faults, node, configured, tick, signalled, serving, exit>>
      /\ ~built /\ built' = TRUE /\ schedule' \subseteq configured \cap Checkers
      /\ run' = [c \in Checkers |-> IF c \in schedule' THEN To(run[c], "select") ELSE run[c]]
  BY DEF Build
<1>2. RestOK'
  BY <1>1 DEF IInv, RestOK, world
<1>3. /\ run \in [Checkers -> Run]
      /\ \A c \in Checkers : Good(c, run[c]) /\ run[c].pc = "off"
  BY <1>1 DEF IInv, RunsGood
<1>4. ASSUME NEW c \in Checkers PROVE Good(c, To(run[c], "select"))
  BY <1>3, RestGood DEF Resting
<1> DEFINE new(c) == IF c \in schedule' THEN To(run[c], "select") ELSE run[c]
<1>5. ASSUME NEW c \in Checkers PROVE new(c) \in Run /\ Good(c, new(c))
  BY <1>3, <1>4 DEF Good
<1>6. run' = [c \in Checkers |-> new(c)]
  BY <1>1
<1> HIDE DEF new
<1>7. run' \in [Checkers -> Run] /\ \A c \in Checkers : run'[c] = new(c)
  BY <1>5, <1>6
<1>8. ASSUME NEW c \in Checkers PROVE Good(c, run[c])'
  <2>1. \A w : Good(c, w) => Good(c, w)'
    BY <1>1, SameWorld
  <2> QED
    BY <1>5, <1>7, <2>1
<1> QED
  BY <1>1, <1>2, <1>7, <1>8 DEF RunsGood

LEMMA RestartInv ==
    ASSUME IInv, Restart
    PROVE  RestOK' /\ RunsGood'
<1>1. /\ UNCHANGED <<world, faults, node, configured>>
      /\ run' = [c \in Checkers |-> NoRun]
  BY DEF Restart
<1>2. RestOK /\ RestOK'
  BY <1>1 DEF Restart, IInv, RestOK, world
<1>3. run' \in [Checkers -> Run] /\ \A c \in Checkers : run'[c] = NoRun
  BY <1>1, NoRunIs
<1>4. ASSUME NEW c \in Checkers PROVE Good(c, run[c])'
  <2>1. \A w : Good(c, w) => Good(c, w)'
    BY <1>1, SameWorld
  <2>2. Good(c, NoRun)
    BY <1>2, NoRunGood
  <2> QED
    BY <1>3, <2>1, <2>2
<1> QED
  BY <1>2, <1>3, <1>4, NoRunIs DEF RunsGood

\* The other steps leave the runs alone.
LEMMA ProcessInv ==
    ASSUME IInv,
           \/ \E c \in Checkers : Tick(c)
           \/ MainReturns \/ MetricsServerReturns \/ SchedulerReturns
           \/ BuildFails \/ ServerFails
           \/ UNCHANGED vars
    PROVE  RestOK' /\ RunsGood'
<1>1. RestOK
  BY DEF IInv
<1>2. CASE \E c \in Checkers : Tick(c)
  <2>1. UNCHANGED <<world, run, built>>
    BY <1>2 DEF Tick
  <2>2. RestOK'
    BY <1>1, <1>2 DEF Tick, RestOK, world
  <2> QED
    BY <2>1, <2>2, RunsStay
<1>3. CASE MainReturns \/ MetricsServerReturns \/ SchedulerReturns
  <2>1. Exits("success") \/ Exits("error")
    BY <1>3 DEF MainReturns, MetricsServerReturns, SchedulerReturns
  <2>2. UNCHANGED <<world, run, built>>
    BY <2>1 DEF Exits
  <2>3. RestOK'
    BY <1>1, <2>1 DEF Exits, RestOK, world
  <2> QED
    BY <2>2, <2>3, RunsStay
<1>4. CASE BuildFails \/ ServerFails
  <2>1. UNCHANGED <<world, run, configured, built, schedule, tick, signalled>>
    BY <1>4 DEF BuildFails, ServerFails
  <2>2. RestOK'
    <3>1. faults < MaxFaults /\ faults' = faults + 1
      BY <1>4 DEF BuildFails, ServerFails
    <3>2. faults' \in 0..MaxFaults
      BY <1>1, <3>1, CheckerRunsAssumption DEF RestOK
    <3>3. exit' \in {"none", "success", "error"} /\ serving' \in BOOLEAN
      BY <1>1, <1>4 DEF BuildFails, ServerFails, RestOK
    <3> QED
      BY <1>1, <2>1, <3>2, <3>3 DEF RestOK, world
  <2> QED
    BY <2>1, <2>2, RunsStay
<1>5. CASE UNCHANGED vars
  <2>1. UNCHANGED <<world, run, built>>
    BY <1>5 DEF vars, process
  <2>2. RestOK'
    BY <1>1, <1>5 DEF RestOK, vars, process, world
  <2> QED
    BY <2>1, <2>2, RunsStay
<1> QED
  BY <1>2, <1>3, <1>4, <1>5

\* After a change of the world no run is from this world any more.
LEMMA ChangeInv ==
    ASSUME IInv, Change
    PROVE  RestOK' /\ RunsGood'
<1>1. /\ changes < MaxChanges /\ changes' = changes + 1
      /\ UNCHANGED <<run, faults, node, configured, process>>
  BY DEF Change, ServerChanges
<1>2. RestOK'
  <2>1. /\ server' \in [Servers -> Answers]
        /\ ready' \in SUBSET Pods /\ service' \in BOOLEAN
    BY DEF Change, ServerChanges, IInv, RestOK
  <2>2. changes' \in 0..MaxChanges
    BY <1>1, CheckerRunsAssumption DEF IInv, RestOK
  <2> QED
    BY <1>1, <2>1, <2>2 DEF IInv, RestOK, process
<1>3. ASSUME NEW c \in Checkers PROVE Good(c, run[c])'
  <2>1. Good(c, run[c])
    BY DEF IInv, RunsGood
  <2>2. run[c].since < changes'
    <3>1. run[c].since \in 0..MaxChanges /\ run[c].since <= changes /\ changes \in Nat
      BY <2>1, CheckerRunsAssumption DEF Good, Run, Current, IInv, RestOK
    <3> QED
      BY <1>1, <3>1
  <2>3. run[c].since <= changes' /\ run[c].since # changes'
    BY <1>1, <2>1, <2>2, CheckerRunsAssumption DEF Good, Run, IInv, RestOK
  <2>4. Placed(c, run[c])' /\ PodsCounted(run[c])' /\ CountedOnce(c, run[c])'
    BY <1>1, <2>1 DEF Good, Placed, PodsCounted, CountedOnce
  <2>5. Current(run[c])'
    BY <1>1, <2>3 DEF Current
  <2>6. AllCaused(c, run[c])'
    BY <1>1, <2>1 DEF Good, AllCaused, HasCause, Asks
  <2>7. AllTrue(c, run[c])'
    BY <1>1, <2>3 DEF AllTrue, TellsTruth
  <2> QED
    BY <1>1, <2>1, <2>4, <2>5, <2>6, <2>7 DEF Good
<1> QED
  BY <1>1, <1>2, <1>3 DEF RunsGood, IInv, process

-----------------------------------------------------------------------------
(* The node checker *)

\* While neither it nor the world moves, and when the world changes.
LEMMA NodeStays ==
    ASSUME IInv, UNCHANGED node, UNCHANGED world \/ Change
    PROVE  NodeGood'
<1>1. CASE UNCHANGED world
  BY <1>1 DEF IInv, NodeGood, NodeCheckTruth, NodeAt, ping, world
<1>2. CASE Change
  <2>1. changes' = changes + 1
    BY <1>2 DEF Change, ServerChanges
  <2>2. node.since <= changes' /\ node.since # changes'
    BY <2>1, CheckerRunsAssumption DEF IInv, NodeGood, NodeRun, RestOK
  <2> QED
    BY <2>1, <2>2 DEF IInv, NodeGood, NodeCheckTruth
<1> QED
  BY <1>1, <1>2

\* Fields of a node run of the right types.
LEMMA NodeIs ==
    ASSUME NEW n, n \in NodeRun
    PROVE  /\ n.attempts \in 0..maxRetryAttempts /\ n.since \in 0..MaxChanges
           /\ n.eligible \in SUBSET Pods /\ n.todo \in SUBSET Pods
           /\ n.succeeded \in SUBSET Pods /\ n.result \in Results
BY DEF NodeRun

LEMMA RetryGood ==
    ASSUME NodeGood, Retry, UNCHANGED world, node.attempts < maxRetryAttempts
    PROVE  NodeGood'
<1> DEFINE last == node.attempts + 1 = maxRetryAttempts
<1>1. node \in NodeRun
  BY DEF NodeGood
<1>2. node.attempts + 1 \in 0..maxRetryAttempts
  BY <1>1, NodeIs DEF maxRetryAttempts
<1>3. /\ node' \in NodeRun
      /\ node'.attempts = node.attempts + 1 /\ node'.since = node.since
      /\ last => node'.pc = "done" /\ node'.result = "Unknown"
      /\ ~last => node'.pc = "getEligibleCoreDNSPods"
  BY <1>1, <1>2 DEF Retry, NodeRun, Results
<1>4. node'.pc = "getEligibleCoreDNSPods" => node'.attempts < maxRetryAttempts
  BY <1>1, <1>3, NodeIs DEF maxRetryAttempts
<1>5. NodeCheckTruth'
  BY <1>3 DEF NodeCheckTruth, NodeAt
<1>6. node'.since <= changes'
  BY <1>3 DEF NodeGood, world
<1>7. node'.pc \in {"done", "getEligibleCoreDNSPods"}
  BY <1>3
<1> QED
  BY <1>3, <1>4, <1>5, <1>6, <1>7 DEF NodeGood

LEMMA EligibleGood ==
    ASSUME IInv, getEligibleCoreDNSPods, UNCHANGED world
    PROVE  NodeGood'
<1>1. NodeGood /\ RestOK /\ node \in NodeRun /\ node.attempts < maxRetryAttempts
  BY DEF IInv, NodeGood, getEligibleCoreDNSPods, NodeAt
<1> DEFINE eligible == ready \ OnNode
           few == Cardinality(eligible) <= 1
<1>2. CASE Retry
  BY <1>1, <1>2, RetryGood
<1>3. CASE node' = [node EXCEPT
                !.eligible = eligible, !.todo = eligible, !.succeeded = {}, !.since = changes,
                !.pc = IF few THEN "done" ELSE "getService",
                !.result = IF few THEN "Unknown" ELSE @]
  <2>1. eligible \in SUBSET Pods /\ changes \in 0..MaxChanges
    BY <1>1 DEF RestOK
  <2> HIDE DEF few, eligible
  <2>2. /\ node' \in NodeRun
        /\ node'.attempts = node.attempts /\ node'.since = changes
        /\ node'.eligible = eligible /\ node'.todo = eligible /\ node'.succeeded = {}
        /\ few => node'.pc = "done" /\ node'.result = "Unknown"
        /\ ~few => node'.pc = "getService"
    BY <1>1, <1>3, <2>1 DEF NodeRun, Results
  <2>3. NodeCheckTruth'
    BY <2>2 DEF NodeCheckTruth, NodeAt, few, eligible, world
  <2>4. changes' = changes /\ ready' = ready /\ changes \in Nat
    BY <1>1, CheckerRunsAssumption DEF world, RestOK
  <2>5. CASE few
    BY <1>1, <2>2, <2>3, <2>4, <2>5 DEF NodeGood
  <2>6. CASE ~few
    BY <1>1, <2>2, <2>3, <2>4, <2>6 DEF NodeGood, eligible
  <2> QED
    BY <2>5, <2>6
<1> QED
  BY <1>2, <1>3 DEF getEligibleCoreDNSPods

LEMMA ServiceGood ==
    ASSUME IInv, getService, UNCHANGED world
    PROVE  NodeGood'
<1>1. NodeGood /\ node \in NodeRun /\ node.attempts < maxRetryAttempts /\ node.pc = "getService"
  BY DEF IInv, NodeGood, getService, NodeAt
<1>2. CASE Retry
  BY <1>1, <1>2, RetryGood
<1>3. CASE NodeTo("checkDNSPods")
  <2>1. /\ node' \in NodeRun /\ node'.pc = "checkDNSPods"
        /\ node'.attempts = node.attempts /\ node'.since = node.since
        /\ node'.eligible = node.eligible /\ node'.todo = node.todo
        /\ node'.succeeded = node.succeeded /\ node'.result = node.result
    BY <1>1, <1>3 DEF NodeTo, NodeRun
  <2> QED
    BY <1>1, <2>1 DEF NodeGood, NodeCheckTruth, NodeAt, ping, world
<1> QED
  BY <1>2, <1>3 DEF getService

LEMMA PodsPingGood ==
    ASSUME IInv, checkDNSPodConnectivity, UNCHANGED world
    PROVE  NodeGood'
<1>1. /\ NodeGood /\ node \in NodeRun /\ node.attempts < maxRetryAttempts
      /\ node.pc = "checkDNSPods"
  BY DEF IInv, NodeGood, checkDNSPodConnectivity, NodeAt
<1>2. PICK p \in node.todo :
        node' = [node EXCEPT
            !.succeeded = IF ping(p) THEN @ \union {p} ELSE @,
            !.todo = @ \ {p},
            !.pc = IF node.todo = {p} THEN "checkDNSSvc" ELSE @]
  BY DEF checkDNSPodConnectivity
<1>3. p \in Pods
  BY <1>1, NodeIs
<1> DEFINE ok == ping(p)
<1>4. ok' <=> ok
  BY DEF ping, world
<1> HIDE DEF ok
<1>5. /\ node' \in NodeRun
      /\ node'.pc = IF node.todo = {p} THEN "checkDNSSvc" ELSE "checkDNSPods"
      /\ node'.attempts = node.attempts /\ node'.since = node.since
      /\ node'.eligible = node.eligible /\ node'.todo = node.todo \ {p}
      /\ node'.succeeded = IF ok THEN node.succeeded \union {p} ELSE node.succeeded
      /\ node'.result = node.result
  BY <1>1, <1>2, <1>3 DEF NodeRun, ok
<1>6. \A s : ping(s)' <=> ping(s)
  BY DEF ping, world
<1>7. ASSUME node'.since = changes'
      PROVE  /\ node'.eligible = ready' \ OnNode
             /\ node'.succeeded \subseteq node'.eligible /\ node'.todo \subseteq node'.eligible
             /\ \A s \in node'.eligible \ node'.todo : s \in node'.succeeded <=> ping(s)'
             /\ \A s \in node'.succeeded : ping(s)'
  <2>1. /\ node.eligible = ready \ OnNode
        /\ node.succeeded \subseteq node.eligible /\ node.todo \subseteq node.eligible
        /\ \A s \in node.eligible \ node.todo : s \in node.succeeded <=> ping(s)
        /\ \A s \in node.succeeded : ping(s)
    BY <1>1, <1>5, <1>7 DEF NodeGood, world
  <2> QED
    BY <1>5, <1>6, <2>1 DEF ok, world
<1>8. node'.pc = "checkDNSSvc" => node'.todo = {}
  BY <1>5
<1>9. NodeCheckTruth'
  BY <1>5 DEF NodeCheckTruth, NodeAt
<1> QED
  BY <1>1, <1>5, <1>7, <1>8, <1>9 DEF NodeGood, world

LEMMA SvcPingGood ==
    ASSUME IInv, checkDNSSvcConnectivity, UNCHANGED world
    PROVE  NodeGood'
<1>1. NodeGood /\ node \in NodeRun /\ node.pc = "checkDNSSvc"
  BY DEF IInv, NodeGood, checkDNSSvcConnectivity, NodeAt
<1> DEFINE svc == ping("kube-dns")
           result == IF svc /\ node.succeeded # {} THEN "Healthy" ELSE "Unhealthy"
<1>2. result \in Results
  BY DEF Results
<1>3. node' = [node EXCEPT !.pc = "done", !.result = result]
  BY DEF checkDNSSvcConnectivity, evaluateResults
<1> HIDE DEF svc, result
<1>4. /\ node' \in NodeRun /\ node'.pc = "done" /\ node'.result = result
      /\ node'.attempts = node.attempts /\ node'.since = node.since
  BY <1>1, <1>2, <1>3 DEF NodeRun
<1>5. \A s : ping(s)' <=> ping(s)
  BY DEF ping, world
<1>6. NodeCheckTruth'
  <2> SUFFICES ASSUME node'.since = changes'
               PROVE  LET reached == (ping("kube-dns") /\ \E p \in ready \ OnNode : ping(p))' IN
                      /\ node'.result = "Healthy" => reached
                      /\ node'.result = "Unhealthy" => ~reached
                      /\ node'.result # "Unknown"
    BY DEF NodeCheckTruth, NodeAt
  <2>1. /\ node.eligible = ready \ OnNode
        /\ node.succeeded \subseteq node.eligible
        /\ \A s \in node.eligible : s \in node.succeeded <=> ping(s)
        /\ \A s \in node.succeeded : ping(s)
    BY <1>1, <1>4 DEF NodeGood, world
  <2>2. node.succeeded # {} <=> \E p \in ready \ OnNode : ping(p)
    BY <2>1
  <2>3. /\ result = "Healthy" => svc /\ node.succeeded # {}
        /\ result # "Healthy" => ~(svc /\ node.succeeded # {})
        /\ result # "Unknown"
    BY DEF result
  <2>4. ready' = ready
    BY DEF world
  <2> QED
    BY <1>4, <1>5, <2>2, <2>3, <2>4 DEF svc
<1> QED
  BY <1>1, <1>4, <1>6 DEF NodeGood, world

LEMMA NodeStepInv ==
    ASSUME IInv, NodeCheckerStep
    PROVE  RestOK' /\ RunsGood' /\ NodeGood'
<1>1. NodeStep /\ UNCHANGED <<world, run, configured, process>>
  BY DEF NodeCheckerStep
<1>2. faults' \in 0..MaxFaults
  <2>1. faults' = faults \/ (faults < MaxFaults /\ faults' = faults + 1)
    BY <1>1 DEF NodeStep, getEligibleCoreDNSPods, getService, checkDNSPodConnectivity,
       checkDNSSvcConnectivity, RequestFails
  <2> QED
    BY <2>1, CheckerRunsAssumption DEF IInv, RestOK
<1>3. RestOK'
  BY <1>1, <1>2 DEF IInv, RestOK, world, process
<1>4. RunsGood'
  BY <1>1, RunsStay DEF process
<1>5. NodeGood'
  BY <1>1, EligibleGood, ServiceGood, PodsPingGood, SvcPingGood DEF NodeStep
<1> QED
  BY <1>3, <1>4, <1>5

-----------------------------------------------------------------------------
(* The theorems *)

LEMMA InitInv == Init => IInv
<1> SUFFICES ASSUME Init PROVE IInv
  OBVIOUS
<1>1. RestOK
  <2>1. 0 \in 0..MaxChanges /\ 0 \in 0..MaxFaults
    BY CheckerRunsAssumption
  <2>2. "answers" \in Answers
    BY DEF Answers
  <2> QED
    BY <2>1, <2>2 DEF Init, RestOK
<1>2. RunsGood
  <2>1. run \in [Checkers -> Run] /\ \A c \in Checkers : run[c] = NoRun
    BY NoRunIs DEF Init
  <2>2. \A c \in Checkers : Good(c, run[c])
    BY <1>1, <2>1, NoRunGood
  <2> QED
    BY <2>1, <2>2, NoRunIs DEF RunsGood
<1>3. NodeGood
  <2>1. 0 \in 0..MaxChanges /\ 0 \in 0..maxRetryAttempts /\ changes = 0
    BY CheckerRunsAssumption DEF maxRetryAttempts, Init
  <2>2. \/ node = [pc |-> "getEligibleCoreDNSPods", attempts |-> 0, eligible |-> {},
                   todo |-> {}, succeeded |-> {}, since |-> 0, result |-> "none"]
        \/ node = [pc |-> "off", attempts |-> 0, eligible |-> {},
                   todo |-> {}, succeeded |-> {}, since |-> 0, result |-> "none"]
    BY DEF Init
  <2>3. /\ node \in NodeRun /\ node.pc \in {"off", "getEligibleCoreDNSPods"}
        /\ node.attempts = 0 /\ node.since = 0
    BY <2>1, <2>2 DEF NodeRun, Results
  <2> QED
    BY <2>1, <2>3 DEF NodeGood, NodeCheckTruth, NodeAt, maxRetryAttempts
<1> QED
  BY <1>1, <1>2, <1>3 DEF IInv

LEMMA NextInv == IInv /\ [Next]_vars => IInv'
<1> SUFFICES ASSUME IInv, [Next]_vars PROVE IInv'
  OBVIOUS
<1>1. CASE \E c \in Checkers : CheckerStep(c)
  <2>1. PICK c \in Checkers : CheckerStep(c)
    BY <1>1
  <2>2. UNCHANGED node /\ UNCHANGED world
    BY <2>1 DEF CheckerStep
  <2> QED
    BY <2>1, <2>2, CheckerStepInv, NodeStays DEF IInv
<1>2. CASE \E c \in Checkers : Deadline(c)
  <2>1. PICK c \in Checkers : Deadline(c)
    BY <1>2
  <2>2. UNCHANGED node /\ UNCHANGED world
    BY <2>1 DEF Deadline
  <2> QED
    BY <2>1, <2>2, DeadlineInv, NodeStays DEF IInv
<1>3. CASE Build \/ Restart \/ Signal
  <2>1. UNCHANGED node /\ UNCHANGED world
    BY <1>3 DEF Build, Restart, Signal
  <2> QED
    BY <1>3, <2>1, BuildInv, RestartInv, SignalInv, NodeStays DEF IInv
<1>4. CASE \/ \E c \in Checkers : Tick(c)
           \/ MainReturns \/ MetricsServerReturns \/ SchedulerReturns
           \/ BuildFails \/ ServerFails
           \/ UNCHANGED vars
  <2>1. UNCHANGED node /\ UNCHANGED world
    BY <1>4 DEF Tick, MainReturns, MetricsServerReturns, SchedulerReturns, Exits,
       BuildFails, ServerFails, vars
  <2> QED
    BY <1>4, <2>1, ProcessInv, NodeStays DEF IInv
<1>5. CASE NodeCheckerStep
  BY <1>5, NodeStepInv DEF IInv
<1>6. CASE Change
  <2>1. UNCHANGED node
    BY <1>6 DEF Change
  <2> QED
    BY <1>6, <2>1, ChangeInv, NodeStays DEF IInv
<1> QED
  BY <1>1, <1>2, <1>3, <1>4, <1>5, <1>6 DEF Next, ProcessStep

LEMMA Invariant == Spec => []IInv
<1> QED
  BY InitInv, NextInv, PTL DEF Spec

\* Every variable keeps to its type, in every instance.
THEOREM MonitorTypes == Spec => []TypeOK
<1>1. IInv => TypeOK
  BY DEF IInv, RestOK, RunsGood, NodeGood, TypeOK
<1> QED
  BY <1>1, Invariant, PTL

\* Every run is counted once when it returns (checker.go:46-75), or once for each pod it
\* listed, for any number of pods and in every order of answers, deadlines and signals.
THEOREM EveryRunCounted == Spec => []RecordedOnce
<1>1. IInv => RecordedOnce
  BY DEF IInv, RunsGood, Good, RecordedOnce
<1> QED
  BY <1>1, Invariant, PTL

\* No Healthy without an answer of all it speaks for, no Unhealthy without a failure or a
\* context that is over (dns_checker.go:92-131, 146-180).
THEOREM EveryResultCaused == Spec => []ResultsHaveCause
<1>1. IInv => ResultsHaveCause
  BY DEF IInv, RunsGood, Good, AllCaused, ResultsHaveCause
<1> QED
  BY <1>1, Invariant, PTL

\* While the world stands still, a run in its time says what is the case.
THEOREM StillWorldToldTruly == Spec => []StillWorldTruth
<1>1. IInv => StillWorldTruth
  BY DEF IInv, RunsGood, Good, AllTrue, StillWorldTruth
<1> QED
  BY <1>1, Invariant, PTL

\* So does the node checker, from its last attempt (pod_network_checker.go:170-208).
THEOREM NodeToldTruly == Spec => []NodeCheckTruth
<1>1. IInv => NodeCheckTruth
  BY DEF IInv, NodeGood
<1> QED
  BY <1>1, Invariant, PTL
=============================================================================
