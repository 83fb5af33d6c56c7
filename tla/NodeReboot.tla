------------------------------ MODULE NodeReboot ------------------------------
(***************************************************************************)
(* The node reboot controller (pkg/controller/node/controller.go) on one    *)
(* node: it asks for a CheckNodeHealth when the node's bootID is not the    *)
(* one in its last-boot-id annotation, and removes a NodeHealthy condition  *)
(* that has grown old.                                                      *)
(*                                                                          *)
(* Beside it write the kubelet, Karpenter and, from another worker of the   *)
(* same process, updateNodeCondition of the CheckNodeHealth controller.     *)
(* No write carries a resourceVersion: each is a merge patch computed from  *)
(* the copy its writer holds, and a patch of the status replaces the whole  *)
(* list of conditions, the kubelet's Ready condition included.              *)
(*                                                                          *)
(* A boot is numbered as it happens (0: no bootID), and a CheckNodeHealth   *)
(* is known by the boot its name is made from.                              *)
(***************************************************************************)
EXTENDS Naturals

CONSTANTS
    NewNodeThreshold, NodeReadyMaxWait, NodeConditionTTL, CRTTL,
    Pools,         \* what nodes register as: "plain", "uninitialized"
    MaxTime,       \* bound on the clock
    MaxNodes,      \* bound on registrations of a node of this name
    MaxBoots,      \* bound on boots, those of replaced nodes included
    MaxChanges,    \* bound on changes of Ready and of CoreDNS
    MaxVerdicts,   \* bound on verdicts written on the node
    MaxFaults      \* bound on failed calls, lost answers and crashes

ASSUME NodeRebootAssumption ==
    /\ NewNodeThreshold \in Nat
    /\ NodeReadyMaxWait \in Nat
    /\ NodeConditionTTL \in Nat
    /\ CRTTL \in Nat
    /\ Pools \subseteq {"plain", "uninitialized"}
    /\ MaxTime \in Nat
    /\ MaxNodes \in Nat
    /\ MaxBoots \in Nat
    /\ MaxChanges \in Nat
    /\ MaxVerdicts \in Nat
    /\ MaxFaults \in Nat

VARIABLES
    now,       \* the clock
    node,      \* the node, at the API server
    nodes,     \* the number of registrations so far
    boots,     \* the number of boots so far
    coreDNS,   \* what coreDNSReady finds
    cnhs,      \* the CheckNodeHealths: their names, and when they were created
    cache,     \* the informer's copy of the node
    queued,    \* the node is in the work queue
    timer,     \* a RequeueAfter is pending
    wk,        \* the controller's worker, with the copy it works on
    writer,    \* updateNodeCondition, with the copy it read
    changes, verdicts, faults,
    \* History, which no guard reads:
    created,   \* how often the CheckNodeHealth of a boot was created
    existing,  \* the boots annotated as those of an existing node, with that node
    seenNew,   \* this node was new when a Reconcile found it without annotation
    lapses     \* how often the CR of a boot went too early, or the boot came on anew

envVars == <<nodes, boots, coreDNS, changes, verdicts>>
history == <<created, existing, seenNew, lapses>>
vars == <<now, node, cnhs, cache, queued, timer, wk, writer, faults, envVars, history>>

-----------------------------------------------------------------------------
(* The node *)

\* pool: not Karpenter's, Karpenter's and not yet initialized, or initialized.
Pool == {"plain", "uninitialized", "initialized"}

\* status and since are those of the NodeHealthy condition.  readySince counts
\* while Ready is not True; a missing Ready condition is one that is not True
\* since the node was created.
Node == [exists : BOOLEAN, uid : Nat, created : Nat, pool : Pool, boot : Nat, annotation : Nat,
         ready : BOOLEAN, readySince : Nat,
         status : {"none", "True", "False"}, since : Nat]

NewNode(uid, pool) ==
    [exists |-> TRUE, uid |-> uid, created |-> now, pool |-> pool, boot |-> 0, annotation |-> 0,
     ready |-> FALSE, readySince |-> now, status |-> "none", since |-> 0]

NoNode == [exists |-> FALSE, uid |-> 0, created |-> 0, pool |-> "plain", boot |-> 0, annotation |-> 0,
           ready |-> FALSE, readySince |-> 0, status |-> "none", since |-> 0]

isKarpenterInitialized(n) == n.pool = "initialized"
isKarpenterManaged(n) == n.pool # "plain"

isNodeReadyForHealthCheck(n) ==
    /\ coreDNS = "ready"
    /\ IF isKarpenterManaged(n) THEN isKarpenterInitialized(n) ELSE n.ready

notReadyExceeds(n) ==
    IF isKarpenterManaged(n) /\ ~ isKarpenterInitialized(n)
    THEN n.created + NodeReadyMaxWait < now
    ELSE ~ n.ready /\ n.readySince + NodeReadyMaxWait < now

isNew(n) == now < n.created + NewNodeThreshold

\* (Names with a suffix are faulty variants of the definition that follows.)
isStale_UnhealthyOnly(n) == n.status = "False" /\ n.since + NodeConditionTTL < now
isStale(n) == n.status # "none" /\ n.since + NodeConditionTTL < now

\* nodeRebootPredicate: creations and updates pass, deletions do not.
nodeRebootPredicate_NewBootsOnly(old, new) == new.exists /\ old.boot # new.boot
nodeRebootPredicate(old, new) == new.exists

\* The name of a boot's CheckNodeHealth: a hash of the bootID, taken to tell
\* boots apart, before the node's name, which may be cut.
GenerateCNHName(boot) == boot

\* The node after a merge patch of status.conditions: the list is the one of
\* copy, with the given NodeHealthy condition.
Conditions(n) == [ready |-> n.ready, readySince |-> n.readySince,
                  status |-> n.status, since |-> n.since]

ConditionsPatched(copy, status, since) ==
    [node EXCEPT !.ready = copy.ready, !.readySince = copy.readySince,
                 !.status = status, !.since = since]

-----------------------------------------------------------------------------
(* Reconcile *)

Idle == [pc |-> "idle", node |-> NoNode]

Fault == faults < MaxFaults /\ faults' = faults + 1

\* Reconcile returned an error.
Requeue == wk' = Idle /\ queued' = TRUE

\* The call was done, and the worker goes on, or takes it for failed.
Answered(w) ==
    \/ wk' = w /\ UNCHANGED <<queued, faults>>
    \/ Fault /\ Requeue

Reconcile ==
    /\ wk.pc = "idle"
    /\ queued
    /\ queued' = FALSE
    /\ wk' = IF cache.exists THEN [pc |-> "stale", node |-> cache] ELSE Idle
    /\ UNCHANGED <<now, node, cnhs, cache, timer, writer, faults, envVars, history>>

\* The copy is replaced by the object the patch returns.
removeStaleNodeCondition ==
    /\ wk.pc = "stale"
    /\ \/ /\ ~ isStale(wk.node)
          /\ wk' = [wk EXCEPT !.pc = "detect"]
          /\ UNCHANGED <<node, queued, faults>>
       \/ /\ isStale(wk.node)
          /\ node.exists
          /\ node' = ConditionsPatched(wk.node, "none", 0)
          /\ Answered([pc |-> "detect", node |-> node'])
       \/ /\ isStale(wk.node)
          /\ ~ node.exists
          /\ Requeue
          /\ UNCHANGED <<node, faults>>
    /\ UNCHANGED <<now, cnhs, cache, timer, writer, envVars, history>>

\* What the copy calls for.
Initialize(n) == n.boot # 0 /\ n.annotation = 0 /\ ~ isNew(n)
Check_IgnoresAnnotation(n) == n.boot # 0 /\ (n.annotation = 0 => isNew(n))
Check(n) == n.boot # 0 /\ n.annotation # n.boot /\ (n.annotation = 0 => isNew(n))

\* The bootID is not persisted, so that it stays new; and RequeueAfter, unless
\* the node has not been ready for too long.
Deferred_Persists(n) == wk' = [wk EXCEPT !.pc = "annotate"] /\ UNCHANGED timer
Deferred_Never(n) == wk' = Idle /\ UNCHANGED timer
Deferred(n) == wk' = Idle /\ timer' = (timer \/ ~ notReadyExceeds(n))

\* From the bootID to the call of Create: nothing to do, an existing node to
\* annotate, a check to create, or one to wait for.  CoreDNS scaled to zero is
\* an error.
Detect ==
    /\ wk.pc = "detect"
    /\ seenNew' = (seenNew \/ (wk.node.annotation = 0 /\ Check(wk.node)))
    /\ \/ /\ ~ Initialize(wk.node) /\ ~ Check(wk.node)
          /\ wk' = Idle
          /\ UNCHANGED <<queued, timer, existing>>
       \/ /\ Initialize(wk.node)
          /\ wk' = [wk EXCEPT !.pc = "annotate"]
          /\ existing' = existing \cup {[uid |-> wk.node.uid, boot |-> wk.node.boot]}
          /\ UNCHANGED <<queued, timer>>
       \/ /\ Check(wk.node)
          /\ \/ coreDNS = "error" /\ Requeue /\ UNCHANGED timer
             \/ /\ isNodeReadyForHealthCheck(wk.node)
                /\ wk' = [wk EXCEPT !.pc = "create"]
                /\ UNCHANGED <<queued, timer>>
             \/ /\ coreDNS # "error" /\ ~ isNodeReadyForHealthCheck(wk.node)
                /\ Deferred(wk.node)
                /\ UNCHANGED queued
          /\ UNCHANGED existing
    /\ UNCHANGED <<now, node, cnhs, cache, writer, faults, envVars, created, lapses>>

\* AlreadyExists counts as created.
createCheckNodeHealth ==
    /\ wk.pc = "create"
    /\ LET name == GenerateCNHName(wk.node.boot)
       IN  IF \E cnh \in cnhs : cnh.name = name
           THEN UNCHANGED <<cnhs, created>>
           ELSE /\ cnhs' = cnhs \cup {[name |-> name, created |-> now]}
                /\ created' = [created EXCEPT ![wk.node.boot] = @ + 1]
    /\ Answered([wk EXCEPT !.pc = "annotate"])
    /\ UNCHANGED <<now, node, cache, timer, writer, envVars, existing, seenNew, lapses>>

\* The patch names the node and no more; Reconcile ends with it.
updateBootIDAnnotation_Upsert ==
    /\ wk.pc = "annotate"
    /\ node' = [node EXCEPT !.annotation = wk.node.boot]
    /\ Answered(Idle)
    /\ timer' = (timer \/ ~ queued')
    /\ UNCHANGED <<now, cnhs, cache, writer, envVars, history>>

updateBootIDAnnotation ==
    /\ wk.pc = "annotate"
    /\ \/ /\ node.exists
          /\ node' = [node EXCEPT !.annotation = wk.node.boot]
          /\ \/ wk' = Idle /\ timer' = TRUE /\ UNCHANGED <<queued, faults>>
             \/ Fault /\ Requeue /\ UNCHANGED timer
       \/ /\ ~ node.exists
          /\ Requeue
          /\ UNCHANGED <<node, timer, faults>>
    /\ UNCHANGED <<now, cnhs, cache, writer, envVars, history>>

\* A call fails and changes nothing.
CallFails ==
    /\ \/ wk.pc \in {"create", "annotate"}
       \/ wk.pc = "stale" /\ isStale(wk.node)
    /\ Fault
    /\ Requeue
    /\ UNCHANGED <<now, node, cnhs, cache, timer, writer, envVars, history>>

-----------------------------------------------------------------------------
(* The rest of the process *)

Quiet == [pc |-> "idle", copy |-> Conditions(NoNode), status |-> "none"]

\* updateNodeCondition reads the node at the API server...
VerdictReads(status) ==
    /\ writer.pc = "idle"
    /\ node.exists
    /\ verdicts < MaxVerdicts
    /\ verdicts' = verdicts + 1
    /\ writer' = [pc |-> "patch", copy |-> Conditions(node), status |-> status]
    /\ UNCHANGED <<now, node, cnhs, cache, queued, timer, wk, faults, nodes, boots, coreDNS, changes, history>>

\* ... and patches it; the transition time is renewed with the status.
VerdictPatches ==
    /\ writer.pc = "patch"
    /\ writer' = Quiet
    /\ \/ /\ node.exists
          /\ node' = ConditionsPatched(writer.copy, writer.status,
                        IF writer.copy.status = writer.status THEN writer.copy.since ELSE now)
       \/ UNCHANGED node
    /\ UNCHANGED <<now, cnhs, cache, queued, timer, wk, faults, envVars, history>>

WatchNode ==
    /\ cache # node
    /\ cache' = node
    /\ queued' = (queued \/ nodeRebootPredicate(cache, node))
    /\ UNCHANGED <<now, node, cnhs, timer, wk, writer, faults, envVars, history>>

\* Every SyncPeriod, and with every heartbeat of the kubelet, the cache tells
\* of the node again.
Resync ==
    /\ ~ queued
    /\ nodeRebootPredicate(cache, cache)
    /\ queued' = TRUE
    /\ UNCHANGED <<now, node, cnhs, cache, timer, wk, writer, faults, envVars, history>>

TimerFires ==
    /\ timer
    /\ timer' = FALSE
    /\ queued' = TRUE
    /\ UNCHANGED <<now, node, cnhs, cache, wk, writer, faults, envVars, history>>

\* The process dies, and the next one lists the nodes.
Crash ==
    /\ Fault
    /\ wk' = Idle /\ writer' = Quiet /\ timer' = FALSE
    /\ cache' = node /\ queued' = node.exists
    /\ UNCHANGED <<now, node, cnhs, envVars, history>>

-----------------------------------------------------------------------------
(* The cluster *)

Tick ==
    /\ now < MaxTime
    /\ now' = now + 1
    /\ UNCHANGED <<node, cnhs, cache, queued, timer, wk, writer, faults, envVars, history>>

ReadyChanges ==
    /\ node.exists
    /\ changes < MaxChanges
    /\ changes' = changes + 1
    /\ node' = [node EXCEPT !.ready = ~ @, !.readySince = IF node.ready THEN now ELSE 0]
    /\ UNCHANGED <<now, cnhs, cache, queued, timer, wk, writer, faults, nodes, boots, coreDNS, verdicts, history>>

\* A new bootID; a reboot may be over before Ready is seen to change.  A node that
\* was registered again without a reboot reports the bootID its predecessor had.
Boot ==
    /\ node.exists
    /\ \/ /\ boots < MaxBoots
          /\ boots' = boots + 1
          /\ UNCHANGED lapses
       \/ /\ node.boot = 0 /\ boots # 0
          /\ lapses' = [lapses EXCEPT ![boots] = @ + 1]
          /\ UNCHANGED boots
    /\ node' = [node EXCEPT !.boot = boots']
    /\ UNCHANGED <<now, cnhs, cache, queued, timer, wk, writer, faults, nodes, coreDNS, changes,
                   verdicts, created, existing, seenNew>>

KarpenterInitializes ==
    /\ node.pool = "uninitialized"
    /\ node' = [node EXCEPT !.pool = "initialized"]
    /\ UNCHANGED <<now, cnhs, cache, queued, timer, wk, writer, faults, envVars, history>>

NodeRemoved ==
    /\ node.exists
    /\ nodes < MaxNodes
    /\ node' = NoNode
    /\ UNCHANGED <<now, cnhs, cache, queued, timer, wk, writer, faults, envVars, history>>

NodeRegisters ==
    /\ ~ node.exists
    /\ nodes' = nodes + 1
    /\ \E pool \in Pools : node' = NewNode(nodes', pool)
    /\ seenNew' = FALSE
    /\ UNCHANGED <<now, cnhs, cache, queued, timer, wk, writer, faults, boots, coreDNS, changes,
                   verdicts, created, existing, lapses>>

CoreDNSChanges ==
    /\ changes < MaxChanges
    /\ changes' = changes + 1
    /\ coreDNS' \in {"ready", "unready", "error"} \ {coreDNS}
    /\ UNCHANGED <<now, node, cnhs, cache, queued, timer, wk, writer, faults, nodes, boots, verdicts, history>>

\* Nothing that holds a copy of the node would have the boot checked again: a copy
\* that shows the boot has it annotated, and while the node is in that boot, no
\* copy is of an earlier one.
Handled(boot) ==
    /\ \A n \in {node, cache, wk.node} : n.boot = boot => n.annotation = boot
    /\ node.boot = boot =>
          cache.boot = boot /\ (wk.pc # "idle" => wk.node.boot = boot)

\* A CR is deleted for its age alone, whatever has become of the node meanwhile:
\* while a boot is deferred after a crash or a failed patch, CRTTL may pass.
CNHExpires(cnh) ==
    /\ cnh.created + CRTTL < now
    /\ cnhs' = cnhs \ {cnh}
    /\ lapses' = IF Handled(cnh.name) THEN lapses ELSE [lapses EXCEPT ![cnh.name] = @ + 1]
    /\ UNCHANGED <<now, node, cache, queued, timer, wk, writer, faults, envVars,
                   created, existing, seenNew>>

Init ==
    /\ now = 0
    /\ \E pool \in Pools : node = NewNode(1, pool)
    /\ nodes = 1 /\ boots = 0 /\ coreDNS \in {"ready", "unready"} /\ cnhs = {}
    /\ cache = node /\ queued = TRUE /\ timer = FALSE
    /\ wk = Idle /\ writer = Quiet
    /\ changes = 0 /\ verdicts = 0 /\ faults = 0
    /\ created = [b \in 1..MaxBoots |-> 0] /\ existing = {} /\ seenNew = FALSE
    /\ lapses = created

Worker ==
    \/ Reconcile \/ removeStaleNodeCondition \/ Detect
    \/ createCheckNodeHealth \/ updateBootIDAnnotation

Next ==
    \/ Worker \/ CallFails
    \/ \E status \in {"True", "False"} : VerdictReads(status)
    \/ VerdictPatches
    \/ WatchNode \/ Resync \/ TimerFires \/ Crash
    \/ Tick \/ ReadyChanges \/ Boot \/ KarpenterInitializes
    \/ NodeRemoved \/ NodeRegisters \/ CoreDNSChanges
    \/ \E cnh \in cnhs : CNHExpires(cnh)

Spec == Init /\ [][Next]_vars

FairSpec ==
    /\ Spec
    /\ WF_vars(Worker)
    /\ WF_vars(WatchNode)
    /\ WF_vars(Resync)
    /\ WF_vars(TimerFires)

-----------------------------------------------------------------------------
(* Properties *)

\* Types; and what is not there has no annotation and no conditions: no patch
\* brings a removed node back.
TypeOK ==
    /\ now \in Nat /\ nodes \in Nat /\ boots \in 0..MaxBoots
    /\ {node, cache, wk.node} \subseteq Node
    /\ \A n \in {node, cache, wk.node} : ~ n.exists => n = NoNode
    /\ coreDNS \in {"ready", "unready", "error"}
    /\ cnhs \subseteq [name : 1..MaxBoots, created : Nat]
    /\ wk.pc \in {"idle", "stale", "detect", "create", "annotate"}
    /\ created \in [1..MaxBoots -> Nat]

\* A bootID is persisted only when the check of that boot has been created, or
\* its node was no longer new when found without annotation: whatever fails,
\* is deferred or is done on a stale copy, no boot is taken for seen without
\* one, and none at all on a node that still is new, but for the one an earlier
\* node of the name left to it (Reconcile, createCheckNodeHealth,
\* updateBootIDAnnotation, NewNodeThreshold).
SeenMeansChecked ==
    node.annotation # 0 =>
        \/ created[node.annotation] > 0
        \/ \E e \in existing : /\ e.boot = node.annotation
                               /\ e.uid = node.uid => ~ isNew(node)

\* A boot is checked once, however often its node is reconciled, the answer to
\* Create or to the patch is lost, the process dies and the cache lags behind
\* (GenerateCNHName, the AlreadyExists of createCheckNodeHealth): once more each
\* time its CR goes before everyone knows the boot as annotated, or the node is
\* registered again in the same boot.
OneCheckUnlessLapsed ==
    \A boot \in 1..MaxBoots : created[boot] <= 1 + lapses[boot]

\* nodereboot_test.go: the controller "defers initializing the bootID annotation
\* on a brand-new node until that node reports Ready, so that a CheckNodeHealth
\* CR can also be created" (Detect; NewNodeThreshold).
NewNodesChecked == node.annotation # 0 /\ seenNew => created[node.annotation] > 0

Outdated(n) == n.status # "none" /\ n.since + NodeConditionTTL < now

\* "removeStaleNodeCondition removes the NodeHealthy condition from the node if
\* its LastTransitionTime is older than NodeConditionTTL."
RemovesOnlyStale ==
    [][removeStaleNodeCondition /\ node'.status # node.status => Outdated(node)]_vars

Settled(boot) == node.exists /\ node.boot = boot /\ isNodeReadyForHealthCheck(node)

\* Reconcile never forgets a boot: when nothing is queued, no RequeueAfter is
\* pending, the worker is at rest and the cache current, the boot that is there is
\* annotated, or was given up because the node has not been ready for too long
\* (Detect, Deferred, notReadyExceeds, nodeRebootPredicate).
NothingForgotten ==
    /\ wk = Idle /\ ~ queued /\ ~ timer
    /\ cache = node
    /\ node.boot # 0
    => node.annotation = node.boot \/ notReadyExceeds(node)

\* A boot that lasts is found out, whatever was deferred, given up or filtered
\* away before the node and CoreDNS came to be ready (Detect, notReadyExceeds,
\* nodeRebootPredicate).
RebootsAreSeen ==
    \A boot \in 1..MaxBoots : <>[]Settled(boot) => <>[](node.annotation = boot)

\* An outdated verdict does not stay on the node: it is removed, or replaced by
\* one of another time (removeStaleNodeCondition, updateNodeCondition).
StaleConditionsGo ==
    \A t \in 0..MaxTime :
        Outdated(node) /\ node.since = t ~> ~ (Outdated(node) /\ node.since = t)
=============================================================================
