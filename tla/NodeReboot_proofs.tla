--------------------------- MODULE NodeReboot_proofs ---------------------------
(***************************************************************************)
(* Proofs about NodeReboot, for every value of its constants: its types,    *)
(* that no boot is taken for seen without a check, that none is checked     *)
(* again unless its CR went too early or its node was registered again, and *)
(* that none is forgotten.                                                  *)
(*                                                                          *)
(* The inductive invariant says of every copy of the node (the API          *)
(* server's, the informer's, the worker's) what the properties say of the   *)
(* node: the annotation each carries has been Seen, and a boot whose check  *)
(* has gone in its time is Handled, and stays so.                           *)
(***************************************************************************)
EXTENDS NodeReboot, TLAPS

Copies == {node, cache, wk.node}

Seen(boot) == created[boot] > 0 \/ \E e \in existing : e.boot = boot

Named(boot) == \E cnh \in cnhs : cnh.name = boot

\* The check of the boot was created, and went in its time.
Gone(boot) == created[boot] > lapses[boot] /\ ~ Named(boot)

Types ==
    /\ now \in Nat /\ nodes \in Nat /\ boots \in 0..MaxBoots
    /\ node \in Node /\ cache \in Node
    /\ wk \in [pc : {"idle", "stale", "detect", "create", "annotate"}, node : Node]
    /\ writer \in [pc : {"idle", "patch"},
                   copy : [ready : BOOLEAN, readySince : Nat,
                           status : {"none", "True", "False"}, since : Nat],
                   status : {"none", "True", "False"}]
    /\ \A n \in Copies : IF n.exists THEN n.uid \in 1..nodes ELSE n = NoNode
    /\ writer.pc = "patch" => writer.status # "none"
    /\ coreDNS \in {"ready", "unready", "error"}
    /\ cnhs \subseteq [name : 1..MaxBoots, created : Nat]
    /\ created \in [1..MaxBoots -> Nat] /\ lapses \in [1..MaxBoots -> Nat]

\* No boot is known before it happened, and no check exists that was not created.
BootsHappened ==
    /\ \A n \in Copies : n.boot <= boots /\ n.annotation <= boots
    /\ \A b \in 1..MaxBoots : created[b] > 0 => b <= boots
    /\ \A cnh \in cnhs : created[cnh.name] > 0

\* The worker holds a copy while it works on one, and what it is about to do is
\* called for by that copy.
Decided ==
    /\ wk.pc = "idle" => wk.node = NoNode
    /\ wk.pc \in {"create", "annotate"} => wk.node.boot # 0
    /\ wk.pc = "create" => wk.node.annotation # wk.node.boot

AllSeen ==
    /\ \A n \in Copies : n.annotation # 0 => Seen(n.annotation)
    /\ wk.pc = "annotate" => Seen(wk.node.boot)

\* Whoever knows a boot whose check went in its time knows it as handled; and while
\* the node is in that boot, nobody is behind.
GoneMeansHandled == \A b \in 1..MaxBoots : Gone(b) => Handled(b)

IInv == Types /\ BootsHappened /\ Decided /\ AllSeen /\ GoneMeansHandled /\ OneCheckUnlessLapsed

-----------------------------------------------------------------------------

LEMMA NoNodeType == NoNode \in Node /\ NoNode.uid = 0 /\ NoNode.boot = 0 /\ NoNode.annotation = 0 /\ ~ NoNode.exists
BY DEF NoNode, Node, Pool

LEMMA NewNodeType ==
    ASSUME NEW uid \in Nat, NEW pool \in Pools, now \in Nat
    PROVE  /\ NewNode(uid, pool) \in Node /\ NewNode(uid, pool).exists
           /\ NewNode(uid, pool).uid = uid /\ NewNode(uid, pool).created = now
           /\ NewNode(uid, pool).boot = 0 /\ NewNode(uid, pool).annotation = 0
BY NodeRebootAssumption DEF NewNode, Node, Pool

LEMMA InitIInv == Init => IInv
<1> SUFFICES ASSUME Init PROVE IInv
  OBVIOUS
<1>1. PICK pool \in Pools : node = NewNode(1, pool)
  BY DEF Init
<1>2. /\ node \in Node /\ node.exists /\ node.boot = 0 /\ node.annotation = 0
      /\ node.uid = 1 /\ nodes = 1
      /\ cache = node /\ wk = Idle /\ wk.node = NoNode /\ wk.pc = "idle"
  BY <1>1, NewNodeType DEF Init, Idle
<1>3. writer = Quiet /\ Conditions(NoNode) \in [ready : BOOLEAN, readySince : Nat,
                           status : {"none", "True", "False"}, since : Nat]
  BY DEF Init, Conditions, NoNode
<1>4. Types
  BY <1>2, <1>3, NoNodeType, NodeRebootAssumption DEF Init, Types, Copies, Quiet, Idle
<1>5. \A n \in Copies : n.boot = 0 /\ n.annotation = 0
  BY <1>2, NoNodeType DEF Copies
<1>6. /\ boots = 0 /\ cnhs = {} /\ existing = {}
      /\ \A b \in 1..MaxBoots : created[b] = 0 /\ lapses[b] = 0
  BY DEF Init
<1>7. BootsHappened /\ Decided /\ AllSeen
  BY <1>2, <1>5, <1>6 DEF BootsHappened, Decided, AllSeen
<1>8. GoneMeansHandled /\ OneCheckUnlessLapsed
  BY <1>6 DEF GoneMeansHandled, Handled, OneCheckUnlessLapsed, Gone
<1> QED
  BY <1>4, <1>7, <1>8 DEF IInv

LEMMA ReconcileIInv == IInv /\ Reconcile => IInv'
<1> SUFFICES ASSUME IInv, Reconcile PROVE IInv'
  OBVIOUS
<1> USE DEF IInv
<1>1. /\ wk' = IF cache.exists THEN [pc |-> "stale", node |-> cache] ELSE Idle
      /\ UNCHANGED <<now, node, cnhs, cache, writer, nodes, boots, coreDNS, created, existing, lapses>>
      /\ wk'.node \in {cache, NoNode} /\ wk'.pc \in {"idle", "stale"}
      /\ wk'.pc # "idle" => wk'.node = cache
      /\ wk'.pc = "idle" => wk'.node = NoNode
  BY DEF Reconcile, envVars, history, Idle
<1>2. Types'
  BY <1>1, NoNodeType DEF Types, Copies, Idle
<1>3. BootsHappened'
  BY <1>1, NoNodeType DEF BootsHappened, Copies, Types
<1>4. Decided' /\ AllSeen' /\ OneCheckUnlessLapsed'
  BY <1>1, NoNodeType DEF Decided, AllSeen, OneCheckUnlessLapsed, Seen, Copies
<1>5. GoneMeansHandled'
  BY <1>1, NoNodeType DEF GoneMeansHandled, Handled, Gone, Named, Copies
<1> QED
  BY <1>2, <1>3, <1>4, <1>5

LEMMA PatchedType ==
    ASSUME NEW copy, NEW status \in {"none", "True", "False"}, NEW since \in Nat,
           copy.ready \in BOOLEAN, copy.readySince \in Nat, node \in Node
    PROVE  /\ ConditionsPatched(copy, status, since) \in Node
           /\ ConditionsPatched(copy, status, since).boot = node.boot
           /\ ConditionsPatched(copy, status, since).annotation = node.annotation
           /\ ConditionsPatched(copy, status, since).exists = node.exists
           /\ ConditionsPatched(copy, status, since).uid = node.uid
BY DEF ConditionsPatched, Node

LEMMA RemoveStaleIInv == IInv /\ removeStaleNodeCondition => IInv'
<1> SUFFICES ASSUME IInv, removeStaleNodeCondition PROVE IInv'
  OBVIOUS
<1> USE DEF IInv
<1>1. /\ UNCHANGED <<now, cnhs, cache, writer, nodes, boots, coreDNS, created, existing, lapses>>
      /\ wk.pc = "stale"
  BY DEF removeStaleNodeCondition, envVars, history
<1>2. CASE ~ isStale(wk.node)
  <2>1. wk' = [wk EXCEPT !.pc = "detect"] /\ UNCHANGED node
    BY <1>2 DEF removeStaleNodeCondition
  <2>2. wk'.node = wk.node /\ wk'.pc = "detect"
    BY <2>1 DEF Types
  <2>3. Types'
    BY <1>1, <2>1, <2>2 DEF Types, Copies
  <2>4. BootsHappened' /\ Decided' /\ AllSeen' /\ OneCheckUnlessLapsed'
    BY <1>1, <2>1, <2>2 DEF BootsHappened, Decided, AllSeen, OneCheckUnlessLapsed, Seen, Copies
  <2>5. GoneMeansHandled'
    BY <1>1, <2>1, <2>2 DEF GoneMeansHandled, Handled, Gone, Named, Copies
  <2> QED
    BY <2>3, <2>4, <2>5
<1>3. CASE isStale(wk.node)
  <2>1. \/ UNCHANGED node
        \/ node.exists /\ node' = ConditionsPatched(wk.node, "none", 0)
    BY <1>3 DEF removeStaleNodeCondition
  <2>2. wk.node.ready \in BOOLEAN /\ wk.node.readySince \in Nat /\ node \in Node
    BY DEF Types, Node
  <2>3. /\ node' \in Node /\ node'.boot = node.boot /\ node'.annotation = node.annotation
        /\ node'.exists = node.exists /\ (~ node'.exists => node' = NoNode) /\ node'.uid = node.uid
    BY <2>1, <2>2, PatchedType DEF Types, Copies
  <2>4. \/ wk' = [pc |-> "detect", node |-> node'] /\ node'.exists
        \/ wk' = Idle
    BY <1>3, <2>3 DEF removeStaleNodeCondition, Answered, Requeue
  <2>5. /\ wk'.node \in {node', NoNode} /\ wk'.pc \in {"idle", "detect"}
        /\ wk'.pc # "idle" => wk'.node = node'
        /\ wk'.pc = "idle" => wk'.node = NoNode
    BY <2>4 DEF Idle
  <2>6. Types'
    BY <1>1, <2>3, <2>4, NoNodeType DEF Types, Copies, Idle
  <2>7. BootsHappened'
    BY <1>1, <2>3, <2>5, NoNodeType DEF BootsHappened, Copies, Types
  <2>8. Decided' /\ AllSeen' /\ OneCheckUnlessLapsed'
    BY <1>1, <2>3, <2>5, NoNodeType DEF Decided, AllSeen, OneCheckUnlessLapsed, Seen, Copies
  <2>9. GoneMeansHandled'
    BY <1>1, <2>3, <2>5, NoNodeType DEF GoneMeansHandled, Handled, Gone, Named, Copies
  <2> QED
    BY <2>6, <2>7, <2>8, <2>9
<1> QED
  BY <1>2, <1>3

LEMMA DetectIInv == IInv /\ Detect => IInv'
<1> SUFFICES ASSUME IInv, Detect PROVE IInv'
  OBVIOUS
<1> USE DEF IInv
<1>1. /\ UNCHANGED <<now, node, cnhs, cache, writer, nodes, boots, coreDNS, created, lapses>>
      /\ wk.pc = "detect"
  BY DEF Detect, envVars
<1>2. \/ wk' = Idle /\ UNCHANGED existing
      \/ /\ wk' = [wk EXCEPT !.pc = "annotate"] /\ Initialize(wk.node)
         /\ existing' = existing \cup {[uid |-> wk.node.uid, boot |-> wk.node.boot]}
      \/ wk' = [wk EXCEPT !.pc = "create"] /\ Check(wk.node) /\ UNCHANGED existing
  BY DEF Detect, Requeue, Deferred
<1>3. /\ existing \subseteq existing'
      /\ wk'.node \in {wk.node, NoNode} /\ wk'.pc \in {"idle", "annotate", "create"}
      /\ wk'.pc # "idle" => wk'.node = wk.node /\ wk.node.boot # 0
      /\ wk'.pc = "idle" => wk'.node = NoNode
      /\ wk'.pc = "annotate" => \E e \in existing' : e.boot = wk.node.boot
      /\ wk'.pc = "create" => wk.node.annotation # wk.node.boot
  <2>1. CASE wk' = Idle /\ UNCHANGED existing
    BY <2>1 DEF Idle
  <2>2. CASE /\ wk' = [wk EXCEPT !.pc = "annotate"] /\ Initialize(wk.node)
             /\ existing' = existing \cup {[uid |-> wk.node.uid, boot |-> wk.node.boot]}
    <3>1. wk'.node = wk.node /\ wk'.pc = "annotate"
      BY <2>2 DEF Types
    <3>2. [uid |-> wk.node.uid, boot |-> wk.node.boot] \in existing'
      BY <2>2
    <3>3. \E e \in existing' : e.boot = wk.node.boot
      BY <3>2
    <3> QED
      BY <2>2, <3>1, <3>3 DEF Initialize
  <2>3. CASE wk' = [wk EXCEPT !.pc = "create"] /\ Check(wk.node) /\ UNCHANGED existing
    <3>1. wk'.node = wk.node /\ wk'.pc = "create"
      BY <2>3 DEF Types
    <3> QED
      BY <2>3, <3>1 DEF Check
  <2> QED
    BY <1>2, <2>1, <2>2, <2>3
<1>4. Types'
  BY <1>1, <1>2, NoNodeType DEF Types, Copies, Idle
<1>5. BootsHappened'
  BY <1>1, <1>3, NoNodeType DEF BootsHappened, Copies, Types
<1>6. Decided' /\ AllSeen' /\ OneCheckUnlessLapsed'
  BY <1>1, <1>3, NoNodeType DEF Decided, AllSeen, OneCheckUnlessLapsed, Seen, Copies
<1>7. GoneMeansHandled'
  BY <1>1, <1>3, NoNodeType DEF GoneMeansHandled, Handled, Gone, Named, Copies
<1> QED
  BY <1>4, <1>5, <1>6, <1>7

LEMMA CreateIInv == IInv /\ createCheckNodeHealth => IInv'
<1> SUFFICES ASSUME IInv, createCheckNodeHealth PROVE IInv'
  OBVIOUS
<1> USE DEF IInv
<1> DEFINE b0 == wk.node.boot
<1>1. /\ UNCHANGED <<now, node, cache, writer, nodes, boots, coreDNS, existing, lapses>>
      /\ wk.pc = "create"
  BY DEF createCheckNodeHealth, envVars
<1>2. wk' = [wk EXCEPT !.pc = "annotate"] \/ wk' = Idle
  BY DEF createCheckNodeHealth, Answered, Requeue
<1>3. /\ wk'.node \in {wk.node, NoNode} /\ wk'.pc \in {"idle", "annotate"}
      /\ wk'.pc # "idle" => wk'.node = wk.node
      /\ wk'.pc = "idle" => wk'.node = NoNode
  BY <1>2 DEF Idle, Types
<1>4. b0 \in 1..MaxBoots /\ b0 <= boots /\ wk.node.annotation # b0
  <2>1. b0 \in Nat /\ b0 # 0 /\ b0 <= boots
    BY <1>1 DEF Types, Node, Decided, BootsHappened, Copies
  <2>2. boots \in Nat /\ MaxBoots \in Nat /\ boots <= MaxBoots
    BY NodeRebootAssumption DEF Types
  <2>3. wk.node.annotation # b0
    BY <1>1 DEF Decided
  <2> HIDE DEF b0
  <2> QED
    BY <2>1, <2>2, <2>3
<1>5. ~ Gone(b0)
  BY <1>4 DEF GoneMeansHandled, Handled, Copies
<1>6. \/ Named(b0) /\ UNCHANGED <<cnhs, created>> /\ created[b0] > 0
      \/ /\ ~ Named(b0) /\ cnhs' = cnhs \cup {[name |-> b0, created |-> now]}
         /\ created[b0] <= lapses[b0]
         /\ created' = [created EXCEPT ![b0] = @ + 1]
  <2>1. Named(b0) => created[b0] > 0
    BY DEF Named, BootsHappened
  <2> QED
    BY <1>4, <1>5, <2>1 DEF createCheckNodeHealth, GenerateCNHName, Gone, Named, Types
<1>7. /\ created' \in [1..MaxBoots -> Nat] /\ created'[b0] > 0
      /\ cnhs' \subseteq cnhs \cup {[name |-> b0, created |-> now]} /\ cnhs \subseteq cnhs'
      /\ created'[b0] <= 1 + lapses[b0]
      /\ \A b \in 1..MaxBoots : b # b0 => created'[b] = created[b]
      /\ \A b \in 1..MaxBoots : created[b] > 0 => created'[b] > 0
  <2>1. /\ created \in [1..MaxBoots -> Nat] /\ created[b0] \in Nat
        /\ lapses[b0] \in Nat /\ created[b0] <= 1 + lapses[b0]
        /\ b0 \in 1..MaxBoots
    BY <1>4 DEF Types, OneCheckUnlessLapsed
  <2> HIDE DEF b0
  <2>2. CASE Named(b0) /\ UNCHANGED <<cnhs, created>> /\ created[b0] > 0
    BY <2>1, <2>2
  <2>3. CASE /\ ~ Named(b0) /\ cnhs' = cnhs \cup {[name |-> b0, created |-> now]}
             /\ created[b0] <= lapses[b0]
             /\ created' = [created EXCEPT ![b0] = @ + 1]
    BY <2>1, <2>3
  <2> QED
    BY <1>6, <2>2, <2>3
<1>n. \E cnh \in cnhs' : cnh.name = b0
  <2>1. CASE Named(b0) /\ UNCHANGED cnhs
    BY <2>1 DEF Named
  <2>2. CASE cnhs' = cnhs \cup {[name |-> b0, created |-> now]}
    <3> HIDE DEF b0
    <3> DEFINE new == [name |-> b0, created |-> now]
    <3>1. new \in cnhs' /\ new.name = b0
      BY <2>2
    <3> QED
      BY <3>1
  <2> QED
    BY <1>6, <2>1, <2>2
<1>m. MaxBoots \in Nat /\ boots \in Nat /\ boots <= MaxBoots
  BY NodeRebootAssumption DEF Types
<1> HIDE DEF b0
<1>8. Types'
  BY <1>1, <1>2, <1>4, <1>7, NoNodeType DEF Types, Copies, Idle
<1>9. BootsHappened'
  <2>1. \A n \in Copies' : n.boot <= boots' /\ n.annotation <= boots'
    BY <1>1, <1>3, <1>m, NoNodeType DEF BootsHappened, Copies
  <2>2. \A b \in 1..MaxBoots : created'[b] > 0 => b <= boots'
    BY <1>1, <1>4, <1>7 DEF BootsHappened
  <2>3. \A cnh \in cnhs' : created'[cnh.name] > 0
    BY <1>7 DEF BootsHappened, Types
  <2> QED
    BY <2>1, <2>2, <2>3 DEF BootsHappened
<1>10. Decided'
  BY <1>1, <1>3 DEF Decided
<1>11. AllSeen'
  <2>1. ASSUME NEW n \in Copies', n.annotation # 0
        PROVE  created'[n.annotation] > 0 \/ \E e \in existing' : e.boot = n.annotation
    <3>1. n \in Copies
      BY <1>1, <1>3, <2>1, NoNodeType DEF Copies
    <3>2. n \in Node /\ n.annotation <= boots
      BY <3>1 DEF Copies, Types, BootsHappened
    <3>3. n.annotation \in 1..MaxBoots
      BY <1>m, <2>1, <3>2 DEF Node
    <3> QED
      BY <1>1, <1>7, <2>1, <3>1, <3>3 DEF AllSeen, Seen
  <2>2. wk'.pc = "annotate" => created'[wk'.node.boot] > 0
    BY <1>3, <1>7 DEF b0
  <2> QED
    BY <2>1, <2>2 DEF AllSeen, Seen
<1>12. GoneMeansHandled'
  <2> SUFFICES ASSUME NEW b \in 1..MaxBoots, Gone(b)'
               PROVE  /\ \A n \in Copies' : n.boot = b => n.annotation = b
                      /\ node'.boot = b => cache'.boot = b /\ (wk'.pc # "idle" => wk'.node.boot = b)
    BY DEF GoneMeansHandled, Handled, Copies
  <2>1. Gone(b)
    BY <1>1, <1>7, <1>n DEF Gone, Named
  <2> QED
    BY <1>1, <1>3, <2>1, NoNodeType DEF GoneMeansHandled, Handled, Copies
<1>13. OneCheckUnlessLapsed'
  BY <1>1, <1>7 DEF OneCheckUnlessLapsed, Types
<1> QED
  BY <1>8, <1>9, <1>10, <1>11, <1>12, <1>13

LEMMA AnnotateIInv == IInv /\ updateBootIDAnnotation => IInv'
<1> SUFFICES ASSUME IInv, updateBootIDAnnotation PROVE IInv'
  OBVIOUS
<1> USE DEF IInv
<1>1. /\ UNCHANGED <<now, cnhs, cache, writer, nodes, boots, coreDNS, existing, created, lapses>>
      /\ wk.pc = "annotate" /\ wk' = Idle
  BY DEF updateBootIDAnnotation, envVars, history, Requeue
<1>2. \/ UNCHANGED node
      \/ node.exists /\ node' = [node EXCEPT !.annotation = wk.node.boot]
  BY DEF updateBootIDAnnotation
<1>3. /\ node' \in Node /\ node'.boot = node.boot /\ node'.exists = node.exists
      /\ node'.uid = node.uid
      /\ ~ node'.exists => node' = NoNode
      /\ node'.annotation \in {node.annotation, wk.node.boot}
  BY <1>2 DEF Types, Copies, Node
<1>4. wk'.node = NoNode /\ wk'.pc = "idle"
  BY <1>1 DEF Idle
<1>5. Types'
  BY <1>1, <1>3, NoNodeType DEF Types, Copies, Idle
<1>6. BootsHappened' /\ Decided' /\ AllSeen' /\ OneCheckUnlessLapsed'
  BY <1>1, <1>3, <1>4, NoNodeType
     DEF BootsHappened, Decided, AllSeen, OneCheckUnlessLapsed, Seen, Copies, Types
<1>7. GoneMeansHandled'
  <2> SUFFICES ASSUME NEW b \in 1..MaxBoots, Gone(b)
               PROVE  /\ node'.boot = b => node'.annotation = b /\ cache.boot = b
                      /\ cache.boot = b => cache.annotation = b
    BY <1>1, <1>4, NoNodeType DEF GoneMeansHandled, Handled, Gone, Named, Copies
  <2> QED
    BY <1>1, <1>3 DEF GoneMeansHandled, Handled, Copies
<1> QED
  BY <1>5, <1>6, <1>7

\* A step that leaves the boots, the checks and the worker alone, and changes
\* of the node at most what is beside the bootID and the annotation.
LEMMA BesideIInv ==
    ASSUME IInv, Types', UNCHANGED <<cnhs, nodes, boots, created, lapses, cache>>,
           existing' = existing, node'.boot = node.boot, node'.annotation = node.annotation,
           wk' \in {wk, Idle}
    PROVE  IInv'
<1> USE DEF IInv
<1>1. /\ wk'.node \in {wk.node, NoNode} /\ wk'.pc \in {wk.pc, "idle"}
      /\ wk'.pc # "idle" => wk' = wk
      /\ wk'.pc = "idle" => wk'.node = NoNode
  BY DEF Idle, Decided
<1>2. BootsHappened'
  BY <1>1, NoNodeType DEF BootsHappened, Copies, Types
<1>3. Decided' /\ AllSeen' /\ OneCheckUnlessLapsed'
  BY <1>1, NoNodeType DEF Decided, AllSeen, OneCheckUnlessLapsed, Seen, Copies
<1>4. GoneMeansHandled'
  BY <1>1, NoNodeType DEF GoneMeansHandled, Handled, Gone, Named, Copies
<1> QED
  BY <1>2, <1>3, <1>4

LEMMA ProcessIInv ==
    ASSUME IInv,
           \/ CallFails \/ VerdictPatches \/ Resync \/ TimerFires \/ Tick
           \/ \E status \in {"True", "False"} : VerdictReads(status)
    PROVE  IInv'
<1> USE DEF IInv
<1>1. CASE CallFails
  <2>1. Types'
    BY <1>1, NoNodeType DEF CallFails, Requeue, Types, Copies, Idle, envVars, history
  <2> QED
    BY <1>1, <2>1, BesideIInv DEF CallFails, Requeue, envVars, history
<1>2. CASE VerdictPatches
  <2>1. /\ UNCHANGED <<now, cnhs, cache, wk, nodes, boots, coreDNS, existing, created, lapses>>
        /\ writer' = Quiet /\ writer.pc = "patch"
        /\ \/ UNCHANGED node
           \/ /\ node.exists
              /\ \E since \in {writer.copy.since, now} :
                    node' = ConditionsPatched(writer.copy, writer.status, since)
    BY <1>2 DEF VerdictPatches, envVars, history
  <2>2. /\ writer.copy.ready \in BOOLEAN /\ writer.copy.readySince \in Nat
        /\ writer.copy.since \in Nat /\ now \in Nat /\ node \in Node
        /\ writer.status \in {"none", "True", "False"}
    BY DEF Types
  <2>3. /\ node' \in Node /\ node'.boot = node.boot /\ node'.annotation = node.annotation
        /\ node'.exists = node.exists /\ (~ node'.exists => node' = NoNode) /\ node'.uid = node.uid
    BY <2>1, <2>2, PatchedType DEF Types, Copies
  <2>4. Types'
    BY <2>1, <2>3 DEF Types, Copies, Quiet, Conditions, NoNode
  <2> QED
    BY <2>1, <2>3, <2>4, BesideIInv
<1>3. CASE Resync \/ TimerFires
  <2>1. UNCHANGED <<now, node, cnhs, cache, wk, writer, nodes, boots, coreDNS, existing, created, lapses>>
    BY <1>3 DEF Resync, TimerFires, envVars, history
  <2>2. Types'
    BY <2>1 DEF Types, Copies
  <2> QED
    BY <2>1, <2>2, BesideIInv
<1>4. CASE Tick
  <2>1. /\ UNCHANGED <<node, cnhs, cache, wk, writer, nodes, boots, coreDNS, existing, created, lapses>>
        /\ now' = now + 1
    BY <1>4 DEF Tick, envVars, history
  <2>2. Types'
    BY <2>1 DEF Types, Copies
  <2> QED
    BY <2>1, <2>2, BesideIInv
<1>5. CASE \E status \in {"True", "False"} : VerdictReads(status)
  <2>1. PICK status \in {"True", "False"} : VerdictReads(status)
    BY <1>5
  <2>2. /\ UNCHANGED <<now, node, cnhs, cache, wk, nodes, boots, coreDNS, existing, created, lapses>>
        /\ writer' = [pc |-> "patch", copy |-> Conditions(node), status |-> status]
    BY <2>1 DEF VerdictReads, history
  <2>3. Conditions(node) \in [ready : BOOLEAN, readySince : Nat,
                              status : {"none", "True", "False"}, since : Nat]
    BY DEF Types, Node, Conditions
  <2>4. Types'
    BY <2>2, <2>3 DEF Types, Copies
  <2> QED
    BY <2>2, <2>4, BesideIInv
<1> QED
  BY <1>1, <1>2, <1>3, <1>4, <1>5

\* The cache catches up, and a new process lists the nodes.
LEMMA CacheIInv == IInv /\ (WatchNode \/ Crash) => IInv'
<1> SUFFICES ASSUME IInv, WatchNode \/ Crash PROVE IInv'
  OBVIOUS
<1> USE DEF IInv
<1>1. /\ UNCHANGED <<now, node, cnhs, nodes, boots, coreDNS, existing, created, lapses>>
      /\ cache' = node /\ wk' \in {wk, Idle} /\ writer' \in {writer, Quiet}
  BY DEF WatchNode, Crash, envVars, history
<1>2. /\ wk'.node \in {wk.node, NoNode} /\ wk'.pc \in {wk.pc, "idle"}
      /\ wk'.pc # "idle" => wk' = wk
      /\ wk'.pc = "idle" => wk'.node = NoNode
  BY <1>1 DEF Idle, Decided
<1>3. Types'
  <2>1. Quiet \in [pc : {"idle", "patch"},
                   copy : [ready : BOOLEAN, readySince : Nat,
                           status : {"none", "True", "False"}, since : Nat],
                   status : {"none", "True", "False"}] /\ Quiet.pc = "idle"
    BY DEF Quiet, Conditions, NoNode
  <2>2. wk' \in [pc : {"idle", "stale", "detect", "create", "annotate"}, node : Node]
    BY <1>1, NoNodeType DEF Types, Idle
  <2> QED
    BY <1>1, <1>2, <2>1, <2>2, NoNodeType DEF Types, Copies
<1>4. BootsHappened' /\ Decided' /\ AllSeen' /\ OneCheckUnlessLapsed'
  BY <1>1, <1>2, NoNodeType DEF BootsHappened, Decided, AllSeen, OneCheckUnlessLapsed, Seen, Copies, Types
<1>5. GoneMeansHandled'
  BY <1>1, <1>2, NoNodeType DEF GoneMeansHandled, Handled, Gone, Named, Copies
<1> QED
  BY <1>3, <1>4, <1>5

LEMMA ClusterIInv ==
    ASSUME IInv, ReadyChanges \/ KarpenterInitializes \/ CoreDNSChanges
    PROVE  IInv'
<1> USE DEF IInv
<1>1. CASE ReadyChanges \/ KarpenterInitializes
  <2>1. UNCHANGED <<now, cnhs, cache, wk, writer, nodes, boots, coreDNS, existing, created, lapses>>
    BY <1>1 DEF ReadyChanges, KarpenterInitializes, envVars, history
  <2>2. /\ node' \in Node /\ node'.boot = node.boot /\ node'.annotation = node.annotation
        /\ node'.exists /\ node.exists /\ node'.uid = node.uid
    <3>1. now \in Nat /\ node \in Node /\ (~ node.exists => node = NoNode)
      BY DEF Types, Copies
    <3>2. CASE ReadyChanges
      BY <3>1, <3>2 DEF ReadyChanges, Node
    <3>3. CASE KarpenterInitializes
      BY <3>1, <3>3 DEF KarpenterInitializes, Node, Pool, NoNode
    <3> QED
      BY <1>1, <3>2, <3>3
  <2>3. Types'
    BY <2>1, <2>2 DEF Types, Copies
  <2> QED
    BY <2>1, <2>2, <2>3, BesideIInv
<1>2. CASE CoreDNSChanges
  <2>1. UNCHANGED <<now, node, cnhs, cache, wk, writer, nodes, boots, existing, created, lapses>>
    BY <1>2 DEF CoreDNSChanges, history
  <2>2. Types'
    BY <1>2, <2>1 DEF Types, Copies, CoreDNSChanges
  <2> QED
    BY <2>1, <2>2, BesideIInv
<1> QED
  BY <1>1, <1>2

\* A boot is a new one, or has lapsed; a node that is removed or registered has none.
LEMMA NewBootIInv == IInv /\ (Boot \/ NodeRemoved \/ NodeRegisters) => IInv'
<1> SUFFICES ASSUME IInv, Boot \/ NodeRemoved \/ NodeRegisters PROVE IInv'
  OBVIOUS
<1> USE DEF IInv
<1>1. UNCHANGED <<now, cnhs, cache, wk, writer, coreDNS, existing, created>>
  BY DEF Boot, NodeRemoved, NodeRegisters, envVars, history
<1>2. /\ MaxBoots \in Nat /\ boots \in Nat /\ boots <= MaxBoots
      /\ node \in Node /\ now \in Nat /\ nodes \in Nat
  BY NodeRebootAssumption DEF Types
<1>t. lapses \in [1..MaxBoots -> Nat] /\ \A b \in 1..MaxBoots : lapses[b] \in Nat /\ created[b] \in Nat
  BY DEF Types
<1>3. /\ node' \in Node /\ (IF node'.exists THEN node'.uid \in 1..nodes' ELSE node' = NoNode)
      /\ nodes' \in Nat /\ nodes <= nodes'
      /\ boots' \in Nat /\ boots <= boots' /\ boots' <= MaxBoots
      /\ node'.boot <= boots'
      /\ node'.annotation \in {node.annotation, 0}
      /\ \/ node'.boot \in {0, boots + 1} /\ UNCHANGED lapses
         \/ /\ node'.boot = boots /\ boots \in 1..MaxBoots
            /\ lapses' = [lapses EXCEPT ![boots] = @ + 1]
  <2>1. CASE Boot
    <3>1. node.exists /\ node.uid \in 1..nodes
      BY <2>1 DEF Boot, Types, Copies
    <3>2. boots' \in Nat
      BY <1>2, <2>1 DEF Boot
    <3>3. /\ node' \in Node /\ node'.exists = node.exists /\ node'.uid = node.uid
          /\ node'.annotation = node.annotation /\ node'.boot = boots'
      BY <1>2, <2>1, <3>2 DEF Boot, Node
    <3>4. \/ boots' = boots + 1 /\ boots' <= MaxBoots /\ UNCHANGED <<nodes, lapses>>
          \/ /\ boots' = boots /\ boots \in 1..MaxBoots /\ UNCHANGED nodes
             /\ lapses' = [lapses EXCEPT ![boots] = @ + 1]
      BY <1>2, <2>1 DEF Boot
    <3> QED
      BY <1>2, <3>1, <3>2, <3>3, <3>4
  <2>2. CASE NodeRemoved
    BY <1>2, <2>2, NoNodeType DEF NodeRemoved, envVars, history
  <2>3. CASE NodeRegisters
    <3>1. nodes' = nodes + 1 /\ UNCHANGED <<boots, lapses>>
      BY <2>3 DEF NodeRegisters
    <3>2. nodes' \in Nat /\ nodes' \in 1..nodes'
      BY <1>2, <3>1
    <3>3. /\ node' \in Node /\ node'.exists /\ node'.uid = nodes'
          /\ node'.boot = 0 /\ node'.annotation = 0
      BY <1>2, <2>3, <3>2, NewNodeType DEF NodeRegisters
    <3> QED
      BY <1>2, <3>1, <3>2, <3>3
  <2> QED
    BY <2>1, <2>2, <2>3
<1>l. /\ lapses' \in [1..MaxBoots -> Nat]
      /\ \A b \in 1..MaxBoots : lapses[b] <= lapses'[b]
      /\ node'.boot \in {0, boots + 1} \/ lapses'[node'.boot] = 1 + lapses[node'.boot]
  <2>1. CASE node'.boot \in {0, boots + 1} /\ UNCHANGED lapses
    BY <1>t, <2>1
  <2>2. CASE /\ node'.boot = boots /\ boots \in 1..MaxBoots
             /\ lapses' = [lapses EXCEPT ![boots] = @ + 1]
    <3>1. lapses[boots] \in Nat /\ lapses'[boots] = lapses[boots] + 1
      BY <1>t, <2>2
    <3>2. \A b \in 1..MaxBoots : b # boots => lapses'[b] = lapses[b]
      BY <1>t, <2>2
    <3>3. lapses' \in [1..MaxBoots -> Nat]
      BY <1>t, <2>2, <3>1
    <3> QED
      BY <1>t, <2>2, <3>1, <3>2, <3>3
  <2> QED
    BY <1>3, <2>1, <2>2
<1>4. Types'
  <2>1. \A n \in {cache, wk.node} : IF n.exists THEN n.uid \in 1..nodes' ELSE n = NoNode
    BY <1>2, <1>3 DEF Types, Copies
  <2> QED
    BY <1>1, <1>2, <1>3, <1>l, <2>1 DEF Types, Copies
<1>5. BootsHappened'
  <2>1. \A n \in {cache, wk.node, node} : n \in Node /\ n.boot <= boots /\ n.annotation <= boots
    BY DEF BootsHappened, Copies, Types
  <2>2. \A n \in {cache, wk.node} : n.boot <= boots' /\ n.annotation <= boots'
    BY <1>2, <1>3, <2>1 DEF Node
  <2>3. node'.boot <= boots' /\ node'.annotation <= boots'
    BY <1>2, <1>3, <2>1 DEF Node
  <2>4. \A b \in 1..MaxBoots : created[b] > 0 => b <= boots'
    BY <1>2, <1>3 DEF BootsHappened
  <2> QED
    BY <1>1, <2>2, <2>3, <2>4 DEF BootsHappened, Copies
<1>6. Decided' /\ AllSeen'
  BY <1>1, <1>3 DEF Decided, AllSeen, Seen, Copies
<1>o. OneCheckUnlessLapsed'
  <2> SUFFICES ASSUME NEW b \in 1..MaxBoots PROVE created[b] <= 1 + lapses'[b]
    BY <1>1 DEF OneCheckUnlessLapsed
  <2>1. created[b] <= 1 + lapses[b] /\ lapses[b] <= lapses'[b] /\ lapses'[b] \in Nat
    BY <1>l DEF OneCheckUnlessLapsed
  <2> QED
    BY <1>t, <2>1
<1>7. GoneMeansHandled'
  <2> SUFFICES ASSUME NEW b \in 1..MaxBoots, Gone(b)'
               PROVE  /\ node'.boot # b
                      /\ \A n \in {cache, wk.node} : n.boot = b => n.annotation = b
    BY <1>1, <1>3 DEF GoneMeansHandled, Handled, Gone, Named, Copies
  <2>1. created[b] > lapses'[b] /\ ~ Named(b)
    BY <1>1 DEF Gone, Named
  <2>2. /\ created[b] \in Nat /\ lapses[b] \in Nat /\ lapses'[b] \in Nat
        /\ lapses[b] <= lapses'[b] /\ created[b] <= 1 + lapses[b]
    BY <1>t, <1>l DEF OneCheckUnlessLapsed
  <2>3. Gone(b) /\ created[b] > 0
    BY <2>1, <2>2 DEF Gone
  <2>4. b <= boots
    BY <2>3 DEF BootsHappened
  <2>5. node'.boot # b
    BY <1>2, <1>l, <2>1, <2>2, <2>4
  <2> QED
    BY <2>3, <2>5 DEF GoneMeansHandled, Handled, Copies
<1> QED
  BY <1>4, <1>5, <1>6, <1>o, <1>7

\* What goes too early has lapsed.
LEMMA ExpiryIInv ==
    ASSUME IInv, NEW cnh \in cnhs, CNHExpires(cnh)
    PROVE  IInv'
<1> USE DEF IInv
<1>t. /\ lapses \in [1..MaxBoots -> Nat] /\ cnh.name \in 1..MaxBoots
      /\ \A b \in 1..MaxBoots : lapses[b] \in Nat /\ created[b] \in Nat
  BY DEF Types
<1>1. /\ UNCHANGED <<now, node, cache, wk, writer, nodes, boots, coreDNS, existing, created>>
      /\ cnhs' = cnhs \ {cnh}
  BY DEF CNHExpires, envVars
<1>2. /\ lapses' \in [1..MaxBoots -> Nat]
      /\ \A b \in 1..MaxBoots : lapses[b] <= lapses'[b]
      /\ lapses'[cnh.name] = 1 + lapses[cnh.name] \/ Handled(cnh.name)
  BY <1>t DEF CNHExpires
<1>3. Types' /\ BootsHappened' /\ Decided' /\ AllSeen'
  BY <1>1, <1>2 DEF Types, BootsHappened, Decided, AllSeen, Seen, Copies
<1>4. \A b \in 1..MaxBoots :
        /\ created[b] \in Nat /\ lapses[b] \in Nat /\ lapses'[b] \in Nat
        /\ lapses[b] <= lapses'[b] /\ created[b] <= 1 + lapses[b]
  BY <1>t, <1>2 DEF OneCheckUnlessLapsed
<1>5. OneCheckUnlessLapsed'
  <2> SUFFICES ASSUME NEW b \in 1..MaxBoots PROVE created[b] <= 1 + lapses'[b]
    BY <1>1 DEF OneCheckUnlessLapsed
  <2> QED
    BY <1>4
<1>6. GoneMeansHandled'
  <2> SUFFICES ASSUME NEW b \in 1..MaxBoots, created[b] > lapses'[b], ~ Named(b)'
               PROVE  Handled(b)
    BY <1>1 DEF GoneMeansHandled, Handled, Gone
  <2>1. created[b] > lapses[b]
    BY <1>4
  <2>2. CASE Named(b)
    <3>1. b = cnh.name
      BY <1>1, <2>2 DEF Named
    <3> QED
      BY <1>2, <1>4, <3>1
  <2>3. CASE ~ Named(b)
    BY <2>1, <2>3 DEF GoneMeansHandled, Gone
  <2> QED
    BY <2>2, <2>3
<1> QED
  BY <1>3, <1>5, <1>6

LEMMA NextIInv == IInv /\ [Next]_vars => IInv'
<1> SUFFICES ASSUME IInv, [Next]_vars PROVE IInv'
  OBVIOUS
<1>1. CASE Worker
  BY <1>1, ReconcileIInv, RemoveStaleIInv, DetectIInv, CreateIInv, AnnotateIInv DEF Worker
<1>2. CASE \/ CallFails \/ VerdictPatches \/ Resync \/ TimerFires \/ Tick
           \/ \E status \in {"True", "False"} : VerdictReads(status)
  BY <1>2, ProcessIInv
<1>3. CASE WatchNode \/ Crash
  BY <1>3, CacheIInv
<1>4. CASE ReadyChanges \/ KarpenterInitializes \/ CoreDNSChanges
  BY <1>4, ClusterIInv
<1>5. CASE Boot \/ NodeRemoved \/ NodeRegisters
  BY <1>5, NewBootIInv
<1>6. CASE \E cnh \in cnhs : CNHExpires(cnh)
  BY <1>6, ExpiryIInv
<1>7. CASE UNCHANGED vars
  <2>1. UNCHANGED <<now, node, cnhs, cache, wk, writer, nodes, boots, coreDNS, existing, created, lapses>>
    BY <1>7 DEF vars, envVars, history
  <2>2. Types'
    BY <2>1 DEF IInv, Types, Copies
  <2> QED
    BY <2>1, <2>2, BesideIInv
<1> QED
  BY <1>1, <1>2, <1>3, <1>4, <1>5, <1>6, <1>7 DEF Next

THEOREM Invariant == Spec => []IInv
<1>1. Init => IInv
  BY InitIInv
<1>2. IInv /\ [Next]_vars => IInv'
  BY NextIInv
<1> QED
  BY <1>1, <1>2, PTL DEF Spec

-----------------------------------------------------------------------------

\* The copies are nodes, and what is not there is NoNode, whatever patches of
\* stale copies do to the node (removeStaleNodeCondition, updateNodeCondition,
\* updateBootIDAnnotation).
THEOREM NodeTypesCorrect == Spec => []TypeOK
<1>1. IInv => TypeOK
  <2> SUFFICES ASSUME IInv PROVE TypeOK
    OBVIOUS
  <2>1. wk.node \in Node /\ wk.pc \in {"idle", "stale", "detect", "create", "annotate"}
    BY DEF IInv, Types
  <2> QED
    BY <2>1 DEF IInv, Types, TypeOK, Copies
<1> QED
  BY <1>1, Invariant, PTL

\* A boot is checked once (GenerateCNHName, createCheckNodeHealth), and once more for
\* each time its CR went while some copy still called for the check, or the node came
\* back in the same boot: for any number of boots, nodes, faults and lagging caches,
\* and whatever the age at which CRs are deleted.
THEOREM BootsAreCheckedOnceUnlessLapsed == Spec => []OneCheckUnlessLapsed
<1>1. IInv => OneCheckUnlessLapsed
  BY DEF IInv
<1> QED
  BY <1>1, Invariant, PTL

-----------------------------------------------------------------------------
(* No boot is forgotten: what the cache shows has been seen to, or will be *)

\* What the controller asks of a copy, but for the conditions.
Alike(n) == /\ n.uid = cache.uid /\ n.boot = cache.boot /\ n.annotation = cache.annotation
            /\ n.pool = cache.pool /\ n.created = cache.created

Initializing(old, new) == old = "uninitialized" /\ new = "initialized"

\* The cache shows an earlier state of the node, as long as it is the same node.
PoolGoesOn ==
    cache.uid # 0 /\ node.uid = cache.uid =>
        /\ node.created = cache.created
        /\ node.pool = cache.pool \/ Initializing(cache.pool, node.pool)
        /\ cache.boot # 0 => node.boot # 0

\* While nothing is queued, the worker works on what the cache shows, and when it is
\* done the boot is annotated or given up: unless the node has changed since in what
\* matters, in a way that does not change back.
Followed ==
    ~ queued /\ cache.boot # 0 =>
        /\ wk.pc # "idle" =>
              /\ wk.node.ready = cache.ready /\ wk.node.readySince = cache.readySince
              /\ Alike(node) => Alike(wk.node)
        /\ wk.pc = "idle" /\ ~ timer /\ Alike(node) =>
              cache.annotation = cache.boot \/ notReadyExceeds(cache)

\* What one step can do to the node.
SameNode == /\ node'.uid = node.uid /\ node'.created = node.created
            /\ node'.pool = node.pool \/ Initializing(node.pool, node'.pool)
            /\ node'.boot \in {node.boot, boots + 1} \/ node.boot = 0
            /\ node.boot # 0 => node'.boot # 0
OtherNode == node' = NoNode \/ node'.uid = nodes + 1

LEMMA PatchedFields ==
    ASSUME node \in Node, NEW copy, NEW status, NEW since
    PROVE  LET n == ConditionsPatched(copy, status, since) IN
           /\ n.uid = node.uid
           /\ n.boot = node.boot /\ n.created = node.created /\ n.pool = node.pool
           /\ n.annotation = node.annotation
           /\ n.ready = copy.ready /\ n.readySince = copy.readySince
BY DEF ConditionsPatched, Node

LEMMA NodeStep ==
    ASSUME IInv, [Next]_vars
    PROVE  \/ SameNode /\ (node'.annotation = node.annotation \/ updateBootIDAnnotation)
           \/ OtherNode
<1>1. node \in Node /\ boots \in Nat /\ nodes \in Nat /\ now \in Nat
  BY NodeRebootAssumption DEF IInv, Types
<1>2. CASE UNCHANGED node
  BY <1>2 DEF SameNode
<1>3. CASE removeStaleNodeCondition \/ VerdictPatches
  <2>1. UNCHANGED node \/ \E copy, status, since : node' = ConditionsPatched(copy, status, since)
    BY <1>3 DEF removeStaleNodeCondition, VerdictPatches
  <2> QED BY <1>1, <2>1, <1>2, PatchedFields DEF SameNode
<1>4. CASE updateBootIDAnnotation
  <2>1. UNCHANGED node \/ node' = [node EXCEPT !.annotation = wk.node.boot]
    BY <1>4 DEF updateBootIDAnnotation
  <2> QED BY <1>1, <1>2, <1>4, <2>1 DEF SameNode, Node
<1>5. CASE ReadyChanges \/ KarpenterInitializes
  BY <1>1, <1>5 DEF ReadyChanges, KarpenterInitializes, SameNode, Initializing, Node
<1>6. CASE Boot
  <2>1. node' = [node EXCEPT !.boot = boots'] /\ boots' # 0
        /\ (boots' = boots + 1 \/ node.boot = 0)
    BY <1>1, <1>6 DEF Boot
  <2>2. /\ node'.uid = node.uid /\ node'.created = node.created /\ node'.pool = node.pool
        /\ node'.annotation = node.annotation /\ node'.boot = boots'
    BY <1>1, <2>1 DEF Node
  <2> QED BY <2>1, <2>2 DEF SameNode
<1>7. CASE NodeRemoved \/ NodeRegisters
  BY <1>1, <1>7, NewNodeType DEF NodeRemoved, NodeRegisters, OtherNode
<1>8. CASE \/ Reconcile \/ Detect \/ createCheckNodeHealth \/ CallFails
           \/ (\E status \in {"True", "False"} : VerdictReads(status))
           \/ WatchNode \/ Resync \/ TimerFires \/ Crash \/ Tick \/ CoreDNSChanges
           \/ (\E cnh \in cnhs : CNHExpires(cnh)) \/ UNCHANGED vars
  <2>1. UNCHANGED node
    BY <1>8 DEF Reconcile, Detect, createCheckNodeHealth, CallFails, VerdictReads, WatchNode,
       Resync, TimerFires, Crash, Tick, CoreDNSChanges, CNHExpires, vars
  <2> QED BY <1>2, <2>1
<1> QED BY <1>3, <1>4, <1>5, <1>6, <1>7, <1>8 DEF Next, Worker

LEMMA CacheSteps ==
    ASSUME [Next]_vars
    PROVE  \/ cache' = cache
           \/ cache' = node /\ node' = node /\ (WatchNode \/ Crash)
<1>1. CASE WatchNode \/ Crash
  BY <1>1 DEF WatchNode, Crash
<1>2. CASE \/ Worker \/ CallFails \/ VerdictPatches \/ UNCHANGED vars
           \/ (\E status \in {"True", "False"} : VerdictReads(status))
  BY <1>2 DEF Worker, Reconcile, removeStaleNodeCondition, Detect, createCheckNodeHealth,
     updateBootIDAnnotation, CallFails, VerdictReads, VerdictPatches, vars
<1>3. CASE \/ Resync \/ TimerFires \/ Tick \/ ReadyChanges \/ Boot \/ KarpenterInitializes
           \/ NodeRemoved \/ NodeRegisters \/ CoreDNSChanges
           \/ (\E cnh \in cnhs : CNHExpires(cnh))
  BY <1>3 DEF Resync, TimerFires, Tick, ReadyChanges, Boot, KarpenterInitializes, NodeRemoved,
     NodeRegisters, CoreDNSChanges, CNHExpires
<1> QED BY <1>1, <1>2, <1>3 DEF Next

\* No node has the uid of one to come.
LEMMA KnownUids ==
    ASSUME IInv
    PROVE  /\ nodes \in Nat /\ boots \in Nat
           /\ cache.uid \in Nat /\ cache.uid <= nodes /\ cache.boot \in Nat /\ cache.boot <= boots
           /\ cache.boot # 0 => cache.uid # 0
<1>1. /\ nodes \in Nat /\ boots \in Nat /\ cache \in Node /\ cache.boot <= boots
      /\ IF cache.exists THEN cache.uid \in 1..nodes ELSE cache = NoNode
  BY NodeRebootAssumption DEF IInv, Types, BootsHappened, Copies
<1>2. cache.boot \in Nat /\ cache.uid \in Nat
  BY <1>1 DEF Node
<1> QED BY <1>1, <1>2, NoNodeType

LEMMA PoolStep == ASSUME IInv, PoolGoesOn, [Next]_vars PROVE PoolGoesOn'
<1>1. CASE cache' = node /\ node' = node
  BY <1>1 DEF PoolGoesOn
<1>2. CASE cache' = cache
  <2> SUFFICES ASSUME cache.uid # 0, node'.uid = cache.uid
               PROVE  /\ node'.created = cache.created
                      /\ node'.pool = cache.pool \/ Initializing(cache.pool, node'.pool)
                      /\ cache.boot # 0 => node'.boot # 0
    BY <1>2 DEF PoolGoesOn
  <2>1. SameNode
    BY NodeStep, KnownUids, NoNodeType DEF OtherNode
  <2> QED BY <2>1 DEF SameNode, PoolGoesOn, Initializing
<1> QED BY <1>1, <1>2, CacheSteps

\* A node that has changed in what matters does not change back, but by the worker.
LEMMA NeverBack ==
    ASSUME IInv, PoolGoesOn, [Next]_vars, cache' = cache, cache.boot # 0,
           ~ updateBootIDAnnotation, Alike(node)'
    PROVE  Alike(node)
<1>1. cache.uid # 0 /\ node'.uid = cache.uid
      /\ node'.boot = cache.boot /\ node'.annotation = cache.annotation
      /\ node'.pool = cache.pool /\ node'.created = cache.created
  BY KnownUids DEF Alike
<1>2. SameNode /\ node'.annotation = node.annotation
  BY <1>1, NodeStep, KnownUids, NoNodeType DEF OtherNode
<1>3. node.uid = cache.uid /\ node.annotation = cache.annotation /\ node.created = cache.created
  BY <1>1, <1>2 DEF SameNode
<1>4. node.boot = cache.boot
  BY <1>1, <1>2, <1>3, KnownUids DEF SameNode, PoolGoesOn
<1>5. node.pool = cache.pool
  BY <1>1, <1>2, <1>3 DEF SameNode, PoolGoesOn, Initializing
<1> QED BY <1>3, <1>4, <1>5 DEF Alike

\* Waiting only makes the time longer.
LEMMA ExceedsKept ==
    ASSUME NEW n \in Node, now \in Nat, now' \in Nat, now <= now', notReadyExceeds(n)
    PROVE  notReadyExceeds(n)'
BY NodeRebootAssumption
   DEF notReadyExceeds, isKarpenterManaged, isKarpenterInitialized, Node, Pool

\* Whoever is not told and does not work stays where it is.
LEMMA UnaskedFollows ==
    ASSUME IInv, PoolGoesOn, Followed, [Next]_vars, ~ updateBootIDAnnotation,
           UNCHANGED <<cache, queued, timer, wk>>, now' \in Nat, now <= now'
    PROVE  Followed'
<1>1. cache \in Node /\ now \in Nat
  BY DEF IInv, Types
<1> SUFFICES ASSUME ~ queued, cache.boot # 0, Alike(node)'
             PROVE  /\ wk.pc # "idle" => Alike(wk.node)
                    /\ wk.pc = "idle" /\ ~ timer =>
                          cache.annotation = cache.boot \/ notReadyExceeds(cache)'
  BY DEF Followed, Alike, notReadyExceeds, isKarpenterManaged, isKarpenterInitialized
<1>2. Alike(node)
  BY NeverBack
<1> QED BY <1>1, <1>2, ExceedsKept DEF Followed

LEMMA ReconcileFollows == ASSUME IInv, Followed, Reconcile PROVE Followed'
<1>1. /\ UNCHANGED <<node, cache>>
      /\ wk' = IF cache.exists THEN [pc |-> "stale", node |-> cache] ELSE Idle
  BY DEF Reconcile
<1>2. CASE cache.exists
  <2>1. wk'.pc = "stale" /\ wk'.node = cache
    BY <1>1, <1>2
  <2> QED BY <1>1, <2>1 DEF Followed, Alike
<1>3. CASE ~ cache.exists
  BY <1>1, <1>3, NoNodeType DEF Followed, IInv, Types, Copies
<1> QED BY <1>2, <1>3

LEMMA RemoveStaleFollows == ASSUME IInv, Followed, removeStaleNodeCondition PROVE Followed'
<1>1. wk.pc = "stale" /\ UNCHANGED <<cache, timer>> /\ node \in Node
  BY DEF removeStaleNodeCondition, IInv, Types
<1>2. CASE Requeue
  BY <1>2 DEF Requeue, Followed
<1>3. CASE UNCHANGED <<node, queued>> /\ wk' = [wk EXCEPT !.pc = "detect"]
  <2>1. wk'.pc = "detect" /\ wk'.node = wk.node
    BY <1>3 DEF IInv, Types
  <2> QED BY <1>1, <1>3, <2>1 DEF Followed, Alike
<1>4. CASE /\ node' = ConditionsPatched(wk.node, "none", 0) /\ UNCHANGED queued
           /\ wk' = [pc |-> "detect", node |-> node']
  <2>1. wk'.pc = "detect" /\ wk'.node = node'
        /\ node'.ready = wk.node.ready /\ node'.readySince = wk.node.readySince
    BY <1>1, <1>4, PatchedFields
  <2> QED BY <1>1, <1>4, <2>1 DEF Followed, Alike
<1> QED BY <1>2, <1>3, <1>4 DEF removeStaleNodeCondition, Answered

\* Where Detect leaves a boot, it is annotated or given up.
LEMMA DetectFollows == ASSUME IInv, Followed, Detect PROVE Followed'
<1>1. wk.pc = "detect" /\ UNCHANGED <<cache, node, now>> /\ Idle.pc = "idle"
  BY DEF Detect, Idle
<1> SUFFICES ASSUME ~ queued', cache.boot # 0 PROVE Followed'
  BY <1>1 DEF Followed
<1>2. queued' = queued
  BY DEF Detect, Requeue
<1>3. /\ wk.node.ready = cache.ready /\ wk.node.readySince = cache.readySince
      /\ Alike(node) => Alike(wk.node)
  BY <1>1, <1>2 DEF Followed
<1>4. CASE wk' \in {[wk EXCEPT !.pc = "annotate"], [wk EXCEPT !.pc = "create"]}
  <2>1. wk'.pc # "idle" /\ wk'.node = wk.node
    BY <1>4 DEF IInv, Types
  <2> QED BY <1>1, <1>3, <2>1 DEF Followed, Alike
<1>5. CASE wk' = Idle /\ ~ Initialize(wk.node) /\ ~ Check(wk.node)
  <2>1. wk.node.boot = 0 \/ wk.node.annotation = wk.node.boot
    BY <1>5 DEF Initialize, Check
  <2>2. Alike(node) => cache.annotation = cache.boot
    BY <1>3, <2>1 DEF Alike
  <2> QED BY <1>1, <1>5, <2>2 DEF Followed, Alike
<1>6. CASE Deferred(wk.node)
  <2>1. wk' = Idle /\ (~ timer' => notReadyExceeds(wk.node))
    BY <1>6 DEF Deferred
  <2>2. Alike(node) /\ notReadyExceeds(wk.node) => notReadyExceeds(cache)
    BY <1>3 DEF Alike, notReadyExceeds, isKarpenterManaged, isKarpenterInitialized
  <2>3. notReadyExceeds(cache)' = notReadyExceeds(cache)
    BY <1>1 DEF notReadyExceeds, isKarpenterManaged, isKarpenterInitialized
  <2> QED BY <1>1, <2>1, <2>2, <2>3 DEF Followed, Alike
<1> QED BY <1>4, <1>5, <1>6 DEF Detect, Requeue

LEMMA CreateFollows == ASSUME IInv, Followed, createCheckNodeHealth PROVE Followed'
<1>1. wk.pc = "create" /\ UNCHANGED <<cache, node>>
  BY DEF createCheckNodeHealth
<1>2. CASE Requeue
  BY <1>2 DEF Requeue, Followed
<1>3. CASE wk' = [wk EXCEPT !.pc = "annotate"] /\ UNCHANGED queued
  <2>1. wk'.pc = "annotate" /\ wk'.node = wk.node
    BY <1>3 DEF IInv, Types
  <2> QED BY <1>1, <1>3, <2>1 DEF Followed, Alike
<1> QED BY <1>2, <1>3 DEF createCheckNodeHealth, Answered

\* The annotation ends Reconcile with a RequeueAfter.
LEMMA AnnotateFollows == ASSUME Followed, updateBootIDAnnotation PROVE Followed'
<1>1. Requeue \/ (wk' = Idle /\ timer' = TRUE)
  BY DEF updateBootIDAnnotation
<1> QED BY <1>1 DEF Requeue, Followed, Idle

LEMMA FollowedStep ==
    ASSUME IInv, IInv', PoolGoesOn, Followed, [Next]_vars
    PROVE  Followed'
<1>t. now \in Nat /\ now' \in Nat
  BY DEF IInv, Types
<1>1. CASE Worker
  BY <1>1, ReconcileFollows, RemoveStaleFollows, DetectFollows, CreateFollows, AnnotateFollows
     DEF Worker
<1>2. CASE CallFails \/ Resync \/ TimerFires
  BY <1>2 DEF CallFails, Requeue, Resync, TimerFires, Followed
<1>3. CASE WatchNode \/ Crash
  <2>1. queued' \/ ~ cache'.exists
    BY <1>3 DEF WatchNode, Crash, nodeRebootPredicate
  <2>2. ~ cache'.exists => cache'.boot = 0
    BY NoNodeType DEF IInv, Types, Copies
  <2> QED BY <2>1, <2>2 DEF Followed
<1>4. CASE \/ VerdictPatches \/ Tick \/ ReadyChanges \/ Boot \/ KarpenterInitializes
           \/ NodeRemoved \/ NodeRegisters \/ CoreDNSChanges
           \/ (\E status \in {"True", "False"} : VerdictReads(status))
           \/ (\E cnh \in cnhs : CNHExpires(cnh)) \/ UNCHANGED vars
  <2>1. UNCHANGED <<cache, queued, timer, wk>> /\ now' \in {now, now + 1}
    BY <1>4 DEF VerdictPatches, Tick, ReadyChanges, Boot, KarpenterInitializes, NodeRemoved,
       NodeRegisters, CoreDNSChanges, VerdictReads, CNHExpires, vars
  <2>2. CASE updateBootIDAnnotation
    BY <2>2, AnnotateFollows
  <2>3. CASE ~ updateBootIDAnnotation
    BY <1>t, <2>1, <2>3, UnaskedFollows
  <2> QED BY <2>2, <2>3
<1> QED BY <1>1, <1>2, <1>3, <1>4 DEF Next

\* Whatever events are filtered away, calls fail, copies are stale and nodes are
\* replaced: a boot that the controller is told of, and neither asked to look at again
\* nor waiting for, is annotated or was given up for a node that has not been ready
\* for too long.
THEOREM NoBootForgotten == Spec => []NothingForgotten
<1>1. Init => PoolGoesOn /\ Followed
  BY DEF Init, PoolGoesOn, Followed
<1>2. IInv /\ IInv' /\ PoolGoesOn /\ Followed /\ [Next]_vars => PoolGoesOn' /\ Followed'
  BY PoolStep, FollowedStep
<1>3. Followed => NothingForgotten
  BY DEF Followed, NothingForgotten, Alike, Idle
<1> QED BY <1>1, <1>2, <1>3, Invariant, PTL DEF Spec


-----------------------------------------------------------------------------
(* No new node goes without its check *)

\* All copies of a node tell the same of its creation.
OneNode ==
    \A m, n \in Copies \cup {NoNode} : m.uid = n.uid => m.created = n.created

\* A node that was taken for an existing one is no longer new.
ExistingOld ==
    \A e \in existing : /\ e.uid \in 1..nodes
                        /\ \A n \in Copies : n.uid = e.uid => ~ isNew(n)

LEMMA WorkerCopies ==
    ASSUME IInv, [Next]_vars
    PROVE  wk'.node \in {wk.node, cache, node', NoNode}
<1>0. /\ Idle.node = NoNode
      /\ [wk EXCEPT !.pc = "detect"].node = wk.node
      /\ [wk EXCEPT !.pc = "create"].node = wk.node
      /\ [wk EXCEPT !.pc = "annotate"].node = wk.node
  BY DEF IInv, Types, Idle
<1>a. \A w : w \in {Idle, [wk EXCEPT !.pc = "detect"], [wk EXCEPT !.pc = "create"],
                    [wk EXCEPT !.pc = "annotate"]} => w.node \in {wk.node, NoNode}
  BY <1>0, Zenon
<1>1. CASE Reconcile \/ Detect
  <2>1. wk' \in {Idle, [pc |-> "stale", node |-> cache],
                 [wk EXCEPT !.pc = "create"], [wk EXCEPT !.pc = "annotate"]}
    BY <1>1 DEF Reconcile, Detect, Deferred, Requeue
  <2> QED BY <1>0, <2>1, <1>a
<1>2. CASE removeStaleNodeCondition \/ createCheckNodeHealth \/ updateBootIDAnnotation \/ CallFails
  <2>1. wk' \in {Idle, [wk EXCEPT !.pc = "detect"], [pc |-> "detect", node |-> node'],
                 [wk EXCEPT !.pc = "annotate"]}
    BY <1>2 DEF removeStaleNodeCondition, createCheckNodeHealth, updateBootIDAnnotation, CallFails,
       Answered, Requeue
  <2> QED BY <1>0, <2>1, <1>a
<1>3. CASE \/ (\E status \in {"True", "False"} : VerdictReads(status))
           \/ VerdictPatches \/ WatchNode \/ Resync \/ TimerFires \/ Crash \/ UNCHANGED vars
  BY <1>3 DEF VerdictReads, VerdictPatches, WatchNode, Resync, TimerFires, Crash, vars, Idle
<1>4. CASE \/ Tick \/ ReadyChanges \/ Boot \/ KarpenterInitializes
           \/ NodeRemoved \/ NodeRegisters \/ CoreDNSChanges
           \/ (\E cnh \in cnhs : CNHExpires(cnh))
  BY <1>4 DEF Tick, ReadyChanges, Boot, KarpenterInitializes, NodeRemoved, NodeRegisters,
     CoreDNSChanges, CNHExpires
<1> QED BY <1>1, <1>2, <1>3, <1>4 DEF Next, Worker

\* A boot is annotated without a check only while its node is not new.
LEMMA ExistingStep ==
    ASSUME IInv, [Next]_vars
    PROVE  /\ now' >= now /\ nodes' >= nodes
           /\ \/ existing' = existing
              \/ /\ Initialize(wk.node)
                 /\ existing' = existing \cup {[uid |-> wk.node.uid, boot |-> wk.node.boot]}
<1>0. now \in Nat /\ nodes \in Nat
  BY DEF IInv, Types
<1>1. CASE Detect
  BY <1>0, <1>1 DEF Detect, envVars
<1>2. CASE \/ Reconcile \/ removeStaleNodeCondition \/ createCheckNodeHealth
           \/ updateBootIDAnnotation \/ CallFails
           \/ (\E status \in {"True", "False"} : VerdictReads(status))
           \/ VerdictPatches \/ WatchNode \/ Resync \/ TimerFires \/ Crash \/ UNCHANGED vars
  BY <1>0, <1>2 DEF Reconcile, removeStaleNodeCondition, createCheckNodeHealth, updateBootIDAnnotation,
     CallFails, VerdictReads, VerdictPatches, WatchNode, Resync, TimerFires, Crash, vars, envVars,
     history
<1>3. CASE \/ Tick \/ ReadyChanges \/ Boot \/ KarpenterInitializes
           \/ NodeRemoved \/ NodeRegisters \/ CoreDNSChanges
           \/ (\E cnh \in cnhs : CNHExpires(cnh))
  BY <1>0, <1>3 DEF Tick, ReadyChanges, Boot, KarpenterInitializes, NodeRemoved, NodeRegisters,
     CoreDNSChanges, CNHExpires, envVars, history
<1> QED BY <1>1, <1>2, <1>3 DEF Next, Worker

\* What a copy shows of its node was shown before, or is of a node that has just registered.
LEMMA CopiesStep ==
    ASSUME IInv, [Next]_vars, NEW n \in Copies' \cup {NoNode}
    PROVE  \/ \E m \in Copies \cup {NoNode} : m.uid = n.uid /\ m.created = n.created
           \/ n = node' /\ n.uid = nodes + 1
<1>1. n \in {node, cache, wk.node, node', NoNode}
  BY WorkerCopies, CacheSteps DEF Copies
<1>2. CASE n = node'
  BY <1>2, NodeStep DEF SameNode, OtherNode, Copies
<1> QED BY <1>1, <1>2 DEF Copies

LEMMA ExistingOldStep ==
    ASSUME IInv, OneNode, ExistingOld, [Next]_vars
    PROVE  OneNode' /\ ExistingOld'
<1>1. /\ nodes \in Nat /\ nodes' \in Nat /\ now \in Nat /\ now' \in Nat
      /\ \A n \in Copies \cup {NoNode} : n.uid \in 0..nodes /\ n.created \in Nat
      /\ \A n \in Copies : n.boot # 0 => n.uid # 0
  <2>1. IInv'
    BY NextIInv
  <2>2. now' \in Nat /\ nodes' \in Nat
    BY <2>1 DEF IInv, Types
  <2>3. \A n \in Copies : n \in Node /\ (IF n.exists THEN n.uid \in 1..nodes ELSE n = NoNode)
    BY DEF IInv, Types, Copies
  <2>4. now \in Nat /\ nodes \in Nat
    BY DEF IInv, Types
  <2>5. \A n \in Copies \cup {NoNode} : n.uid \in 0..nodes /\ n.created \in Nat
    BY <2>3, <2>4, NoNodeType DEF Node
  <2>6. \A n \in Copies : n.boot # 0 => n.uid # 0
    BY <2>3, <2>4, NoNodeType
  <2> QED BY <2>2, <2>4, <2>5, <2>6
<1>2. OneNode'
  <2> SUFFICES ASSUME NEW m \in Copies' \cup {NoNode}, NEW n \in Copies' \cup {NoNode},
                      m.uid = n.uid
               PROVE  m.created = n.created
    BY DEF OneNode
  <2> QED BY <1>1, CopiesStep DEF OneNode
<1>3. ExistingOld'
  <2> SUFFICES ASSUME NEW e \in existing'
               PROVE  /\ e.uid \in 1..nodes'
                      /\ \A n \in Copies' : n.uid = e.uid => ~ (now' < n.created + NewNodeThreshold)
    BY DEF ExistingOld, isNew
  <2>1. e.uid \in 1..nodes /\ \A n \in Copies : n.uid = e.uid => ~ isNew(n)
    <3>1. CASE e \in existing
      BY <3>1 DEF ExistingOld
    <3>2. CASE e = [uid |-> wk.node.uid, boot |-> wk.node.boot] /\ Initialize(wk.node)
      BY <1>1, <3>2 DEF OneNode, Initialize, isNew, Copies
    <3> QED BY <3>1, <3>2, ExistingStep
  <2>2. ASSUME NEW n \in Copies', n.uid = e.uid
        PROVE  ~ (now' < n.created + NewNodeThreshold)
    <3>1. PICK m \in Copies : m.uid = n.uid /\ m.created = n.created
      BY <1>1, <2>1, <2>2, CopiesStep, NoNodeType
    <3> QED BY <1>1, <2>1, <2>2, <3>1, ExistingStep, NodeRebootAssumption DEF isNew
  <2> QED BY <1>1, <2>1, <2>2, ExistingStep
<1> QED BY <1>2, <1>3

\* No boot is taken for seen without a check of it, or without having been the
\* boot of an existing node, and not on a node that still is new unless that node was
\* another (Reconcile, createCheckNodeHealth, updateBootIDAnnotation): for any number
\* of boots, faults, replaced nodes and lagging caches.
THEOREM BootsAreChecked == Spec => []SeenMeansChecked
<1>1. Init => OneNode /\ ExistingOld
  <2>1. Init => wk.node = NoNode /\ node = cache /\ node.uid = 1
    BY NewNodeType DEF Init, Idle
  <2> QED BY <2>1, NoNodeType DEF Init, OneNode, ExistingOld, Copies
<1>2. IInv /\ OneNode /\ ExistingOld /\ [Next]_vars => (OneNode /\ ExistingOld)'
  BY ExistingOldStep
<1>3. IInv /\ ExistingOld => SeenMeansChecked
  BY DEF IInv, AllSeen, Seen, SeenMeansChecked, ExistingOld, Copies
<1> QED
  BY <1>1, <1>2, <1>3, Invariant, PTL DEF Spec
=============================================================================
