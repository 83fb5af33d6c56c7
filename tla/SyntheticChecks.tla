--------------------------- MODULE SyntheticChecks ---------------------------
(***************************************************************************)
(* The two checkers that create objects, each under the schedule of the     *)
(* process (pkg/scheduler): one run at a time, again and again, and in each *)
(* process that has the checker in its configuration.                       *)
(***************************************************************************)
EXTENDS PodStartup, APIServerCheck, Functions

\* A step of the goroutine that runs the checker in p.
CheckerStep(p) == PodStartupStep(p) \/ APIServerStep(p)

Next ==
    \/ \E p \in Processes : CheckerStep(p) \/ Terminate(p)
    \/ \E id \in Ids : Age(id) \/ AgeEarly(id)
    \/ \E o \in Object : Removed(o)

Spec == Init /\ [][Next]_vars

\* The ticker starts runs for ever, and every call returns, by its context at the
\* latest; time passes; what is deleted is let go of.
Fairness ==
    /\ \A p \in Processes : WF_vars(CheckerStep(p))
    /\ \A id \in Ids : WF_vars(Age(id))
    /\ \A o \in Object : WF_vars(Removed(o))

FairSpec == Spec /\ Fairness

-----------------------------------------------------------------------------
(* Properties *)

\* Types; what is deleted or outdated is there, and no ConfigMap lingers.
TypeOK ==
    /\ config \in Configs
    /\ objects \subseteq Object
    /\ terminating \subseteq {o \in objects : o.kind # "configmap"}
    /\ outdated \subseteq IdsOf(objects)
    /\ run \in [Processes -> Run]
    /\ faults \in 0..MaxFaults

\* The pods of the checker are bounded (podstartup.go:144-154): counting and creating
\* are two calls with others in between, so processes that overlap count the same
\* pods, and each may add one to the last that was allowed.
Limited(kinds, limit, batch) ==
    OfKind(kinds) # {} =>
        Cardinality(OfKind(kinds)) <= limit - 1 + batch * Cardinality(Processes)

PodsBounded == Limited({"pod"}, config.max, 1)

\* The claims are bounded too (storage.go:180-198), although they are counted once for
\* all that a run creates, and stay behind when one of them cannot be created.
ClaimsBounded == Limited(CSITypes, config.max * drivers, drivers)

\* And the ConfigMaps of the API server checker (api_server.go:73-84), of which a
\* timed out creation leaves one whose name nobody knows.
ConfigMapsBounded == Limited({"configmap"}, config.max, 1)

ObjectsBounded == PodsBounded /\ ClaimsBounded /\ ConfigMapsBounded

\* The three bounds are one promise: admission on a count, and creation in admitted turns.
CreatingPod == {"createKarpenterNodePool", "createPod"}
PodTurns == {<<p, 1>> : p \in {q \in Processes : run[q].pc \in CreatingPod}}
ConfigMapTurns == {<<p, 1>> : p \in {q \in Processes : run[q].pc = "createConfigMap"}}
ClaimTurns == {t \in Processes \X (1..drivers) :
                 run[t[1]].pc = "createCSIResources" /\ t[2] >= run[t[1]].i}

PodPool == INSTANCE BoundedPool WITH
    Elements <- Object, limit <- config.max, batch <- 1,
    pool <- OfKind({"pod"}), admitted <- PodTurns
ClaimPool == INSTANCE BoundedPool WITH
    Elements <- Object, limit <- config.max * drivers, batch <- drivers,
    pool <- OfKind(CSITypes), admitted <- ClaimTurns
ConfigMapPool == INSTANCE BoundedPool WITH
    Elements <- Object, limit <- config.max, batch <- 1,
    pool <- OfKind({"configmap"}), admitted <- ConfigMapTurns

PodsAdmitted == PodPool!Spec
ClaimsAdmitted == ClaimPool!Spec
ConfigMapsAdmitted == ConfigMapPool!Spec

\* Deferred calls cover every way out of a run: what is there of a run that is over,
\* and is not being deleted, was left behind by a call that failed, a deadline, a
\* death or a differing clock, and each of these leaves objects of one run only
\* (podstartup.go:138, 180; api_server.go:98).  A run whose node pool another process
\* has taken away waits until its deadline; and with two drivers of one CSI type no
\* run comes further than the claim that is there already.
LeftBehind ==
    {id \in IdsOf(objects \ terminating) :
        /\ \A p \in Processes : run[p].id # id
        /\ config.nodepools => Obj("nodepool", id) \in objects \ terminating}

OneRunPerFault == IsInjective(config.csis) => Cardinality(LeftBehind) <= faults

\* Nothing that a run leaves behind stays for ever, whatever call failed and wherever
\* the process died (podstartup.go:112-114, api_server.go:67): the objects of an id go.
LeftoversGo == \A id \in Ids : []<>(id \notin IdsOf(objects))

\* A limit that leftovers have reached is not the end of the checker: again and again
\* a run creates what it is there to create.
ChecksGoOn == []<>(\E p \in Processes : run[p].pc \in {"poll", "getConfigMap"})
=============================================================================
