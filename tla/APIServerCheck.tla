---------------------------- MODULE APIServerCheck ----------------------------
(***************************************************************************)
(* A run of the API server checker (pkg/checker/apiserver/api_server.go):   *)
(* it creates a ConfigMap, gets it and deletes it, and deletes it again in  *)
(* a deferred call.  A create that times out may have been carried out; the *)
(* ConfigMap is then left for a later run's garbage collection.  Each call  *)
(* has a deadline of its own, so that the run may go on after a timeout.    *)
(***************************************************************************)
EXTENDS SyntheticObjects

ConfigMap(p) == Obj("configmap", run[p].id)

\* ConfigMaps older than the checker's timeout.
OutdatedConfigMaps == {o \in OfKind({"configmap"}) : o.id \in outdated}

garbageCollectConfigMaps(p) ==
    /\ At(p, "idle")
    /\ \E id \in Ids :
        /\ Fresh(id)
        /\ Collect(p, OutdatedConfigMaps, Started("listConfigMaps", id))

\* (Names with a suffix are faulty variants of the definition that follows.)
listConfigMaps_OffByOne(p) ==
    /\ At(p, "listConfigMaps")
    /\ Count(p, {"configmap"}, config.max + 1, To(p, "createConfigMap"), NoRun)
listConfigMaps(p) ==
    /\ At(p, "listConfigMaps")
    /\ Count(p, {"configmap"}, config.max, To(p, "createConfigMap"), NoRun)

\* After an error nothing is deleted: the deletion is deferred after this call.
createConfigMap(p) ==
    /\ At(p, "createConfigMap")
    /\ Create(p, ConfigMap(p), To(p, "getConfigMap"), NoRun)

\* Another process may have collected the ConfigMap.
getConfigMap(p) ==
    /\ At(p, "getConfigMap")
    /\ \/ Succeeds(p, To(p, IF ConfigMap(p) \in objects THEN "deleteConfigMap"
                                                       ELSE "deferredDelete"))
       \/ Fails(p, To(p, "deferredDelete"))
    /\ UNCHANGED cluster

deleteConfigMap(p) ==
    /\ At(p, "deleteConfigMap")
    /\ Delete(p, ConfigMap(p), To(p, "deferredDelete"), To(p, "deferredDelete"))

deferredDelete(p) ==
    /\ At(p, "deferredDelete")
    /\ Delete(p, ConfigMap(p), NoRun, NoRun)

\* APIServerChecker.check, step by step.
APIServerStep(p) ==
    /\ config.checker = "APIServer"
    /\ \/ garbageCollectConfigMaps(p)
       \/ listConfigMaps(p)
       \/ createConfigMap(p)
       \/ getConfigMap(p)
       \/ deleteConfigMap(p)
       \/ deferredDelete(p)
    /\ UNCHANGED config
=============================================================================
