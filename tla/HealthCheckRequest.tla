-------------------------- MODULE HealthCheckRequest --------------------------
(***************************************************************************)
(* The HealthCheckRequest controller                                        *)
(* (pkg/controller/healthcheckrequest/controller.go) for the requests of    *)
(* one name: each gets a HealthSignal, the signal a CheckNodeHealth, and    *)
(* the verdict of the check is copied to the signal.                        *)
(*                                                                          *)
(* Both are created under names made from the request's name, but found by  *)
(* the uid in their owner references, in an index of an informer cache.     *)
(* Names outlive a request: a second request of the same name meets the     *)
(* objects of the first until the garbage collector has removed them.       *)
(*                                                                          *)
(* Of a CheckNodeHealth only what module CheckNodeHealth shows of it is     *)
(* used: it lives as module CheckLife says, its verdict is final once it is *)
(* finished, and it ends.                                                   *)
(***************************************************************************)
EXTENDS Naturals

CONSTANTS
    Uids,          \* uids of signals and checks, reused once nothing refers to them
    MaxRequests,   \* bound on requests of this name
    MaxExpiries,   \* bound on expired checks, and on objects that go before their request
    MaxFaults      \* bound on failed calls, lost answers and crashes

ASSUME HealthCheckRequestAssumption ==
    /\ Uids \subseteq Nat \ {0}
    /\ MaxRequests \in Nat
    /\ MaxExpiries \in Nat
    /\ MaxFaults \in Nat

VARIABLES
    hcr, hs, cnh,                   \* the three objects, at the API server
    hcrCache, hsCache, cnhCache,    \* the informers' copies
    queued,                         \* the request's name is in the work queue, or
                                    \* will be when its RequeueAfter is over
    wk,                             \* the worker
    requests, expiries, faults

objects == <<hcr, hs, cnh>>
caches == <<hcrCache, hsCache, cnhCache>>
counters == <<requests, expiries>>
vars == <<objects, caches, queued, wk, counters, faults>>

-----------------------------------------------------------------------------
(* The objects; uid 0: none.  An owner of 0 stands for no owner reference. *)

\* A CheckNodeHealth; target is the request whose node it checks.
Check == [uid : Uids \union {0}, owner : Uids \union {0}, target : Nat,
          finished : BOOLEAN, deleting : BOOLEAN]
NoCheck == [uid |-> 0, owner |-> 0, target |-> 0, finished |-> FALSE, deleting |-> FALSE]

\* A HealthSignal; shown is the check whose conditions it holds.  An update that
\* changes nothing leaves the resourceVersion alone, and none brings an earlier
\* content back: two copies are of one resourceVersion when they are equal.
Shown == {check \in Check : check.finished /\ ~ check.deleting} \union {NoCheck}
Signal == [uid : Uids \union {0}, owner : Nat, shown : Shown]
NoSignal == [uid |-> 0, owner |-> 0, shown |-> NoCheck]

Request == [uid : Nat, deleting : BOOLEAN]
NoRequest == [uid |-> 0, deleting |-> FALSE]

\* The uid of a new object is one that no copy of an object holds.
CheckUidsInUse == {cnh.uid, cnhCache.uid, hs.shown.uid, hsCache.shown.uid}
SignalUidsInUse == {hs.uid, hsCache.uid, wk.signal.uid, cnh.owner, cnhCache.owner}

Fresh(uid, inUse) ==
    /\ uid \notin inUse
    /\ \A other \in Uids \ inUse : uid <= other

\* The HealthSignal and the CheckNodeHealth that are created.
\* (Names with a suffix are faulty variants of the definition that follows.)
NewSignal_Unowned(uid, request) == [NoSignal EXCEPT !.uid = uid]
NewSignal(uid, request) == [NoSignal EXCEPT !.uid = uid, !.owner = request]

NewCheck(uid, signal, request) ==
    [NoCheck EXCEPT !.uid = uid, !.owner = signal, !.target = request]

\* The two indexes: what the cache has with an owner reference to the uid.
OwnedSignal_ByName(request) == IF hsCache.uid # 0 THEN {hsCache} ELSE {}
OwnedSignal(request) == IF hsCache.uid # 0 /\ hsCache.owner = request THEN {hsCache} ELSE {}

OwnedCheck(signal) == IF cnhCache.uid # 0 /\ cnhCache.owner = signal THEN {cnhCache} ELSE {}

\* Status.FinishedAt is set.
isFinished_Always(check) == TRUE
isFinished(check) == check.finished

\* The conditions of a check, known by the check they are of.
Verdict(check) == [check EXCEPT !.deleting = FALSE]

-----------------------------------------------------------------------------
(* Reconcile.  What it reads is the caches', which only lag: a read and the   *)
(* API call that follows it are one step.                                    *)

Idle == [request |-> 0, signal |-> NoSignal]

Fault == faults < MaxFaults /\ faults' = faults + 1

\* The worker holds the request, and has not looked for its signal yet ...
Takes(request) ==
    /\ wk = Idle
    /\ queued
    /\ request = hcrCache.uid /\ request # 0
    /\ ~ hcrCache.deleting

\* ... or has found or just created it.
Holds(request, signal) ==
    \/ Takes(request) /\ signal \in OwnedSignal(request)
    \/ wk # Idle /\ request = wk.request /\ signal = wk.signal

\* Reconcile returns; the request stays queued if it was added meanwhile.
Return == wk' = Idle /\ queued' = (queued /\ wk # Idle)

\* It returns an error.
Requeue == wk' = Idle /\ queued' = TRUE

\* A call was done; its answer may be lost.
Answered(return) ==
    \/ return /\ UNCHANGED faults
    \/ Fault /\ Requeue

\* The request is not there, or is being deleted.
Skip ==
    /\ wk = Idle
    /\ queued
    /\ hcrCache.uid = 0 \/ hcrCache.deleting
    /\ Return
    /\ UNCHANGED <<objects, caches, counters, faults>>

ensureHealthSignal ==
    \E request \in {hcrCache.uid} :
        /\ Takes(request)
        /\ OwnedSignal(request) = {}
        /\ \/ /\ hs.uid = 0
              /\ \E uid \in Uids : Fresh(uid, SignalUidsInUse) /\ hs' = NewSignal(uid, request)
              /\ Answered(wk' = [request |-> request, signal |-> hs'] /\ queued' = FALSE)
           \/ \* The name is taken.
              hs.uid # 0 /\ Requeue /\ UNCHANGED <<hs, faults>>
        /\ UNCHANGED <<hcr, cnh, caches, counters>>

\* RequeueAfter.
InProgress_NoRequeue == Return
InProgress == Requeue

ensureCheckNodeHealth(request, signal) ==
    /\ Holds(request, signal)
    /\ OwnedCheck(signal.uid) = {}
    /\ \/ /\ cnh.uid = 0
          /\ \E uid \in Uids :
                Fresh(uid, CheckUidsInUse) /\ cnh' = NewCheck(uid, signal.uid, request)
          /\ InProgress   \* as when the answer is lost
       \/ \* The name is taken.
          cnh.uid # 0 /\ Requeue /\ UNCHANGED cnh
    /\ UNCHANGED <<hcr, hs, caches, counters, faults>>

awaitCheck(request, signal) ==
    /\ Holds(request, signal)
    /\ \E check \in OwnedCheck(signal.uid) : ~ isFinished(check)
    /\ InProgress
    /\ UNCHANGED <<objects, caches, counters, faults>>

syncHealthSignalStatus(request, signal) ==
    /\ Holds(request, signal)
    /\ \E check \in OwnedCheck(signal.uid) :
          /\ isFinished(check)
          /\ \/ hs = signal /\ hs' = [hs EXCEPT !.shown = Verdict(check)] /\ Answered(Return)
             \/ \* A conflict, or the signal is not there any more.
                hs # signal /\ Requeue /\ UNCHANGED <<hs, faults>>
    /\ UNCHANGED <<hcr, cnh, caches, counters>>

\* A read or a write fails without effect.
CallFails ==
    /\ wk # Idle \/ Takes(hcrCache.uid)
    /\ Fault
    /\ Requeue
    /\ UNCHANGED <<objects, caches, counters>>

-----------------------------------------------------------------------------
(* The manager: watches, resyncs, restarts *)

WatchRequest ==
    /\ hcrCache # hcr
    /\ hcrCache' = hcr
    /\ queued' = TRUE
    /\ UNCHANGED <<objects, hsCache, cnhCache, wk, counters, faults>>

\* The controller reads signals but does not watch them.
WatchSignal ==
    /\ hsCache # hs
    /\ hsCache' = hs
    /\ UNCHANGED <<objects, hcrCache, cnhCache, queued, wk, counters, faults>>

\* mapCheckNodeHealthToHealthCheckRequest: by the name of the check's signal
\* to the cached signal, and by the name of that one's owner to the request.
WatchCheck ==
    /\ cnhCache # cnh
    /\ cnhCache' = cnh
    /\ queued' = (queued \/ hsCache.owner # 0)
    /\ UNCHANGED <<objects, hcrCache, hsCache, wk, counters, faults>>

Resync ==
    /\ hcrCache.uid # 0
    /\ ~ queued
    /\ queued' = TRUE
    /\ UNCHANGED <<objects, caches, wk, counters, faults>>

Crash ==
    /\ Fault
    /\ hcrCache' = hcr
    /\ hsCache' = hs
    /\ cnhCache' = cnh
    /\ queued' = (hcr.uid # 0)
    /\ wk' = Idle
    /\ UNCHANGED <<objects, counters>>

-----------------------------------------------------------------------------
(* Users, the CheckNodeHealth controller and the garbage collector *)

environment == <<caches, queued, wk, faults>>

CreateRequest ==
    /\ hcr.uid = 0
    /\ requests < MaxRequests
    /\ requests' = requests + 1
    /\ hcr' = [uid |-> requests', deleting |-> FALSE]
    /\ UNCHANGED <<hs, cnh, expiries, environment>>

\* At once, or first marked, in the foreground or for somebody's finalizer.
DeleteRequest ==
    /\ hcr.uid # 0
    /\ hcr' \in {NoRequest, [hcr EXCEPT !.deleting = TRUE]}
    /\ UNCHANGED <<hs, cnh, counters, environment>>

\* A check is one-shot: CheckNodeHealth!ChecksComeToRest and VerdictFinal.
CheckFinishes ==
    /\ cnh.uid # 0
    /\ ~ cnh.finished
    /\ ~ cnh.deleting
    /\ cnh' = [cnh EXCEPT !.finished = TRUE]
    /\ UNCHANGED <<hcr, hs, counters, environment>>

\* CRTTL has passed.  The check goes at once if it has no finalizer yet.
CheckExpires ==
    /\ cnh.uid # 0
    /\ ~ cnh.deleting
    /\ expiries < MaxExpiries
    /\ expiries' = expiries + 1
    /\ cnh' \in {NoCheck, [cnh EXCEPT !.deleting = TRUE]}
    /\ UNCHANGED <<hcr, hs, requests, environment>>

\* The finalizer has been served.
CheckRemoved ==
    /\ cnh.deleting
    /\ cnh' = NoCheck
    /\ UNCHANGED <<hcr, hs, counters, environment>>

\* What is owned by nothing that exists goes ...
CollectSignal ==
    /\ hs.uid # 0
    /\ hs.owner \notin {0, hcr.uid}
    /\ hs' = NoSignal
    /\ UNCHANGED <<hcr, cnh, counters, environment>>

CollectCheck ==
    /\ cnh.uid # 0
    /\ cnh.owner \notin {0, hs.uid}
    /\ ~ cnh.deleting
    /\ cnh' \in {NoCheck, [cnh EXCEPT !.deleting = TRUE]}
    /\ UNCHANGED <<hcr, hs, counters, environment>>

\* ... and what is owned by a request that is deleted in the foreground goes before it.
CollectFirst ==
    /\ hcr.deleting /\ hs.owner = hcr.uid
    /\ expiries < MaxExpiries
    /\ expiries' = expiries + 1
    /\ \/ /\ hs' = NoSignal
          /\ UNCHANGED cnh
       \/ /\ cnh.uid # 0 /\ cnh.owner = hs.uid /\ ~ cnh.deleting
          /\ cnh' \in {NoCheck, [cnh EXCEPT !.deleting = TRUE]}
          /\ UNCHANGED hs
    /\ UNCHANGED <<hcr, requests, environment>>

-----------------------------------------------------------------------------
Init ==
    /\ hcr = NoRequest /\ hs = NoSignal /\ cnh = NoCheck
    /\ hcrCache = NoRequest /\ hsCache = NoSignal /\ cnhCache = NoCheck
    /\ queued = FALSE
    /\ wk = Idle
    /\ requests = 0 /\ expiries = 0 /\ faults = 0

Reconcile ==
    \/ Skip
    \/ ensureHealthSignal
    \/ \E request \in {hcrCache.uid, wk.request}, signal \in {hsCache, wk.signal} :
          \/ ensureCheckNodeHealth(request, signal)
          \/ awaitCheck(request, signal)
          \/ syncHealthSignalStatus(request, signal)

Manager == WatchRequest \/ WatchSignal \/ WatchCheck \/ Resync
Collector == CollectSignal \/ CollectCheck \/ CollectFirst \/ CheckRemoved
Environment == CreateRequest \/ DeleteRequest \/ CheckFinishes \/ CheckExpires

Next == Reconcile \/ CallFails \/ Crash \/ Manager \/ Collector \/ Environment

Spec == Init /\ [][Next]_vars

\* The worker and the watches go on, checks end and the collector collects; a
\* deletion that was begun ends.  No answer waits for a resync.
Fairness ==
    /\ WF_vars(Reconcile)
    /\ WF_vars(WatchRequest) /\ WF_vars(WatchSignal) /\ WF_vars(WatchCheck)
    /\ WF_vars(CheckFinishes) /\ WF_vars(CheckRemoved)
    /\ WF_vars(CollectSignal) /\ WF_vars(CollectCheck)
    /\ WF_vars(hcr.deleting /\ DeleteRequest)

FairSpec == Spec /\ Fairness

-----------------------------------------------------------------------------
(* Properties *)

\* Every variable has its type: conditions are copied from finished checks only.
TypeOK ==
    /\ hcr \in Request /\ hcrCache \in Request
    /\ hs \in Signal /\ hsCache \in Signal
    /\ cnh \in Check /\ cnhCache \in Check
    /\ queued \in BOOLEAN
    /\ wk \in [request : Nat, signal : Signal]
    /\ requests \in Nat /\ expiries \in Nat /\ faults \in Nat

\* ensureHealthSignal, ensureCheckNodeHealth, syncHealthSignalStatus: whatever a
\* signal shows is the verdict of a check made for this very signal,
\* on the node of the request that owns the signal, however many requests and
\* signals of the same names came before, and whatever the caches still hold.
SignalShowsOwnVerdict ==
    hs.shown.uid # 0 =>
        /\ hs.shown.owner = hs.uid
        /\ hs.shown.target = hs.owner

\* Reconcile never forgets a request: when nothing is queued and the worker is at
\* rest, with nothing new of the request and of its check to be heard of, the
\* request that is there has its signal, and the signal the verdict of its check.
\* No answer waits for a resync (RequeueAfter, mapCheckNodeHealthToHealthCheckRequest).
NothingForgotten ==
    /\ wk = Idle /\ ~ queued
    /\ hcrCache = hcr /\ cnhCache = cnh
    /\ hcr.uid # 0 /\ ~ hcr.deleting
    => /\ hs.owner = hcr.uid
       /\ cnh.owner = hs.uid /\ cnh.finished
       /\ hs.shown = Verdict(cnh)

\* Reconcile: a request that stays gets its signal, with the verdict of its
\* last check, across lost calls and answers, expired checks, restarts, and
\* the remains of an earlier request of the name.
RequestsAnswered ==
    \A request \in 1 .. MaxRequests :
        <>[](hcr = [uid |-> request, deleting |-> FALSE]) =>
            <>[](/\ hs.owner = request
                 /\ cnh.finished
                 /\ hs.shown = Verdict(cnh))

\* The check as CheckLife sees it: no check of this module lives otherwise, and the
\* steps CheckFinishes, CheckExpires and CheckRemoved leave out none of CheckLife's.
LifeOf(c) == [exists |-> c.uid # 0, finished |-> c.finished, deleting |-> c.deleting]

Life == INSTANCE CheckLife WITH check <- LifeOf(cnh)

ChecksLive == Life!Spec

\* OwnerReferences: what belongs to no request goes, even if a worker that has
\* not heard of the request's end yet goes on creating.
OrphansGo == <>[](hcr.uid = 0) => <>[](hs.uid = 0 /\ cnh.uid = 0)
===============================================================================
