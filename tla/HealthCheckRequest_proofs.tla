---------------------- MODULE HealthCheckRequest_proofs -----------------------
(***************************************************************************)
(* Proofs about HealthCheckRequest: type correctness, that a signal shows   *)
(* only verdicts of its own checks, that no request is forgotten, and that  *)
(* checks live here as CheckLife says.                                      *)
(***************************************************************************)
EXTENDS HealthCheckRequest, TLAPS

Signals == {hs, hsCache, wk.signal}
Checks == {cnh, cnhCache}

\* Copies of one signal agree on its owner.
OneOwner == \A s, t \in Signals : s.uid = t.uid /\ s.uid # 0 => s.owner = t.owner

\* A check of a signal checks the node of the signal's request.
ChecksOfSignals == \A c \in Checks, s \in Signals : c.owner = s.uid /\ s.uid # 0 => c.target = s.owner

\* What the copies of a signal show.
ShownIsOwn == \A s \in Signals : s.shown.uid # 0 => s.shown.owner = s.uid /\ s.shown.target = s.owner

\* The worker goes on with a signal of the request it took.
WorkerHolds == wk # Idle => wk.signal.uid # 0 /\ wk.signal.owner = wk.request

IInv == TypeOK /\ OneOwner /\ ChecksOfSignals /\ ShownIsOwn /\ WorkerHolds

-----------------------------------------------------------------------------
(* Types *)

LEMMA Constants == /\ NoRequest \in Request /\ NoSignal \in Signal /\ NoCheck \in Check
                   /\ NoCheck \in Shown /\ Idle \in [request : Nat, signal : Signal]
                   /\ 0 \in Nat /\ 1 \in Nat
BY DEF NoRequest, Request, NoSignal, Signal, NoCheck, Check, Shown, Idle

LEMMA NewTyped ==
    ASSUME NEW uid \in Uids, NEW request \in Nat, NEW signal \in Uids \union {0}
    PROVE  /\ NewSignal(uid, request) \in Signal
           /\ NewCheck(uid, signal, request) \in Check
BY DEF NewSignal, NewCheck, NoSignal, NoCheck, Signal, Check, Shown

LEMMA VerdictTyped ==
    ASSUME NEW check \in Check, isFinished(check), NEW signal \in Signal
    PROVE  [signal EXCEPT !.shown = Verdict(check)] \in Signal
<1>1. Verdict(check) \in Shown
  BY DEF Verdict, isFinished, Check, Shown
<1> QED BY <1>1 DEF Signal

LEMMA TypeInit == Init => TypeOK
BY Constants DEF Init, TypeOK

\* The worker's request and signal are of their types.
LEMMA HeldTyped ==
    ASSUME TypeOK, NEW request, NEW signal, Holds(request, signal)
    PROVE  request \in Nat /\ signal \in Signal
<1>1. CASE Takes(request) /\ signal \in OwnedSignal(request)
  BY <1>1 DEF TypeOK, Takes, OwnedSignal, Request
<1>2. CASE wk # Idle /\ request = wk.request /\ signal = wk.signal
  BY <1>2 DEF TypeOK
<1> QED BY <1>1, <1>2 DEF Holds

LEMMA FoundTyped ==
    ASSUME TypeOK, NEW uid, NEW check \in OwnedCheck(uid)
    PROVE  check \in Check /\ check = cnhCache /\ check.owner = uid
BY DEF TypeOK, OwnedCheck


LEMMA TypeStep == TypeOK /\ [Next]_vars => TypeOK'
<1> SUFFICES ASSUME TypeOK, [Next]_vars PROVE TypeOK'
  OBVIOUS
<1> USE Constants
<1>1. CASE Skip
  BY <1>1 DEF TypeOK, Skip, Return, objects, caches, counters
<1>2. CASE ensureHealthSignal
  <2>1. hcrCache.uid \in Nat
    BY DEF TypeOK, Request
  <2>2. CASE Requeue /\ UNCHANGED <<hs, faults>>
    BY <1>2, <2>2 DEF TypeOK, ensureHealthSignal, Requeue, caches, counters
  <2>3. ASSUME NEW uid \in Uids, hs' = NewSignal(uid, hcrCache.uid)
        PROVE  hs' \in Signal
    BY <2>1, <2>3, NewTyped
  <2>4. CASE /\ \E uid \in Uids : hs' = NewSignal(uid, hcrCache.uid)
             /\ Answered(wk' = [request |-> hcrCache.uid, signal |-> hs'] /\ queued' = FALSE)
    <3>1. hs' \in Signal
      BY <2>3, <2>4
    <3>2. wk' \in [request : Nat, signal : Signal] /\ queued' \in BOOLEAN /\ faults' \in Nat
      <4>1. CASE /\ wk' = [request |-> hcrCache.uid, signal |-> hs'] /\ queued' = FALSE
                 /\ UNCHANGED faults
        BY <2>1, <3>1, <4>1 DEF TypeOK
      <4>2. CASE Fault /\ Requeue
        BY <4>2 DEF Fault, Requeue, TypeOK
      <4> QED BY <2>4, <4>1, <4>2 DEF Answered
    <3> QED BY <1>2, <3>1, <3>2 DEF TypeOK, ensureHealthSignal, caches, counters
  <2> QED BY <1>2, <2>2, <2>4 DEF ensureHealthSignal
<1>3. ASSUME NEW request, NEW signal, ensureCheckNodeHealth(request, signal) PROVE TypeOK'
  <2>1. request \in Nat /\ signal.uid \in Uids \union {0}
    BY <1>3, HeldTyped DEF ensureCheckNodeHealth, Signal
  <2>2. cnh' \in Check
    BY <1>3, <2>1, NewTyped DEF ensureCheckNodeHealth, TypeOK
  <2> QED BY <1>3, <2>2 DEF TypeOK, ensureCheckNodeHealth, InProgress, Requeue, caches, counters
<1>4. ASSUME NEW request, NEW signal, awaitCheck(request, signal) PROVE TypeOK'
  BY <1>4 DEF TypeOK, awaitCheck, InProgress, Requeue, objects, caches, counters
<1>5. ASSUME NEW request, NEW signal, syncHealthSignalStatus(request, signal) PROVE TypeOK'
  <2>1. hs' \in Signal
    BY <1>5, FoundTyped, VerdictTyped DEF syncHealthSignalStatus, TypeOK
  <2>2. wk' = Idle /\ queued' \in BOOLEAN /\ faults' \in Nat
    <3>1. CASE Requeue /\ UNCHANGED faults
      BY <3>1 DEF Requeue, TypeOK
    <3>2. CASE Return /\ UNCHANGED faults
      BY <3>2 DEF Return, TypeOK
    <3>3. CASE Fault /\ Requeue
      BY <3>3 DEF Fault, Requeue, TypeOK
    <3> QED BY <1>5, <3>1, <3>2, <3>3 DEF syncHealthSignalStatus, Answered
  <2> QED BY <1>5, <2>1, <2>2 DEF TypeOK, syncHealthSignalStatus, caches, counters
<1>6. CASE CallFails
  BY <1>6 DEF TypeOK, CallFails, Fault, Requeue, objects, caches, counters
<1>7. CASE Manager
  BY <1>7 DEF TypeOK, Manager, WatchRequest, WatchSignal, WatchCheck, Resync, objects, counters, caches
<1>8. CASE Crash
  BY <1>8 DEF TypeOK, Crash, Fault, objects, counters
<1>9. CASE Collector
  <2>1. hs' \in Signal /\ cnh' \in Check
    BY <1>9 DEF TypeOK, Collector, CollectSignal, CollectCheck, CollectFirst, CheckRemoved, Check
  <2>2. UNCHANGED <<hcr, requests, caches, queued, wk, faults>> /\ expiries' \in Nat
    BY <1>9 DEF TypeOK, Collector, CollectSignal, CollectCheck, CollectFirst, CheckRemoved,
                environment, counters
  <2> QED BY <2>1, <2>2 DEF TypeOK, caches
<1>10. CASE Environment
  <2>1. CASE CreateRequest
    BY <2>1 DEF TypeOK, CreateRequest, environment, caches, Request
  <2>2. CASE DeleteRequest
    BY <2>2 DEF TypeOK, DeleteRequest, environment, caches, counters, Request
  <2>3. CASE CheckFinishes
    BY <2>3 DEF TypeOK, CheckFinishes, environment, caches, counters, Check
  <2>4. CASE CheckExpires
    <3>1. cnh' \in Check
      BY <2>4 DEF TypeOK, CheckExpires, Check
    <3>2. expiries' \in Nat
      BY <2>4 DEF TypeOK, CheckExpires
    <3> QED BY <2>4, <3>1, <3>2 DEF TypeOK, CheckExpires, environment, caches
  <2> QED BY <1>10, <2>1, <2>2, <2>3, <2>4 DEF Environment
<1>11. CASE UNCHANGED vars
  BY <1>11 DEF TypeOK, vars, objects, caches, counters
<1> QED BY <1>1, <1>2, <1>3, <1>4, <1>5, <1>6, <1>7, <1>8, <1>9, <1>10, <1>11 DEF Next, Reconcile

-----------------------------------------------------------------------------
(* Owners *)

Owned == OneOwner /\ ChecksOfSignals /\ ShownIsOwn /\ WorkerHolds

\* A step that only copies and forgets signals, and leaves the owner and the
\* target of every check as they were.
LEMMA NothingNew ==
    ASSUME Owned, WorkerHolds',
           Signals' \subseteq Signals \union {NoSignal},
           \A c \in Checks' : \E d \in Checks \union {NoCheck} :
              c.owner = d.owner /\ c.target = d.target
    PROVE  Owned'
<1>1. NoSignal.uid = 0 /\ NoSignal.shown.uid = 0 /\ NoCheck.owner = 0
  BY DEF NoSignal, NoCheck
<1>2. OneOwner'
  <2> SUFFICES ASSUME NEW s \in Signals', NEW t \in Signals', s.uid = t.uid, s.uid # 0
               PROVE  s.owner = t.owner
    BY DEF OneOwner
  <2>1. s \in Signals /\ t \in Signals
    BY <1>1
  <2> QED BY <2>1 DEF Owned, OneOwner
<1>3. ChecksOfSignals'
  <2> SUFFICES ASSUME NEW c \in Checks', NEW s \in Signals', c.owner = s.uid, s.uid # 0
               PROVE  c.target = s.owner
    BY DEF ChecksOfSignals
  <2>1. PICK d \in Checks \union {NoCheck} : c.owner = d.owner /\ c.target = d.target
    OBVIOUS
  <2>2. s \in Signals /\ d \in Checks
    BY <1>1, <2>1
  <2> QED BY <2>1, <2>2 DEF Owned, ChecksOfSignals
<1>4. ShownIsOwn'
  <2> SUFFICES ASSUME NEW s \in Signals', s.shown.uid # 0
               PROVE  s.shown.owner = s.uid /\ s.shown.target = s.owner
    BY DEF ShownIsOwn
  <2> QED BY <1>1 DEF Owned, ShownIsOwn
<1> QED BY <1>2, <1>3, <1>4 DEF Owned


LEMMA HeldOwned ==
    ASSUME Owned, NEW request, NEW signal, Holds(request, signal)
    PROVE  signal \in Signals /\ signal.uid # 0 /\ signal.owner = request
BY DEF Owned, WorkerHolds, Holds, OwnedSignal, Signals

LEMMA IdleHolds == wk' = Idle => WorkerHolds'
BY DEF WorkerHolds

LEMMA OwnedStep == TypeOK /\ Owned /\ [Next]_vars => Owned'
<1> SUFFICES ASSUME TypeOK, Owned, [Next]_vars PROVE Owned'
  OBVIOUS
<1>a. Idle.signal = NoSignal
  BY DEF Idle
<1>b. ASSUME UNCHANGED <<cnh, cnhCache>>
      PROVE  \A c \in Checks' : \E d \in Checks \union {NoCheck} :
                c.owner = d.owner /\ c.target = d.target
  BY <1>b DEF Checks
<1>c. ASSUME UNCHANGED <<hs, hsCache>>, wk' = Idle
      PROVE  WorkerHolds' /\ Signals' \subseteq Signals \union {NoSignal}
  BY <1>a, <1>c, IdleHolds DEF Signals
<1>d. ASSUME UNCHANGED <<hs, hsCache, wk>>
      PROVE  WorkerHolds' /\ Signals' \subseteq Signals \union {NoSignal}
  BY <1>d DEF Signals, WorkerHolds, Owned
<1>1. CASE Skip
  BY <1>1, <1>b, <1>c, NothingNew DEF Skip, Return, objects, caches
<1>2. CASE ensureHealthSignal
  <2>1. CASE Requeue /\ UNCHANGED hs
    BY <1>2, <2>1, <1>b, <1>c, NothingNew DEF ensureHealthSignal, Requeue, caches
  <2>2. ASSUME NEW uid \in Uids, Fresh(uid, SignalUidsInUse), hs' = NewSignal(uid, hcrCache.uid),
               Answered(wk' = [request |-> hcrCache.uid, signal |-> hs'] /\ queued' = FALSE)
        PROVE  Owned'
    <3>1. /\ hs'.uid = uid /\ hs'.owner = hcrCache.uid /\ hs'.shown.uid = 0 /\ uid # 0
          /\ uid \notin {hs.uid, hsCache.uid, wk.signal.uid, cnh.owner, cnhCache.owner}
      BY <2>2, HealthCheckRequestAssumption DEF NewSignal, NoSignal, NoCheck, Fresh, SignalUidsInUse
    <3>2. UNCHANGED <<hsCache, cnh, cnhCache>>
      BY <1>2 DEF ensureHealthSignal, caches
    <3>3. \/ wk' = Idle
          \/ wk' = [request |-> hcrCache.uid, signal |-> hs']
      BY <2>2 DEF Answered, Requeue
    <3>4. WorkerHolds'
      BY <3>1, <3>3 DEF WorkerHolds
    <3>5. Signals' \subseteq Signals \union {NoSignal, hs'} /\ Checks' = Checks
      BY <1>a, <3>2, <3>3 DEF Signals, Checks
    <3>6. NoSignal.uid = 0 /\ NoSignal.shown.uid = 0
      BY DEF NoSignal, NoCheck
    <3>7. \A s \in Signals : s.uid # uid
      BY <3>1 DEF Signals
    <3>8. \A c \in Checks : c.owner # uid
      BY <3>1 DEF Checks
    <3>9. OneOwner'
      BY <3>1, <3>5, <3>6, <3>7 DEF Owned, OneOwner
    <3>10. ChecksOfSignals'
      BY <3>1, <3>5, <3>6, <3>8 DEF Owned, ChecksOfSignals
    <3>11. ShownIsOwn'
      BY <3>1, <3>5, <3>6 DEF Owned, ShownIsOwn
    <3> QED BY <3>4, <3>9, <3>10, <3>11 DEF Owned
  <2> QED BY <1>2, <2>1, <2>2 DEF ensureHealthSignal
<1>3. ASSUME NEW request, NEW signal, ensureCheckNodeHealth(request, signal) PROVE Owned'
  <2>1. UNCHANGED <<hs, hsCache, cnhCache>> /\ wk' = Idle
    BY <1>3 DEF ensureCheckNodeHealth, InProgress, Requeue, caches
  <2>2. WorkerHolds' /\ Signals' \subseteq Signals \union {NoSignal}
    BY <1>c, <2>1
  <2>3. CASE UNCHANGED cnh
    BY <2>1, <2>2, <2>3, <1>b, NothingNew
  <2>4. ASSUME NEW uid \in Uids, cnh' = NewCheck(uid, signal.uid, request) PROVE Owned'
    <3>1. cnh'.owner = signal.uid /\ cnh'.target = request
      BY <2>4 DEF NewCheck, NoCheck
    <3>2. signal \in Signals /\ signal.uid # 0 /\ signal.owner = request
      BY <1>3, HeldOwned DEF ensureCheckNodeHealth
    <3>3. Checks' \subseteq Checks \union {cnh'}
      BY <2>1 DEF Checks
    <3>4. NoSignal.uid = 0 /\ NoSignal.shown.uid = 0
      BY DEF NoSignal, NoCheck
    <3>5. \A s \in Signals : s.uid = signal.uid => s.owner = request
      BY <3>2 DEF Owned, OneOwner
    <3>6. OneOwner' /\ ShownIsOwn'
      BY <2>2, <3>4 DEF Owned, OneOwner, ShownIsOwn
    <3>7. ChecksOfSignals'
      BY <2>2, <3>1, <3>3, <3>4, <3>5 DEF Owned, ChecksOfSignals
    <3> QED BY <2>2, <3>6, <3>7 DEF Owned
  <2> QED BY <1>3, <2>3, <2>4 DEF ensureCheckNodeHealth
<1>4. ASSUME NEW request, NEW signal, awaitCheck(request, signal) PROVE Owned'
  BY <1>4, <1>b, <1>c, NothingNew DEF awaitCheck, InProgress, Requeue, objects, caches
<1>5. ASSUME NEW request, NEW signal, syncHealthSignalStatus(request, signal) PROVE Owned'
  <2>1. UNCHANGED <<cnh, hsCache, cnhCache>> /\ wk' = Idle
    BY <1>5 DEF syncHealthSignalStatus, Answered, Return, Requeue, caches
  <2>2. CASE UNCHANGED hs
    BY <2>1, <2>2, <1>b, <1>c, NothingNew
  <2>3. ASSUME NEW check \in OwnedCheck(signal.uid), hs = signal,
               hs' = [hs EXCEPT !.shown = Verdict(check)]
        PROVE  Owned'
    <3>1. check \in Check /\ check \in Checks /\ check.owner = signal.uid
      BY <2>3, FoundTyped DEF Checks
    <3>2. signal \in Signals /\ signal.uid # 0
      BY <1>5, HeldOwned DEF syncHealthSignalStatus
    <3>3. check.target = signal.owner
      BY <3>1, <3>2 DEF Owned, ChecksOfSignals
    <3>4. /\ hs'.uid = hs.uid /\ hs'.owner = hs.owner
          /\ hs'.shown.owner = hs.uid /\ hs'.shown.target = hs.owner
      BY <2>3, <3>1, <3>3 DEF TypeOK, Signal, Check, Verdict
    <3>5. Signals' \subseteq Signals \union {NoSignal, hs'} /\ Checks' = Checks /\ hs \in Signals
      BY <1>a, <2>1 DEF Signals, Checks
    <3>6. NoSignal.uid = 0 /\ NoSignal.shown.uid = 0
      BY DEF NoSignal, NoCheck
    <3>7. OneOwner'
      BY <3>4, <3>5, <3>6 DEF Owned, OneOwner
    <3>8. ChecksOfSignals'
      BY <3>4, <3>5, <3>6 DEF Owned, ChecksOfSignals
    <3>9. ShownIsOwn'
      BY <3>4, <3>5, <3>6 DEF Owned, ShownIsOwn
    <3> QED BY <2>1, <3>7, <3>8, <3>9, IdleHolds DEF Owned
  <2> QED BY <1>5, <2>2, <2>3 DEF syncHealthSignalStatus
<1>6. CASE CallFails
  <2>1. UNCHANGED <<hs, cnh, hsCache, cnhCache>> /\ wk' = Idle
    BY <1>6 DEF CallFails, Requeue, objects, caches
  <2> QED BY <2>1, <1>b, <1>c, NothingNew
<1>7. CASE Crash
  <2>1. /\ UNCHANGED <<hs, cnh>> /\ wk' = Idle
        /\ hsCache' = hs /\ cnhCache' = cnh
    BY <1>7 DEF Crash, objects
  <2>2. Signals' \subseteq Signals \union {NoSignal} /\ Checks' \subseteq Checks
    BY <1>a, <2>1 DEF Signals, Checks
  <2> QED BY <2>1, <2>2, IdleHolds, NothingNew
<1>8. CASE Manager
  <2>1. UNCHANGED <<hs, cnh, wk>> /\ hsCache' \in {hs, hsCache} /\ cnhCache' \in {cnh, cnhCache}
    BY <1>8 DEF Manager, WatchRequest, WatchSignal, WatchCheck, Resync, objects, caches
  <2>2. Signals' \subseteq Signals \union {NoSignal} /\ Checks' \subseteq Checks
    BY <2>1 DEF Signals, Checks
  <2>3. WorkerHolds'
    BY <2>1 DEF WorkerHolds, Owned
  <2> QED BY <2>2, <2>3, NothingNew
<1>9. CASE Collector \/ Environment
  <2>1. UNCHANGED <<hsCache, cnhCache, wk>>
    BY <1>9 DEF Collector, CollectSignal, CollectCheck, CollectFirst,
                CheckRemoved, Environment, CreateRequest,
                DeleteRequest, CheckFinishes, CheckExpires, environment, caches
  <2>2. hs' \in {hs, NoSignal}
    BY <1>9 DEF Collector, CollectSignal, CollectCheck, CollectFirst,
                CheckRemoved, Environment, CreateRequest,
                DeleteRequest, CheckFinishes, CheckExpires
  <2>3. \/ cnh' \in {cnh, NoCheck}
        \/ cnh' = [cnh EXCEPT !.finished = TRUE]
        \/ cnh' = [cnh EXCEPT !.deleting = TRUE]
    BY <1>9 DEF Collector, CollectSignal, CollectCheck, CollectFirst,
                CheckRemoved, Environment, CreateRequest,
                DeleteRequest, CheckFinishes, CheckExpires
  <2>4. \E d \in Checks \union {NoCheck} : cnh'.owner = d.owner /\ cnh'.target = d.target
    BY <2>3 DEF Checks, TypeOK, Check
  <2>5. \A c \in Checks' : \E d \in Checks \union {NoCheck} :
           c.owner = d.owner /\ c.target = d.target
    BY <2>1, <2>4 DEF Checks
  <2>6. WorkerHolds' /\ Signals' \subseteq Signals \union {NoSignal}
    BY <2>1, <2>2 DEF Signals, WorkerHolds, Owned
  <2> QED BY <2>5, <2>6, NothingNew
<1>10. CASE UNCHANGED vars
  BY <1>10, <1>b, <1>d, NothingNew DEF vars, objects, caches
<1> QED BY <1>1, <1>2, <1>3, <1>4, <1>5, <1>6, <1>7, <1>8, <1>9, <1>10 DEF Next, Reconcile

-----------------------------------------------------------------------------
(* No request is forgotten *)

\* The signal a worker has just created has no check yet: what it does next
\* creates one, and requeues the request.
NoCheckYet == wk # Idle => \A c \in Checks : c.owner # wk.signal.uid

\* Requests are told apart by their uids.
RequestsKnown == hcr.uid <= requests /\ hcrCache.uid <= requests

\* The request is there, and nothing of it is to be heard of or to be done.
Rests == wk = Idle /\ ~ queued /\ hcrCache = hcr /\ hcr.uid # 0 /\ ~ hcr.deleting

\* What the worker left behind; the check itself may be gone by now, but this is
\* heard of.
Answer ==
    /\ hs.uid # 0 /\ hs.owner = hcrCache.uid
    /\ hsCache.uid = hs.uid
    /\ cnhCache.owner = hs.uid /\ cnhCache.finished
    /\ hs.shown = Verdict(cnhCache)

RestsAnswered == Rests => Answer

Kept == NoCheckYet /\ RequestsKnown /\ RestsAnswered

\* What requeues the request, or is held by a worker, leaves nothing to show.
LEMMA NotAtRest ==
    ASSUME RequestsKnown', wk' # Idle \/ queued', wk' = Idle \/ NoCheckYet'
    PROVE  Kept'
BY DEF Kept, Rests, RestsAnswered, NoCheckYet

\* Nobody but the worker and the collector touches the signal, and the collector
\* does not take it from a request that is there.
LEMMA AnswerStays ==
    ASSUME TypeOK, Kept, RequestsKnown', UNCHANGED <<hcrCache, cnhCache, queued, wk>>,
           UNCHANGED hs \/ (hcr' = hcr /\ (hcr.deleting \/ hs.owner \notin {0, hcr.uid})),
           hsCache' \in {hsCache, hs},
           \/ hcr' = hcr \/ hcr'.deleting \/ hcr'.uid = 0 \/ hcr'.uid # hcrCache.uid
    PROVE  RestsAnswered'
<1> SUFFICES ASSUME Rests' PROVE Answer'
  BY DEF RestsAnswered
<1>1. hcr' = hcr /\ Rests /\ hcrCache = hcr
  BY DEF Rests
<1>2. Answer
  BY <1>1 DEF Kept, RestsAnswered
<1>3. UNCHANGED hs
  BY <1>1, <1>2 DEF Answer, Rests
<1> QED BY <1>2, <1>3 DEF Answer

LEMMA RequestsKnownStep == TypeOK /\ RequestsKnown /\ [Next]_vars => RequestsKnown'
<1> SUFFICES ASSUME TypeOK, RequestsKnown, [Next]_vars PROVE RequestsKnown'
  OBVIOUS
<1> USE DEF RequestsKnown
<1>1. CASE CreateRequest
  BY <1>1 DEF CreateRequest, environment, caches, TypeOK, Request
<1>2. CASE DeleteRequest
  BY <1>2 DEF DeleteRequest, environment, caches, counters, TypeOK, Request, NoRequest
<1>3. CASE UNCHANGED <<hcr, requests>> /\ hcrCache' \in {hcrCache, hcr}
  BY <1>3 DEF TypeOK
<1>4. CASE CallFails \/ Crash \/ Manager \/ Collector \/ CheckFinishes \/ CheckExpires
  BY <1>3, <1>4 DEF CallFails, Crash, Manager, WatchRequest, WatchSignal, WatchCheck, Resync, Collector,
          CollectSignal, CollectCheck, CollectFirst, CheckRemoved, CheckFinishes, CheckExpires,
          environment, objects, caches, counters
<1>5. CASE Reconcile
  BY <1>3, <1>5 DEF Reconcile, Skip, ensureHealthSignal, ensureCheckNodeHealth, awaitCheck,
          syncHealthSignalStatus, objects, caches, counters
<1>6. CASE UNCHANGED vars
  BY <1>3, <1>6 DEF vars, objects, caches, counters
<1> QED BY <1>1, <1>2, <1>4, <1>5, <1>6 DEF Next, Environment

LEMMA KeptStep == IInv /\ Kept /\ [Next]_vars => Kept'
<1> SUFFICES ASSUME IInv, Kept, [Next]_vars PROVE Kept'
  OBVIOUS
<1>a. TypeOK
  BY DEF IInv
<1>b. RequestsKnown'
  BY <1>a, RequestsKnownStep DEF Kept
<1>c. ASSUME wk' = Idle, queued' PROVE Kept'
  BY <1>b, <1>c, NotAtRest
<1>d. ASSUME UNCHANGED wk, wk # Idle => cnh'.owner \in {cnh.owner, 0} /\ cnhCache' \in {cnh, cnhCache}
      PROVE  NoCheckYet'
  BY <1>d DEF IInv, WorkerHolds, Kept, NoCheckYet, Checks
\* Reconcile skips a request that is not there, or is being deleted.
<1>1. CASE Skip
  <2>1. wk' = Idle /\ UNCHANGED <<hcr, hcrCache>>
    BY <1>1 DEF Skip, Return, objects, caches
  <2>2. ~ Rests'
    BY <1>1, <2>1 DEF Skip, Rests
  <2> QED BY <1>b, <2>1, <2>2 DEF Kept, RestsAnswered, NoCheckYet
<1>2. CASE ensureHealthSignal
  <2>1. CASE Requeue
    BY <2>1, <1>c DEF Requeue
  <2>2. ASSUME NEW uid \in Uids, Fresh(uid, SignalUidsInUse), hs' = NewSignal(uid, hcrCache.uid),
               wk' = [request |-> hcrCache.uid, signal |-> hs']
        PROVE  Kept'
    <3>1. UNCHANGED <<cnh, cnhCache>> /\ hcrCache.uid # 0
      BY <1>2 DEF ensureHealthSignal, Takes, caches
    <3>2. wk' # Idle /\ wk'.signal.uid = uid
      BY <2>2, <3>1 DEF Idle, NewSignal, NoSignal
    <3>3. uid \notin {cnh.owner, cnhCache.owner}
      BY <2>2 DEF Fresh, SignalUidsInUse
    <3>4. NoCheckYet'
      BY <3>1, <3>2, <3>3 DEF NoCheckYet, Checks
    <3> QED BY <1>b, <3>2, <3>4, NotAtRest
  <2> QED BY <1>2, <2>1, <2>2 DEF ensureHealthSignal, Answered
<1>3. ASSUME NEW request, NEW signal, ensureCheckNodeHealth(request, signal) PROVE Kept'
  BY <1>3, <1>c DEF ensureCheckNodeHealth, InProgress, Requeue
<1>4. ASSUME NEW request, NEW signal, awaitCheck(request, signal) PROVE Kept'
  BY <1>4, <1>c DEF awaitCheck, InProgress, Requeue
\* The one step that leaves a request to itself has just answered it.
<1>5. ASSUME NEW request, NEW signal, syncHealthSignalStatus(request, signal) PROVE Kept'
  <2>1. CASE Requeue
    BY <2>1, <1>c DEF Requeue
  <2>2. ASSUME NEW check \in OwnedCheck(signal.uid), isFinished(check), hs = signal,
               hs' = [hs EXCEPT !.shown = Verdict(check)], Return
        PROVE  Kept'
    <3>1. check = cnhCache /\ cnhCache.owner = signal.uid /\ cnhCache.finished
      BY <1>a, <2>2, FoundTyped DEF isFinished
    <3>2. UNCHANGED <<hcrCache, hsCache, cnhCache>> /\ wk' = Idle
      BY <1>5, <2>2 DEF syncHealthSignalStatus, Return, caches
    <3>3. wk = Idle
      <4> SUFFICES ASSUME wk # Idle PROVE FALSE
        OBVIOUS
      <4>1. signal = wk.signal
        BY <1>5 DEF syncHealthSignalStatus, Holds, Takes
      <4> QED BY <3>1, <4>1 DEF Kept, NoCheckYet, Checks
    <3>4. signal = hsCache /\ signal.uid # 0 /\ signal.owner = hcrCache.uid
      BY <1>5, <3>3 DEF syncHealthSignalStatus, Holds, Takes, OwnedSignal
    <3>5. hs'.uid = hs.uid /\ hs'.owner = hs.owner /\ hs'.shown = Verdict(cnhCache)
      BY <1>a, <2>2, <3>1 DEF TypeOK, Signal
    <3>6. Answer'
      BY <2>2, <3>1, <3>2, <3>4, <3>5 DEF Answer, Verdict
    <3> QED BY <1>b, <3>2, <3>6 DEF Kept, RestsAnswered, NoCheckYet
  <2> QED BY <1>5, <2>1, <2>2 DEF syncHealthSignalStatus, Answered
<1>6. CASE CallFails
  BY <1>6, <1>c DEF CallFails, Requeue
<1>7. CASE Crash
  <2>1. wk' = Idle /\ UNCHANGED hcr /\ queued' = (hcr.uid # 0)
    BY <1>7 DEF Crash, objects
  <2>2. ~ Rests'
    BY <2>1 DEF Rests
  <2> QED BY <1>b, <2>1, <2>2 DEF Kept, RestsAnswered, NoCheckYet
<1>8. CASE Manager
  <2>1. UNCHANGED <<hcr, hs, cnh, wk>> /\ cnhCache' \in {cnh, cnhCache}
    BY <1>8 DEF Manager, WatchRequest, WatchSignal, WatchCheck, Resync, objects, caches
  <2>2. NoCheckYet'
    BY <1>d, <2>1
  <2>3. CASE WatchRequest \/ Resync
    BY <1>b, <2>2, <2>3, NotAtRest DEF WatchRequest, Resync
  <2>4. CASE WatchSignal
    <3>1. RestsAnswered'
      BY <1>a, <1>b, <2>4, AnswerStays DEF WatchSignal, objects
    <3> QED BY <1>b, <2>2, <3>1 DEF Kept
  \* The cached signal leads from the check to the request.
  <2>5. CASE WatchCheck
    <3> SUFFICES ASSUME Rests' PROVE FALSE
      BY <1>b, <2>2 DEF Kept, RestsAnswered
    <3>1. Rests /\ hsCache.owner = 0
      BY <2>1, <2>5 DEF Rests, WatchCheck
    <3>2. Answer
      BY <3>1 DEF Kept, RestsAnswered
    <3>3. hsCache.owner = hs.owner
      BY <3>2 DEF IInv, OneOwner, Signals, Answer
    <3> QED BY <3>1, <3>2, <3>3 DEF Rests, Answer
  <2> QED BY <1>8, <2>3, <2>4, <2>5 DEF Manager
<1>9. CASE Collector \/ Environment
  <2>1. UNCHANGED <<hcrCache, hsCache, cnhCache, queued, wk>>
    BY <1>9 DEF Collector, CollectSignal, CollectCheck, CollectFirst,
                CheckRemoved, Environment, CreateRequest,
                DeleteRequest, CheckFinishes, CheckExpires, environment, caches
  <2>2. cnh'.owner \in {cnh.owner, 0}
    BY <1>9, <1>a DEF Collector, CollectSignal, CollectCheck, CollectFirst,
                CheckRemoved, Environment, CreateRequest,
                DeleteRequest, CheckFinishes, CheckExpires, TypeOK, Check, NoCheck
  <2>3. UNCHANGED hs \/ (hcr' = hcr /\ (hcr.deleting \/ hs.owner \notin {0, hcr.uid}))
    BY <1>9 DEF Collector, CollectSignal, CollectCheck, CollectFirst,
                CheckRemoved, Environment, CreateRequest,
                DeleteRequest, CheckFinishes, CheckExpires
  <2>4. \/ hcr' = hcr \/ hcr'.deleting \/ hcr'.uid = 0 \/ hcr'.uid # hcrCache.uid
    <3>1. CASE CreateRequest
      BY <3>1, <1>a DEF CreateRequest, Kept, RequestsKnown, TypeOK, Request
    <3>2. CASE DeleteRequest
      BY <3>2, <1>a DEF DeleteRequest, TypeOK, Request, NoRequest
    <3> QED BY <1>9, <3>1, <3>2 DEF Collector, CollectSignal, CollectCheck, CollectFirst,
                CheckRemoved, Environment, CheckFinishes, CheckExpires
  <2>5. NoCheckYet'
    BY <1>d, <2>1, <2>2
  <2>6. RestsAnswered'
    BY <1>a, <1>b, <2>1, <2>3, <2>4, AnswerStays
  <2> QED BY <1>b, <2>5, <2>6 DEF Kept
<1>10. CASE UNCHANGED vars
  BY <1>10 DEF vars, objects, caches, counters, Kept, NoCheckYet, Checks, RequestsKnown, RestsAnswered,
               Rests, Answer
<1> QED BY <1>1, <1>2, <1>3, <1>4, <1>5, <1>6, <1>7, <1>8, <1>9, <1>10 DEF Next, Reconcile

-----------------------------------------------------------------------------
(* The lives of checks *)

\* Without a check there is nothing left of one.
Gone == cnh.uid # 0 \/ cnh = NoCheck

\* A record of Booleans, taken apart and put together.
LEMMA LifeFields ==
    ASSUME NEW c \in Check, NEW finished \in BOOLEAN, NEW deleting \in BOOLEAN
    PROVE  /\ LifeOf(c) = Life!Present(finished, deleting) <=>
                c.uid # 0 /\ c.finished = finished /\ c.deleting = deleting
           /\ LifeOf(NoCheck) = Life!Absent
           /\ LifeOf(c).exists <=> c.uid # 0
<1>1. c.finished \in BOOLEAN /\ c.deleting \in BOOLEAN
  BY DEF Check
<1>2. LifeOf(NoCheck) = Life!Absent
  <2>1. NoCheck.uid = 0 /\ NoCheck.finished = FALSE /\ NoCheck.deleting = FALSE
    BY DEF NoCheck
  <2>2. LifeOf(NoCheck) = [exists |-> FALSE, finished |-> NoCheck.finished, deleting |-> NoCheck.deleting]
    BY <2>1 DEF LifeOf
  <2> QED BY <2>1, <2>2, Zenon DEF Life!Absent
<1>3. CASE c.uid # 0
  <2>1. LifeOf(c) = [exists |-> TRUE, finished |-> c.finished, deleting |-> c.deleting]
    BY <1>3 DEF LifeOf
  <2>2. Life!Present(finished, deleting) =
            [exists |-> TRUE, finished |-> finished, deleting |-> deleting]
    BY DEF Life!Present
  <2>3. c.finished = finished /\ c.deleting = deleting => LifeOf(c) = Life!Present(finished, deleting)
    BY <2>1, <2>2, Zenon
  <2>4. LifeOf(c) = Life!Present(finished, deleting) => c.finished = finished /\ c.deleting = deleting
    BY <2>1, <2>2
  <2>5. LifeOf(c).exists
    BY <2>1
  <2> QED BY <1>2, <1>3, <2>3, <2>4, <2>5
<1>4. CASE c.uid = 0
  <2>1. LifeOf(c) = [exists |-> FALSE, finished |-> c.finished, deleting |-> c.deleting]
    BY <1>4 DEF LifeOf
  <2>2. Life!Present(finished, deleting) =
            [exists |-> TRUE, finished |-> finished, deleting |-> deleting]
    BY DEF Life!Present
  <2> QED BY <1>1, <1>2, <1>4, <2>1, <2>2
<1> QED BY <1>3, <1>4

LEMMA LifeStep ==
    ASSUME TypeOK, TypeOK', Gone, [Next]_vars
    PROVE  Gone' /\ [Life!Next]_(LifeOf(cnh))
<1>0. cnh \in Check /\ cnh' \in Check /\ NoCheck.uid = 0
  BY DEF TypeOK, NoCheck
<1>1. CASE cnh' = cnh
  BY <1>1 DEF Gone, LifeOf
<1>2. CASE cnh.uid = 0 /\ \E uid \in Uids : \E signal, request : cnh' = NewCheck(uid, signal, request)
  <2>1. cnh'.uid # 0 /\ cnh'.finished = FALSE /\ cnh'.deleting = FALSE
    BY <1>2, HealthCheckRequestAssumption DEF NewCheck, NoCheck
  <2>2. LifeOf(cnh) = Life!Absent /\ LifeOf(cnh)' = Life!Present(FALSE, FALSE)
    BY <1>0, <1>2, <2>1, LifeFields DEF Gone
  <2> QED BY <2>1, <2>2 DEF Gone, Life!Next, Life!Create
<1>3. CASE CheckFinishes
  <2>1. /\ cnh.uid # 0 /\ cnh.finished = FALSE /\ cnh.deleting = FALSE
        /\ cnh'.uid # 0 /\ cnh'.finished = TRUE /\ cnh'.deleting = FALSE
    BY <1>0, <1>3 DEF CheckFinishes, Check
  <2>2. LifeOf(cnh) = Life!Present(FALSE, FALSE) /\ LifeOf(cnh)' = Life!Present(TRUE, FALSE)
    BY <1>0, <2>1, LifeFields
  <2> QED BY <2>1, <2>2 DEF Gone, Life!Next, Life!Finish
<1>4. CASE cnh.uid # 0 /\ ~ cnh.deleting /\ cnh' = [cnh EXCEPT !.deleting = TRUE]
  <2>1. /\ cnh.finished \in BOOLEAN /\ cnh.deleting = FALSE
        /\ cnh'.uid # 0 /\ cnh'.finished = cnh.finished /\ cnh'.deleting = TRUE
    BY <1>0, <1>4 DEF Check
  <2>2. /\ LifeOf(cnh) = Life!Present(cnh.finished, FALSE)
        /\ LifeOf(cnh)' = Life!Present(cnh.finished, TRUE)
    BY <1>0, <1>4, <2>1, LifeFields
  <2> QED BY <2>1, <2>2 DEF Gone, Life!Next, Life!MarkDeleted
<1>5. CASE cnh' = NoCheck
  <2>1. CASE cnh.uid # 0
    <3>1. LifeOf(cnh).exists /\ LifeOf(cnh)' = Life!Absent
      BY <1>0, <1>5, <2>1, LifeFields
    <3> QED BY <1>5, <3>1 DEF Gone, Life!Next, Life!Remove
  <2>2. CASE cnh.uid = 0
    BY <1>1, <1>5, <2>2 DEF Gone
  <2> QED BY <2>1, <2>2
<1>6. CASE Reconcile
  BY <1>1, <1>2, <1>6 DEF Reconcile, Skip, ensureHealthSignal, ensureCheckNodeHealth, awaitCheck,
          syncHealthSignalStatus, objects
<1>7. CASE CallFails \/ Crash \/ Manager \/ UNCHANGED vars
  BY <1>1, <1>7 DEF CallFails, Crash, Manager, WatchRequest, WatchSignal, WatchCheck, Resync, objects,
          vars
<1>8. CASE Collector \/ Environment
  BY <1>1, <1>3, <1>4, <1>5, <1>8 DEF Collector, CollectSignal, CollectCheck, CollectFirst, CheckRemoved,
          Environment, CreateRequest, DeleteRequest, CheckExpires
<1> QED BY <1>6, <1>7, <1>8 DEF Next

-----------------------------------------------------------------------------
(* Theorems *)

\* The variables keep their types under every number of requests, expiries and
\* faults; in particular a signal is never given conditions of a check that
\* has not finished.
THEOREM TypeCorrect == Spec => []TypeOK
<1>1. TypeOK /\ [Next]_vars => TypeOK'
  BY TypeStep
<1> QED BY <1>1, TypeInit, PTL DEF Spec

LEMMA Inductive == Spec => []IInv
<1>1. Init => IInv
  <2>1. Init => OneOwner /\ ChecksOfSignals /\ ShownIsOwn /\ WorkerHolds
    BY DEF Init, Signals, Checks, OneOwner, ChecksOfSignals, ShownIsOwn, WorkerHolds, Idle,
           NoSignal, NoCheck
  <2> QED BY <2>1, TypeInit DEF IInv
<1>2. IInv /\ [Next]_vars => IInv'
  BY TypeStep, OwnedStep DEF IInv, Owned
<1> QED BY <1>1, <1>2, PTL DEF Spec

\* syncHealthSignalStatus: for every number of requests of one name, with any
\* staleness of the caches and any remains of earlier requests, a signal shows
\* the verdict of a check made for it, on the node of the request that owns it.
THEOREM ShowsOwnVerdict == Spec => []SignalShowsOwnVerdict
<1>1. IInv => SignalShowsOwnVerdict
  BY DEF IInv, ShownIsOwn, Signals, SignalShowsOwnVerdict
<1> QED BY <1>1, Inductive, PTL

\* Reconcile, RequeueAfter, mapCheckNodeHealthToHealthCheckRequest: for every
\* number of requests of one name, lost answers, expired checks and restarts, a
\* request is never left to itself before its signal shows the verdict of its
\* check: the resync is not needed for it.
THEOREM NoRequestForgotten == Spec => []NothingForgotten
<1>1. Init => Kept
  BY DEF Init, Kept, NoCheckYet, RequestsKnown, RestsAnswered, Rests, NoRequest
<1>2. IInv /\ Kept /\ [Next]_vars => Kept'
  BY KeptStep
<1>3. Kept => NothingForgotten
  BY DEF Kept, RestsAnswered, Rests, Answer, NothingForgotten
<1> QED BY <1>1, <1>2, <1>3, Inductive, PTL DEF Spec

\* ensureCheckNodeHealth, the collector and the bounds on users: a check that this
\* controller has created lives as CheckLife says ...
THEOREM ChecksLiveAsTheyDo == Spec => ChecksLive
<1>1. Init => Gone /\ Life!Init
  BY LifeFields, Constants DEF Init, Gone, Life!Init
<1>2. TypeOK /\ TypeOK' /\ Gone /\ [Next]_vars => Gone' /\ [Life!Next]_(LifeOf(cnh))
  BY LifeStep
<1> QED BY <1>1, <1>2, TypeCorrect, PTL DEF Spec, ChecksLive, Life!Spec

\* ... and may live in every way that CheckLife allows, so that what is shown of
\* requests and signals holds for the checks of the CheckNodeHealth controller:
\* whatever CheckLife does to the check of this state, while nothing else moves
\* and the bound on expired checks is not met, is a step of this module.
THEOREM EveryLifeIsAllowed ==
    ASSUME TypeOK, UNCHANGED <<hcr, hs, requests, environment>>,
           cnh' \in Check,
           cnh' = NoCheck \/ (cnh'.uid = cnh.uid /\ cnh'.owner = cnh.owner /\ cnh'.target = cnh.target),
           \/ Life!Finish /\ expiries' = expiries
           \/ /\ Life!MarkDeleted \/ (Life!Remove /\ ~ cnh.deleting)
              /\ expiries < MaxExpiries /\ expiries' = expiries + 1
           \/ Life!Remove /\ cnh.deleting /\ expiries' = expiries
    PROVE  CheckFinishes \/ CheckExpires \/ CheckRemoved
<1>0. cnh \in Check /\ NoCheck.uid = 0
  BY DEF TypeOK, NoCheck
<1>1. CASE Life!Finish /\ expiries' = expiries
  <2>1. LifeOf(cnh) = Life!Present(FALSE, FALSE) /\ LifeOf(cnh)' = Life!Present(TRUE, FALSE)
    BY <1>1 DEF Life!Finish
  <2>2. /\ cnh.uid # 0 /\ ~ cnh.finished /\ ~ cnh.deleting /\ cnh.deleting = FALSE
        /\ cnh'.uid # 0 /\ cnh'.finished = TRUE /\ cnh'.deleting = FALSE
    BY <1>0, <2>1, LifeFields
  <2>3. cnh' = [cnh EXCEPT !.finished = TRUE]
    BY <1>0, <2>2 DEF Check
  <2> QED BY <1>1, <2>2, <2>3 DEF CheckFinishes, counters
<1>2. CASE Life!MarkDeleted /\ expiries < MaxExpiries /\ expiries' = expiries + 1
  <2>1. PICK finished \in BOOLEAN : /\ LifeOf(cnh) = Life!Present(finished, FALSE)
                                    /\ LifeOf(cnh)' = Life!Present(finished, TRUE)
    BY <1>2 DEF Life!MarkDeleted
  <2>2. /\ cnh.uid # 0 /\ ~ cnh.deleting /\ cnh.finished = finished
        /\ cnh'.uid # 0 /\ cnh'.finished = finished /\ cnh'.deleting = TRUE
    BY <1>0, <2>1, LifeFields
  <2>3. cnh' = [cnh EXCEPT !.deleting = TRUE]
    BY <1>0, <2>2 DEF Check
  <2> QED BY <1>2, <2>2, <2>3 DEF CheckExpires
<1>3. CASE Life!Remove
  <2>1. LifeOf(cnh).exists /\ LifeOf(cnh)' = Life!Absent
    BY <1>3 DEF Life!Remove
  <2>2. cnh.uid # 0
    BY <1>0, <2>1, LifeFields
  <2>3. cnh' = NoCheck
    <3> SUFFICES ASSUME cnh'.uid # 0 PROVE FALSE
      BY <1>0, <2>2
    <3>1. LifeOf(cnh)'.exists
      BY LifeFields
    <3> QED BY <2>1, <3>1 DEF Life!Absent
  <2>4. CASE cnh.deleting /\ expiries' = expiries
    BY <2>3, <2>4 DEF CheckRemoved, counters
  <2>5. CASE ~ cnh.deleting /\ expiries < MaxExpiries /\ expiries' = expiries + 1
    BY <2>2, <2>3, <2>5 DEF CheckExpires
  <2> QED BY <2>4, <2>5, <1>1, <1>2, <1>3
<1> QED BY <1>1, <1>2, <1>3
===============================================================================
