---------------------------- MODULE CircuitBreaker ----------------------------
(***************************************************************************)
(* The circuit breaker between verdicts and node conditions                 *)
(* (pkg/controller/checknodehealth/circuit_breaker.go), and step 2 of       *)
(* determineCheckResult, which asks it before a node's NodeHealthy          *)
(* condition is written and tells it every verdict afterwards.              *)
(*                                                                          *)
(* The controller's one worker is the only caller, so the breaker's mutex   *)
(* is not modelled.  Each call reads the clock anew, and time may pass      *)
(* between any two steps: the calls to the API server take some.  The       *)
(* breaker does not know which node a verdict is about, so nodes have no    *)
(* names here.                                                              *)
(***************************************************************************)
EXTENDS Naturals, Sequences, HealthVerdict

CONSTANTS
    Threshold,   \* unhealthy results in a row that open the breaker
    Window,      \* the time within which they must come
    Cooldown,    \* how long it stays open after the last of them
    MaxTime,     \* bound on the clock
    MaxResults   \* bound on the results between two restarts

ASSUME BreakerAssumption ==
    /\ Threshold \in Nat \ {0}
    /\ Window \in Nat
    /\ Cooldown \in Nat
    /\ MaxTime \in Nat
    /\ MaxResults \in Nat

VARIABLES
    now,        \* the clock
    cb,         \* the breaker
    worker,     \* where determineCheckResult is, and with which verdict
    \* History, which the properties read and no guard does but for its bound:
    log,        \* the results the breaker was told since the controller started
    marks       \* when False was written on nodes since the last other verdict

vars == <<now, cb, worker, log, marks>>

-----------------------------------------------------------------------------
(* The breaker *)

\* consecutiveUnhealthy is events; openedAt counts while the breaker is open.
Breaker == [events : Seq(Nat), open : BOOLEAN, openedAt : Nat]

NewNodeConditionCircuitBreaker == [events |-> <<>>, open |-> FALSE, openedAt |-> 0]

\* (Names with a suffix are faulty variants of the definition that follows.)
CooledDown_Always == TRUE
CooledDown == cb.openedAt + Cooldown <= now

Allow == ~ cb.open \/ CooledDown

\* Allow closes a breaker that has cooled down.
AfterAllow_KeepsEvents == [cb EXCEPT !.open = FALSE, !.openedAt = 0]
AfterAllow == IF cb.open THEN NewNodeConditionCircuitBreaker ELSE cb

expired(event) == event + Window < now

\* The loop stops at the first event that has not expired, or at the end.
pruneExpiredEvents(events) ==
    LET i == CHOOSE i \in 0..Len(events) :
                /\ \A j \in 1..i : expired(events[j])
                /\ i < Len(events) => ~ expired(events[i + 1])
    IN  SubSeq(events, i + 1, Len(events))

AfterUnhealthyNode ==
    LET events == pruneExpiredEvents(Append(cb.events, now))
        trips == Len(events) >= Threshold
    IN  [events |-> events, open |-> cb.open \/ trips,
         openedAt |-> IF trips THEN now ELSE cb.openedAt]

AfterHealthyNode_KeepsEvents == cb
AfterHealthyNode == [cb EXCEPT !.events = <<>>]

-----------------------------------------------------------------------------
(* determineCheckResult, step 2 *)

\* markCompleted has stored a verdict.
Conclude(verdict) ==
    /\ worker.pc = "idle"
    /\ Len(log) < MaxResults
    /\ worker' = [pc |-> "ask", verdict |-> verdict]
    /\ UNCHANGED <<now, cb, log, marks>>

\* updateNodeCondition asks the breaker, whatever the verdict is.
AskBreaker ==
    /\ worker.pc = "ask"
    /\ \/ Allow /\ cb' = AfterAllow /\ worker' = [worker EXCEPT !.pc = "write"]
       \/ ~ Allow /\ UNCHANGED cb /\ worker' = [worker EXCEPT !.pc = "tell"]
    /\ UNCHANGED <<now, log, marks>>

\* Its Get and Patch of the node: an error is logged and no more.
WriteCondition ==
    /\ worker.pc = "write"
    /\ worker' = [worker EXCEPT !.pc = "tell"]
    /\ \/ marks' = IF worker.verdict = "False" THEN Append(marks, now) ELSE marks
       \/ UNCHANGED marks
    /\ UNCHANGED <<now, cb, log>>

\* The breaker hears of every verdict, written or not; Unknown counts as healthy.
TellBreaker ==
    /\ worker.pc = "tell"
    /\ worker' = [worker EXCEPT !.pc = "idle"]
    /\ log' = Append(log, [verdict |-> worker.verdict, at |-> now])
    /\ \/ /\ worker.verdict = "False"
          /\ cb' = AfterUnhealthyNode
          /\ UNCHANGED marks
       \/ /\ worker.verdict # "False"
          /\ cb' = AfterHealthyNode
          /\ marks' = <<>>
    /\ UNCHANGED now

Tick ==
    /\ now < MaxTime
    /\ now' = now + 1
    /\ UNCHANGED <<cb, worker, log, marks>>

\* The breaker is memory of the process, and history starts anew with it.
Restart ==
    /\ cb' = NewNodeConditionCircuitBreaker
    /\ worker' = [pc |-> "idle", verdict |-> "Unknown"]
    /\ log' = <<>> /\ marks' = <<>>
    /\ UNCHANGED now

Init ==
    /\ now = 0
    /\ cb = NewNodeConditionCircuitBreaker
    /\ worker = [pc |-> "idle", verdict |-> "Unknown"]
    /\ log = <<>> /\ marks = <<>>

Next ==
    \/ \E verdict \in Verdicts : Conclude(verdict)
    \/ AskBreaker \/ WriteCondition \/ TellBreaker
    \/ Tick
    \/ Restart

Spec == Init /\ [][Next]_vars

-----------------------------------------------------------------------------
(* Properties *)

\* Types; and a closed breaker has room for another unhealthy result: reaching
\* the threshold opens it, and closing it forgets the results that opened it.
TypeOK ==
    /\ now \in Nat
    /\ cb \in Breaker
    /\ worker \in [pc : {"idle", "ask", "write", "tell"}, verdict : Verdicts]
    /\ log \in Seq([verdict : Verdicts, at : Nat])
    /\ marks \in Seq(Nat)
    /\ ~ cb.open => Len(cb.events) < Threshold

\* What the breaker is for: when everything fails at once, however long the
\* calls take and whether the writes succeed, no more than Threshold nodes in a
\* row are marked unhealthy until Cooldown has passed or the Window is exceeded
\* (Allow, RecordUnhealthyNode, pruneExpiredEvents; updateNodeCondition).
BoundedHarm ==
    \A i \in 1..Len(marks) :
        i + Threshold <= Len(marks) =>
            \/ marks[i] + Cooldown <= marks[i + Threshold]
            \/ marks[i] + Window < marks[i + Threshold]

\* And it does not open without cause: openedAt is the time of an unhealthy
\* result that was the last of Threshold in a row within the Window, with no
\* other verdict between them (RecordUnhealthyNode, RecordHealthyNode).
OpenWithCause ==
    cb.open =>
        \E k \in 1..Len(log) :
            /\ k >= Threshold
            /\ log[k].at = cb.openedAt
            /\ \A i \in 1..Len(log) :
                  i \in (k + 1 - Threshold)..k =>
                      log[i].verdict = "False" /\ cb.openedAt <= log[i].at + Window
=============================================================================
