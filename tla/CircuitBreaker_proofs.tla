------------------------ MODULE CircuitBreaker_proofs ------------------------
(***************************************************************************)
(* What the circuit breaker guarantees for every threshold, window and      *)
(* cooldown, and however long the clock and the log grow.                   *)
(*                                                                          *)
(* The argument: count marks and recorded events from their ends.  A mark   *)
(* that is at least as far from the end as an event is no later than that   *)
(* event (Aligned), because every mark is followed by an event of its own.  *)
(* So when an event is pruned, the mark it stands for has left the window;  *)
(* and when the breaker closes after its cooldown, every mark is older than *)
(* that (Spaced).  A closed breaker keeps fewer than Threshold events,      *)
(* hence the Threshold-th last mark is old whenever another one is made.    *)
(***************************************************************************)
EXTENDS CircuitBreaker, TLAPS, SequenceTheorems, WellFoundedInduction

Types ==
    /\ now \in Nat
    /\ cb \in Breaker
    /\ worker \in [pc : {"idle", "ask", "write", "tell"}, verdict : Verdicts]
    /\ log \in Seq([verdict : Verdicts, at : Nat])
    /\ marks \in Seq(Nat)

Sorted(events) ==
    \A i, j \in 1..Len(events) : i <= j => events[i] <= events[j]

\* 1 while the breaker has not been told of a mark that may have been made.
Pending == IF worker.pc = "tell" /\ worker.verdict = "False" THEN 1 ELSE 0

Aligned ==
    \A i \in 1..Len(marks), k \in 1..Len(cb.events) :
        i + Len(cb.events) + Pending <= k + Len(marks) => marks[i] <= cb.events[k]

Old(mark) == mark + Cooldown <= now \/ mark + Window < now

Spaced ==
    ~ cb.open =>
        \A i \in 1..Len(marks) :
            i + Len(cb.events) + Pending <= Len(marks) => Old(marks[i])

\* Nothing read on the clock is later than now.
Past ==
    /\ \A i \in 1..Len(cb.events) : cb.events[i] <= now
    /\ \A i \in 1..Len(marks) : marks[i] <= now
    /\ cb.open => cb.openedAt <= now

Closing ==
    /\ ~ cb.open => Len(cb.events) < Threshold
    /\ cb.open => \A i \in 1..Len(marks) : marks[i] <= cb.openedAt
    /\ worker.pc = "write" => ~ cb.open

\* The events are the latest results, all unhealthy.
Logged ==
    /\ Len(cb.events) <= Len(log)
    /\ \A k \in 1..Len(cb.events) :
          log[Len(log) - Len(cb.events) + k] = [verdict |-> "False", at |-> cb.events[k]]

IInv ==
    /\ Types /\ Sorted(cb.events) /\ Past /\ Closing /\ Aligned /\ Spaced /\ Logged
    /\ BoundedHarm /\ OpenWithCause

-----------------------------------------------------------------------------
(* Pruning *)

LEMMA PruneStops ==
    ASSUME NEW events \in Seq(Nat), now \in Nat
    PROVE  \E i \in 0..Len(events) :
              /\ \A j \in 1..i : expired(events[j])
              /\ i < Len(events) => ~ expired(events[i + 1])
<1> DEFINE Stops == {i \in 0..Len(events) : i < Len(events) => ~ expired(events[i + 1])}
           Less == OpToRel(<, Nat)
<1>1. Len(events) \in Stops /\ Stops \subseteq Nat
  OBVIOUS
<1>2. PICK i \in Stops : \A y \in Stops : ~ (<<y, i>> \in Less)
  <2>1. IsWellFoundedOn(Less, Nat)
    BY NatLessThanWellFounded
  <2> HIDE DEF Stops, Less
  <2> QED
    BY <1>1, <2>1, WFMin
<1>3. \A y \in Stops : ~ (y < i)
  BY <1>1, <1>2 DEF OpToRel
<1>4. ASSUME NEW j \in 1..i PROVE expired(events[j])
  <2>1. i \in 0..Len(events) /\ Len(events) \in Nat
    OBVIOUS
  <2> HIDE DEF Stops
  <2>2. j - 1 \in 0..Len(events) /\ j - 1 < i /\ j - 1 < Len(events)
    BY <2>1, <1>4
  <2> USE DEF Stops
  <2>3. j - 1 \notin Stops
    BY <1>3, <2>2
  <2>4. (j - 1) + 1 = j
    BY <1>4
  <2> QED
    BY <2>2, <2>3, <2>4
<1> QED
  BY <1>2, <1>4

\* pruneExpiredEvents drops what has expired, and nothing else.
LEMMA Pruned ==
    ASSUME NEW events \in Seq(Nat), now \in Nat, Window \in Nat, Sorted(events)
    PROVE  \E d \in 0..Len(events) :
              /\ pruneExpiredEvents(events) = SubSeq(events, d + 1, Len(events))
              /\ \A j \in 1..d : expired(events[j])
              /\ \A j \in (d + 1)..Len(events) : ~ expired(events[j])
<1> DEFINE Stop(i) == /\ \A j \in 1..i : expired(events[j])
                      /\ i < Len(events) => ~ expired(events[i + 1])
           d == CHOOSE i \in 0..Len(events) : Stop(i)
<1>1. d \in 0..Len(events) /\ Stop(d)
  BY PruneStops
<1>2. pruneExpiredEvents(events) = SubSeq(events, d + 1, Len(events))
  BY DEF pruneExpiredEvents
<1>3. ASSUME NEW j \in (d + 1)..Len(events) PROVE ~ expired(events[j])
  <2>1. d < Len(events) /\ ~ expired(events[d + 1])
    BY <1>1, <1>3
  <2>2. d + 1 \in 1..Len(events) /\ j \in 1..Len(events) /\ d + 1 <= j
    BY <1>1, <1>3
  <2>3. events[d + 1] <= events[j] /\ events[j] \in Nat /\ events[d + 1] \in Nat
    BY <2>2 DEF Sorted
  <2> QED
    BY <2>1, <2>3 DEF expired
<1> HIDE DEF d
<1> QED
  BY <1>1, <1>2, <1>3

-----------------------------------------------------------------------------
(* The invariant *)

LEMMA Sizes ==
    ASSUME Types
    PROVE  /\ Len(marks) \in Nat /\ Len(cb.events) \in Nat
           /\ \A i \in 1..Len(marks) : marks[i] \in Nat
           /\ \A k \in 1..Len(cb.events) : cb.events[k] \in Nat
           /\ now \in Nat /\ cb.openedAt \in Nat
           /\ Pending \in {0, 1}
BY DEF Types, Breaker, Pending

\* While the worker moves and nothing is marked or recorded, time may pass and
\* a result may become pending.
LEMMA CoverKept ==
    ASSUME Types, Aligned, Spaced, UNCHANGED <<cb, marks>>,
           now' \in Nat, now' >= now, Pending = 0 \/ Pending' = 1, Pending' \in {0, 1}
    PROVE  Aligned' /\ Spaced'
<1> USE Sizes
<1>1. Aligned'
  <2> SUFFICES ASSUME NEW i \in 1..Len(marks), NEW k \in 1..Len(cb.events),
                      i + Len(cb.events) + Pending' <= k + Len(marks)
               PROVE  marks[i] <= cb.events[k]
    BY DEF Aligned
  <2>1. i + Len(cb.events) + Pending <= k + Len(marks)
    OBVIOUS
  <2> QED
    BY <2>1 DEF Aligned
<1>2. ASSUME NEW i \in 1..Len(marks), Old(marks[i]) PROVE Old(marks[i])'
  BY <1>2, BreakerAssumption DEF Old
<1>3. Spaced'
  BY <1>2 DEF Spaced
<1> QED
  BY <1>1, <1>3

\* A further result does not touch the cause of an open breaker.
LEMMA CauseKept ==
    ASSUME Types, OpenWithCause, NEW r,
           log' = Append(log, r), cb'.open => cb.open /\ cb'.openedAt = cb.openedAt
    PROVE  OpenWithCause'
<1> SUFFICES ASSUME cb'.open
             PROVE  \E k \in 1..Len(log') :
                       /\ k >= Threshold
                       /\ log'[k].at = cb.openedAt
                       /\ \A i \in 1..Len(log') :
                             i \in (k + 1 - Threshold)..k =>
                                log'[i].verdict = "False" /\ cb.openedAt <= log'[i].at + Window
  BY DEF OpenWithCause
<1>1. PICK k \in 1..Len(log) :
          /\ k >= Threshold
          /\ log[k].at = cb.openedAt
          /\ \A i \in 1..Len(log) :
                i \in (k + 1 - Threshold)..k =>
                    log[i].verdict = "False" /\ cb.openedAt <= log[i].at + Window
  BY DEF OpenWithCause
<1>2. /\ Len(log) \in Nat /\ Len(log') = Len(log) + 1
      /\ \A i \in 1..Len(log) : log'[i] = log[i]
  BY DEF Types
<1>3. \A i \in 1..Len(log') : i \in (k + 1 - Threshold)..k => i \in 1..Len(log)
  BY <1>1, <1>2, BreakerAssumption
<1> QED
  BY <1>1, <1>2, <1>3

LEMMA InitIInv == Init => IInv
BY BreakerAssumption
   DEF Init, IInv, Types, Sorted, Past, Closing, Aligned, Spaced, Logged, BoundedHarm,
       OpenWithCause, Breaker, NewNodeConditionCircuitBreaker, Verdicts

LEMMA ConcludeIInv ==
    ASSUME IInv, NEW v \in Verdicts, Conclude(v)
    PROVE  IInv'
BY BreakerAssumption
   DEF Conclude, IInv, Types, Sorted, Past, Closing, Aligned, Spaced, Logged, BoundedHarm,
       OpenWithCause, Breaker, Pending, Old

LEMMA TickIInv == ASSUME IInv, Tick PROVE IInv'
<1> USE BreakerAssumption DEF Tick, IInv
<1>1. Types' /\ Sorted(cb.events)'
  BY DEF Types, Sorted
<1>2. Past'
  BY DEF Types, Past, Breaker
<1>3. Closing' /\ Logged' /\ BoundedHarm' /\ OpenWithCause'
  BY DEF Closing, Logged, BoundedHarm, OpenWithCause
<1>4. Aligned' /\ Spaced'
  <2>1. Pending' = Pending /\ now' \in Nat /\ now' >= now
    BY DEF Types, Pending
  <2> QED
    BY <2>1, CoverKept, Sizes
<1> QED
  BY <1>1, <1>2, <1>3, <1>4

LEMMA RestartIInv == ASSUME IInv, Restart PROVE IInv'
BY BreakerAssumption
   DEF Restart, IInv, Types, Sorted, Past, Closing, Aligned, Spaced, Logged, BoundedHarm,
       OpenWithCause, Breaker, NewNodeConditionCircuitBreaker, Verdicts

LEMMA AskBreakerIInv == ASSUME IInv, AskBreaker PROVE IInv'
<1> USE BreakerAssumption DEF AskBreaker, IInv
<1>1. CASE ~ cb.open
  BY <1>1 DEF Allow, AfterAllow, Types, Sorted, Past, Closing, Aligned, Spaced, Logged,
              BoundedHarm, OpenWithCause, Breaker, Pending, Old
<1>2. CASE cb.open /\ ~ Allow
  <2>1. Types' /\ Sorted(cb.events)' /\ Past' /\ Closing' /\ Logged' /\ BoundedHarm'
        /\ OpenWithCause' /\ worker'.pc = "tell"
    BY <1>2 DEF Types, Sorted, Past, Closing, Logged, BoundedHarm, OpenWithCause
  <2>2. Pending = 0 /\ Pending' \in {0, 1}
    BY <2>1 DEF Pending
  <2> QED
    BY <1>2, <2>1, <2>2, CoverKept, Sizes
<1>3. CASE cb.open /\ Allow
  <2>1. cb' = NewNodeConditionCircuitBreaker /\ worker' = [worker EXCEPT !.pc = "write"]
    BY <1>3 DEF AfterAllow
  <2>2. \A i \in 1..Len(marks) : Old(marks[i])'
    BY <1>3, <2>1 DEF Allow, CooledDown, Closing, Types, Breaker, Old
  <2>3. Spaced'
    BY <2>2 DEF Spaced, Old
  <2>4. UNCHANGED <<now, log, marks>>
    BY <1>3
  <2>5. /\ cb' \in Breaker /\ cb'.events = <<>> /\ Len(cb'.events) = 0
        /\ ~ cb'.open /\ cb'.openedAt = 0
    <3>1. <<>> \in Seq(Nat) /\ Len(<<>>) = 0
      OBVIOUS
    <3> QED
      BY <2>1, <3>1 DEF NewNodeConditionCircuitBreaker, Breaker
  <2>6. Types' /\ Sorted(cb.events)' /\ OpenWithCause'
    BY <2>1, <2>4, <2>5 DEF Types, Sorted, OpenWithCause
  <2>7. Past' /\ BoundedHarm'
    BY <2>4, <2>5 DEF Past, BoundedHarm
  <2>8. Closing' /\ Aligned' /\ Logged'
    BY <2>1, <2>4
       DEF NewNodeConditionCircuitBreaker, Types, Closing, Aligned, Logged, Breaker, Pending
  <2> QED
    BY <2>3, <2>6, <2>7, <2>8
<1> QED
  BY <1>1, <1>2, <1>3

LEMMA WriteConditionIInv == ASSUME IInv, WriteCondition PROVE IInv'
<1> USE BreakerAssumption DEF WriteCondition, IInv
<1>1. Types' /\ ~ cb.open /\ UNCHANGED cb /\ worker'.pc = "tell"
  <2>1. marks' \in Seq(Nat)
    <3>1. marks \in Seq(Nat) /\ now \in Nat
      BY DEF Types
    <3> QED
      BY <3>1
  <2>2. worker' \in [pc : {"idle", "ask", "write", "tell"}, verdict : Verdicts]
        /\ worker'.pc = "tell"
    BY DEF Types
  <2> QED
    BY <2>1, <2>2 DEF Types, Closing
<1>a. Sorted(cb.events)' /\ Logged' /\ OpenWithCause'
  BY DEF Sorted, Logged, OpenWithCause
<1>2. CASE UNCHANGED marks
  <2>1. Past' /\ Closing' /\ BoundedHarm'
    BY <1>1, <1>2 DEF Past, Closing, BoundedHarm
  <2>2. Pending = 0 /\ Pending' \in {0, 1}
    BY <1>1 DEF Pending
  <2> QED
    BY <1>1, <1>2, <1>a, <2>1, <2>2, CoverKept, Sizes
<1>3. CASE ~ UNCHANGED marks
  <2> DEFINE n == Len(marks)
  <2>1. /\ worker.verdict = "False" /\ marks' = Append(marks, now)
        /\ Pending = 0 /\ Pending' = 1
    BY <1>3 DEF Pending, Types
  <2>2. /\ n \in Nat /\ Len(marks') = n + 1 /\ marks'[n + 1] = now
        /\ \A i \in 1..n : marks'[i] = marks[i] /\ marks[i] \in Nat
    BY <2>1 DEF Types
  <2>3. /\ Len(cb.events) \in Nat /\ Len(cb.events) < Threshold
        /\ \A k \in 1..Len(cb.events) : cb.events[k] \in Nat
        /\ now \in Nat
    BY <1>1 DEF Types, Breaker, Closing
  <2>4. Past' /\ Closing'
    <3>1. \A i \in 1..(n + 1) : marks'[i] <= now
      <4>1. \A i \in 1..n : marks'[i] <= now
        BY <2>2, <2>3 DEF Past
      <4> QED
        BY <4>1, <2>2, <2>3
    <3>2. worker'.pc # "write" /\ ~ cb'.open /\ cb' = cb /\ now' = now
      BY <1>1
    <3> QED
      BY <3>1, <3>2, <2>2 DEF Past, Closing
  <2>5. Aligned'
    <3> SUFFICES ASSUME NEW i \in 1..(n + 1), NEW k \in 1..Len(cb.events),
                        i + Len(cb.events) + 1 <= k + (n + 1)
                 PROVE  marks'[i] <= cb.events[k]
      BY <1>1, <2>1, <2>2 DEF Aligned
    <3>1. i \in 1..n /\ i + Len(cb.events) + Pending <= k + n
      BY <2>1, <2>2, <2>3
    <3> QED
      BY <3>1, <2>2 DEF Aligned
  <2>6. \A i \in 1..n : i + Len(cb.events) <= n => Old(marks[i])
    BY <1>1, <2>1, <2>2, <2>3 DEF Spaced
  <2>7. Spaced'
    <3> SUFFICES ASSUME NEW i \in 1..(n + 1), i + Len(cb.events) + 1 <= n + 1
                 PROVE  Old(marks[i])'
      BY <1>1, <2>1, <2>2 DEF Spaced
    <3>1. i \in 1..n /\ i + Len(cb.events) <= n
      BY <2>2, <2>3
    <3>2. Old(marks[i]) /\ marks'[i] = marks[i] /\ now' = now
      BY <3>1, <2>2, <2>6
    <3> QED
      BY <3>2 DEF Old
  <2>8. BoundedHarm'
    <3> SUFFICES ASSUME NEW i \in 1..(n + 1), i + Threshold <= n + 1
                 PROVE  \/ marks'[i] + Cooldown <= marks'[i + Threshold]
                        \/ marks'[i] + Window < marks'[i + Threshold]
      BY <2>2 DEF BoundedHarm
    <3>1. CASE i + Threshold <= n
      <4>1. i \in 1..n /\ i + Threshold \in 1..n
        BY <3>1, <2>2
      <4> QED
        BY <3>1, <4>1, <2>2 DEF BoundedHarm
    <3>2. CASE i + Threshold = n + 1
      <4>1. i \in 1..n /\ i + Len(cb.events) <= n
        BY <3>2, <2>2, <2>3
      <4>2. Old(marks[i])
        BY <4>1, <2>6
      <4> QED
        BY <3>2, <4>1, <4>2, <2>2 DEF Old
    <3> QED
      BY <3>1, <3>2, <2>2
  <2> QED
    BY <1>1, <1>a, <2>4, <2>5, <2>7, <2>8
<1> QED
  BY <1>2, <1>3

LEMMA TellHealthyIInv ==
    ASSUME IInv, TellBreaker, worker.verdict # "False"
    PROVE  IInv'
<1>0. /\ Types /\ Sorted(cb.events) /\ Past /\ Closing /\ Aligned /\ Spaced /\ Logged
      /\ BoundedHarm /\ OpenWithCause
  BY DEF IInv
<1>1. /\ cb' = [cb EXCEPT !.events = <<>>] /\ marks' = <<>>
      /\ UNCHANGED now
      /\ worker' = [worker EXCEPT !.pc = "idle"]
      /\ log' = Append(log, [verdict |-> worker.verdict, at |-> now])
  BY DEF TellBreaker, AfterHealthyNode
<1>2. /\ cb' \in Breaker /\ cb'.open = cb.open /\ cb'.openedAt = cb.openedAt
      /\ cb'.events = <<>> /\ Len(cb'.events) = 0 /\ Len(marks') = 0
      /\ marks' \in Seq(Nat)
  <2>1. cb \in Breaker
    BY <1>0 DEF Types
  <2>2. cb' = [cb EXCEPT !.events = <<>>]
    BY <1>1
  <2>3. <<>> \in Seq(Nat)
    OBVIOUS
  <2>4. cb' \in Breaker /\ cb'.open = cb.open /\ cb'.openedAt = cb.openedAt /\ cb'.events = <<>>
    BY <2>1, <2>2, <2>3 DEF Breaker
  <2> QED
    BY <1>1, <2>4
<1>3. Types'
  <2>1. log' \in Seq([verdict : Verdicts, at : Nat])
    BY <1>0, <1>1 DEF Types
  <2> QED
    BY <1>0, <1>1, <1>2, <2>1 DEF Types
<1>4. /\ Sorted(cb.events)' /\ Past' /\ Closing' /\ Aligned' /\ Spaced'
      /\ BoundedHarm'
  BY <1>0, <1>1, <1>2, BreakerAssumption
     DEF Types, Sorted, Past, Closing, Aligned, Spaced, BoundedHarm
<1>5. Logged'
  <2>1. Len(log') \in Nat
    BY <1>3 DEF Types
  <2> QED
    BY <1>2, <2>1 DEF Logged
<1>6. OpenWithCause'
  BY <1>0, <1>1, <1>2, CauseKept
<1> QED
  BY <1>3, <1>4, <1>5, <1>6 DEF IInv

LEMMA TellUnhealthyIInv ==
    ASSUME IInv, TellBreaker, worker.verdict = "False"
    PROVE  IInv'
<1>0. /\ Types /\ Sorted(cb.events) /\ Past /\ Closing /\ Aligned /\ Spaced /\ Logged
      /\ BoundedHarm /\ OpenWithCause
  BY DEF IInv
<1> DEFINE told == Append(cb.events, now)
           n == Len(cb.events)
           m == Len(marks)
           l == Len(log)
           kept == pruneExpiredEvents(told)
<1>a. /\ n \in Nat /\ m \in Nat /\ l \in Nat /\ n <= l
      /\ now \in Nat /\ cb.openedAt \in Nat /\ cb.open \in BOOLEAN
      /\ \A i \in 1..m : marks[i] \in Nat
      /\ \A k \in 1..n : cb.events[k] \in Nat
      /\ Threshold \in Nat /\ Threshold > 0 /\ Window \in Nat /\ Cooldown \in Nat
  BY <1>0, Sizes, BreakerAssumption DEF Types, Breaker, Logged
<1>1. /\ cb' = AfterUnhealthyNode /\ UNCHANGED <<marks, now>>
      /\ worker' = [worker EXCEPT !.pc = "idle"] /\ worker.pc = "tell"
      /\ log' = Append(log, [verdict |-> "False", at |-> now])
  BY DEF TellBreaker
<1>2. /\ told \in Seq(Nat) /\ Len(told) = n + 1 /\ told[n + 1] = now
      /\ \A k \in 1..n : told[k] = cb.events[k]
  BY <1>0 DEF Types, Breaker
<1> HIDE DEF told, kept, n, m, l
<1>3. Sorted(told) /\ \A k \in 1..(n + 1) : told[k] <= now /\ told[k] \in Nat
  <2>1. \A k \in 1..(n + 1) : told[k] <= now /\ told[k] \in Nat
    <3> TAKE k \in 1..(n + 1)
    <3>1. CASE k = n + 1
      BY <3>1, <1>2, <1>a
    <3>2. CASE k \in 1..n
      BY <3>2, <1>0, <1>2, <1>a DEF Past, n
    <3> QED
      BY <3>1, <3>2, <1>a
  <2>2. ASSUME NEW i \in 1..(n + 1), NEW j \in 1..(n + 1), i <= j PROVE told[i] <= told[j]
    <3>1. CASE j = n + 1
      BY <3>1, <2>1, <1>2
    <3>2. CASE j \in 1..n
      <4>1. i \in 1..n
        BY <3>2, <2>2, <1>a
      <4> QED
        BY <4>1, <3>2, <2>2, <1>0, <1>2 DEF Sorted, n
    <3> QED
      BY <3>1, <3>2, <1>a
  <2> QED
    BY <2>1, <2>2, <1>2 DEF Sorted
<1>4. PICK d \in 0..(n + 1) :
         /\ kept = SubSeq(told, d + 1, n + 1)
         /\ \A j \in 1..d : expired(told[j])
         /\ \A j \in (d + 1)..(n + 1) : ~ expired(told[j])
  BY <1>2, <1>3, <1>a, Pruned DEF kept
<1>5. /\ kept \in Seq(Nat) /\ Len(kept) = n + 1 - d
      /\ \A k \in 1..(n + 1 - d) : kept[k] = told[k + d]
  <2>1. \A k \in (d + 1)..(n + 1) : told[k] \in Nat
    BY <1>3
  <2>2. \A k \in 1..(n + 1 - d) : kept[k] = told[(d + 1) + k - 1]
    BY <1>4, <1>a, <2>1, SubSeqProperties
  <2>3. kept \in Seq(Nat) /\ Len(kept) = n + 1 - d
    BY <1>4, <1>a, <2>1, SubSeqProperties
  <2>4. \A k \in 1..(n + 1 - d) : (d + 1) + k - 1 = k + d
    BY <1>a
  <2> QED
    BY <2>2, <2>3, <2>4
<1>6. /\ cb'.events = kept
      /\ cb'.open = (cb.open \/ Len(kept) >= Threshold)
      /\ cb'.openedAt = IF Len(kept) >= Threshold THEN now ELSE cb.openedAt
      /\ cb' \in Breaker
  <2>1. cb' = [events |-> kept, open |-> cb.open \/ Len(kept) >= Threshold,
               openedAt |-> IF Len(kept) >= Threshold THEN now ELSE cb.openedAt]
    BY <1>1 DEF AfterUnhealthyNode, told, kept
  <2> QED
    BY <2>1, <1>5, <1>a DEF Breaker
<1>7. Types'
  <2>1. log' \in Seq([verdict : Verdicts, at : Nat])
    BY <1>0, <1>1 DEF Types, Verdicts
  <2>2. worker' \in [pc : {"idle", "ask", "write", "tell"}, verdict : Verdicts]
    BY <1>0, <1>1 DEF Types
  <2> QED
    BY <1>0, <1>1, <1>6, <2>1, <2>2 DEF Types
<1>8. Sorted(cb.events)'
  <2>1. ASSUME NEW i \in 1..(n + 1 - d), NEW j \in 1..(n + 1 - d), i <= j
        PROVE  kept[i] <= kept[j]
    <3>1. i + d \in 1..(n + 1) /\ j + d \in 1..(n + 1) /\ i + d <= j + d
      BY <2>1, <1>a
    <3> QED
      BY <3>1, <1>2, <1>3, <1>5 DEF Sorted
  <2> QED
    BY <2>1, <1>5, <1>6 DEF Sorted
<1>9. Past'
  <2>1. ASSUME NEW i \in 1..(n + 1 - d) PROVE kept[i] <= now
    <3>1. i + d \in 1..(n + 1)
      BY <1>a
    <3> QED
      BY <3>1, <1>3, <1>5
  <2>2. cb'.open => cb'.openedAt <= now
    BY <1>0, <1>6, <1>a DEF Past
  <2> QED
    <3>1. \A i \in 1..Len(marks) : marks[i] <= now
      BY <1>0 DEF Past
    <3>2. \A i \in 1..Len(cb'.events) : cb'.events[i] <= now'
      BY <1>1, <1>5, <1>6, <2>1
    <3>3. marks' = marks /\ now' = now
      BY <1>1
    <3> QED
      BY <2>2, <3>1, <3>2, <3>3 DEF Past
<1>10. Closing'
  <2>1. ~ cb'.open => Len(cb'.events) < Threshold
    <3>1. Len(kept) \in Int /\ Threshold \in Int
      BY <1>5, <1>a
    <3>2. ~ cb'.open => ~ (Len(kept) >= Threshold)
      BY <1>6
    <3>3. cb'.events = kept
      BY <1>6
    <3> QED
      BY <3>1, <3>2, <3>3
  <2>2. cb'.open => \A i \in 1..m : marks[i] <= cb'.openedAt
    BY <1>0, <1>6 DEF Past, Closing, m
  <2>3. worker'.pc = "idle"
    BY <1>0, <1>1 DEF Types
  <2> QED
    BY <1>1, <2>1, <2>2, <2>3 DEF Closing, m
<1>11. Pending = 1 /\ Pending' = 0
  BY <1>0, <1>1 DEF Pending, Types
\* Among the events told, each mark is covered without reserve.
<1>12. ASSUME NEW i \in 1..m, NEW k \in 1..(n + 1), i + (n + 1) <= k + m
       PROVE  marks[i] <= told[k]
  <2>1. CASE k = n + 1
    BY <2>1, <1>0, <1>2 DEF Past, m
  <2>2. CASE k \in 1..n
    <3>1. i + n + Pending <= k + m
      BY <1>11, <1>12, <1>a
    <3> QED
      BY <2>2, <3>1, <1>0, <1>2 DEF Aligned, n, m
  <2> QED
    BY <2>1, <2>2, <1>a
<1>13. Aligned'
  <2> SUFFICES ASSUME NEW i \in 1..m, NEW k \in 1..(n + 1 - d), i + (n + 1 - d) <= k + m
               PROVE  marks[i] <= kept[k]
    <3>1. Len(marks') = m /\ marks' = marks /\ Len(cb'.events) = n + 1 - d
      BY <1>1, <1>5, <1>6 DEF m
    <3> QED
      BY <3>1, <1>6, <1>11, <1>a DEF Aligned
  <2>1. k + d \in 1..(n + 1) /\ i + (n + 1) <= (k + d) + m
    BY <1>a
  <2> QED
    BY <2>1, <1>5, <1>12
<1>14. Spaced'
  <2> SUFFICES ASSUME ~ cb'.open, NEW i \in 1..m, i + (n + 1 - d) <= m
               PROVE  Old(marks[i])
    <3>1. Len(marks') = m /\ marks' = marks /\ Len(cb'.events) = n + 1 - d /\ now' = now
      BY <1>1, <1>5, <1>6 DEF m
    <3> QED
      BY <3>1, <1>11, <1>a DEF Spaced, Old
  <2>1. CASE i + (n + 1) <= m
    <3>1. ~ cb.open /\ i + n + Pending <= m
      BY <2>1, <1>6, <1>11, <1>a
    <3> QED
      BY <3>1, <1>0 DEF Spaced, n, m
  <2>2. CASE ~ (i + (n + 1) <= m)
    <3> DEFINE k == i + (n + 1) - m
    <3>1. k \in 1..d /\ k \in 1..(n + 1) /\ i + (n + 1) <= k + m
      BY <2>2, <1>a
    <3>2. marks[i] <= told[k] /\ expired(told[k]) /\ told[k] \in Nat
      BY <3>1, <1>3, <1>4, <1>12
    <3> QED
      BY <3>2, <1>a DEF expired, Old
  <2> QED
    BY <2>1, <2>2
<1>15. /\ l \in Nat /\ Len(log') = l + 1
       /\ log'[l + 1] = [verdict |-> "False", at |-> now]
       /\ \A i \in 1..l : log'[i] = log[i]
  BY <1>0, <1>1 DEF Types, Verdicts, l
<1>16. \A k \in 1..(n + 1) : log'[l - n + k] = [verdict |-> "False", at |-> told[k]]
  <2> TAKE k \in 1..(n + 1)
  <2>1. CASE k = n + 1
    <3>1. l - n + k = l + 1
      BY <2>1, <1>a
    <3> QED
      BY <2>1, <3>1, <1>2, <1>15
  <2>2. CASE k \in 1..n
    <3>1. l - n + k \in 1..l
      BY <2>2, <1>a
    <3>2. log[l - n + k] = [verdict |-> "False", at |-> cb.events[k]]
      BY <2>2, <1>0 DEF Logged, l, n
    <3> QED
      BY <2>2, <3>1, <3>2, <1>2, <1>15
  <2> QED
    BY <2>1, <2>2, <1>a
<1>17. Logged'
  <2> SUFFICES ASSUME NEW k \in 1..(n + 1 - d)
               PROVE  log'[(l + 1) - (n + 1 - d) + k] = [verdict |-> "False", at |-> kept[k]]
    <3>1. n + 1 - d <= l + 1
      BY <1>a
    <3> QED
      BY <3>1, <1>5, <1>6, <1>15 DEF Logged
  <2>1. k + d \in 1..(n + 1) /\ (l + 1) - (n + 1 - d) + k = l - n + (k + d)
    BY <1>a
  <2> QED
    BY <2>1, <1>5, <1>16
<1>18. BoundedHarm'
  BY <1>0, <1>1 DEF BoundedHarm
<1>19. OpenWithCause'
  <2>1. CASE Len(kept) >= Threshold
    <3>1. \A i \in 1..(l + 1) :
             i \in ((l + 1) + 1 - Threshold)..(l + 1) =>
                log'[i].verdict = "False" /\ now <= log'[i].at + Window
      <4> SUFFICES ASSUME NEW i \in 1..(l + 1), i >= (l + 1) + 1 - Threshold
                   PROVE  log'[i].verdict = "False" /\ now <= log'[i].at + Window
        BY <1>a
      <4> DEFINE k == i - l + n
      <4>1. k \in (d + 1)..(n + 1) /\ k \in 1..(n + 1) /\ l - n + k = i
        BY <2>1, <1>5, <1>a
      <4>2. ~ expired(told[k]) /\ told[k] \in Nat
        BY <4>1, <1>3, <1>4
      <4>3. log'[i] = [verdict |-> "False", at |-> told[k]]
        BY <4>1, <1>16
      <4> QED
        BY <4>2, <4>3, <1>a DEF expired
    <3>2. l + 1 >= Threshold
      BY <2>1, <1>5, <1>a
    <3> QED
      <4>1. l + 1 \in 1..Len(log') /\ log'[l + 1].at = now
        BY <1>15
      <4>2. cb'.openedAt = now
        BY <2>1, <1>6
      <4> QED
        BY <3>1, <3>2, <4>1, <4>2, <1>15 DEF OpenWithCause
  <2>2. CASE ~ (Len(kept) >= Threshold)
    BY <2>2, <1>0, <1>1, <1>6, CauseKept
  <2> QED
    BY <2>1, <2>2
<1> QED
  BY <1>7, <1>8, <1>9, <1>10, <1>13, <1>14, <1>17, <1>18, <1>19 DEF IInv

-----------------------------------------------------------------------------
(* Theorems *)

LEMMA NextIInv == ASSUME IInv, [Next]_vars PROVE IInv'
<1>1. CASE UNCHANGED vars
  BY <1>1
     DEF vars, IInv, Types, Sorted, Past, Closing, Aligned, Spaced, Logged, BoundedHarm,
         OpenWithCause, Pending, Old
<1>2. CASE Next
  <2>1. ASSUME NEW v \in Verdicts, Conclude(v) PROVE IInv'
    BY <2>1, ConcludeIInv
  <2>2. CASE TellBreaker
    BY <2>2, TellHealthyIInv, TellUnhealthyIInv
  <2> QED
    BY <1>2, <2>1, <2>2, AskBreakerIInv, WriteConditionIInv, TickIInv, RestartIInv DEF Next
<1> QED
  BY <1>1, <1>2

LEMMA IInvInvariant == Spec => []IInv
<1>1. IInv /\ [Next]_vars => IInv'
  BY NextIInv
<1> QED
  BY InitIInv, <1>1, PTL DEF Spec

\* The breaker's state is well formed, and reaching the threshold opens it
\* (RecordUnhealthyNode, Allow).
THEOREM BreakerTypes == Spec => []TypeOK
<1>1. IInv => TypeOK
  BY DEF IInv, Types, Closing, TypeOK
<1> QED
  BY <1>1, IInvInvariant, PTL

\* At most Threshold nodes in a row are marked unhealthy within the Window and
\* the Cooldown, whatever the calls' durations and failures (RecordUnhealthyNode,
\* pruneExpiredEvents, Allow).
THEOREM HarmIsBounded == Spec => []BoundedHarm
<1>1. IInv => BoundedHarm
  BY DEF IInv
<1> QED
  BY <1>1, IInvInvariant, PTL

\* The breaker opens only on Threshold unhealthy results in a row within the
\* Window (RecordUnhealthyNode, RecordHealthyNode).
THEOREM OpensWithCause == Spec => []OpenWithCause
<1>1. IInv => OpenWithCause
  BY DEF IInv
<1> QED
  BY <1>1, IInvInvariant, PTL
=============================================================================
