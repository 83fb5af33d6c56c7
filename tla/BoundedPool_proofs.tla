-------------------------- MODULE BoundedPool_proofs --------------------------
(***************************************************************************)
(* The bound of module BoundedPool, for every number of processes, limit    *)
(* and batch.  What is created and what is still admitted are counted       *)
(* together: an admission happens below the limit and leaves every process  *)
(* with a batch at most, and a creation only moves one from the second to   *)
(* the first.                                                               *)
(***************************************************************************)
EXTENDS BoundedPool, FiniteSetTheorems, TLAPS

Tokens == Processes \X (1..batch)

Shape ==
    /\ IsFiniteSet(Processes)
    /\ limit \in Nat
    /\ batch \in Nat
    /\ IsFiniteSet(pool)
    /\ admitted \subseteq Tokens

TogetherBounded ==
    /\ limit = 0 => pool = {} /\ admitted = {}
    /\ limit > 0 =>
         Cardinality(pool) + Cardinality(admitted)
           <= limit - 1 + batch * Cardinality(Processes)

IInv == Shape /\ TogetherBounded

\* The sets are finite, and there are no more tokens than batches for all processes.
Counted ==
    /\ IsFiniteSet(admitted)
    /\ Cardinality(pool) \in Nat
    /\ Cardinality(admitted) \in Nat
    /\ Cardinality(Processes) \in Nat
    /\ batch * Cardinality(Processes) \in Nat
    /\ Cardinality(admitted) <= batch * Cardinality(Processes)

LEMMA TokensCounted == Shape => Counted
<1> SUFFICES ASSUME Shape PROVE Counted
  OBVIOUS
<1>1. /\ IsFiniteSet(1..batch)
      /\ Cardinality(1..batch) = batch
  <2>1. batch \in Nat
    BY DEF Shape
  <2>2. IsFiniteSet(1..batch) /\ Cardinality(1..batch) = IF 1 > batch THEN 0 ELSE batch - 1 + 1
    BY <2>1, FS_Interval
  <2> QED
    BY <2>1, <2>2
<1>2. Cardinality(Processes) \in Nat
  BY FS_CardinalityType DEF Shape
<1>3. /\ IsFiniteSet(Tokens)
      /\ Cardinality(Tokens) = Cardinality(Processes) * batch
  BY <1>1, FS_Product DEF Shape, Tokens
<1>4. batch \in Nat
  BY DEF Shape
<1>5. Cardinality(Processes) * batch = batch * Cardinality(Processes)
  BY <1>2, <1>4
<1>6. batch * Cardinality(Processes) \in Nat
  BY <1>2, <1>4
<1>7. /\ IsFiniteSet(admitted)
      /\ Cardinality(admitted) <= Cardinality(Tokens)
  BY <1>3, FS_Subset DEF Shape
<1>8. Cardinality(admitted) \in Nat /\ Cardinality(pool) \in Nat
  BY <1>7, FS_CardinalityType DEF Shape
<1> QED
  BY <1>2, <1>3, <1>5, <1>6, <1>7, <1>8 DEF Counted

LEMMA InitIInv == IsFiniteSet(Processes) /\ Init => IInv
<1> SUFFICES ASSUME IsFiniteSet(Processes), Init PROVE IInv
  OBVIOUS
<1>1. Shape
  BY FS_EmptySet DEF Init, Shape
<1>2. Cardinality(pool) = 0 /\ Cardinality(admitted) = 0
  BY FS_EmptySet DEF Init
<1>3. TogetherBounded
  BY <1>1, <1>2, TokensCounted DEF Counted, Init, TogetherBounded, Shape
<1> QED
  BY <1>1, <1>3 DEF IInv

LEMMA NextIInv == IInv /\ [Next]_vars => IInv'
<1> SUFFICES ASSUME IInv, [Next]_vars PROVE IInv'
  OBVIOUS
<1> USE DEF IInv
<1>0. limit' = limit /\ batch' = batch
  BY DEF Next, vars
<1>c. Counted
  BY TokensCounted
<1>d. Shape' => Counted'
  BY TokensCounted, PTL
<1>1. ASSUME NEW p \in Processes, Admit(p) PROVE IInv'
  <2>1. Shape'
    BY <1>0, <1>1 DEF Shape, Admit, Tokens
  <2>2. Cardinality(admitted') <= batch * Cardinality(Processes)
    BY <2>1, <1>0, <1>d DEF Counted
  <2>3. limit > 0 /\ Cardinality(pool) <= limit - 1
    BY <1>1, <1>c DEF Counted, Admit, Shape
  <2>4. Cardinality(admitted') \in Nat /\ Cardinality(pool') = Cardinality(pool)
    BY <1>1, <2>1, <1>d DEF Admit, Counted
  <2>5. TogetherBounded'
    BY <1>0, <2>2, <2>3, <2>4, <1>c DEF Counted, TogetherBounded, Shape
  <2> QED
    BY <2>1, <2>5
<1>2. ASSUME NEW token \in admitted, NEW element \in Elements, Add(token, element)
      PROVE  IInv'
  <2>1. /\ IsFiniteSet(pool')
        /\ Cardinality(pool') <= Cardinality(pool) + 1
    <3>1. pool' = pool \union {element} /\ IsFiniteSet(pool)
      BY <1>2 DEF Add, Shape
    <3>2. /\ IsFiniteSet(pool \union {element})
          /\ \/ Cardinality(pool \union {element}) = Cardinality(pool)
             \/ Cardinality(pool \union {element}) = Cardinality(pool) + 1
      BY <3>1, FS_AddElement
    <3> QED
      BY <3>1, <3>2, <1>c DEF Counted
  <2>2. Shape'
    BY <1>0, <1>2, <2>1 DEF Shape, Add, Tokens
  <2>3. Cardinality(admitted \ {token}) = Cardinality(admitted) - 1
    BY <1>c, FS_RemoveElement DEF Counted
  <2>4. Cardinality(admitted') <= Cardinality(admitted) - 1
    <3>1. IsFiniteSet(admitted \ {token})
      BY <1>c, FS_RemoveElement DEF Counted
    <3> QED
      BY <1>2, <2>3, <3>1, FS_Subset DEF Add
  <2>5. limit > 0
    BY <1>2 DEF TogetherBounded, Shape
  <2>6. Cardinality(admitted') \in Nat /\ Cardinality(pool') \in Nat
    BY <2>2, <1>d DEF Counted
  <2>7. TogetherBounded'
    BY <1>0, <2>1, <2>4, <2>5, <2>6, <1>c DEF Counted, TogetherBounded, Shape
  <2> QED
    BY <2>2, <2>7
<1>3. ASSUME Drop PROVE IInv'
  <2>1. /\ IsFiniteSet(pool')
        /\ Cardinality(pool') <= Cardinality(pool)
        /\ Cardinality(admitted') <= Cardinality(admitted)
    BY <1>3, <1>c, FS_Subset DEF Counted, Drop, Shape
  <2>2. Shape'
    BY <1>0, <1>3, <2>1 DEF Shape, Drop, Tokens
  <2>3. Cardinality(admitted') \in Nat /\ Cardinality(pool') \in Nat
    BY <2>2, <1>d DEF Counted
  <2>4. TogetherBounded'
    BY <1>0, <1>3, <2>1, <2>3, <1>c DEF Counted, TogetherBounded, Shape, Drop
  <2> QED
    BY <2>2, <2>4
<1>4. CASE UNCHANGED vars
  BY <1>4 DEF vars, Shape, TogetherBounded, Tokens
<1> QED
  BY <1>1, <1>2, <1>3, <1>4 DEF Next

LEMMA IInvBounded == IInv => Bounded
BY TokensCounted DEF Counted, IInv, Shape, TogetherBounded, Bounded

\* Admission on a count keeps the pool bounded, however many processes are admitted
\* on the same count: Bounded, for every limit, batch and finite set of processes.
THEOREM AdmissionBounds == IsFiniteSet(Processes) /\ Spec => []Bounded
<1>1. IsFiniteSet(Processes) /\ Spec => []IInv
  BY InitIInv, NextIInv, PTL DEF Spec
<1> QED
  BY <1>1, IInvBounded, PTL
=============================================================================
