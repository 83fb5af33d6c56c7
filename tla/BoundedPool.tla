----------------------------- MODULE BoundedPool -----------------------------
(***************************************************************************)
(* What the limit checks of the pod startup checker and of the API server   *)
(* checker promise: a process that has counted fewer objects than the limit *)
(* is admitted to create at most batch of them, and nobody else creates     *)
(* any.  Counting and creating are separate calls, so several processes may *)
(* be admitted on the same count.                                           *)
(***************************************************************************)
EXTENDS Naturals, FiniteSets

CONSTANTS
    Processes,     \* processes that run the checker
    Elements       \* the objects they create

VARIABLES
    limit, batch,  \* from the configuration: they never change
    pool,          \* the objects there are
    admitted       \* <<process, i>>: the process may still create its i-th object

vars == <<limit, batch, pool, admitted>>

Init ==
    /\ limit \in Nat
    /\ batch \in Nat
    /\ pool = {}
    /\ admitted = {}

Admit(p) ==
    /\ Cardinality(pool) < limit
    /\ admitted' = admitted \union {<<p, i>> : i \in 1..batch}
    /\ pool' = pool

\* One object more, for one of what was admitted; a process may give up the rest.
Add(token, element) ==
    /\ token \in admitted
    /\ pool' = pool \union {element}
    /\ admitted' \subseteq admitted \ {token}

Drop ==
    /\ pool' \subseteq pool
    /\ admitted' \subseteq admitted

Next ==
    /\ \/ \E p \in Processes : Admit(p)
       \/ \E token \in admitted, element \in Elements : Add(token, element)
       \/ Drop
    /\ UNCHANGED <<limit, batch>>

Spec == Init /\ [][Next]_vars

-----------------------------------------------------------------------------
\* What comes of it: the limit is exceeded by no more than what all processes but
\* the last to count, and that one's own batch but one, can add.
Bounded ==
    pool # {} => Cardinality(pool) <= limit - 1 + batch * Cardinality(Processes)
=============================================================================
