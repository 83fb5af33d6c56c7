------------------------------- MODULE CheckLife -------------------------------
(***************************************************************************)
(* What other controllers rely on when they create a CheckNodeHealth and    *)
(* look at it now and then: it finishes at most once, never when it is      *)
(* already being deleted, and it is never what it was before.  How it gets  *)
(* there is CheckNodeHealth's business; the HealthCheckRequest controller   *)
(* is modelled with any check that lives like this.                         *)
(***************************************************************************)
VARIABLE check   \* the check under one name, if there is one

Absent == [exists |-> FALSE, finished |-> FALSE, deleting |-> FALSE]
Present(finished, deleting) ==
    [exists |-> TRUE, finished |-> finished, deleting |-> deleting]

Init == check = Absent

Create ==
    /\ check = Absent
    /\ check' = Present(FALSE, FALSE)

Finish ==
    /\ check = Present(FALSE, FALSE)
    /\ check' = Present(TRUE, FALSE)

\* Deleted, with a finalizer to be served.
MarkDeleted ==
    \E finished \in BOOLEAN :
        /\ check = Present(finished, FALSE)
        /\ check' = Present(finished, TRUE)

\* Without one, or after.
Remove ==
    /\ check.exists
    /\ check' = Absent

Next == Create \/ Finish \/ MarkDeleted \/ Remove

Spec == Init /\ [][Next]_check
===============================================================================
