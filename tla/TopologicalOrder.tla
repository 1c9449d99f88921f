-------------------------- MODULE TopologicalOrder --------------------------
(***************************************************************************)
(* What merging the packages' lists of search directories promises: one    *)
(* directory after the other is appended, each of them once and only after  *)
(* everything that has to precede it, and at the end the root, once.         *)
(***************************************************************************)
EXTENDS Sequences

CONSTANT Root

VARIABLES
    precedes,   \* [directory -> the directories that come before it]
    order,      \* the directories placed so far
    closed      \* whether the root was appended

Placed == {order[i] : i \in DOMAIN order}

Init == order = <<>> /\ closed = FALSE

Release(d) ==
    /\ d \notin Placed
    /\ precedes[d] \subseteq Placed
    /\ order' = Append(order, d)
    /\ UNCHANGED closed

Close ==
    /\ DOMAIN precedes \subseteq Placed
    /\ order' = Append(order, Root)
    /\ closed' = TRUE

Next ==
    /\ ~ closed
    /\ UNCHANGED precedes
    /\ Close \/ \E d \in DOMAIN precedes : Release(d)

Spec == Init /\ [][Next]_<<precedes, order, closed>>

=============================================================================
