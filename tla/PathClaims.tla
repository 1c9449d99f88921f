----------------------------- MODULE PathClaims -----------------------------
(***************************************************************************)
(* What the installation phase promises about each source path: "first     *)
(* match wins".  A path starts free; a rule may claim it for a set of       *)
(* packages, or it may be discarded, and whichever comes first is final.    *)
(***************************************************************************)
CONSTANTS Path, Package

VARIABLE claim

Free == [status |-> "free", by |-> {}]
Discarded == [status |-> "discarded", by |-> {}]
ClaimedBy(pkgs) == [status |-> "claimed", by |-> pkgs]

Init == claim = [p \in Path |-> Free]

Unclaimed == {p \in Path : claim[p] = Free}

Claim(p, pkgs) == claim' = [claim EXCEPT ![p] = ClaimedBy(pkgs)]

\* Discarding a directory takes everything in it that is still free along.
Discard(gone) == claim' = [p \in Path |-> IF p \in gone THEN Discarded ELSE claim[p]]

Next ==
    \/ \E p \in Unclaimed, pkgs \in (SUBSET Package) \ {{}} : Claim(p, pkgs)
    \/ \E gone \in SUBSET Unclaimed : Discard(gone)

Spec == Init /\ [][Next]_claim

=============================================================================
