------------------------------ MODULE MCPortal ------------------------------
(* A page with two forms that ask and two that do not.                      *)
EXTENDS Portal, TLC

CONSTANTS a1, a2, p1, p2

MCForms == {a1, a2, p1, p2}
MCAsks  == {a1, a2}

\* The forms of a kind behave alike.
Symmetry == Permutations({a1, a2}) \cup Permutations({p1, p2})
=============================================================================
