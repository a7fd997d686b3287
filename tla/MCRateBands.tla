---------------------------- MODULE MCRateBands ----------------------------
(* An instance of RateBands: a table of which one row may be a card for     *)
(* tomorrow, one that ends today, or one that a script has switched off.    *)
EXTENDS RateBands, TLC

CONSTANTS monarch, mua, none, null

\* Bands that meet, touch, nest, leave a gap, end within a shilling, and two
\* that the procedure refuses.
mc_Ranges == {<<0, 2>>, <<0, 4>>, <<0, 8>>, <<2, 5>>, <<2, 6>>, <<4, 8>>, <<5, 8>>, <<6, 8>>,
              <<4, 4>>, <<6, 2>>}
mc_Underwriters == {monarch, mua}

Card(u, from, to, active) ==
  [underwriter |-> u, min |-> 0, max |-> 2, from |-> from, to |-> to, active |-> active]

mc_Seeds ==
  LET Cards == UNION {{Card(u, 1, null, TRUE), Card(u, 0, 0, TRUE), Card(u, 0, null, FALSE)} :
                        u \in mc_Underwriters}
  IN  {[b \in BandIds |-> IF b = 1 THEN first ELSE none] : first \in Cards \cup {none}}

\* Underwriters behave alike.
Symmetry == Permutations(mc_Underwriters)
=============================================================================
