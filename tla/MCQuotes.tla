------------------------------ MODULE MCQuotes ------------------------------
(***************************************************************************)
(* Small instances of Quotes for TLC.                                      *)
(***************************************************************************)
EXTENDS Quotes, TLC

Symmetry == Permutations(Requests) \cup Permutations(Offers)
            \cup Permutations(Purchases) \cup Permutations(Sessions)
=============================================================================
