------------------------------ MODULE MCWizard ------------------------------
(* An instance of Wizard: one browser, two requests at once, two people and *)
(* two cars, each of which either may own.                                  *)
EXTENDS Wizard, Naturals, FiniteSets, TLC

\* Rows are handed out, people and cars are named, in no particular order.
Symmetry ==
  Permutations(Calls) \cup Permutations(IdNos) \cup Permutations(RegNos)
    \cup Permutations(Clients) \cup Permutations(Vehicles)

\* Bound: one client or one vehicle is deleted.
OneDeletion ==
  Cardinality({i \in Clients : client[i] # NULL /\ client[i].deleted}) +
  Cardinality({v \in Vehicles : vehicle[v] # NULL /\ vehicle[v].deleted}) =< 1
=============================================================================
