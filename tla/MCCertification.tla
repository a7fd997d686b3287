-------------------------- MODULE MCCertification --------------------------
(* Instances of Certification for TLC. *)
EXTENDS Certification, TLC

CONSTANTS s1, worker, null, n

mc_PolicyNumbers == Purchases \cup {n}

\* Purchase 1 goes to AMACO, or to NTSA while AMACO is switched off; purchase 2 to
\* AMACO, which has a number n of its own for it, or to DirectLine.
mc_Route == 1 :> {"DMVIC", "AMACO"} @@ 2 :> {"DIRECTLINE", "AMACO"}
mc_Echoes == {"DIRECTLINE", "DEFINITE"}
mc_Quoted == 1 :> {1} @@ 2 :> {n}

\* One purchase, of DirectLine, which sends our reference back.
mc_OnePosted == 1 :> {"DIRECTLINE"}
mc_Ours == 1 :> {1}
============================================================================
