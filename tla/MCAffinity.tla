----------------------------- MODULE MCAffinity -----------------------------
(* A small instance of Affinity for TLC.                                   *)
EXTENDS Affinity

CONSTANTS p1, p2, k1, k2, e1, e2

\* Two providers with one account each; the first alone.
TwoTargets ==
  {[provider |-> p1, key |-> k1, endpoint |-> e1],
   [provider |-> p2, key |-> k2, endpoint |-> e2]}

OneTarget == {[provider |-> p1, key |-> k1, endpoint |-> e1]}
=============================================================================
