---------------------------- MODULE MCSwitchHash ----------------------------
EXTENDS SwitchHash

CONSTANTS k1, k2, k3, k4, k5

\* Two names with one hash, two more in one chain before growth and not
\* after, one that only meets another when there is a single chain.
MCHash == k1 :> 1 @@ k2 :> 1 @@ k3 :> 3 @@ k4 :> 7 @@ k5 :> 2
=============================================================================
