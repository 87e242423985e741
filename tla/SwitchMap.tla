----------------------------- MODULE SwitchMap ------------------------------
(***************************************************************************)
(* What a hash table of the shared heap promises: a map from names to      *)
(* values that changes only at the name that is set.                       *)
(***************************************************************************)
CONSTANTS Key, Val, NoVal

VARIABLE map   \* what a lookup gives, NoVal for a name that has none

Init == map = [k \in Key |-> NoVal]

Set(k, v) == map' = [map EXCEPT ![k] = v]

Next == \E k \in Key, v \in Val \cup {NoVal} : Set(k, v)

Spec == Init /\ [][Next]_map
=============================================================================
