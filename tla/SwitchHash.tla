----------------------------- MODULE SwitchHash -----------------------------
(***************************************************************************)
(* The hash tables of the shared heap: one holds the modules of a          *)
(* configuration, one in each module holds its switches.  A table is an    *)
(* array of chains, indexed by the low bits of the hash, that is rebuilt   *)
(* twice as large when it holds more entries than its largest index.  A    *)
(* new table has 128 chains, so only a module of more than 127 switches    *)
(* ever makes it grow.                                                     *)
(*                                                                         *)
(* Abstractions: a chain is the sequence of its entries; Hash stands for   *)
(* the "times 33" hash of a name, and may give two names one hash.  As max *)
(* is a power of two less one, hash & max is the remainder by max + 1.     *)
(***************************************************************************)
EXTENDS Integers, FiniteSets, SequencesExt

CONSTANTS
    Key, Val, NoVal,
    Hash,         \* the hash of a name
    InitialMax    \* INITIAL_MAX, 127 in the code

ASSUME KeyAssumption == IsFiniteSet(Key)
ASSUME HashAssumption == Hash \in [Key -> Nat]
ASSUME MaxAssumption == InitialMax \in Nat
ASSUME NoValAssumption == NoVal \notin Val

VARIABLES
    table,   \* ht->array: the chain of each index
    count,   \* ht->count
    max,     \* ht->max
    free,    \* entries on ht->free
    heap     \* entries taken from the shared heap so far

hashVars == <<table, count, max, free, heap>>

HashEntry == [key : Key, hash : Nat, val : Val]

HashInit ==
    /\ table = [n \in 0 .. InitialMax |-> <<>>]
    /\ count = 0 /\ max = InitialMax
    /\ free = 0 /\ heap = 0

-----------------------------------------------------------------------------
Index(k) == Hash[k] % (max + 1)
IsFor(e, k) == e.hash = Hash[k] /\ e.key = k

\* The place of the entry of k in its chain, 0 if it has none.
Find(k) == SelectInSeq(table[Index(k)], LAMBDA e : IsFor(e, k))

\* The order in which shmapr_hash_first and _next visit the entries.
Walk(t, m) ==
    LET walk[n \in 0 .. m + 1] ==
            IF n = 0 THEN <<>> ELSE walk[n - 1] \o t[n - 1]
    IN walk[m + 1]

\* The chains of a new array of the given size, after each entry of the walk was
\* pushed in front of its chain.
Pushed(walk, size, mask) ==
    LET chains[n \in 0 .. Len(walk)] ==
            IF n = 0 THEN [i \in 0 .. size - 1 |-> <<>>]
            ELSE [chains[n - 1] EXCEPT ![walk[n].hash % mask] = <<walk[n]>> \o @]
    IN chains[Len(walk)]

\* Mutant: the entries stay where the old mask puts them.
Expanded_Mask(t) == Pushed(Walk(t, max), 2 * max + 2, max + 1)

Expanded(t) == Pushed(Walk(t, max), 2 * max + 2, 2 * max + 2)

\* The end of shmapr_hash_set: a table with too many entries grows.
Store(t, n) ==
    /\ count' = n
    /\ IF n > max
       THEN table' = Expanded(t) /\ max' = 2 * max + 1
       ELSE table' = t /\ UNCHANGED max

\* shmapr_hash_set of a name that is there.
Replace(k, v) ==
    /\ Find(k) > 0
    /\ Store([table EXCEPT ![Index(k)][Find(k)].val = v], count)
    /\ UNCHANGED <<free, heap>>

\* shmapr_hash_set of a new name: the last of its chain.
Add(k, v) ==
    /\ Find(k) = 0
    /\ Store([table EXCEPT ![Index(k)] =
                  Append(@, [key |-> k, hash |-> Hash[k], val |-> v])],
             count + 1)
    /\ IF free > 0
       THEN free' = free - 1 /\ UNCHANGED heap
       ELSE heap' = heap + 1 /\ UNCHANGED free

\* shmapr_hash_set with a NULL value.
Delete_Chain(k) ==
    /\ Find(k) > 0
    /\ table' = [table EXCEPT ![Index(k)] = SubSeq(@, 1, Find(k) - 1)]
    /\ count' = count - 1 /\ free' = free + 1
    /\ UNCHANGED <<max, heap>>

Delete(k) ==
    /\ Find(k) > 0
    /\ table' = [table EXCEPT ![Index(k)] = RemoveAt(@, Find(k))]
    /\ count' = count - 1 /\ free' = free + 1
    /\ UNCHANGED <<max, heap>>

\* shmapr_hash_get.
ValOf(k) == IF Find(k) = 0 THEN NoVal ELSE table[Index(k)][Find(k)].val

HashNext ==
    \E k \in Key :
        \/ \E v \in Val : Replace(k, v) \/ Add(k, v)
        \/ Delete(k)

HashSpec == HashInit /\ [][HashNext]_hashVars

-----------------------------------------------------------------------------
(* Every variable holds a value of its type, and there are max + 1 chains, *)
(* a power of two times the first size (shmapr_alloc_array).               *)
HashTypeOK ==
    /\ max \in Nat /\ count \in Nat /\ free \in Nat /\ heap \in Nat
    /\ table \in [0 .. max -> Seq(HashEntry)]

Visited == Walk(table, max)

(* A walk meets every name of the map once, and as many as the table says  *)
(* it counts: no entry is in two chains, on none, or there twice after a   *)
(* growth or a removal.  The shared heap loses no entry: each taken is in  *)
(* the table or on the free list, and none is taken while one is free      *)
(* (shmapr_hash_count, shmapr_hash_next, shmapr_find_entry).               *)
VisitsEachOnce ==
    /\ Len(Visited) = count
    /\ \A n, m \in 1 .. Len(Visited) :
          Visited[n].key = Visited[m].key => n = m
    /\ heap = count + free /\ heap <= Cardinality(Key)

(* The table is a map, whatever the collisions, growths and removals.      *)
Map == INSTANCE SwitchMap WITH map <- [k \in Key |-> ValOf(k)]
ImplementsMap == Map!Spec
=============================================================================
