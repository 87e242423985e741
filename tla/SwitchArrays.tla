---------------------------- MODULE SwitchArrays ----------------------------
(***************************************************************************)
(* The arrays of a longArray, stringArray, longFile or stringFile switch.  *)
(* While a document is built, the values of the switch are pushed one by   *)
(* one on an array of the shared heap that doubles when it is full, and    *)
(* the array is put in order; isSwitchEnabled then looks a value up by     *)
(* binary search, which finds what was published only if nothing was lost  *)
(* while the array grew and every pair is in order.                        *)
(*                                                                         *)
(* Abstraction: the strings of a string array are the numbers of their     *)
(* places in the order of strcmp.                                          *)
(***************************************************************************)
EXTENDS Integers

CONSTANTS
    Value,        \* the values of the switch, and those looked up
    InitialSize,  \* elements of a new array (8 in the code)
    MaxTokens     \* bound: tokens of the switch

ASSUME ValueAssumption == Value \subseteq Int /\ 0 \in Value

ASSUME SizeAssumption == InitialSize \in Nat \ {0} /\ MaxTokens \in Nat

VARIABLES
    source,    \* "csv" of numbers, "file" of numbers, or "strings"
    elts,      \* arr->elts
    nelts,     \* arr->nelts
    nalloc,    \* arr->nalloc
    pc,        \* "read", "order", "ready" or "search"
    i, j,      \* the loops of switchconf_orderLongArray and ..StringArray
    x,         \* the value looked up
    low, high, \* the arguments of libswitch_bsearchLong and ..String
    answer     \* what the last lookup said: "none" before the first

\* History: the tokens read so far, and the values they stand for.
VARIABLES tokens, values

array == <<elts, nelts, nalloc>>
loops == <<i, j>>
lookup == <<x, low, high, answer>>
vars == <<source, array, pc, loops, lookup, tokens, values>>

Index == 0 .. nelts - 1
Contents == {elts[k] : k \in Index}

Init ==
    /\ source \in {"csv", "file", "strings"}
    /\ nelts = 0 /\ nalloc = InitialSize
    /\ elts = [k \in 0 .. InitialSize - 1 |-> 0]
    /\ pc = "read"
    /\ i = 0 /\ j = 0
    /\ x = 0 /\ low = 0 /\ high = 0 /\ answer = "none"
    /\ tokens = 0 /\ values = {}

-----------------------------------------------------------------------------
(* Building.                                                               *)

\* The elements after a push that finds the array full: a copy with as many
\* free places again.
Grown == [k \in 0 .. 2 * nalloc - 1 |-> IF k < nalloc THEN elts[k] ELSE 0]

Push(v) ==
    /\ IF nelts = nalloc
       THEN elts' = [Grown EXCEPT ![nelts] = v] /\ nalloc' = 2 * nalloc
       ELSE elts' = [elts EXCEPT ![nelts] = v] /\ UNCHANGED nalloc
    /\ nelts' = nelts + 1
    /\ values' = values \cup {v}

\* A token that is not wholly a number: parseLongArrayFromCsv passes over it,
\* and switchconf_insertLong stores what atol makes of it.
TakeToken ==
    /\ pc = "read"
    /\ tokens < MaxTokens
    /\ tokens' = tokens + 1
    /\ \/ \E v \in Value : Push(v)
       \/ source = "file" /\ Push(0)
       \/ source = "csv" /\ UNCHANGED <<array, values>>
    /\ UNCHANGED <<source, pc, loops, lookup>>

EndOfTokens ==
    /\ pc = "read"
    /\ pc' = IF nelts > 1 THEN "order" ELSE "ready"
    /\ i' = 0 /\ j' = 1
    /\ UNCHANGED <<source, array, lookup, tokens, values>>

\* One comparison of the inner loop.
Compare_Overwrite ==
    /\ pc = "order"
    /\ j < nelts
    /\ elts' = IF elts[i] > elts[j] THEN [elts EXCEPT ![i] = elts[j]] ELSE elts
    /\ j' = j + 1
    /\ UNCHANGED <<source, nelts, nalloc, pc, i, lookup, tokens, values>>

Compare ==
    /\ pc = "order"
    /\ j < nelts
    /\ elts' = IF elts[i] > elts[j]
               THEN [elts EXCEPT ![i] = elts[j], ![j] = elts[i]]
               ELSE elts
    /\ j' = j + 1
    /\ UNCHANGED <<source, nelts, nalloc, pc, i, lookup, tokens, values>>

\* The next turn of the outer loop, or its end.
NextPlace ==
    /\ pc = "order"
    /\ j >= nelts
    /\ i' = i + 1 /\ j' = i + 2
    /\ pc' = IF i + 1 < nelts THEN "order" ELSE "ready"
    /\ UNCHANGED <<source, array, lookup, tokens, values>>

-----------------------------------------------------------------------------
(* Looking up, in any reader and as often as it likes.                     *)
Ask ==
    /\ pc = "ready"
    /\ x' \in Value
    /\ low' = 0 /\ high' = nelts - 1
    /\ pc' = "search"
    /\ UNCHANGED <<source, array, loops, answer, tokens, values>>

\* One call of libswitch_bsearchLong that looks at an element.
Probe ==
    /\ pc = "search"
    /\ low <= high
    /\ LET mid == (low + high) \div 2 IN
       \/ /\ elts[mid] = x
          /\ answer' = "yes" /\ pc' = "ready"
          /\ UNCHANGED <<low, high>>
       \/ /\ elts[mid] < x
          /\ low' = mid + 1
          /\ UNCHANGED <<high, answer, pc>>
       \/ /\ elts[mid] > x
          /\ high' = mid - 1
          /\ UNCHANGED <<low, answer, pc>>
    /\ UNCHANGED <<source, array, loops, x, tokens, values>>

GiveUp_Early ==
    /\ pc = "search"
    /\ low >= high
    /\ answer' = "no" /\ pc' = "ready"
    /\ UNCHANGED <<source, array, loops, x, low, high, tokens, values>>

\* The call that finds nothing left to look at.
GiveUp ==
    /\ pc = "search"
    /\ low > high
    /\ answer' = "no" /\ pc' = "ready"
    /\ UNCHANGED <<source, array, loops, x, low, high, tokens, values>>

Next ==
    \/ TakeToken \/ EndOfTokens
    \/ Compare \/ NextPlace
    \/ Ask \/ Probe \/ GiveUp

Spec == Init /\ [][Next]_vars

-----------------------------------------------------------------------------
(* Every variable holds a value of its type, and the array is as long as   *)
(* it says (shmapr_make_array_core, shmapr_array_push).                    *)
TypeOK ==
    /\ source \in {"csv", "file", "strings"}
    /\ nelts \in Nat /\ nalloc \in Nat \ {0} /\ nelts <= nalloc
    /\ elts \in [0 .. nalloc - 1 -> Value]
    /\ pc \in {"read", "order", "ready", "search"}
    /\ i \in Nat /\ j \in Nat
    /\ x \in Value /\ low \in Int /\ high \in Int
    /\ answer \in {"none", "yes", "no"}
    /\ tokens \in 0 .. MaxTokens /\ values \subseteq Value

(* Growing and ordering lose nothing and make nothing up: the array holds  *)
(* the values published and no other (shmapr_array_push,                   *)
(* switchconf_orderLongArray).                                             *)
NothingLost == Contents = values

(* An array that can be looked up is in order (switchconf_orderLongArray   *)
(* is what libswitch_bsearchLong relies on).                               *)
InOrder ==
    pc \in {"ready", "search"} => \A k, m \in Index : k < m => elts[k] <= elts[m]

(* A lookup says yes exactly if the value was published.                   *)
FoundIffPublished ==
    pc = "ready" /\ answer # "none" => (answer = "yes" <=> x \in values)
=============================================================================
