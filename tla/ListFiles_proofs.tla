-------------------------- MODULE ListFiles_proofs ---------------------------
(***************************************************************************)
(* Proofs about the arrays of SwitchArrays, for any set of values, any     *)
(* size of a new array and any number of tokens, and about the lists of    *)
(* ListFiles that are read into them, for any file, any body the server    *)
(* sends and wherever it breaks off.                                       *)
(***************************************************************************)
EXTENDS ListFiles, TLAPS

-----------------------------------------------------------------------------
(* What the loops and the search keep.                                     *)

\* The places before i are settled, and place i holds the least of what the
\* inner loop has seen.
Settled ==
    pc = "order" =>
        /\ i < j /\ j <= nelts
        /\ \A k, m \in Index : k < i /\ k < m => elts[k] <= elts[m]
        /\ \A m \in Index : i < m /\ m < j => elts[i] <= elts[m]

\* What is looked up lies between low and high, if anywhere.
Narrowed ==
    pc = "search" =>
        /\ 0 <= low /\ high < nelts
        /\ \A k \in Index : elts[k] = x => low <= k /\ k <= high

NotYetAsked == pc \in {"read", "order"} => answer = "none"

IInv ==
    /\ TypeOK /\ NothingLost
    /\ Settled /\ InOrder
    /\ Narrowed /\ NotYetAsked /\ FoundIffPublished

-----------------------------------------------------------------------------
LEMMA InitIInv == Init => IInv
<1> SUFFICES ASSUME Init PROVE IInv
  OBVIOUS
<1>1. TypeOK
  BY ValueAssumption, SizeAssumption DEF TypeOK, Init
<1>2. NothingLost
  BY DEF NothingLost, Contents, Index, Init
<1>3. QED
  BY <1>1, <1>2 DEF IInv, Settled, InOrder, Narrowed, NotYetAsked,
                    FoundIffPublished, Init

\* A push keeps the type of the array and stores one more value.
LEMMA PushKeeps ==
    ASSUME TypeOK, NothingLost, NEW v \in Value, Push(v)
    PROVE  /\ nelts' \in Nat /\ nalloc' \in Nat \ {0} /\ nelts' <= nalloc'
           /\ elts' \in [0 .. nalloc' - 1 -> Value]
           /\ values' \subseteq Value
           /\ NothingLost'
<1>0. /\ nelts \in Nat /\ nalloc \in Nat \ {0} /\ nelts <= nalloc
      /\ elts \in [0 .. nalloc - 1 -> Value] /\ values \subseteq Value
  BY DEF TypeOK
<1>1. /\ nelts' = nelts + 1 /\ values' = values \cup {v}
      /\ nalloc' \in Nat \ {0} /\ nelts' <= nalloc'
      /\ elts' \in [0 .. nalloc' - 1 -> Value]
      /\ elts'[nelts] = v
      /\ \A k \in 0 .. nelts - 1 : elts'[k] = elts[k]
  <2>1. CASE nelts = nalloc
    <3>1. Grown \in [0 .. 2 * nalloc - 1 -> Value]
      BY <1>0, ValueAssumption DEF Grown
    <3>2. \A k \in 0 .. nelts - 1 : Grown[k] = elts[k]
      BY <1>0, <2>1 DEF Grown
    <3>3. elts' = [Grown EXCEPT ![nelts] = v] /\ nalloc' = 2 * nalloc
          /\ nelts' = nelts + 1 /\ values' = values \cup {v}
      BY <2>1 DEF Push
    <3>4. QED
      BY <1>0, <2>1, <3>1, <3>2, <3>3
  <2>2. CASE nelts # nalloc
    BY <1>0, <2>2 DEF Push
  <2>3. QED
    BY <2>1, <2>2
<1>2. Index' = Index \cup {nelts}
  BY <1>0, <1>1 DEF Index
<1>3. Contents' = Contents \cup {v}
  <2>1. \A k \in Index : elts'[k] = elts[k]
    BY <1>1 DEF Index
  <2>2. QED
    BY <1>1, <1>2, <2>1 DEF Contents
<1>4. NothingLost'
  BY <1>1, <1>3 DEF NothingLost
<1>5. nelts' \in Nat /\ values' \subseteq Value
  <2>1. nelts + 1 \in Nat
    BY <1>0
  <2>2. QED
    BY <1>0, <1>1, <2>1
<1>6. QED
  BY <1>1, <1>4, <1>5

\* A comparison of the inner loop.
LEMMA CompareKeeps == ASSUME IInv, Compare PROVE IInv'
<1>0. /\ nelts \in Nat /\ nalloc \in Nat \ {0} /\ nelts <= nalloc
      /\ elts \in [0 .. nalloc - 1 -> Value]
      /\ i \in Nat /\ j \in Nat
      /\ i < j /\ j < nelts /\ pc = "order" /\ pc' = "order"
      /\ i' = i /\ j' = j + 1 /\ nelts' = nelts /\ nalloc' = nalloc
      /\ answer = "none" /\ answer' = "none"
  BY DEF IInv, TypeOK, Settled, NotYetAsked, Compare, lookup
<1>1. i \in Index /\ j \in Index /\ Index' = Index
      /\ Index \subseteq 0 .. nalloc - 1 /\ Index \subseteq Int
  BY <1>0 DEF Index
<1>2. \A k \in Index : elts[k] \in Int
  BY <1>0, <1>1, ValueAssumption
<1>3. /\ elts' \in [0 .. nalloc - 1 -> Value]
      /\ \A k \in Index \ {i, j} : elts'[k] = elts[k]
      /\ \/ elts'[i] = elts[i] /\ elts'[j] = elts[j]
         \/ elts'[i] = elts[j] /\ elts'[j] = elts[i]
      /\ elts'[i] <= elts[i] /\ elts'[i] <= elts'[j]
  <2>1. CASE elts[i] > elts[j]
    <3>1. elts' = [elts EXCEPT ![i] = elts[j], ![j] = elts[i]]
      BY <2>1 DEF Compare
    <3>2. QED
      BY <1>0, <1>1, <1>2, <2>1, <3>1
  <2>2. CASE ~ (elts[i] > elts[j])
    <3>1. elts' = elts
      BY <2>2 DEF Compare
    <3>2. QED
      BY <1>0, <1>1, <1>2, <2>2, <3>1
  <2>3. QED
    BY <2>1, <2>2
<1>4. TypeOK'
  BY <1>0, <1>3 DEF IInv, TypeOK, Compare, lookup
<1>5. NothingLost'
  <2>1. Contents' = Contents
    <3>1. \A k \in Index : elts'[k] \in Contents
      BY <1>1, <1>3 DEF Contents
    <3>2. \A k \in Index : elts[k] \in Contents'
      BY <1>1, <1>3 DEF Contents
    <3>3. QED
      BY <1>1, <3>1, <3>2 DEF Contents
  <2>2. QED
    BY <2>1 DEF IInv, NothingLost, Compare
<1>6. Settled'
  <2>1. \A k, m \in Index : k < i /\ k < m => elts'[k] <= elts'[m]
    <3>1. SUFFICES ASSUME NEW k \in Index, NEW m \in Index, k < i, k < m
                   PROVE  elts'[k] <= elts'[m]
      OBVIOUS
    <3>2. k # i /\ k # j
      BY <1>0, <1>1, <3>1
    <3>3. elts'[k] = elts[k]
      BY <1>3, <3>2
    <3>4. \A n \in Index : k < n => elts[k] <= elts[n]
      BY <1>0, <3>1 DEF IInv, Settled
    <3>5. elts[k] <= elts[i] /\ elts[k] <= elts[j] /\ elts[k] <= elts[m]
      BY <1>0, <1>1, <3>1, <3>4
    <3>6. QED
      BY <1>3, <3>3, <3>5
  <2>2. \A m \in Index : i < m /\ m < j + 1 => elts'[i] <= elts'[m]
    <3>1. SUFFICES ASSUME NEW m \in Index, i < m, m < j + 1
                   PROVE  elts'[i] <= elts'[m]
      OBVIOUS
    <3>2. CASE m = j
      BY <1>3, <3>2
    <3>3. CASE m # j
      <4>1. i < m /\ m < j /\ m # i
        BY <1>0, <1>1, <3>1, <3>3
      <4>2. elts'[m] = elts[m] /\ elts[i] <= elts[m]
        BY <1>0, <1>3, <3>3, <4>1 DEF IInv, Settled
      <4>3. elts'[i] \in Int
        BY <1>2, <1>1, <1>3
      <4>4. QED
        BY <1>1, <1>2, <1>3, <4>2, <4>3
    <3>4. QED
      BY <3>2, <3>3
  <2>3. QED
    BY <1>0, <1>1, <2>1, <2>2 DEF Settled
<1>7. QED
  BY <1>0, <1>4, <1>5, <1>6
     DEF IInv, InOrder, Narrowed, NotYetAsked, FoundIffPublished

\* The inner loop is over: place i is settled too.
LEMMA NextPlaceKeeps == ASSUME IInv, NextPlace PROVE IInv'
<1>0. /\ nelts \in Nat /\ i \in Nat /\ j \in Nat
      /\ pc = "order" /\ j = nelts /\ i < j
      /\ i' = i + 1 /\ j' = i + 2
      /\ answer = "none" /\ answer' = "none"
  BY DEF IInv, TypeOK, Settled, NotYetAsked, NextPlace, lookup
<1>1. elts' = elts /\ nelts' = nelts /\ Index' = Index /\ Index \subseteq Int
  BY DEF NextPlace, array, Index
<1>2. \A k, m \in Index : k <= i /\ k < m => elts[k] <= elts[m]
  <2>1. SUFFICES ASSUME NEW k \in Index, NEW m \in Index, k <= i, k < m
                 PROVE  elts[k] <= elts[m]
    OBVIOUS
  <2>2. k < i \/ (k = i /\ i < m /\ m < j)
    BY <1>0, <1>1, <2>1 DEF Index
  <2>3. QED
    BY <1>0, <2>1, <2>2 DEF IInv, Settled
<1>3. TypeOK'
  BY <1>0 DEF IInv, TypeOK, NextPlace, array, lookup
<1>4. NothingLost'
  BY <1>1 DEF IInv, NothingLost, Contents, NextPlace
<1>5. CASE i + 1 < nelts
  <2>1. pc' = "order"
    BY <1>5 DEF NextPlace
  <2>2. Settled'
    <3>1. \A k, m \in Index : k < i + 1 /\ k < m => elts[k] <= elts[m]
      BY <1>0, <1>1, <1>2
    <3>2. \A m \in Index : ~ (i + 1 < m /\ m < i + 2)
      BY <1>0, <1>1
    <3>3. QED
      BY <1>0, <1>1, <1>5, <3>1, <3>2 DEF Settled
  <2>3. QED
    BY <1>0, <1>3, <1>4, <2>1, <2>2
       DEF IInv, InOrder, Narrowed, NotYetAsked, FoundIffPublished
<1>6. CASE ~ (i + 1 < nelts)
  <2>1. pc' = "ready"
    BY <1>6 DEF NextPlace
  <2>2. InOrder'
    <3>1. \A k \in Index : k <= i
      BY <1>0, <1>6 DEF Index
    <3>2. QED
      BY <1>1, <1>2, <3>1 DEF InOrder
  <2>3. QED
    BY <1>0, <1>3, <1>4, <2>1, <2>2
       DEF IInv, Settled, Narrowed, NotYetAsked, FoundIffPublished
<1>7. QED
  BY <1>5, <1>6

\* A probe answers, or leaves out a half that cannot hold what is looked up.
LEMMA ProbeKeeps == ASSUME IInv, Probe PROVE IInv'
<1> DEFINE mid == (low + high) \div 2
<1>0. /\ nelts \in Nat /\ nelts <= nalloc /\ nalloc \in Nat
      /\ elts \in [0 .. nalloc - 1 -> Value] /\ x \in Value
      /\ low \in Int /\ high \in Int
      /\ pc = "search" /\ 0 <= low /\ low <= high /\ high < nelts
  BY DEF IInv, TypeOK, Narrowed, Probe
<1>1. elts' = elts /\ nelts' = nelts /\ Index' = Index /\ x' = x
      /\ values' = values
  BY DEF Probe, array, Index
<1>2. mid \in Int /\ low <= mid /\ mid <= high /\ mid \in Index
  BY <1>0 DEF Index
<1>3. \A k \in Index : elts[k] \in Int /\ k \in Int
  <2>1. \A k \in Index : k \in 0 .. nalloc - 1 /\ k \in Int
    BY <1>0 DEF Index
  <2>2. \A k \in Index : elts[k] \in Value
    BY <1>0, <2>1
  <2>3. QED
    BY <2>1, <2>2, ValueAssumption
<1>4. InOrder /\ NothingLost
  BY DEF IInv
<1>5. InOrder'
  BY <1>0, <1>1, <1>4 DEF InOrder
<1>6. NothingLost'
  BY <1>1, <1>4 DEF NothingLost, Contents
<1> HIDE DEF mid
<1>7. CASE elts[mid] = x /\ answer' = "yes" /\ pc' = "ready"
           /\ UNCHANGED <<low, high>>
  <2>1. x \in values
    BY <1>2, <1>4, <1>7 DEF NothingLost, Contents
  <2>2. TypeOK'
    BY <1>7 DEF IInv, TypeOK, Probe, array, loops
  <2>3. QED
    BY <1>1, <1>5, <1>6, <1>7, <2>1, <2>2
       DEF IInv, Settled, Narrowed, NotYetAsked, FoundIffPublished
<1>8. CASE elts[mid] < x /\ low' = mid + 1 /\ UNCHANGED <<high, answer, pc>>
  <2>1. TypeOK'
    BY <1>2, <1>8 DEF IInv, TypeOK, Probe, array, loops
  <2>2. \A k \in Index : elts[k] = x => mid < k
    <3>1. SUFFICES ASSUME NEW k \in Index, elts[k] = x, k <= mid
                   PROVE  FALSE
      BY <1>2, <1>3
    <3>2. k # mid
      BY <1>2, <1>3, <1>8, <3>1
    <3>3. elts[k] <= elts[mid]
      BY <1>0, <1>2, <1>3, <1>4, <3>1, <3>2 DEF InOrder
    <3>4. QED
      BY <1>2, <1>3, <1>8, <3>1, <3>3
  <2>3. Narrowed'
    BY <1>0, <1>1, <1>2, <1>3, <1>8, <2>2 DEF IInv, Narrowed
  <2>4. QED
    BY <1>0, <1>1, <1>5, <1>6, <1>8, <2>1, <2>3
       DEF IInv, Settled, NotYetAsked, FoundIffPublished
<1>9. CASE elts[mid] > x /\ high' = mid - 1 /\ UNCHANGED <<low, answer, pc>>
  <2>1. TypeOK'
    BY <1>2, <1>9 DEF IInv, TypeOK, Probe, array, loops
  <2>2. \A k \in Index : elts[k] = x => k < mid
    <3>1. SUFFICES ASSUME NEW k \in Index, elts[k] = x, mid <= k
                   PROVE  FALSE
      BY <1>2, <1>3
    <3>2. k # mid
      BY <1>2, <1>3, <1>9, <3>1
    <3>3. elts[mid] <= elts[k]
      BY <1>0, <1>2, <1>3, <1>4, <3>1, <3>2 DEF InOrder
    <3>4. QED
      BY <1>2, <1>3, <1>9, <3>1, <3>3
  <2>3. Narrowed'
    BY <1>0, <1>1, <1>2, <1>3, <1>9, <2>2 DEF IInv, Narrowed
  <2>4. QED
    BY <1>0, <1>1, <1>5, <1>6, <1>9, <2>1, <2>3
       DEF IInv, Settled, NotYetAsked, FoundIffPublished
<1>10. QED
  BY <1>7, <1>8, <1>9 DEF Probe, mid

LEMMA StepIInv == IInv /\ [Next]_vars => IInv'
<1> SUFFICES ASSUME IInv, [Next]_vars PROVE IInv'
  OBVIOUS
<1>1. CASE TakeToken
  <2>0. pc = "read" /\ pc' = "read" /\ answer = "none" /\ answer' = "none"
        /\ tokens' \in 0 .. MaxTokens
    BY <1>1, SizeAssumption DEF IInv, TypeOK, NotYetAsked, TakeToken, lookup
  <2>1. CASE \E v \in Value : Push(v)
    <3>1. PICK v \in Value : Push(v)
      BY <2>1
    <3>2. TypeOK' /\ NothingLost'
      BY <1>1, <2>0, <3>1, PushKeeps DEF IInv, TypeOK, TakeToken, loops, lookup
    <3>3. QED
      BY <2>0, <3>2 DEF IInv, Settled, InOrder, Narrowed, NotYetAsked,
                        FoundIffPublished
  <2>2. CASE Push(0)
    BY <2>1, <2>2, ValueAssumption
  <2>3. CASE UNCHANGED <<array, values>>
    <3>1. TypeOK' /\ NothingLost'
      BY <1>1, <2>0, <2>3
         DEF IInv, TypeOK, NothingLost, Contents, Index, TakeToken, array,
             loops, lookup
    <3>2. QED
      BY <2>0, <3>1 DEF IInv, Settled, InOrder, Narrowed, NotYetAsked,
                        FoundIffPublished
  <2>4. QED
    BY <1>1, <2>1, <2>2, <2>3 DEF TakeToken
<1>2. CASE EndOfTokens
  <2>1. TypeOK' /\ NothingLost'
    BY <1>2 DEF IInv, TypeOK, NothingLost, Contents, Index, EndOfTokens,
                array, lookup
  <2>2. answer' = "none" /\ elts' = elts /\ nelts' = nelts /\ nelts \in Nat
        /\ i' = 0 /\ j' = 1
    BY <1>2 DEF IInv, TypeOK, NotYetAsked, EndOfTokens, array, lookup
  <2>3. CASE nelts > 1
    <3>1. pc' = "order"
      BY <1>2, <2>3 DEF EndOfTokens
    <3>2. Settled'
      BY <2>2, <2>3 DEF Settled, Index
    <3>3. QED
      BY <2>1, <2>2, <3>1, <3>2
         DEF IInv, InOrder, Narrowed, NotYetAsked, FoundIffPublished
  <2>4. CASE ~ (nelts > 1)
    <3>1. pc' = "ready"
      BY <1>2, <2>4 DEF EndOfTokens
    <3>2. InOrder'
      BY <2>2, <2>4 DEF InOrder, Index
    <3>3. QED
      BY <2>1, <2>2, <3>1, <3>2
         DEF IInv, Settled, Narrowed, NotYetAsked, FoundIffPublished
  <2>5. QED
    BY <2>3, <2>4
<1>3. CASE Compare
  BY <1>3, CompareKeeps
<1>4. CASE NextPlace
  BY <1>4, NextPlaceKeeps
<1>5. CASE Ask
  <2>1. TypeOK' /\ NothingLost'
    BY <1>5 DEF IInv, TypeOK, NothingLost, Contents, Index, Ask, array, loops
  <2>2. InOrder'
    BY <1>5 DEF IInv, InOrder, Index, Ask, array
  <2>3. Narrowed'
    BY <1>5 DEF IInv, TypeOK, Narrowed, Index, Ask, array
  <2>4. QED
    BY <1>5, <2>1, <2>2, <2>3
       DEF IInv, Ask, Settled, NotYetAsked, FoundIffPublished
<1>6. CASE Probe
  BY <1>6, ProbeKeeps
<1>7. CASE GiveUp
  <2>0. pc = "search" /\ low > high /\ answer' = "no" /\ pc' = "ready"
        /\ low \in Int /\ high \in Int
    BY <1>7 DEF IInv, TypeOK, GiveUp
  <2>1. TypeOK' /\ NothingLost' /\ InOrder'
    BY <1>7 DEF IInv, TypeOK, NothingLost, InOrder, Contents, Index, GiveUp,
                array, loops
  <2>2. x \notin values
    <3>1. \A k \in Index : elts[k] # x
      BY <2>0 DEF IInv, TypeOK, Narrowed, Index
    <3>2. QED
      BY <3>1 DEF IInv, NothingLost, Contents
  <2>3. QED
    BY <1>7, <2>0, <2>1, <2>2
       DEF IInv, GiveUp, Settled, Narrowed, NotYetAsked, FoundIffPublished
<1>8. CASE UNCHANGED vars
  BY <1>8 DEF IInv, TypeOK, NothingLost, Settled, InOrder, Narrowed,
              NotYetAsked, FoundIffPublished, Contents, Index, vars, array,
              loops, lookup
<1>9. QED
  BY <1>1, <1>2, <1>3, <1>4, <1>5, <1>6, <1>7, <1>8 DEF Next

-----------------------------------------------------------------------------
LEMMA AlwaysIInv == Spec => []IInv
BY InitIInv, StepIInv, PTL DEF Spec

(* Every variable holds a value of its type, whatever is published and     *)
(* whatever is looked up.                                                  *)
THEOREM ArrayTypeCorrect == Spec => []TypeOK
<1>1. IInv => TypeOK
  BY DEF IInv
<1>2. QED
  BY <1>1, AlwaysIInv, PTL

(* Growing the array and putting it in order lose no value.                *)
THEOREM NothingEverLost == Spec => []NothingLost
<1>1. IInv => NothingLost
  BY DEF IInv
<1>2. QED
  BY <1>1, AlwaysIInv, PTL

(* The exchange sort of switchconf_orderLongArray is right: a binary       *)
(* search only ever sees an array in order.                                *)
THEOREM AlwaysInOrder == Spec => []InOrder
<1>1. IInv => InOrder
  BY DEF IInv
<1>2. QED
  BY <1>1, AlwaysIInv, PTL

(* isSwitchEnabled finds a value of an array switch exactly if the value   *)
(* was published.                                                          *)
THEOREM LookupsAreRight == Spec => []FoundIffPublished
<1>1. IInv => FoundIffPublished
  BY DEF IInv
<1>2. QED
  BY <1>1, AlwaysIInv, PTL
-----------------------------------------------------------------------------
(* The list.  What the client has received is what the server sent, and    *)
(* the whole of it unless it says an error.                                *)
Block(d, z, b) == d = [k \in 1 .. z + 1 |-> IF k <= z THEN b[k] ELSE Zero]
Holds(d, z, b) == z = Len(b) /\ (Block(d, z, b) \/ (d = <<>> /\ b = <<>>))

HttpInv ==
    /\ fn \in DOMAIN Function
    /\ resource \in Seq(Line) /\ sentBody \in Seq(Line) /\ size \in Nat
    /\ cursor \in Nat /\ cursor <= UploadSize
    /\ Function[fn].body => Holds(data, size, sentBody)
    /\ complete => transfer # "running" /\ sentBody = resource
    /\ fn = "GET" /\ transfer = "returned" => complete \/ error

\* A file that was received and could be written is the local copy ...
Taken(file) == responseCode = 200 /\ sentBody # <<>> /\ ~unwritten => file = sentBody

\* ... and is the one that is opened.
FileInv ==
    /\ stage \in {"request", "open", "lines"}
    /\ copy = NoFile \/ copy \in Seq(Line)
    /\ opened = NoFile \/ opened \in Seq(Line)
    /\ source = "csv" => stage = "lines" /\ opened = NoFile
    /\ stage # "request" /\ source # "csv" => fn = "GET" /\ transfer = "returned"
    /\ stage = "open" => Taken(copy)
    /\ stage = "lines" /\ source # "csv" => Taken(opened)

\* Value v is read from the lines before line, or before place in that one.
Before(k, p) == k < line \/ (k = line /\ p < place)
Seen(v) == \E k \in DOMAIN opened : \E p \in DOMAIN opened[k].read :
              Before(k, p) /\ opened[k].read[p] = v

LinesInv ==
    /\ line \in Nat \ {0} /\ place \in Nat \ {0}
    /\ stage # "lines" => /\ opened = NoFile /\ line = 1 /\ place = 1
                          /\ pc = "read" /\ values = {}
    /\ opened # NoFile => \A v \in Value : v \in values <=> Seen(v)
    /\ pc # "read" => AtEnd

ListInv == IInv /\ HttpInv /\ FileInv /\ LinesInv

\* Every step of the list is a step of the array, or leaves it alone.
LEMMA ListInitArrays == ListInit => Init
BY DEF ListInit

LEMMA ListStepArrays == [ListNext]_listVars => [Next]_vars
<1> SUFFICES ASSUME [ListNext]_listVars PROVE [Next]_vars
  OBVIOUS
<1>1. CASE UNCHANGED listVars
  BY <1>1 DEF listVars
<1>2. CASE Transfer \/ KeepAnswer \/ OpenFile \/ NextLine
  BY <1>2 DEF Transfer, KeepAnswer, OpenFile, NextLine
<1>3. CASE ReadValue \/ ArrayStep
  BY <1>3 DEF ReadValue, ArrayStep, Next
<1>4. QED
  BY <1>1, <1>2, <1>3 DEF ListNext

-----------------------------------------------------------------------------
(* The client.                                                             *)
LEMMA Functions ==
    /\ "GET" \in DOMAIN Function /\ Function["GET"].body
    /\ Function["GET"].errors = Failures
BY DEF Function, http_request_get_verbose

\* A block that holds a body, with one more piece copied behind it.
LEMMA BlockGrows ==
    ASSUME NEW b \in Seq(Line), NEW piece \in Seq(Line), NEW z \in Nat, NEW d,
           NEW c, Holds(d, z, b),
           c = IF z <= 0
               THEN memcpy(apr_pcalloc(Len(piece) + 1), 0, piece, Len(piece))
               ELSE memcpy(memcpy(apr_pcalloc(z + Len(piece) + 1), 0, d, z),
                           z, piece, Len(piece))
    PROVE  Block(c, z + Len(piece), b \o piece) /\ z + Len(piece) = Len(b \o piece)
<1>1. PICK m : m = Len(piece)
  OBVIOUS
<1>2. PICK all : all = b \o piece
  OBVIOUS
<1>3. /\ m \in Nat /\ z = Len(b) /\ Len(all) = z + m
      /\ \A k \in 1 .. z + m : all[k] = IF k <= z THEN b[k] ELSE piece[k - z]
  BY <1>1, <1>2 DEF Holds
<1>4. CASE z = 0
  <2>1. c = memcpy(apr_pcalloc(m + 1), 0, piece, m)
    BY <1>1, <1>4
  <2>2. c = [k \in 1 .. m + 1 |-> IF k - 0 \in 1 .. m THEN piece[k - 0] ELSE Zero]
    BY <2>1 DEF memcpy, apr_pcalloc
  <2>3. c = [k \in 1 .. z + m + 1 |-> IF k <= z + m THEN all[k] ELSE Zero]
    BY <1>3, <1>4, <2>2
  <2>4. QED
    BY <1>1, <1>2, <1>3, <2>3 DEF Block
<1>5. CASE z > 0
  <2>1. d = [k \in 1 .. z + 1 |-> IF k <= z THEN b[k] ELSE Zero]
    BY <1>3, <1>5 DEF Holds, Block
  <2>2. PICK tmp : tmp = memcpy(apr_pcalloc(z + m + 1), 0, d, z)
    OBVIOUS
  <2>3. tmp = [k \in 1 .. z + m + 1 |-> IF k - 0 \in 1 .. z THEN d[k - 0] ELSE Zero]
    BY <2>2 DEF memcpy, apr_pcalloc
  <2>4. tmp = [k \in 1 .. z + m + 1 |-> IF k <= z THEN b[k] ELSE Zero]
    BY <1>3, <2>1, <2>3
  <2>5. c = memcpy(tmp, z, piece, m)
    BY <1>1, <1>5, <2>2
  <2>6. c = [k \in 1 .. z + m + 1 |-> IF k - z \in 1 .. m THEN piece[k - z] ELSE tmp[k]]
    BY <2>4, <2>5 DEF memcpy
  <2>7. c = [k \in 1 .. z + m + 1 |-> IF k <= z + m THEN all[k] ELSE Zero]
    <3>1. ASSUME NEW k \in 1 .. z + m + 1
          PROVE  (IF k - z \in 1 .. m THEN piece[k - z] ELSE tmp[k])
                    = (IF k <= z + m THEN all[k] ELSE Zero)
      <4>1. tmp[k] = IF k <= z THEN b[k] ELSE Zero
        BY <2>4, <3>1
      <4>2. k - z \in 1 .. m <=> z < k /\ k <= z + m
        BY <1>3, <3>1
      <4>3. k <= z + m => all[k] = IF k <= z THEN b[k] ELSE piece[k - z]
        BY <1>3, <3>1
      <4>4. QED
        BY <1>3, <3>1, <4>1, <4>2, <4>3
    <3>2. QED
      BY <2>6, <3>1
  <2>8. QED
    BY <1>1, <1>2, <1>3, <2>7 DEF Block
<1>6. QED
  BY <1>4, <1>5

LEMMA PieceSteps ==
    ASSUME HttpInv, NEW piece \in Seq(Line), BodyPiece(piece)
    PROVE  /\ sentBody' \in Seq(Line) /\ size' \in Nat
           /\ Function[fn].body => Holds(data', size', sentBody')
<1>1. sentBody \in Seq(Line) /\ size \in Nat
      /\ (Function[fn].body => Holds(data, size, sentBody))
  BY DEF HttpInv
<1>2. sentBody' = sentBody \o piece /\ Len(piece) \in Nat
  BY DEF BodyPiece
<1>3. sentBody' \in Seq(Line)
  BY <1>1, <1>2
<1>4. CASE Function[fn].body
  <2>1. /\ data' = IF size <= 0
                   THEN memcpy(apr_pcalloc(Len(piece) + 1), 0, piece, Len(piece))
                   ELSE memcpy(memcpy(apr_pcalloc(size + Len(piece) + 1), 0, data, size),
                               size, piece, Len(piece))
        /\ size' = size + Len(piece)
    BY <1>1, <1>2, <1>4 DEF BodyPiece, http_memory_callback
  <2>2. Block(data', size', sentBody') /\ size' = Len(sentBody')
    BY <1>1, <1>2, <1>4, <2>1, BlockGrows
  <2>3. QED
    BY <1>1, <1>2, <1>3, <2>1, <2>2 DEF Holds
<1>5. CASE ~ Function[fn].body
  <2>1. size' = size
    BY <1>5 DEF BodyPiece
  <2>2. QED
    BY <1>1, <1>3, <1>5, <2>1
<1>6. QED
  BY <1>4, <1>5

\* What a block holds, as a caller sees it.
LEMMA HoldsBody ==
    ASSUME NEW b \in Seq(Line), NEW z \in Nat, NEW d, Holds(d, z, b)
    PROVE  /\ z = Len(b) /\ (d = Append(b, Zero) \/ (d = <<>> /\ b = <<>>))
           /\ z > 0 <=> b # <<>>
           /\ z > 0 => [k \in 1 .. z |-> d[k]] = b
<1>1. z = Len(b) /\ b = [k \in 1 .. z |-> b[k]]
  BY DEF Holds
<1>2. z > 0 <=> b # <<>>
  BY <1>1
<1>3. CASE Block(d, z, b)
  <2>1. d = [k \in 1 .. z + 1 |-> IF k <= z THEN b[k] ELSE Zero]
    BY <1>3 DEF Block
  <2>2. PICK a : a = Append(b, Zero)
    OBVIOUS
  <2>3. a = [k \in 1 .. z + 1 |-> IF k <= z THEN b[k] ELSE Zero]
    BY <1>1, <2>2
  <2>4. [k \in 1 .. z |-> d[k]] = [k \in 1 .. z |-> b[k]]
    BY <2>1
  <2>5. QED
    BY <1>1, <1>2, <2>1, <2>2, <2>3, <2>4
<1>4. CASE d = <<>> /\ b = <<>>
  BY <1>1, <1>2, <1>4
<1>5. QED
  BY <1>3, <1>4 DEF Holds

LEMMA UploadSteps ==
    ASSUME cursor \in Nat, cursor <= UploadSize, http_put_callback
    PROVE  cursor' \in Nat /\ cursor' <= UploadSize
<1>1. UploadSize \in Nat /\ BufferSize \in Nat
  BY HttpBoundAssumption
<1>2. cursor' = cursor + Lesser(BufferSize, UploadSize - cursor) /\ cursor < UploadSize
  BY DEF http_put_callback
<1>3. QED
  BY <1>1, <1>2 DEF Lesser

LEMMA TransferHttp ==
    ASSUME HttpInv, Transfer
    PROVE  HttpInv'
<1>1. /\ fn \in DOMAIN Function /\ sentBody \in Seq(Line) /\ size \in Nat
      /\ resource \in Seq(Line)
      /\ cursor \in Nat /\ cursor <= UploadSize
      /\ Function[fn].body => Holds(data, size, sentBody)
      /\ complete => transfer # "running" /\ sentBody = resource
      /\ fn = "GET" /\ transfer = "returned" => complete \/ error
      /\ UNCHANGED <<vars, files>> /\ resource' = resource
  BY DEF HttpInv, Transfer, files
<1>2. CASE StatusLine \/ HeaderLine
  BY <1>1, <1>2 DEF StatusLine, HeaderLine, HttpInv
<1>3. CASE http_put_callback
  <2>1. cursor' \in Nat /\ cursor' <= UploadSize
    BY <1>1, <1>3, UploadSteps
  <2>2. QED
    BY <1>1, <1>3, <2>1 DEF http_put_callback, HttpInv
<1>4. CASE Fail
  <2>1. PICK res \in Failures : error' = (res \in Function[fn].errors)
    BY <1>4 DEF Fail
  <2>2. fn = "GET" => error'
    BY <2>1, Functions
  <2>3. transfer = "running" /\ UNCHANGED <<fn, responseCode, data, size, headers_out,
                                            cursor, sentBody, complete>>
    BY <1>4 DEF Fail
  <2>4. QED
    BY <1>1, <2>2, <2>3 DEF HttpInv
<1>5. CASE \E piece \in Seq(Line) : BodyPiece(piece)
  <2>1. PICK piece \in Seq(Line) : BodyPiece(piece)
    BY <1>5
  <2>2. /\ sentBody' \in Seq(Line) /\ size' \in Nat
        /\ Function[fn].body => Holds(data', size', sentBody')
    BY <2>1, PieceSteps
  <2>3. /\ transfer = "running"
        /\ UNCHANGED <<fn, transfer, responseCode, headers_out, cursor, error, complete>>
    BY <2>1 DEF BodyPiece
  <2>4. QED
    BY <1>1, <2>2, <2>3 DEF HttpInv
<1>6. CASE sentBody = resource /\ Succeed
  <2>1. /\ transfer = "running" /\ complete' = TRUE /\ transfer' = Returns
        /\ UNCHANGED <<fn, responseCode, data, size, headers_out, cursor, error, sentBody>>
    BY <1>6 DEF Succeed
  <2>2. transfer' # "running"
    BY <2>1 DEF Returns
  <2>3. QED
    BY <1>1, <1>6, <2>1, <2>2 DEF HttpInv
<1>7. ASSUME NEW n \in Len(sentBody) .. Len(resource)
      PROVE  /\ SubSeq(resource, Len(sentBody) + 1, n) \in Seq(Line)
             /\ \A l \in Line :
                   Append(SubSeq(resource, Len(sentBody) + 1, n), l) \in Seq(Line)
  <2>1. resource \in Seq(Line) /\ Len(sentBody) + 1 \in 1 .. Len(resource) + 1
        /\ n \in 0 .. Len(resource)
    BY <1>1, <1>7
  <2>2. SubSeq(resource, Len(sentBody) + 1, n) \in Seq(Line)
    BY <2>1
  <2>3. QED
    BY <2>2
<1>8. QED
  BY <1>2, <1>3, <1>4, <1>5, <1>6, <1>7 DEF Transfer

-----------------------------------------------------------------------------
(* The file that is read.                                                  *)

\* A push stores its value in the place after the last.
LEMMA PushStores ==
    ASSUME TypeOK, NEW v \in Value, Push(v)
    PROVE  elts'[nelts] = v /\ values' = values \cup {v}
<1>1. /\ nelts \in Nat /\ nalloc \in Nat \ {0} /\ nelts <= nalloc
      /\ elts \in [0 .. nalloc - 1 -> Value]
  BY DEF TypeOK
<1>2. CASE nelts = nalloc
  <2>1. elts' = [Grown EXCEPT ![nelts] = v] /\ values' = values \cup {v}
    BY <1>2 DEF Push
  <2>2. nelts \in DOMAIN Grown
    BY <1>1, <1>2 DEF Grown
  <2>3. QED
    BY <2>1, <2>2
<1>3. CASE nelts # nalloc
  <2>1. elts' = [elts EXCEPT ![nelts] = v] /\ values' = values \cup {v}
    BY <1>3 DEF Push
  <2>2. nelts \in DOMAIN elts
    BY <1>1, <1>3
  <2>3. QED
    BY <2>1, <2>2
<1>4. QED
  BY <1>2, <1>3

\* The lines of a file and the values of a line have their places.
LEMMA LineType ==
    ASSUME NEW f \in Seq(Line)
    PROVE  /\ Len(f) \in Nat /\ DOMAIN f = 1 .. Len(f)
           /\ \A k \in DOMAIN f :
                 /\ f[k] \in Line /\ k \in Int
                 /\ f[k].read \in Seq(Value) /\ f[k].written \subseteq Value
                 /\ Len(f[k].read) \in Nat /\ DOMAIN f[k].read = 1 .. Len(f[k].read)
                 /\ \A p \in DOMAIN f[k].read : f[k].read[p] \in Value /\ p \in Int
<1>1. Len(f) \in Nat /\ DOMAIN f = 1 .. Len(f) /\ \A k \in DOMAIN f : f[k] \in Line
  OBVIOUS
<1>2. ASSUME NEW k \in DOMAIN f
      PROVE  /\ f[k].read \in Seq(Value) /\ f[k].written \subseteq Value
             /\ Len(f[k].read) \in Nat /\ DOMAIN f[k].read = 1 .. Len(f[k].read)
             /\ \A p \in DOMAIN f[k].read : f[k].read[p] \in Value /\ p \in Int
  <2>1. f[k] \in [read : Seq(Value), written : SUBSET Value]
    BY <1>1, LineAssumption
  <2>2. PICK r : r = f[k].read
    OBVIOUS
  <2>3. r \in Seq(Value) /\ f[k].written \subseteq Value
    BY <2>1, <2>2
  <2>4. /\ Len(r) \in Nat /\ DOMAIN r = 1 .. Len(r)
        /\ \A p \in DOMAIN r : r[p] \in Value /\ p \in Int
    BY <2>3
  <2>5. QED
    BY <2>2, <2>3, <2>4
<1>3. \A k \in DOMAIN f : k \in Int
  BY <1>1
<1>4. QED
  BY <1>1, <1>2, <1>3

\* One value more is one more that is seen, and the end of a line none.
LEMMA SeenMore ==
    ASSUME line \in Nat, place \in Nat, line' = line, place' = place + 1,
           opened' = opened, opened \in Seq(Line), line \in DOMAIN opened,
           place \in DOMAIN opened[line].read, NEW v
    PROVE  Seen(v)' <=> Seen(v) \/ opened[line].read[place] = v
<1>1. ASSUME NEW k \in DOMAIN opened, NEW p \in DOMAIN opened[k].read
      PROVE  Before(k, p)' <=> Before(k, p) \/ (k = line /\ p = place)
  <2>1. k \in Int /\ p \in Int
    BY LineType
  <2>2. (k < line \/ (k = line /\ p < place + 1))
        <=> (k < line \/ (k = line /\ p < place)) \/ (k = line /\ p = place)
    BY <2>1
  <2>3. QED
    BY <2>2 DEF Before
<1>2. Seen(v)' <=> \E k \in DOMAIN opened : \E p \in DOMAIN opened[k].read :
                      Before(k, p)' /\ opened[k].read[p] = v
  BY DEF Seen
<1>3. QED
  BY <1>1, <1>2 DEF Seen

LEMMA SeenNext ==
    ASSUME line \in Nat, place \in Nat, line' = line + 1, place' = 1,
           opened' = opened, opened \in Seq(Line), line \in DOMAIN opened,
           place > Len(opened[line].read), NEW v
    PROVE  Seen(v)' <=> Seen(v)
<1>1. ASSUME NEW k \in DOMAIN opened, NEW p \in DOMAIN opened[k].read
      PROVE  Before(k, p)' <=> Before(k, p)
  <2>1. PICK n : n = Len(opened[k].read)
    OBVIOUS
  <2>2. k \in Int /\ n \in Nat /\ p \in 1 .. n
    BY <2>1, LineType
  <2>3. k = line => place > n
    BY <2>1
  <2>4. (k < line + 1 \/ (k = line + 1 /\ p < 1))
        <=> (k < line \/ (k = line /\ p < place))
    BY <2>2, <2>3
  <2>5. QED
    BY <2>4 DEF Before
<1>2. Seen(v)' <=> \E k \in DOMAIN opened : \E p \in DOMAIN opened[k].read :
                      Before(k, p)' /\ opened[k].read[p] = v
  BY DEF Seen
<1>3. QED
  BY <1>1, <1>2 DEF Seen

-----------------------------------------------------------------------------
(* The invariant holds before the request, and every step keeps it.        *)
LEMMA ListInvInit == ListInit => ListInv
<1> SUFFICES ASSUME ListInit PROVE ListInv
  OBVIOUS
<1>1. IInv
  BY ListInitArrays, InitIInv
<1>2. /\ fn \in DOMAIN Function /\ transfer = "running" /\ responseCode = 0
      /\ data = <<>> /\ size = 0 /\ sentBody = <<>> /\ cursor = 0 /\ complete = FALSE
      /\ opened = NoFile /\ line = 1 /\ place = 1 /\ unwritten = FALSE
      /\ stage = IF source = "csv" THEN "lines" ELSE "request"
      /\ copy \in {NoFile} \cup {<<l>> : l \in Line}
      /\ pc = "read" /\ values = {}
      /\ source = "csv" => copy = NoFile
  BY DEF ListInit, HttpInit, Init
<1>3. HttpInv
  <2>1. resource \in Seq(Line)
    BY HttpBoundAssumption DEF ListInit
  <2>2. QED
    BY <1>2, <2>1, HttpBoundAssumption DEF HttpInv, Holds
<1>4. copy = NoFile \/ copy \in Seq(Line)
  <2>1. CASE copy # NoFile
    <3>1. PICK l \in Line : copy = <<l>>
      BY <1>2, <2>1
    <3>2. <<l>> \in Seq(Line)
      OBVIOUS
    <3>3. QED
      BY <3>1, <3>2
  <2>2. QED
    BY <2>1
<1>5. FileInv
  BY <1>2, <1>4 DEF FileInv, Taken
<1>6. LinesInv
  BY <1>2 DEF LinesInv
<1>7. QED
  BY <1>1, <1>3, <1>5, <1>6 DEF ListInv

LEMMA TransferStep ==
    ASSUME ListInv, Transfer PROVE HttpInv' /\ FileInv' /\ LinesInv'
<1>1. HttpInv'
  BY TransferHttp DEF ListInv
<1>2. /\ stage = "request"
      /\ UNCHANGED <<source, pc, values, resource, copy, stage, opened, line,
                     place, unwritten>>
  BY DEF Transfer, vars, files
<1>3. FileInv /\ LinesInv
  BY DEF ListInv
<1>4. FileInv'
  BY <1>2, <1>3 DEF FileInv
<1>5. LinesInv'
  BY <1>2, <1>3 DEF LinesInv, AtEnd
<1>6. QED
  BY <1>1, <1>4, <1>5

LEMMA KeepAnswerStep ==
    ASSUME ListInv, KeepAnswer PROVE HttpInv' /\ FileInv' /\ LinesInv'
<1>1. /\ stage = "request" /\ stage' = "open" /\ fn = "GET" /\ transfer = "returned"
      /\ UNCHANGED <<source, pc, values, resource, opened, line, place>>
      /\ UNCHANGED <<fn, transfer, responseCode, data, size, cursor, error, sentBody, complete>>
  BY DEF KeepAnswer, vars, http
<1>2. HttpInv /\ FileInv /\ LinesInv
  BY DEF ListInv
<1>3. HttpInv'
  BY <1>1, <1>2 DEF HttpInv
<1>4. /\ sentBody \in Seq(Line) /\ (copy = NoFile \/ copy \in Seq(Line))
      /\ source # "csv"
  BY <1>1, <1>2 DEF HttpInv, FileInv
<1>9. /\ size > 0 <=> sentBody # <<>>
      /\ size > 0 => [k \in 1 .. size |-> data[k]] = sentBody
  BY <1>1, <1>2, Functions, HoldsBody DEF HttpInv
<1>5. (copy' = NoFile \/ copy' \in Seq(Line)) /\ Taken(copy)'
  <2>1. CASE http_is200_OK /\ size > 0
    <3>1. copy' = sentBody \/ (unwritten' = TRUE /\ copy' = copy)
      BY <1>9, <2>1 DEF KeepAnswer
    <3>2. QED
      BY <1>1, <1>4, <3>1 DEF Taken
  <2>2. CASE ~ (http_is200_OK /\ size > 0)
    <3>1. copy' = copy /\ (responseCode # 200 \/ sentBody = <<>>)
      BY <1>1, <1>9, <2>2 DEF KeepAnswer, http_is200_OK
    <3>2. QED
      BY <1>1, <1>4, <3>1 DEF Taken
  <2>3. QED
    BY <2>1, <2>2
<1>6. FileInv'
  BY <1>1, <1>2, <1>4, <1>5 DEF FileInv
<1>7. LinesInv'
  BY <1>1, <1>2 DEF LinesInv, AtEnd
<1>8. QED
  BY <1>3, <1>6, <1>7

LEMMA OpenFileStep ==
    ASSUME ListInv, OpenFile PROVE HttpInv' /\ FileInv' /\ LinesInv'
<1>1. /\ stage = "open" /\ stage' = "lines" /\ opened' = copy
      /\ UNCHANGED <<source, pc, values, resource, copy, line, place, unwritten>>
      /\ UNCHANGED <<fn, transfer, responseCode, data, size, cursor, error, sentBody, complete>>
  BY DEF OpenFile, vars, http
<1>2. HttpInv /\ FileInv /\ LinesInv
  BY DEF ListInv
<1>3. HttpInv'
  BY <1>1, <1>2 DEF HttpInv
<1>4. FileInv'
  BY <1>1, <1>2 DEF FileInv, Taken
<1>5. /\ pc = "read" /\ values = {} /\ line = 1 /\ place = 1
      /\ copy = NoFile \/ copy \in Seq(Line)
  BY <1>1, <1>2 DEF LinesInv, FileInv
<1>6. ASSUME opened' # NoFile, NEW v \in Value PROVE ~ Seen(v)'
  <2>1. line' = 1 /\ place' = 1 /\ opened' \in Seq(Line)
    BY <1>1, <1>5, <1>6
  <2>2. ASSUME NEW k \in DOMAIN opened', NEW p \in DOMAIN opened'[k].read
        PROVE  ~ Before(k, p)'
    <3>1. PICK f : f = opened'
      OBVIOUS
    <3>2. PICK n, m : n = Len(f[k].read) /\ m = Len(f)
      OBVIOUS
    <3>3. n \in Nat /\ m \in Nat /\ k \in 1 .. m /\ p \in 1 .. n
      BY <2>1, <3>1, <3>2, LineType
    <3>4. ~ (k < 1 \/ (k = 1 /\ p < 1))
      BY <3>3
    <3>5. QED
      BY <2>1, <3>4 DEF Before
  <2>3. QED
    BY <2>2 DEF Seen
<1>7. LinesInv'
  BY <1>1, <1>5, <1>6 DEF LinesInv
<1>8. QED
  BY <1>3, <1>4, <1>7

LEMMA ReadValueStep ==
    ASSUME ListInv, ReadValue PROVE HttpInv' /\ FileInv' /\ LinesInv'
<1>1. /\ stage = "lines" /\ opened # NoFile /\ ~ AtEnd /\ TakeToken
      /\ place <= Len(opened[line].read) /\ place' = place + 1
      /\ nelts' = nelts + 1 /\ elts'[nelts] = opened[line].read[place]
      /\ UNCHANGED <<source, pc, resource, copy, stage, opened, line, unwritten>>
      /\ UNCHANGED <<fn, transfer, responseCode, data, size, cursor, error, sentBody, complete>>
  BY DEF ReadValue, TakeToken, AtEnd, http
<1>2. HttpInv /\ FileInv /\ LinesInv /\ IInv
  BY DEF ListInv
<1>3. HttpInv' /\ FileInv'
  BY <1>1, <1>2 DEF HttpInv, FileInv, Taken
<1>4. /\ opened \in Seq(Line) /\ line \in Nat \ {0} /\ place \in Nat \ {0}
      /\ \A v \in Value : v \in values <=> Seen(v)
  BY <1>1, <1>2 DEF FileInv, LinesInv
<1>5. line \in DOMAIN opened /\ place \in DOMAIN opened[line].read
  <2>1. Len(opened) \in Nat /\ DOMAIN opened = 1 .. Len(opened)
    BY <1>4, LineType
  <2>2. line \in DOMAIN opened
    BY <1>1, <1>4, <2>1 DEF AtEnd
  <2>3. Len(opened[line].read) \in Nat
        /\ DOMAIN opened[line].read = 1 .. Len(opened[line].read)
    BY <1>4, <2>2, LineType
  <2>4. QED
    BY <1>1, <1>4, <2>2, <2>3
<1>6. PICK w : w = opened[line].read[place]
  OBVIOUS
<1>7. values' = values \cup {w}
  <2>1. TypeOK /\ nelts \in Nat
    BY <1>2 DEF IInv, TypeOK
  <2>2. nelts' # nelts
    BY <1>1, <2>1
  <2>3. PICK v \in Value : Push(v)
    BY <1>1, <2>2, ValueAssumption DEF TakeToken, array
  <2>4. elts'[nelts] = v /\ values' = values \cup {v}
    BY <2>1, <2>3, PushStores
  <2>5. QED
    BY <1>1, <1>6, <2>4
<1>8. ASSUME NEW v \in Value PROVE v \in values' <=> Seen(v)'
  <2>1. Seen(v)' <=> Seen(v) \/ w = v
    BY <1>1, <1>4, <1>5, <1>6, SeenMore
  <2>2. QED
    BY <1>4, <1>7, <2>1
<1>9. LinesInv'
  <2>1. place' \in Nat \ {0} /\ line' \in Nat \ {0} /\ pc' = "read" /\ stage' = "lines"
    BY <1>1, <1>4 DEF TakeToken
  <2>2. QED
    BY <1>8, <2>1 DEF LinesInv
<1>10. QED
  BY <1>3, <1>9

LEMMA NextLineStep ==
    ASSUME ListInv, NextLine PROVE HttpInv' /\ FileInv' /\ LinesInv'
<1>1. /\ stage = "lines" /\ opened # NoFile /\ ~ AtEnd
      /\ place > Len(opened[line].read) /\ line' = line + 1 /\ place' = 1
      /\ UNCHANGED <<source, pc, values, resource, copy, stage, opened, unwritten>>
      /\ UNCHANGED <<fn, transfer, responseCode, data, size, cursor, error, sentBody, complete>>
  BY DEF NextLine, AtEnd, vars, http
<1>2. HttpInv /\ FileInv /\ LinesInv
  BY DEF ListInv
<1>3. HttpInv' /\ FileInv'
  BY <1>1, <1>2 DEF HttpInv, FileInv, Taken
<1>4. /\ opened \in Seq(Line) /\ line \in Nat \ {0} /\ place \in Nat \ {0}
      /\ \A v \in Value : v \in values <=> Seen(v)
      /\ pc = "read"
  BY <1>1, <1>2 DEF FileInv, LinesInv
<1>5. line \in DOMAIN opened
  <2>1. Len(opened) \in Nat /\ DOMAIN opened = 1 .. Len(opened)
    BY <1>4, LineType
  <2>2. QED
    BY <1>1, <1>4, <2>1 DEF AtEnd
<1>6. ASSUME NEW v \in Value PROVE v \in values' <=> Seen(v)'
  <2>1. Seen(v)' <=> Seen(v)
    BY <1>1, <1>4, <1>5, SeenNext
  <2>2. QED
    BY <1>1, <1>4, <2>1
<1>7. LinesInv'
  <2>1. place' \in Nat \ {0} /\ line' \in Nat \ {0} /\ pc' = "read" /\ stage' = "lines"
    BY <1>1, <1>4
  <2>2. QED
    BY <1>6, <2>1 DEF LinesInv
<1>8. QED
  BY <1>3, <1>7

LEMMA ArrayStepStep ==
    ASSUME ListInv, ArrayStep PROVE HttpInv' /\ FileInv' /\ LinesInv'
<1>1. /\ stage = "lines" /\ AtEnd
      /\ UNCHANGED <<resource, copy, stage, opened, line, place, unwritten>>
      /\ UNCHANGED <<fn, transfer, responseCode, data, size, cursor, error, sentBody, complete>>
  BY DEF ArrayStep, files, http
<1>2. HttpInv /\ FileInv /\ LinesInv
  BY DEF ListInv
<1>3. source' = source /\ (source # "csv" => values' = values)
  BY DEF ArrayStep, TakeToken, EndOfTokens, Compare, NextPlace, Ask, Probe, GiveUp
<1>4. HttpInv' /\ FileInv'
  BY <1>1, <1>2, <1>3 DEF HttpInv, FileInv, Taken
<1>5. opened # NoFile => source # "csv"
  BY <1>2 DEF FileInv
<1>6. \A v : Seen(v)' <=> Seen(v)
  BY <1>1 DEF Seen, Before
<1>7. AtEnd'
  BY <1>1 DEF AtEnd
<1>8. LinesInv'
  BY <1>1, <1>2, <1>3, <1>5, <1>6, <1>7 DEF LinesInv
<1>9. QED
  BY <1>4, <1>8

LEMMA ListInvStep == ListInv /\ [ListNext]_listVars => ListInv'
<1> SUFFICES ASSUME ListInv, [ListNext]_listVars PROVE ListInv'
  OBVIOUS
<1>1. IInv'
  BY ListStepArrays, StepIInv DEF ListInv
<1>2. CASE UNCHANGED listVars
  <2>1. /\ UNCHANGED <<source, pc, values>>
        /\ UNCHANGED <<resource, copy, stage, opened, line, place, unwritten>>
        /\ UNCHANGED <<fn, transfer, responseCode, data, size, cursor, error, sentBody, complete>>
    BY <1>2 DEF listVars, vars, files, http
  <2>2. \A v : Seen(v)' <=> Seen(v)
    BY <2>1 DEF Seen, Before
  <2>3. HttpInv /\ FileInv /\ LinesInv
    BY DEF ListInv
  <2>4. HttpInv' /\ FileInv'
    BY <2>1, <2>3 DEF HttpInv, FileInv, Taken
  <2>5. LinesInv'
    BY <2>1, <2>2, <2>3 DEF LinesInv, AtEnd
  <2>6. QED
    BY <1>1, <2>4, <2>5 DEF ListInv
<1>3. CASE ListNext
  <2>1. HttpInv' /\ FileInv' /\ LinesInv'
    BY <1>3, TransferStep, KeepAnswerStep, OpenFileStep, ReadValueStep, NextLineStep,
       ArrayStepStep DEF ListNext
  <2>2. QED
    BY <1>1, <2>1 DEF ListInv
<1>4. QED
  BY <1>2, <1>3

LEMMA ListInvAlways == ListSpec => []ListInv
BY ListInvInit, ListInvStep, PTL DEF ListSpec

-----------------------------------------------------------------------------
(* The list of a switch file is built, put in order and searched by steps  *)
(* of SwitchArrays alone: reading a file or asking the repository does     *)
(* nothing to the array that a csv switch could not do, so what is proved  *)
(* of the arrays holds of every list (switchconf_buildFromFile,            *)
(* switchconf_insertLong, switchconf_insertString).                        *)
THEOREM ListsAreArrays == ListSpec => Spec
<1>1. ListInit => Init
  BY ListInitArrays
<1>2. [ListNext]_listVars => [Next]_vars
  BY ListStepArrays
<1>3. QED
  BY <1>1, <1>2, PTL DEF ListSpec, Spec

(* The block a caller of the client is given holds what the server sent,   *)
(* in order and as far as it came, and one zero behind it, and its size is *)
(* right, for every function, every cut of the body into pieces, empty     *)
(* ones among them, and wherever the transfer stops; an upload hands over  *)
(* no more bytes than there are (http_memory_callback, http_put_callback). *)
THEOREM BodiesArrive == ListSpec => []BodyAsSent
<1>1. ListInv => BodyAsSent
  BY HoldsBody DEF ListInv, HttpInv, BodyAsSent
<1>2. QED
  BY <1>1, ListInvAlways, PTL

(* The list that is searched is the repository's, but for a status other   *)
(* than 200, an answer that broke off with an error nobody reads, a copy   *)
(* that could not be written and an empty list (cc_getRemoteResourcePath). *)
THEOREM ListsComeFromRepository == ListSpec => []ListFromRepository
<1>1. ListInv => ListFromRepository
  <2> SUFFICES ASSUME ListInv, stage = "lines", source # "csv", responseCode = 200,
                      ~ unwritten, resource # <<>>, opened # resource
               PROVE  ~ complete /\ error
    BY DEF ListFromRepository, ListInv, HttpInv
  <2>1. fn = "GET" /\ transfer = "returned" /\ Taken(opened)
    BY DEF ListInv, FileInv
  <2>2. (complete => sentBody = resource) /\ (complete \/ error)
    BY <2>1 DEF ListInv, HttpInv
  <2>3. ~ complete
    BY <2>1, <2>2 DEF Taken
  <2>4. QED
    BY <2>2, <2>3
<1>2. QED
  BY <1>1, ListInvAlways, PTL

(* A lookup finds every value written on a line of its own, and nothing    *)
(* else but what a comment or an overlong line is read as, whatever the    *)
(* file holds (switchconf_buildFromFile, libswitch_bsearchLong).           *)
THEOREM ListsAnswer == ListSpec => []AnswersAsListed
<1>1. ListInv => AnswersAsListed
  <2> SUFFICES ASSUME ListInv, pc = "ready", answer # "none", opened # NoFile
               PROVE  AnswersAsListed
    BY DEF AnswersAsListed
  <2> DEFINE lines == {opened[k] : k \in DOMAIN opened}
             plain == UNION {l.written : l \in {m \in lines : Plain(m)}}
             odd == UNION {{l.read[k] : k \in DOMAIN l.read} :
                             l \in {m \in lines : ~Plain(m)}}
  <2>1. /\ opened \in Seq(Line) /\ x \in Value /\ line \in Nat
        /\ line > Len(opened)
        /\ answer = "yes" <=> x \in values
        /\ \A v \in Value : v \in values <=> Seen(v)
    BY DEF ListInv, IInv, TypeOK, FoundIffPublished, FileInv, LinesInv, AtEnd
  <2>2. answer = "yes" <=> \E k \in DOMAIN opened : \E p \in DOMAIN opened[k].read :
                              opened[k].read[p] = x
    <3>1. ASSUME NEW k \in DOMAIN opened, NEW p \in DOMAIN opened[k].read
          PROVE  Before(k, p)
      <4>1. PICK n : n = Len(opened)
        OBVIOUS
      <4>2. n \in Nat /\ k \in 1 .. n /\ line > n
        BY <2>1, <4>1, LineType
      <4>3. k < line
        BY <2>1, <4>2
      <4>4. QED
        BY <4>3 DEF Before
    <3>2. answer = "yes" <=> Seen(x)
      BY <2>1
    <3>3. QED
      BY <3>1, <3>2 DEF Seen
  <2>3. ASSUME x \in plain PROVE answer = "yes"
    <3>1. PICK l \in lines : Plain(l) /\ x \in l.written
      BY <2>3
    <3>2. PICK k \in DOMAIN opened : l = opened[k]
      BY <3>1
    <3>3. PICK p \in DOMAIN l.read : l.read[p] = x
      BY <3>1 DEF Plain
    <3>4. QED
      BY <2>2, <3>2, <3>3
  <2>4. ASSUME answer = "yes" PROVE x \in plain \cup odd
    <3>1. PICK k \in DOMAIN opened : \E p \in DOMAIN opened[k].read : opened[k].read[p] = x
      BY <2>2, <2>4
    <3>2. PICK l : l = opened[k]
      OBVIOUS
    <3>3. l \in lines /\ x \in {l.read[p] : p \in DOMAIN l.read}
      BY <3>1, <3>2
    <3>4. CASE Plain(l)
      BY <3>3, <3>4 DEF Plain
    <3>5. CASE ~ Plain(l)
      BY <3>3, <3>5
    <3>6. QED
      BY <3>4, <3>5
  <2>5. QED
    BY <2>3, <2>4 DEF AnswersAsListed
<1>2. QED
  BY <1>1, ListInvAlways, PTL
=============================================================================
