------------------------- MODULE HeapSegment_proofs -------------------------
(***************************************************************************)
(* Proofs about HeapSegment and HeapFile, for any segment size, any        *)
(* structures, strings and services, any number of builds, and any         *)
(* applications with the same map file.                                    *)
(***************************************************************************)
EXTENDS HeapSegment, TLAPS

-----------------------------------------------------------------------------
(* The two segments lie side by side.                                      *)
LEMMA SegmentPlaces ==
    /\ 0 * SegmentSize = 0 /\ 1 * SegmentSize = SegmentSize
    /\ SegmentSize * 0 = 0 /\ SegmentSize * 1 = SegmentSize
    /\ (0 + 1) * SegmentSize = SegmentSize
    /\ (1 + 1) * SegmentSize = SegmentSize + SegmentSize
    /\ 2 * SegmentSize = SegmentSize + SegmentSize
    /\ SegmentSize \in Nat
BY SegmentAssumption

LEMMA StringSizeType == ASSUME NEW len \in Nat PROVE StringSize(len) \in Nat \ {0}
BY DEF StringSize

LEMMA SizesType == Sizes \subseteq Nat \ {0}
BY StringSizeType, SegmentAssumption DEF Sizes

LEMMA GetItemType ==
    ASSUME items \in [Segments -> Seq(Item)], NEW s \in Segments
    PROVE  GetItem(s) \in Nat \cup {NoItem}
<1>1. CASE items[s] = <<>>
  BY <1>1 DEF GetItem
<1>2. CASE items[s] # <<>>
  <2>1. items[s] \in Seq(Item) /\ Len(items[s]) >= 1
    BY <1>2
  <2>2. items[s][1] \in Item
    BY <2>1
  <2>3. QED
    BY <1>2, <2>2 DEF GetItem, Item
<1>3. QED
  BY <1>1, <1>2

-----------------------------------------------------------------------------
(* Types.                                                                  *)
LEMMA TypeInit == Init => TypeOK
<1> SUFFICES ASSUME Init PROVE TypeOK
  OBVIOUS
<1>1. items \in [Segments -> Seq(Item)] /\ blocks \in [Segments -> SUBSET Block]
  BY DEF Init
<1>2. data \in [Bytes -> Nat]
  BY DEF Init
<1>3. served \in [build : Nat, config : Nat \cup {NoItem}, blocks : SUBSET Block]
  BY DEF Init
<1>4. service \in 0 .. Services
  BY SegmentAssumption DEF Init
<1>5. /\ front \in Segments /\ back \in Segments /\ tmp \in Segments
      /\ cursor \in Nat /\ opened \in Nat /\ asked \in Nat /\ build \in Nat
      /\ writer \in {"idle", "tagged", "open", "null", "swap", "dead"}
      /\ booted \in BOOLEAN
  BY DEF Init, Segments
<1>6. QED
  BY <1>1, <1>2, <1>3, <1>4, <1>5 DEF TypeOK

LEMMA TypeStep == ASSUME TypeOK, [Next]_vars PROVE TypeOK'
<1> USE DEF TypeOK, page, segment, progress, Step
<1>1. CASE BeginTagging
  <2>1. cursor' \in Nat
    BY <1>1, SegmentPlaces DEF BeginTagging, Segments
  <2>2. items' \in [Segments -> Seq(Item)] /\ blocks' \in [Segments -> SUBSET Block]
    BY <1>1 DEF BeginTagging
  <2>3. QED
    BY <1>1, <2>1, <2>2, SegmentAssumption DEF BeginTagging
<1>2. CASE ServiceFails
  BY <1>2, SegmentAssumption DEF ServiceFails
<1>3. CASE OpenItemTag
  BY <1>3, SegmentAssumption DEF OpenItemTag
<1>4. CASE CloseItemTag
  <2>1. [offset |-> opened, size |-> cursor - opened] \in Item
    BY <1>4 DEF CloseItemTag, Item
  <2>2. Append(items[back], [offset |-> opened, size |-> cursor - opened]) \in Seq(Item)
    BY <2>1
  <2>3. items' \in [Segments -> Seq(Item)]
    BY <1>4, <2>2 DEF CloseItemTag
  <2>4. QED
    BY <1>4, <2>3 DEF CloseItemTag
<1>5. ASSUME NEW size \in Sizes, Shpalloc(size) PROVE TypeOK'
  <2> DEFINE b == [offset |-> cursor, size |-> size, item |-> Len(items[back]) + 1]
  <2>1. size \in Nat \ {0}
    BY SizesType
  <2>2. items[back] \in Seq(Item)
    OBVIOUS
  <2>3. Len(items[back]) + 1 \in Nat \ {0}
    BY <2>2
  <2>4. b \in Block
    BY <2>1, <2>3 DEF Block
  <2>5. blocks' \in [Segments -> SUBSET Block]
    BY <1>5, <2>4 DEF Shpalloc
  <2>6. data' \in [Bytes -> Nat]
    BY <1>5 DEF Shpalloc
  <2>7. cursor' \in Nat /\ asked' \in Nat
    BY <1>5, <2>1 DEF Shpalloc
  <2>8. writer' \in {"idle", "tagged", "open", "null", "swap", "dead"}
    BY <1>5 DEF Shpalloc
  <2>9. UNCHANGED <<page, items, opened, booted, service, tmp, build, served>>
    BY <1>5 DEF Shpalloc
  <2>10. QED
    BY <2>5, <2>6, <2>7, <2>8, <2>9
<1>6. ASSUME NEW size \in Sizes, OutOfSpace(size) PROVE TypeOK'
  BY <1>6, SizesType DEF OutOfSpace
<1>7. CASE SwapBack
  BY <1>7 DEF SwapBack
<1>8. CASE SwapFront
  <2>1. served' \in [build : Nat, config : Nat \cup {NoItem}, blocks : SUBSET Block]
    BY <1>8, GetItemType DEF SwapFront
  <2>2. QED
    BY <1>8, <2>1 DEF SwapFront
<1>9. CASE WriterDies
  BY <1>9 DEF WriterDies
<1>10. CASE RestartWriter
  BY <1>10 DEF RestartWriter
<1>11. CASE Others
  BY <1>11 DEF Others
<1>12. CASE UNCHANGED vars
  BY <1>12 DEF vars
<1>13. QED
  BY <1>1, <1>2, <1>3, <1>4, <1>5, <1>6, <1>7, <1>8, <1>9, <1>10, <1>11, <1>12
  DEF Next

(* Every variable of the page and of the process that builds in it holds a *)
(* value of its type.                                                      *)
THEOREM TypeCorrect == Spec => []TypeOK
<1>1. Init => TypeOK
  BY TypeInit
<1>2. TypeOK /\ [Next]_vars => TypeOK'
  BY TypeStep
<1>3. QED
  BY <1>1, <1>2, PTL DEF Spec

-----------------------------------------------------------------------------
(* Where the cursor stands while a build goes on.                          *)
CursorPlaced ==
    writer \in {"tagged", "open"} =>
        /\ back * SegmentSize <= cursor /\ cursor <= (back + 1) * SegmentSize
        /\ asked = cursor - back * SegmentSize
        /\ \A b \in blocks[back] : b.offset + b.size <= cursor

PlaceInv == TypeOK /\ BlocksApart /\ CursorPlaced /\ RefusedOnlyIfTooLarge

LEMMA Products ==
    ASSUME NEW s \in Segments
    PROVE  /\ s * SegmentSize \in Nat /\ SegmentSize * s = s * SegmentSize
           /\ (s + 1) * SegmentSize = s * SegmentSize + SegmentSize
<1>1. CASE s = 0
  BY <1>1, SegmentPlaces
<1>2. CASE s = 1
  BY <1>2, SegmentPlaces
<1>3. QED
  BY <1>1, <1>2 DEF Segments

LEMMA PlaceInit == Init => PlaceInv
<1>1. Init => TypeOK
  BY TypeInit
<1>2. Init => BlocksApart /\ CursorPlaced /\ RefusedOnlyIfTooLarge
  BY DEF Init, BlocksApart, CursorPlaced, RefusedOnlyIfTooLarge
<1>3. QED
  BY <1>1, <1>2 DEF PlaceInv

LEMMA PlaceStep == ASSUME PlaceInv, [Next]_vars PROVE PlaceInv'
<1> USE DEF PlaceInv, Step
<1>0. TypeOK'
  BY TypeStep
<1> DEFINE Rest == BlocksApart /\ CursorPlaced /\ RefusedOnlyIfTooLarge
<1> SUFFICES Rest'
  BY <1>0
<1>1. CASE BeginTagging
  <2>1. back \in Segments /\ back' = back /\ cursor' = back * SegmentSize
        /\ asked' = 0 /\ writer' = "tagged"
    BY <1>1 DEF BeginTagging, page, TypeOK
  <2>2. blocks' = [blocks EXCEPT ![back] = {}] /\ blocks \in [Segments -> SUBSET Block]
    BY <1>1 DEF BeginTagging, TypeOK
  <2>3. blocks'[back] = {} /\ \A s \in Segments : blocks'[s] \subseteq blocks[s]
    BY <2>1, <2>2
  <2>4. BlocksApart'
    BY <2>3 DEF BlocksApart
  <2>5. CursorPlaced'
    BY <2>1, <2>3, Products, SegmentPlaces DEF CursorPlaced
  <2>6. QED
    BY <2>1, <2>4, <2>5 DEF RefusedOnlyIfTooLarge
<1>2. CASE ServiceFails
  BY <1>2 DEF ServiceFails, page, segment, BlocksApart, CursorPlaced, RefusedOnlyIfTooLarge
<1>3. CASE OpenItemTag
  BY <1>3 DEF OpenItemTag, page, BlocksApart, CursorPlaced, RefusedOnlyIfTooLarge
<1>4. CASE CloseItemTag
  BY <1>4 DEF CloseItemTag, page, BlocksApart, CursorPlaced, RefusedOnlyIfTooLarge
<1>5. ASSUME NEW size \in Sizes, Shpalloc(size) PROVE Rest'
  <2> DEFINE b == [offset |-> cursor, size |-> size, item |-> Len(items[back]) + 1]
  <2>1. size \in Nat \ {0} /\ cursor \in Nat /\ asked \in Nat /\ back \in Segments
        /\ blocks \in [Segments -> SUBSET Block] /\ SegmentSize \in Nat
    BY SizesType, SegmentPlaces DEF TypeOK
  <2>2. /\ size <= SegmentSize - cursor + SegmentSize * back
        /\ writer = "open" /\ writer' = "open" /\ back' = back
        /\ cursor' = cursor + size /\ asked' = asked + size
        /\ blocks' = [blocks EXCEPT ![back] = @ \cup {b}]
    BY <1>5 DEF Shpalloc, SpaceLeft, page
  <2>3. /\ back * SegmentSize <= cursor /\ asked = cursor - back * SegmentSize
        /\ \A c \in blocks[back] : c.offset + c.size <= cursor
    BY <2>2 DEF CursorPlaced
  <2>4. /\ back * SegmentSize \in Nat /\ SegmentSize * back = back * SegmentSize
        /\ (back + 1) * SegmentSize = back * SegmentSize + SegmentSize
    BY <2>1, Products
  <2>5. cursor + size <= (back + 1) * SegmentSize
    BY <2>1, <2>2, <2>4
  <2>6. b.offset = cursor /\ b.size = size
    OBVIOUS
  <2>7. blocks'[back] = blocks[back] \cup {b}
        /\ \A s \in Segments \ {back} : blocks'[s] = blocks[s]
    BY <2>1, <2>2
  <2>8. \A s \in Segments : \A c \in blocks[s] : c.offset \in Nat /\ c.size \in Nat
    BY <2>1 DEF Block
  <2>9. BlocksApart'
    <3> SUFFICES ASSUME NEW s \in Segments, NEW c \in blocks'[s]
                 PROVE  /\ s * SegmentSize <= c.offset
                        /\ c.offset + c.size <= (s + 1) * SegmentSize
                        /\ \A d \in blocks'[s] : c # d =>
                             c.offset + c.size <= d.offset \/ d.offset + d.size <= c.offset
      BY DEF BlocksApart
    <3>1. CASE s # back
      BY <2>7, <3>1 DEF BlocksApart
    <3>2. CASE s = back /\ c \in blocks[back]
      BY <2>3, <2>6, <2>7, <3>2 DEF BlocksApart
    <3>3. CASE s = back /\ c = b
      BY <2>3, <2>5, <2>6, <2>7, <3>3
    <3>4. QED
      BY <2>7, <3>1, <3>2, <3>3
  <2>10. CursorPlaced'
    <3>1. \A c \in blocks'[back] : c.offset + c.size <= cursor + size
      BY <2>1, <2>3, <2>6, <2>7, <2>8
    <3>2. back * SegmentSize <= cursor + size
          /\ asked + size = cursor + size - back * SegmentSize
      BY <2>1, <2>3, <2>4
    <3>3. back' = back /\ cursor' = cursor + size /\ asked' = asked + size
      BY <2>2
    <3>4. /\ back' * SegmentSize <= cursor' /\ cursor' <= (back' + 1) * SegmentSize
          /\ asked' = cursor' - back' * SegmentSize
      BY <2>1, <2>5, <3>2, <3>3 DEF Segments
    <3>5. \A c \in blocks'[back'] : c.offset + c.size <= cursor'
      <4>1. blocks'[back'] = blocks'[back]
        BY <3>3
      <4>2. QED
        BY <3>1, <3>3, <4>1
    <3>6. QED
      BY <3>4, <3>5 DEF CursorPlaced
  <2>11. QED
    BY <2>2, <2>9, <2>10 DEF RefusedOnlyIfTooLarge
<1>6. ASSUME NEW size \in Sizes, OutOfSpace(size) PROVE Rest'
  <2>1. size \in Nat \ {0} /\ cursor \in Nat /\ asked \in Nat /\ back \in Segments
        /\ SegmentSize \in Nat
    BY SizesType, SegmentPlaces DEF TypeOK
  <2>2. /\ size > SegmentSize - cursor + SegmentSize * back
        /\ writer = "open" /\ writer' = "null" /\ asked' = asked + size
        /\ UNCHANGED <<back, blocks>>
    BY <1>6 DEF OutOfSpace, SpaceLeft, page
  <2>3. asked = cursor - back * SegmentSize
    BY <2>2 DEF CursorPlaced
  <2>4. asked' > SegmentSize
    BY <2>1, <2>2, <2>3, Products
  <2>5. QED
    BY <2>2, <2>4 DEF BlocksApart, CursorPlaced, RefusedOnlyIfTooLarge
<1>7. CASE SwapBack
  BY <1>7 DEF SwapBack, segment, BlocksApart, CursorPlaced, RefusedOnlyIfTooLarge
<1>8. CASE SwapFront
  BY <1>8 DEF SwapFront, segment, BlocksApart, CursorPlaced, RefusedOnlyIfTooLarge
<1>9. CASE WriterDies
  BY <1>9 DEF WriterDies, segment, BlocksApart, CursorPlaced, RefusedOnlyIfTooLarge
<1>10. CASE RestartWriter
  BY <1>10 DEF RestartWriter, segment, BlocksApart, CursorPlaced, RefusedOnlyIfTooLarge
<1>11. CASE Others
  BY <1>11 DEF Others, page, segment, progress, BlocksApart, CursorPlaced,
  RefusedOnlyIfTooLarge
<1>12. CASE UNCHANGED vars
  BY <1>12 DEF vars, page, segment, progress, BlocksApart, CursorPlaced,
  RefusedOnlyIfTooLarge
<1>13. QED
  BY <1>1, <1>2, <1>3, <1>4, <1>5, <1>6, <1>7, <1>8, <1>9, <1>10, <1>11, <1>12
  DEF Next

(* Every block lies in the segment it was allocated in, and no two of a    *)
(* build share a byte (shmdata_shpalloc).                                  *)
THEOREM AlwaysApart == Spec => []BlocksApart
<1>1. Init => PlaceInv
  BY PlaceInit
<1>2. PlaceInv /\ [Next]_vars => PlaceInv'
  BY PlaceStep
<1>3. PlaceInv => BlocksApart
  BY DEF PlaceInv
<1>4. QED
  BY <1>1, <1>2, <1>3, PTL DEF Spec

(* Only a build larger than a segment is refused room, however many went   *)
(* before it, complete or not (shmdata_BeginTagging, shmdata_shpalloc).    *)
THEOREM NothingLeaks == Spec => []RefusedOnlyIfTooLarge
<1>1. Init => PlaceInv
  BY PlaceInit
<1>2. PlaceInv /\ [Next]_vars => PlaceInv'
  BY PlaceStep
<1>3. PlaceInv => RefusedOnlyIfTooLarge
  BY DEF PlaceInv
<1>4. QED
  BY <1>1, <1>2, <1>3, PTL DEF Spec

-----------------------------------------------------------------------------
(* What stands in a segment is of the build in progress; the first item    *)
(* begins with a block of its own; and what was published lies in the      *)
(* front segment, where no build writes.  A kill inside a publish leaves   *)
(* both names on one segment, for good.                                    *)
Written(s) == \A b \in blocks[s] : \A w \in Of(b) : data[w] = build

FirstItem(s) ==
    items[s] # <<>> => \E b \in blocks[s] : b.item = 1 /\ b.offset = items[s][1].offset

OpenBegins ==
    writer = "open" =>
        /\ opened <= cursor
        /\ cursor > opened =>
              \E b \in blocks[back] : b.item = Len(items[back]) + 1 /\ b.offset = opened

InProgress ==
    /\ writer \in {"tagged", "open"} => Written(back)
    /\ writer = "swap" => back = front /\ Written(tmp)

ServedBegins ==
    served.config # NoItem =>
        \E b \in served.blocks : b.item = 1 /\ b.offset = served.config

ServedInFront ==
    front # back /\ served.build > 0 =>
        /\ GetItem(front) = served.config
        /\ \A b \in served.blocks :
              /\ front * SegmentSize <= b.offset
              /\ b.offset + b.size <= (front + 1) * SegmentSize
              /\ \A w \in Of(b) : data[w] = served.build

FrontParts ==
    /\ \A s \in Segments : FirstItem(s)
    /\ OpenBegins /\ InProgress /\ ServedBegins /\ ServedInFront

FrontInv == PlaceInv /\ FrontParts

LEMMA FrontInit == Init => FrontInv
<1>1. Init => PlaceInv
  BY PlaceInit
<1>2. ASSUME Init PROVE FrontParts
  BY <1>2 DEF Init, FrontParts, FirstItem, OpenBegins, InProgress, ServedBegins,
     ServedInFront, Written, GetItem, NoItem
<1>3. QED
  BY <1>1, <1>2 DEF FrontInv

(* A step that leaves the page and its history alone, and begins nothing.  *)
LEMMA FrontKept ==
    ASSUME FrontParts, UNCHANGED <<page, segment, build, served, tmp>>,
           writer' = writer \/ writer' \in {"null", "dead", "idle"}
    PROVE  FrontParts'
BY DEF FrontParts, FirstItem, OpenBegins, InProgress, ServedBegins, ServedInFront,
   Written, GetItem, page, segment

(* An allocation writes in the back segment only.                          *)
LEMMA FrontShpalloc ==
    ASSUME FrontInv, NEW size \in Sizes, Shpalloc(size), PlaceInv'
    PROVE  FrontParts'
<1> DEFINE b == [offset |-> cursor, size |-> size, item |-> Len(items[back]) + 1]
<1>1. /\ size \in Nat \ {0} /\ cursor \in Nat /\ opened \in Nat
      /\ front \in Segments /\ back \in Segments /\ SegmentSize \in Nat
      /\ blocks \in [Segments -> SUBSET Block] /\ items \in [Segments -> Seq(Item)]
      /\ served \in [build : Nat, config : Nat \cup {NoItem}, blocks : SUBSET Block]
  BY SizesType, SegmentPlaces DEF FrontInv, PlaceInv, TypeOK
<1>2. /\ size <= SegmentSize - cursor + SegmentSize * back
      /\ writer = "open" /\ writer' = "open" /\ cursor' = cursor + size
      /\ blocks' = [blocks EXCEPT ![back] = @ \cup {b}]
      /\ data' = [w \in Bytes |-> IF w \in Of(b) THEN build ELSE data[w]]
      /\ UNCHANGED <<front, back, items, opened, build, served, tmp>>
  BY DEF Shpalloc, SpaceLeft, page, Step
<1>3. /\ blocks'[back] = blocks[back] \cup {b}
      /\ \A s \in Segments : blocks[s] \subseteq blocks'[s]
  BY <1>1, <1>2
<1>4. b.offset = cursor /\ b.size = size /\ b.item = Len(items[back]) + 1
  OBVIOUS
<1>5. back * SegmentSize <= cursor /\ cursor + size <= (back + 1) * SegmentSize
  <2>1. back * SegmentSize <= cursor
    BY <1>2 DEF FrontInv, PlaceInv, CursorPlaced
  <2>2. QED
    BY <1>1, <1>2, <2>1, Products
<1>6. \A s \in Segments : FirstItem(s)'
  BY <1>2, <1>3 DEF FrontInv, FrontParts, FirstItem
<1>7. OpenBegins'
  <2>1. opened <= cursor /\ opened <= cursor + size
    BY <1>1, <1>2 DEF FrontInv, FrontParts, OpenBegins
  <2>2. CASE cursor > opened
    <3>1. PICK c \in blocks[back] : c.item = Len(items[back]) + 1 /\ c.offset = opened
      BY <1>2, <2>2 DEF FrontInv, FrontParts, OpenBegins
    <3>2. c \in blocks'[back]
      BY <1>3
    <3>3. QED
      BY <1>2, <2>1, <3>1, <3>2 DEF OpenBegins
  <2>3. CASE cursor = opened
    <3>1. b \in blocks'[back] /\ b.offset = opened
      BY <1>3, <1>4, <2>3
    <3>2. QED
      BY <1>2, <1>4, <2>1, <3>1 DEF OpenBegins
  <2>4. QED
    BY <1>1, <2>1, <2>2, <2>3
<1>8. InProgress'
  <2> SUFFICES Written(back)'
    BY <1>2 DEF InProgress
  <2> SUFFICES ASSUME NEW c \in blocks'[back], NEW w \in Of(c) PROVE data'[w] = build
    BY <1>2 DEF Written
  <2>1. w \in Bytes
    <3>1. /\ back * SegmentSize <= c.offset
          /\ c.offset + c.size <= (back + 1) * SegmentSize
      BY <1>1, <1>2 DEF PlaceInv, BlocksApart
    <3>2. c.offset \in Nat /\ c.size \in Nat
      BY <1>1, <1>3 DEF Block
    <3>3. QED
      BY <1>1, <3>1, <3>2, SegmentPlaces DEF Of, Bytes, Segments
  <2>2. CASE w \in Of(b)
    BY <1>2, <2>1, <2>2
  <2>3. CASE w \notin Of(b)
    <3>1. c \in blocks[back]
      BY <1>3, <2>3
    <3>2. data[w] = build
      BY <1>2, <3>1 DEF FrontInv, FrontParts, InProgress, Written
    <3>3. QED
      BY <1>2, <2>1, <2>3, <3>2
  <2>4. QED
    BY <2>2, <2>3
<1>9. ServedBegins'
  BY <1>2 DEF FrontInv, FrontParts, ServedBegins
<1>10. ServedInFront'
  <2> SUFFICES ASSUME front # back, served.build > 0
               PROVE  /\ GetItem(front)' = served.config
                      /\ \A c \in served.blocks :
                            /\ front * SegmentSize <= c.offset
                            /\ c.offset + c.size <= (front + 1) * SegmentSize
                            /\ \A w \in Of(c) : data'[w] = served.build
    BY <1>2 DEF ServedInFront
  <2>1. /\ GetItem(front) = served.config
        /\ \A c \in served.blocks :
              /\ front * SegmentSize <= c.offset
              /\ c.offset + c.size <= (front + 1) * SegmentSize
              /\ \A w \in Of(c) : data[w] = served.build
    BY DEF FrontInv, FrontParts, ServedInFront
  <2>2. ASSUME NEW c \in served.blocks, NEW w \in Of(c) PROVE data'[w] = data[w]
    <3>1. c.offset \in Nat /\ c.size \in Nat
      BY <1>1 DEF Block
    <3>2. /\ front * SegmentSize <= c.offset
          /\ c.offset + c.size <= (front + 1) * SegmentSize
      BY <2>1
    <3>3. w \in Bytes
      BY <1>1, <3>1, <3>2, SegmentPlaces DEF Of, Bytes, Segments
    <3>4. w \notin Of(b)
      BY <1>1, <1>4, <1>5, <3>1, <3>2, SegmentPlaces DEF Of, Segments
    <3>5. QED
      BY <1>2, <3>3, <3>4
  <2>3. GetItem(front)' = GetItem(front)
    BY <1>2 DEF GetItem
  <2>4. QED
    BY <2>1, <2>2, <2>3
<1>11. QED
  BY <1>6, <1>7, <1>8, <1>9, <1>10 DEF FrontParts

LEMMA FrontStep == ASSUME FrontInv, [Next]_vars PROVE FrontInv'
<1>0. TypeOK /\ BlocksApart /\ FrontParts /\ PlaceInv'
  BY PlaceStep DEF FrontInv, PlaceInv
<1> USE DEF Step
<1> SUFFICES FrontParts'
  BY <1>0 DEF FrontInv
<1>1. CASE BeginTagging
  <2>1. /\ back \in Segments /\ items \in [Segments -> Seq(Item)]
        /\ blocks \in [Segments -> SUBSET Block] /\ front \in Segments
    BY <1>0 DEF TypeOK
  <2>2. /\ UNCHANGED <<front, back, data, served, opened, tmp>> /\ writer' = "tagged"
        /\ items' = [items EXCEPT ![back] = <<>>] /\ blocks' = [blocks EXCEPT ![back] = {}]
    BY <1>1 DEF BeginTagging, page
  <2>3. /\ items'[back] = <<>> /\ blocks'[back] = {}
        /\ \A s \in Segments \ {back} : items'[s] = items[s] /\ blocks'[s] = blocks[s]
    BY <2>1, <2>2
  <2>4. \A s \in Segments : FirstItem(s)'
    BY <1>0, <2>3 DEF FrontParts, FirstItem
  <2>5. OpenBegins' /\ InProgress'
    BY <2>2, <2>3 DEF OpenBegins, InProgress, Written
  <2>6. ServedBegins' /\ ServedInFront'
    BY <1>0, <2>1, <2>2, <2>3 DEF FrontParts, ServedBegins, ServedInFront, GetItem
  <2>7. QED
    BY <2>4, <2>5, <2>6 DEF FrontParts
<1>2. CASE ServiceFails
  BY <1>0, <1>2, FrontKept DEF ServiceFails
<1>3. CASE OpenItemTag
  <2>1. /\ UNCHANGED <<front, back, cursor, items, data, blocks, build, served, tmp>>
        /\ writer = "tagged" /\ writer' = "open" /\ opened' = cursor
    BY <1>3 DEF OpenItemTag, page
  <2>2. OpenBegins'
    BY <1>0, <2>1 DEF OpenBegins, TypeOK
  <2>3. InProgress'
    BY <1>0, <2>1 DEF FrontParts, InProgress, Written
  <2>4. QED
    BY <1>0, <2>1, <2>2, <2>3 DEF FrontParts, FirstItem, ServedBegins, ServedInFront,
       GetItem
<1>4. CASE CloseItemTag
  <2>1. /\ back \in Segments /\ items \in [Segments -> Seq(Item)]
    BY <1>0 DEF TypeOK
  <2> DEFINE i == [offset |-> opened, size |-> cursor - opened]
  <2>2. /\ UNCHANGED <<front, back, cursor, opened, data, blocks, build, served, tmp>>
        /\ writer = "open" /\ writer' = "tagged" /\ cursor > opened
        /\ items' = [items EXCEPT ![back] = Append(@, i)]
    BY <1>4 DEF CloseItemTag, page
  <2>3. /\ items'[back] = Append(items[back], i)
        /\ \A s \in Segments \ {back} : items'[s] = items[s]
    BY <2>1, <2>2
  <2>4. FirstItem(back)'
    <3>1. CASE items[back] = <<>>
      <4>1. PICK b \in blocks[back] : b.item = Len(items[back]) + 1 /\ b.offset = opened
        BY <1>0, <2>2 DEF FrontParts, OpenBegins
      <4>2. items'[back][1] = i /\ b.item = 1
        BY <2>3, <3>1, <4>1
      <4>3. QED
        BY <2>2, <4>1, <4>2 DEF FirstItem
    <3>2. CASE items[back] # <<>>
      <4>1. items'[back][1] = items[back][1]
        <5>1. items[back] \in Seq(Item) /\ Len(items[back]) >= 1
          BY <2>1, <3>2
        <5>2. QED
          BY <2>3, <5>1
      <4>2. FirstItem(back)
        BY <1>0, <2>1 DEF FrontParts
      <4>3. QED
        BY <2>2, <3>2, <4>1, <4>2 DEF FirstItem
    <3>3. QED
      BY <3>1, <3>2
  <2>5. \A s \in Segments : FirstItem(s)'
    BY <1>0, <2>2, <2>3, <2>4 DEF FrontParts, FirstItem
  <2>6. OpenBegins' /\ InProgress' /\ ServedBegins'
    BY <1>0, <2>2 DEF FrontParts, OpenBegins, InProgress, Written, ServedBegins
  <2>7. ServedInFront'
    BY <1>0, <2>2, <2>3 DEF FrontParts, ServedInFront, GetItem, TypeOK
  <2>8. QED
    BY <2>5, <2>6, <2>7 DEF FrontParts
<1>5. ASSUME NEW size \in Sizes, Shpalloc(size) PROVE FrontParts'
  BY <1>0, <1>5, FrontShpalloc
<1>6. ASSUME NEW size \in Sizes, OutOfSpace(size) PROVE FrontParts'
  BY <1>0, <1>6 DEF OutOfSpace, page, FrontParts, FirstItem, OpenBegins, InProgress,
     ServedBegins, ServedInFront, Written, GetItem
<1>7. CASE SwapBack
  <2>1. /\ UNCHANGED <<front, cursor, items, opened, data, blocks, build, served>>
        /\ writer = "tagged" /\ writer' = "swap" /\ tmp' = back /\ back' = front
    BY <1>7 DEF SwapBack, segment
  <2>2. InProgress'
    BY <1>0, <2>1 DEF FrontParts, InProgress, Written
  <2>3. QED
    BY <1>0, <2>1, <2>2 DEF FrontParts, FirstItem, OpenBegins, ServedBegins, ServedInFront
<1>8. CASE SwapFront
  <2>1. /\ UNCHANGED <<back, cursor, items, opened, data, blocks, build>>
        /\ writer = "swap" /\ writer' = "idle" /\ front' = tmp
        /\ served' = [build |-> build, config |-> GetItem(tmp), blocks |-> blocks[tmp]]
    BY <1>8 DEF SwapFront, segment
  <2>2. tmp \in Segments
    BY <1>0 DEF TypeOK
  <2>3. ServedBegins'
    <3> SUFFICES ASSUME GetItem(tmp) # NoItem
                 PROVE  \E b \in blocks[tmp] : b.item = 1 /\ b.offset = GetItem(tmp)
      BY <2>1 DEF ServedBegins
    <3>1. items[tmp] # <<>> /\ GetItem(tmp) = items[tmp][1].offset
      BY DEF GetItem
    <3>2. QED
      BY <1>0, <2>2, <3>1 DEF FrontParts, FirstItem
  <2>4. ServedInFront'
    <3>1. Written(tmp)
      BY <1>0, <2>1 DEF FrontParts, InProgress
    <3>2. \A b \in blocks[tmp] : /\ tmp * SegmentSize <= b.offset
                                /\ b.offset + b.size <= (tmp + 1) * SegmentSize
      BY <1>0, <2>2 DEF BlocksApart
    <3>3. GetItem(front)' = GetItem(tmp)
      BY <2>1 DEF GetItem
    <3>4. QED
      BY <2>1, <3>1, <3>2, <3>3 DEF ServedInFront, Written
  <2>5. QED
    BY <1>0, <2>1, <2>3, <2>4 DEF FrontParts, FirstItem, OpenBegins, InProgress
<1>9. CASE WriterDies
  BY <1>0, <1>9, FrontKept DEF WriterDies
<1>10. CASE RestartWriter
  BY <1>0, <1>10, FrontKept DEF RestartWriter
<1>11. CASE Others
  BY <1>0, <1>11, FrontKept DEF Others, progress
<1>12. CASE UNCHANGED vars
  BY <1>0, <1>12, FrontKept DEF vars, progress
<1>13. QED
  BY <1>0, <1>1, <1>2, <1>3, <1>4, <1>5, <1>6, <1>7, <1>8, <1>9, <1>10, <1>11, <1>12
  DEF Next, FrontInv

(* The configuration that was published keeps every byte, and the switches *)
(* go on to find it, whatever the builder does next or dies of, unless it  *)
(* died inside a publish (shmdata_PublishBackSeg).                         *)
THEOREM FrontStays == Spec => []FrontIntact
<1>1. Init => FrontInv
  BY FrontInit
<1>2. FrontInv /\ [Next]_vars => FrontInv'
  BY FrontStep
<1>3. FrontInv => FrontIntact
  BY DEF FrontInv, FrontParts, ServedBegins, ServedInFront, FrontIntact
<1>4. QED
  BY <1>1, <1>2, <1>3, PTL DEF Spec

-----------------------------------------------------------------------------
(* Byte for byte, an item is the blocks that carry its number, and the     *)
(* blocks of the open item reach from where it was opened to the cursor.   *)
Owned(own, n, w) == \E b \in own : b.item = n /\ w \in Of(b)

ItemsCover ==
    \A s \in Segments : \A n \in DOMAIN items[s] : \A w :
        Owned(blocks[s], n, w) <=> w \in Of(items[s][n])

OpenCovers ==
    /\ writer = "tagged" => \A b \in blocks[back] : b.item <= Len(items[back])
    /\ writer = "open" =>
          /\ opened <= cursor
          /\ \A b \in blocks[back] : b.item <= Len(items[back]) + 1
          /\ \A w : Owned(blocks[back], Len(items[back]) + 1, w) <=> w \in opened .. cursor - 1

CoverInv == TypeOK /\ ItemsCover /\ OpenCovers

LEMMA CoverInit == Init => CoverInv
<1>1. ASSUME Init PROVE ItemsCover /\ OpenCovers
  BY <1>1 DEF Init, ItemsCover, OpenCovers
<1>2. QED
  BY <1>1, TypeInit DEF CoverInv

LEMMA CoverStep == ASSUME CoverInv, [Next]_vars PROVE CoverInv'
<1>0. TypeOK /\ ItemsCover /\ OpenCovers /\ TypeOK'
  BY TypeStep DEF CoverInv
<1> USE DEF Step
<1> DEFINE Covers == ItemsCover /\ OpenCovers
<1> SUFFICES Covers'
  BY <1>0 DEF CoverInv
<1>1. CASE BeginTagging
  <2>1. /\ back \in Segments /\ items \in [Segments -> Seq(Item)]
        /\ blocks \in [Segments -> SUBSET Block]
    BY <1>0 DEF TypeOK
  <2>2. /\ back' = back /\ writer' = "tagged"
        /\ items' = [items EXCEPT ![back] = <<>>] /\ blocks' = [blocks EXCEPT ![back] = {}]
    BY <1>1 DEF BeginTagging, page
  <2>3. /\ items'[back] = <<>> /\ blocks'[back] = {}
        /\ \A s \in Segments \ {back} : items'[s] = items[s] /\ blocks'[s] = blocks[s]
    BY <2>1, <2>2
  <2>4. DOMAIN items'[back] = {}
    BY <2>3
  <2>5. ItemsCover'
    BY <1>0, <2>3, <2>4 DEF ItemsCover, Owned
  <2>6. QED
    BY <2>2, <2>3, <2>5 DEF OpenCovers
<1>2. CASE ServiceFails
  BY <1>0, <1>2 DEF ServiceFails, page, segment, ItemsCover, OpenCovers, Owned
<1>3. CASE OpenItemTag
  <2>1. /\ UNCHANGED <<back, cursor, items, blocks>>
        /\ writer = "tagged" /\ writer' = "open" /\ opened' = cursor
    BY <1>3 DEF OpenItemTag, page
  <2>2. /\ cursor \in Nat /\ Len(items[back]) \in Nat
        /\ \A b \in blocks[back] : b.item \in Nat /\ b.item <= Len(items[back])
    BY <1>0, <2>1 DEF TypeOK, OpenCovers, Block
  <2>3. \A w : ~Owned(blocks[back], Len(items[back]) + 1, w)
    BY <2>2 DEF Owned
  <2>4. \A w : ~(w \in cursor .. cursor - 1)
    BY <2>2
  <2>5. OpenCovers'
    BY <2>1, <2>2, <2>3, <2>4 DEF OpenCovers, Owned
  <2>6. QED
    BY <1>0, <2>1, <2>5 DEF ItemsCover, Owned
<1>4. CASE CloseItemTag
  <2> DEFINE i == [offset |-> opened, size |-> cursor - opened]
  <2>1. /\ back \in Segments /\ items \in [Segments -> Seq(Item)]
        /\ cursor \in Nat /\ opened \in Nat /\ Len(items[back]) \in Nat
    <3>1. /\ back \in Segments /\ items \in [Segments -> Seq(Item)]
          /\ cursor \in Nat /\ opened \in Nat
      BY <1>0 DEF TypeOK
    <3>2. items[back] \in Seq(Item)
      BY <3>1
    <3>3. QED
      BY <3>1, <3>2
  <2>2. /\ UNCHANGED <<back, cursor, opened, blocks>>
        /\ writer = "open" /\ writer' = "tagged" /\ cursor > opened
        /\ items' = [items EXCEPT ![back] = Append(@, i)]
    BY <1>4 DEF CloseItemTag, page
  <2>3. /\ items'[back] = Append(items[back], i)
        /\ \A s \in Segments \ {back} : items'[s] = items[s]
    BY <2>1, <2>2
  <2>4. i \in Item
    BY <2>1, <2>2 DEF Item
  <2>5. /\ Len(items'[back]) = Len(items[back]) + 1
        /\ DOMAIN items'[back] = DOMAIN items[back] \cup {Len(items[back]) + 1}
        /\ \A n \in DOMAIN items[back] : items'[back][n] = items[back][n]
        /\ items'[back][Len(items[back]) + 1] = i
    <3>1. items[back] \in Seq(Item)
      BY <2>1
    <3>2. QED
      BY <2>3, <2>4, <3>1
  <2>6. \A w : w \in Of(i) <=> w \in opened .. cursor - 1
    BY <2>1, <2>2 DEF Of
  <2>7. ItemsCover'
    <3> SUFFICES ASSUME NEW s \in Segments, NEW n \in DOMAIN items'[s], NEW w
                 PROVE  Owned(blocks[s], n, w) <=> w \in Of(items'[s][n])
      BY <2>2 DEF ItemsCover, Owned
    <3>1. CASE s # back
      BY <1>0, <2>3, <3>1 DEF ItemsCover
    <3>2. CASE s = back /\ n \in DOMAIN items[back]
      BY <1>0, <2>5, <3>2 DEF ItemsCover
    <3>3. CASE s = back /\ n = Len(items[back]) + 1
      BY <1>0, <2>2, <2>5, <2>6, <3>3 DEF OpenCovers
    <3>4. QED
      BY <2>5, <3>1, <3>2, <3>3
  <2>8. OpenCovers'
    BY <1>0, <2>2, <2>5 DEF OpenCovers
  <2>9. QED
    BY <2>7, <2>8
<1>5. ASSUME NEW size \in Sizes, Shpalloc(size) PROVE Covers'
  <2> DEFINE b == [offset |-> cursor, size |-> size, item |-> Len(items[back]) + 1]
  <2>1. /\ size \in Nat \ {0} /\ cursor \in Nat /\ opened \in Nat
        /\ back \in Segments /\ Len(items[back]) \in Nat
        /\ blocks \in [Segments -> SUBSET Block] /\ items \in [Segments -> Seq(Item)]
    <3>1. /\ cursor \in Nat /\ opened \in Nat /\ back \in Segments
          /\ blocks \in [Segments -> SUBSET Block] /\ items \in [Segments -> Seq(Item)]
      BY <1>0 DEF TypeOK
    <3>2. items[back] \in Seq(Item)
      BY <3>1
    <3>3. size \in Nat \ {0}
      BY SizesType
    <3>4. QED
      BY <3>1, <3>2, <3>3
  <2>2. /\ writer = "open" /\ writer' = "open" /\ cursor' = cursor + size
        /\ blocks' = [blocks EXCEPT ![back] = @ \cup {b}]
        /\ UNCHANGED <<back, items, opened>>
    BY <1>5 DEF Shpalloc, page
  <2>3. /\ blocks'[back] = blocks[back] \cup {b}
        /\ \A s \in Segments \ {back} : blocks'[s] = blocks[s]
    BY <2>1, <2>2
  <2>4. b.item = Len(items[back]) + 1 /\ Of(b) = cursor .. cursor + size - 1
    BY DEF Of
  <2>5. \A n : n # Len(items[back]) + 1 => \A w :
          Owned(blocks'[back], n, w) <=> Owned(blocks[back], n, w)
    BY <2>2, <2>3, <2>4 DEF Owned
  <2>6. ItemsCover'
    <3> SUFFICES ASSUME NEW s \in Segments, NEW n \in DOMAIN items[s], NEW w
                 PROVE  Owned(blocks'[s], n, w) <=> w \in Of(items[s][n])
      BY <2>2 DEF ItemsCover
    <3>1. CASE s # back
      BY <1>0, <2>3, <3>1 DEF ItemsCover, Owned
    <3>2. CASE s = back
      <4>1. items[back] \in Seq(Item)
        BY <2>1
      <4>2. n \in 1 .. Len(items[back])
        BY <3>2, <4>1
      <4>3. n # Len(items[back]) + 1
        BY <2>1, <4>2
      <4>4. QED
        BY <1>0, <2>5, <3>2, <4>3 DEF ItemsCover
    <3>3. QED
      BY <3>1, <3>2
  <2>7. OpenCovers'
    <3>1. /\ opened <= cursor
          /\ \A c \in blocks[back] : c.item <= Len(items[back]) + 1
          /\ \A w : Owned(blocks[back], Len(items[back]) + 1, w) <=> w \in opened .. cursor - 1
      BY <1>0, <2>2 DEF OpenCovers
    <3>2. opened <= cursor'
      BY <2>1, <2>2, <3>1
    <3>3. \A c \in blocks'[back] : c.item <= Len(items[back]) + 1
      BY <2>1, <2>3, <2>4, <3>1
    <3>4. ASSUME NEW w
          PROVE Owned(blocks'[back], Len(items[back]) + 1, w) <=> w \in opened .. cursor' - 1
      <4>1. Owned(blocks'[back], Len(items[back]) + 1, w)
              <=> Owned(blocks[back], Len(items[back]) + 1, w) \/ w \in Of(b)
        BY <2>2, <2>3, <2>4 DEF Owned
      <4>2. w \in opened .. cursor' - 1
              <=> w \in opened .. cursor - 1 \/ w \in cursor .. cursor + size - 1
        BY <2>1, <2>2, <3>1
      <4>3. QED
        BY <2>4, <3>1, <4>1, <4>2
    <3>5. QED
      BY <2>2, <3>2, <3>3, <3>4 DEF OpenCovers
  <2>8. QED
    BY <2>6, <2>7
<1>6. ASSUME NEW size \in Sizes, OutOfSpace(size) PROVE Covers'
  BY <1>0, <1>6 DEF OutOfSpace, page, ItemsCover, OpenCovers, Owned
<1>7. CASE SwapBack
  BY <1>0, <1>7 DEF SwapBack, segment, ItemsCover, OpenCovers, Owned
<1>8. CASE SwapFront
  BY <1>0, <1>8 DEF SwapFront, segment, ItemsCover, OpenCovers, Owned
<1>9. CASE WriterDies
  BY <1>0, <1>9 DEF WriterDies, page, segment, ItemsCover, OpenCovers, Owned
<1>10. CASE RestartWriter
  BY <1>0, <1>10 DEF RestartWriter, page, segment, ItemsCover, OpenCovers, Owned
<1>11. CASE Others
  BY <1>0, <1>11 DEF Others, page, segment, progress, ItemsCover, OpenCovers, Owned
<1>12. CASE UNCHANGED vars
  BY <1>0, <1>12 DEF vars, page, segment, progress, ItemsCover, OpenCovers, Owned
<1>13. QED
  BY <1>1, <1>2, <1>3, <1>4, <1>5, <1>6, <1>7, <1>8, <1>9, <1>10, <1>11, <1>12
  DEF Next

(* An item gives the place of the blocks of its service, all of them and   *)
(* nothing else, in the front segment and in the back one, after builds    *)
(* that ended anywhere (shmdata_OpenItemTag, shmdata_CloseItemTag).        *)
THEOREM ItemsAreWhole == Spec => []ItemCovers
<1>1. Init => CoverInv
  BY CoverInit
<1>2. CoverInv /\ [Next]_vars => CoverInv'
  BY CoverStep
<1>3. CoverInv => ItemCovers
  <2> SUFFICES ASSUME CoverInv, NEW s \in Segments, NEW n \in DOMAIN items[s]
               PROVE  UNION {Of(b) : b \in {b \in blocks[s] : b.item = n}} = Of(items[s][n])
    BY DEF ItemCovers
  <2>1. \A w : Owned(blocks[s], n, w) <=> w \in Of(items[s][n])
    BY DEF CoverInv, ItemsCover
  <2>2. \A w : w \in UNION {Of(b) : b \in {b \in blocks[s] : b.item = n}} <=> Owned(blocks[s], n, w)
    BY DEF Owned
  <2>3. QED
    BY <2>1, <2>2
<1>4. QED
  BY <1>1, <1>2, <1>3, PTL DEF Spec

-----------------------------------------------------------------------------
(* What an application whom nobody crosses knows of the file at each step  *)
(* of making its page.                                                     *)
FileType ==
    /\ file \in {"none", "bad"} \cup Pages
    /\ step \in [Apps -> Making \cup {"start", "made", "gone", "failed"}]

Knows(a) ==
    /\ step[a] \in {"attach", "remove"} => file # "none"
    /\ step[a] \in {"again", "last"} => file = "none"
    /\ step[a] # "failed"

MadeInv == FileType /\ \A a \in Apps : a \notin refused \cup crossed => Knows(a)

LEMMA MadeStep ==
    ASSUME MadeInv, NEW a \in Apps, HeapFileStep(a)
    PROVE  MadeInv'
<1> USE DEF MadeInv, FileType, Pages, Making, Advance, Create, Name
<1>0. "none" \notin Apps
  BY AppsAssumption
<1>1. CASE Start(a)
  BY <1>1 DEF Start, Knows
<1>2. CASE FirstCreate(a)
  BY <1>0, <1>2 DEF FirstCreate, Knows
<1>3. CASE Attach(a)
  BY <1>0, <1>3 DEF Attach, Knows
<1>4. CASE Destroy(a)
  BY <1>0, <1>4 DEF Destroy, Knows
<1>5. CASE SecondCreate(a)
  BY <1>0, <1>5 DEF SecondCreate, Knows
<1>6. CASE Remove(a)
  BY <1>0, <1>6 DEF Remove, Knows
<1>7. CASE LastCreate(a)
  BY <1>0, <1>7 DEF LastCreate, Knows
<1>8. CASE Terminate(a)
  BY <1>0, <1>8 DEF Terminate, Knows
<1>9. CASE Crash(a)
  BY <1>0, <1>9 DEF Crash, Knows
<1>10. QED
  BY <1>1, <1>2, <1>3, <1>4, <1>5, <1>6, <1>7, <1>8, <1>9 DEF HeapFileStep

(* Whatever file lies at the path, of however many applications, a page is *)
(* made there, unless the system refuses a call that could succeed or      *)
(* another application changes the file meanwhile                          *)
(* (shmdata_getNewSharedPage).                                             *)
THEOREM AlwaysMade == Spec => []MadeOverAnything
<1>1. Init => MadeInv
  BY DEF Init, HeapFileInit, MadeInv, FileType, Knows, Pages, Making
<1>2. MadeInv /\ [Next]_vars => MadeInv'
  <2> SUFFICES ASSUME MadeInv, [Next]_vars PROVE MadeInv'
    OBVIOUS
  <2>1. CASE Others
    BY <2>1, MadeStep DEF Others
  <2>2. CASE UNCHANGED heapFile
    BY <2>2 DEF heapFile, MadeInv, FileType, Knows
  <2>3. UNCHANGED heapFile \/ Others
    BY DEF Next, vars, BeginTagging, ServiceFails, OpenItemTag, CloseItemTag, Shpalloc,
       OutOfSpace, SwapBack, SwapFront, WriterDies, RestartWriter
  <2>4. QED
    BY <2>1, <2>2, <2>3
<1>3. MadeInv => MadeOverAnything
  BY DEF MadeInv, Knows, MadeOverAnything
<1>4. QED
  BY <1>1, <1>2, <1>3, PTL DEF Spec
=============================================================================
