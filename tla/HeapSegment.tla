----------------------------- MODULE HeapSegment -----------------------------
(***************************************************************************)
(* The bytes of the shared page of an application: two segments of         *)
(* SegmentSize bytes, of which the back one is filled by a cursor that     *)
(* only moves on, and the items that say where a service's configuration   *)
(* begins.  The application builds first and its messaging process from    *)
(* then on; an allocation that finds no room returns NULL, through which   *)
(* the caller writes, and a process may be killed between any two steps.   *)
(*                                                                         *)
(* Abstractions: a block is a structure or a string, and what is written   *)
(* into it is the number of its build; every item has the same id, as the  *)
(* one service module there is gives them.  SegmentSize is less than half  *)
(* the largest int, and the services no more than the items of a segment.  *)
(***************************************************************************)
EXTENDS HeapFile, Sequences

CONSTANTS
    Self,        \* the application
    SegmentSize, \* <sheapPageSize>
    Structs,     \* sizes of the structures of a configuration
    Strings,     \* lengths of its strings
    Services,    \* services of config-core.xml
    MaxBuilds    \* bound

MaxPageItems == 16

\* More services than a segment has items are written past them: left out.
ASSUME SegmentAssumption ==
    /\ Self \in Apps
    /\ SegmentSize \in Nat /\ Services \in 1 .. MaxPageItems /\ MaxBuilds \in Nat
    /\ Structs \subseteq Nat \ {0} /\ Strings \subseteq Nat

Segments == {0, 1}

VARIABLES
    front, back,  \* frontsegment, backsegment
    cursor,       \* from data
    items,        \* of each segment: offset and size
    opened,       \* offset of the item that is open
    data,         \* the bytes: the build that wrote them last
    writer,       \* what the building process does next
    booted,       \* the builder is the messaging process
    service,      \* services the build has begun
    tmp           \* the local variable of shmdata_PublishBackSeg

\* History: builds begun; bytes the build asked for; the blocks of the last
\* build in each segment; the last build that was published.
VARIABLES build, asked, blocks, served

page == <<front, back>>
segment == <<cursor, items, opened, data, blocks, asked>>
progress == <<writer, booted, service, tmp, build, served>>
vars == <<heapFile, page, segment, progress>>

Bytes == 0 .. 2 * SegmentSize - 1
Of(b) == b.offset .. b.offset + b.size - 1

NoItem == -1

\* shmdata_getItem, from data.
GetItem(s) == IF items[s] = <<>> THEN NoItem ELSE items[s][1].offset

Init ==
    /\ HeapFileInit
    /\ front = 1 /\ back = 0 /\ cursor = 0
    /\ items = [s \in Segments |-> <<>>] /\ opened = 0
    /\ data = [w \in Bytes |-> 0]
    /\ writer = "idle" /\ booted = FALSE /\ service = 0 /\ tmp = 0
    /\ build = 0 /\ asked = 0
    /\ blocks = [s \in Segments |-> {}]
    /\ served = [build |-> 0, config |-> NoItem, blocks |-> {}]

Alive == step[Self] = "made"
Step(from, to) == Alive /\ writer = from /\ writer' = to

\* shmdup_32BitString_size: with the NUL, rounded up.
StringSize(len) == LET size == len + 1 IN
    IF size % 4 > 0 THEN size - (size % 4) + 4 ELSE size

Sizes == Structs \cup {StringSize(len) : len \in Strings}

\* Mutant: the cursor goes on from where the last build ended.
BeginTagging_Continues ==
    /\ Step("idle", "tagged") /\ build < MaxBuilds
    /\ items' = [items EXCEPT ![back] = <<>>]
    /\ build' = build + 1 /\ service' = 0 /\ asked' = 0
    /\ blocks' = [blocks EXCEPT ![back] = {}]
    /\ UNCHANGED <<heapFile, page, cursor, opened, data, booted, tmp, served>>

BeginTagging ==
    /\ Step("idle", "tagged") /\ build < MaxBuilds
    /\ cursor' = back * SegmentSize
    /\ items' = [items EXCEPT ![back] = <<>>]
    /\ build' = build + 1 /\ service' = 0 /\ asked' = 0
    /\ blocks' = [blocks EXCEPT ![back] = {}]
    /\ UNCHANGED <<heapFile, page, opened, data, booted, tmp, served>>

\* A service whose document cannot be read: the first build goes on with the
\* next one, a refresh ends.
ServiceFails ==
    /\ service < Services
    /\ \/ ~booted /\ Step("tagged", "tagged") /\ service' = service + 1
       \/ booted /\ Step("tagged", "idle") /\ UNCHANGED service
    /\ UNCHANGED <<heapFile, page, segment, booted, tmp, build, served>>

\* Mutant: the offset is taken from the segment.
OpenItemTag_Segment ==
    /\ service < Services /\ Step("tagged", "open")
    /\ opened' = cursor - back * SegmentSize /\ service' = service + 1
    /\ UNCHANGED <<heapFile, page, cursor, items, data, blocks, asked, booted,
                   tmp, build, served>>

OpenItemTag ==
    /\ service < Services /\ Step("tagged", "open")
    /\ opened' = cursor /\ service' = service + 1
    /\ UNCHANGED <<heapFile, page, cursor, items, data, blocks, asked, booted,
                   tmp, build, served>>

SpaceLeft == SegmentSize - cursor + SegmentSize * back

\* Mutant: the space that is left is reckoned for the whole page.
Shpalloc_Page(size) ==
    LET b == [offset |-> cursor, size |-> size, item |-> Len(items[back]) + 1] IN
    /\ size <= 2 * SegmentSize - cursor /\ Step("open", "open")
    /\ cursor' = cursor + size
    /\ data' = [w \in Bytes |-> IF w \in Of(b) THEN build ELSE data[w]]
    /\ blocks' = [blocks EXCEPT ![back] = @ \cup {b}]
    /\ asked' = asked + size
    /\ UNCHANGED <<heapFile, page, items, opened, booted, service, tmp, build, served>>

\* shmdata_shpalloc, and what the caller writes there.
Shpalloc(size) ==
    LET b == [offset |-> cursor, size |-> size, item |-> Len(items[back]) + 1] IN
    /\ size <= SpaceLeft /\ Step("open", "open")
    /\ cursor' = cursor + size
    /\ data' = [w \in Bytes |-> IF w \in Of(b) THEN build ELSE data[w]]
    /\ blocks' = [blocks EXCEPT ![back] = @ \cup {b}]
    /\ asked' = asked + size
    /\ UNCHANGED <<heapFile, page, items, opened, booted, service, tmp, build, served>>

\* NULL, and what the caller writes there.
OutOfSpace(size) ==
    /\ size > SpaceLeft /\ Step("open", "null")
    /\ asked' = asked + size
    /\ UNCHANGED <<heapFile, page, cursor, items, opened, data, blocks, booted,
                   service, tmp, build, served>>

\* The configuration itself has been allocated by then.
CloseItemTag ==
    /\ Step("open", "tagged") /\ cursor > opened
    /\ items' = [items EXCEPT ![back] =
                    Append(@, [offset |-> opened, size |-> cursor - opened])]
    /\ UNCHANGED <<heapFile, page, cursor, opened, data, blocks, asked, booted,
                   service, tmp, build, served>>

\* shmdata_PublishBackSeg.
SwapBack ==
    /\ service = Services /\ Step("tagged", "swap")
    /\ tmp' = back /\ back' = front
    /\ UNCHANGED <<heapFile, front, segment, booted, service, build, served>>

SwapFront ==
    /\ Step("swap", "idle")
    /\ front' = tmp /\ booted' = TRUE
    /\ served' = [build |-> build, config |-> GetItem(tmp), blocks |-> blocks[tmp]]
    /\ UNCHANGED <<heapFile, back, segment, service, tmp, build>>

\* The messaging process is killed, or writes through NULL, and is started
\* again; an application that writes through it crashes (HeapFile).
WriterDies ==
    /\ booted /\ Alive /\ writer # "dead"
    /\ writer' = "dead"
    /\ UNCHANGED <<heapFile, page, segment, booted, service, tmp, build, served>>

RestartWriter ==
    /\ Step("dead", "idle")
    /\ UNCHANGED <<heapFile, page, segment, booted, service, tmp, build, served>>

Others == \E a \in Apps :
    HeapFileStep(a) /\ UNCHANGED <<page, segment, progress>>

Next ==
    \/ BeginTagging \/ ServiceFails \/ OpenItemTag \/ CloseItemTag
    \/ \E size \in Sizes : Shpalloc(size) \/ OutOfSpace(size)
    \/ SwapBack \/ SwapFront \/ WriterDies \/ RestartWriter \/ Others

Spec == Init /\ [][Next]_vars

-----------------------------------------------------------------------------
Block == [offset : Nat, size : Nat \ {0}, item : Nat \ {0}]
Item == [offset : Nat, size : Nat]

(* Every variable holds a value of its type.                               *)
TypeOK ==
    /\ front \in Segments /\ back \in Segments /\ tmp \in Segments
    /\ cursor \in Nat /\ opened \in Nat /\ asked \in Nat
    /\ items \in [Segments -> Seq(Item)]
    /\ data \in [Bytes -> Nat] /\ build \in Nat
    /\ writer \in {"idle", "tagged", "open", "null", "swap", "dead"}
    /\ booted \in BOOLEAN /\ service \in 0 .. Services
    /\ blocks \in [Segments -> SUBSET Block]
    /\ served \in [build : Nat, config : Nat \cup {NoItem},
                   blocks : SUBSET Block]

(* Every block lies in the segment it was allocated in, and no byte belongs *)
(* to two of them, whatever was built or broken off before                 *)
(* (shmdata_BeginTagging, shmdata_shpalloc).                               *)
BlocksApart ==
    \A s \in Segments : \A b \in blocks[s] :
        /\ s * SegmentSize <= b.offset /\ b.offset + b.size <= (s + 1) * SegmentSize
        /\ \A c \in blocks[s] :
              b # c => b.offset + b.size <= c.offset \/ c.offset + c.size <= b.offset

(* What was published stays as it was, byte for byte, and shmdata_getItem  *)
(* goes on to find the configuration of the first service that could be    *)
(* built, while other builds begin, fail, find no room or are killed,      *)
(* unless a process was killed between the two stores of a publish, which  *)
(* leaves both names on one segment (shmdata_PublishBackSeg).              *)
FrontIntact ==
    front # back /\ served.build > 0 =>
        /\ GetItem(front) = served.config
        /\ served.config # NoItem =>
              \E b \in served.blocks : b.item = 1 /\ b.offset = served.config
        /\ \A b \in served.blocks : \A w \in Of(b) : data[w] = served.build

(* An item gives the place and the size of the blocks that its service     *)
(* allocated, all of them and nothing else (shmdata_CloseItemTag).         *)
ItemCovers ==
    \A s \in Segments : \A n \in DOMAIN items[s] :
        LET own == {b \in blocks[s] : b.item = n} IN
        UNION {Of(b) : b \in own} = Of(items[s][n])

(* An allocation finds no room only if the build needs more than a segment: *)
(* whatever went before, nothing of it takes up room (shmdata_shpalloc).   *)
RefusedOnlyIfTooLarge == writer = "null" => asked > SegmentSize
=============================================================================
