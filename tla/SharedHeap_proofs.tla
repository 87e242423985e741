------------------------- MODULE SharedHeap_proofs --------------------------
(***************************************************************************)
(* Proofs about SharedHeap, for any set of reader threads, both modes, any *)
(* number of builds and any clock.                                         *)
(***************************************************************************)
EXTENDS SharedHeap, TLAPS

LEMMA PointerFacts ==
    /\ 0 \in Segments /\ 1 \in Segments /\ Nil \in Int
    /\ Nil \in Pointers /\ Nil \notin Segments
    /\ \A s \in Segments : s \in Pointers
BY DEF Pointers, Segments, Nil

LEMMA ThreadFacts ==
    /\ Readers \subseteq Threads /\ Writer \in Threads /\ Starter \in Threads
    /\ \A t \in Threads : HeapOf(t) \in Heaps /\ AfterSync(t) \in Labels
    /\ "down" \in Labels /\ "dead" \in Labels /\ "done" \in Labels
    /\ "idle" \in Labels /\ "fetch" \in Labels /\ "build" \in Labels
    /\ "swapback" \in Labels /\ "swapfront" \in Labels /\ "stamp" \in Labels
    /\ "sync" \in Labels /\ "lock" \in Labels /\ "segment" \in Labels
    /\ "timestamp" \in Labels /\ "callback" \in Labels /\ "unlock" \in Labels
    /\ "bindload" \in Labels /\ "bindstore" \in Labels
    /\ "module" \in Labels /\ "element" \in Labels
BY DEF Threads, HeapOf, Heaps, AfterSync, Labels

LEMMA TypeInit == Init => TypeOK
<1> SUFFICES ASSUME Init PROVE TypeOK
  OBVIOUS
<1>1. page \in PageType /\ seg \in [Segments -> SegmentType]
  BY PointerFacts DEF TypeOK, Init, PageType, SegmentType
<1>2. heap \in [Heaps -> HeapType]
  BY PointerFacts DEF TypeOK, Init, HeapType
<1>3. lookup \in [Readers -> LookupType]
  BY PointerFacts DEF TypeOK, Init, LookupType
<1>4. QED
  BY <1>1, <1>2, <1>3, PointerFacts, ThreadFacts DEF TypeOK, Init

LEMMA TypeStep == ASSUME TypeOK, [Next]_vars PROVE TypeOK'
<1>0. page \in PageType /\ heap \in [Heaps -> HeapType]
  BY DEF TypeOK
<1>1. CASE Boot
  <2>1. page' \in PageType
    BY <1>1, PointerFacts DEF TypeOK, Boot, PageType
  <2>2. seg' \in [Segments -> SegmentType]
    BY <1>1, PointerFacts DEF TypeOK, Boot, SegmentType
  <2>3. heap' \in [Heaps -> HeapType]
    BY <1>1, PointerFacts DEF TypeOK, Boot, HeapType
  <2>4. builds' \in Nat /\ loadedAt' \in [Heaps -> Nat]
    BY <1>1 DEF Boot
  <2>5. pc' \in [Threads -> Labels]
    BY <1>1, ThreadFacts DEF TypeOK, Boot
  <2>6. UNCHANGED <<switchConfig, reg, tmp, clock, lookup, raced, silent,
                    killedAt, lap, clobbered>>
    BY <1>1 DEF Boot
  <2>7. QED
    BY <2>1, <2>2, <2>3, <2>4, <2>5, <2>6 DEF TypeOK
<1>2. CASE BeginTagging
  BY <1>2, ThreadFacts DEF TypeOK, BeginTagging, Goto, PageType, SegmentType
<1>3. CASE RefreshFails
  BY <1>3, ThreadFacts DEF TypeOK, RefreshFails, Goto
<1>4. CASE OpenItemTag
  BY <1>4, ThreadFacts DEF TypeOK, OpenItemTag, Goto, PageType, SegmentType
<1>5. CASE CloseItemTag
  BY <1>5, ThreadFacts DEF TypeOK, CloseItemTag, Goto, PageType, SegmentType
<1>6. CASE SwapBack
  BY <1>6, ThreadFacts DEF TypeOK, SwapBack, Goto, PageType
<1>7. CASE SwapFront
  BY <1>7, ThreadFacts DEF TypeOK, SwapFront, Goto, PageType
<1>8. CASE StampPage
  BY <1>8, ThreadFacts DEF TypeOK, StampPage, Goto, PageType, PublishEnds
<1>9. CASE WriterDies
  BY <1>9, ThreadFacts DEF TypeOK, WriterDies, Goto, PublishEnds
<1>10. CASE RestartWriter
  BY <1>10, ThreadFacts DEF TypeOK, RestartWriter, Goto, Heaps
<1>11. ASSUME NEW t \in Threads, Sync(t) PROVE TypeOK'
  <2>1. CASE SyncCheck(t)
    BY <2>1, ThreadFacts DEF TypeOK, SyncCheck, Goto
  <2>2. CASE GetLock(t)
    <3>1. heap' \in [Heaps -> HeapType]
      BY <1>0, <2>2, ThreadFacts DEF GetLock, HeapType
    <3>2. QED
      BY <3>1, <2>2, ThreadFacts DEF TypeOK, GetLock, Goto
  <2>3. CASE LockBusy(t)
    <3>1. ASSUME NEW r \in Readers
          PROVE  [lookup[r] EXCEPT !.joined = @ \/ r = t] \in LookupType
      <4>1. lookup[r] \in LookupType /\ (lookup[r].joined \/ r = t) \in BOOLEAN
        BY DEF TypeOK
      <4>2. QED
        BY <4>1 DEF LookupType
    <3>2. lookup' \in [Readers -> LookupType]
      BY <2>3, <3>1 DEF LockBusy
    <3>3. QED
      BY <2>3, <3>2, ThreadFacts DEF TypeOK, LockBusy, Goto
  <2>4. CASE LoadSegment(t)
    <3>1. heap' \in [Heaps -> HeapType]
      BY <1>0, <2>4, ThreadFacts DEF LoadSegment, HeapType, PageType, Pointers
    <3>2. QED
      BY <3>1, <2>4, ThreadFacts DEF TypeOK, LoadSegment, Goto, PageType
  <2>5. CASE LoadTimestamp(t)
    <3>1. heap' \in [Heaps -> HeapType]
      BY <1>0, <2>5, ThreadFacts DEF LoadTimestamp, HeapType, PageType, Pointers
    <3>2. QED
      BY <3>1, <2>5, ThreadFacts DEF TypeOK, LoadTimestamp, Goto
  <2>6. CASE OnSheapPageFlip(t)
    <3>1. heap' \in [Heaps -> HeapType]
      BY <1>0, <2>6, ThreadFacts DEF OnSheapPageFlip, HeapType
    <3>2. QED
      BY <3>1, <2>6, ThreadFacts DEF TypeOK, OnSheapPageFlip, Goto
  <2>7. CASE Unlock(t)
    <3>1. heap' \in [Heaps -> HeapType]
      BY <1>0, <2>7, ThreadFacts DEF Unlock, HeapType
    <3>2. QED
      BY <3>1, <2>7, ThreadFacts DEF TypeOK, Unlock, Goto
  <2>8. QED
    BY <1>11, <2>1, <2>2, <2>3, <2>4, <2>5, <2>6, <2>7 DEF Sync
<1>12. ASSUME NEW t \in Threads, Bind(t) PROVE TypeOK'
  <2>1. CASE BindLoad(t)
    BY <2>1, ThreadFacts DEF TypeOK, BindLoad, Goto, HeapType, Heaps
  <2>2. CASE BindStore(t)
    BY <2>2, ThreadFacts DEF TypeOK, BindStore, Goto, HeapType
  <2>3. QED
    BY <1>12, <2>1, <2>2 DEF Bind
<1>13. ASSUME NEW r \in Readers, Call(r) PROVE TypeOK'
  BY <1>13, ThreadFacts DEF TypeOK, Call, Goto, LookupType, SegmentType, PageType, Pointers, InForce
<1>14. ASSUME NEW r \in Readers, NothingBound(r) PROVE TypeOK'
  BY <1>14, ThreadFacts DEF TypeOK, NothingBound, Goto
<1>15. ASSUME NEW r \in Readers, GetModule(r) PROVE TypeOK'
  BY <1>15, ThreadFacts DEF TypeOK, GetModule, Goto, LookupType, SegmentType, PageType, Pointers
<1>16. ASSUME NEW r \in Readers, GetElement(r) PROVE TypeOK'
  BY <1>16, ThreadFacts DEF TypeOK, GetElement, Goto, LookupType, SegmentType, PageType, Pointers
<1>17. CASE Tick
  BY <1>17 DEF TypeOK, Tick
<1>18. CASE UNCHANGED vars
  BY <1>18 DEF TypeOK, vars
<1>19. QED
  BY <1>1, <1>2, <1>3, <1>4, <1>5, <1>6, <1>7, <1>8, <1>9, <1>10, <1>11, <1>12,
     <1>13, <1>14, <1>15, <1>16, <1>17, <1>18, ThreadFacts
     DEF Next, WriterStep, Publish, ReaderStep

(* Every variable of the heap, of its processes and of their lookups holds *)
(* a value of its type.                                                    *)
THEOREM TypeCorrect == Spec => []TypeOK
  BY TypeInit, TypeStep, PTL DEF Spec

-----------------------------------------------------------------------------
(* Steps that write neither the page nor the segments.                     *)
ReaderOnly(r) == Call(r) \/ NothingBound(r) \/ GetModule(r) \/ GetElement(r)

Quiet == \/ \E t \in Threads \ {Starter} : Sync(t)
         \/ \E t \in Threads \ {Writer} : Bind(t)
         \/ \E r \in Readers : ReaderOnly(r)
         \/ Tick
         \/ UNCHANGED vars

LEMMA StepCases ==
    ASSUME [Next]_vars
    PROVE  \/ Boot \/ BeginTagging \/ RefreshFails \/ OpenItemTag \/ CloseItemTag
           \/ SwapBack \/ SwapFront \/ StampPage \/ WriterDies \/ RestartWriter
           \/ Quiet
BY ThreadsAssumption
   DEF Next, WriterStep, Publish, ReaderStep, Quiet, ReaderOnly, Threads

\* Where the worker is while it follows its own flip.
SyncLabels == {"idle", "sync", "lock", "segment", "timestamp", "callback", "unlock"}

LEMMA QuietFrame ==
    ASSUME TypeOK, Quiet
    PROVE  /\ UNCHANGED <<page, seg, tmp, builds, silent, killedAt>>
           /\ Booted' <=> Booted
           /\ \/ pc'[Writer] = pc[Writer]
              \/ pc[Writer] \in SyncLabels /\ pc'[Writer] \in SyncLabels
<1> USE DEF Goto, Booted, SyncLabels
<1>0. pc \in [Threads -> Labels] /\ Starter \in Threads /\ Writer \in Threads
      /\ Readers \subseteq Threads /\ Writer # Starter
  BY ThreadFacts, ThreadsAssumption DEF TypeOK
<1>1. ASSUME NEW t \in Threads, t # Starter, Sync(t)
      PROVE  /\ UNCHANGED <<page, seg, tmp, builds, silent, killedAt>>
             /\ Booted' <=> Booted
             /\ \/ pc'[Writer] = pc[Writer]
                \/ pc[Writer] \in SyncLabels /\ pc'[Writer] \in SyncLabels
  <2>1. UNCHANGED <<page, seg, tmp, builds, silent, killedAt>>
    BY <1>1 DEF Sync, SyncCheck, GetLock, LockBusy, LoadSegment, LoadTimestamp,
                OnSheapPageFlip, Unlock
  <2>2. \E l \in Labels : pc' = [pc EXCEPT ![t] = l]
    BY <1>1, ThreadFacts DEF Sync, SyncCheck, GetLock, LockBusy, LoadSegment,
                LoadTimestamp, OnSheapPageFlip, Unlock
  <2>3. t = Writer => pc[t] \in SyncLabels /\ pc'[t] \in SyncLabels
    BY <1>0, <1>1 DEF Sync, SyncCheck, GetLock, LockBusy, LoadSegment, LoadTimestamp,
                OnSheapPageFlip, Unlock, AfterSync
  <2>4. QED
    BY <1>0, <1>1, <2>1, <2>2, <2>3
<1>2. ASSUME NEW t \in Threads, t # Writer, Bind(t)
      PROVE  /\ UNCHANGED <<page, seg, tmp, builds, silent, killedAt>>
             /\ Booted' <=> Booted
             /\ pc'[Writer] = pc[Writer]
  BY <1>0, <1>2 DEF Bind, BindLoad, BindStore
<1>3. ASSUME NEW r \in Readers, ReaderOnly(r)
      PROVE  /\ UNCHANGED <<page, seg, tmp, builds, silent, killedAt>>
             /\ Booted' <=> Booted
             /\ pc'[Writer] = pc[Writer]
  BY <1>0, <1>3, ThreadsAssumption
     DEF ReaderOnly, Call, NothingBound, GetModule, GetElement
<1>4. CASE Tick
  BY <1>4 DEF Tick
<1>5. CASE UNCHANGED vars
  BY <1>5 DEF vars
<1>6. QED
  BY <1>1, <1>2, <1>3, <1>4, <1>5 DEF Quiet

-----------------------------------------------------------------------------
(* The part of the invariant that speaks of the page and the segments only. *)
PageInv ==
    /\ Booted <=> pc[Writer] # "down"
    /\ ~Booted => /\ \A s \in Segments : seg[s].state = "blank" /\ seg[s].gen = 0
                  /\ page.flipcount = 0
    /\ InvBuffers /\ InvBuild /\ InvGen /\ FrontServable

LEMMA PageTypes ==
    ASSUME TypeOK
    PROVE  /\ page.front \in Segments /\ page.back \in Segments
           /\ page.flipcount \in Nat /\ page.timestamp \in Int
           /\ tmp \in Segments /\ builds \in Nat
           /\ page \in PageType
           /\ \A s \in Segments : seg[s].gen \in Nat /\ seg[s].items \in Nat
           /\ seg \in [Segments -> SegmentType]
           /\ pc \in [Threads -> Labels] /\ Writer \in Threads /\ Starter \in Threads
           /\ Writer # Starter
BY ThreadFacts, ThreadsAssumption DEF TypeOK, PageType, SegmentType

LEMMA PageInit == Init => PageInv
BY ThreadFacts, ThreadsAssumption
   DEF Init, PageInv, InvBuffers, InvBuild, InvGen, FrontServable, Booted,
       HalfSwapped, Segments

LEMMA PageStep == ASSUME TypeOK, PageInv, [Next]_vars PROVE PageInv'
<1> USE DEF PageInv, InvBuffers, InvBuild, InvGen, FrontServable, Booted,
            HalfSwapped, Segments
<1>0. /\ page.front \in Segments /\ page.back \in Segments
      /\ page.flipcount \in Nat /\ tmp \in Segments /\ builds \in Nat
      /\ \A s \in Segments : seg[s].gen \in Nat /\ seg[s].items \in Nat
      /\ seg \in [Segments -> SegmentType] /\ page \in PageType
      /\ pc \in [Threads -> Labels] /\ Writer \in Threads /\ Starter \in Threads
      /\ Writer # Starter
  BY PageTypes
<1>1. CASE Boot
  BY <1>0, <1>1 DEF Boot, SegmentType
<1>2. CASE BeginTagging
  BY <1>0, <1>2 DEF BeginTagging, Goto, SegmentType
<1>3. CASE RefreshFails
  BY <1>0, <1>3 DEF RefreshFails, Goto
<1>4. CASE OpenItemTag
  BY <1>0, <1>4 DEF OpenItemTag, Goto
<1>5. CASE CloseItemTag
  BY <1>0, <1>5 DEF CloseItemTag, Goto
<1>6. CASE SwapBack
  BY <1>0, <1>6 DEF SwapBack, Goto, PageType
<1>7. CASE SwapFront
  BY <1>0, <1>7 DEF SwapFront, Goto
<1>8. CASE StampPage
  BY <1>0, <1>8 DEF StampPage, Goto, PageType
<1>9. CASE WriterDies
  BY <1>0, <1>9 DEF WriterDies, Goto
<1>10. CASE RestartWriter
  BY <1>0, <1>10 DEF RestartWriter, Goto
<1>11. CASE Quiet
  BY <1>0, <1>11, QuietFrame DEF SyncLabels
<1>12. QED
  BY <1>1, <1>2, <1>3, <1>4, <1>5, <1>6, <1>7, <1>8, <1>9, <1>10, <1>11, StepCases

LEMMA PageCorrect == Spec => [](TypeOK /\ PageInv)
<1>1. Init => TypeOK /\ PageInv
  BY TypeInit, PageInit
<1>2. TypeOK /\ PageInv /\ [Next]_vars => (TypeOK /\ PageInv)'
  BY TypeStep, PageStep
<1>3. QED
  BY <1>1, <1>2, PTL DEF Spec

(* The page always has two segments to work with, or was left with one by  *)
(* a worker killed between the two stores of shmdata_PublishBackSeg.       *)
THEOREM AlwaysDoubleBuffered == Spec => []DoubleBuffered
<1>1. PageInv => DoubleBuffered
  BY DEF PageInv, InvBuffers, DoubleBuffered
<1>2. QED
  BY <1>1, PageCorrect, PTL

(* Whatever cc_refreshConfigCore fails at, and wherever the worker dies,   *)
(* a flip leads to a segment with a whole configuration in it.             *)
THEOREM FrontAlwaysServable == Spec => []FrontServable
<1>1. PageInv => FrontServable
  BY DEF PageInv
<1>2. QED
  BY <1>1, PageCorrect, PTL

-----------------------------------------------------------------------------
(* Timestamps.                                                             *)
StampInv == InvStamps /\ HeapCurrent

LEMMA HeapTypes ==
    ASSUME TypeOK
    PROVE  /\ heap \in [Heaps -> HeapType] /\ loadedAt \in [Heaps -> Nat]
           /\ raced \in [Heaps -> BOOLEAN] /\ silent \in BOOLEAN /\ clock \in Nat
           /\ \A h \in Heaps : heap[h].timestamp \in Int /\ loadedAt[h] \in Nat
           /\ "app" \in Heaps /\ "msg" \in Heaps
BY DEF TypeOK, HeapType, Heaps

LEMMA StampInit == Init => StampInv
BY ThreadFacts, ThreadsAssumption
   DEF Init, StampInv, InvStamps, HeapCurrent, Booted, Nil, Heaps

\* A step that leaves page, clock and the heaps alone, and the worker away
\* from "stamp" unless it was there.
LEMMA StampFrame ==
    ASSUME TypeOK, PageInv, StampInv,
           UNCHANGED <<heap, loadedAt, raced, silent, clock>>,
           page'.front = page.front, page'.timestamp = page.timestamp,
           page'.flipcount = page.flipcount,
           Booted' <=> Booted,
           pc[Writer] = "stamp" => pc'[Writer] = "stamp"
    PROVE  StampInv'
BY DEF StampInv, InvStamps, HeapCurrent

LEMMA StampStep == ASSUME TypeOK, TypeOK', PageInv, StampInv, [Next]_vars PROVE StampInv'
<1> USE DEF StampInv, InvStamps, HeapCurrent
<1>0. /\ pc \in [Threads -> Labels] /\ Writer \in Threads /\ Starter \in Threads
      /\ Writer # Starter /\ page \in PageType
      /\ page.flipcount \in Nat /\ page.timestamp \in Int
  BY PageTypes
<1>h. /\ heap \in [Heaps -> HeapType] /\ loadedAt \in [Heaps -> Nat]
      /\ raced \in [Heaps -> BOOLEAN] /\ clock \in Nat
      /\ \A h \in Heaps : heap[h].timestamp \in Int /\ loadedAt[h] \in Nat
      /\ "app" \in Heaps /\ "msg" \in Heaps
  BY HeapTypes
<1>1. CASE Boot
  BY <1>0, <1>h, <1>1 DEF Boot, Booted
<1>2. CASE BeginTagging
  BY <1>0, <1>2, StampFrame DEF BeginTagging, Goto, Booted
<1>3. CASE RefreshFails
  BY <1>0, <1>3, StampFrame DEF RefreshFails, Goto, Booted
<1>4. CASE OpenItemTag
  BY <1>0, <1>4, StampFrame DEF OpenItemTag, Goto, Booted
<1>5. CASE CloseItemTag
  BY <1>0, <1>5, StampFrame DEF CloseItemTag, Goto, Booted
<1>6. CASE SwapBack
  BY <1>0, <1>6, StampFrame DEF SwapBack, Goto, Booted, PageType
<1>7. CASE SwapFront
  BY <1>0, <1>h, <1>7 DEF SwapFront, Goto, Booted
<1>8. CASE StampPage
  <2>1. page'.timestamp = clock /\ page'.front = page.front
        /\ page'.flipcount = page.flipcount
    BY <1>0, <1>8 DEF StampPage, PageType
  <2>2. UNCHANGED <<heap, loadedAt, raced, clock>> /\ (Booted' <=> Booted)
    BY <1>0, <1>8 DEF StampPage, Goto, Booted
  <2>3. page.timestamp = clock => silent'
    BY <1>8 DEF StampPage
  <2>4. InvStamps'
    BY <1>0, <1>h, <2>1, <2>2
  <2>5. ASSUME NEW h \in Heaps, heap[h].timestamp = clock PROVE silent'
    BY <1>0, <1>h, <2>3, <2>5
  <2>6. HeapCurrent'
    BY <2>1, <2>2, <2>5
  <2>7. QED
    BY <2>4, <2>6
<1>9. CASE WriterDies
  BY <1>0, <1>h, <1>9 DEF WriterDies, Goto, Booted
<1>10. CASE RestartWriter
  BY <1>0, <1>h, <1>10 DEF RestartWriter, Goto, Booted
<1>11. CASE Quiet
  <2>0. /\ UNCHANGED <<page, silent>> /\ (Booted' <=> Booted)
        /\ pc[Writer] = "stamp" => pc'[Writer] = "stamp"
        /\ pc'[Writer] = "stamp" => pc[Writer] = "stamp"
    BY <1>11, QuietFrame DEF SyncLabels
  <2>1. ASSUME NEW t \in Threads, LoadSegment(t) PROVE StampInv'
    <3>1. HeapOf(t) \in Heaps
      BY ThreadFacts
    <3>2. /\ UNCHANGED <<raced, clock>>
          /\ heap' = [heap EXCEPT ![HeapOf(t)].segment = page.front]
          /\ loadedAt' = [loadedAt EXCEPT ![HeapOf(t)] = page.flipcount]
      BY <2>1 DEF LoadSegment
    <3>3. \A h \in Heaps : heap'[h].timestamp = heap[h].timestamp
      BY <1>h, <3>1, <3>2 DEF HeapType
    <3>4. \A h \in Heaps : heap'[h].segment =
                 IF h = HeapOf(t) THEN page.front ELSE heap[h].segment
      BY <1>h, <3>1, <3>2 DEF HeapType
    <3>5. \A h \in Heaps : loadedAt'[h] =
                 IF h = HeapOf(t) THEN page.flipcount ELSE loadedAt[h]
      BY <1>h, <3>1, <3>2
    <3>6. QED
      BY <1>0, <1>h, <2>0, <3>2, <3>3, <3>4, <3>5
  <2>2. ASSUME NEW t \in Threads, LoadTimestamp(t) PROVE StampInv'
    <3>1. HeapOf(t) \in Heaps
      BY ThreadFacts
    <3>2. /\ UNCHANGED <<loadedAt, clock>>
          /\ heap' = [heap EXCEPT ![HeapOf(t)].timestamp = page.timestamp]
          /\ raced' = [raced EXCEPT ![HeapOf(t)] = loadedAt[HeapOf(t)] # page.flipcount]
      BY <2>2 DEF LoadTimestamp
    <3>3. \A h \in Heaps : heap'[h].segment = heap[h].segment
      BY <1>h, <3>1, <3>2 DEF HeapType
    <3>4. \A h \in Heaps : heap'[h].timestamp =
                 IF h = HeapOf(t) THEN page.timestamp ELSE heap[h].timestamp
      BY <1>h, <3>1, <3>2 DEF HeapType
    <3>5. \A h \in Heaps : h # HeapOf(t) => raced'[h] = raced[h]
      BY <1>h, <3>1, <3>2
    <3>6. raced'[HeapOf(t)] <=> loadedAt[HeapOf(t)] # page.flipcount
      BY <1>h, <3>1, <3>2
    <3>7. QED
      BY <1>0, <1>h, <2>0, <3>1, <3>2, <3>3, <3>4, <3>5, <3>6
  <2>3. ASSUME NEW t \in Threads, GetLock(t) \/ OnSheapPageFlip(t) \/ Unlock(t)
        PROVE StampInv'
    <3>1. HeapOf(t) \in Heaps
      BY ThreadFacts
    <3>2. \A h \in Heaps : /\ heap'[h].timestamp = heap[h].timestamp
                           /\ heap'[h].segment = heap[h].segment
      BY <1>h, <2>3, <3>1 DEF GetLock, OnSheapPageFlip, Unlock, HeapType
    <3>3. UNCHANGED <<loadedAt, raced, clock>>
      BY <2>3 DEF GetLock, OnSheapPageFlip, Unlock
    <3>4. QED
      BY <2>0, <3>2, <3>3
  <2>4. ASSUME NEW t \in Threads, SyncCheck(t) \/ LockBusy(t) \/ Bind(t)
        PROVE StampInv'
    BY <2>0, <2>4, StampFrame DEF SyncCheck, LockBusy, Bind, BindLoad, BindStore
  <2>5. ASSUME NEW r \in Readers, ReaderOnly(r) PROVE StampInv'
    BY <2>0, <2>5, StampFrame DEF ReaderOnly, Call, NothingBound, GetModule, GetElement
  <2>6. CASE Tick
    BY <1>h, <1>0, <2>0, <2>6 DEF Tick
  <2>7. CASE UNCHANGED vars
    BY <2>0, <2>7, StampFrame DEF vars
  <2>8. QED
    BY <1>11, <2>1, <2>2, <2>3, <2>4, <2>5, <2>6, <2>7 DEF Quiet, Sync
<1>12. QED
  BY <1>1, <1>2, <1>3, <1>4, <1>5, <1>6, <1>7, <1>8, <1>9, <1>10, <1>11, StepCases

LEMMA StampCorrect == Spec => [](TypeOK /\ PageInv /\ StampInv)
<1>1. Init => StampInv
  BY StampInit
<1>2. TypeOK /\ TypeOK' /\ PageInv /\ StampInv /\ [Next]_vars => StampInv'
  BY StampStep
<1>3. QED
  BY <1>1, <1>2, PageCorrect, PTL DEF Spec

(* A process whose date equals the page's is on the front segment, unless  *)
(* the flip fell between its two loads or did not change the date.         *)
THEOREM HeapAlwaysCurrent == Spec => []HeapCurrent
<1>1. StampInv => HeapCurrent
  BY DEF StampInv
<1>2. QED
  BY <1>1, StampCorrect, PTL

-----------------------------------------------------------------------------
(* Lookups.                                                                *)
LookupInv == /\ InvBoot /\ InvPointers /\ InvLap /\ InvLookup
             /\ TornOnlyIfLapped /\ AnswerInForce

LEMMA LookupTypes ==
    ASSUME TypeOK
    PROVE  /\ lookup \in [Readers -> LookupType]
           /\ \A r \in Readers :
                 /\ lookup[r].gen \in Nat /\ lookup[r].from \in Nat
                 /\ lookup[r].ptr \in Pointers
                 /\ lookup[r].torn \in BOOLEAN /\ lookup[r].behind \in BOOLEAN
           /\ lap \in [Readers -> {0, 1, 2}]
           /\ switchConfig \in Pointers /\ reg \in [Threads -> Pointers]
           /\ \A h \in Heaps : heap[h].config \in Pointers /\ heap[h].segment \in Pointers
BY DEF TypeOK, LookupType, HeapType

LEMMA LookupInit == Init => LookupInv
<1> SUFFICES ASSUME Init PROVE LookupInv
  OBVIOUS
<1>0. /\ pc[Writer] = "down" /\ pc[Starter] = "down"
      /\ \A r \in Readers : pc[r] = "idle" /\ lap[r] = 0 /\ lookup[r].from = 0
      /\ \A s \in Segments : seg[s].state = "blank" /\ seg[s].gen = 0 /\ seg[s].items = 0
      /\ page.front \in Segments
  BY ThreadFacts, ThreadsAssumption DEF Init, Segments
<1>1. InvBoot
  BY <1>0 DEF InvBoot, Booted
<1>n. \A s \in Segments : ~(seg[s].items > 0)
  BY <1>0
<1>p. InvPointers
  BY <1>n DEF InvPointers, Init
<1>2. \A r \in Readers : lookup[r].from <= InForce
  <2>1. InForce = 0
    BY <1>0 DEF InForce
  <2>2. ASSUME NEW r \in Readers PROVE lookup[r].from <= InForce
    <3>1. lookup[r].from = 0
      BY <1>0
    <3>2. QED
      BY <2>1, <3>1
  <2>3. QED
    BY <2>2
<1>l. \A r \in Readers : lap[r] # 1
  <2>1. 0 # 1
    OBVIOUS
  <2>2. QED
    BY <1>0, <2>1, Zenon
<1>k. InvLap
  BY <1>2, <1>l DEF InvLap
<1>m. InvLookup
  BY <1>0 DEF InvLookup
<1>3. TornOnlyIfLapped /\ AnswerInForce
  BY DEF Init, TornOnlyIfLapped, AnswerInForce
<1>4. QED
  BY <1>1, <1>p, <1>k, <1>m, <1>3 DEF LookupInv

(* Steps of the worker and the rest, on the pointers.                      *)
LEMMA PointerStep == ASSUME TypeOK, InvPointers, [Next]_vars PROVE InvPointers'
<1> USE DEF InvPointers
<1>0. /\ page.front \in Segments /\ page.back \in Segments /\ page \in PageType
      /\ seg \in [Segments -> SegmentType]
      /\ \A s \in Segments : seg[s].items \in Nat
      /\ heap \in [Heaps -> HeapType] /\ reg \in [Threads -> Pointers]
      /\ switchConfig \in Pointers /\ "app" \in Heaps /\ "msg" \in Heaps
      /\ \A h \in Heaps : heap[h].config \in Pointers
      /\ \A s \in Pointers : s # Nil => s \in Segments
  BY PageTypes, HeapTypes, LookupTypes DEF Pointers
<1>1. CASE Boot
  <2>1. PICK parsed \in BOOLEAN :
          /\ seg' = IF parsed
                    THEN [seg EXCEPT ![0] = [gen |-> 1, state |-> "complete", items |-> 1]]
                    ELSE seg
          /\ heap' = [h \in Heaps |-> [timestamp |-> clock, segment |-> 0,
                                       refreshing |-> FALSE,
                                       config |-> IF parsed THEN 0 ELSE Nil]]
    BY <1>1 DEF Boot
  <2>2. \A s \in Segments : seg'[s] = seg[s] \/ seg'[s].state = "complete"
    BY <1>0, <2>1
  <2>3. \A h \in Heaps : heap'[h].config # Nil =>
            heap'[h].config = 0 /\ seg'[0].state = "complete"
    BY <1>0, <2>1, PointerFacts
  <2>4. UNCHANGED <<switchConfig, reg>>
    BY <1>1 DEF Boot
  <2>5. QED
    BY <1>0, <2>2, <2>3, <2>4
<1>2. ASSUME UNCHANGED <<heap, switchConfig, reg>>,
             \A s \in Segments :
                /\ seg'[s].state = "blank" => seg[s].state = "blank"
                /\ seg'[s].items > 0 /\ seg'[s].state = "blank" => seg[s].items > 0
      PROVE  InvPointers'
  BY <1>0, <1>2
<1>3. CASE BeginTagging
  <2>1. \A s \in Segments : seg'[s].state = seg[s].state /\ seg'[s].items \in {0, seg[s].items}
    BY <1>0, <1>3 DEF BeginTagging, SegmentType
  <2>2. QED
    BY <1>0, <1>2, <1>3, <2>1 DEF BeginTagging
<1>4. CASE OpenItemTag \/ CloseItemTag
  <2>1. \A s \in Segments : seg'[s] = seg[s] \/ seg'[s].state # "blank"
    BY <1>0, <1>4 DEF OpenItemTag, CloseItemTag
  <2>2. UNCHANGED <<heap, switchConfig, reg>>
    BY <1>4 DEF OpenItemTag, CloseItemTag
  <2>3. QED
    BY <1>0, <2>1, <2>2
<1>5. CASE RefreshFails \/ SwapBack \/ SwapFront \/ StampPage \/ WriterDies
  BY <1>0, <1>2, <1>5 DEF RefreshFails, SwapBack, SwapFront, StampPage, WriterDies
<1>6. CASE RestartWriter
  BY <1>0, <1>6 DEF RestartWriter
<1>7. CASE Quiet
  <2>0. UNCHANGED seg
    BY <1>7, QuietFrame
  <2>1. ASSUME NEW t \in Threads, OnSheapPageFlip(t) PROVE InvPointers'
    <3>1. HeapOf(t) \in Heaps
      BY ThreadFacts
    <3>2. \A h \in Heaps :
            \/ heap'[h].config = heap[h].config
            \/ /\ heap'[h].config = heap[HeapOf(t)].segment
               /\ seg[heap[HeapOf(t)].segment].items > 0
      BY <1>0, <2>1, <3>1 DEF OnSheapPageFlip, HeapType
    <3>3. heap[HeapOf(t)].segment \in Pointers
      BY <3>1, LookupTypes
    <3>4. UNCHANGED <<switchConfig, reg>>
      BY <2>1 DEF OnSheapPageFlip
    <3>5. QED
      BY <1>0, <2>0, <3>2, <3>3, <3>4
  <2>2. ASSUME NEW t \in Threads,
               \/ SyncCheck(t) \/ GetLock(t) \/ LockBusy(t) \/ LoadSegment(t)
               \/ LoadTimestamp(t) \/ Unlock(t)
        PROVE  InvPointers'
    <3>1. HeapOf(t) \in Heaps
      BY ThreadFacts
    <3>2. \A h \in Heaps : heap'[h].config = heap[h].config
      BY <1>0, <2>2, <3>1
         DEF SyncCheck, GetLock, LockBusy, LoadSegment, LoadTimestamp, Unlock, HeapType
    <3>3. UNCHANGED <<switchConfig, reg>>
      BY <2>2 DEF SyncCheck, GetLock, LockBusy, LoadSegment, LoadTimestamp, Unlock
    <3>4. QED
      BY <2>0, <3>2, <3>3
  <2>3. ASSUME NEW t \in Threads, Bind(t) PROVE InvPointers'
    BY <1>0, <2>0, <2>3 DEF Bind, BindLoad, BindStore
  <2>4. ASSUME NEW r \in Readers, ReaderOnly(r) PROVE InvPointers'
    BY <2>0, <2>4 DEF ReaderOnly, Call, NothingBound, GetModule, GetElement
  <2>5. CASE Tick \/ UNCHANGED vars
    BY <2>0, <2>5 DEF Tick, vars
  <2>6. QED
    BY <1>7, <2>1, <2>2, <2>3, <2>4, <2>5 DEF Quiet, Sync
<1>8. QED
  BY <1>1, <1>3, <1>4, <1>5, <1>6, <1>7, StepCases

\* What a lookup saw; whether it found the lock busy aside.
SameLookups ==
    \A r \in Readers :
        /\ lookup'[r].ptr = lookup[r].ptr /\ lookup'[r].gen = lookup[r].gen
        /\ lookup'[r].torn = lookup[r].torn /\ lookup'[r].behind = lookup[r].behind
        /\ lookup'[r].from = lookup[r].from /\ lookup'[r].answer = lookup[r].answer

(* Following a flip and binding change nothing a lookup saw.               *)
LEMMA SyncLookups ==
    ASSUME TypeOK, NEW t \in Threads, Sync(t) \/ Bind(t)
    PROVE  SameLookups /\ lap' = lap
<1>1. CASE LockBusy(t)
  BY <1>1 DEF LockBusy, SameLookups, TypeOK, LookupType
<1>2. CASE ~LockBusy(t)
  <2>1. UNCHANGED <<lookup, lap>>
    BY <1>2 DEF Sync, SyncCheck, GetLock, LoadSegment, LoadTimestamp,
                OnSheapPageFlip, Unlock, Bind, BindLoad, BindStore
  <2>2. QED
    BY <2>1 DEF SameLookups
<1>3. QED
  BY <1>1, <1>2

(* The steps that leave the worker's publish alone, on the lookups.        *)
LEMMA LookupQuiet ==
    ASSUME TypeOK, PageInv, LookupInv, InvPointers', Quiet
    PROVE  LookupInv'
<1>0. /\ page.front \in Segments /\ page.back \in Segments /\ page \in PageType
      /\ \A s \in Segments : seg[s].gen \in Nat
      /\ pc \in [Threads -> Labels] /\ Readers \subseteq Threads
      /\ Writer \in Threads /\ Starter \in Threads
      /\ lookup \in [Readers -> LookupType] /\ lap \in [Readers -> {0, 1, 2}]
      /\ \A r \in Readers : /\ lookup[r].gen \in Nat /\ lookup[r].from \in Nat
                            /\ lookup[r].torn \in BOOLEAN /\ lookup[r].behind \in BOOLEAN
      /\ Writer \notin Readers /\ Starter \notin Readers
      /\ switchConfig \in Pointers /\ \A s \in Pointers : s # Nil => s \in Segments
  BY PageTypes, LookupTypes, ThreadFacts, ThreadsAssumption DEF Pointers
<1>q. /\ UNCHANGED <<page, seg, tmp, builds, silent, killedAt>>
      /\ Booted' <=> Booted
      /\ \/ pc'[Writer] = pc[Writer]
         \/ pc[Writer] \in SyncLabels /\ pc'[Writer] \in SyncLabels
  BY QuietFrame
<1>s. /\ pc[Writer] = "stamp" <=> pc'[Writer] = "stamp"
      /\ pc[Writer] = "down" <=> pc'[Writer] = "down"
      /\ pc'[Writer] \in {"build", "swapback", "swapfront", "stamp"}
            <=> pc[Writer] \in {"build", "swapback", "swapfront", "stamp"}
  BY <1>q DEF SyncLabels
<1>f. InForce' = InForce /\ (HalfSwapped' <=> HalfSwapped)
  BY <1>q, <1>s DEF InForce, HalfSwapped
\* A step of a thread outside its two reads of the segment.
<1>1. ASSUME SameLookups, lap' = lap,
             \A r \in Readers : \/ pc'[r] = pc[r]
                                \/ /\ pc[r] \notin {"idle", "element"}
                                   /\ pc'[r] \notin {"idle", "element"}
                                   /\ Booted
      PROVE  LookupInv'
  <2>1. InvBoot'
    BY <1>1, <1>q, <1>s DEF InvBoot, LookupInv
  <2>2. InvLap'
    BY <1>1, <1>q, <1>s, <1>f DEF InvLap, LookupInv, SameLookups
  <2>3. InvLookup'
    BY <1>1, <1>q, <1>s, <1>f DEF InvLookup, LookupInv, SameLookups
  <2>4. TornOnlyIfLapped' /\ AnswerInForce'
    BY <1>1, <1>q, <1>s, <1>f DEF TornOnlyIfLapped, AnswerInForce, LookupInv, SameLookups
  <2>5. QED
    BY <2>1, <2>2, <2>3, <2>4 DEF LookupInv
<1>b. \A r \in Readers : pc[r] # "idle" => Booted
  BY DEF LookupInv, InvBoot
<1>2. ASSUME NEW t \in Threads, Sync(t) \/ Bind(t) PROVE LookupInv'
  <2>1. SameLookups /\ lap' = lap
    BY <1>2, SyncLookups
  <2>2. \A r \in Readers : r # t => pc'[r] = pc[r]
    BY <1>0, <1>2 DEF Sync, SyncCheck, GetLock, LockBusy, LoadSegment, LoadTimestamp,
                OnSheapPageFlip, Unlock, Bind, BindLoad, BindStore, Goto
  <2>3. t \in Readers => /\ pc[t] \notin {"idle", "element"}
                         /\ pc'[t] \notin {"idle", "element"}
    BY <1>0, <1>2 DEF Sync, SyncCheck, GetLock, LockBusy, LoadSegment, LoadTimestamp,
                OnSheapPageFlip, Unlock, Bind, BindLoad, BindStore, Goto, AfterSync
  <2>4. QED
    BY <1>1, <1>b, <2>1, <2>2, <2>3
<1>3. CASE Tick \/ UNCHANGED vars
  BY <1>1, <1>3 DEF Tick, vars, SameLookups
\* A step of reader r that changes its own lookup only.
<1>4. ASSUME NEW r \in Readers,
             \A q \in Readers \ {r} : /\ pc'[q] = pc[q] /\ lookup'[q] = lookup[q]
                                      /\ lap'[q] = lap[q],
             Booted,
             HalfSwapped \/ lookup'[r].from <= InForce,
             \/ lap'[r] = 0
             \/ lap'[r] = lap[r] /\ lookup'[r].from = lookup[r].from,
             lookup'[r].torn => lap'[r] = 2 \/ lookup'[r].behind \/ HalfSwapped,
             pc'[r] = "element" => lookup'[r].ptr # Nil,
             pc'[r] \notin {"idle", "element"} => lookup'[r].ptr = Nil /\ ~lookup'[r].torn,
             pc'[r] = "element" /\ ~lookup'[r].torn /\ ~lookup'[r].behind
               /\ lap'[r] < 2 /\ ~HalfSwapped
                => /\ seg[lookup'[r].ptr].state = "complete"
                   /\ seg[lookup'[r].ptr].gen = lookup'[r].gen
                   /\ lookup'[r].from <= lookup'[r].gen
                   /\ lookup'[r].gen <= seg[page.front].gen
                   /\ lap'[r] = 0 => lookup'[r].ptr = page.front \/ pc[Writer] = "stamp",
             pc'[r] = "idle" /\ lookup'[r].ptr # Nil /\ ~lookup'[r].torn
               /\ ~lookup'[r].behind /\ lap'[r] < 2
                => lookup'[r].gen \in lookup'[r].from .. seg[page.front].gen \/ HalfSwapped
      PROVE  LookupInv'
  <2>1. InvBoot'
    BY <1>4, <1>q, <1>s DEF InvBoot, LookupInv
  <2>2. InvLap'
    BY <1>4, <1>q, <1>s, <1>f DEF InvLap, LookupInv
  <2>3. InvLookup'
    BY <1>4, <1>q, <1>s, <1>f DEF InvLookup, LookupInv
  <2>4. TornOnlyIfLapped'
    BY <1>4, <1>q, <1>s, <1>f DEF TornOnlyIfLapped, LookupInv
  <2>5. AnswerInForce'
    BY <1>4, <1>q, <1>s, <1>f DEF AnswerInForce, LookupInv
  <2>6. QED
    BY <2>1, <2>2, <2>3, <2>4, <2>5 DEF LookupInv
<1>l. ASSUME NEW r \in Readers
      PROVE  /\ HalfSwapped \/ lookup[r].from <= InForce
             /\ lap[r] = 1 => /\ pc[Writer] \notin {"build", "swapback", "swapfront", "stamp"}
                              /\ HalfSwapped \/ \A s \in Segments :
                                    /\ seg[s].state # "building"
                                    /\ lookup[r].from <= seg[s].gen
                                    /\ seg[s].gen <= seg[page.front].gen
             /\ lookup[r].torn => lap[r] = 2 \/ lookup[r].behind \/ HalfSwapped
  BY DEF LookupInv, InvLap, TornOnlyIfLapped
<1>p. ASSUME NEW s \in Segments, seg[s].state # "blank" PROVE seg[s].state \in {"building", "complete"}
  BY <1>p, PageTypes DEF SegmentType
<1>5. ASSUME NEW r \in Readers, Call(r) PROVE LookupInv'
  <2>1. /\ pc'[r] = "sync" /\ lap'[r] = 0 /\ lookup'[r].ptr = Nil
        /\ ~lookup'[r].torn /\ lookup'[r].from = InForce
        /\ Booted
    BY <1>0, <1>5 DEF Call, Goto
  <2>2. \A q \in Readers \ {r} : pc'[q] = pc[q] /\ lookup'[q] = lookup[q] /\ lap'[q] = lap[q]
    BY <1>0, <1>5 DEF Call, Goto
  <2>3. InForce \in Nat
    BY <1>0 DEF InForce
  <2>4. lookup'[r].from <= InForce
    BY <2>1, <2>3
  <2>5. QED
    BY <1>4, <2>1, <2>2, <2>4
<1>6. ASSUME NEW r \in Readers, NothingBound(r) PROVE LookupInv'
  <2>1. /\ pc[r] = "module" /\ pc'[r] = "idle" /\ UNCHANGED <<lap, lookup>>
        /\ \A q \in Readers \ {r} : pc'[q] = pc[q]
    BY <1>0, <1>6 DEF NothingBound, Goto
  <2>2. lookup[r].ptr = Nil
    BY <2>1 DEF LookupInv, InvLookup
  <2>3. QED
    BY <1>4, <1>b, <1>l, <2>1, <2>2
<1>7. ASSUME NEW r \in Readers, GetModule(r) PROVE LookupInv'
  <2>1. /\ pc[r] = "module" /\ pc'[r] = "element" /\ UNCHANGED lap
        /\ switchConfig # Nil /\ Booted
        /\ \A q \in Readers \ {r} : pc'[q] = pc[q] /\ lookup'[q] = lookup[q]
    BY <1>0, <1>7, <1>b DEF GetModule, Goto
  <2>2. /\ lookup'[r].ptr = switchConfig
        /\ lookup'[r].gen = seg[switchConfig].gen
        /\ lookup'[r].torn <=> seg[switchConfig].state # "complete"
        /\ lookup'[r].behind <=> lap[r] = 0 /\ switchConfig # page.front /\ pc[Writer] # "stamp"
        /\ lookup'[r].from = lookup[r].from
    BY <1>0, <1>7 DEF GetModule
  <2>3. switchConfig \in Segments /\ seg[switchConfig].state \in {"building", "complete"}
    BY <1>0, <1>p, <2>1 DEF LookupInv, InvPointers
  <2>4. page.front # page.back \/ pc[Writer] = "swapfront" \/ HalfSwapped
    BY DEF PageInv, InvBuffers
  <2>5. lookup'[r].torn => lap[r] = 2 \/ lookup'[r].behind \/ HalfSwapped
    <3>1. CASE lap[r] = 0 /\ switchConfig = page.front
      BY <2>1, <2>2, <2>3, <3>1 DEF PageInv, FrontServable
    <3>2. CASE lap[r] = 0 /\ switchConfig # page.front /\ pc[Writer] = "stamp"
      <4>1. HalfSwapped \/ switchConfig = page.back
        BY <1>0, <2>3, <2>4, <3>2 DEF Segments
      <4>2. QED
        BY <2>2, <2>3, <3>2, <4>1 DEF PageInv, InvBuild
    <3>3. CASE lap[r] = 1
      BY <1>l, <2>2, <2>3, <3>3
    <3>4. QED
      BY <1>0, <2>2, <3>1, <3>2, <3>3
  <2>6. ASSUME ~lookup'[r].torn, ~lookup'[r].behind, lap[r] < 2, ~HalfSwapped
        PROVE  /\ seg[switchConfig].state = "complete"
               /\ lookup'[r].from <= seg[switchConfig].gen
               /\ seg[switchConfig].gen <= seg[page.front].gen
               /\ lap[r] = 0 => switchConfig = page.front \/ pc[Writer] = "stamp"
    <3>1. seg[switchConfig].state = "complete"
      BY <2>2, <2>6
    <3>2. CASE lap[r] = 0 /\ pc[Writer] = "stamp"
      <4>1. switchConfig \in {page.front, page.back} /\ seg[page.back].gen < seg[page.front].gen
        BY <1>0, <2>3, <2>4, <2>6, <3>2 DEF Segments, PageInv, InvGen
      <4>2. lookup[r].from <= seg[page.back].gen
        BY <1>l, <2>6, <3>2 DEF InForce
      <4>3. QED
        BY <1>0, <2>2, <3>1, <3>2, <4>1, <4>2
    <3>3. CASE lap[r] = 0 /\ pc[Writer] # "stamp"
      <4>1. switchConfig = page.front
        BY <2>2, <2>6, <3>3
      <4>2. lookup[r].from <= seg[page.front].gen
        BY <1>l, <2>6, <3>3 DEF InForce
      <4>3. QED
        BY <1>0, <2>2, <3>1, <3>3, <4>1, <4>2
    <3>4. CASE lap[r] = 1
      BY <1>l, <2>2, <2>3, <2>6, <3>1, <3>4
    <3>5. QED
      BY <1>0, <2>6, <3>2, <3>3, <3>4
  <2>7. QED
    BY <1>4, <1>l, <2>1, <2>2, <2>5, <2>6
<1>8. ASSUME NEW r \in Readers, GetElement(r) PROVE LookupInv'
  <2> DEFINE l == lookup[r]
             same == ~l.torn /\ seg[l.ptr].state = "complete" /\ seg[l.ptr].gen = l.gen
  <2>1. /\ pc[r] = "element" /\ pc'[r] = "idle" /\ UNCHANGED lap /\ Booted
        /\ \A q \in Readers \ {r} : pc'[q] = pc[q] /\ lookup'[q] = lookup[q]
    BY <1>0, <1>8, <1>b DEF GetElement, Goto
  <2>2. /\ lookup'[r].ptr = l.ptr /\ lookup'[r].gen = l.gen
        /\ lookup'[r].from = l.from /\ lookup'[r].behind = l.behind
        /\ lookup'[r].torn <=> ~same
    BY <1>0, <1>8 DEF GetElement
  <2>3. ~l.torn /\ ~l.behind /\ lap[r] < 2 /\ ~HalfSwapped
           => same /\ l.from <= l.gen /\ l.gen <= seg[page.front].gen
    BY <2>1 DEF LookupInv, InvLookup
  <2>4. lookup'[r].torn => lap[r] = 2 \/ lookup'[r].behind \/ HalfSwapped
    BY <1>0, <1>l, <2>2, <2>3
  <2>5. ~lookup'[r].torn /\ ~lookup'[r].behind /\ lap[r] < 2
           => l.gen \in l.from .. seg[page.front].gen \/ HalfSwapped
    BY <1>0, <2>2, <2>3
  <2> HIDE DEF l, same
  <2>6. HalfSwapped \/ lookup'[r].from <= InForce
    BY <1>l, <2>2 DEF l
  <2>7. QED
    BY <1>4, <2>1, <2>2, <2>4, <2>5, <2>6 DEF l
<1>9. QED
  BY <1>2, <1>3, <1>5, <1>6, <1>7, <1>8 DEF Quiet, ReaderOnly

(* The worker's own steps and Boot, on the lookups.                        *)
LEMMA LookupStep ==
    ASSUME TypeOK, TypeOK', PageInv, PageInv', LookupInv, InvPointers', [Next]_vars
    PROVE  LookupInv'
<1>0. /\ page.front \in Segments /\ page.back \in Segments /\ page \in PageType
      /\ tmp \in Segments /\ builds \in Nat
      /\ seg \in [Segments -> SegmentType] /\ \A s \in Segments : seg[s].gen \in Nat
      /\ pc \in [Threads -> Labels] /\ Readers \subseteq Threads
      /\ Writer \in Threads /\ Starter \in Threads /\ Writer # Starter
      /\ lookup \in [Readers -> LookupType] /\ lap \in [Readers -> {0, 1, 2}]
      /\ \A r \in Readers : /\ lookup[r].gen \in Nat /\ lookup[r].from \in Nat
                            /\ lap[r] \in {0, 1, 2}
      /\ Writer \notin Readers /\ Starter \notin Readers
  BY PageTypes, LookupTypes, ThreadFacts, ThreadsAssumption
<1>1. /\ page'.front \in Segments /\ page'.back \in Segments
      /\ \A s \in Segments : seg'[s].gen \in Nat
      /\ seg' \in [Segments -> SegmentType]
      /\ \A r \in Readers : lap'[r] \in {0, 1, 2}
  BY DEF TypeOK, PageType, SegmentType
\* What the steps of the worker have in common.
<1> DEFINE Frame == /\ UNCHANGED lookup
                    /\ \A r \in Readers : pc'[r] = pc[r]
                    /\ HalfSwapped => HalfSwapped'
                    /\ Booted /\ Booted'
                    /\ pc'[Writer] # "down"
           Grows == \/ HalfSwapped'
                    \/ /\ InForce <= InForce'
                       /\ seg[page.front].gen <= seg'[page'.front].gen
<1>3. ASSUME Frame, Grows, \A r \in Readers : lap[r] = 2 => lap'[r] = 2
      PROVE  /\ TornOnlyIfLapped' /\ AnswerInForce' /\ InvBoot'
             /\ \A r \in Readers : HalfSwapped' \/ lookup'[r].from <= InForce'
  <2>1. TornOnlyIfLapped'
    BY <1>0, <1>1, <1>3 DEF LookupInv, TornOnlyIfLapped
  <2>2. AnswerInForce'
    BY <1>0, <1>1, <1>3 DEF LookupInv, AnswerInForce
  <2>3. InvBoot'
    BY <1>3 DEF InvBoot
  <2>4. \A r \in Readers : HalfSwapped' \/ lookup'[r].from <= InForce'
    <3>1. InForce \in Nat /\ InForce' \in Nat
      BY <1>0, <1>1 DEF InForce
    <3>2. ASSUME NEW r \in Readers PROVE HalfSwapped' \/ lookup'[r].from <= InForce'
      <4>1. HalfSwapped \/ lookup[r].from <= InForce
        BY DEF LookupInv, InvLap
      <4>2. lookup[r].from \in Nat /\ lookup'[r].from = lookup[r].from
        BY <1>0, <1>3
      <4>3. QED
        BY <1>3, <3>1, <4>1, <4>2
    <3>3. QED
      BY <3>2
  <2>5. QED
    BY <2>1, <2>2, <2>3, <2>4
<1>b. \A r \in Readers : pc[r] # "idle" => Booted
  BY DEF LookupInv, InvBoot
<1>u. \A r \in Readers :
        LET l == lookup[r] IN
        /\ pc[r] = "element" => l.ptr # Nil
        /\ pc[r] \notin {"idle", "element"} => l.ptr = Nil /\ ~l.torn
        /\ pc[r] = "element" /\ ~l.torn /\ ~l.behind /\ lap[r] < 2 /\ ~HalfSwapped
            => /\ seg[l.ptr].state = "complete"
               /\ seg[l.ptr].gen = l.gen
               /\ l.from <= l.gen /\ l.gen <= seg[page.front].gen
               /\ lap[r] = 0 => l.ptr = page.front \/ pc[Writer] = "stamp"
  BY DEF LookupInv, InvLookup
<1> DEFINE Busy == {"build", "swapback", "swapfront", "stamp"}
<1>v. \A r \in Readers : lap[r] = 1 =>
        /\ pc[Writer] \notin Busy
        /\ HalfSwapped \/ \A s \in Segments :
              /\ seg[s].state # "building"
              /\ lookup[r].from <= seg[s].gen
              /\ seg[s].gen <= seg[page.front].gen
  BY DEF LookupInv, InvLap
<1>x. \A r \in Readers : pc[r] = "element" => lookup[r].ptr \in Segments
  BY <1>u, LookupTypes DEF Pointers
\* Steps that change neither the front segment nor what the segments hold.
<1>4. ASSUME Frame, UNCHANGED lap, page'.front = page.front,
             \A s \in Segments : /\ seg'[s].gen = seg[s].gen
                                 /\ seg'[s].state \in {seg[s].state, "complete"},
             pc[Writer] # "stamp", pc'[Writer] # "stamp",
             pc'[Writer] \in Busy => pc[Writer] \in Busy
      PROVE  LookupInv'
  <2>1. InForce' = InForce /\ InForce \in Nat
    BY <1>0, <1>4 DEF InForce
  <2>2. Grows
    <3>1. InForce <= InForce'
      BY <2>1
    <3>2. seg[page.front].gen <= seg'[page'.front].gen
      BY <1>0, <1>4
    <3>3. QED
      BY <3>1, <3>2
  <2>3. /\ TornOnlyIfLapped' /\ AnswerInForce' /\ InvBoot'
        /\ \A r \in Readers : HalfSwapped' \/ lookup'[r].from <= InForce'
    BY <1>3, <1>4, <2>2
  <2>4. InvLap'
    BY <1>0, <1>v, <1>4, <2>3 DEF InvLap
  <2>5. InvLookup'
    <3>1. ASSUME NEW r \in Readers, pc[r] = "element", ~HalfSwapped, ~lookup[r].torn,
                 ~lookup[r].behind, lap[r] < 2
          PROVE  /\ seg'[lookup[r].ptr].state = "complete"
                 /\ seg'[lookup[r].ptr].gen = lookup[r].gen
                 /\ lookup[r].from <= lookup[r].gen
                 /\ lookup[r].gen <= seg'[page'.front].gen
                 /\ lap[r] = 0 => lookup[r].ptr = page'.front
      BY <1>0, <1>u, <1>x, <1>4, <3>1
    <3>2. QED
      BY <1>u, <1>4, <3>1 DEF InvLookup
  <2>6. QED
    BY <2>3, <2>4, <2>5 DEF LookupInv
<1>h. pc[Writer] # "down" => Booted
  BY DEF LookupInv, InvBoot
<1>5. CASE BeginTagging
  <2>1. Frame /\ UNCHANGED lap /\ page'.front = page.front
    BY <1>0, <1>h, <1>5 DEF BeginTagging, Goto, Booted, HalfSwapped
  <2>2. \A s \in Segments : seg'[s].gen = seg[s].gen /\ seg'[s].state = seg[s].state
    BY <1>0, <1>5 DEF BeginTagging, SegmentType
  <2>3. QED
    BY <1>0, <1>4, <1>5, <2>1, <2>2 DEF BeginTagging, Goto
<1>6. CASE RefreshFails
  <2>1. Frame /\ UNCHANGED <<lap, page, seg>>
    BY <1>0, <1>h, <1>6 DEF RefreshFails, Goto, Booted, HalfSwapped
  <2>2. QED
    BY <1>0, <1>4, <1>6, <2>1 DEF RefreshFails, Goto
<1>7. CASE CloseItemTag
  <2>1. Frame /\ UNCHANGED <<lap, page>>
    BY <1>0, <1>h, <1>7 DEF CloseItemTag, Goto, Booted, HalfSwapped
  <2>2. \A s \in Segments : seg'[s].gen = seg[s].gen /\ seg'[s].state \in {seg[s].state, "complete"}
    BY <1>0, <1>7 DEF CloseItemTag
  <2>3. QED
    BY <1>0, <1>4, <1>7, <2>1, <2>2 DEF CloseItemTag, Goto
<1>8. CASE SwapBack
  <2>1. Frame /\ UNCHANGED <<lap, seg>> /\ page'.front = page.front
    BY <1>0, <1>h, <1>8 DEF SwapBack, Goto, Booted, HalfSwapped, PageType
  <2>2. QED
    BY <1>0, <1>4, <1>8, <2>1 DEF SwapBack, Goto
<1>9. CASE RestartWriter
  <2>1. Frame /\ UNCHANGED <<lap, page, seg>>
    BY <1>0, <1>h, <1>9 DEF RestartWriter, Goto, Booted, HalfSwapped
  <2>2. QED
    BY <1>0, <1>4, <1>9, <2>1 DEF RestartWriter, Goto
<1>10. CASE OpenItemTag
  <2>1. /\ Frame /\ page' = page /\ pc[Writer] = "fetch" /\ pc'[Writer] = "build"
        /\ HalfSwapped' <=> HalfSwapped
        /\ \A r \in Readers : lap'[r] = IF lap[r] = 1 THEN 2 ELSE lap[r]
        /\ \A s \in Segments : s # page.back => seg'[s] = seg[s]
    BY <1>0, <1>h, <1>10 DEF OpenItemTag, Goto, Booted, HalfSwapped
  <2>2. HalfSwapped \/ page.front # page.back
    BY <2>1 DEF PageInv, InvBuffers
  <2>3. HalfSwapped \/ seg'[page.front] = seg[page.front]
    BY <1>0, <2>1, <2>2
  <2>4. Grows
    <3>1. HalfSwapped \/ InForce' = InForce
      BY <2>1, <2>3 DEF InForce
    <3>2. InForce \in Nat /\ seg[page.front].gen \in Nat
      BY <1>0 DEF InForce
    <3>3. QED
      BY <2>1, <2>3, <3>1, <3>2
  <2>5. /\ TornOnlyIfLapped' /\ AnswerInForce' /\ InvBoot'
        /\ \A r \in Readers : HalfSwapped' \/ lookup'[r].from <= InForce'
    BY <1>3, <2>1, <2>4
  <2>6. \A r \in Readers : lap'[r] # 1
    <3>1. 2 # 1
      OBVIOUS
    <3>2. QED
      BY <2>1, <3>1, Zenon
  <2>7. InvLap'
    BY <2>5, <2>6 DEF InvLap
  <2>8. InvLookup'
    <3>1. ASSUME NEW r \in Readers, pc[r] = "element", ~HalfSwapped, ~lookup[r].torn,
                 ~lookup[r].behind, lap'[r] < 2
          PROVE  /\ seg'[lookup[r].ptr].state = "complete"
                 /\ seg'[lookup[r].ptr].gen = lookup[r].gen
                 /\ lookup[r].from <= lookup[r].gen
                 /\ lookup[r].gen <= seg'[page'.front].gen
                 /\ lookup[r].ptr = page'.front
      <4>1. lap[r] = 0
        BY <1>0, <2>1, <3>1
      <4>2. QED
        BY <1>0, <1>u, <1>x, <2>1, <2>3, <3>1, <4>1
    <3>2. QED
      BY <1>u, <2>1, <3>1 DEF InvLookup
  <2>9. QED
    BY <2>5, <2>7, <2>8 DEF LookupInv
<1>11. CASE SwapFront
  <2>1. /\ Frame /\ UNCHANGED <<seg, lap>> /\ page'.front = tmp /\ page'.back = page.back
        /\ pc[Writer] = "swapfront" /\ pc'[Writer] = "stamp"
        /\ HalfSwapped' <=> HalfSwapped
    BY <1>0, <1>h, <1>11 DEF SwapFront, Goto, Booted, HalfSwapped
  <2>2. \/ HalfSwapped
        \/ page.back = page.front /\ seg[page.front].gen < seg[tmp].gen
    BY <2>1 DEF PageInv, InvBuffers, InvGen
  <2>3. HalfSwapped \/ InForce' = InForce
    BY <2>1, <2>2 DEF InForce
  <2>4. InForce \in Nat
    BY <1>0 DEF InForce
  <2>5. Grows
    BY <1>0, <2>1, <2>2, <2>3, <2>4
  <2>6. /\ TornOnlyIfLapped' /\ AnswerInForce' /\ InvBoot'
        /\ \A r \in Readers : HalfSwapped' \/ lookup'[r].from <= InForce'
    BY <1>3, <2>1, <2>5
  <2>7. \A r \in Readers : lap'[r] # 1
    BY <1>v, <2>1
  <2>8. InvLap'
    BY <2>6, <2>7 DEF InvLap
  <2>9. InvLookup'
    <3>1. ASSUME NEW r \in Readers, pc[r] = "element", ~HalfSwapped, ~lookup[r].torn,
                 ~lookup[r].behind, lap[r] < 2
          PROVE  /\ seg'[lookup[r].ptr].state = "complete"
                 /\ seg'[lookup[r].ptr].gen = lookup[r].gen
                 /\ lookup[r].from <= lookup[r].gen
                 /\ lookup[r].gen <= seg'[page'.front].gen
      BY <1>0, <1>u, <1>x, <2>1, <2>2, <3>1
    <3>2. QED
      BY <1>u, <2>1, <3>1 DEF InvLookup
  <2>10. QED
    BY <2>6, <2>8, <2>9 DEF LookupInv
\* The publish ends: with the stamp, or with the worker's death before it.
<1>12. ASSUME Frame, PublishEnds, UNCHANGED seg, page'.front = page.front,
              HalfSwapped' <=> HalfSwapped,
              pc[Writer] = "stamp", pc'[Writer] \notin Busy
       PROVE  LookupInv'
  <2>1. \A r \in Readers : lap'[r] = IF lap[r] = 0 THEN 1 ELSE lap[r]
    BY <1>12 DEF PublishEnds
  <2>2. HalfSwapped \/ /\ seg[page.back].gen < seg[page.front].gen
                       /\ \A s \in Segments : s \in {page.front, page.back}
    BY <1>0, <1>12 DEF PageInv, InvBuffers, InvGen, Segments
  <2>3. InForce = seg[page.back].gen /\ InForce' = seg[page.front].gen
    BY <1>12 DEF InForce
  <2>4. Grows
    BY <1>0, <1>12, <2>2, <2>3
  <2>5. /\ TornOnlyIfLapped' /\ AnswerInForce' /\ InvBoot'
        /\ \A r \in Readers : HalfSwapped' \/ lookup'[r].from <= InForce'
    <3>1. \A r \in Readers : lap[r] = 2 => lap'[r] = 2
      BY <1>0, <2>1
    <3>2. QED
      BY <1>3, <1>12, <2>4, <3>1
  <2>6. InvLap'
    <3>1. ASSUME NEW r \in Readers, NEW s \in Segments, ~HalfSwapped
          PROVE  /\ seg[s].state # "building"
                 /\ lookup[r].from <= seg[s].gen
                 /\ seg[s].gen <= seg[page.front].gen
      <4>1. lookup[r].from <= seg[page.back].gen
        BY <2>3, <3>1 DEF LookupInv, InvLap
      <4>2. seg[page.back].state # "building" /\ seg[page.front].state # "building"
        BY <1>0, <1>12, <3>1 DEF PageInv, InvBuild, FrontServable
      <4>3. s \in {page.front, page.back} /\ seg[page.back].gen < seg[page.front].gen
        BY <2>2, <3>1
      <4>4. QED
        BY <1>0, <4>1, <4>2, <4>3
    <3>2. QED
      BY <1>12, <2>5, <3>1 DEF InvLap
  <2>7. InvLookup'
    <3>1. ASSUME NEW r \in Readers, pc[r] = "element", ~HalfSwapped, ~lookup[r].torn,
                 ~lookup[r].behind, lap'[r] < 2
          PROVE  /\ seg'[lookup[r].ptr].state = "complete"
                 /\ seg'[lookup[r].ptr].gen = lookup[r].gen
                 /\ lookup[r].from <= lookup[r].gen
                 /\ lookup[r].gen <= seg'[page'.front].gen
                 /\ lap'[r] # 0
      BY <1>0, <1>u, <1>12, <2>1, <3>1
    <3>2. QED
      BY <1>u, <1>12, <3>1 DEF InvLookup
  <2>8. QED
    BY <2>5, <2>6, <2>7 DEF LookupInv
<1>13. CASE StampPage
  <2>1. Frame /\ PublishEnds /\ UNCHANGED seg /\ page'.front = page.front
        /\ (HalfSwapped' <=> HalfSwapped)
    BY <1>0, <1>h, <1>13 DEF StampPage, Goto, Booted, HalfSwapped, PageType
  <2>2. pc[Writer] = "stamp" /\ pc'[Writer] = "sync"
    BY <1>0, <1>13 DEF StampPage, Goto
  <2>3. QED
    BY <1>12, <2>1, <2>2
<1>14. CASE WriterDies
  <2>1. /\ Frame /\ UNCHANGED <<seg, page>> /\ pc'[Writer] = "dead"
        /\ pc[Writer] # "stamp" => UNCHANGED lap
        /\ pc[Writer] = "stamp" => PublishEnds /\ (HalfSwapped' <=> HalfSwapped)
    BY <1>0, <1>h, <1>14 DEF WriterDies, Goto, Booted, HalfSwapped
  <2>2. CASE pc[Writer] = "stamp"
    BY <1>12, <2>1, <2>2
  <2>3. CASE pc[Writer] # "stamp"
    BY <1>4, <2>1, <2>3
  <2>4. QED
    BY <2>2, <2>3
<1>15. CASE Boot
  <2>1. /\ ~Booted /\ Booted' /\ pc'[Writer] = "idle" /\ UNCHANGED <<lookup, lap, killedAt>>
        /\ page'.front = 0 /\ seg'[0].gen \in Nat
        /\ \A r \in Readers : pc'[r] = pc[r]
    BY <1>0, <1>1, <1>15 DEF Boot, Booted, Segments
  <2>2. \A r \in Readers : pc[r] = "idle" /\ lap[r] = 0
    BY <2>1 DEF LookupInv, InvBoot
  <2>3. seg[page.front].gen = 0 /\ InForce = 0
    BY <1>0, <2>1 DEF PageInv, InForce
  <2>4. InForce' = seg'[0].gen
    BY <2>1 DEF InForce
  <2>5. \A r \in Readers : HalfSwapped' \/ lookup'[r].from <= InForce'
    <3>1. \A r \in Readers : HalfSwapped \/ lookup[r].from <= InForce
      BY DEF LookupInv, InvLap
    <3>2. QED
      BY <1>0, <2>1, <2>3, <2>4, <3>1 DEF HalfSwapped
  <2>6. InvLap' /\ InvLookup'
    <3>1. \A r \in Readers : lap'[r] # 1 /\ pc'[r] = "idle"
      BY <2>1, <2>2
    <3>2. QED
      BY <2>5, <3>1 DEF InvLap, InvLookup
  <2>7. InvBoot'
    BY <2>1 DEF InvBoot
  <2>8. TornOnlyIfLapped'
    BY <2>1 DEF LookupInv, TornOnlyIfLapped, HalfSwapped
  <2>9. AnswerInForce'
    BY <1>0, <2>1, <2>3 DEF LookupInv, AnswerInForce, HalfSwapped
  <2>10. QED
    BY <2>6, <2>7, <2>8, <2>9 DEF LookupInv
<1>16. CASE Quiet
  BY <1>16, LookupQuiet
<1>17. QED
  BY <1>5, <1>6, <1>7, <1>8, <1>9, <1>10, <1>11, <1>13, <1>14, <1>15, <1>16, StepCases

LEMMA LookupCorrect == Spec => [](TypeOK /\ PageInv /\ LookupInv)
<1>1. Init => LookupInv
  BY LookupInit
<1>2. LookupInv => InvPointers
  BY DEF LookupInv
<1>3. TypeOK /\ TypeOK' /\ PageInv /\ PageInv' /\ LookupInv /\ [Next]_vars => LookupInv'
  BY <1>2, PointerStep, LookupStep
<1>4. QED
  BY <1>1, <1>3, PageCorrect, PTL DEF Spec

(* A lookup is torn only if the worker overtook it by a whole publish and  *)
(* the start of the next build, or it began behind the front segment.      *)
THEOREM LookupsNeverTorn == Spec => []TornOnlyIfLapped
<1>1. LookupInv => TornOnlyIfLapped
  BY DEF LookupInv
<1>2. QED
  BY <1>1, LookupCorrect, PTL

(* A call that was not overtaken is answered out of one configuration that *)
(* was in force while it ran.                                              *)
THEOREM AnswersInForce == Spec => []AnswerInForce
<1>1. LookupInv => AnswerInForce
  BY DEF LookupInv
<1>2. QED
  BY <1>1, LookupCorrect, PTL

-----------------------------------------------------------------------------
(* The heap behind SwitchService, as long as the worker is not killed      *)
(* between the two stores that exchange the segments: after that, builds   *)
(* are written into the segment that is served.                            *)
Exchanged == ~HalfSwapped

ServiceInv == TypeOK /\ PageInv /\ LookupInv /\ Exchanged

\* What is in force and what callers may already see.
Coming == seg[page.front].gen

LEMMA ServiceInit == Init => Service!Init
BY ThreadFacts, ThreadsAssumption DEF Init, Service!Init, InForce, Segments

(* Steps that leave the readers' lookups alone map by what they do to the  *)
(* two configurations.                                                     *)
LEMMA ServiceFrame ==
    ASSUME UNCHANGED lookup,
           \/ InForce' = InForce /\ Coming' = Coming
           \/ InForce' = InForce /\ Coming' > Coming
           \/ InForce # Coming /\ InForce' = Coming /\ Coming' = Coming
           \/ InForce = 0 /\ Coming = 0 /\ Coming' > 0 /\ InForce' = Coming'
    PROVE  [Service!Next]_Service!vars
BY DEF Coming, Service!Next, Service!Announce, Service!ComeIntoForce,
       Service!Install, Service!vars

LEMMA ServiceQuiet ==
    ASSUME ServiceInv, Quiet
    PROVE  [Service!Next]_Service!vars
<1>1. InForce' = InForce /\ Coming' = Coming
  BY QuietFrame DEF ServiceInv, InForce, Coming, SyncLabels
<1>2. /\ \A r \in Readers : lookup[r] \in LookupType /\ lookup[r].answer \in Nat
      /\ lookup \in [Readers -> LookupType]
  BY DEF ServiceInv, TypeOK, LookupType
<1>3. CASE UNCHANGED lookup
  BY <1>1, <1>3, ServiceFrame
<1>4. ASSUME NEW r \in Readers, Call(r) PROVE Service!Ask(r)
  BY <1>1, <1>2, <1>4 DEF Call, Service!Ask, Coming
<1>5. ASSUME NEW r \in Readers, GetModule(r) PROVE UNCHANGED Service!vars
  BY <1>1, <1>2, <1>5 DEF GetModule, Service!vars, Coming
<1>6. ASSUME NEW r \in Readers, GetElement(r) PROVE [Service!Answer(r)]_Service!vars
  <2> DEFINE l == lookup[r]
  <2>1. /\ pc[r] = "element" /\ lookup' = [lookup EXCEPT ![r] = lookup'[r]]
        /\ lookup'[r].from = l.from
    BY <1>2, <1>6 DEF GetElement
  <2>2. CASE lookup'[r].answer = l.answer
    BY <1>1, <1>2, <2>1, <2>2 DEF Service!vars, Coming
  <2>3. CASE lookup'[r].answer # l.answer
    <3>1. ~l.torn /\ ~l.behind /\ lap[r] < 2 /\ lookup'[r].answer = l.gen
      BY <1>2, <1>6, <2>3 DEF GetElement
    <3>2. l.from <= l.gen /\ l.gen <= Coming
      BY <2>1, <3>1 DEF ServiceInv, LookupInv, InvLookup, HalfSwapped, Exchanged, Coming
    <3>3. l.gen \in l.from .. Coming
      BY <3>2, LookupTypes, PageTypes DEF ServiceInv, Coming
    <3>4. QED
      BY <1>1, <1>2, <2>1, <3>1, <3>3 DEF Service!Answer, Coming
  <2>4. QED
    BY <2>2, <2>3
<1>7. ASSUME NEW r \in Readers, NothingBound(r) PROVE UNCHANGED lookup
  BY <1>7 DEF NothingBound
<1>8. ASSUME NEW t \in Threads, Sync(t) \/ Bind(t) PROVE UNCHANGED Service!vars
  BY <1>1, <1>8, SyncLookups DEF ServiceInv, SameLookups, Service!vars, Coming
<1>9. CASE Tick \/ UNCHANGED vars
  <2>1. UNCHANGED lookup
    BY <1>9 DEF Tick, vars
  <2>2. QED
    BY <1>3, <2>1
<1>10. QED
  BY <1>3, <1>4, <1>5, <1>6, <1>7, <1>8, <1>9 DEF Quiet, ReaderOnly, Service!Next

LEMMA ServiceStep ==
    ASSUME ServiceInv, Exchanged', [Next]_vars
    PROVE  [Service!Next]_Service!vars
<1>0. /\ page.front \in Segments /\ page.back \in Segments /\ tmp \in Segments
      /\ builds \in Nat
      /\ \A s \in Segments : seg[s].gen \in Nat
      /\ seg \in [Segments -> SegmentType] /\ page \in PageType
      /\ pc \in [Threads -> Labels] /\ Writer \in Threads /\ Starter \in Threads
      /\ Writer # Starter
  BY PageTypes DEF ServiceInv
<1>b. /\ pc[Writer] = "swapfront" => page.back = page.front /\ tmp # page.front
      /\ pc[Writer] # "swapfront" => page.front # page.back
  BY DEF ServiceInv, PageInv, InvBuffers, HalfSwapped, Exchanged
<1>g. /\ pc[Writer] = "swapfront" => seg[page.front].gen < seg[tmp].gen
      /\ pc[Writer] = "stamp" => seg[page.back].gen < seg[page.front].gen
  BY DEF ServiceInv, PageInv, InvGen, HalfSwapped, Exchanged
<1>1. CASE Boot
  <2>1. InForce = 0 /\ Coming = 0
    BY <1>0, <1>1 DEF ServiceInv, PageInv, Booted, Boot, InForce, Coming
  <2>2. InForce' = Coming' /\ Coming' \in {0, 1}
    BY <1>0, <1>1 DEF ServiceInv, PageInv, Booted, Boot, InForce, Coming, Segments
  <2>3. UNCHANGED lookup
    BY <1>1 DEF Boot
  <2>4. QED
    BY <2>1, <2>2, <2>3, ServiceFrame
<1>2. CASE BeginTagging \/ RefreshFails \/ OpenItemTag \/ CloseItemTag
  <2>1. InForce' = InForce /\ Coming' = Coming /\ UNCHANGED lookup
    BY <1>0, <1>b, <1>2 DEF BeginTagging, RefreshFails, OpenItemTag, CloseItemTag,
       Goto, InForce, Coming, SegmentType
  <2>2. QED
    BY <2>1, ServiceFrame
<1>3. CASE SwapBack \/ RestartWriter
  <2>1. InForce' = InForce /\ Coming' = Coming /\ UNCHANGED lookup
    BY <1>0, <1>3 DEF SwapBack, RestartWriter, Goto, InForce, Coming, PageType
  <2>2. QED
    BY <2>1, ServiceFrame
<1>4. CASE SwapFront
  <2>1. InForce' = InForce /\ Coming' > Coming /\ UNCHANGED lookup
    BY <1>0, <1>b, <1>g, <1>4 DEF SwapFront, Goto, InForce, Coming
  <2>2. QED
    BY <2>1, ServiceFrame
<1>5. CASE StampPage
  <2>1. /\ InForce # Coming /\ InForce' = Coming /\ Coming' = Coming
        /\ UNCHANGED lookup
    BY <1>0, <1>g, <1>5 DEF StampPage, Goto, InForce, Coming, PageType
  <2>2. QED
    BY <2>1, ServiceFrame
<1>6. CASE WriterDies
  <2>1. pc[Writer] # "swapfront" /\ pc'[Writer] = "dead" /\ UNCHANGED <<page, seg, lookup>>
    BY <1>0, <1>6 DEF WriterDies, Goto, Exchanged, HalfSwapped
  <2>2. CASE pc[Writer] = "stamp"
    <3>1. InForce # Coming /\ InForce' = Coming /\ Coming' = Coming
      BY <1>0, <1>g, <2>1, <2>2 DEF InForce, Coming
    <3>2. QED
      BY <2>1, <3>1, ServiceFrame
  <2>3. CASE pc[Writer] # "stamp"
    <3>1. InForce' = InForce /\ Coming' = Coming
      BY <2>1, <2>3 DEF InForce, Coming
    <3>2. QED
      BY <2>1, <3>1, ServiceFrame
  <2>4. QED
    BY <2>2, <2>3
<1>7. CASE Quiet
  BY <1>7, ServiceQuiet
<1>8. QED
  BY <1>1, <1>2, <1>3, <1>4, <1>5, <1>6, <1>7, StepCases

(* The shared heap, with its two segments, its dates and its pointers, is  *)
(* the service the application is promised, wherever its worker dies but   *)
(* between the two stores of the exchange: whatever the interleaving of    *)
(* worker and readers, every answer that counts comes from one whole       *)
(* configuration in force during the call.                                 *)
THEOREM HeapIsService == Spec /\ []Exchanged => ImplementsService
<1>1. ServiceInv /\ Exchanged' /\ [Next]_vars => [Service!Next]_Service!vars
  BY ServiceStep
<1>2. QED
  BY <1>1, ServiceInit, LookupCorrect, PTL
     DEF ServiceInv, Spec, ImplementsService, Service!Spec

NeverKilled == CanDie = FALSE /\ killedAt = {}

(* In particular it is while nobody kills the worker.                      *)
THEOREM UnkilledIsService == CanDie = FALSE /\ Spec => ImplementsService
<1>1. CanDie = FALSE /\ Init => NeverKilled
  BY DEF Init, NeverKilled
<1>2. ASSUME TypeOK, NeverKilled, [Next]_vars PROVE NeverKilled'
  <2>1. CASE Quiet
    BY <1>2, <2>1, QuietFrame DEF NeverKilled
  <2>2. CASE ~Quiet
    BY <1>2, <2>2, StepCases DEF NeverKilled, Boot, BeginTagging, RefreshFails,
       OpenItemTag, CloseItemTag, SwapBack, SwapFront, StampPage, WriterDies,
       RestartWriter
  <2>3. QED
    BY <2>1, <2>2
<1>3. TypeOK /\ NeverKilled /\ [Next]_vars => NeverKilled'
  BY <1>2
<1>4. NeverKilled => Exchanged
  BY DEF NeverKilled, Exchanged, HalfSwapped
<1>5. QED
  BY <1>1, <1>3, <1>4, TypeCorrect, HeapIsService, PTL DEF Spec

-----------------------------------------------------------------------------
(* Process mode: the pointer the application binds follows the flips.      *)
FollowInv == InvConfig /\ InvBound /\ InvSeen

LEMMA FollowInit == Init => FollowInv
<1> SUFFICES ASSUME Init PROVE FollowInv
  OBVIOUS
<1>1. /\ ~Booted /\ switchConfig = heap["app"].config
      /\ \A r \in Readers : pc[r] = "idle"
  BY ThreadFacts, ThreadsAssumption DEF Init, Booted, Heaps
<1>2. QED
  BY <1>1 DEF FollowInv, InvConfig, InvBound, InvSeen

LEMMA FollowTypes ==
    ASSUME TypeOK
    PROVE  /\ pc \in [Threads -> Labels] /\ Readers \subseteq Threads \ {Writer}
           /\ Writer \in Threads /\ Starter \in Threads \ {Writer}
           /\ heap \in [Heaps -> HeapType] /\ "app" \in Heaps /\ "msg" \in Heaps
           /\ page.flipcount \in Nat /\ page.timestamp \in Int
           /\ raced \in [Heaps -> BOOLEAN] /\ lap \in [Readers -> {0, 1, 2}]
           /\ lookup \in [Readers -> LookupType]
           /\ heap["app"].timestamp \in Int
BY HeapTypes, LookupTypes, PageTypes, ThreadFacts, ThreadsAssumption

\* What a step may do to the application's shared_heap without InvConfig
\* noticing.
LEMMA ConfigFrame ==
    ASSUME InvConfig,
           heap'["app"].segment = heap["app"].segment,
           heap'["app"].config = heap["app"].config,
           page'.front = page.front, page'.flipcount = page.flipcount,
           Booted' <=> Booted, Hidden => Hidden',
           At({"timestamp", "callback"}) => At({"timestamp", "callback"})'
    PROVE  InvConfig'
BY DEF InvConfig

LEMMA HiddenFrame ==
    ASSUME page'.timestamp = page.timestamp,
           heap'["app"].timestamp = heap["app"].timestamp,
           raced'["app"] = raced["app"],
           silent => silent', HalfSwapped => HalfSwapped',
           pc[Writer] = "stamp" => pc'[Writer] = "stamp" \/ silent'
    PROVE  Hidden => Hidden'
BY DEF Hidden

\* A step of the worker before it stamps the page moves no other thread.
LEMMA WriterMoves ==
    ASSUME TypeOK, \A t \in Threads \ {Writer} : pc'[t] = pc[t]
    PROVE  /\ At({"timestamp", "callback"}) <=> At({"timestamp", "callback"})'
           /\ At({"unlock", "bindload", "bindstore"})
                  <=> At({"unlock", "bindload", "bindstore"})'
           /\ Booted' <=> Booted
BY FollowTypes DEF At, Booted

LEMMA WriterFollow ==
    ASSUME TypeOK, FollowInv,
           \A t \in Threads \ {Writer} : pc'[t] = pc[t],
           heap'["app"] = heap["app"], raced'["app"] = raced["app"],
           page'.front = page.front, page'.flipcount = page.flipcount,
           page'.timestamp = page.timestamp,
           switchConfig' = switchConfig, clobbered' = clobbered,
           \A r \in Readers : /\ lookup'[r].joined = lookup[r].joined
                              /\ lap'[r] = 0 => lap[r] = 0,
           silent => silent', HalfSwapped => HalfSwapped',
           pc[Writer] = "stamp" => pc'[Writer] = "stamp" \/ silent'
    PROVE  FollowInv'
<1>1. InvConfig'
  BY WriterMoves, ConfigFrame, HiddenFrame DEF FollowInv
<1>2. InvBound'
  BY WriterMoves DEF FollowInv, InvBound
<1>3. InvSeen'
  BY FollowTypes DEF FollowInv, InvSeen
<1>4. QED
  BY <1>1, <1>2, <1>3 DEF FollowInv

(* The application's own steps through shmdata_syncself.                   *)
LEMMA ReaderSyncFollow ==
    ASSUME TypeOK, PageInv, StampInv, LookupInv, FollowInv, Threaded = FALSE,
           NEW t \in Threads \ {Writer, Starter}, Sync(t)
    PROVE  FollowInv'
<1>0. /\ t \in Threads \ {Writer} /\ t \in Readers /\ HeapOf(t) = "app"
      /\ Writer \notin Readers /\ Starter \notin Readers
      /\ \A r \in Readers : pc[r] # "idle" => Booted
      /\ AfterSync(t) = "module"
  BY ThreadsAssumption DEF Threads, HeapOf, AfterSync, LookupInv, InvBoot
<1>t. /\ pc \in [Threads -> Labels] /\ Readers \subseteq Threads \ {Writer}
      /\ Writer \in Threads /\ Starter \in Threads \ {Writer}
      /\ heap \in [Heaps -> HeapType] /\ "app" \in Heaps /\ "msg" \in Heaps
      /\ page.flipcount \in Nat /\ page.timestamp \in Int
      /\ raced \in [Heaps -> BOOLEAN] /\ lap \in [Readers -> {0, 1, 2}]
      /\ lookup \in [Readers -> LookupType]
  BY FollowTypes
<1>q. UNCHANGED <<page, silent, killedAt>> /\ (Booted' <=> Booted)
  <2>1. Quiet
    BY <1>0 DEF Quiet
  <2>2. QED
    BY <2>1, QuietFrame
<1>w. pc'[Writer] = pc[Writer] /\ \A u \in Threads : u # t => pc'[u] = pc[u]
  BY <1>t DEF Sync, SyncCheck, GetLock, LockBusy, LoadSegment, LoadTimestamp,
              OnSheapPageFlip, Unlock, Goto
<1>v. UNCHANGED <<switchConfig, clobbered, lap>>
  BY DEF Sync, SyncCheck, GetLock, LockBusy, LoadSegment, LoadTimestamp,
         OnSheapPageFlip, Unlock
<1>1. CASE SyncCheck(t)
  <2>1. /\ UNCHANGED <<heap, raced, lookup>> /\ pc[t] = "sync"
        /\ \/ pc'[t] = "lock"
           \/ pc'[t] = "module" /\ heap["app"].timestamp = page.timestamp
    BY <1>0, <1>t, <1>1 DEF SyncCheck, Goto
  <2>2. InvConfig'
    BY <1>t, <1>q, <1>w, <2>1 DEF FollowInv, InvConfig, Hidden, HalfSwapped, At
  <2>3. InvBound'
    BY <1>t, <1>v, <1>w, <2>1 DEF FollowInv, InvBound, At
  <2>4. InvSeen'
    BY <1>t, <1>q, <1>v, <1>w, <2>1 DEF FollowInv, InvSeen
  <2>5. QED
    BY <2>2, <2>3, <2>4 DEF FollowInv
<1>2. CASE GetLock(t)
  <2>1. /\ UNCHANGED <<raced, lookup>> /\ pc[t] = "lock" /\ pc'[t] = "segment"
        /\ heap'["app"].timestamp = heap["app"].timestamp
        /\ heap'["app"].segment = heap["app"].segment
        /\ heap'["app"].config = heap["app"].config
    BY <1>0, <1>t, <1>2 DEF GetLock, Goto, HeapType
  <2>2. InvConfig'
    BY <1>t, <1>q, <1>w, <2>1 DEF FollowInv, InvConfig, Hidden, HalfSwapped, At
  <2>3. InvBound'
    BY <1>t, <1>v, <1>w, <2>1 DEF FollowInv, InvBound, At
  <2>4. InvSeen'
    BY <1>t, <1>q, <1>v, <1>w, <2>1 DEF FollowInv, InvSeen
  <2>5. QED
    BY <2>2, <2>3, <2>4 DEF FollowInv
<1>3. CASE LockBusy(t)
  <2>0. \A r \in Readers : lookup'[r].joined <=> lookup[r].joined \/ r = t
    BY <1>t, <1>3 DEF LockBusy, LookupType
  <2>1. UNCHANGED <<heap, raced>> /\ pc[t] = "lock" /\ pc'[t] = "module"
    BY <1>0, <1>t, <1>3 DEF LockBusy, Goto
  <2>2. InvConfig'
    BY <1>t, <1>q, <1>w, <2>1 DEF FollowInv, InvConfig, Hidden, HalfSwapped, At
  <2>3. InvBound'
    BY <1>t, <1>v, <1>w, <2>1 DEF FollowInv, InvBound, At
  <2>4. InvSeen'
    BY <1>t, <1>q, <1>v, <1>w, <2>0, <2>1 DEF FollowInv, InvSeen
  <2>5. QED
    BY <2>2, <2>3, <2>4 DEF FollowInv
<1>4. CASE LoadSegment(t)
  <2>1. /\ UNCHANGED <<raced, lookup>> /\ pc[t] = "segment" /\ pc'[t] = "timestamp"
        /\ heap'["app"].timestamp = heap["app"].timestamp
        /\ heap'["app"].segment = page.front
        /\ heap'["app"].config = heap["app"].config
    BY <1>0, <1>t, <1>4 DEF LoadSegment, Goto, HeapType
  <2>2. InvConfig'
    BY <1>0, <1>t, <1>q, <1>w, <2>1, PageTypes DEF FollowInv, InvConfig, At
  <2>3. InvBound'
    BY <1>t, <1>v, <1>w, <2>1 DEF FollowInv, InvBound, At
  <2>4. InvSeen'
    BY <1>t, <1>q, <1>v, <1>w, <2>1 DEF FollowInv, InvSeen
  <2>5. QED
    BY <2>2, <2>3, <2>4 DEF FollowInv
<1>5. CASE LoadTimestamp(t)
  <2>1. /\ UNCHANGED lookup /\ pc[t] = "timestamp" /\ pc'[t] = "callback"
        /\ heap'["app"].timestamp = page.timestamp
        /\ heap'["app"].segment = heap["app"].segment
        /\ heap'["app"].config = heap["app"].config
    BY <1>0, <1>t, <1>5 DEF LoadTimestamp, Goto, HeapType
  <2>2. InvConfig'
    BY <1>0, <1>t, <1>q, <1>w, <2>1 DEF FollowInv, InvConfig, At
  <2>3. InvBound'
    BY <1>t, <1>v, <1>w, <2>1 DEF FollowInv, InvBound, At
  <2>4. InvSeen'
    BY <1>t, <1>q, <1>v, <1>w, <2>1 DEF FollowInv, InvSeen
  <2>5. QED
    BY <2>2, <2>3, <2>4 DEF FollowInv
<1>6. CASE OnSheapPageFlip(t)
  <2> DEFINE s == heap["app"].segment
  <2>0. Booted /\ pc[t] = "callback"
    BY <1>0, <1>6 DEF OnSheapPageFlip
  <2>1. /\ UNCHANGED <<raced, lookup>> /\ pc'[t] = "unlock"
        /\ heap'["app"].timestamp = heap["app"].timestamp
        /\ heap'["app"].segment = s
        /\ heap'["app"].config = IF seg[s].items > 0 THEN s ELSE heap["app"].config
    BY <1>0, <1>t, <1>6 DEF OnSheapPageFlip, Goto, HeapType
  <2>2. Hidden' <=> Hidden
    BY <1>t, <1>q, <1>w, <2>1 DEF Hidden, HalfSwapped
  \* A segment without the item: the first build failed, or the flip that led
  \* here is over.
  <2>3. ASSUME ~(seg[s].items > 0) PROVE page.flipcount = 1 \/ Hidden
    <3>1. CASE s = page.front
      <4>1. seg[page.front].items \in Nat
        BY PageTypes
      <4>2. QED
        BY <2>0, <2>3, <3>1, <4>1 DEF PageInv, FrontServable, Hidden
    <3>2. CASE s # page.front
      BY <1>t, <2>0, <3>2 DEF StampInv, HeapCurrent, Hidden
    <3>3. QED
      BY <3>1, <3>2
  <2>4. InvConfig'
    <3>1. page.flipcount = 1 => s = page.front /\ heap["app"].config \in {Nil, page.front}
      BY <2>0 DEF FollowInv, InvConfig
    <3>2. page.flipcount >= 1 /\ s \in Segments
      BY <2>0 DEF FollowInv, InvConfig
    <3>3. CASE seg[s].items > 0
      BY <1>q, <2>1, <3>1, <3>2, <3>3 DEF InvConfig
    <3>4. CASE ~(seg[s].items > 0)
      BY <1>q, <2>1, <2>2, <2>3, <3>1, <3>2, <3>4 DEF InvConfig
    <3>5. QED
      BY <3>3, <3>4
  <2>5. InvBound'
    BY <1>0, <1>t, <2>1 DEF InvBound, At
  <2>6. InvSeen'
    BY <1>t, <1>q, <1>v, <1>w, <2>0, <2>1 DEF FollowInv, InvSeen
  <2>7. QED
    BY <2>4, <2>5, <2>6 DEF FollowInv
<1>7. CASE Unlock(t)
  <2>1. /\ UNCHANGED <<raced, lookup>> /\ pc[t] = "unlock" /\ pc'[t] = "bindload"
        /\ heap'["app"].timestamp = heap["app"].timestamp
        /\ heap'["app"].segment = heap["app"].segment
        /\ heap'["app"].config = heap["app"].config
    BY <1>0, <1>t, <1>7 DEF Unlock, Goto, HeapType
  <2>2. InvConfig'
    BY <1>t, <1>q, <1>w, <2>1 DEF FollowInv, InvConfig, Hidden, HalfSwapped, At
  <2>3. InvBound'
    BY <1>0, <1>t, <2>1 DEF InvBound, At
  <2>4. InvSeen'
    BY <1>t, <1>q, <1>v, <1>w, <2>1 DEF FollowInv, InvSeen
  <2>5. QED
    BY <2>2, <2>3, <2>4 DEF FollowInv
<1>8. QED
  BY <1>1, <1>2, <1>3, <1>4, <1>5, <1>6, <1>7 DEF Sync

(* Binding: whoever loads or stores an outdated pointer clobbers it.       *)
LEMMA BindFollow ==
    ASSUME TypeOK, FollowInv, NEW t \in Threads \ {Writer}, Bind(t)
    PROVE  FollowInv'
<1>t. /\ pc \in [Threads -> Labels] /\ Readers \subseteq Threads \ {Writer}
      /\ Writer \in Threads /\ Starter \in Threads \ {Writer}
  BY FollowTypes
<1>1. /\ UNCHANGED <<page, heap, raced, silent, killedAt, lap, lookup>>
      /\ \A u \in Threads : u # t => pc'[u] = pc[u]
      /\ pc[t] \in {"bindload", "bindstore"}
      /\ pc'[t] \in {"bindstore", "done", "module"}
  BY <1>t DEF Bind, BindLoad, BindStore, Goto
<1>2. /\ pc[t] = "bindload" => /\ UNCHANGED <<switchConfig, clobbered>>
                               /\ pc'[t] = "bindstore"
      /\ pc[t] = "bindstore" => switchConfig' = heap["app"].config \/ clobbered'
  BY <1>t DEF Bind, BindLoad, BindStore, Goto
<1>b. Booted' <=> Booted
  BY <1>t, <1>1 DEF Booted
<1>3. InvConfig'
  BY <1>t, <1>1, <1>b DEF FollowInv, InvConfig, Hidden, HalfSwapped, At
<1>4. InvBound'
  BY <1>t, <1>1, <1>2 DEF FollowInv, InvBound, At
<1>5. InvSeen'
  BY <1>t, <1>1 DEF FollowInv, InvSeen
<1>6. QED
  BY <1>3, <1>4, <1>5 DEF FollowInv

LEMMA ReaderOnlyFollow ==
    ASSUME TypeOK, FollowInv, NEW r \in Readers, ReaderOnly(r)
    PROVE  FollowInv'
<1>t. /\ pc \in [Threads -> Labels] /\ Readers \subseteq Threads \ {Writer}
      /\ Writer \in Threads /\ Starter \in Threads \ {Writer} /\ Starter \notin Readers
      /\ lookup \in [Readers -> LookupType] /\ lap \in [Readers -> {0, 1, 2}]
  BY FollowTypes, ThreadsAssumption
<1>1. /\ UNCHANGED <<page, heap, raced, silent, killedAt, switchConfig, clobbered>>
      /\ \A u \in Threads : u # r => pc'[u] = pc[u]
      /\ pc[r] \in {"idle", "module", "element"} /\ pc'[r] \in {"sync", "idle", "element"}
      /\ \A q \in Readers : q # r => lookup'[q] = lookup[q] /\ lap'[q] = lap[q]
  BY <1>t DEF ReaderOnly, Call, NothingBound, GetModule, GetElement, Goto
<1>b. Booted' <=> Booted
  BY <1>t, <1>1 DEF Booted
<1>2. InvConfig'
  BY <1>t, <1>1, <1>b DEF FollowInv, InvConfig, Hidden, HalfSwapped, At
<1>3. InvBound'
  BY <1>t, <1>1 DEF FollowInv, InvBound, At
<1>4. InvSeen'
  BY <1>t, <1>1 DEF FollowInv, InvSeen
<1>5. QED
  BY <1>2, <1>3, <1>4 DEF FollowInv

LEMMA FollowStep ==
    ASSUME TypeOK, TypeOK', PageInv, StampInv, LookupInv, FollowInv,
           Threaded = FALSE, [Next]_vars
    PROVE  FollowInv'
<1>t. /\ pc \in [Threads -> Labels] /\ Readers \subseteq Threads \ {Writer}
      /\ Writer \in Threads /\ Starter \in Threads \ {Writer} /\ Starter \notin Readers
      /\ heap \in [Heaps -> HeapType] /\ "app" \in Heaps /\ "msg" \in Heaps
      /\ page.flipcount \in Nat /\ page.timestamp \in Int /\ page \in PageType
      /\ raced \in [Heaps -> BOOLEAN] /\ lap \in [Readers -> {0, 1, 2}]
  BY FollowTypes, PageTypes, ThreadsAssumption
<1>1. CASE Boot
  <2>1. /\ \A h \in Heaps : heap'[h].segment = 0 /\ heap'[h].config \in {0, Nil}
        /\ page'.front = 0 /\ page'.flipcount = 1
        /\ pc'[Starter] = "bindload"
    BY <1>t, <1>1 DEF Boot
  <2>2. \A r \in Readers : pc'[r] = "idle"
    BY <1>t, <1>1 DEF Boot, LookupInv, InvBoot, Booted
  <2>3. InvConfig'
    BY <1>t, <2>1, PointerFacts DEF InvConfig
  <2>4. InvBound' /\ InvSeen'
    BY <1>t, <2>1, <2>2 DEF InvBound, InvSeen, At
  <2>5. QED
    BY <2>3, <2>4 DEF FollowInv
<1>2. CASE BeginTagging \/ RefreshFails \/ CloseItemTag \/ SwapBack \/ RestartWriter
  <2>1. /\ heap'["app"] = heap["app"] /\ raced'["app"] = raced["app"]
        /\ page'.front = page.front /\ page'.flipcount = page.flipcount
        /\ page'.timestamp = page.timestamp
        /\ UNCHANGED <<switchConfig, clobbered, lookup, lap, silent, killedAt>>
        /\ pc[Writer] # "stamp"
    BY <1>t, <1>2 DEF BeginTagging, RefreshFails, CloseItemTag, SwapBack,
                      RestartWriter, PageType
  <2>2. \A t \in Threads \ {Writer} : pc'[t] = pc[t]
    BY <1>t, <1>2 DEF BeginTagging, RefreshFails, CloseItemTag, SwapBack,
                      RestartWriter, Goto
  <2>3. QED
    BY <2>1, <2>2, WriterFollow DEF HalfSwapped
<1>3. CASE OpenItemTag
  <2>1. /\ UNCHANGED <<page, heap, raced, switchConfig, clobbered, lookup, silent, killedAt>>
        /\ \A r \in Readers : lap'[r] = 0 => lap[r] = 0
        /\ pc[Writer] # "stamp" /\ \A t \in Threads \ {Writer} : pc'[t] = pc[t]
    BY <1>t, <1>3 DEF OpenItemTag, Goto
  <2>2. QED
    BY <2>1, WriterFollow DEF HalfSwapped
<1>4. CASE SwapFront
  <2>1. /\ UNCHANGED <<heap, switchConfig, clobbered, lookup, lap>>
        /\ page'.timestamp = page.timestamp /\ page'.flipcount = page.flipcount + 1
        /\ pc[Writer] # "down" /\ pc'[Writer] = "stamp"
        /\ \A t \in Threads \ {Writer} : pc'[t] = pc[t]
    BY <1>t, <1>4 DEF SwapFront, Goto
  <2>2. Booted /\ page.flipcount >= 1 /\ heap["app"].segment \in Segments
    BY <2>1 DEF LookupInv, InvBoot, FollowInv, InvConfig
  <2>3. InvConfig'
    BY <1>t, <2>1, <2>2 DEF InvConfig, Hidden
  <2>4. InvBound'
    BY <2>1, WriterMoves DEF FollowInv, InvBound
  <2>5. InvSeen'
    BY <1>t, <2>1 DEF FollowInv, InvSeen
  <2>6. QED
    BY <2>3, <2>4, <2>5 DEF FollowInv
<1>5. CASE StampPage
  <2>1. /\ UNCHANGED <<heap, raced, switchConfig, clobbered>>
        /\ page'.timestamp = clock /\ page'.front = page.front
        /\ page'.flipcount = page.flipcount
        /\ page.timestamp = clock => silent'
        /\ \A t \in Threads \ {Writer} : pc'[t] = pc[t]
    BY <1>t, <1>5 DEF StampPage, Goto, PageType
  <2>l. \A r \in Readers : lap'[r] # 0
    BY <1>t, <1>5 DEF StampPage, PublishEnds
  <2>2. Hidden'
    <3>1. heap["app"].timestamp <= page.timestamp /\ page.timestamp <= clock
      BY <1>t DEF StampInv, InvStamps
    <3>2. heap["app"].timestamp \in Int /\ clock \in Int
      BY FollowTypes, HeapTypes
    <3>3. heap["app"].timestamp = clock => silent'
      BY <1>t, <2>1, <3>1, <3>2
    <3>4. QED
      BY <2>1, <3>3 DEF Hidden
  <2>3. InvConfig'
    BY <2>1, <2>2, WriterMoves, ConfigFrame DEF FollowInv
  <2>4. InvBound' /\ InvSeen'
    BY <2>1, <2>l, WriterMoves DEF FollowInv, InvBound, InvSeen
  <2>5. QED
    BY <2>3, <2>4 DEF FollowInv
<1>6. CASE WriterDies
  <2>1. /\ UNCHANGED <<page, heap, raced, switchConfig, clobbered, lookup>>
        /\ killedAt \subseteq killedAt' /\ (silent => silent')
        /\ pc[Writer] = "stamp" => silent'
        /\ \A r \in Readers : lap'[r] = 0 => lap[r] = 0
        /\ \A t \in Threads \ {Writer} : pc'[t] = pc[t]
    BY <1>t, <1>6 DEF WriterDies, PublishEnds, Goto
  <2>2. QED
    BY <2>1, WriterFollow DEF HalfSwapped
<1>7. ASSUME Sync(Writer) PROVE FollowInv'
  <2>1. HeapOf(Writer) = "msg" /\ Quiet
    BY <1>t, <1>7 DEF HeapOf, Quiet
  <2>2. /\ UNCHANGED <<page, silent, killedAt>>
        /\ pc[Writer] = "stamp" => pc'[Writer] = "stamp"
    BY <2>1, QuietFrame DEF SyncLabels
  <2>3. /\ heap'["app"] = heap["app"] /\ raced'["app"] = raced["app"]
        /\ UNCHANGED <<switchConfig, clobbered, lap>>
        /\ \A t \in Threads \ {Writer} : pc'[t] = pc[t]
    BY <1>t, <1>7, <2>1 DEF Sync, SyncCheck, GetLock, LockBusy, LoadSegment,
       LoadTimestamp, OnSheapPageFlip, Unlock, Goto
  <2>4. \A r \in Readers : lookup'[r].joined = lookup[r].joined
    BY <1>t, <1>7, FollowTypes DEF Sync, SyncCheck, GetLock, LockBusy, LoadSegment,
       LoadTimestamp, OnSheapPageFlip, Unlock, LookupType
  <2>5. QED
    BY <2>2, <2>3, <2>4, WriterFollow DEF HalfSwapped
<1>8. CASE Tick \/ UNCHANGED vars
  <2>1. UNCHANGED <<page, heap, raced, switchConfig, clobbered, lookup, lap,
                    silent, killedAt, pc>>
    BY <1>8 DEF Tick, vars
  <2>2. QED
    BY <2>1, WriterFollow DEF HalfSwapped
<1>9. CASE Quiet
  <2>1. CASE \E t \in Threads \ {Starter} : Sync(t)
    BY <1>7, <2>1, ReaderSyncFollow
  <2>2. CASE \E t \in Threads \ {Writer} : Bind(t)
    BY <2>2, BindFollow
  <2>3. CASE \E r \in Readers : ReaderOnly(r)
    BY <2>3, ReaderOnlyFollow
  <2>4. QED
    BY <1>8, <1>9, <2>1, <2>2, <2>3 DEF Quiet
<1>10. QED
  BY <1>1, <1>2, <1>3, <1>4, <1>5, <1>6, <1>9, StepCases

\* The mode, as a state predicate: the temporal prover does not know that a
\* constant keeps its value.
ProcessMode == Threaded = FALSE

LEMMA FollowCorrect ==
    Threaded = FALSE /\ Spec => [](TypeOK /\ PageInv /\ StampInv /\ LookupInv /\ FollowInv)
<1>1. Init => FollowInv
  BY FollowInit
<1>2. ProcessMode /\ TypeOK /\ TypeOK' /\ PageInv /\ StampInv /\ LookupInv
        /\ FollowInv /\ [Next]_vars => FollowInv'
  BY FollowStep DEF ProcessMode
<1>3. Threaded = FALSE => ProcessMode
  BY DEF ProcessMode
<1>4. ProcessMode => ProcessMode'
  BY DEF ProcessMode
<1>5. QED
  BY <1>1, <1>2, <1>3, <1>4, StampCorrect, LookupCorrect, PTL DEF Spec

(* In process mode the pointer that isSwitchEnabled is about to use leads  *)
(* into the front segment, unless one of the listed things was in its way. *)
THEOREM PointerStaysCurrent == Threaded = FALSE /\ Spec => []PointerCurrent
<1>1. ASSUME TypeOK, StampInv, LookupInv, FollowInv PROVE PointerCurrent
  <2> SUFFICES ASSUME NEW r \in Readers,
                      pc[r] = "module", lap[r] = 0, pc[Writer] # "stamp",
                      ~(switchConfig \in {Nil, page.front}),
                      ~(\E t \in Threads \ {Writer} : Following(t)),
                      ~raced["app"], ~silent, ~clobbered, ~HalfSwapped
               PROVE  lookup[r].joined /\ heap["app"].timestamp # page.timestamp
    BY DEF PointerCurrent
  <2>1. Booted /\ "app" \in Heaps
    BY <1>1, HeapTypes DEF LookupInv, InvBoot
  <2>2. switchConfig = heap["app"].config
    BY <1>1 DEF FollowInv, InvBound, At, Following
  <2>3. CASE heap["app"].timestamp # page.timestamp
    BY <1>1, <2>3 DEF FollowInv, InvSeen
  <2>4. CASE heap["app"].timestamp = page.timestamp
    <3>1. heap["app"].segment = page.front
      BY <1>1, <2>1, <2>4 DEF StampInv, HeapCurrent
    <3>2. ~Hidden /\ ~At({"timestamp", "callback"})
      BY <2>4 DEF Hidden, At, Following
    <3>3. QED
      BY <1>1, <2>1, <2>2, <3>1, <3>2 DEF FollowInv, InvConfig
  <2>5. QED
    BY <2>3, <2>4
<1>2. QED
  BY <1>1, FollowCorrect, PTL

-----------------------------------------------------------------------------
(* Process mode with one asking thread: answers only move forward.         *)
Alone == \A q, r \in Readers : q = r

LEMMA ForwardInit == Init => InvForward
<1> SUFFICES ASSUME Init PROVE InvForward
  OBVIOUS
<1>1. /\ \A s \in Segments : seg[s].gen = 0
      /\ \A r \in Readers : lookup[r].answer = 0 /\ pc[r] = "idle"
      /\ switchConfig = Nil /\ heap["app"].config = Nil /\ ~clobbered
      /\ page.front = 1 /\ 1 \in Segments
  BY ThreadFacts, ThreadsAssumption DEF Init, Heaps, Segments
<1>2. ASSUME NEW r \in Readers PROVE NotBelow(r, page.front) /\ NotBelow(r, Nil)
  <2>1. lookup[r].answer = 0 /\ seg[page.front].gen = 0
    BY <1>1
  <2>2. QED
    BY <2>1 DEF NotBelow
<1>3. QED
  BY <1>1, <1>2 DEF InvForward

(* Builds are numbered upwards and the front segment only moves to newer   *)
(* ones.                                                                   *)
LEMMA GenGrows ==
    ASSUME TypeOK, PageInv, LookupInv, [Next]_vars, ~HalfSwapped
    PROVE  /\ \A s \in Segments : seg[s].gen <= seg'[s].gen
           /\ Booted => seg[page.front].gen <= seg'[page'.front].gen
<1>0. /\ page.front \in Segments /\ page.back \in Segments /\ tmp \in Segments
      /\ builds \in Nat /\ page \in PageType
      /\ seg \in [Segments -> SegmentType] /\ \A s \in Segments : seg[s].gen \in Nat
      /\ \A s \in Segments : seg[s].gen <= builds
  BY PageTypes DEF PageInv, InvGen
<1>1. CASE Boot
  <2>1. ~Booted /\ seg[0].gen = 0 /\ 0 \in Segments
    BY <1>1 DEF Boot, Booted, LookupInv, InvBoot, Segments
  <2>2. QED
    BY <1>0, <1>1, <2>1 DEF Boot
<1>2. CASE BeginTagging \/ CloseItemTag
  BY <1>0, <1>2 DEF BeginTagging, CloseItemTag, SegmentType
<1>3. CASE OpenItemTag
  BY <1>0, <1>3 DEF OpenItemTag
<1>4. CASE SwapFront
  <2>1. seg[page.front].gen < seg[tmp].gen
    BY <1>4 DEF SwapFront, PageInv, InvGen
  <2>2. page'.front = tmp /\ seg' = seg
    BY <1>4 DEF SwapFront
  <2>3. QED
    BY <1>0, <2>1, <2>2
<1>5. CASE RefreshFails \/ SwapBack \/ StampPage \/ WriterDies \/ RestartWriter
  <2>1. seg' = seg /\ page'.front = page.front
    BY <1>0, <1>5 DEF RefreshFails, SwapBack, StampPage, WriterDies,
                      RestartWriter, PageType
  <2>2. QED
    BY <1>0, <2>1
<1>6. CASE Quiet
  BY <1>0, <1>6, QuietFrame
<1>7. QED
  BY <1>1, <1>2, <1>3, <1>4, <1>5, <1>6, StepCases

LEMMA ForwardTypes ==
    ASSUME TypeOK
    PROVE  /\ pc \in [Threads -> Labels] /\ Readers \subseteq Threads \ {Writer}
           /\ Writer \in Threads /\ Starter \in Threads \ {Writer} /\ Starter \notin Readers
           /\ heap \in [Heaps -> HeapType] /\ "app" \in Heaps /\ "msg" \in Heaps
           /\ lookup \in [Readers -> LookupType]
           /\ \A r \in Readers : lookup[r].answer \in Nat
           /\ page.front \in Segments
           /\ \A s \in Segments : seg[s].gen \in Nat
           /\ reg \in [Threads -> Pointers] /\ switchConfig \in Pointers
           /\ heap["app"].config \in Pointers /\ heap["app"].segment \in Pointers
           /\ \A s \in Pointers : s # Nil => s \in Segments
BY FollowTypes, PageTypes, LookupTypes, ThreadsAssumption DEF Pointers, LookupType

(* A step of the worker: the application keeps its pointers, and what they *)
(* lead to is never replaced by something older.                           *)
LEMMA WriterForward ==
    ASSUME TypeOK, TypeOK', InvForward,
           \A t \in Threads \ {Writer} : pc'[t] = pc[t],
           heap'["app"] = heap["app"], switchConfig' = switchConfig,
           clobbered' = clobbered, reg' = reg,
           \A r \in Readers : /\ lookup'[r].answer = lookup[r].answer
                              /\ lookup'[r].ptr = lookup[r].ptr,
           \A s \in Segments : seg[s].gen <= seg'[s].gen,
           seg[page.front].gen <= seg'[page'.front].gen
    PROVE  InvForward'
<1> SUFFICES ASSUME NEW r \in Readers
             PROVE  LET config == heap'["app"].config IN
                    /\ NotBelow(r, page.front)'
                    /\ clobbered' \/ NotBelow(r, heap["app"].config)'
                    /\ pc'[r] \in {"timestamp", "callback"} => NotBelow(r, heap["app"].segment)'
                    /\ pc'[r] \in {"unlock", "bindload", "bindstore"}
                           => NotBelow(r, heap["app"].config)'
                    /\ pc'[r] = "bindstore" => reg'[r] = config
                    /\ pc'[r] = "element" => lookup'[r].ptr = config \/ clobbered'
                    /\ \/ switchConfig' \in {Nil, config} \/ clobbered'
                       \/ pc'[r] \in {"unlock", "bindload", "bindstore"}
                    /\ clobbered' => pc'[Starter] = "done"
  BY DEF InvForward
<1>1. \A s \in Pointers : NotBelow(r, s) => NotBelow(r, s)'
  <2>1. \A s \in Segments : seg'[s].gen \in Nat
    BY ForwardTypes DEF TypeOK, SegmentType
  <2>2. QED
    BY <2>1, ForwardTypes DEF NotBelow
<1>2. NotBelow(r, page.front)'
  <2>1. lookup[r].answer <= seg[page.front].gen
    BY ForwardTypes, PointerFacts DEF InvForward, NotBelow
  <2>2. seg'[page'.front].gen \in Nat
    BY PageTypes DEF TypeOK, SegmentType, PageType
  <2>3. QED
    BY <2>1, <2>2, ForwardTypes DEF NotBelow
<1>3. /\ NotBelow(r, heap["app"].config) => NotBelow(r, heap["app"].config)'
      /\ NotBelow(r, heap["app"].segment) => NotBelow(r, heap["app"].segment)'
  BY <1>1, ForwardTypes DEF NotBelow
<1>4. QED
  BY <1>2, <1>3, ForwardTypes DEF InvForward

(* The steps of the one thread that asks.                                  *)
LEMMA CallerForward ==
    ASSUME TypeOK, TypeOK', PageInv, StampInv, LookupInv, FollowInv, InvForward,
           Threaded = FALSE, Alone, ~HalfSwapped,
           NEW r \in Readers, Sync(r) \/ Bind(r) \/ ReaderOnly(r)
    PROVE  InvForward'
<1> DEFINE app == heap["app"]
<1>0. /\ HeapOf(r) = "app" /\ AfterSync(r) = "module" /\ r # Writer /\ r # Starter
      /\ r \in Threads
  BY ForwardTypes DEF HeapOf, AfterSync
<1>t. /\ pc \in [Threads -> Labels] /\ Starter \in Threads
      /\ heap \in [Heaps -> HeapType] /\ "app" \in Heaps
      /\ lookup \in [Readers -> LookupType] /\ reg \in [Threads -> Pointers]
      /\ page.front \in Segments /\ switchConfig \in Pointers
      /\ app.config \in Pointers /\ app.segment \in Pointers
      /\ \A s \in Pointers : s # Nil => s \in Segments
  BY ForwardTypes
<1>q. UNCHANGED <<page, seg>>
  BY DEF Sync, SyncCheck, GetLock, LockBusy, LoadSegment, LoadTimestamp,
         OnSheapPageFlip, Unlock, Bind, BindLoad, BindStore, ReaderOnly, Call,
         NothingBound, GetModule, GetElement
<1>p. pc'[Starter] = pc[Starter]
  BY <1>0, <1>t DEF Sync, SyncCheck, GetLock, LockBusy, LoadSegment, LoadTimestamp,
         OnSheapPageFlip, Unlock, Bind, BindLoad, BindStore, ReaderOnly, Call,
         NothingBound, GetModule, GetElement, Goto
<1>f. /\ NotBelow(r, page.front)
      /\ clobbered \/ NotBelow(r, app.config)
      /\ pc[r] \in {"timestamp", "callback"} => NotBelow(r, app.segment)
      /\ pc[r] \in {"unlock", "bindload", "bindstore"} => NotBelow(r, app.config)
      /\ pc[r] = "bindstore" => reg[r] = app.config
      /\ pc[r] = "element" => lookup[r].ptr = app.config \/ clobbered
      /\ \/ switchConfig \in {Nil, app.config} \/ clobbered
         \/ pc[r] \in {"unlock", "bindload", "bindstore"}
      /\ clobbered => pc[Starter] = "done"
  BY DEF InvForward
<1> SUFFICES /\ NotBelow(r, page.front)'
             /\ clobbered' \/ NotBelow(r, app.config)'
             /\ pc'[r] \in {"timestamp", "callback"} => NotBelow(r, app.segment)'
             /\ pc'[r] \in {"unlock", "bindload", "bindstore"} => NotBelow(r, app.config)'
             /\ pc'[r] = "bindstore" => reg'[r] = app'.config
             /\ pc'[r] = "element" => lookup'[r].ptr = app'.config \/ clobbered'
             /\ \/ switchConfig' \in {Nil, app'.config} \/ clobbered'
                \/ pc'[r] \in {"unlock", "bindload", "bindstore"}
             /\ clobbered' => pc'[Starter] = "done"
  BY DEF Alone, InvForward
\* Steps that leave the answer and the configuration hash alone.
<1>1. ASSUME lookup'[r].answer = lookup[r].answer, app'.config = app.config
      PROVE  /\ NotBelow(r, page.front)' /\ (NotBelow(r, app.config)' <=> NotBelow(r, app.config))
             /\ app'.segment = app.segment => (NotBelow(r, app.segment)' <=> NotBelow(r, app.segment))
             /\ app'.segment = page.front => NotBelow(r, app.segment)'
  BY <1>q, <1>f, <1>1 DEF NotBelow
<1>2. CASE SyncCheck(r) \/ LockBusy(r)
  <2>1. /\ UNCHANGED <<heap, switchConfig, clobbered, reg>>
        /\ lookup'[r].answer = lookup[r].answer
        /\ pc[r] \in {"sync", "lock"} /\ pc'[r] \in {"lock", "module"}
    BY <1>0, <1>t, <1>2 DEF SyncCheck, LockBusy, Goto, LookupType
  <2>2. QED
    BY <1>1, <1>f, <1>p, <2>1
<1>3. CASE GetLock(r) \/ LoadSegment(r) \/ LoadTimestamp(r) \/ Unlock(r)
  <2>1. /\ UNCHANGED <<lookup, switchConfig, clobbered, reg>>
        /\ app'.config = app.config
        /\ pc[r] = "lock" => app'.segment = app.segment /\ pc'[r] = "segment"
        /\ pc[r] = "segment" => app'.segment = page.front /\ pc'[r] = "timestamp"
        /\ pc[r] = "timestamp" => app'.segment = app.segment /\ pc'[r] = "callback"
        /\ pc[r] = "unlock" => app'.segment = app.segment /\ pc'[r] = "bindload"
        /\ pc[r] \in {"lock", "segment", "timestamp", "unlock"}
    BY <1>0, <1>t, <1>3 DEF GetLock, LoadSegment, LoadTimestamp, Unlock, Goto, HeapType
  <2>2. QED
    BY <1>1, <1>f, <1>p, <2>1
<1>4. CASE OnSheapPageFlip(r)
  <2>1. /\ UNCHANGED <<lookup, switchConfig, clobbered, reg>>
        /\ pc[r] = "callback" /\ pc'[r] = "unlock"
        /\ app'.config = IF seg[app.segment].items > 0 THEN app.segment ELSE app.config
    BY <1>0, <1>t, <1>4 DEF OnSheapPageFlip, Goto, HeapType
  <2>2. Booted
    BY <2>1 DEF LookupInv, InvBoot
  \* What the hash points into is never older than what was answered: it is
  \* the segment loaded, the front segment, or stays what it was.
  <2>3. NotBelow(r, app.config)'
    <3>1. CASE seg[app.segment].items > 0
      BY <1>q, <1>f, <2>1, <3>1 DEF NotBelow
    <3>2. CASE ~(seg[app.segment].items > 0)
      <4>1. app.config \in {Nil, app.segment, page.front}
        <5>1. CASE app.segment = Nil
          BY <2>2, <5>1, PointerFacts DEF FollowInv, InvConfig
        <5>2. CASE app.segment = page.front
          <6>1. seg[page.front].items \in Nat
            BY PageTypes
          <6>2. page.flipcount = 1
            BY <2>2, <3>2, <5>2, <6>1 DEF PageInv, FrontServable
          <6>3. QED
            BY <2>2, <6>2 DEF FollowInv, InvConfig
        <5>3. CASE app.segment \in Segments /\ app.segment # page.front
          BY <1>t, <5>3 DEF Segments, Pointers
        <5>4. QED
          BY <1>t, <5>1, <5>2, <5>3
      <4>2. QED
        BY <1>q, <1>f, <2>1, <3>2, <4>1 DEF NotBelow
    <3>3. QED
      BY <3>1, <3>2
  <2>4. NotBelow(r, page.front)'
    BY <1>q, <1>f, <2>1 DEF NotBelow
  <2>5. QED
    BY <1>f, <1>p, <2>1, <2>3, <2>4
<1>5. CASE Bind(r)
  <2>1. /\ UNCHANGED <<heap, lookup>>
        /\ pc[r] = "bindload" => /\ UNCHANGED <<switchConfig, clobbered>>
                                 /\ reg'[r] = app.config /\ pc'[r] = "bindstore"
        /\ pc[r] = "bindstore" => /\ switchConfig' = reg[r] /\ pc'[r] = "module"
                                  /\ clobbered' <=> reg[r] # app.config
        /\ pc[r] \in {"bindload", "bindstore"}
    BY <1>0, <1>t, <1>5 DEF Bind, BindLoad, BindStore, Goto
  <2>2. QED
    BY <1>1, <1>f, <1>p, <2>1
<1>6. CASE Call(r) \/ NothingBound(r) \/ GetModule(r)
  <2>1. /\ UNCHANGED <<heap, switchConfig, clobbered, reg>>
        /\ lookup'[r].answer = lookup[r].answer
        /\ pc[r] \in {"idle", "module"} /\ pc'[r] \in {"sync", "idle", "element"}
        /\ pc'[r] = "element" => lookup'[r].ptr = switchConfig /\ switchConfig # Nil
    BY <1>0, <1>t, <1>6 DEF Call, NothingBound, GetModule, Goto
  <2>2. QED
    BY <1>1, <1>f, <1>p, <2>1
<1>7. CASE GetElement(r)
  <2> DEFINE l == lookup[r]
  <2>1. /\ UNCHANGED <<heap, switchConfig, clobbered, reg>>
        /\ pc[r] = "element" /\ pc'[r] = "idle"
        /\ \/ lookup'[r].answer = l.answer
           \/ /\ lookup'[r].answer = l.gen
              /\ seg[l.ptr].gen = l.gen /\ l.gen <= seg[page.front].gen
    BY <1>0, <1>t, <1>7 DEF GetElement, Goto, LookupInv, InvLookup
  <2>2. CASE lookup'[r].answer = l.answer
    BY <1>1, <1>f, <1>p, <2>1, <2>2
  <2>3. CASE lookup'[r].answer = l.gen /\ seg[l.ptr].gen = l.gen /\ l.gen <= seg[page.front].gen
    <3>1. NotBelow(r, page.front)'
      BY <1>q, <2>3 DEF NotBelow
    <3>2. clobbered \/ NotBelow(r, app.config)'
      <4>1. l.gen \in Nat
        BY LookupTypes
      <4>2. QED
        BY <1>q, <1>f, <2>1, <2>3, <4>1 DEF NotBelow
    <3>3. QED
      BY <1>f, <1>p, <2>1, <3>1, <3>2
  <2>4. QED
    BY <2>1, <2>2, <2>3
<1>8. QED
  BY <1>2, <1>3, <1>4, <1>5, <1>6, <1>7 DEF Sync, ReaderOnly

(* The pointer libswitch_initializeLibSwitch binds may be outdated.        *)
LEMMA StarterForward ==
    ASSUME TypeOK, InvForward, Bind(Starter)
    PROVE  InvForward'
<1>t. pc \in [Threads -> Labels] /\ Starter \in Threads /\ Starter \notin Readers
  BY ForwardTypes
<1>1. /\ UNCHANGED <<page, seg, heap, lookup>>
      /\ \A r \in Readers : pc'[r] = pc[r] /\ reg'[r] = reg[r]
      /\ pc[Starter] = "bindload" => UNCHANGED <<switchConfig, clobbered>>
      /\ pc[Starter] = "bindstore" => /\ switchConfig' = heap["app"].config \/ clobbered'
                                      /\ pc'[Starter] = "done"
      /\ pc[Starter] \in {"bindload", "bindstore"}
  BY <1>t, ForwardTypes DEF Bind, BindLoad, BindStore, Goto
<1>2. \A r \in Readers, s \in Pointers : NotBelow(r, s)' <=> NotBelow(r, s)
  BY <1>1 DEF NotBelow
<1>3. QED
  BY <1>1, <1>2, <1>t DEF InvForward, NotBelow

LEMMA ForwardStep ==
    ASSUME TypeOK, TypeOK', PageInv, StampInv, LookupInv, FollowInv, InvForward,
           Threaded = FALSE, Alone, ~HalfSwapped, [Next]_vars
    PROVE  InvForward'
<1>t. /\ pc \in [Threads -> Labels] /\ Readers \subseteq Threads \ {Writer}
      /\ Writer \in Threads /\ Starter \in Threads \ {Writer} /\ Starter \notin Readers
      /\ heap \in [Heaps -> HeapType] /\ "app" \in Heaps /\ "msg" \in Heaps
      /\ lookup \in [Readers -> LookupType]
  BY ForwardTypes
<1>g. /\ \A s \in Segments : seg[s].gen <= seg'[s].gen
      /\ Booted => seg[page.front].gen <= seg'[page'.front].gen
  BY GenGrows
<1>b. pc[Writer] # "down" => Booted
  BY DEF LookupInv, InvBoot
<1>1. CASE Boot
  <2>1. ~Booted /\ \A s \in Pointers : s # Nil => seg[s].state = "blank" /\ seg[s].gen = 0
    BY <1>1 DEF Boot, Booted, LookupInv, InvBoot, Pointers
  <2>2. heap["app"].config = Nil /\ switchConfig = Nil
    BY <1>t, <2>1, ForwardTypes DEF LookupInv, InvPointers
  <2>3. /\ UNCHANGED <<switchConfig, clobbered, lookup>>
        /\ heap'["app"].config \in {0, Nil} /\ page'.front = 0
        /\ \A r \in Readers : pc'[r] = "idle"
    BY <1>t, <1>1, <2>1 DEF Boot, LookupInv, InvBoot
  <2>4. ASSUME NEW r \in Readers PROVE NotBelow(r, 0)' /\ NotBelow(r, Nil)'
    <3>1. lookup'[r].answer \in Nat /\ lookup'[r].answer <= 0
      BY <2>1, <2>3, ForwardTypes, PointerFacts DEF InvForward, NotBelow
    <3>2. seg'[0].gen \in Nat
      BY PointerFacts DEF TypeOK, SegmentType
    <3>3. QED
      BY <3>1, <3>2 DEF NotBelow
  <2>5. \A r \in Readers : ~clobbered
    BY <2>1, <1>1 DEF InvForward, Boot, Booted
  <2>6. QED
    BY <2>2, <2>3, <2>4, <2>5 DEF InvForward, NotBelow
<1>2. ASSUME \A t \in Threads \ {Writer} : pc'[t] = pc[t],
             heap'["app"] = heap["app"], Booted,
             UNCHANGED <<switchConfig, clobbered, reg>>,
             \A r \in Readers : /\ lookup'[r].answer = lookup[r].answer
                                /\ lookup'[r].ptr = lookup[r].ptr
      PROVE  InvForward'
  BY <1>2, <1>g, WriterForward
<1>3. CASE BeginTagging \/ RefreshFails \/ OpenItemTag \/ CloseItemTag \/ SwapBack
  BY <1>t, <1>b, <1>2, <1>3 DEF BeginTagging, RefreshFails, OpenItemTag,
     CloseItemTag, SwapBack, Goto
<1>4. CASE SwapFront \/ StampPage \/ WriterDies \/ RestartWriter
  BY <1>t, <1>b, <1>2, <1>4 DEF SwapFront, StampPage, WriterDies, RestartWriter, Goto
<1>5. ASSUME Sync(Writer) PROVE InvForward'
  <2>1. HeapOf(Writer) = "msg"
    BY DEF HeapOf
  <2>2. /\ heap'["app"] = heap["app"] /\ UNCHANGED <<switchConfig, clobbered, reg>>
        /\ \A t \in Threads \ {Writer} : pc'[t] = pc[t]
        /\ pc[Writer] # "down"
    BY <1>t, <1>5, <2>1 DEF Sync, SyncCheck, GetLock, LockBusy, LoadSegment,
       LoadTimestamp, OnSheapPageFlip, Unlock, Goto
  <2>3. SameLookups
    BY <1>t, <1>5, SyncLookups
  <2>4. QED
    BY <1>b, <1>2, <2>2, <2>3 DEF SameLookups
<1>6. CASE Tick \/ UNCHANGED vars
  <2>1. UNCHANGED <<page, seg, heap, switchConfig, clobbered, reg, lookup, pc>>
    BY <1>6 DEF Tick, vars
  <2>2. \A r \in Readers, s \in Pointers : NotBelow(r, s)' <=> NotBelow(r, s)
    BY <2>1 DEF NotBelow
  <2>3. QED
    BY <2>1, <2>2 DEF InvForward, NotBelow
<1>7. CASE Quiet
  <2>1. CASE \E t \in Threads \ {Starter} : Sync(t)
    BY <1>5, <2>1, CallerForward DEF Threads
  <2>2. CASE \E t \in Threads \ {Writer} : Bind(t)
    BY <2>2, CallerForward, StarterForward DEF Threads
  <2>3. CASE \E r \in Readers : ReaderOnly(r)
    BY <2>3, CallerForward
  <2>4. QED
    BY <1>6, <1>7, <2>1, <2>2, <2>3 DEF Quiet
<1>8. QED
  BY <1>1, <1>3, <1>4, <1>7, StepCases

(* Only a lookup's second read stores an answer; it keeps to the bound     *)
(* pointer, and the configuration there is no older than the last answer.  *)
LEMMA AnswerStep ==
    ASSUME TypeOK, LookupInv, InvForward, [Next]_vars
    PROVE  \A r \in Readers : lookup'[r].answer >= lookup[r].answer \/ clobbered
<1> SUFFICES ASSUME NEW r \in Readers, ~clobbered
             PROVE  lookup'[r].answer >= lookup[r].answer
  OBVIOUS
<1>t. /\ lookup \in [Readers -> LookupType] /\ lookup[r].answer \in Nat
      /\ \A s \in Pointers : s # Nil => s \in Segments
  BY ForwardTypes
<1>1. ASSUME NEW q \in Readers, GetElement(q) PROVE lookup'[r].answer >= lookup[r].answer
  <2>1. CASE q = r
    <3>1. lookup[r].ptr = heap["app"].config /\ pc[r] = "element"
      BY <1>1, <2>1 DEF GetElement, InvForward
    <3>2. \/ lookup'[r].answer = lookup[r].answer
          \/ /\ lookup'[r].answer = lookup[r].gen
             /\ seg[lookup[r].ptr].gen = lookup[r].gen
      BY <1>t, <1>1, <2>1 DEF GetElement
    <3>3. lookup[r].answer <= seg[lookup[r].ptr].gen
      BY <3>1 DEF InvForward, NotBelow, LookupInv, InvLookup
    <3>4. QED
      BY <1>t, <3>2, <3>3
  <2>2. CASE q # r
    BY <1>t, <1>1, <2>2 DEF GetElement
  <2>3. QED
    BY <2>1, <2>2
<1>2. CASE \E q \in Readers : Call(q) \/ NothingBound(q) \/ GetModule(q)
  BY <1>t, <1>2 DEF Call, NothingBound, GetModule
<1>3. ASSUME NEW t \in Threads, Sync(t) \/ Bind(t) PROVE lookup'[r].answer >= lookup[r].answer
  BY <1>t, <1>3, SyncLookups DEF SameLookups
<1>4. CASE Boot \/ BeginTagging \/ RefreshFails \/ OpenItemTag \/ CloseItemTag
           \/ SwapBack \/ SwapFront \/ StampPage \/ WriterDies \/ RestartWriter
           \/ Tick \/ UNCHANGED vars
  <2>1. lookup' = lookup
    BY <1>4 DEF Boot, BeginTagging, RefreshFails, OpenItemTag, CloseItemTag,
       SwapBack, SwapFront, StampPage, WriterDies, RestartWriter, Tick, vars
  <2>2. QED
    BY <1>t, <2>1
<1>5. QED
  BY <1>1, <1>2, <1>3, <1>4, StepCases DEF Quiet, ReaderOnly

\* The deployment of a node application, as a state predicate.
NodeMode == ProcessMode /\ Alone

LEMMA HalfSwappedStays == ASSUME TypeOK, HalfSwapped, [Next]_vars PROVE HalfSwapped'
<1>1. CASE Quiet
  BY <1>1, QuietFrame DEF HalfSwapped
<1>2. CASE ~Quiet
  BY <1>2, StepCases DEF HalfSwapped, Boot, BeginTagging, RefreshFails, OpenItemTag,
     CloseItemTag, SwapBack, SwapFront, StampPage, WriterDies, RestartWriter
<1>3. QED
  BY <1>1, <1>2

(* In process mode, what one asking thread is told never goes back to an   *)
(* older configuration while no outdated pointer is bound and the page has *)
(* its two segments.                                                       *)
THEOREM AnswersOnlyMoveForward ==
    Threaded = FALSE /\ Alone /\ Spec => AnswersNeverGoBack
<1>1. Init => InvForward \/ HalfSwapped
  BY ForwardInit
<1>2. NodeMode /\ TypeOK /\ TypeOK' /\ PageInv /\ StampInv /\ LookupInv /\ FollowInv
        /\ (InvForward \/ HalfSwapped) /\ [Next]_vars => (InvForward \/ HalfSwapped)'
  <2> SUFFICES ASSUME NodeMode, TypeOK, TypeOK', PageInv, StampInv, LookupInv, FollowInv,
                      InvForward \/ HalfSwapped, [Next]_vars
               PROVE  (InvForward \/ HalfSwapped)'
    OBVIOUS
  <2>1. CASE HalfSwapped
    BY <2>1, HalfSwappedStays
  <2>2. CASE ~HalfSwapped
    BY <2>2, ForwardStep DEF NodeMode, ProcessMode
  <2>3. QED
    BY <2>1, <2>2
<1>3. TypeOK /\ LookupInv /\ (InvForward \/ HalfSwapped) /\ [Next]_vars =>
        [\A r \in Readers :
            lookup'[r].answer >= lookup[r].answer \/ clobbered \/ HalfSwapped]_vars
  BY AnswerStep
<1>4. /\ Threaded = FALSE /\ Alone => NodeMode
      /\ NodeMode => NodeMode'
  BY DEF NodeMode, ProcessMode, Alone
<1>5. QED
  BY <1>1, <1>2, <1>3, <1>4, FollowCorrect, PTL DEF Spec, AnswersNeverGoBack
=============================================================================
