----------------------------- MODULE SharedHeap -----------------------------
(***************************************************************************)
(* The double-buffered shared heap ("sheap") through which a switch        *)
(* configuration reaches the threads that ask libswitch_isSwitchEnabled.   *)
(*                                                                         *)
(* One shared_page lives in shared memory: two segments, the indices of    *)
(* the front and back segment, and the timestamp of the last publish.      *)
(* Every process keeps a shared_heap of its own: the timestamp and the     *)
(* segment of the last flip it saw, and the refresh mutex of its threads.  *)
(* The messaging worker (Writer) rebuilds the back segment and publishes   *)
(* it; the application threads (Readers) notice the new timestamp, follow  *)
(* the flip, bind gConfig->switchConfig and look the switch up through     *)
(* that pointer.  The Starter is the thread inside                         *)
(* libswitch_initializeLibSwitch.                                          *)
(*                                                                         *)
(* One action is one access to shared memory, so that the worker's stores  *)
(* and the application's loads interleave as they do in the program.       *)
(*                                                                         *)
(* Abstractions: a configuration is the number of the build that wrote it  *)
(* (gen); a pointer to the switch_config object is the segment it lies in  *)
(* (the object is the first allocation of a segment, at the same address   *)
(* in every build); shared_heap.flipcount, which no code reads, is left    *)
(* out; the services loop has its one supported service, SWITCH-CONFIG.    *)
(***************************************************************************)
EXTENDS Integers

CONSTANTS
    Readers,     \* application threads that call libswitch_isSwitchEnabled
    Writer,      \* the messaging process or thread
    Starter,     \* the thread in libswitch_initializeLibSwitch
    Threaded,    \* <threaded>: the messaging worker is a thread, not a process
    CanDie,      \* the messaging process may be killed at any instruction
    MaxGen,      \* bound: configurations built
    MaxClock     \* bound: seconds the clock advances

ASSUME ThreadsAssumption == /\ Writer \notin Readers
                            /\ Starter \notin Readers
                            /\ Writer # Starter
ASSUME ModeAssumption == Threaded \in BOOLEAN /\ CanDie \in BOOLEAN
ASSUME BoundAssumption == MaxGen \in Nat /\ MaxClock \in Nat

Threads == Readers \cup {Writer, Starter}
Segments == {0, 1}
Labels == {"down", "dead", "done", "idle", "fetch", "build", "swapback",
           "swapfront", "stamp", "sync", "lock", "segment", "timestamp",
           "callback", "unlock", "bindload", "bindstore", "module", "element"}
Nil == -1                       \* NULL, and SHM_TIMESTAMP_INIT
Heaps == {"app", "msg"}

\* The shared_heap a thread works on: in thread mode the messaging worker
\* shares the application's, in process mode it has the copy fork() gave it.
HeapOf(t) == IF t = Writer /\ ~Threaded THEN "msg" ELSE "app"

VARIABLES
    page,          \* shared_page: front, back, timestamp, flipcount
    seg,           \* segment -> build it holds, its state, its item count
    heap,          \* shared_heap of each process, and the worker-visible config hash
    switchConfig,  \* gConfig->switchConfig: the segment pointed into, or Nil
    pc,            \* the next step of each thread
    reg,           \* pointer a thread loaded and has not stored yet
    tmp,           \* the local variable of shmdata_PublishBackSeg
    clock,         \* time(NULL)
    builds,        \* configurations written so far
    lookup         \* what the current or last lookup of each reader saw

\* History variables; no guard reads them.
VARIABLES
    loadedAt,      \* heap -> page.flipcount when its front segment was loaded
    raced,         \* heap -> a flip fell between its two loads
    silent,        \* the last flip did not change page.timestamp
    killedAt,      \* publish steps at which the worker was killed
    lap,           \* reader -> 0, 1: a publish ended since its call began,
                   \*   2: and the next build has begun writing
    clobbered      \* a thread stored an outdated pointer over a newer one

vars == <<page, seg, heap, switchConfig, pc, reg, tmp, clock, builds, lookup,
          loadedAt, raced, silent, killedAt, lap, clobbered>>

Goto(t, label) == pc' = [pc EXCEPT ![t] = label]

Booted == pc[Starter] # "down"

\* The configuration in force: the front segment's, from the moment its
\* timestamp is stored.
InForce == seg[IF pc[Writer] = "stamp" THEN page.back ELSE page.front].gen

-----------------------------------------------------------------------------
(* shmdata_getNewSharedPage, shmdata_sheap_make.                           *)
Init ==
    /\ page = [front |-> 1, back |-> 0, timestamp |-> Nil, flipcount |-> 0]
    /\ seg = [s \in Segments |-> [gen |-> 0, state |-> "blank", items |-> 0]]
    /\ heap = [h \in Heaps |-> [timestamp |-> Nil, segment |-> Nil,
                                refreshing |-> FALSE, config |-> Nil]]
    /\ switchConfig = Nil
    /\ pc = [t \in Threads |-> IF t \in Readers THEN "idle" ELSE "down"]
    /\ reg = [t \in Threads |-> Nil]
    /\ tmp = 0
    /\ clock = 0
    /\ builds = 0
    /\ lookup = [r \in Readers |-> [ptr |-> Nil, gen |-> 0, torn |-> FALSE,
                                   behind |-> FALSE, joined |-> FALSE,
                                   from |-> 0, answer |-> 0]]
    /\ loadedAt = [h \in Heaps |-> 0]
    /\ raced = [h \in Heaps |-> FALSE]
    /\ silent = FALSE
    /\ killedAt = {}
    /\ lap = [r \in Readers |-> 0]
    /\ clobbered = FALSE

(* cc_initializeConfigCore: build into the back segment, publish whether   *)
(* or not the build failed, follow the flip, start the messaging worker.   *)
(* One step, because no other thread has a pointer to the page before      *)
(* libswitch_postConfig stores config->configCore.  A failed parse returns *)
(* before OpenItemTag, so the published segment then has no item.  The     *)
(* forked worker inherits a copy of the application's shared_heap.         *)
Boot ==
    /\ pc[Starter] = "down"
    /\ \E parsed \in BOOLEAN :
        /\ builds' = IF parsed THEN 1 ELSE 0
        /\ seg' = IF parsed
                  THEN [seg EXCEPT ![0] = [gen |-> 1, state |-> "complete", items |-> 1]]
                  ELSE seg
        /\ heap' = [h \in Heaps |-> [timestamp |-> clock, segment |-> 0,
                                     refreshing |-> FALSE,
                                     config |-> IF parsed THEN 0 ELSE Nil]]
    /\ page' = [front |-> 0, back |-> 1, timestamp |-> clock, flipcount |-> 1]
    /\ loadedAt' = [h \in Heaps |-> 1]
    /\ pc' = [pc EXCEPT ![Starter] = "bindload", ![Writer] = "idle"]
    /\ UNCHANGED <<switchConfig, reg, tmp, clock, lookup, raced, silent,
                   killedAt, lap, clobbered>>

-----------------------------------------------------------------------------
(* The messaging worker: cc_refreshConfigCore and shmdata_PublishBackSeg.  *)

\* Mutant: the item count of the wrong segment is reset.
BeginTagging_Front ==
    /\ pc[Writer] = "idle"
    /\ builds < MaxGen
    /\ seg' = [seg EXCEPT ![page.front].items = 0]
    /\ Goto(Writer, "fetch")
    /\ UNCHANGED <<page, heap, switchConfig, reg, tmp, clock, builds, lookup,
                   loadedAt, raced, silent, killedAt, lap, clobbered>>

(* shmdata_BeginTagging: the item count of the back segment is reset, its  *)
(* memory is not touched yet.                                              *)
BeginTagging ==
    /\ pc[Writer] = "idle"
    /\ builds < MaxGen
    /\ seg' = [seg EXCEPT ![page.back].items = 0]
    /\ Goto(Writer, "fetch")
    /\ UNCHANGED <<page, heap, switchConfig, reg, tmp, clock, builds, lookup,
                   loadedAt, raced, silent, killedAt, lap, clobbered>>

\* Mutant: the error return is missing, the failed build is published.
RefreshFails_Publishes ==
    /\ pc[Writer] = "fetch"
    /\ Goto(Writer, "swapback")
    /\ UNCHANGED <<page, seg, heap, switchConfig, reg, tmp, clock, builds,
                   lookup, loadedAt, raced, silent, killedAt, lap, clobbered>>

(* The download or the parse fails: cc_refreshConfigCore returns the error *)
(* without a publish and without a rollback.                               *)
RefreshFails ==
    /\ pc[Writer] = "fetch"
    /\ Goto(Writer, "idle")
    /\ UNCHANGED <<page, seg, heap, switchConfig, reg, tmp, clock, builds,
                   lookup, loadedAt, raced, silent, killedAt, lap, clobbered>>

\* Mutant: what the back segment holds is taken for the new configuration.
OpenItemTag_Reuses ==
    /\ pc[Writer] = "fetch"
    /\ builds' = builds + 1
    /\ seg' = [seg EXCEPT ![page.back].state = "building"]
    /\ lap' = [r \in Readers |-> IF lap[r] = 1 THEN 2 ELSE lap[r]]
    /\ Goto(Writer, "build")
    /\ UNCHANGED <<page, heap, switchConfig, reg, tmp, clock, lookup,
                   loadedAt, raced, silent, killedAt, clobbered>>

(* switchconf_build, once the file has parsed: OpenItemTag and the first   *)
(* allocation overwrite what the back segment held.                        *)
OpenItemTag ==
    /\ pc[Writer] = "fetch"
    /\ builds' = builds + 1
    /\ seg' = [seg EXCEPT ![page.back] =
                   [gen |-> builds + 1, state |-> "building", items |-> @.items]]
    /\ lap' = [r \in Readers |-> IF lap[r] = 1 THEN 2 ELSE lap[r]]
    /\ Goto(Writer, "build")
    /\ UNCHANGED <<page, heap, switchConfig, reg, tmp, clock, lookup,
                   loadedAt, raced, silent, killedAt, clobbered>>

CloseItemTag ==
    /\ pc[Writer] = "build"
    /\ seg' = [seg EXCEPT ![page.back] =
                   [gen |-> @.gen, state |-> "complete", items |-> @.items + 1]]
    /\ Goto(Writer, "swapback")
    /\ UNCHANGED <<page, heap, switchConfig, reg, tmp, clock, builds, lookup,
                   loadedAt, raced, silent, killedAt, lap, clobbered>>

\* Mutant: the back index is not exchanged.
SwapBack_Lost ==
    /\ pc[Writer] = "swapback"
    /\ tmp' = page.back
    /\ Goto(Writer, "swapfront")
    /\ UNCHANGED <<page, seg, heap, switchConfig, reg, clock, builds, lookup,
                   loadedAt, raced, silent, killedAt, lap, clobbered>>

(* shmdata_PublishBackSeg, store by store: the timestamp comes last.       *)
SwapBack ==
    /\ pc[Writer] = "swapback"
    /\ tmp' = page.back
    /\ page' = [page EXCEPT !.back = page.front]
    /\ Goto(Writer, "swapfront")
    /\ UNCHANGED <<seg, heap, switchConfig, reg, clock, builds, lookup,
                   loadedAt, raced, silent, killedAt, lap, clobbered>>

\* Mutant: the index is advanced instead of exchanged.
SwapFront_Advance ==
    /\ pc[Writer] = "swapfront"
    /\ page' = [page EXCEPT !.front = @ + 1, !.flipcount = @ + 1]
    /\ Goto(Writer, "stamp")
    /\ UNCHANGED <<seg, heap, switchConfig, reg, tmp, clock, builds, lookup,
                   loadedAt, raced, silent, killedAt, lap, clobbered>>

SwapFront ==
    /\ pc[Writer] = "swapfront"
    /\ page' = [front |-> tmp, back |-> page.back, timestamp |-> page.timestamp,
                 flipcount |-> page.flipcount + 1]
    /\ Goto(Writer, "stamp")
    /\ UNCHANGED <<seg, heap, switchConfig, reg, tmp, clock, builds, lookup,
                   loadedAt, raced, silent, killedAt, lap, clobbered>>

PublishEnds == lap' = [r \in Readers |-> IF lap[r] = 0 THEN 1 ELSE lap[r]]

StampPage ==
    /\ pc[Writer] = "stamp"
    /\ page' = [page EXCEPT !.timestamp = clock]
    /\ silent' = (page.timestamp = clock)
    /\ PublishEnds
    /\ Goto(Writer, "sync")
    /\ UNCHANGED <<seg, heap, switchConfig, reg, tmp, clock, builds, lookup,
                   loadedAt, raced, killedAt, clobbered>>

(* The messaging process is killed (or faults while it builds): whatever   *)
(* it had stored stays in shared memory.                                   *)
WriterDies ==
    /\ CanDie /\ ~Threaded
    /\ pc[Writer] \notin {"down", "dead"}
    /\ Goto(Writer, "dead")
    /\ killedAt' = killedAt \cup ({pc[Writer]} \cap {"swapfront", "stamp"})
    /\ IF pc[Writer] = "stamp"
       THEN silent' = TRUE /\ PublishEnds
       ELSE UNCHANGED <<silent, lap>>
    /\ UNCHANGED <<page, seg, heap, switchConfig, reg, tmp, clock, builds,
                   lookup, loadedAt, raced, clobbered>>

(* cm_messageProcessRestartCallback, APR_OC_REASON_DEATH: a new worker is  *)
(* forked off the application and inherits its shared_heap as it is then.  *)
RestartWriter ==
    /\ pc[Writer] = "dead"
    /\ heap' = [heap EXCEPT !["msg"] = heap["app"]]
    /\ loadedAt' = [loadedAt EXCEPT !["msg"] = loadedAt["app"]]
    /\ raced' = [raced EXCEPT !["msg"] = raced["app"]]
    /\ Goto(Writer, "idle")
    /\ UNCHANGED <<page, seg, switchConfig, reg, tmp, clock, builds, lookup,
                   silent, killedAt, lap, clobbered>>

-----------------------------------------------------------------------------
(* shmdata_syncself, load by load, run by the readers in isSwitchEnabled   *)
(* and by the worker after its publish.                                    *)

AfterSync(t) == IF t = Writer THEN "idle" ELSE "module"

SyncCheck(t) ==
    /\ pc[t] = "sync"
    /\ Goto(t, IF heap[HeapOf(t)].timestamp # page.timestamp
               THEN "lock" ELSE AfterSync(t))
    /\ UNCHANGED <<page, seg, heap, switchConfig, reg, tmp, clock, builds,
                   lookup, loadedAt, raced, silent, killedAt, lap, clobbered>>

(* shmutex_isRefreshing and shmutex_getLock.                               *)
GetLock(t) ==
    /\ pc[t] = "lock"
    /\ ~heap[HeapOf(t)].refreshing
    /\ heap' = [heap EXCEPT ![HeapOf(t)].refreshing = TRUE]
    /\ Goto(t, "segment")
    /\ UNCHANGED <<page, seg, switchConfig, reg, tmp, clock, builds, lookup,
                   loadedAt, raced, silent, killedAt, lap, clobbered>>

(* Another thread of the process is refreshing: carry on with what there is. *)
LockBusy(t) ==
    /\ pc[t] = "lock"
    /\ heap[HeapOf(t)].refreshing
    /\ lookup' = [r \in Readers |-> [lookup[r] EXCEPT !.joined = @ \/ r = t]]
    /\ Goto(t, AfterSync(t))
    /\ UNCHANGED <<page, seg, heap, switchConfig, reg, tmp, clock, builds,
                   loadedAt, raced, silent, killedAt, lap, clobbered>>

LoadSegment(t) ==
    /\ pc[t] = "segment"
    /\ heap' = [heap EXCEPT ![HeapOf(t)].segment = page.front]
    /\ loadedAt' = [loadedAt EXCEPT ![HeapOf(t)] = page.flipcount]
    /\ Goto(t, "timestamp")
    /\ UNCHANGED <<page, seg, switchConfig, reg, tmp, clock, builds, lookup,
                   raced, silent, killedAt, lap, clobbered>>

\* Mutant: the flip is dated by the clock instead of by the page.
LoadTimestamp_Clock(t) ==
    /\ pc[t] = "timestamp"
    /\ heap' = [heap EXCEPT ![HeapOf(t)].timestamp = clock]
    /\ raced' = [raced EXCEPT ![HeapOf(t)] = loadedAt[HeapOf(t)] # page.flipcount]
    /\ Goto(t, "callback")
    /\ UNCHANGED <<page, seg, switchConfig, reg, tmp, clock, builds, lookup,
                   loadedAt, silent, killedAt, lap, clobbered>>

LoadTimestamp(t) ==
    /\ pc[t] = "timestamp"
    /\ heap' = [heap EXCEPT ![HeapOf(t)].timestamp = page.timestamp]
    /\ raced' = [raced EXCEPT ![HeapOf(t)] = loadedAt[HeapOf(t)] # page.flipcount]
    /\ Goto(t, "callback")
    /\ UNCHANGED <<page, seg, switchConfig, reg, tmp, clock, builds, lookup,
                   loadedAt, silent, killedAt, lap, clobbered>>

(* cc_onSheapPageFlip: shmdata_getItem in the local segment; a segment     *)
(* without the item leaves the config hash as it was.                      *)
OnSheapPageFlip(t) ==
    LET h == HeapOf(t)
        s == heap[h].segment
    IN  /\ pc[t] = "callback"
        /\ heap' = IF seg[s].items > 0
                   THEN [heap EXCEPT ![h].config = s]
                   ELSE heap
        /\ Goto(t, "unlock")
        /\ UNCHANGED <<page, seg, switchConfig, reg, tmp, clock, builds, lookup,
                       loadedAt, raced, silent, killedAt, lap, clobbered>>

\* Mutant: isSwitchEnabled does not rebind after a flip.
Unlock_NoRebind(t) ==
    /\ pc[t] = "unlock"
    /\ heap' = [heap EXCEPT ![HeapOf(t)].refreshing = FALSE]
    /\ Goto(t, AfterSync(t))
    /\ UNCHANGED <<page, seg, switchConfig, reg, tmp, clock, builds, lookup,
                   loadedAt, raced, silent, killedAt, lap, clobbered>>

(* Only isSwitchEnabled follows a flip with libswitch_postRefreshBind; the *)
(* worker goes back to its loop.                                           *)
Unlock(t) ==
    /\ pc[t] = "unlock"
    /\ heap' = [heap EXCEPT ![HeapOf(t)].refreshing = FALSE]
    /\ Goto(t, IF t = Writer THEN "idle" ELSE "bindload")
    /\ UNCHANGED <<page, seg, switchConfig, reg, tmp, clock, builds, lookup,
                   loadedAt, raced, silent, killedAt, lap, clobbered>>

Sync(t) == \/ SyncCheck(t) \/ GetLock(t) \/ LockBusy(t) \/ LoadSegment(t)
           \/ LoadTimestamp(t) \/ OnSheapPageFlip(t) \/ Unlock(t)

-----------------------------------------------------------------------------
(* libswitch_postRefreshBind: load from the config hash, store in gConfig. *)
BindLoad(t) ==
    /\ pc[t] = "bindload"
    /\ reg' = [reg EXCEPT ![t] = heap["app"].config]
    /\ Goto(t, "bindstore")
    /\ UNCHANGED <<page, seg, heap, switchConfig, tmp, clock, builds, lookup,
                   loadedAt, raced, silent, killedAt, lap, clobbered>>

BindStore(t) ==
    /\ pc[t] = "bindstore"
    /\ switchConfig' = reg[t]
    /\ clobbered' = (reg[t] # heap["app"].config)
    /\ Goto(t, IF t = Starter THEN "done" ELSE "module")
    /\ UNCHANGED <<page, seg, heap, reg, tmp, clock, builds, lookup,
                   loadedAt, raced, silent, killedAt, lap>>

Bind(t) == BindLoad(t) \/ BindStore(t)

-----------------------------------------------------------------------------
(* libswitch_isSwitchEnabled.                                              *)

Call(r) ==
    /\ pc[r] = "idle"
    /\ Booted
    /\ lap' = [lap EXCEPT ![r] = 0]
    /\ lookup' = [lookup EXCEPT ![r] =
          [ptr |-> Nil, gen |-> 0, torn |-> FALSE, behind |-> FALSE,
           joined |-> FALSE, from |-> InForce, answer |-> @.answer]]
    /\ Goto(r, "sync")
    /\ UNCHANGED <<page, seg, heap, switchConfig, reg, tmp, clock, builds,
                   loadedAt, raced, silent, killedAt, clobbered>>

(* No configuration is bound: the answer is 0.                             *)
NothingBound(r) ==
    /\ pc[r] = "module"
    /\ switchConfig = Nil
    /\ Goto(r, "idle")
    /\ UNCHANGED <<page, seg, heap, switchConfig, reg, tmp, clock, builds,
                   lookup, loadedAt, raced, silent, killedAt, lap, clobbered>>

(* shmapr_hash_get(modules): the module found lies in the bound segment.   *)
GetModule(r) ==
    /\ pc[r] = "module"
    /\ switchConfig # Nil
    /\ lookup' = [lookup EXCEPT ![r] =
          [ptr |-> switchConfig,
           gen |-> seg[switchConfig].gen,
           torn |-> seg[switchConfig].state # "complete",
           behind |-> lap[r] = 0 /\ switchConfig # page.front /\ pc[Writer] # "stamp",
           joined |-> FALSE,
           from |-> @.from,
           answer |-> @.answer]]
    /\ Goto(r, "element")
    /\ UNCHANGED <<page, seg, heap, switchConfig, reg, tmp, clock, builds,
                   loadedAt, raced, silent, killedAt, lap, clobbered>>

(* shmapr_hash_get(params) and the comparison read the segment again.      *)
GetElement(r) ==
    LET l == lookup[r]
        s == seg[l.ptr]
        same == ~l.torn /\ s.state = "complete" /\ s.gen = l.gen
        vouched == same /\ ~l.behind /\ lap[r] < 2
    IN  /\ pc[r] = "element"
        /\ lookup' = [lookup EXCEPT ![r] =
              [ptr |-> l.ptr, gen |-> l.gen, from |-> l.from, torn |-> ~same,
               behind |-> l.behind, joined |-> FALSE,
               answer |-> IF vouched THEN l.gen ELSE l.answer]]
        /\ Goto(r, "idle")
        /\ UNCHANGED <<page, seg, heap, switchConfig, reg, tmp, clock, builds,
                       loadedAt, raced, silent, killedAt, lap, clobbered>>

-----------------------------------------------------------------------------
(* time(NULL) has a granularity of one second: any number of steps may     *)
(* fall between two ticks.                                                 *)
Tick ==
    /\ clock < MaxClock
    /\ clock' = clock + 1
    /\ UNCHANGED <<page, seg, heap, switchConfig, pc, reg, tmp, builds, lookup,
                   loadedAt, raced, silent, killedAt, lap, clobbered>>

Publish == SwapBack \/ SwapFront \/ StampPage

WriterStep == \/ BeginTagging \/ RefreshFails \/ OpenItemTag \/ CloseItemTag
              \/ Publish \/ Sync(Writer)

ReaderStep(r) == \/ Call(r) \/ Sync(r) \/ Bind(r)
                 \/ NothingBound(r) \/ GetModule(r) \/ GetElement(r)

Next ==
    \/ Boot
    \/ Bind(Starter)
    \/ WriterStep
    \/ WriterDies
    \/ RestartWriter
    \/ \E r \in Readers : ReaderStep(r)
    \/ Tick

Spec == Init /\ [][Next]_vars

(* The scheduler runs every thread that can take a step; the application   *)
(* keeps asking for switches.  Nothing obliges the operator to publish:    *)
(* BeginTagging is not among the fair steps, nor is the clock.             *)
Fairness ==
    /\ WF_vars(Boot)
    /\ WF_vars(Bind(Starter))
    /\ WF_vars(OpenItemTag)
    /\ WF_vars(CloseItemTag \/ Publish \/ Sync(Writer))
    /\ \A r \in Readers : WF_vars(ReaderStep(r))

FairSpec == Spec /\ Fairness

-----------------------------------------------------------------------------
(* Properties.                                                             *)

Pointers == Segments \cup {Nil}

PageType == [front : Segments, back : Segments, timestamp : Int, flipcount : Nat]
SegmentType == [gen : Nat, state : {"blank", "building", "complete"}, items : Nat]
HeapType == [timestamp : Int, segment : Pointers, refreshing : BOOLEAN,
             config : Pointers]
LookupType == [ptr : Pointers, gen : Nat, torn : BOOLEAN, behind : BOOLEAN,
               joined : BOOLEAN, from : Nat, answer : Nat]

TypeOK ==
    /\ page \in PageType
    /\ seg \in [Segments -> SegmentType]
    /\ heap \in [Heaps -> HeapType]
    /\ switchConfig \in Pointers
    /\ pc \in [Threads -> Labels]
    /\ reg \in [Threads -> Pointers]
    /\ tmp \in Segments
    /\ clock \in Nat
    /\ builds \in Nat
    /\ lookup \in [Readers -> LookupType]
    /\ loadedAt \in [Heaps -> Nat]
    /\ raced \in [Heaps -> BOOLEAN]
    /\ silent \in BOOLEAN
    /\ killedAt \subseteq {"swapfront", "stamp"}
    /\ lap \in [Readers -> {0, 1, 2}]
    /\ clobbered \in BOOLEAN

\* The worker was killed between the two stores that exchange the segments.
HalfSwapped == "swapfront" \in killedAt

(* The page has two different segments to work with, except between the    *)
(* two stores of shmdata_PublishBackSeg that exchange them: a worker       *)
(* killed right there leaves the page single-buffered for good.            *)
DoubleBuffered ==
    page.front # page.back \/ pc[Writer] = "swapfront" \/ HalfSwapped

(* Whatever the worker does, fails at or dies in, the front segment that   *)
(* flips lead to holds a whole configuration and its item; it is empty     *)
(* only if the very first build failed (cc_initializeConfigCore publishes  *)
(* all the same).  A failed refresh never reaches the front segment.       *)
FrontServable ==
    Booted =>
        \/ seg[page.front].state = "complete" /\ seg[page.front].items > 0
        \/ seg[page.front].state = "blank" /\ page.flipcount = 1
        \/ HalfSwapped

(* A process whose timestamp equals the page's (so that shmdata_syncself   *)
(* does nothing) is on the front segment, with two exceptions: a publish   *)
(* fell between its loads of frontsegment and timestamp, or the last flip  *)
(* left the timestamp as it was (two publishes within one second, or a     *)
(* worker killed before it stamped the page).                              *)
HeapCurrent ==
    \A h \in Heaps :
        Booted /\ heap[h].timestamp = page.timestamp /\ pc[Writer] # "stamp"
            => heap[h].segment = page.front \/ raced[h] \/ silent

(* A lookup mixes two configurations, or reads one under construction,     *)
(* only if during that one call the worker ended a publish and began to    *)
(* write the next build, or if the bound pointer was behind the front      *)
(* segment when the lookup read it.                                        *)
TornOnlyIfLapped ==
    \A r \in Readers :
        lookup[r].torn => lap[r] = 2 \/ lookup[r].behind \/ HalfSwapped

Following(t) == pc[t] \in {"segment", "timestamp", "callback", "unlock",
                           "bindload", "bindstore"}

(* In process mode gConfig->switchConfig points into the front segment     *)
(* when a call is about to use it, unless a publish ended during the call, *)
(* a thread is on its way to rebind, the flip was hidden (see HeapCurrent) *)
(* or a slower thread stored an outdated pointer over a newer one.  A call *)
(* that finds another thread refreshing does not wait: if that thread had  *)
(* read the date before the last publish, the call misses the publish.     *)
PointerCurrent ==
    \A r \in Readers :
        pc[r] = "module" /\ lap[r] = 0 /\ pc[Writer] # "stamp"
            => \/ switchConfig \in {Nil, page.front}
               \/ \E t \in Threads \ {Writer} : Following(t)
               \/ raced["app"] \/ silent \/ clobbered \/ HalfSwapped
               \/ lookup[r].joined /\ heap["app"].timestamp # page.timestamp

(* A call that was not overtaken and found a current pointer is answered   *)
(* out of a configuration that was in force at some moment of the call: no *)
(* older than the one in force when it began, never one still unpublished. *)
AnswerInForce ==
    \A r \in Readers :
        LET l == lookup[r] IN
        pc[r] = "idle" /\ l.ptr # Nil /\ ~l.torn /\ ~l.behind /\ lap[r] < 2
            => l.gen \in l.from .. seg[page.front].gen \/ HalfSwapped

(* Such answers never go back to an older configuration, for the single    *)
(* thread node asks from.  (With several threads they may.)                *)
AnswersNeverGoBack ==
    [][\A r \in Readers :
          lookup'[r].answer >= lookup[r].answer \/ clobbered \/ HalfSwapped]_vars

(* The shared heap implements the service the application is promised.     *)
Service == INSTANCE SwitchService WITH
               inForce <- InForce,
               coming <- seg[page.front].gen,
               asked <- [r \in Readers |-> lookup[r].from],
               answer <- [r \in Readers |-> lookup[r].answer]

ImplementsService == Service!Spec

(* Every thread that keeps asking catches up with what is in force, again  *)
(* and again, however often a configuration is published: its answers are  *)
(* only ever behind for good if the last flip was hidden from its process. *)
PublishReaches ==
    \A r \in Readers :
        []<>(lookup[r].answer >= InForce
             \/ raced["app"] \/ silent \/ clobbered \/ HalfSwapped)

-----------------------------------------------------------------------------
(* The inductive invariant behind the safety properties: SharedHeap_proofs *)
(* shows that every step keeps it, whatever the constants.                 *)

\* Before Boot nothing runs and nothing is written.
InvBoot ==
    /\ Booted <=> pc[Writer] # "down"
    /\ ~Booted => /\ \A s \in Segments : seg[s].state = "blank" /\ seg[s].gen = 0
                  /\ \A r \in Readers : pc[r] = "idle" /\ lap[r] = 0

\* The two indices, through the exchange.
InvBuffers ==
    \/ HalfSwapped
    \/ pc[Writer] = "swapfront" /\ page.back = page.front /\ tmp # page.front
    \/ pc[Writer] # "swapfront" /\ page.front # page.back

\* The segment being built or about to be published: back, then tmp.
InvBuild ==
    /\ pc[Writer] = "build" => seg[page.back].state = "building"
    /\ pc[Writer] = "swapback" => seg[page.back].state = "complete" /\ seg[page.back].items > 0
    /\ pc[Writer] = "swapfront" => seg[tmp].state = "complete" /\ seg[tmp].items > 0
    /\ pc[Writer] = "stamp" => HalfSwapped \/ seg[page.back].state # "building"

\* Build numbers grow, and the newest is published last.
InvGen ==
    /\ \A s \in Segments : seg[s].gen <= builds
    /\ HalfSwapped
       \/ /\ pc[Writer] \in {"build", "swapback"} => seg[page.front].gen < seg[page.back].gen
          /\ pc[Writer] = "swapfront" => seg[page.front].gen < seg[tmp].gen
          /\ pc[Writer] = "stamp" => seg[page.back].gen < seg[page.front].gen

\* No pointer leads to a segment nothing was ever written to.
InvPointers ==
    /\ \A s \in Segments : seg[s].items > 0 => seg[s].state # "blank"
    /\ switchConfig # Nil => seg[switchConfig].state # "blank"
    /\ \A h \in Heaps : heap[h].config # Nil => seg[heap[h].config].state # "blank"
    /\ \A t \in Threads : reg[t] # Nil => seg[reg[t]].state # "blank"

\* Dates only grow, and a process that saw the last flip is on the front.
InvStamps ==
    /\ page.timestamp <= clock
    /\ \A h \in Heaps : /\ heap[h].timestamp <= page.timestamp
                        /\ loadedAt[h] <= page.flipcount
                        /\ Booted /\ loadedAt[h] = page.flipcount
                               => heap[h].segment = page.front

\* Between the end of a publish and the next build nothing is written, and
\* both segments hold configurations that were in force since the call began.
InvLap ==
    \A r \in Readers :
        /\ HalfSwapped \/ lookup[r].from <= InForce
        /\ lap[r] = 1 =>
            /\ pc[Writer] \notin {"build", "swapback", "swapfront", "stamp"}
            /\ HalfSwapped \/ \A s \in Segments :
                  /\ seg[s].state # "building"
                  /\ lookup[r].from <= seg[s].gen
                  /\ seg[s].gen <= seg[page.front].gen

\* What a lookup found at its first read still stands at its second.
InvLookup ==
    \A r \in Readers :
        LET l == lookup[r] IN
        /\ pc[r] = "element" => l.ptr # Nil
        /\ pc[r] \notin {"idle", "element"} => l.ptr = Nil /\ ~l.torn
        /\ pc[r] = "element" /\ ~l.torn /\ ~l.behind /\ lap[r] < 2 /\ ~HalfSwapped
            => /\ seg[l.ptr].state = "complete"
               /\ seg[l.ptr].gen = l.gen
               /\ l.from <= l.gen /\ l.gen <= seg[page.front].gen
               /\ lap[r] = 0 => l.ptr = page.front \/ pc[Writer] = "stamp"

\* What follows is for process mode, where only the application works on its
\* shared_heap.

\* A thread of the application between the named steps.
At(labels) == \E t \in Threads \ {Writer} : pc[t] \in labels

\* The last flip is not to be seen by the application.
Hidden ==
    \/ heap["app"].timestamp # page.timestamp
    \/ raced["app"] \/ silent \/ pc[Writer] = "stamp" \/ HalfSwapped

\* What the configuration hash points into: the segment loaded last, unless a
\* flip is being followed or none can be seen.
InvConfig ==
    /\ Booted => page.flipcount >= 1 /\ heap["app"].segment \in Segments
    /\ Booted /\ page.flipcount = 1 =>
          heap["app"].segment = page.front /\ heap["app"].config \in {Nil, page.front}
    /\ Booted => \/ heap["app"].config \in {Nil, heap["app"].segment} /\ page.flipcount = 1
                 \/ heap["app"].config = heap["app"].segment
                 \/ At({"timestamp", "callback"})
                 \/ Hidden

\* gConfig->switchConfig follows it, unless a thread is about to rebind.
InvBound ==
    switchConfig = heap["app"].config \/ clobbered \/ At({"unlock", "bindload", "bindstore"})

\* A call that did not join another's refresh has seen the last publish.
InvSeen ==
    \A r \in Readers :
        (/\ pc[r] \in {"callback", "unlock", "bindload", "bindstore", "module"}
         /\ lap[r] = 0 /\ ~lookup[r].joined)
            => heap["app"].timestamp = page.timestamp

\* With one asking thread: its answers are no newer than the configuration it
\* is about to bind or already has bound.
NotBelow(r, s) == s # Nil => lookup[r].answer <= seg[s].gen

InvForward ==
    \A r \in Readers :
        LET config == heap["app"].config IN
        /\ NotBelow(r, page.front)
        /\ clobbered \/ NotBelow(r, config)
        /\ pc[r] \in {"timestamp", "callback"} => NotBelow(r, heap["app"].segment)
        /\ pc[r] \in {"unlock", "bindload", "bindstore"} => NotBelow(r, config)
        /\ pc[r] = "bindstore" => reg[r] = config
        /\ pc[r] = "element" => lookup[r].ptr = config \/ clobbered
        /\ \/ switchConfig \in {Nil, config} \/ clobbered
           \/ pc[r] \in {"unlock", "bindload", "bindstore"}
        /\ clobbered => pc[Starter] = "done"

=============================================================================
