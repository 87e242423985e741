# TLA+ models and proofs for libswitch

libswitch answers one question for an application: is a switch on? The
switches are written in an XML document in a central repository, downloaded by
a messaging worker beside the application, built into shared memory and looked
up there by the application's threads. The modules here model that path from
the document to the answer, TLC checks them on small instances, and the TLA+
proof system proves the safety of all of it for every instance: any documents,
threads, files, bytes, names and messages. Paths and line numbers are those of
the repository (`src/` below is its source directory).

Contents: [the system](#the-system), [the modules](#the-modules),
[the runs](#the-runs), [fairness](#fairness), [what is proved](#what-is-proved),
[disagreements](#disagreements-between-the-code-and-its-documentation),
[what is not modelled](#what-is-not-modelled), [plan](#plan).

## The system

### Processes and threads

| Actor | Runs | Touches |
|---|---|---|
| application threads ("readers") | `libswitch_isSwitchEnabled`; one in node, any number in a C host | the application's `shared_heap`, `gConfig`, the front segment |
| starter | `libswitch_initializeLibSwitch` (in node, a thread of the pool) | everything, before anybody else may |
| messaging worker | `cm_internalMessagingLoop`, a forked process, or a thread with `<threaded>` | the back segment, the page, its own copy of the `shared_heap` (in thread mode: the application's), the local files, the realm database, the broker |
| broker, repository, operator | outside | documents, frames, `sc` commands |

### Components

| Component | State it keeps | Operations | Talks to | Hard behaviour |
|---|---|---|---|---|
| Shared heap (`shm_core/shm_data.c`, `shm_mutex.c`) | page: front and back index, date, flip count; two segments; per process a date, a segment and a refresh flag | tag, allocate, publish, follow a flip | every reader and the worker, with no lock between processes | word-by-word interleaving of a swap with the loads of a flip; death between two stores; dates of one second |
| Configuration core (`config_core2.c`, `switch_config_core.c`) | globals, services, the hash of configurations by service | initialise, refresh, sync, handle a message | heap, documents, messaging, database | failure of one of several steps, no rollback |
| Switch lookup (`libswitch_conf.c`) | `gConfig`, its `switchConfig` pointer | initialise, rebind, isSwitchEnabled | heap, core | a pointer fetched in one step and stored in another; two threads rebinding |
| Pull loop (`config_messaging2.c`, `config_bindings2.c`) | date of the last refresh; `.part` file and local copy | look for a date, download, fall back | repository, file system, core | date and text come from two requests; restarts forget dates; a document that does not parse |
| Realm messaging (`config_messaging2.c`, `config_messaging_parsing2.c`, `stomp_utils.c`, `send_command.c`) | connection and subscription | connect, subscribe, PING, REFRESH and answers | broker, core, database | messages sent while nobody is subscribed; failures between connect and PING; batch ids that coincide |
| STOMP client (`stomp-utils/stomp.c`) | socket, list of blocks | read a frame, write a frame | broker | timeouts in the middle of a frame; partial writes; resets |
| Realm database (`db_core2.c`) | a row per host: last batch, last refresh; parameters; errors | register a message, log an error | messaging | a row must never claim what did not happen; a parameter must be its host's |
| Switch documents (`switch_config_xml.c`, `xml_core.c`, `switch_config.c`) | path of open elements, text gathered, bundle of two pointers; lines of a list file | parse, build | expat, heap, HTTP client | handlers that share pointers; missing attributes; values that are the word 0; lines that are cut |
| Hash tables and arrays (`shm_core/shm_apr.c`) | chains, elements | set, delete, walk, push, grow, order, search | documents, lookup | growth at a limit no test reaches; collisions |
| Node binding (`switch_bindings.cpp`), initialisation (`libswitch_conf.c`, `config_core2.c`) | `gConfig`, whether initialised | initialize and its callback, isSwitchEnabled | all of the above | calls before, during and twice over an initialisation; each of its steps failing |
| HTTP client (`http-utils/http_client.c`) | one request: status, body, headers, upload | GET, HEAD, PUT, POST, DELETE | libcurl; pull loop, documents | answers that break off; bodies in pieces |
| Logging (`log_core.c`) | `rLogFile` | open, close | core, before and after the fork | handles inherited and leaked |
| XML and string helpers, SQLite | - | - | - | left out; see below |

What makes each of them correct is what its properties say: a flip leads to a
whole configuration, readers end up on the newest one, a lookup is answered out
of one configuration that was in force while it ran; a date is acted upon at
most once and a due document is served; a completion in a realm database is
true; a buffer is one whole frame; an answer is what the document says.

`PROJECT.json` lists the hazards line by line, with the properties that cover
each of them.

## The modules

| Module | Models | Composed with |
|---|---|---|
| `SharedHeap` | publishing and following a flip, access by access; lookups of any number of threads; the worker's death and restart | implements `SwitchService` |
| `SwitchService` | what the application is promised, with no shared memory in it | |
| `HeapSegment` | the bytes and items of the two segments: allocation, tagging, running out of room, death at any step | EXTENDS `HeapFile` |
| `HeapFile` | making the page in its map file, beside other applications with the same path | |
| `PullRefresh` | the timer loop, the two requests, `.part`, local copy, restarts | its one step `PublishText` stands for what `SharedHeap` details, its request for what `HttpClient` details |
| `HttpClient` | one request of each function of the client, around libcurl's callbacks | |
| `ListFiles` | a list file from the repository to the answer of a lookup | EXTENDS `HttpClient` and `SwitchArrays` |
| `StompFrames` | the byte stream of one connection | delivers the frames `RealmMessaging` passes around |
| `RealmMessaging` | the workers of a realm on one topic and the operator | EXTENDS `RealmDatabase`; its step `Refresh` stands for a round of `PullRefresh` |
| `RealmDatabase` | what registering a message writes into the tables of a node | |
| `SwitchDocument` | from the events of expat to the answer of a lookup | its tables are `SwitchMap`s, its arrays those of `SwitchArrays` |
| `SwitchHash` | the hash table of the heap | implements `SwitchMap`; proved in `SwitchDocument_proofs` |
| `SwitchMap` | a map from names to values | |
| `SwitchArrays` | growing, ordering and searching an array | |
| `ConfigCoreFile` | what reading `config-core.xml` leaves | |
| `LibSwitchLifecycle` | initialising, and looking up before, while and after | EXTENDS `ConfigCoreFile`; heap and flip are one step each, detailed in `SharedHeap` |
| `SharedHeap_proofs`, `HeapSegment_proofs`, `PullRefresh_proofs`, `ListFiles_proofs`, `SwitchDocument_proofs`, `RealmMessaging_proofs`, `StompFrames_proofs`, `LibSwitchLifecycle_proofs` | the theorems | each EXTENDS the module it is about |

Each `MC` module instantiates its specification for TLC. Definitions whose
names end in `_Something` and which a comment calls a mutant (or which precede
the definition they vary) are plausible mistakes in the code; no specification
uses them. For every property of every passing run, one of them breaks it.

### SharedHeap

`page` is the `shared_page` in shared memory, `seg` the two segments, `heap`
the `shared_heap` of the application ("app") and of a forked worker ("msg").
`HeapOf` says which one a thread works on: in thread mode there is one.
`switchConfig` is `gConfig->switchConfig`, `reg` and `tmp` the locals that live
across a step.

One action is one access to shared memory. `shmdata_PublishBackSeg` is
`SwapBack`, `SwapFront`, `StampPage`; `shmdata_syncself` is `SyncCheck`,
`GetLock` or `LockBusy`, `LoadSegment`, `LoadTimestamp`, `OnSheapPageFlip`,
`Unlock`; `libswitch_postRefreshBind` is `BindLoad` and `BindStore`; a lookup
reads the segment twice, in `GetModule` and `GetElement`. A refresh is
`BeginTagging`, `OpenItemTag`, `CloseItemTag` and a publish, or it ends in
`RefreshFails`. `Boot` is one step because no other thread has a pointer to the
page before it ends.

A configuration is the number of the build that wrote it; its bytes are
`HeapSegment`'s. Stores are seen in program order (the code has no barriers; on
a machine that reorders stores, or with a compiler that does, more could go
wrong than is modelled).

Some variables only record history, and no guard reads them: that a flip fell
between the two loads of a process (`raced`), that a flip left the date as it
was (`silent`), where the worker was killed (`killedAt`), how far a call was
overtaken (`lap`), that an outdated pointer was stored over a newer one
(`clobbered`). They name, in the properties, the exact circumstances in which
the code does not keep the promise: the properties say that there are no others.

### HeapSegment and HeapFile

`cursor` counts from `page->data`; `Shpalloc` is `shmdata_shpalloc` together with
what the caller writes there, `OutOfSpace` the null pointer it returns, after
which only a death is possible. `OpenItemTag` and `CloseItemTag` write the item
table that `shmdata_getItem` (`GetItem`) searches. The application builds first,
its messaging process from then on (`booted`); the first build goes on past a
service that fails, a refresh ends there. Nothing calls `shmdata_rollback`: a
build that failed is overwritten by the next one. `blocks`, `asked` and `served`
record what was allocated, asked for and published. More than sixteen services
would run over the item table; `SegmentAssumption` leaves that out.

`HeapFile` is `shmdata_getNewSharedPage` call by call: create, attach, destroy,
create, remove, create, over a file that is missing, no page at all, or the page
of an application that is alive or gone; a create that the system refuses may
leave a file that is no page. `crossed` and `refused` name the two excuses a
failure may have: two applications that make their pages over one path at the
same time have no promise.

### PullRefresh

`remote` is the document in the repository, `local` and `part` the files,
`last` is `lastAutoRefreshTimestamp`, `now` the clock reading of
`cm_canAutoRefreshNow`. An answer may break off after its status line, which is
all the code looks at (`part.cut`); an empty body keeps the old copy, and a
`.part` file that cannot be opened ends the worker, or the application that
starts (`OpenFails`). A round is `ReadClock`, one of `CheckFails`, `NotDue`
and `BeginRefresh`, then `OpenPart`, `WritePart`, `RenamePart` (or `FallBack`
at any of them), `ParseText` or `ParseFails`, `PublishText`, `MarkDone`,
`WakeUp`. The first load of an application runs through the same steps with
`booting`. The death of the worker leaves files and the page; the restart of the
application, which may come at any step, while it starts too, leaves only files.

Nothing in the repository calls APR's maintenance of other children, which
would report the death of a worker: restarts are modelled as possible, because
a C host may run it, and no property relies on one.

### StompFrames

A byte is the pair of its frame and its place. `RecvByte`, `RecvNewline`,
`RecvOther` are the two `recv` calls, `RecvQuiet` and `RecvStall` a timeout
before and in the middle of a frame (after the NUL also when nothing is on its
way, for a frame that was sent without its newline), `RecvEof` and `RecvError`
the end of the stream and any other error of a connection, which the system
reports once and follows by the end of the stream. `stomp_connect` may return an
error and leave a socket all the same: `Connect` then leaves a peer of "none", on
which a read has an error without an end; `ReadReturns` leaves it out, and
`RealmMessaging` shows what becomes of the worker (`ConnectHangs`). A send is
taken by the system even when the broker has gone, and only then never arrives. The loop declares a second `rc` inside itself and
compares the byte after the NUL even when it could not be read; the byte is then
whatever the stack holds, so `RecvError` may return the frame or drop it.

`stomp_marshallMessage` ends a frame with `strcat(buf,"\0\n")`, which appends
nothing, and `stomp_write` sends two bytes more than the string has: what goes
out after the text is the NUL and the byte behind it in the zeroed buffer.
Frames of the client are therefore of a fixed length here, and their last bytes
are not told apart.

### RealmMessaging

`link` is the broker's view of a connection and `socket` the client's; a
connection the broker dropped is still a socket until a read or a write finds
out. `Delivered` is the topic: a message goes to whoever is subscribed, the
sender included. `Subscribe`, `Announce`, `ReadPing`, `ReadRefresh`,
`ReadOther`, `ReadNothing` and `ReadEof` are the branches of the loop, `Refresh`
and `Answer` those of `cc_handleMessageRecieved`. A message damaged on the wire
is read as nothing; one that is whole parses, for only the repository's own
functions write them. When the broker drops a connection the node still reads as
many messages as its socket holds (`Drop`). A `stomp_connect` that fails before
it is connected may leave a socket, on which the worker reads for ever
(`ConnectHangs`); the failures after that leave one that works, as `Connect` does.

A message is numbered by the second it was made in (`config_messaging2.c:71-78`):
PING, PONG, ALIVE and REFRESH alike take any of `Seconds`, so that two of them
may have one number. A PING, or its PONG, with the number of a REFRESH makes the
row of its node show that REFRESH's batch: `pinged` keeps those numbers, and
`RealmTellsTruth` allows for them by name. A `Refresh` may find the repository
down, its answer cut short, or a document that does not parse.

A host whose `config-core.xml` names no namespace sends messages without a
header, and a node that is in no namespace compares one with a null pointer:
`ReadFatal` is the end of the worker that reads such a message, which may be its
own PING. `sc` and an application that starts on another host are `Console`.

`realm` is the database of every node: `remote_nodes` (`rows`), `node_meta`
(`meta`) and the number of `error_logs`. `RegisterMessage` follows
`dbcore_registerMessage`: it looks for the host's row, inserts or updates it,
stores the parameters and then the state of a refresh. The id of a row that was
just inserted is not read back, so the parameters of a host's first message are
stored under the id -1 (`NoId`). The answer to a REFRESH that failed carries the
error text in place of the batch id and the batch id in place of the errors
(`Reply`).

### SwitchDocument

`StartModule`, `StartSwitch`, `CharacterData`, `EndSwitch` and `EndModule` are
the events for which a handler is registered, `StartOther` and `EndOther` those
for any other element. `Build` is `switchconf_build`; `IsSwitchEnabled` the
lookup. A value is a machine word, as in the code, so that the number 0, "off"
and the null pointer are one. `ValueOf` and `Enables` have all ten types: the
lists of numbers, texts and regular expressions, written in the document or in a
file, each file asked for by itself (`Build`). What `atol`, PCRE and the
comma-separated lists make of a text are constants, and what a file holds is
`ListFiles`'. `written` keeps the document as it was written. The property
compares answers with it by operators of its own: `StandsFor` says which values a
switch that is written stands for, `Same` when one of them is the value asked
for, `Silent` which switches answer no to everything; none of them uses
`ValueOf` or `Enables`.

### SwitchHash and SwitchArrays

`SwitchHash`: `Replace`, `Add` and `Delete` are the three outcomes of
`shmapr_hash_set`, `Expanded` is `shmapr_expand_array`, whose loop `Pushed` is,
`Walk` the loop of `shmapr_hash_first` and `shmapr_hash_next`, `ValOf`
`shmapr_hash_get`. A chain is the sequence of its entries. There are finitely
many names (`KeyAssumption`), and any two may have one hash.
`SwitchArrays`: `TakeToken` is a push with its doubling, `Compare` and
`NextPlace` the two loops of the exchange sort, `Ask`, `Probe` and `GiveUp` the
calls of the binary search.

### HttpClient and ListFiles

A function of the client is a record of what it asks of libcurl and which
`CURLcode`s it tells its caller of. `StatusLine`, `HeaderLine`, `BodyPiece` and
`http_put_callback` are libcurl's callbacks in the order it makes them, `Succeed`
and `Fail` its return. `ListFiles` is the one caller whose answer matters piece
by piece: `BodyPiece` may bring any number of cells, none too, and
`http_memory_callback` allocates, copies and sizes the block as the C code does,
with the cell behind the body that `apr_pcalloc` leaves zero, while `sentBody`
only keeps what the server sent. `KeepAnswer` is `cc_getRemoteResourcePath`, and `OpenFile`, `ReadValue` and
`NextLine` are `switchconf_buildFromFile`, with `line` and `place` for where it
is in the file it `opened`. `unwritten` records that an answer could not be
written or renamed. A line is the values that are read from it and
those that were meant: a line of more than 127 bytes is read as two, a line of
comment (`apr_strtok` passes over a leading `#`) as a value.

### ConfigCoreFile and LibSwitchLifecycle

`ConfigCoreFile` is one operator per handler of `cc_loadConfigCoreFile`, folded
over the elements of a document; `AsWritten` says what the document means
without handlers. A `param` of the resource service runs the timeout's handler,
so its body is taken for the timeout; a `param` without a text takes the entry
of its name out of the table of its service (`With`).

The elements of a `Document` are nested as expat delivers them (`WellNested`):
the events of a file that is not are a parse error, which is `file` = "malformed".

`LibSwitchLifecycle`: the steps of `libswitch_initializeLibSwitchINT`,
`libswitch_postConfig` and `cc_initializeConfigCore` are `NewConfig` to `Bind`,
run by a thread of node's pool for each call; `Initialize`, `Callback`, `Lookup`
and its steps are the main thread, `EnterLoop` to `RefreshOverflows` the worker.
`gConfig` is read anew wherever the code names it. What may end or hang the
application is in `proc` and `pc`, with its reason.

`cc_initializeConfigCore` rewrites two settings after it made the heap: `dir` is
what was put before `databaseFile`, `space` what was put behind the address of
the resource service. A worker is asked for once per start, but the fork or the
thread may fail, of which nobody is told (`StartWorker`, "unstarted"). `faults`
of an installation are the circumstances that a step runs into and that the
document does not show: a `.part` file, the worker's log or the realm database
that cannot be opened, a switch without a name, a host without a namespace on the
topic. `InitServicesDies`, `EnterLoop`, `MessageKills` and `RefreshDies` are what
becomes of them, in the application or in a worker that takes it along.

A forked worker never returns from its loop, which has no way out but a death,
so the `exit(1)` behind it (`config_messaging2.c:454`) is not an action here nor
in `HeapFile`.

## The runs

Every run ends within about three minutes on two workers. Ten of the twelve
pass; two "violation" runs check one sentence of the documentation each that
the code does not keep.

| Run | Question | Properties | Bounds, and why they are enough |
|---|---|---|---|
| `heap_node` | node's deployment: does every circumstance in which a lookup is torn, stale or goes back have a name? | `TypeOK` `FrontServable` `HeapCurrent` `TornOnlyIfLapped` `AnswerInForce` `AnswersNeverGoBack` | one asking thread; worker killed and restarted at any step; three builds (a publish and the build after it refill the segment a reader is on) and three seconds |
| `heap_threads` | a C host: do two threads sharing one heap add further circumstances, does the heap implement `SwitchService`, and do answers catch up with what is published? | `PointerCurrent` `ImplementsService` `PublishReaches` | two readers are enough for one to rebind while another does; two builds; no deaths, so that publishes may be relied on |
| `heap_threaded_flip` | violation: in thread mode the worker takes the flip the application waits for | `PublishReaches` | one reader, two builds |
| `segment` | do blocks, items and what is published stay whole whatever is built, refused, broken off or killed; is a page made over anything? | `BlocksApart` `FrontIntact` `ItemCovers` `RefusedOnlyIfTooLarge` `MadeOverAnything` | segments of eight bytes for structures of four and strings that take eight, so that builds fit, fill a segment and outgrow it; two services, so that items follow one another; three builds, so that each segment is filled twice; two applications on one file |
| `pull_refresh` | dates acted on twice, local copies cut short, documents served that do not parse, due documents never served? | `LocalCopyWhole` `RefreshLoadsIt` `OncePerDate` `DueIsServed` | two documents, so that one may be checked in while the other is loaded; failures, cut answers, deaths and restarts at every step; four seconds, so that a date may lie before, in and after a refresh |
| `pull_scheduled` | violation: a date that passes while another refresh runs is lost | `ScheduledIsServed` | as `pull_refresh`, with no failure at all |
| `stomp_frames` | what do timeouts, missing newlines, resets and partial writes damage, skip or mix, and does a read on a failed connection return? | `DamageContained` `NothingSkipped` `OutInStep` `ReadReturns` | blocks of two bytes and frames of two or three with their NUL, so that frames end at the end of a block and in the middle of the one after it; three frames, as a cut damages two; a stall, a reconnect, every choice of newlines; one frame of the client of three bytes, so that it is sent in parts. Longer frames are left to the proofs |
| `realm_worker` | deaf connections, rows and parameters that lie, false completions, a REFRESH that was handed over and not loaded, workers killed by a message? | `NeverDeaf` `RealmTellsTruth` `ParamsWithNode` `CompleteMeansLoaded` `PushReaches` | one worker and one other host, each in a namespace or in none; one document checked in, a REFRESH that may concern another namespace, two faults, one ALIVE, and two seconds, so that PING, PONG, ALIVE and REFRESH have one number or two. More nodes add nothing a worker can tell from the other host; what further messages do is left to the proofs, which hold for any number of both |
| `doc_answers` | is every switch that has a name found as it is written, by each of the ten types, and nothing else? | `AnswersAsWritten` | two modules, two switches of the ten types, of none or of an unknown one, an element anywhere else, missing attributes, every text of one or two pieces out of two, list files that are there, empty, only local or missing, with the repository answering for each or not |
| `hash_map` | is the table a map across collisions, growth and removal? | `VisitsEachOnce` `ImplementsMap` | five names of which two share a hash and two a chain, in a table that starts with two chains and grows twice; the state space is complete, no bound cuts it |
| `list_lookup` | is a value found exactly if it was published or is a line of the repository's file; does a caller of the client get what was sent? | `NothingLost` `FoundIffPublished` `BodyAsSent` `ListFromRepository` `AnswersAsListed` | six tokens in an array of two places that grows twice, four values, so that values repeat and are missing; files of up to three lines of five kinds; every function of the client, with bodies cut into pieces of any size that break off after any of them |
| `init_lookup` | who is told that libswitch is ready finds a configuration; what crashes an application that initialises and looks up as it likes; is `config-core.xml` read as written; is every call answered? | `CrashesOnlyWhen` `SuccessMeansServing` `LoadedAsWritten` `LogNotLeaked` `InitializeAnswered` | two calls of initialize at any time, where they fail with a lookup between any two of their steps, or one call with two refreshes or two lookups, a worker that starts or does not; installations with each command, setting, service, broker and file missing or malformed, and with each fault where it matters; documents of up to six elements |

Where deadlock is not checked, the bounds stop the world (no more documents,
seconds or connections), or the document, the list or the application has ended.

Bounds are named constants: `MaxGen`, `MaxClock`, `MaxDocs`, `MaxFrames`,
`MaxText`, `MaxStalls`, `MaxConnects`, `MaxOut`, `MaxVersion`, `MaxRefresh`,
`MaxFaults`, `MaxAlive`, `Seconds`, `MaxPieces`, `MaxModules`, `MaxSwitches`, `MaxOthers`,
`MaxTokens`, `MaxBuilds`, and the numbers of calls, lookups and refreshes in
`Sites`. They appear only in guards and in what a step may choose from.

### Properties worth knowing

- `TornOnlyIfLapped`, `AnswerInForce`, `AnswersNeverGoBack` (`SharedHeap`): a
  lookup that mixes two configurations was overtaken by the end of one publish
  and the start of another build, or went through a pointer that was behind.
- `FrontServable`: no failure and no death makes a flip lead to a half-built
  configuration, unless the worker died exactly between the two stores of the
  swap, after which both names mean one segment for good.
- `HeapCurrent`: a process with the page's date is on the front segment, but for
  a flip between its two loads or within one second.
- `FrontIntact`, `RefusedOnlyIfTooLarge` (`HeapSegment`): what is published stays
  as it was, byte for byte, and no build takes room from the ones after it.
- `OncePerDate`, `RefreshLoadsIt`, `DueIsServed` (`PullRefresh`): a date is acted
  upon at most once, a refresh that ran its course leaves its document or a later
  one, and a due document is served but for the circumstances it names.
- `DamageContained`, `NothingSkipped`, `OutInStep` (`StompFrames`): one cut
  damages its frame and at most the next.
- `NeverDeaf`, `RealmTellsTruth`, `ParamsWithNode`, `CompleteMeansLoaded`,
  `PushReaches` (`RealmMessaging`).
- `CrashesOnlyWhen`, `SuccessMeansServing` (`LibSwitchLifecycle`): of the steps
  and faults that are modelled, every way an application can crash or be told a
  success that is none has a name. Not modelled are memory and handles that run
  out and texts longer than the buffers they are copied to.
- `LoadedAsWritten` (`LibSwitchLifecycle`): every setting, every part of the broker,
  the resource service and the services are what the document says, and the two
  settings that are rewritten later are made of them.
- `AnswersAsWritten` (`SwitchDocument`), `AnswersAsListed` (`ListFiles`): the
  answer of every lookup against the document and the list as they were written.
- `BodyAsSent` (`ListFiles`): sizes, copies and the zero behind the body, however
  the body is cut into pieces.
- `ImplementsService`, `ImplementsMap`: refinements of `SwitchService` and
  `SwitchMap`.

Each component has a `TypeOK`; that of `SharedHeap` is checked by `heap_node`,
and those of `SharedHeap`, `SwitchArrays`, `HeapSegment`, `PullRefresh`,
`StompFrames` and `SwitchDocument`, and `HashTypeOK` of `SwitchHash` are proved.
The others say what the variables
range over.

## Fairness

- `SharedHeap`: weak fairness of the boot, of binding, of every step of a build
  once it has its text, and of the steps of every reader, because the operating
  system schedules every thread that can run and an application keeps asking.
  None of the beginning of a build, of the clock, of a death or of a restart.
- `PullRefresh`: weak fairness of the clock and of the loop's steps. Strong
  fairness of `BeginRefresh` only: requests may fail, but not those of every
  round in which the document is due.
- `StompFrames`: weak fairness of reading and writing; the socket has a timeout,
  so a call on it always returns.
- `RealmMessaging`: weak fairness of a worker's steps, strong fairness of
  `Connect`: the loop tries again for ever, and a broker that is up every now
  and then accepts at last. Faults are bounded and never obliged to happen.
- `LibSwitchLifecycle`: weak fairness of the threads of node's pool, of a lookup
  once it has begun, and of the callback of work that is done, which the event
  loop runs. None of calls, lookups, refreshes or failures.

## What is proved

All theorems hold for every value of the constants that the modules' named
assumptions allow: any set of readers, nodes, hosts and namespaces, worker as
process or thread, deaths allowed or not, any number of builds, documents,
messages, faults and bytes, and any clock.

`SharedHeap_proofs`:

| Theorem | Property |
|---|---|
| `TypeCorrect` | `TypeOK` |
| `AlwaysDoubleBuffered` | `DoubleBuffered` (not in a run: two names for one segment show in `FrontServable`) |
| `FrontAlwaysServable` | `FrontServable` |
| `HeapAlwaysCurrent` | `HeapCurrent` |
| `LookupsNeverTorn` | `TornOnlyIfLapped` |
| `AnswersInForce` | `AnswerInForce` |
| `HeapIsService`, `UnkilledIsService` | `ImplementsService` |
| `PointerStaysCurrent` | `PointerCurrent` |
| `AnswersOnlyMoveForward` | `AnswersNeverGoBack` |

The argument is in layers, each inductive relative to the ones before it,
so that a step only has to be looked at for what it can disturb. Their conjuncts
are named in `SharedHeap`.

1. `PageInv` speaks of the page and the segments alone: which segment is being
   built at every step of a publish (`InvBuild`), that the indices differ or are
   being exchanged (`InvBuffers`), that builds are numbered upwards and
   published in order (`InvGen`). The readers' steps touch none of it
   (`QuietFrame`). `DoubleBuffered` and `FrontServable` follow; neither is
   inductive by itself, since it takes `InvBuild` to know that what is swapped
   to the front is complete.
2. `StampInv` adds that dates only grow and that a process that loaded its
   segment at the current flip is on the front (`InvStamps`). `HeapCurrent` is
   not inductive without it: that the dates agree says nothing about the
   segment unless one knows at which flip it was loaded.
3. `LookupInv` adds the readers: pointers lead to segments that were written
   (`InvPointers`), between a publish and the next build both segments hold
   configurations in force since the call began (`InvLap`), and what a lookup
   found at its first read still stands at its second (`InvLookup`).
4. In process mode, where only the application works on its `shared_heap`,
   `FollowInv` ties together the three places that say which configuration is
   in use: the hash of configurations points into the segment loaded last,
   unless a flip is being followed or cannot be seen (`InvConfig`), `gConfig`
   points where the hash does, unless a thread is about to rebind (`InvBound`),
   and a call that followed flips by itself has the page's date (`InvSeen`).
   `PointerCurrent` chains the three.
5. `InvForward` is about the answers of one asking thread (`Alone`): none is
   newer than what the front, the hash, the register or the pointer lead to, at
   the steps where each of them is what will be read next. It is proved as
   `InvForward \/ HalfSwapped`, since after a death inside a swap builds are
   written into the segment that is served.

In thread mode the worker takes flips the application waits for, which is what
`heap_threaded_flip` shows, so the last two theorems are about process mode.
`PointerCurrent` names one circumstance that the proof brought up and that needs
more builds than `heap_threads` has: a call that joined another thread's refresh
may go on while a later flip is already to be seen (`joined`).

The refinement of `SwitchService` follows from the three layers: a step of the
worker announces a configuration when it stores the front index (`SwapFront`) and
brings it into force when it stores the date (`StampPage`, or a death before it),
and the answer of a lookup lies in the bounds of `InvLookup`. `HeapIsService`
assumes that no worker is killed between the two stores that exchange the
segments (`Exchanged`), after which builds are written into the segment that is
served; `UnkilledIsService` is the case without deaths, which `heap_threads`
checks.

`HeapSegment_proofs`:

| Theorem | Property |
|---|---|
| `TypeCorrect` | `TypeOK` |
| `AlwaysApart` | `BlocksApart` |
| `NothingLeaks` | `RefusedOnlyIfTooLarge` |
| `FrontStays` | `FrontIntact` |
| `ItemsAreWhole` | `ItemCovers` |
| `AlwaysMade` | `MadeOverAnything` |

`PlaceInv` says where the cursor is: in the segment being built, behind every
block of it, as far from its beginning as bytes were granted (`CursorPlaced`).
`BlocksApart` and `RefusedOnlyIfTooLarge` follow from it and from nothing less:
that blocks lie apart is not kept by an allocation unless the cursor is behind
them all. `FrontInv` adds what the published segment and the one being swapped
hold (`FirstItem`, `OpenBegins`, `Written`, `ServedBegins`, `ServedInFront`),
`CoverInv` what the closed items and the open one cover. `MadeInv` speaks of
`HeapFile` alone: at every step an application knows what its name stands for,
unless it was crossed or refused (`Knows`).

`PullRefresh_proofs`: `TypeCorrect` (`TypeOK`), `CopyAlwaysWhole`
(`LocalCopyWhole`), `RefreshAlwaysLoads` (`RefreshLoadsIt`) and `DatesActOnce`
(`OncePerDate`). The inductive `PullInv` numbers the documents (`Numbered`), says
that what is about to be published was checked (`Checked`), that a document
whose refresh began is no newer than what is being written or lies in the copy
(`Fresh`), and that dates acted upon lie before the loop's timestamp or are being
acted upon (`Dated`).

`RealmMessaging_proofs`: `NobodyDeaf` (`NeverDeaf`), `RowsTellTruth`
(`RealmTellsTruth`), `ParamsAreTheirs` (`ParamsWithNode`) and
`CompletionsAreTrue` (`CompleteMeansLoaded`). Lemmas on `RealmDatabase` say what
a registration does to the tables for any database and message. `ConnInv` is
`NeverDeaf` and the types of the connections. `RealmInv` follows a completion
backwards: a row that shows one was entered from a message that said so, or took
its number from a PING or a PONG (`Databases`), such a message in a box came from
a node that had loaded the REFRESH, and a PONG answers a PING (`Boxes`), and a node that is about to send it has loaded it
and serves its document or a later one (`Hands`), since no document is newer than
the repository's when its REFRESH is sent (`Posted`). No conjunct is inductive
without the others.

`ListFiles_proofs`:

| Theorem | Property |
|---|---|
| `ArrayTypeCorrect`, `NothingEverLost`, `AlwaysInOrder`, `LookupsAreRight` | `TypeOK`, `NothingLost`, `InOrder`, `FoundIffPublished` of `SwitchArrays` |
| `ListsAreArrays` | `ListSpec => Spec`: a list file implements `SwitchArrays` |
| `BodiesArrive` | `BodyAsSent` |
| `ListsComeFromRepository` | `ListFromRepository` |
| `ListsAnswer` | `AnswersAsListed` |

They hold for arrays of any length over any integers and files of any lines. The
invariant of the arrays is `IInv`: the elements before the outer loop's index are
final and no later one is smaller than they are, nor is any that the inner loop
has passed smaller than the one at the index (`Settled`), and a value that was
published and not yet found lies between the two bounds of the search
(`Narrowed`). A list file does to its array nothing that a csv switch could not
do, which is the refinement `ListsAreArrays`. `ListInv` adds the way of the list:
an answer without an error is the whole file (`HttpInv`), an answer that could be
kept is the copy that is opened (`FileInv`), and the values in the array are those
of the lines before the place that is read next (`LinesInv`). None of the three
properties is inductive: `AnswersAsListed` speaks of the file and of the answer,
and what connects them is what was read so far.

`SwitchDocument_proofs`: `DocumentTyped` (`TypeOK`) and `LookupAnswersDocument`
(`AnswersAsWritten`), for documents of any number of modules, switches, other
elements and pieces of text, in any nesting. `DocInv` follows the document:
`PathInv` says how the path of open elements begins, `ModuleInv` that the tables
hold the last module of each id and, in the module that is open, the last switch
of each name among those that ended (`ModulesOf`, `TableOf`); `SwitchInv` that
the text gathered and the bundle are those of the switch that is open, and
nothing of the one before; `BuiltInv` that what was built is what was parsed.
The answer is then a matter of the switch alone. The handlers share two pointers
and a text between elements, so every conjunct is needed at every event: it is
`ModuleInv` that knows that a module without an id leaves `userdata` null, and
only therefore are its switches not written into the module before. TLC checked
`DocInv` on the states of `doc_answers` before it was proved.

The module also holds the theorems about the hash tables, which are functions in
`SwitchDocument`: `TablesTyped` (`HashTypeOK`), `WalksVisitOnce`
(`VisitsEachOnce`) and `TablesAreMaps` (`HashSpec => ImplementsMap`, the
refinement of `SwitchMap`), for any names, any hash function and any first size.
The inductive `HashInv` says that the table is `Sound`: each chain holds entries
of its own index and none of them twice, so one name is in one place; besides, a
walk is as long as the table counts, and every entry taken from the heap is in
the table or free. Neither property is inductive without `Sound`, since a name
that was in the wrong chain would be added again. The two loops of the code are
inductions of their own. A walk has every entry of the chains and no other
(`WalkPlaces`, `WalkMeets`), and becomes longer by what one chain does
(`WalkLength`). After n pushes the new array holds the first n entries of the
walk (`Holds`, `PushOne`), so that a growth changes nothing but the size
(`ExpandedSame`). `PushedInFront`, `PutBehind`, `Revalued` and `TakenOut` say what the
four operations on a chain do to its entries. The refinement then needs one
lemma for all operations: whatever set a name, its own answer is what was set and
every other one is as before (`UpdatedVal`). The heap is bounded since a walk
that meets no name twice is no longer than there are names (`WalkWithinKeys`).
TLC checked `HashInv` on the states of `hash_map` before it was proved.

`StompFrames_proofs`:

| Theorem | Property |
|---|---|
| `OutAlwaysInStep` | `OutInStep` |
| `FramesTyped` | `TypeOK` |
| `DamageStaysContained` | `DamageContained` |
| `NoFrameSkipped` | `NothingSkipped` |

For frames, pieces and blocks of any size and any number of connections.
`OutInStep` says what the broker has got and nothing of what comes next, so
`WriteInv` adds that within a frame the broker lacks exactly what is left to
send, that between two frames it has whole ones, both as long as the connection
and the broker live, and that a connection that failed is never written on again. On the reading side
the bytes in the blocks and those still on the wire are one stream.
`StreamInv` says how two neighbouring bytes of it may belong together, and how
it begins and ends; `ReadInv` that the blocks hold one frame from its beginning,
or a damaged one; `GotInv` that what was returned is known bytes of no later
frame than anything still on its way. A cut falls between any two bytes, and
what makes `DamageContained` hold is that the next frame begins behind a NUL
whether or not the newline was read, which only `StreamInv` can say. `FramesInv`
is their conjunction with the properties.

`LibSwitchLifecycle_proofs`:

| Theorem | Property |
|---|---|
| `AnswerServed` | `SuccessMeansServing` |
| `LogNeverLeaks` | `LogNotLeaked` |
| `CrashesKnown` | `CrashesOnlyWhen` |
| `CoreSaysWhatIsWritten` | `LoadedAsWritten` |

For any number of calls, lookups and refreshes, any installations and documents
of any length.

- `SuccessMeansServing` speaks of the end of a call and of what the global
  `gConfig`, its `configCore` and the worker are by then, each written by another
  step of perhaps another call, so the inductive `ServeInv` says at every step
  what a call holds: that calls and lookups find a `Config` that was made and
  pointers that are there (`ConfigThere`), which calls work and what the others
  were told (`Begun`, `FoundReady`), that a service is found by name only once a
  worker is there or about to be started (`Served`), and that a call that was the
  only one to begin works on its own `Config` and succeeds only with the service
  bound (`Alone`). What a flip, a bind or a refresh may change of a `Config` and
  of a `config_core` is in `ConfigChange` and `CoreChange`, proved once for all
  steps.
- `LifeInv` adds the log, the ends of the application and the configuration. The
  log is counted at every step: a call holds at most one handle in the
  application and a worker that refreshes one more in its process, and whoever
  closes next has it open (`LogInv`). `UseInv` and `EndInv` say which state each
  end of the process leaves, with the fault that led to it (`Ending`), `CoreRead`
  that a `config_core` is new or what reading the document left, and once the heap
  is made has its two paths from there (`Placed`).
- `DocumentRead` says what reading a document leaves, by induction over its
  prefixes (`ReadSoFar`): the settings are the last ones written so far, the
  broker and its parts and the resource service and its parts are those since
  their last start (`BrokerStands`, `ResourceStands`), and the services that ended are as written while the one
  that is open is what the bundle holds (`ServicesRead`). Each handler is one
  lemma (`ElementRead`). If the process ended, a number or an id was missing
  (`Careless`). `SiteAssumption` says that a file that parses is a `Document`;
  without `WellNested` a parameter could belong to no service, which expat does
  not deliver.

The library's induction theorems take an operator and cannot be used, but
induction over a set can: `SetInduction` says that a set that holds 0, and n + 1
with every n, holds all of them, and the set is the numbers for which the
statement is true. The reading of a document, the flattening of a frame's
blocks, and the walk and the growth of a hash table are proved that way.

Model-checked only: liveness (`PublishReaches`, `DueIsServed`, `PushReaches`,
`ReadReturns`, `InitializeAnswered`), since fairness and what it enables are out
of the prover's reach.

## Disagreements between the code and its documentation

Two runs show a counterexample:

| Run | The code |
|---|---|
| `heap_threaded_flip` | in thread mode the worker's own sync takes the flip, and lookups never rebind (`config_core2.c:449`) |
| `pull_scheduled` | the time a refresh ended overtakes dates that passed while it ran (`config_messaging2.c:355`), although README.md promises a refresh at `nextRefreshTime` |

Others are part of the models, where a property allows for them by name or an
action shows them at once:

| Where | The code |
|---|---|
| `silent` in `HeapCurrent` and `PublishReaches` | publishes are dated in seconds, so the second of two within one second is not followed (`shm_core/shm_data.c:235`) |
| `cutShort`, `Overtaken`, `fellBack` in `DueIsServed` | a refresh that fails, or whose worker dies, is never begun again; a loop that starts forgets the dates before (`config_messaging2.c:281`) |
| `BeginRefresh`, `OpenPart` | the date is read from one request and the text from another, whose date and regex nobody looks at (`config_bindings2.c:65`) |
| `RenamePart`, `ParseFails` | the local copy is replaced before the document is parsed, so after a typo an application that starts has nothing to serve (`config_bindings2.c:75`) |
| `Connect`, `Subscribe` | a worker that has connected does not refresh, so what was published meanwhile is missed (`config_messaging2.c:297`) |
| `ValueOf` | "off" and 0 are stored as the null pointer, so a switch that is "off" does not have the value "off" (`libswitch_conf.c:338`) |
| `OpenPart`, `KeepAnswer` | an answer that breaks off replaces the local copy, and the error text is only logged (`config_bindings2.c:67`) |
| `ListFromRepository` | a list that was emptied in the repository stays in force (`config_bindings2.c:69`) |
| `OutOfSpace`, `CrashesOnlyWhen` | an allocation that finds no room is written through a null pointer (`shm_core/shm_data.c:301`) |
| `Fatal`, `MessageKills` | a host without a namespace ends the workers of its realm, and its own, and the application of a worker that is a thread (`config_messaging2.c:328`, `config_messaging_parsing2.c:145`) |
| `pinged` in `RealmTellsTruth` | a PING of the second of a REFRESH makes a row show that REFRESH as complete (`config_messaging2.c:71`) |
| `Connect`, `ConnectHangs` | a `stomp_connect` that fails may leave a socket, which then counts as a connection (`stomp-utils/stomp.c:45`) |
| `StartWorker` | nobody is told of a worker that could not be started (`config_messaging2.c:449`, `config_messaging2.c:491`) |
| `NoId` | the parameters of a host's first message are stored under no row (`db_core2.c:257`) |
| `EnterLoop` | a worker with neither automatic refresh nor a broker follows a null pointer (`config_messaging2.c:295`) |
| `SuccessMeansServing` | a second initialisation succeeds whatever became of the first (`libswitch_conf.c:252`) |
| `LoadCore` | without `LIBSWITCH_ConfigCoreFile` the home directory is opened as a file, and read for ever (`xml_core.c:299`) |
| `cc_setResourceServiceTimeoutBody` | a `param` of the resource service sets its timeout (`config_core2.c:324`) |
| `Reply` | `cm_sendRefreshFailed` is called with its arguments exchanged (`config_core2.c:479`) |
| `Kind`, `ValueOf` | a switch without a type never answers yes, against README.md's example (`switch_config_xml.c:48`) |
| `EndSwitch` | a switch without a name is a null key, and the parse ends the process (`switch_config_xml.c:104`) |

## What is not modelled

- More than sixteen services in a segment, a frame of more than 1024 bytes, waits
  of more than 4294 seconds (a product that wraps in `usleep`'s argument).
- Which characters make up a number, a regex or a token: `atol`, PCRE and
  `apr_strtok` are constants of the modules.
- The headers of a STOMP frame; the fields of a message that only the log shows;
  the templates of parameters, the notices and the history of messages in the
  database, which no sender of the repository fills.
- Proxies, certificates and passwords of a request.
- What is logged, and the rotation of the worker's log: it closes the logger its
  caller holds, but one thread uses it and glibc leaves a held mutex alone.
- What a switch without a name makes of the process beyond that the parse ends it
  (`EndSwitch`, `Deadly`).
- `shmdata_rollback`, `sheap_attach`, `addElementInOrder`, the lists of
  `shm_datatypes.c`, `stompu_unsubscribe`, `dbcore_updateNotice`,
  `libswitch_validBootStatus`: nothing calls them.
- Parsing from a string (`xml_core.c:330-356`), which reads the messages of the
  topic and the answer to the date (`config_messaging_parsing2.c:162`,
  `config_messaging2.c:244`): it shares its handlers with the parser of files, and
  the texts it is given here are well-formed.
- Memory, handles and processes that run out, but for the fork or thread of the
  worker; texts longer than the buffers they are copied to.
- A REFRESH sent while nobody is subscribed never comes: `PushReaches` speaks of
  those that were handed over.
- The string, time and token helpers, the names of types, the demonstration
  program; SQLite's headers are vendored.

## Plan

Done: every part from the document in the repository to the answer of a lookup,
the realm beside it, and initialisation. Every safety property that a run
checks is proved.

What could follow:

1. The parts that `AnswersAsWritten` keeps as constants, as functions with a
   reference definition: the tokens of a list, the numbers of a text.
2. Stores that other processors see out of order, in `SharedHeap`.
