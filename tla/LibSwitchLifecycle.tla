------------------------- MODULE LibSwitchLifecycle -------------------------
(***************************************************************************)
(* Initialising libswitch, and looking up before, while and after it is    *)
(* initialised.  In node, initialize queues work for a thread of libuv's   *)
(* pool; the main thread goes on, may look up and may call initialize      *)
(* again at once, and runs the callback when the work is done.  Threads    *)
(* and lookups share the global gConfig, which each reads anew wherever    *)
(* the code names it, with no lock.                                        *)
(*                                                                         *)
(* Abstractions: what a segment holds and the steps of a flip are those of *)
(* SharedHeap; reading a file is one step, as it touches nothing another   *)
(* thread reads unless two calls share a Config; two threads allocating    *)
(* from one pool are taken not to damage it.                               *)
(***************************************************************************)
EXTENDS ConfigCoreFile

CONSTANTS
    Calls,            \* calls of initialize
    NoCall,           \* a null pointer: no Config, no config_core
    Sites,            \* installations: see SiteAssumption
    Template,         \* the id of the only service_module_template
    SwitchConfigName, \* MODULE_NAME_SWITCH_CONFIG
    ConfigXml,        \* PARAM_CONFIG_XML
    BuildSize         \* what a configuration needs of a segment

Commands == {"HomeDir", "ConfigCoreFile", "LogFile", "SystemInfo"}
NoFile == {"no file"}

\* What may be amiss: a .part file, refresh.log or, for the worker, the realm
\* database cannot be opened, a switch of a module has no name, and there is a
\* host without a namespace on the topic of the broker.
Faults == {"part", "logs", "database", "switch", "host"}

\* The commands in libswitch.conf, which may be missing; the document at the
\* path of config-core.xml; the calls, lookups and refreshes that come (bounds).
ASSUME SiteAssumption ==
    \A s \in Sites :
        /\ s.conf \in {NoFile} \cup SUBSET Commands
        /\ s.file \in {"missing", "malformed", "good"} /\ Document(s.doc)
        /\ s.faults \subseteq Faults
        /\ s.calls \subseteq Calls /\ s.lookups \in Nat /\ s.refreshes \in Nat
ASSUME NoCallAssumption == NoCall \notin Calls /\ "app" \notin Calls

VARIABLES
    site,     \* the installation
    proc,     \* "alive", or what ended the application
    gConfig,  \* the call that allocated the Config, or NoCall
    cfg,      \* the Configs: home_dir, the two paths, configCore, switchConfig
    core,     \* the config_core each call makes
    pc,       \* what each call does next
    target,   \* the Config libswitch_postConfig was given
    failed,   \* the call has errors in its list, or gave up
    told,     \* what the callback was given, "null" or "failed"
    main,     \* the main thread: "idle", or the step of its lookup
    worker,   \* the messaging worker each call started
    log       \* rLogFile of each process, and the handles it has open

\* History and bounds: the calls that found gConfig NULL; what the others
\* found; lookups and refreshes so far.
VARIABLES began, found, lookups, refreshes

globals == <<gConfig, cfg>>
thread  == <<core, pc, target, failed>>
reader  == <<main, lookups>>
node    == <<told, reader>>
history == <<began, found>>
vars == <<site, proc, globals, thread, node, worker, log, history, refreshes>>

Processes == {"app"} \cup Calls

NewConfigObj == [home |-> FALSE, coreFile |-> "unset", logFile |-> "unset",
                 configCore |-> NoCall, bound |-> FALSE]

\* dir and space: what was put before databaseFile, and behind the address of the
\* resource service.
NewCore == [cc |-> cc_newConfigCoreObj, sheap |-> FALSE, dir |-> Null, space |-> Null,
            item |-> FALSE, named |-> FALSE, flip |-> FALSE]

Init ==
    /\ site \in Sites
    /\ proc = "alive"
    /\ gConfig = NoCall
    /\ cfg = [c \in Calls |-> NewConfigObj]
    /\ core = [c \in Calls |-> NewCore]
    /\ pc = [c \in Calls |-> "none"]
    /\ target = [c \in Calls |-> NoCall]
    /\ failed = [c \in Calls |-> FALSE]
    /\ told = [c \in Calls |-> "none"]
    /\ main = "idle"
    /\ worker = [c \in Calls |-> "none"]
    /\ log = [p \in Processes |-> [open |-> FALSE, own |-> TRUE, handles |-> 0]]
    /\ began = {} /\ found = [c \in Calls |-> "nothing"]
    /\ lookups = 0 /\ refreshes = 0

Goto(c, label) == pc' = [pc EXCEPT ![c] = label]
Step(c, from, to) == proc = "alive" /\ pc[c] = from /\ Goto(c, to)
Fail(c) == failed' = [failed EXCEPT ![c] = TRUE]
Crash(why) == proc' = why

-----------------------------------------------------------------------------
(* The log file (log_core.c).                                              *)
logcore_openLogFile(p, good) ==
    [log EXCEPT ![p] = [open |-> good, own |-> TRUE,
                        handles |-> @.handles + IF good THEN 1 ELSE 0]]

logcore_closeLogFile(p) ==
    IF log[p].open /\ log[p].own
    THEN [log EXCEPT ![p].open = FALSE, ![p].handles = @ - 1]
    ELSE log

-----------------------------------------------------------------------------
(* The main thread: addon_initialize and its callback.                     *)
Initialize(c) ==
    /\ main = "idle" /\ c \in site.calls
    /\ Step(c, "none", "queued")
    /\ UNCHANGED <<site, proc, globals, core, target, failed, node, worker,
                   log, history, refreshes>>

\* Mutant: only success is told.
Callback_Success(c) ==
    /\ main = "idle" /\ ~failed[c]
    /\ Step(c, "done", "answered")
    /\ told' = [told EXCEPT ![c] = "null"]
    /\ UNCHANGED <<site, proc, globals, core, target, failed, reader, worker,
                   log, history, refreshes>>

Callback(c) ==
    /\ main = "idle"
    /\ Step(c, "done", "answered")
    /\ told' = [told EXCEPT ![c] = IF failed[c] THEN "failed" ELSE "null"]
    /\ UNCHANGED <<site, proc, globals, core, target, failed, reader, worker,
                   log, history, refreshes>>

-----------------------------------------------------------------------------
(* The thread of a call: libswitch_initializeLibSwitch.                    *)
InitializeLibSwitch(c) ==
    /\ IF gConfig # NoCall
         THEN /\ Step(c, "queued", "done")
              /\ found' = [found EXCEPT ![c] =
                    IF \A d \in began : pc[d] \in {"done", "answered"} /\ ~failed[d]
                    THEN "ready" ELSE "not ready"]
              /\ UNCHANGED began
         ELSE /\ Step(c, "queued", "config")
              /\ began' = began \cup {c} /\ UNCHANGED found
    /\ UNCHANGED <<site, proc, globals, core, target, failed, node, worker, log, refreshes>>

\* libswitch_initializeLibSwitchINT: APR and its pools, or libswitch_die.
NewConfig(c) ==
    /\ \/ /\ Step(c, "config", "parse")
          /\ cfg' = [cfg EXCEPT ![c] = NewConfigObj]
          /\ gConfig' = c
          /\ UNCHANGED proc
       \/ /\ Step(c, "config", "config")
          /\ Crash("exited")
          /\ UNCHANGED globals
    /\ UNCHANGED <<site, core, target, failed, node, worker, log, history, refreshes>>

Given(command, value) == IF command \in site.conf THEN "name" ELSE value

ParseConfigFile(c) ==
    /\ \/ Step(c, "parse", "done") /\ site.conf = NoFile /\ Fail(c) /\ UNCHANGED cfg
       \/ /\ Step(c, "parse", "home") /\ site.conf # NoFile
          /\ cfg' = [cfg EXCEPT ![gConfig].home = @ \/ "HomeDir" \in site.conf,
                    ![gConfig].coreFile = Given("ConfigCoreFile", @),
                    ![gConfig].logFile = Given("LogFile", @)]
              /\ UNCHANGED failed
    /\ UNCHANGED <<site, proc, gConfig, core, target, node, worker, log, history, refreshes>>

CheckHome(c) ==
    /\ \/ Step(c, "home", "post") /\ cfg[gConfig].home /\ UNCHANGED failed
       \/ Step(c, "home", "done") /\ ~cfg[gConfig].home /\ Fail(c)
    /\ UNCHANGED <<site, proc, globals, core, target, node, worker, log, history, refreshes>>

\* A name behind home_dir; a path that was made before is no longer one, and
\* one that was never given is the directory itself.
Normalized(f, home) ==
    CASE f = "name" /\ home  -> "path"
      [] f = "unset" /\ home -> "directory"
      [] OTHER               -> "nowhere"

\* libswitch_postConfig is called with the gConfig of that moment.
PostConfig(c) ==
    /\ Step(c, "post", "load")
    /\ target' = [target EXCEPT ![c] = gConfig]
    /\ LET k == cfg[gConfig]
           logFile == Normalized(k.logFile, k.home)
       IN  /\ cfg' = [cfg EXCEPT ![gConfig].coreFile = Normalized(@, k.home),
                                 ![gConfig].logFile = logFile]
           /\ log' = logcore_openLogFile("app", logFile = "path")
    /\ UNCHANGED <<site, proc, gConfig, core, failed, node, worker, history, refreshes>>

\* What reading config-core.xml leaves, with the homeDir of the Config.
Read == [doc \in {s.doc : s \in Sites} |->
            cc_loadConfigCoreFile(doc, [cc_newConfigCoreObj EXCEPT !.homeDir = "home"])]

SetCore(c, r) == core' = [core EXCEPT ![c] = r]

\* A directory can be opened but not read, and the loop of xmlcore_beginParsing
\* looks at the error of another file.
LoadCore(c) ==
    /\ \/ /\ Step(c, "load", "hung") /\ cfg[target[c]].coreFile = "directory"
          /\ UNCHANGED <<core, failed, proc>>
       \/ /\ Step(c, "load", "done")
          /\ \/ cfg[target[c]].coreFile = "nowhere"
             \/ cfg[target[c]].coreFile = "path" /\ site.file # "good"
          /\ Fail(c) /\ UNCHANGED <<core, proc>>
       \/ /\ proc = "alive" /\ pc[c] = "load"
          /\ cfg[target[c]].coreFile = "path" /\ site.file = "good"
          /\ IF Read[site.doc].alive
               THEN /\ Goto(c, "heap") /\ UNCHANGED proc
                    /\ SetCore(c, [NewCore EXCEPT !.cc = Read[site.doc].cc])
               ELSE Crash("document") /\ UNCHANGED <<pc, core>>
          /\ UNCHANGED failed
    /\ UNCHANGED <<site, globals, target, node, worker, log, history, refreshes>>

-----------------------------------------------------------------------------
(* cc_initializeConfigCore.                                                *)
Directory(cc) == IF cc.databaseFile = Null THEN Null ELSE cc.homeDir

Space(cc) ==
    IF cc.resourceService = Null \/ cc.resourceService.uri = Null THEN Null
    ELSE cc.nameSpace

\* A file without a directory or without a name cannot be mapped.  With the heap
\* made, the database is moved below the home directory, and the namespace put
\* behind the address of the resource service.
MakeHeap(c) ==
    LET cc == core[c].cc IN
    /\ \/ /\ Step(c, "heap", "database")
          /\ cc.homeDir # Null /\ cc.sheapMapFile # Null
          /\ SetCore(c, [core[c] EXCEPT !.sheap = TRUE, !.dir = Directory(cc),
                                        !.space = Space(cc)])
          /\ UNCHANGED failed
       \/ Step(c, "heap", "publish core") /\ Fail(c) /\ UNCHANGED core
    /\ UNCHANGED <<site, proc, globals, target, node, worker, log, history, refreshes>>

\* dbcore_bindToDatabaseCore has a file to open, which was made just before.
CanBind(c) == core[c].cc.databaseFile # Null

OpenDatabase(c) ==
    /\ \/ /\ Step(c, "database", "services")
          /\ CanBind(c)
          /\ UNCHANGED failed
       \/ Step(c, "database", "publish core") /\ Fail(c)
    /\ UNCHANGED <<site, proc, globals, core, target, node, worker, log, history, refreshes>>

cc_findServiceTemplate(svc) == svc.id = Template

HasParam(svc) == ConfigXml \in DOMAIN svc.params

\* What may end a process that builds: an allocation that finds no room is
\* written through a null pointer, a switch without a name is hashed, and a .part
\* file that could not be opened is written to.
Deadly(c) ==
    {why \in {"heap", "switch", "part"} :
        CASE why = "heap"   -> core[c].cc.sheapPageSize < BuildSize
          [] why = "switch" -> "switch" \in site.faults
          [] why = "part"   -> "part" \in site.faults /\ core[c].cc.resourceService # Null}

\* The services that are asked to build: those before the first unknown one.
Tried(svcs) ==
    {n \in DOMAIN svcs : \A m \in 1 .. n : cc_findServiceTemplate(svcs[m])}

\* Of those with a document, the ones it can be loaded of are built.
InitServices(c) ==
    LET svcs == core[c].cc.services
        sound == {n \in Tried(svcs) : HasParam(svcs[n])}
    IN  /\ \/ /\ Step(c, "services", "publish core")
             /\ (svcs = <<>> \/ Tried(svcs) # DOMAIN svcs)
          \/ /\ Step(c, "services", "publish")
             /\ svcs # <<>> /\ Tried(svcs) = DOMAIN svcs
       /\ \E built \in SUBSET sound :
             /\ SetCore(c, [core[c] EXCEPT !.item = built # {}])
             /\ failed' = [failed EXCEPT ![c] = built # DOMAIN svcs]
             /\ built # {} => "heap" \notin Deadly(c)
             /\ UNCHANGED proc
       /\ UNCHANGED <<site, globals, target, node, worker, log, history, refreshes>>

InitServicesDies(c) ==
    LET svcs == core[c].cc.services IN
    /\ Step(c, "services", "services")
    /\ \E n \in Tried(svcs) : HasParam(svcs[n])
    /\ \E why \in Deadly(c) : Crash(why)
    /\ UNCHANGED <<site, globals, core, target, failed, node, worker, log,
                   history, refreshes>>

\* switchcore_postRefresh: there is an item to give the service.
Fetched(r) == r.item

\* cc_onSheapPageFlip: the services by name, with the item of the segment.
Flipped(r) ==
    [r EXCEPT !.flip = FALSE,
              !.named = @ \/ (Fetched(r) /\ \E n \in DOMAIN r.cc.services :
                                                   r.cc.services[n].name = SwitchConfigName)]

\* shmdata_PublishBackSeg and cc_syncSelf; the broker is tested, whatever that
\* brings, and the log closed "before forking".
Publish(c) ==
    /\ Step(c, "publish", "start")
    /\ SetCore(c, Flipped(core[c]))
    /\ log' = logcore_closeLogFile("app")
    /\ UNCHANGED <<site, proc, globals, target, failed, node, worker, history, refreshes>>

\* cm_initializeMessagingLoop: a thread, or a process with a copy of rLogFile.
\* That there is none is at most printed.
StartWorker(c) ==
    /\ Step(c, "start", "reopen")
    /\ \/ /\ worker' = [worker EXCEPT ![c] = "started"]
          /\ log' = IF core[c].cc.threaded THEN log
                    ELSE [log EXCEPT ![c] = [log["app"] EXCEPT !.own = FALSE]]
       \/ /\ worker' = [worker EXCEPT ![c] = "unstarted"]
          /\ UNCHANGED log
    /\ UNCHANGED <<site, proc, globals, core, target, failed, node, history, refreshes>>

LogGood(c) == cfg[target[c]].logFile = "path"

ReopenLog(c) ==
    /\ Step(c, "reopen", "publish core")
    /\ log' = logcore_openLogFile("app", LogGood(c))
    /\ UNCHANGED <<site, proc, globals, core, target, failed, node, worker, history, refreshes>>

-----------------------------------------------------------------------------
(* The end of libswitch_postConfig.                                        *)
SetConfigCore(c) ==
    /\ Step(c, "publish core", "bind")
    /\ cfg' = [cfg EXCEPT ![target[c]].configCore = c]
    /\ UNCHANGED <<site, proc, gConfig, core, target, failed, node, worker,
                   log, history, refreshes>>

\* cc_getModuleConfigByName for the configCore that is there by then.
libswitch_postRefreshBind(k) ==
    cfg' = [cfg EXCEPT ![k].bound = core[cfg[k].configCore].named]

\* Mutant: the missing service is not reported.
Bind_Silent(c) ==
    /\ Step(c, "bind", "done")
    /\ libswitch_postRefreshBind(target[c])
    /\ UNCHANGED <<site, proc, gConfig, core, target, failed, node, worker, log, history, refreshes>>

Bind(c) ==
    /\ Step(c, "bind", "done")
    /\ libswitch_postRefreshBind(target[c])
    /\ failed' = [failed EXCEPT ![c] = @ \/ ~cfg'[target[c]].bound]
    /\ UNCHANGED <<site, proc, gConfig, core, target, node, worker, log, history, refreshes>>

Thread(c) ==
    \/ InitializeLibSwitch(c) \/ NewConfig(c) \/ ParseConfigFile(c) \/ CheckHome(c)
    \/ PostConfig(c) \/ LoadCore(c) \/ MakeHeap(c) \/ OpenDatabase(c)
    \/ InitServices(c) \/ InitServicesDies(c) \/ Publish(c) \/ StartWorker(c) \/ ReopenLog(c)
    \/ SetConfigCore(c) \/ Bind(c)

-----------------------------------------------------------------------------
(* The worker: the loop it enters, and its rounds of cc_refreshConfigCore. *)
Running(c, state) == worker[c] = state /\ (core[c].cc.threaded => proc = "alive")
Become(c, state) == worker' = [worker EXCEPT ![c] = state]
LogOf(c) == IF core[c].cc.threaded THEN "app" ELSE c

\* A worker that is a thread takes the application with it.
WorkerEnds(c, why) ==
    /\ Become(c, "died")
    /\ IF core[c].cc.threaded THEN Crash(why) ELSE UNCHANGED proc

\* The first thing the loop does is to log, whether or not it could open
\* refresh.log; without auto refresh it then connects to the broker, if there is
\* one or not.
EnterLoop(c) ==
    /\ Running(c, "started")
    /\ IF /\ "logs" \notin site.faults
          /\ core[c].cc.enableAutoRefresh \/ core[c].cc.messageBroker # Null
         THEN Become(c, "waiting") /\ UNCHANGED proc
         ELSE WorkerEnds(c, "worker")
    /\ UNCHANGED <<site, globals, thread, node, log, history, refreshes>>

\* cm_canAutoRefreshNow is false for ever without a resource service.
MessageMayCome(c) ==
    IF core[c].cc.enableAutoRefresh THEN core[c].cc.resourceService # Null
    ELSE core[c].cc.messageBroker # Null

\* A message is registered before anything is done about it: in no database, if
\* it was not opened; and a host without a namespace sends messages without a
\* header, which it gets back from the topic itself.
MessageKills(c) ==
    /\ Running(c, "waiting") /\ MessageMayCome(c)
    /\ \/ "database" \in site.faults
       \/ /\ ~core[c].cc.enableAutoRefresh
          /\ core[c].cc.nameSpace = Null \/ "host" \in site.faults
    /\ WorkerEnds(c, "message")
    /\ UNCHANGED <<site, globals, thread, node, log, history, refreshes>>

BeginRefresh(c) ==
    /\ Running(c, "waiting") /\ MessageMayCome(c)
    /\ "database" \notin site.faults
    /\ refreshes < site.refreshes /\ refreshes' = refreshes + 1
    /\ Become(c, "refreshing")
    /\ log' = logcore_openLogFile(LogOf(c), LogGood(c))
    /\ UNCHANGED <<site, proc, globals, thread, node, history>>

\* A worker thread follows its own flip, in the application's config_core.
RefreshSucceeds(c) ==
    LET r == [core[c] EXCEPT !.item = TRUE] IN
    /\ Running(c, "refreshing")
    /\ \A n \in DOMAIN r.cc.services : HasParam(r.cc.services[n])
    /\ r.cc.sheapPageSize >= BuildSize
    /\ SetCore(c, IF r.cc.threaded THEN Flipped(r) ELSE [r EXCEPT !.flip = TRUE])
    /\ Become(c, "waiting")
    /\ log' = logcore_closeLogFile(LogOf(c))
    /\ UNCHANGED <<site, proc, globals, pc, target, failed, node, history, refreshes>>

\* Mutant: the return in the middle leaves the log open.
RefreshFails_Open(c) ==
    /\ Running(c, "refreshing")
    /\ Become(c, "waiting")
    /\ UNCHANGED <<site, proc, globals, thread, node, log, history, refreshes>>

RefreshFails(c) ==
    /\ Running(c, "refreshing")
    /\ Become(c, "waiting")
    /\ log' = logcore_closeLogFile(LogOf(c))
    /\ UNCHANGED <<site, proc, globals, thread, node, history, refreshes>>

RefreshDies(c) ==
    LET svcs == core[c].cc.services IN
    /\ Running(c, "refreshing")
    /\ 1 \in DOMAIN svcs /\ HasParam(svcs[1])
    /\ \E why \in Deadly(c) : WorkerEnds(c, why)
    /\ UNCHANGED <<site, globals, thread, node, log, history, refreshes>>

Worker(c) ==
    \/ EnterLoop(c) \/ MessageKills(c) \/ BeginRefresh(c)
    \/ RefreshSucceeds(c) \/ RefreshFails(c) \/ RefreshDies(c)

-----------------------------------------------------------------------------
(* The main thread: libswitch_isSwitchEnabled.                             *)
Looking(step) == proc = "alive" /\ main = step

Lookup ==
    /\ Looking("idle")
    /\ lookups < site.lookups /\ lookups' = lookups + 1
    /\ main' = "sync"
    /\ UNCHANGED <<site, proc, globals, thread, told, worker, log, history, refreshes>>

\* Mutant: configCore is followed without being looked at.
SyncSelf_Unset ==
    /\ Looking("sync")
    /\ IF gConfig = NoCall \/ cfg[gConfig].configCore = NoCall
         THEN Crash("lookup") /\ UNCHANGED <<core, main>>
         ELSE /\ main' = "check"
              /\ UNCHANGED <<core, proc>>
    /\ UNCHANGED <<site, globals, pc, target, failed, told, lookups, worker,
                   log, history, refreshes>>

\* cc_syncSelf(gConfig->configCore), and a rebind if a flip was followed.
SyncSelf ==
    /\ Looking("sync")
    /\ IF gConfig = NoCall
         THEN Crash("lookup") /\ UNCHANGED <<core, main>>
         ELSE LET c == cfg[gConfig].configCore IN
              /\ IF c # NoCall /\ core[c].flip
                   THEN SetCore(c, Flipped(core[c])) /\ main' = "rebind"
                   ELSE main' = "check" /\ UNCHANGED core
              /\ UNCHANGED proc
    /\ UNCHANGED <<site, globals, pc, target, failed, told, lookups, worker,
                   log, history, refreshes>>

Rebind ==
    /\ Looking("rebind")
    /\ IF cfg[gConfig].configCore = NoCall THEN UNCHANGED cfg
       ELSE libswitch_postRefreshBind(gConfig)
    /\ main' = "check"
    /\ UNCHANGED <<site, proc, gConfig, thread, told, lookups, worker,
                   log, history, refreshes>>

CheckBound ==
    /\ Looking("check")
    /\ IF cfg[gConfig].bound THEN main' = "use" ELSE main' = "idle"
    /\ UNCHANGED <<site, proc, globals, thread, told, lookups, worker, log, history, refreshes>>

\* gConfig->switchConfig again, or what the compiler kept of it.
UseConfig ==
    /\ Looking("use")
    /\ \/ main' = "idle" /\ UNCHANGED proc
       \/ ~cfg[gConfig].bound /\ Crash("lookup") /\ UNCHANGED main
    /\ UNCHANGED <<site, globals, thread, told, lookups, worker, log, history, refreshes>>

LookupStep == SyncSelf \/ Rebind \/ CheckBound \/ UseConfig

Next ==
    \/ \E c \in Calls : Initialize(c) \/ Callback(c) \/ Thread(c) \/ Worker(c)
    \/ Lookup \/ LookupStep

Spec == Init /\ [][Next]_vars

(* The threads of the pool run, lookups end, and the event loop runs the   *)
(* callback of work that is done.                                          *)
FairSpec ==
    /\ Spec
    /\ WF_vars(LookupStep)
    /\ \A c \in Calls : WF_vars(Thread(c)) /\ WF_vars(Callback(c))

-----------------------------------------------------------------------------
(* Properties.                                                             *)
Overlapped == Cardinality(began) > 1

\* A number without text, or a service without an id, in config-core.xml.
Careless(doc) ==
    \E n \in DOMAIN doc :
        \/ doc[n].el \in {"sheapPageSize", "broker", "service/timeoutSeconds",
                          "resource/timeoutSeconds", "resource/param"}
           /\ doc[n].body = Null
        \/ doc[n].el = "service" /\ doc[n].id = Null

(* The application, which may look up and initialise again at any moment,  *)
(* crashes in no other circumstances than these: a lookup before gConfig   *)
(* was set, two initialisations at a time, a careless config-core.xml, a   *)
(* segment too small for the configuration, a switch without a name, a     *)
(* .part file that cannot be opened, and a worker that is a thread and has *)
(* no broker or no log, or reads a message without a header, has no        *)
(* namespace, or cannot open the database (libswitch_isSwitchEnabled,      *)
(* cc_initializeConfigCore, cm_internalMessagingLoop).  Memory and files   *)
(* for APR do not run out, and texts fit their buffers.                    *)
CrashesOnlyWhen ==
    /\ proc = "lookup" => gConfig = NoCall \/ Overlapped
    /\ proc = "document" => Careless(site.doc)
    /\ proc = "heap" => \E c \in Calls : core[c].cc.sheapPageSize < BuildSize
    /\ proc = "switch" => "switch" \in site.faults
    /\ proc = "part" =>
          "part" \in site.faults /\ \E c \in Calls : core[c].cc.resourceService # Null
    /\ proc = "worker" => \E c \in Calls :
          /\ core[c].cc.threaded
          /\ \/ "logs" \in site.faults
             \/ core[c].cc.messageBroker = Null /\ ~core[c].cc.enableAutoRefresh
    /\ proc = "message" => \E c \in Calls :
          /\ core[c].cc.threaded
          /\ \/ "database" \in site.faults
             \/ /\ core[c].cc.messageBroker # Null /\ ~core[c].cc.enableAutoRefresh
                /\ core[c].cc.nameSpace = Null \/ "host" \in site.faults

(* A callback that is given null may rely on it: lookups are answered out  *)
(* of a configuration, and a worker to keep it fresh was asked for exactly *)
(* once, unless two initialisations ran at a time, or the call found one   *)
(* that had not ended, or had failed.  Whether there is a worker is        *)
(* another matter: nobody is told of a fork or a thread that failed        *)
(* (libswitch_initializeLibSwitch, addon_initializationComplete,           *)
(* cm_initializeMessagingLoop).                                            *)
SuccessMeansServing ==
    \A c \in Calls :
        told[c] = "null" =>
            \/ Overlapped \/ found[c] = "not ready"
            \/ /\ cfg[gConfig].bound
               /\ Cardinality({d \in Calls : worker[d] # "none"}) = 1

(* Every config_core is what config-core.xml says: the settings, the       *)
(* broker, the resource service, and the services in their order, each     *)
(* with its own address, timeout and parameters; from the moment the heap  *)
(* is made, with the database below the home directory that is written,    *)
(* and the namespace behind the address of the resource service            *)
(* (cc_loadConfigCoreFile, cc_initializeConfigCore).  Left out are the     *)
(* timeout of a resource service that has parameters, its parameters, and  *)
(* the mark "initialized" that a service gets when it is built.            *)
LoadedAsWritten ==
    \A c \in Calls :
        /\ core[c].cc # cc_newConfigCoreObj => AsWritten(core[c].cc, site.doc)
        /\ core[c].sheap =>
              core[c].dir = DirectoryOf(site.doc) /\ core[c].space = SpaceOf(site.doc)

(* However many refreshes there are, and whichever fail, a process has at  *)
(* most one handle of the log open, or two if the worker is a thread       *)
(* (log_core.c, cc_refreshConfigCore).                                     *)
LogNotLeaked ==
    Overlapped \/
    \A p \in Processes :
        log[p].handles <= IF \E c \in Calls : core[c].cc.threaded THEN 2 ELSE 1

(* Every call of initialize is answered, unless the application has ended  *)
(* or libswitch.conf gives no config-core.xml, which is then read for ever *)
(* (addon_initialize, xmlcore_beginParsing).                               *)
InitializeAnswered ==
    \A c \in Calls :
        pc[c] = "queued" ~> \/ told[c] # "none" \/ proc # "alive"
                            \/ pc[c] = "hung"
=============================================================================
