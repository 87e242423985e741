---------------------- MODULE LibSwitchLifecycle_proofs ----------------------
(***************************************************************************)
(* Proofs about LibSwitchLifecycle, for any installations, documents,      *)
(* calls, lookups and refreshes: a caller that was told libswitch is ready *)
(* finds it serving, no handle of the log is left open, what is read is    *)
(* what was written, and only known circumstances end the application.     *)
(***************************************************************************)
EXTENDS LibSwitchLifecycle, FiniteSetTheorems, NaturalsInduction, WellFoundedInduction,
        TLAPS

-----------------------------------------------------------------------------
(* Types.  A config_core is typed as far as the argument needs it.         *)
Paths == {"unset", "name", "path", "directory", "nowhere"}

ConfigType == [home : BOOLEAN, coreFile : Paths, logFile : Paths,
               configCore : Calls \cup {NoCall}, bound : BOOLEAN]

IsCore(r) ==
    /\ r = [cc |-> r.cc, sheap |-> r.sheap, dir |-> r.dir, space |-> r.space,
            item |-> r.item, named |-> r.named, flip |-> r.flip]
    /\ r.named \in BOOLEAN /\ r.flip \in BOOLEAN

Waiting == {"none", "queued"}
Posting == {"load", "hung", "heap", "database", "services", "publish", "start",
            "reopen", "publish core", "bind"}
Working == {"config", "parse", "home", "post"} \cup Posting
Over == {"done", "answered"}

Workings == {"none", "unstarted", "started", "waiting", "refreshing", "died"}

CallTypes ==
    /\ gConfig \in Calls \cup {NoCall}
    /\ pc \in [Calls -> Waiting \cup Working \cup Over]
    /\ target \in [Calls -> Calls \cup {NoCall}]
    /\ failed \in [Calls -> BOOLEAN]
    /\ told \in [Calls -> {"none", "null", "failed"}]
    /\ found \in [Calls -> {"nothing", "ready", "not ready"}]
    /\ worker \in [Calls -> Workings]
    /\ began \subseteq Calls /\ IsFiniteSet(began)

CfgTypes == cfg \in [Calls -> ConfigType]
CoreTypes == core = [c \in Calls |-> core[c]] /\ \A c \in Calls : IsCore(core[c])

-----------------------------------------------------------------------------
(* The inductive invariant.                                                *)
\* A call that made its Config.
Made(d) == d \in began /\ pc[d] # "config"

\* Calls and lookups find a Config that was made, and follow pointers that are
\* there.
ConfigThere ==
    /\ gConfig # NoCall => Made(gConfig)
    /\ main # "idle" => main = "sync" \/ gConfig # NoCall
    /\ \A c \in Calls :
          /\ pc[c] \in Working \ {"config"} => gConfig # NoCall
          /\ pc[c] \in Posting => target[c] # NoCall
          /\ target[c] # NoCall => Made(target[c])
          /\ pc[c] = "bind" => cfg[target[c]].configCore # NoCall

\* The calls that work or have a worker are those that found no gConfig; the
\* others are told what these have come to.
Standing(c) ==
    /\ c \in began <=> pc[c] \notin Waiting /\ found[c] = "nothing"
    /\ c \notin began => worker[c] = "none"
    /\ found[c] # "nothing" => pc[c] \in Over
    /\ told[c] = "null" => pc[c] = "answered" /\ ~failed[c]

Begun == \A c \in Calls : Standing(c)

Succeeded(d) == d \in began /\ pc[d] \in Over /\ ~failed[d]

FoundReady == \A c \in Calls : found[c] = "ready" => \E d \in Calls : Succeeded(d)

\* A service is found by its name only after a publish, and the worker is
\* started next.
Served ==
    \A c \in Calls :
        /\ core[c].named => worker[c] # "none" \/ pc[c] = "start"
        /\ core[c].flip => worker[c] # "none"

Single == \A c, d \in began : c = d

\* The only call that began works on its own Config, and ends with its service
\* bound or with an error.
Alone ==
    Single => \A d \in began :
        /\ pc[d] \in Posting => target[d] = d
        /\ pc[d] = "bind" => cfg[d].configCore = d
        /\ Succeeded(d) =>
              gConfig = d /\ cfg[d].configCore = d /\ cfg[d].bound /\ core[d].named

ServeInv == /\ CallTypes /\ CfgTypes /\ CoreTypes
            /\ ConfigThere /\ Begun /\ FoundReady /\ Served /\ Alone

LEMMA ServeInit == Init => ServeInv
<1> SUFFICES ASSUME Init PROVE ServeInv
  OBVIOUS
<1>1. CallTypes /\ CfgTypes
  BY FS_EmptySet
     DEF Init, CallTypes, Waiting, Workings, CfgTypes, ConfigType, NewConfigObj, Paths
<1>2. CoreTypes
  BY DEF Init, CoreTypes, NewCore, IsCore
<1>3. ConfigThere /\ Begun /\ FoundReady
  BY <1>1 DEF Init, ConfigThere, Begun, Standing, FoundReady, CallTypes, Waiting,
              Posting, Working, Over
<1>4. Served /\ Alone
  BY DEF Init, Served, NewCore, Alone
<1>5. QED
  BY <1>1, <1>2, <1>3, <1>4 DEF ServeInv

-----------------------------------------------------------------------------
(* The calls: where they stand, and what there is when they do.            *)
\* What LoadCore does to a call.
Loads(c) ==
    /\ pc[c] = "load"
    /\ UNCHANGED <<gConfig, target, told, found, began, worker>>
    /\ \/ UNCHANGED <<pc, failed>>
       \/ \E l \in {"hung", "heap"} : pc' = [pc EXCEPT ![c] = l] /\ UNCHANGED failed
       \/ /\ pc' = [pc EXCEPT ![c] = "done"]
          /\ failed' = [failed EXCEPT ![c] = TRUE]

LEMMA LoadCoreLoads == ASSUME NEW c \in Calls, LoadCore(c) PROVE Loads(c)
<1> USE DEF Loads
<1> USE DEF Step, Goto, Fail, globals, node, history
<1>1. /\ pc[c] = "load"
      /\ UNCHANGED <<gConfig, target, told, found, began, worker>>
  BY DEF LoadCore
<1>2. CASE Step(c, "load", "hung") /\ UNCHANGED failed
  BY <1>1, <1>2
<1>3. CASE Step(c, "load", "done") /\ Fail(c)
  BY <1>1, <1>3
<1>4. CASE UNCHANGED failed /\ (Goto(c, "heap") \/ UNCHANGED pc)
  BY <1>1, <1>4
<1>5. QED
  BY <1>2, <1>3, <1>4 DEF LoadCore

LEMMA CallTypesStep == ASSUME ServeInv, [Next]_vars PROVE CallTypes'
<1> USE DEF Goto, Step, Fail, Crash, SetCore, Become, Running, Looking, globals, thread,
           reader, node, history, Waiting, Posting, Working, Over,
           libswitch_postRefreshBind
<1>0. CallTypes
  BY DEF ServeInv
<1>1. ASSUME NEW c \in Calls, Initialize(c) \/ Callback(c) PROVE CallTypes'
  BY <1>0, <1>1 DEF Initialize, Callback, CallTypes
<1>2. ASSUME NEW c \in Calls, InitializeLibSwitch(c) PROVE CallTypes'
  <2>1. IsFiniteSet(began \cup {c})
    BY <1>0, FS_AddElement DEF CallTypes
  <2>2. began' \in {began, began \cup {c}}
        /\ (found' = found \/ \E f \in {"ready", "not ready"} :
              found' = [found EXCEPT ![c] = f])
        /\ \E l \in {"done", "config"} : pc' = [pc EXCEPT ![c] = l]
        /\ UNCHANGED <<gConfig, target, failed, told, worker>>
    BY <1>2 DEF InitializeLibSwitch
  <2>3. found' \in [Calls -> {"nothing", "ready", "not ready"}]
    BY <1>0, <2>2 DEF CallTypes
  <2>4. pc' \in [Calls -> Waiting \cup Working \cup Over]
    BY <1>0, <2>2 DEF CallTypes
  <2>5. began' \subseteq Calls /\ IsFiniteSet(began')
    BY <1>0, <2>1, <2>2 DEF CallTypes
  <2>6. /\ gConfig' = gConfig /\ target' = target /\ failed' = failed
        /\ told' = told /\ worker' = worker
    BY <2>2
  <2>7. QED
    BY <1>0, <2>3, <2>4, <2>5, <2>6 DEF CallTypes
<1>3. ASSUME NEW c \in Calls, NewConfig(c) PROVE CallTypes'
  BY <1>0, <1>3 DEF NewConfig, CallTypes
<1>4. ASSUME NEW c \in Calls, ParseConfigFile(c) \/ CheckHome(c) PROVE CallTypes'
  BY <1>0, <1>4 DEF ParseConfigFile, CheckHome, CallTypes
<1>5. ASSUME NEW c \in Calls, PostConfig(c) PROVE CallTypes'
  BY <1>0, <1>5 DEF PostConfig, CallTypes
<1>6. ASSUME NEW c \in Calls, LoadCore(c) \/ MakeHeap(c) \/ OpenDatabase(c) \/ InitServices(c) \/ InitServicesDies(c)
      PROVE  CallTypes'
  <2>1. CASE LoadCore(c)
    <3>1. Loads(c)
      BY <2>1, LoadCoreLoads
    <3>2. pc' \in [Calls -> Waiting \cup Working \cup Over]
      <4>1. PICK l \in {"hung", "heap", "done"} : pc' = pc \/ pc' = [pc EXCEPT ![c] = l]
        BY <3>1 DEF Loads
      <4>2. l \in Waiting \cup Working \cup Over
        BY <4>1
      <4>3. QED
        BY <1>0, <4>1, <4>2 DEF CallTypes
    <3>3. failed' \in [Calls -> BOOLEAN]
      BY <1>0, <3>1 DEF Loads, CallTypes
    <3>4. QED
      BY <1>0, <3>1, <3>2, <3>3 DEF Loads, CallTypes
  <2>2. CASE MakeHeap(c) \/ OpenDatabase(c)
    BY <1>0, <2>2 DEF MakeHeap, OpenDatabase, CallTypes
  <2>3. CASE InitServices(c) \/ InitServicesDies(c)
    BY <1>0, <2>3 DEF InitServices, InitServicesDies, CallTypes
  <2>4. QED
    BY <1>6, <2>1, <2>2, <2>3
<1>7. ASSUME NEW c \in Calls, Publish(c) \/ StartWorker(c) \/ ReopenLog(c) \/ SetConfigCore(c)
      PROVE  CallTypes'
  BY <1>0, <1>7 DEF Publish, StartWorker, ReopenLog, SetConfigCore, CallTypes, Workings
<1>8. ASSUME NEW c \in Calls, Bind(c) PROVE CallTypes'
  BY <1>0, <1>8 DEF Bind, CallTypes
<1>9. ASSUME NEW c \in Calls, Worker(c) PROVE CallTypes'
  BY <1>0, <1>9 DEF Worker, EnterLoop, BeginRefresh, RefreshSucceeds, RefreshFails,
                    RefreshDies, MessageKills, WorkerEnds, CallTypes, Workings
<1>10. CASE Lookup \/ SyncSelf \/ Rebind
  BY <1>0, <1>10 DEF Lookup, SyncSelf, Rebind, CallTypes
<1>11. CASE CheckBound \/ UseConfig
  BY <1>0, <1>11 DEF CheckBound, UseConfig, CallTypes
<1>12. CASE UNCHANGED vars
  BY <1>0, <1>12 DEF vars, CallTypes
<1>13. QED
  BY <1>1, <1>2, <1>3, <1>4, <1>5, <1>6, <1>7, <1>8, <1>9, <1>10, <1>11, <1>12
     DEF Next, Thread, LookupStep

(* What a step of a thread that works is to the other calls, and what one  *)
(* of a worker or of a lookup is to all.                                   *)
Moves(c) ==
    /\ UNCHANGED <<began, found, told>>
    /\ pc[c] \in Working /\ pc'[c] \in Working \cup {"done"}
    /\ \A d \in Calls \ {c} :
          pc'[d] = pc[d] /\ failed'[d] = failed[d] /\ worker'[d] = worker[d]

Stays ==
    /\ UNCHANGED <<began, found, told, pc, failed>>
    /\ \A d \in Calls : worker[d] = "none" => worker'[d] = "none"

LEMMA ThreadMoves ==
    ASSUME CallTypes, NEW c \in Calls, Thread(c), ~InitializeLibSwitch(c)
    PROVE  Moves(c)
<1> USE DEF Moves, Goto, Step, Fail, Crash, SetCore, Become, Running, Looking, globals, thread,
           reader, node, history, Waiting, Posting, Working, Over,
           libswitch_postRefreshBind
<1>1. CASE NewConfig(c) \/ ParseConfigFile(c) \/ CheckHome(c) \/ PostConfig(c)
  BY <1>1 DEF NewConfig, ParseConfigFile, CheckHome, PostConfig, CallTypes
<1>2. CASE LoadCore(c)
  <2>1. Loads(c)
    BY <1>2, LoadCoreLoads
  <2>2. QED
    BY <2>1 DEF Loads, CallTypes
<1>3. CASE MakeHeap(c) \/ OpenDatabase(c) \/ InitServices(c) \/ InitServicesDies(c)
  BY <1>3 DEF MakeHeap, OpenDatabase, InitServices, InitServicesDies, CallTypes
<1>4. CASE Publish(c) \/ ReopenLog(c)
  BY <1>4 DEF Publish, ReopenLog, CallTypes
<1>5. CASE StartWorker(c) \/ SetConfigCore(c) \/ Bind(c)
  BY <1>5 DEF StartWorker, SetConfigCore, Bind, CallTypes
<1>6. QED
  BY <1>1, <1>2, <1>3, <1>4, <1>5 DEF Thread

LEMMA OthersStay ==
    ASSUME CallTypes, (\E c \in Calls : Worker(c)) \/ Lookup \/ LookupStep \/ UNCHANGED vars
    PROVE  Stays
<1> USE DEF Stays, Goto, Step, Fail, Crash, SetCore, Become, Running, Looking, globals, thread,
           reader, node, history, Waiting, Posting, Working, Over,
           libswitch_postRefreshBind
<1>1. CASE \E c \in Calls : Worker(c)
  <2>1. PICK c \in Calls : Worker(c)
    BY <1>1
  <2>2. UNCHANGED <<began, found, told, pc, failed>>
    BY <2>1 DEF Worker, EnterLoop, BeginRefresh, RefreshSucceeds, RefreshFails,
                RefreshDies, MessageKills, WorkerEnds
  <2>3. worker[c] # "none" /\ \A d \in Calls \ {c} : worker'[d] = worker[d]
    BY <2>1 DEF Worker, EnterLoop, BeginRefresh, RefreshSucceeds, RefreshFails,
                RefreshDies, MessageKills, WorkerEnds, CallTypes
  <2>4. QED
    BY <2>2, <2>3
<1>2. CASE Lookup \/ SyncSelf \/ Rebind
  BY <1>2 DEF Lookup, SyncSelf, Rebind
<1>3. CASE CheckBound \/ UseConfig
  BY <1>3 DEF CheckBound, UseConfig
<1>4. CASE UNCHANGED vars
  BY <1>4 DEF vars
<1>5. QED
  BY <1>1, <1>2, <1>3, <1>4 DEF LookupStep

LEMMA BegunStep == ASSUME ServeInv, [Next]_vars PROVE Begun'
<1> SUFFICES ASSUME NEW d \in Calls PROVE Standing(d)'
  BY DEF Begun
<1>0. CallTypes /\ Standing(d)
  BY DEF ServeInv, Begun
<1> USE DEF Waiting, Posting, Working, Over, Standing
<1>1. ASSUME NEW c \in Calls, Initialize(c) PROVE Standing(d)'
  BY <1>0, <1>1 DEF Initialize, Step, Goto, globals, thread, node, reader, history, CallTypes
<1>2. ASSUME NEW c \in Calls, Callback(c) PROVE Standing(d)'
  <2>1. /\ pc[c] = "done" /\ pc' = [pc EXCEPT ![c] = "answered"]
        /\ UNCHANGED <<began, found, failed, worker>>
        /\ told' = [told EXCEPT ![c] = IF failed[c] THEN "failed" ELSE "null"]
    BY <1>2 DEF Callback, Step, Goto, globals, thread, node, reader, history
  <2>2. CASE d = c
    <3>1. pc'[d] = "answered" /\ (told'[d] = "null" => ~failed[d])
      BY <1>0, <2>1, <2>2 DEF CallTypes
    <3>2. QED
      BY <1>0, <2>1, <2>2, <3>1
  <2>3. CASE d # c
    <3>1. told'[d] = told[d] /\ pc'[d] = pc[d]
      BY <1>0, <2>1, <2>3 DEF CallTypes
    <3>2. QED
      BY <1>0, <2>1, <3>1
  <2>4. QED
    BY <2>2, <2>3
<1>3. ASSUME NEW c \in Calls, InitializeLibSwitch(c) PROVE Standing(d)'
  <2>1. /\ pc[c] = "queued" /\ UNCHANGED <<told, failed, worker>>
        /\ \/ /\ pc' = [pc EXCEPT ![c] = "done"] /\ began' = began
              /\ found'[c] \in {"ready", "not ready"}
              /\ \A e \in Calls \ {c} : found'[e] = found[e]
           \/ /\ pc' = [pc EXCEPT ![c] = "config"] /\ began' = began \cup {c}
              /\ found' = found
    BY <1>0, <1>3 DEF InitializeLibSwitch, Step, Goto, globals, thread, node, reader,
                      history, CallTypes
  <2>2. CASE d = c
    BY <1>0, <2>1, <2>2 DEF CallTypes
  <2>3. CASE d # c
    BY <1>0, <2>1, <2>3 DEF CallTypes
  <2>4. QED
    BY <2>2, <2>3
<1>4. ASSUME NEW c \in Calls, Moves(c) PROVE Standing(d)'
  BY <1>0, <1>4 DEF Moves, CallTypes
<1>5. CASE Stays
  BY <1>0, <1>5 DEF Stays
<1>6. QED
  BY <1>0, <1>1, <1>2, <1>3, <1>4, <1>5, ThreadMoves, OthersStay DEF Next

LEMMA FoundReadyStep == ASSUME ServeInv, [Next]_vars PROVE FoundReady'
<1>0. CallTypes /\ Begun /\ FoundReady /\ ConfigThere
  BY DEF ServeInv
<1> USE DEF Waiting, Posting, Working, Over, Succeeded
<1>1. ASSUME NEW d \in Calls, Succeeded(d) PROVE Succeeded(d)'
  <2>1. pc[d] \in Over /\ d \in began /\ ~failed[d]
    BY <1>1
  <2>2. ASSUME NEW c \in Calls, Initialize(c) \/ Callback(c) PROVE Succeeded(d)'
    BY <1>0, <2>1, <2>2 DEF Initialize, Callback, Step, Goto, globals, thread, node,
                            reader, history, CallTypes
  <2>3. ASSUME NEW c \in Calls, InitializeLibSwitch(c) PROVE Succeeded(d)'
    BY <1>0, <2>1, <2>3 DEF InitializeLibSwitch, Step, Goto, globals, thread, node,
                            reader, history, CallTypes
  <2>4. ASSUME NEW c \in Calls, Moves(c) PROVE Succeeded(d)'
    BY <2>1, <2>4 DEF Moves
  <2>5. CASE Stays
    BY <2>1, <2>5 DEF Stays
  <2>6. QED
    BY <1>0, <2>2, <2>3, <2>4, <2>5, ThreadMoves, OthersStay DEF Next
<1>2. ASSUME NEW c \in Calls, found'[c] = "ready", found[c] # "ready"
      PROVE  \E d \in Calls : Succeeded(d)
  <2>1. InitializeLibSwitch(c)
    <3>1. ASSUME NEW b \in Calls, Initialize(b) \/ Callback(b) PROVE found' = found
      BY <3>1 DEF Initialize, Callback, history
    <3>2. ASSUME NEW b \in Calls, Moves(b) PROVE found' = found
      BY <3>2 DEF Moves
    <3>3. CASE Stays
      BY <1>2, <3>3 DEF Stays
    <3>4. ASSUME NEW b \in Calls, b # c, InitializeLibSwitch(b) PROVE found'[c] = found[c]
      BY <1>0, <3>4 DEF InitializeLibSwitch, CallTypes
    <3>5. QED
      BY <1>0, <1>2, <3>1, <3>2, <3>3, <3>4, ThreadMoves, OthersStay DEF Next
  <2>2. gConfig # NoCall /\ \A d \in began : pc[d] \in Over /\ ~failed[d]
    <3>1. gConfig # NoCall
      BY <1>2, <2>1 DEF InitializeLibSwitch
    <3>2. found'[c] = IF \A d \in began : pc[d] \in {"done", "answered"} /\ ~failed[d]
                      THEN "ready" ELSE "not ready"
      BY <1>0, <2>1, <3>1 DEF InitializeLibSwitch, CallTypes
    <3>3. QED
      BY <1>2, <3>1, <3>2
  <2>3. gConfig \in began /\ began \subseteq Calls
    BY <1>0, <2>2 DEF ConfigThere, Made, CallTypes
  <2>4. QED
    BY <2>2, <2>3
<1>3. QED
  BY <1>0, <1>1, <1>2 DEF FoundReady

-----------------------------------------------------------------------------
(* The Configs.  A step changes what a Config points to, or whether it is  *)
(* bound, in no other way than these.                                      *)
Rebound(x) ==
    /\ cfg'[x].configCore = cfg[x].configCore
    /\ cfg[x].configCore # NoCall /\ cfg'[x].bound = core[cfg[x].configCore].named

Pointed(c, x) ==
    /\ pc[c] = "publish core" /\ target[c] = x
    /\ cfg'[x].configCore = c /\ cfg'[x].bound = cfg[x].bound

Kept(x) == cfg'[x].configCore = cfg[x].configCore /\ cfg'[x].bound = cfg[x].bound

ConfigChange(x) ==
    (pc[x] = "config" /\ cfg'[x] = NewConfigObj) \/ Kept(x) \/ Rebound(x) \/ \E c \in Calls : Pointed(c, x)

LEMMA OneConfig ==
    ASSUME CfgTypes, NEW k \in Calls, NEW v \in ConfigType, cfg' = [cfg EXCEPT ![k] = v]
    PROVE  CfgTypes' /\ cfg'[k] = v /\ \A x \in Calls \ {k} : Kept(x)
BY DEF CfgTypes, Kept

LEMMA BindConfig ==
    ASSUME CfgTypes, CoreTypes, NEW k \in Calls, cfg[k].configCore # NoCall,
           libswitch_postRefreshBind(k)
    PROVE  CfgTypes' /\ Rebound(k) /\ \A x \in Calls \ {k} : Kept(x)
<1>1. PICK b : b = core[cfg[k].configCore].named
  OBVIOUS
<1>2. PICK v : v = [cfg[k] EXCEPT !.bound = b]
  OBVIOUS
<1>3. cfg[k] \in ConfigType /\ b \in BOOLEAN
  BY <1>1 DEF CfgTypes, CoreTypes, ConfigType, IsCore
<1>4. v \in ConfigType /\ v.configCore = cfg[k].configCore /\ v.bound = b
  BY <1>2, <1>3 DEF ConfigType
<1>5. cfg' = [cfg EXCEPT ![k] = v]
  BY <1>1, <1>2 DEF libswitch_postRefreshBind
<1>6. CfgTypes' /\ cfg'[k] = v /\ \A x \in Calls \ {k} : Kept(x)
  BY <1>4, <1>5, OneConfig
<1>7. QED
  BY <1>1, <1>4, <1>6 DEF Rebound

LEMMA CfgStep ==
    ASSUME ServeInv, [Next]_vars
    PROVE  CfgTypes' /\ \A x \in Calls : ConfigChange(x)
<1>0. CallTypes /\ CfgTypes /\ CoreTypes /\ ConfigThere
  BY DEF ServeInv
<1>1. CASE UNCHANGED cfg
  BY <1>0, <1>1 DEF CfgTypes, ConfigChange, Kept
<1>2. ASSUME NEW c \in Calls, NewConfig(c), ~UNCHANGED cfg
      PROVE  CfgTypes' /\ \A x \in Calls : ConfigChange(x)
  <2>1. pc[c] = "config" /\ cfg' = [cfg EXCEPT ![c] = NewConfigObj]
    BY <1>2 DEF NewConfig, Step, globals
  <2>2. NewConfigObj \in ConfigType
    BY DEF NewConfigObj, ConfigType, Paths
  <2>3. QED
    BY <1>0, <2>1, <2>2, OneConfig DEF ConfigChange
<1>3. ASSUME NEW c \in Calls, ParseConfigFile(c), ~UNCHANGED cfg
      PROVE  CfgTypes' /\ \A x \in Calls : ConfigChange(x)
  <2>1. pc[c] = "parse"
    BY <1>3 DEF ParseConfigFile, Step
  <2>2. gConfig \in Calls
    BY <1>0, <2>1 DEF ConfigThere, CallTypes, Working
  <2>3. cfg[gConfig] \in ConfigType
    BY <1>0, <2>2 DEF CfgTypes
  <2>4. PICK h \in BOOLEAN : h = (cfg[gConfig].home \/ "HomeDir" \in site.conf)
    OBVIOUS
  <2>5. PICK v : v = [cfg[gConfig] EXCEPT !.home = h,
                         !.coreFile = Given("ConfigCoreFile", cfg[gConfig].coreFile),
                         !.logFile = Given("LogFile", cfg[gConfig].logFile)]
    OBVIOUS
  <2>6. v \in ConfigType /\ v.configCore = cfg[gConfig].configCore
        /\ v.bound = cfg[gConfig].bound
    BY <2>3, <2>4, <2>5 DEF ConfigType, Given, Paths
  <2>7. cfg' = [cfg EXCEPT ![gConfig] = v]
    BY <1>0, <1>3, <2>2, <2>4, <2>5 DEF ParseConfigFile, CfgTypes
  <2>8. QED
    BY <1>0, <2>2, <2>6, <2>7, OneConfig DEF ConfigChange, Kept
<1>4. ASSUME NEW c \in Calls, PostConfig(c)
      PROVE  CfgTypes' /\ \A x \in Calls : ConfigChange(x)
  <2>1. pc[c] = "post"
    BY <1>4 DEF PostConfig, Step
  <2>2. gConfig \in Calls
    BY <1>0, <2>1 DEF ConfigThere, CallTypes, Working
  <2>3. cfg[gConfig] \in ConfigType
    BY <1>0, <2>2 DEF CfgTypes
  <2>4. PICK v : v = [cfg[gConfig] EXCEPT
                        !.coreFile = Normalized(cfg[gConfig].coreFile, cfg[gConfig].home),
                        !.logFile = Normalized(cfg[gConfig].logFile, cfg[gConfig].home)]
    OBVIOUS
  <2>5. v \in ConfigType /\ v.configCore = cfg[gConfig].configCore
        /\ v.bound = cfg[gConfig].bound
    BY <2>3, <2>4 DEF ConfigType, Normalized, Paths
  <2>6. cfg' = [cfg EXCEPT ![gConfig] = v]
    BY <1>0, <1>4, <2>2, <2>4 DEF PostConfig, CfgTypes
  <2>7. QED
    BY <1>0, <2>2, <2>5, <2>6, OneConfig DEF ConfigChange, Kept
<1>5. ASSUME NEW c \in Calls, SetConfigCore(c)
      PROVE  CfgTypes' /\ \A x \in Calls : ConfigChange(x)
  <2>1. pc[c] = "publish core" /\ cfg' = [cfg EXCEPT ![target[c]].configCore = c]
    BY <1>5 DEF SetConfigCore, Step
  <2>2. target[c] \in Calls
    BY <1>0, <2>1 DEF ConfigThere, CallTypes, Posting
  <2>3. cfg[target[c]] \in ConfigType
    BY <1>0, <2>2 DEF CfgTypes
  <2>4. PICK v : v = [cfg[target[c]] EXCEPT !.configCore = c]
    OBVIOUS
  <2>5. v \in ConfigType /\ v.configCore = c /\ v.bound = cfg[target[c]].bound
    BY <2>3, <2>4 DEF ConfigType
  <2>6. cfg' = [cfg EXCEPT ![target[c]] = v]
    BY <2>1, <2>4
  <2>7. CfgTypes' /\ cfg'[target[c]] = v /\ \A x \in Calls \ {target[c]} : Kept(x)
    BY <1>0, <2>2, <2>5, <2>6, OneConfig
  <2>8. QED
    BY <2>1, <2>5, <2>7 DEF ConfigChange, Pointed
<1>6. ASSUME NEW c \in Calls, Bind(c)
      PROVE  CfgTypes' /\ \A x \in Calls : ConfigChange(x)
  <2>1. /\ pc[c] = "bind" /\ libswitch_postRefreshBind(target[c])
    BY <1>6 DEF Bind, Step
  <2>2. target[c] \in Calls /\ cfg[target[c]].configCore # NoCall
    BY <1>0, <2>1 DEF ConfigThere, CallTypes, Posting
  <2>3. QED
    BY <1>0, <2>1, <2>2, BindConfig DEF ConfigChange
<1>7. ASSUME Rebind, ~UNCHANGED cfg
      PROVE  CfgTypes' /\ \A x \in Calls : ConfigChange(x)
  <2>1. cfg[gConfig].configCore # NoCall /\ libswitch_postRefreshBind(gConfig)
    BY <1>7 DEF Rebind
  <2>2. gConfig \in Calls
    BY <1>0, <1>7 DEF Rebind, Looking, ConfigThere, CallTypes
  <2>3. QED
    BY <1>0, <2>1, <2>2, BindConfig DEF ConfigChange
<1>8. ASSUME NEW c \in Calls,
             \/ Initialize(c) \/ Callback(c) \/ InitializeLibSwitch(c) \/ CheckHome(c)
             \/ LoadCore(c) \/ MakeHeap(c) \/ OpenDatabase(c) \/ InitServices(c) \/ InitServicesDies(c)
             \/ Publish(c) \/ StartWorker(c) \/ ReopenLog(c) \/ Worker(c)
      PROVE  UNCHANGED cfg
  BY <1>8 DEF Initialize, Callback, InitializeLibSwitch, CheckHome, LoadCore, MakeHeap,
       OpenDatabase, InitServices, InitServicesDies, Publish, StartWorker, ReopenLog, Worker, EnterLoop,
       BeginRefresh, RefreshSucceeds, RefreshFails, RefreshDies, MessageKills, WorkerEnds, globals
<1>9. CASE Lookup \/ SyncSelf \/ CheckBound \/ UseConfig \/ UNCHANGED vars
  <2>1. UNCHANGED cfg
    BY <1>9 DEF Lookup, SyncSelf, CheckBound, UseConfig, vars, globals
  <2>2. QED
    BY <1>1, <2>1
<1>10. QED
  BY <1>1, <1>2, <1>3, <1>4, <1>5, <1>6, <1>7, <1>8, <1>9
     DEF Next, Thread, LookupStep

-----------------------------------------------------------------------------
(* The config_cores.                                                       *)
\* With the heap made, the paths are those of the document that was read.
Placed(r) ==
    r.sheap => /\ r.cc.homeDir # Null
               /\ r.dir = Directory(r.cc) /\ r.space = Space(r.cc)

LEMMA FlippedCore ==
    ASSUME NEW r, IsCore(r), NEW s, s = Flipped(r)
    PROVE  /\ IsCore(s) /\ s.flip = FALSE /\ (r.named => s.named) /\ s.cc = r.cc
           /\ Placed(r) => Placed(s)
<1>1. PICK t : t = (r.named \/ (Fetched(r) /\ \E n \in DOMAIN r.cc.services :
                                  r.cc.services[n].name = SwitchConfigName))
  OBVIOUS
<1>2. s = [cc |-> r.cc, sheap |-> r.sheap, dir |-> r.dir, space |-> r.space,
           item |-> r.item, named |-> t, flip |-> FALSE]
  BY <1>1 DEF IsCore, Flipped
<1>3. t \in BOOLEAN /\ (r.named => t)
  BY <1>1 DEF IsCore
<1>4. QED
  BY <1>2, <1>3 DEF IsCore, Placed

LEMMA CoreItem ==
    ASSUME NEW r, IsCore(r), NEW b, NEW s, s = [r EXCEPT !.item = b]
    PROVE  /\ IsCore(s) /\ (s.named <=> r.named) /\ (s.flip => r.flip) /\ s.cc = r.cc
           /\ Placed(r) => Placed(s)
<1>1. s = [cc |-> r.cc, sheap |-> r.sheap, dir |-> r.dir, space |-> r.space,
           item |-> b, named |-> r.named, flip |-> r.flip]
  BY DEF IsCore
<1>2. QED
  BY <1>1 DEF IsCore, Placed

LEMMA CoreHeap ==
    ASSUME NEW r, IsCore(r), r.cc.homeDir # Null,
           NEW s, s = [r EXCEPT !.sheap = TRUE, !.dir = Directory(r.cc), !.space = Space(r.cc)]
    PROVE  IsCore(s) /\ (s.named <=> r.named) /\ (s.flip => r.flip) /\ s.cc = r.cc /\ Placed(s)
<1>1. PICK x, y : x = Directory(r.cc) /\ y = Space(r.cc)
  OBVIOUS
<1>2. s = [cc |-> r.cc, sheap |-> TRUE, dir |-> x, space |-> y, item |-> r.item,
           named |-> r.named, flip |-> r.flip]
  BY <1>1 DEF IsCore
<1>3. QED
  BY <1>1, <1>2 DEF IsCore, Placed

LEMMA CoreFlip ==
    ASSUME NEW r, IsCore(r), NEW s, s = [r EXCEPT !.flip = TRUE]
    PROVE  IsCore(s) /\ (s.named <=> r.named) /\ s.cc = r.cc /\ (Placed(r) => Placed(s))
<1>1. s = [cc |-> r.cc, sheap |-> r.sheap, dir |-> r.dir, space |-> r.space,
           item |-> r.item, named |-> r.named, flip |-> TRUE]
  BY DEF IsCore
<1>2. QED
  BY <1>1 DEF IsCore, Placed

\* A service once found stays, and is found only by a publish or by a worker; a
\* flip is left only by a worker; what config-core.xml said stays, and so do the
\* paths made of it.
CoreChange(x) ==
    /\ core'[x].cc = core[x].cc \/ LoadCore(x)
    /\ core[x].named => core'[x].named \/ pc[x] = "load"
    /\ core'[x].named => core[x].named \/ worker[x] # "none" \/ pc'[x] = "start"
    /\ core'[x].flip => core[x].flip \/ worker[x] # "none"
    /\ Placed(core[x]) => Placed(core'[x])

LEMMA OneCore ==
    ASSUME CoreTypes, NEW k \in Calls, NEW v, IsCore(v), core' = [core EXCEPT ![k] = v],
           core[k].named => v.named \/ pc[k] = "load",
           v.named => core[k].named \/ worker[k] # "none" \/ pc'[k] = "start",
           v.flip => core[k].flip \/ worker[k] # "none",
           v.cc = core[k].cc \/ LoadCore(k), Placed(core[k]) => Placed(v)
    PROVE  CoreTypes' /\ \A x \in Calls : CoreChange(x)
<1>1. core'[k] = v /\ \A x \in Calls \ {k} : core'[x] = core[x]
  BY DEF CoreTypes
<1>2. CoreTypes'
  BY <1>1 DEF CoreTypes
<1>3. CoreChange(k)
  BY <1>1 DEF CoreChange
<1>4. \A x \in Calls \ {k} : CoreChange(x)
  BY <1>1 DEF CoreChange
<1>5. QED
  BY <1>2, <1>3, <1>4

LEMMA CoreStep ==
    ASSUME ServeInv, [Next]_vars
    PROVE  CoreTypes' /\ \A x \in Calls : CoreChange(x)
<1>0. CallTypes /\ CfgTypes /\ CoreTypes /\ ConfigThere /\ Served
  BY DEF ServeInv
<1>1. CASE UNCHANGED core
  BY <1>0, <1>1 DEF CoreTypes, CoreChange
<1>a. \A c \in Calls : IsCore(core[c])
  BY <1>0 DEF CoreTypes
<1>2. ASSUME NEW c \in Calls, LoadCore(c), ~UNCHANGED core
      PROVE  CoreTypes' /\ \A x \in Calls : CoreChange(x)
  <2>1. PICK v : v = [NewCore EXCEPT !.cc = Read[site.doc].cc]
    OBVIOUS
  <2>2. IsCore(v) /\ v.named = FALSE /\ v.flip = FALSE /\ Placed(v)
    BY <2>1 DEF NewCore, IsCore, Placed
  <2>3. pc[c] = "load" /\ core' = [core EXCEPT ![c] = v]
    BY <1>2, <2>1 DEF LoadCore, SetCore, Step
  <2>4. QED
    BY <1>0, <1>2, <2>2, <2>3, OneCore
<1>3. ASSUME NEW c \in Calls, MakeHeap(c), ~UNCHANGED core
      PROVE  CoreTypes' /\ \A x \in Calls : CoreChange(x)
  <2>1. PICK v : v = [core[c] EXCEPT !.sheap = TRUE, !.dir = Directory(core[c].cc),
                                     !.space = Space(core[c].cc)]
    OBVIOUS
  <2>3. core[c].cc.homeDir # Null /\ core' = [core EXCEPT ![c] = v]
    BY <1>3, <2>1 DEF MakeHeap, SetCore
  <2>2. IsCore(v) /\ (v.named <=> core[c].named) /\ (v.flip => core[c].flip)
        /\ v.cc = core[c].cc /\ Placed(v)
    BY <1>a, <2>1, <2>3, CoreHeap
  <2>4. QED
    BY <1>0, <2>2, <2>3, OneCore
<1>4. ASSUME NEW c \in Calls, InitServices(c), ~UNCHANGED core
      PROVE  CoreTypes' /\ \A x \in Calls : CoreChange(x)
  <2>1. PICK built : SetCore(c, [core[c] EXCEPT !.item = built # {}])
    BY <1>4 DEF InitServices
  <2>2. PICK t \in BOOLEAN : t = (built # {})
    OBVIOUS
  <2>3. PICK v : v = [core[c] EXCEPT !.item = t]
    OBVIOUS
  <2>4. IsCore(v) /\ (v.named <=> core[c].named) /\ (v.flip => core[c].flip)
        /\ v.cc = core[c].cc /\ (Placed(core[c]) => Placed(v))
    <3>1. IsCore(core[c])
      BY <1>a
    <3>2. QED
      BY <2>3, <3>1, CoreItem
  <2>5. core' = [core EXCEPT ![c] = v]
    BY <2>1, <2>2, <2>3 DEF SetCore
  <2>6. QED
    BY <1>0, <2>4, <2>5, OneCore
<1>5. ASSUME NEW c \in Calls, NEW r, IsCore(r), core[c].named => r.named, r.cc = core[c].cc,
             Placed(core[c]) => Placed(r),
             SetCore(c, Flipped(r)), worker[c] # "none" \/ pc'[c] = "start"
      PROVE  CoreTypes' /\ \A x \in Calls : CoreChange(x)
  <2>1. PICK v : v = Flipped(r)
    OBVIOUS
  <2>2. IsCore(v) /\ v.flip = FALSE /\ (core[c].named => v.named) /\ v.cc = core[c].cc
        /\ (Placed(core[c]) => Placed(v))
    BY <1>5, <2>1, FlippedCore
  <2>3. core' = [core EXCEPT ![c] = v]
    BY <1>5, <2>1 DEF SetCore
  <2>4. QED
    BY <1>0, <1>5, <2>2, <2>3, OneCore
<1>6. ASSUME NEW c \in Calls, Publish(c)
      PROVE  CoreTypes' /\ \A x \in Calls : CoreChange(x)
  <2>1. SetCore(c, Flipped(core[c])) /\ pc'[c] = "start"
    BY <1>0, <1>6 DEF Publish, Step, Goto, CallTypes
  <2>2. QED
    BY <1>5, <1>a, <2>1
<1>7. ASSUME NEW c \in Calls, RefreshSucceeds(c)
      PROVE  CoreTypes' /\ \A x \in Calls : CoreChange(x)
  <2>1. PICK r : r = [core[c] EXCEPT !.item = TRUE]
    OBVIOUS
  <2>2. IsCore(r) /\ (r.named <=> core[c].named) /\ r.cc = core[c].cc
        /\ (Placed(core[c]) => Placed(r))
    BY <1>a, <2>1, CoreItem
  <2>3. worker[c] = "refreshing"
    BY <1>7 DEF RefreshSucceeds, Running
  <2>4. \/ SetCore(c, Flipped(r))
        \/ core' = [core EXCEPT ![c] = [r EXCEPT !.flip = TRUE]]
    BY <1>7, <2>1 DEF RefreshSucceeds, SetCore
  <2>5. CASE SetCore(c, Flipped(r))
    BY <1>5, <2>2, <2>3, <2>5
  <2>6. CASE core' = [core EXCEPT ![c] = [r EXCEPT !.flip = TRUE]]
    <3>1. PICK v : v = [r EXCEPT !.flip = TRUE]
      OBVIOUS
    <3>2. IsCore(v) /\ (v.named <=> core[c].named) /\ v.cc = core[c].cc
          /\ (Placed(core[c]) => Placed(v))
      BY <2>2, <3>1, CoreFlip
    <3>3. QED
      BY <1>0, <2>3, <2>6, <3>1, <3>2, OneCore
  <2>7. QED
    BY <2>4, <2>5, <2>6
<1>8. ASSUME SyncSelf, ~UNCHANGED core
      PROVE  CoreTypes' /\ \A x \in Calls : CoreChange(x)
  <2>1. PICK c : /\ c = cfg[gConfig].configCore /\ gConfig # NoCall /\ c # NoCall
                 /\ core[c].flip /\ SetCore(c, Flipped(core[c]))
    BY <1>8 DEF SyncSelf
  <2>2. c \in Calls
    BY <1>0, <2>1 DEF CallTypes, CfgTypes, ConfigType
  <2>3. worker[c] # "none"
    BY <1>0, <2>1, <2>2 DEF Served
  <2>4. QED
    BY <1>5, <1>a, <2>1, <2>2, <2>3
<1>9. ASSUME NEW c \in Calls,
             \/ Initialize(c) \/ Callback(c) \/ InitializeLibSwitch(c) \/ NewConfig(c)
             \/ ParseConfigFile(c) \/ CheckHome(c) \/ PostConfig(c) \/ OpenDatabase(c)
             \/ InitServicesDies(c) \/ StartWorker(c) \/ ReopenLog(c) \/ SetConfigCore(c)
             \/ Bind(c) \/ EnterLoop(c) \/ MessageKills(c) \/ BeginRefresh(c)
             \/ RefreshFails(c) \/ RefreshDies(c)
      PROVE  UNCHANGED core
  BY <1>9 DEF Initialize, Callback, InitializeLibSwitch, NewConfig, ParseConfigFile,
       CheckHome, PostConfig, OpenDatabase, InitServicesDies, StartWorker, ReopenLog,
       SetConfigCore, Bind, EnterLoop, BeginRefresh, RefreshFails, RefreshDies, MessageKills, WorkerEnds, thread
<1>10. CASE Lookup \/ Rebind \/ CheckBound \/ UseConfig \/ UNCHANGED vars
  <2>1. UNCHANGED core
    BY <1>10 DEF Lookup, Rebind, CheckBound, UseConfig, vars, thread
  <2>2. QED
    BY <1>1, <2>1
<1>11. QED
  BY <1>1, <1>2, <1>3, <1>4, <1>6, <1>7, <1>8, <1>9, <1>10
     DEF Next, Thread, Worker, LookupStep

LEMMA WorkerStep ==
    ASSUME ServeInv, [Next]_vars, NEW d \in Calls
    PROVE  /\ worker[d] # "none" => worker'[d] # "none"
           /\ pc[d] = "start" => worker'[d] # "none" \/ pc'[d] = "start"
<1>0. CallTypes
  BY DEF ServeInv
<1> USE DEF Step, Goto, Become, Running, Looking, globals, thread, reader, node, history
<1>1. ASSUME NEW c \in Calls, StartWorker(c)
      PROVE  worker'[c] # "none" /\ \A e \in Calls \ {c} : UNCHANGED <<worker[e], pc[e]>>
  BY <1>0, <1>1 DEF StartWorker, CallTypes
<1>2. ASSUME NEW c \in Calls, Worker(c)
      PROVE  UNCHANGED pc /\ worker'[c] # "none" /\ \A e \in Calls \ {c} : UNCHANGED worker[e]
  BY <1>0, <1>2 DEF Worker, EnterLoop, BeginRefresh, RefreshSucceeds, RefreshFails,
                    RefreshDies, MessageKills, WorkerEnds, CallTypes
<1>3. ASSUME NEW c \in Calls,
             \/ Initialize(c) \/ Callback(c) \/ InitializeLibSwitch(c) \/ NewConfig(c)
             \/ ParseConfigFile(c) \/ CheckHome(c) \/ PostConfig(c) \/ LoadCore(c)
             \/ MakeHeap(c) \/ OpenDatabase(c) \/ InitServices(c) \/ InitServicesDies(c) \/ Publish(c)
             \/ ReopenLog(c) \/ SetConfigCore(c) \/ Bind(c)
      PROVE  UNCHANGED worker /\ (pc[c] = "start" => FALSE)
             /\ \A e \in Calls \ {c} : UNCHANGED pc[e]
  BY <1>0, <1>3 DEF Initialize, Callback, InitializeLibSwitch, NewConfig, ParseConfigFile,
       CheckHome, PostConfig, LoadCore, MakeHeap, OpenDatabase, InitServices, InitServicesDies, Publish,
       ReopenLog, SetConfigCore, Bind, CallTypes
<1>4. CASE Lookup \/ LookupStep \/ UNCHANGED vars
  BY <1>4 DEF Lookup, LookupStep, SyncSelf, Rebind, CheckBound, UseConfig, vars
<1>5. QED
  BY <1>1, <1>2, <1>3, <1>4 DEF Next, Thread

LEMMA ServedStep == ASSUME ServeInv, [Next]_vars PROVE Served'
<1> SUFFICES ASSUME NEW d \in Calls
    PROVE  /\ core'[d].named => worker'[d] # "none" \/ pc'[d] = "start"
           /\ core'[d].flip => worker'[d] # "none"
  BY DEF Served
<1>1. CoreChange(d) /\ Served
  BY CoreStep DEF ServeInv
<1>2. QED
  BY <1>1, WorkerStep DEF Served, CoreChange

-----------------------------------------------------------------------------
(* The pointers of a call.                                                 *)
PointerChange(d) ==
    /\ pc'[d] = "config" => pc[d] \in {"queued", "config"}
    /\ pc'[d] \in Working \ {"config"} =>
          pc[d] \in Working \ {"config"} \/ (pc[d] = "config" /\ gConfig' = d)
    /\ target'[d] = target[d] \/ (pc[d] = "post" /\ target'[d] = gConfig)
    /\ pc'[d] \in Posting =>
          pc[d] \in Posting \/ (pc[d] = "post" /\ target'[d] = gConfig)
    /\ pc'[d] = "bind" => pc[d] = "bind" \/ SetConfigCore(d)
    /\ pc[d] \in Posting => target'[d] = target[d]

LEMMA PointerStep ==
    ASSUME ServeInv, [Next]_vars
    PROVE  /\ gConfig' = gConfig
              \/ \E c \in Calls : pc[c] = "config" /\ pc'[c] = "parse" /\ gConfig' = c
           /\ \A d \in Calls : PointerChange(d)
<1> DEFINE Goal == /\ gConfig' = gConfig
                      \/ \E c \in Calls : pc[c] = "config" /\ pc'[c] = "parse" /\ gConfig' = c
                   /\ \A d \in Calls : PointerChange(d)
<1>0. CallTypes
  BY DEF ServeInv
<1>1. CASE UNCHANGED <<gConfig, target, pc>>
  BY <1>1 DEF PointerChange, Posting, Working
<1> USE DEF Step, Goto, Running, Looking, globals, thread, reader, node, history
<1>2. ASSUME NEW c \in Calls, pc' = [pc EXCEPT ![c] = pc'[c]], UNCHANGED gConfig,
             \/ UNCHANGED target
                /\ \/ pc'[c] \in Waiting \cup Over
                   \/ pc[c] = "queued" /\ pc'[c] = "config"
                   \/ pc[c] = pc'[c]
                   \/ pc[c] \in {"parse", "home"} /\ pc'[c] \in {"home", "post"}
                   \/ pc[c] \in Posting /\ pc'[c] \in Posting \ {"bind"}
                   \/ pc[c] = "publish core" /\ pc'[c] = "bind" /\ SetConfigCore(c)
             \/ /\ target' = [target EXCEPT ![c] = gConfig]
                /\ pc[c] = "post" /\ pc'[c] = "load"
      PROVE  Goal
  <2>1. \A d \in Calls \ {c} : pc'[d] = pc[d] /\ target'[d] = target[d]
    BY <1>0, <1>2 DEF CallTypes
  <2>2. ASSUME NEW d \in Calls \ {c} PROVE PointerChange(d)
    BY <2>1, <2>2 DEF PointerChange, Posting, Working
  <2>3. PointerChange(c)
    BY <1>0, <1>2 DEF PointerChange, Posting, Working, Waiting, Over, CallTypes
  <2>4. QED
    BY <1>2, <2>2, <2>3
<1>3. ASSUME NEW c \in Calls, Initialize(c) \/ Callback(c) \/ InitializeLibSwitch(c) PROVE Goal
  BY <1>0, <1>2, <1>3 DEF Initialize, Callback, InitializeLibSwitch, CallTypes, Waiting, Over
<1>4. ASSUME NEW c \in Calls, NewConfig(c) PROVE Goal
  <2>1. CASE UNCHANGED pc /\ UNCHANGED gConfig
    BY <1>1, <1>4, <2>1 DEF NewConfig
  <2>2. CASE pc[c] = "config" /\ pc' = [pc EXCEPT ![c] = "parse"] /\ gConfig' = c
    <3>1. UNCHANGED target /\ pc'[c] = "parse" /\ \A d \in Calls \ {c} : pc'[d] = pc[d]
      BY <1>0, <1>4, <2>2 DEF NewConfig, CallTypes
    <3>2. QED
      BY <2>2, <3>1 DEF PointerChange, Posting, Working
  <2>3. QED
    <3>1. CASE pc' = [pc EXCEPT ![c] = "config"] /\ pc[c] = "config"
      BY <1>0, <1>4, <2>1, <2>2, <3>1 DEF NewConfig, CallTypes
    <3>2. QED
      BY <1>4, <2>2, <3>1 DEF NewConfig
<1>5. ASSUME NEW c \in Calls, ParseConfigFile(c) \/ CheckHome(c) \/ PostConfig(c) PROVE Goal
  BY <1>0, <1>2, <1>5 DEF ParseConfigFile, CheckHome, PostConfig, CallTypes, Over
<1>6. ASSUME NEW c \in Calls, LoadCore(c) \/ MakeHeap(c) \/ OpenDatabase(c) \/ InitServices(c) \/ InitServicesDies(c)
      PROVE  Goal
  <2>1. CASE LoadCore(c)
    <3>1. Loads(c)
      BY <2>1, LoadCoreLoads
    <3>2. CASE UNCHANGED pc
      BY <1>1, <3>1, <3>2 DEF Loads
    <3>3. CASE ~UNCHANGED pc
      <4>1. /\ pc' = [pc EXCEPT ![c] = pc'[c]] /\ UNCHANGED <<gConfig, target>>
            /\ pc[c] = "load" /\ pc'[c] \in {"hung", "heap", "done"}
        BY <1>0, <3>1, <3>3 DEF Loads, CallTypes
      <4>2. QED
        BY <1>2, <4>1 DEF Over, Posting
    <3>4. QED
      BY <3>2, <3>3
  <2>2. CASE MakeHeap(c) \/ OpenDatabase(c)
    BY <1>0, <1>2, <2>2 DEF MakeHeap, OpenDatabase, CallTypes, Posting
  <2>3. CASE InitServices(c) \/ InitServicesDies(c)
    BY <1>0, <1>2, <2>3 DEF InitServices, InitServicesDies, CallTypes, Posting
  <2>4. QED
    BY <1>6, <2>1, <2>2, <2>3
<1>7. ASSUME NEW c \in Calls,
             Publish(c) \/ StartWorker(c) \/ ReopenLog(c) \/ SetConfigCore(c) \/ Bind(c)
      PROVE  Goal
  BY <1>0, <1>2, <1>7 DEF Publish, StartWorker, ReopenLog, SetConfigCore, Bind, CallTypes,
                          Over, Posting
<1>8. ASSUME NEW c \in Calls, Worker(c) PROVE Goal
  <2>1. UNCHANGED <<gConfig, target, pc>>
    BY <1>8 DEF Worker, EnterLoop, BeginRefresh, RefreshSucceeds, RefreshFails,
                RefreshDies, MessageKills, WorkerEnds
  <2>2. QED
    BY <1>1, <2>1
<1>9. CASE Lookup \/ LookupStep \/ UNCHANGED vars
  <2>1. UNCHANGED <<gConfig, target, pc>>
    BY <1>9 DEF Lookup, LookupStep, SyncSelf, Rebind, CheckBound, UseConfig, vars
  <2>2. QED
    BY <1>1, <2>1
<1>10. QED
  BY <1>3, <1>4, <1>5, <1>6, <1>7, <1>8, <1>9 DEF Next, Thread

LEMMA MadeStays ==
    ASSUME ServeInv, [Next]_vars, NEW d \in Calls, Made(d)
    PROVE  Made(d)'
<1>1. pc[d] \notin Waiting /\ pc[d] # "config" /\ d \in began /\ CallTypes
  BY DEF ServeInv, Begun, Standing, Made
<1>2. pc'[d] # "config"
  BY <1>1, PointerStep DEF PointerChange, Waiting
<1>3. began \subseteq began'
  <2>1. ASSUME NEW c \in Calls, Initialize(c) \/ Callback(c) \/ InitializeLibSwitch(c)
        PROVE  began \subseteq began'
    BY <2>1 DEF Initialize, Callback, InitializeLibSwitch, history
  <2>2. ASSUME NEW c \in Calls, Moves(c) PROVE began' = began
    BY <2>2 DEF Moves
  <2>3. CASE Stays
    BY <2>3 DEF Stays
  <2>4. QED
    BY <1>1, <2>1, <2>2, <2>3, ThreadMoves, OthersStay DEF Next
<1>4. QED
  BY <1>1, <1>2, <1>3 DEF Made

LEMMA ConfigThereStep == ASSUME ServeInv, [Next]_vars PROVE ConfigThere'
<1>0. CallTypes /\ CallTypes' /\ CfgTypes /\ ConfigThere /\ Begun
  BY CallTypesStep DEF ServeInv
<1>1. gConfig' # NoCall => Made(gConfig)'
  <2>1. CASE gConfig' = gConfig
    <3>1. CASE gConfig = NoCall
      BY <2>1, <3>1
    <3>2. CASE gConfig # NoCall
      <4>1. gConfig \in Calls /\ Made(gConfig)
        BY <1>0, <3>2 DEF ConfigThere, CallTypes
      <4>2. PICK g \in Calls : g = gConfig /\ Made(g)
        BY <4>1
      <4>3. Made(g)'
        BY <4>2, MadeStays
      <4>4. QED
        BY <2>1, <4>2, <4>3 DEF Made
    <3>3. QED
      BY <3>1, <3>2
  <2>2. ASSUME NEW c \in Calls, pc[c] = "config", pc'[c] = "parse", gConfig' = c
        PROVE  Made(gConfig)'
    <3>1. found[c] = "nothing" /\ c \in began
      BY <1>0, <2>2 DEF Begun, Standing, Waiting, Over
    <3>2. ASSUME NEW b \in Calls, Initialize(b) \/ Callback(b) \/ InitializeLibSwitch(b)
          PROVE  gConfig' = gConfig
      BY <3>2 DEF Initialize, Callback, InitializeLibSwitch, globals
    <3>3. ASSUME NEW b \in Calls, Moves(b) PROVE began' = began
      BY <3>3 DEF Moves
    <3>4. began' = began \/ gConfig' = gConfig
      BY <1>0, <3>2, <3>3, ThreadMoves, OthersStay DEF Next, Stays
    <3>5. CASE began' = began
      BY <2>2, <3>1, <3>5 DEF Made
    <3>6. CASE gConfig' = gConfig
      BY <2>1, <2>2, <3>6, NoCallAssumption
    <3>7. QED
      BY <3>4, <3>5, <3>6
  <2>3. QED
    BY <2>1, <2>2, PointerStep
<1>2. gConfig # NoCall => gConfig' # NoCall
  BY <1>0, NoCallAssumption, PointerStep
<1>3. main' # "idle" => main' = "sync" \/ gConfig' # NoCall
  <2>1. ASSUME NEW c \in Calls, Initialize(c) \/ Callback(c) \/ Thread(c) \/ Worker(c)
        PROVE  main' = main
    BY <2>1 DEF Initialize, Callback, Thread, InitializeLibSwitch, NewConfig,
         ParseConfigFile, CheckHome, PostConfig, LoadCore, MakeHeap, OpenDatabase,
         InitServices, InitServicesDies, Publish, StartWorker, ReopenLog, SetConfigCore, Bind, Worker,
         EnterLoop, BeginRefresh, RefreshSucceeds, RefreshFails, RefreshDies, MessageKills, WorkerEnds, node,
         reader
  <2>2. CASE Lookup \/ SyncSelf \/ Rebind
    BY <1>0, <2>2 DEF Lookup, SyncSelf, Rebind, Looking, ConfigThere, globals
  <2>3. CASE CheckBound \/ UseConfig \/ UNCHANGED vars
    BY <1>0, <2>3 DEF CheckBound, UseConfig, Looking, ConfigThere, globals, vars, node, reader
  <2>4. QED
    BY <1>0, <1>2, <2>1, <2>2, <2>3 DEF Next, LookupStep, ConfigThere
<1>4. ASSUME NEW c \in Calls
      PROVE  /\ pc'[c] \in Working \ {"config"} => gConfig' # NoCall
             /\ pc'[c] \in Posting => target'[c] # NoCall
             /\ target'[c] # NoCall => Made(target[c])'
             /\ pc'[c] = "bind" => cfg'[target'[c]].configCore # NoCall
  <2>0. PointerChange(c)
    BY PointerStep
  <2>1. pc'[c] \in Working \ {"config"} => gConfig' # NoCall
    BY <1>0, <1>2, <2>0, NoCallAssumption DEF PointerChange, ConfigThere
  <2>2. pc'[c] \in Posting => target'[c] # NoCall
    BY <1>0, <2>0 DEF PointerChange, ConfigThere, Working
  <2>3. target'[c] # NoCall => Made(target[c])'
    <3>1. ASSUME target'[c] # NoCall PROVE Made(target'[c])
      BY <1>0, <2>0, <3>1 DEF PointerChange, ConfigThere, Working
    <3>2. ASSUME NEW t \in Calls, Made(t) PROVE Made(t)'
      BY <3>2, MadeStays
    <3>3. QED
      BY <1>0, <3>1, <3>2 DEF Made, CallTypes
  <2>4. ASSUME pc'[c] = "bind" PROVE cfg'[target'[c]].configCore # NoCall
    <3>1. CASE pc[c] = "bind"
      <4>1. target'[c] = target[c] /\ target[c] \in Calls /\ pc[target[c]] # "config"
            /\ cfg[target[c]].configCore # NoCall
        BY <1>0, <2>0, <3>1 DEF PointerChange, ConfigThere, Posting, Made, CallTypes
      <4>2. ConfigChange(target[c])
        BY <4>1, CfgStep
      <4>3. QED
        BY <4>1, <4>2, NoCallAssumption DEF ConfigChange, Kept, Rebound, Pointed
    <3>2. CASE SetConfigCore(c)
      <4>1. target' = target /\ pc[c] = "publish core"
        BY <3>2 DEF SetConfigCore, Step
      <4>2. target[c] \in Calls
        <5>1. target[c] # NoCall
          BY <1>0, <4>1 DEF ConfigThere, Posting
        <5>2. target[c] \in Calls \cup {NoCall}
          BY <1>0 DEF CallTypes
        <5>3. QED
          BY <5>1, <5>2
      <4>3. cfg' = [cfg EXCEPT ![target[c]].configCore = c] /\ cfg[target[c]] \in ConfigType
        BY <1>0, <3>2, <4>2 DEF SetConfigCore, CfgTypes
      <4>4. cfg'[target[c]].configCore = c
        BY <1>0, <4>2, <4>3 DEF CfgTypes, ConfigType
      <4>5. QED
        BY <4>1, <4>4, NoCallAssumption
    <3>3. QED
      BY <2>0, <2>4, <3>1, <3>2 DEF PointerChange
  <2>5. QED
    BY <2>1, <2>2, <2>3, <2>4
<1>5. QED
  BY <1>1, <1>3, <1>4 DEF ConfigThere

-----------------------------------------------------------------------------
(* The only call that began.                                               *)
LEMMA SuccessStep ==
    ASSUME ServeInv, [Next]_vars, NEW d \in Calls, Succeeded(d)'
    PROVE  Succeeded(d) \/ (Bind(d) /\ ~failed'[d])
<1>0. CallTypes /\ CallTypes' /\ Begun /\ Begun'
  BY CallTypesStep, BegunStep DEF ServeInv
<1>1. pc'[d] \in Over /\ ~failed'[d] /\ found'[d] = "nothing"
  BY <1>0 DEF Succeeded, Begun, Standing
<1>7. CallTypes
  BY <1>0
<1> USE DEF Over, Waiting, Working, Posting, Succeeded
<1>2. ASSUME NEW c \in Calls, Initialize(c) \/ Callback(c) PROVE Succeeded(d)
  <2>1. /\ UNCHANGED <<failed, began>> /\ (pc'[c] = "queued" \/ pc[c] = "done")
        /\ \A e \in Calls \ {c} : pc'[e] = pc[e]
    BY <1>7, <1>2 DEF Initialize, Callback, Step, Goto, thread, history, CallTypes
  <2>2. QED
    BY <1>1, <2>1
<1>3. ASSUME NEW c \in Calls, InitializeLibSwitch(c) PROVE Succeeded(d)
  <2>1. d # c
    <3>1. pc[c] = "queued" /\ (pc' = [pc EXCEPT ![c] = "config"] \/ found'[c] # "nothing")
      BY <1>7, <1>3 DEF InitializeLibSwitch, Step, Goto, CallTypes
    <3>2. QED
      BY <1>1, <1>7, <3>1 DEF CallTypes
  <2>2. pc'[d] = pc[d] /\ failed' = failed /\ found'[d] = found[d]
    <3>1. pc'[d] = pc[d] /\ failed' = failed
      BY <1>7, <1>3, <2>1 DEF InitializeLibSwitch, Step, Goto, CallTypes
    <3>2. CASE gConfig = NoCall
      BY <1>3, <3>1, <3>2 DEF InitializeLibSwitch
    <3>3. CASE gConfig # NoCall
      <4>1. PICK f : found' = [found EXCEPT ![c] = f]
        BY <1>3, <3>3 DEF InitializeLibSwitch
      <4>2. QED
        BY <1>7, <2>1, <3>1, <4>1 DEF CallTypes
    <3>4. QED
      BY <3>2, <3>3
  <2>3. QED
    BY <1>0, <1>1, <2>2 DEF Begun, Standing
<1>4. ASSUME NEW c \in Calls, Thread(c), ~InitializeLibSwitch(c)
      PROVE  Succeeded(d) \/ (Bind(d) /\ ~failed'[d])
  <2>1. Moves(c)
    BY <1>0, <1>4, ThreadMoves
  <2>2. CASE d # c
    BY <1>0, <1>1, <2>1, <2>2 DEF Moves
  <2>3. CASE d = c /\ ~Bind(c)
    <3> USE DEF Step, Goto, Fail, thread, globals
    <3>1. CASE NewConfig(c) \/ ParseConfigFile(c) \/ CheckHome(c)
      <4>1. pc'[c] \notin Over \/ failed'[c]
        BY <1>7, <3>1 DEF NewConfig, ParseConfigFile, CheckHome, CallTypes
      <4>2. QED
        BY <1>1, <2>3, <4>1
    <3>2. CASE PostConfig(c) \/ LoadCore(c)
      <4>1. pc'[c] \notin Over \/ failed'[c]
        BY <1>7, <2>1, <3>2 DEF PostConfig, LoadCore, CallTypes, Moves
      <4>2. QED
        BY <1>1, <2>3, <4>1
    <3>3. CASE \/ MakeHeap(c) \/ OpenDatabase(c) \/ InitServices(c) \/ InitServicesDies(c) \/ Publish(c)
               \/ StartWorker(c) \/ ReopenLog(c) \/ SetConfigCore(c)
      <4>1. pc'[c] \notin Over
        BY <1>7, <3>3 DEF MakeHeap, OpenDatabase, InitServices, InitServicesDies, Publish, StartWorker,
                          ReopenLog, SetConfigCore, CallTypes
      <4>2. QED
        BY <1>1, <2>3, <4>1
    <3>4. QED
      BY <1>4, <2>3, <3>1, <3>2, <3>3 DEF Thread
  <2>4. QED
    BY <1>1, <2>2, <2>3
<1>5. CASE Stays
  BY <1>0, <1>1, <1>5 DEF Stays
<1>6. QED
  BY <1>0, <1>2, <1>3, <1>4, <1>5, OthersStay DEF Next

LEMMA AloneStep == ASSUME ServeInv, [Next]_vars PROVE Alone'
<1>0. /\ CallTypes /\ CfgTypes /\ CoreTypes /\ ConfigThere /\ Begun /\ Alone
      /\ CallTypes' /\ ConfigThere' /\ Begun'
  BY CallTypesStep, ConfigThereStep, BegunStep DEF ServeInv
<1> SUFFICES ASSUME Single', NEW d \in began'
    PROVE  /\ pc'[d] \in Posting => target'[d] = d
           /\ pc'[d] = "bind" => cfg'[d].configCore = d
           /\ Succeeded(d)' =>
                 gConfig' = d /\ cfg'[d].configCore = d /\ cfg'[d].bound /\ core'[d].named
  BY DEF Alone
<1>1. d \in Calls /\ (gConfig' # NoCall => gConfig' = d)
  BY <1>0 DEF ConfigThere, Made, Single, CallTypes
<1>2. began \subseteq began'
  <2>1. ASSUME NEW c \in Calls, Initialize(c) \/ Callback(c) \/ InitializeLibSwitch(c)
        PROVE  began \subseteq began'
    BY <2>1 DEF Initialize, Callback, InitializeLibSwitch, history
  <2>2. ASSUME NEW c \in Calls, Moves(c) PROVE began' = began
    BY <2>2 DEF Moves
  <2>3. QED
    BY <1>0, <2>1, <2>2, ThreadMoves, OthersStay DEF Next, Stays
<1>3. \A c \in began : c = d
  BY <1>2 DEF Single
<1>4. d \in began => /\ pc[d] \in Posting => target[d] = d
                     /\ pc[d] = "bind" => cfg[d].configCore = d
                     /\ Succeeded(d) => gConfig = d /\ cfg[d].configCore = d
                                        /\ cfg[d].bound /\ core[d].named
  BY <1>0, <1>3 DEF Alone, Single
<1>5. \A c \in Calls : pc[c] \in Working => c \in began /\ c = d
  BY <1>0, <1>3 DEF Begun, Standing, Working, Posting, Waiting, Over
<1>6. gConfig # NoCall => gConfig = d /\ pc[d] # "config"
  BY <1>0, <1>3 DEF ConfigThere, Made
<1>7. PointerChange(d) /\ ConfigChange(d) /\ CoreChange(d)
  BY <1>1, PointerStep, CfgStep, CoreStep
<1>8. pc'[d] \in Posting => target'[d] = d
  <2>1. CASE pc[d] \in Posting
    BY <1>1, <1>4, <1>5, <1>7, <2>1 DEF PointerChange, Working
  <2>2. CASE pc[d] = "post"
    <3>1. gConfig = d
      BY <1>0, <1>1, <1>6, <2>2 DEF ConfigThere, Working
    <3>2. QED
      BY <1>7, <2>2, <3>1 DEF PointerChange, Posting
  <2>3. QED
    BY <1>7, <2>1, <2>2 DEF PointerChange
<1>9. ASSUME pc[d] # "config", cfg[d].configCore = d
      PROVE  /\ cfg'[d].configCore = d
             /\ cfg'[d].bound = cfg[d].bound \/ cfg'[d].bound = core[d].named
             /\ Rebound(d) => cfg'[d].bound = core[d].named
  <2>1. ASSUME NEW c \in Calls, Pointed(c, d) PROVE c = d
    BY <1>5, <2>1 DEF Pointed, Working, Posting
  <2>2. QED
    BY <1>7, <1>9, <2>1 DEF ConfigChange, Kept, Rebound, Pointed
<1>10. ASSUME pc'[d] = "bind" PROVE cfg'[d].configCore = d
  <2>1. CASE pc[d] = "bind"
    BY <1>1, <1>4, <1>5, <1>9, <2>1 DEF Working, Posting
  <2>2. CASE SetConfigCore(d)
    <3>1. pc[d] = "publish core" /\ cfg' = [cfg EXCEPT ![target[d]].configCore = d]
      BY <2>2 DEF SetConfigCore, Step
    <3>2. target[d] = d
      BY <1>1, <1>4, <1>5, <3>1 DEF Working, Posting
    <3>3. cfg[d] \in ConfigType
      BY <1>0, <1>1 DEF CfgTypes
    <3>4. QED
      BY <1>0, <1>1, <3>1, <3>2, <3>3 DEF CfgTypes, ConfigType
  <2>3. QED
    BY <1>7, <1>10, <2>1, <2>2 DEF PointerChange
<1>11. ASSUME Succeeded(d)'
       PROVE  gConfig' = d /\ cfg'[d].configCore = d /\ cfg'[d].bound /\ core'[d].named
  <2>1. CASE Succeeded(d)
    <3>1. /\ d \in began /\ gConfig = d /\ cfg[d].configCore = d /\ cfg[d].bound
          /\ core[d].named /\ pc[d] \in Over
      BY <1>4, <2>1 DEF Succeeded
    <3>2. gConfig' = gConfig
      <4>1. \A c \in Calls : pc[c] # "config"
        BY <1>5, <3>1 DEF Working, Over, Posting
      <4>2. QED
        BY <4>1, PointerStep
    <3>3. core'[d].named
      BY <1>7, <3>1 DEF CoreChange, Over
    <3>4. cfg'[d].configCore = d /\ cfg'[d].bound
      BY <1>9, <3>1 DEF Over
    <3>5. QED
      BY <3>1, <3>2, <3>3, <3>4
  <2>2. CASE Bind(d) /\ ~failed'[d]
    <3>1. /\ pc[d] = "bind" /\ UNCHANGED <<gConfig, core>>
          /\ libswitch_postRefreshBind(target[d])
          /\ failed' = [failed EXCEPT ![d] = @ \/ ~cfg'[target[d]].bound]
      BY <2>2 DEF Bind, Step
    <3>2. target[d] = d /\ cfg[d].configCore = d /\ gConfig = d
      BY <1>0, <1>1, <1>4, <1>5, <1>6, <3>1 DEF ConfigThere, Working, Posting
    <3>3. cfg'[d].bound
      <4>1. PICK b : b = cfg'[target[d]].bound
        OBVIOUS
      <4>2. DOMAIN failed = Calls /\ failed' = [failed EXCEPT ![d] = failed[d] \/ ~b]
        BY <1>0, <3>1, <4>1 DEF CallTypes
      <4>3. QED
        BY <1>1, <2>2, <3>2, <4>1, <4>2
    <3>4. Rebound(d)
      BY <1>0, <1>1, <3>1, <3>2, NoCallAssumption, BindConfig
    <3>5. cfg'[d].configCore = d /\ core[d].named
      BY <3>2, <3>3, <3>4 DEF Rebound
    <3>6. QED
      BY <3>1, <3>2, <3>3, <3>5
  <2>3. QED
    BY <1>1, <1>11, <2>1, <2>2, SuccessStep
<1>12. QED
  BY <1>8, <1>10, <1>11

-----------------------------------------------------------------------------
LEMMA ServeStep == ServeInv /\ [Next]_vars => ServeInv'
BY CallTypesStep, CfgStep, CoreStep, ConfigThereStep, BegunStep, FoundReadyStep,
   ServedStep, AloneStep DEF ServeInv

THEOREM ServeInvariant == Spec => []ServeInv
BY ServeInit, ServeStep, PTL DEF Spec

LEMMA OnlyOne ==
    ASSUME NEW S, IsFiniteSet(S), ~(Cardinality(S) > 1)
    PROVE  \A c, d \in S : c = d
<1>1. SUFFICES ASSUME NEW c \in S, NEW d \in S, c # d PROVE FALSE
  OBVIOUS
<1>2. {c, d} \subseteq S /\ IsFiniteSet({c, d}) /\ Cardinality({c, d}) = 2
  <2>1. IsFiniteSet({c}) /\ Cardinality({c}) = 1
    BY FS_Singleton
  <2>2. {c, d} = {c} \cup {d} /\ d \notin {c}
    BY <1>1
  <2>3. IsFiniteSet({c} \cup {d}) /\ Cardinality({c} \cup {d}) = 1 + 1
    BY <2>1, <2>2, FS_AddElement
  <2>4. QED
    BY <2>2, <2>3
<1>3. Cardinality({c, d}) <= Cardinality(S)
  BY <1>2, FS_Subset
<1>4. QED
  BY <1>2, <1>3, FS_CardinalityType

(* A callback that is given null may rely on it: a lookup then finds the   *)
(* service bound, out of a config_core that was published, and a worker to *)
(* keep it fresh was asked for exactly once, though its thread or process  *)
(* may have failed to start, of which nobody is told; unless two           *)
(* initialisations ran at a time or the call found one that had not ended, *)
(* or had failed (libswitch_initializeLibSwitch,                           *)
(* addon_initializationComplete, cm_startMessagingProcess).                *)
THEOREM AnswerServed == Spec => []SuccessMeansServing
<1>1. ServeInv => SuccessMeansServing
  <2> SUFFICES ASSUME ServeInv, NEW c \in Calls, told[c] = "null", ~Overlapped,
                      found[c] # "not ready"
      PROVE  /\ cfg[gConfig].bound
             /\ Cardinality({d \in Calls : worker[d] # "none"}) = 1
    BY DEF SuccessMeansServing
  <2>1. CallTypes /\ ConfigThere /\ Begun /\ FoundReady /\ Served /\ Alone
    BY DEF ServeInv
  <2>2. Single
    BY <2>1, OnlyOne DEF CallTypes, Overlapped, Single
  <2>3. PICK d \in Calls : Succeeded(d)
    <3>1. pc[c] = "answered" /\ ~failed[c]
      BY <2>1 DEF Begun, Standing
    <3>2. CASE c \in began
      BY <3>1, <3>2 DEF Succeeded, Over
    <3>3. CASE c \notin began
      BY <2>1, <3>1, <3>3 DEF Begun, Standing, Waiting, FoundReady, CallTypes
    <3>4. QED
      BY <3>2, <3>3
  <2>4. d \in began /\ gConfig = d /\ cfg[d].bound /\ core[d].named /\ pc[d] \in Over
    BY <2>1, <2>2, <2>3 DEF Alone, Succeeded
  <2>5. {e \in Calls : worker[e] # "none"} = {d}
    <3>1. worker[d] # "none"
      BY <2>1, <2>4 DEF Served, Over
    <3>2. \A e \in Calls : worker[e] # "none" => e = d
      BY <2>1, <2>2, <2>4 DEF Begun, Standing, Single
    <3>3. QED
      BY <3>1, <3>2
  <2>6. QED
    BY <2>4, <2>5, FS_Singleton
<1>2. QED
  BY <1>1, ServeInvariant, PTL

-----------------------------------------------------------------------------
(* The handles of the log, while one call works.                           *)
LogTypes == log \in [Processes -> [open : BOOLEAN, own : BOOLEAN, handles : Int]]

\* A call is given its Config before it opens the log, and starts its worker
\* before it opens the log again.
Started ==
    \A c \in Calls :
        /\ pc[c] \in Waiting \cup {"config", "parse", "home", "post"} => target[c] = NoCall
        /\ worker[c] # "none" =>
              /\ target[c] # NoCall
              /\ pc[c] \in {"reopen", "publish core", "bind"} \cup Over

Opened == {"load", "hung", "heap", "database", "services", "publish"}

\* The handle that the call itself holds in the application, and that of its worker.
CallHandles(d) ==
    IF target[d] # NoCall /\ pc[d] \notin {"start", "reopen"} THEN 1 ELSE 0
WorkerHandles(d) == IF worker[d] \in {"refreshing", "died"} THEN 1 ELSE 0

MostHandles(p, d) ==
    (IF p = "app" THEN CallHandles(d) ELSE 0) + (IF p = LogOf(d) THEN WorkerHandles(d) ELSE 0)

\* Whoever closes the log next has it open, if it can be opened.
WillClose(p, d) ==
    \/ p = "app" /\ pc[d] \in Opened
    \/ p = LogOf(d) /\ worker[d] = "refreshing"

Handles(p, d) ==
    /\ log[p].handles <= MostHandles(p, d)
    /\ log[p].handles > 0 => LogGood(d)
    /\ WillClose(p, d) => log[p].own /\ (log[p].open <=> LogGood(d))

LogInv ==
    Single =>
        /\ began = {} => \A p \in Processes : log[p].handles <= 0
        /\ \A d \in began, p \in Processes : Handles(p, d)

-----------------------------------------------------------------------------
(* What ends the application.                                              *)
\* The configuration in use of the only call was found by name.
UseInv ==
    /\ Single => \A d \in Calls : /\ cfg[d].configCore \in {NoCall, d}
                                  /\ cfg[d].bound => core[d].named
    /\ Single /\ main = "use" => cfg[gConfig].bound

\* How a configuration, or what is amiss where it is used, may end a process.
Ending(why, cc) ==
    \/ why = "heap" /\ cc.sheapPageSize < BuildSize
    \/ why = "switch" /\ "switch" \in site.faults
    \/ why = "part" /\ "part" \in site.faults /\ cc.resourceService # Null
    \/ /\ why = "worker" /\ cc.threaded
       /\ "logs" \in site.faults \/ (cc.messageBroker = Null /\ ~cc.enableAutoRefresh)
    \/ /\ why = "message" /\ cc.threaded
       /\ \/ "database" \in site.faults
          \/ /\ cc.messageBroker # Null /\ ~cc.enableAutoRefresh
             /\ cc.nameSpace = Null \/ "host" \in site.faults

EndInv ==
    \/ proc \in {"alive", "exited"}
    \/ proc = "lookup" /\ (gConfig = NoCall \/ ~Single)
    \/ proc = "document" /\ ~Read[site.doc].alive
    \/ \E c \in Calls : Ending(proc, core[c].cc)

SiteInv == site \in Sites

\* A config_core is new, or it is what reading the document left, and with the
\* heap made its paths are those of what it is.
CoreRead ==
    \A c \in Calls :
        /\ core[c].cc = cc_newConfigCoreObj
            \/ (Read[site.doc].alive /\ core[c].cc = Read[site.doc].cc)
        /\ Placed(core[c])

LifeInv == LogTypes /\ Started /\ LogInv /\ UseInv /\ EndInv /\ SiteInv /\ CoreRead

-----------------------------------------------------------------------------
(* Opening and closing.                                                    *)
LEMMA OpenLog ==
    ASSUME LogTypes, NEW q \in Processes, NEW g \in BOOLEAN, log' = logcore_openLogFile(q, g)
    PROVE  /\ LogTypes'
           /\ log'[q].handles = log[q].handles + IF g THEN 1 ELSE 0
           /\ log'[q].own /\ (log'[q].open <=> g)
           /\ \A p \in Processes \ {q} : log'[p] = log[p]
<1>0. log[q] \in [open : BOOLEAN, own : BOOLEAN, handles : Int]
  BY DEF LogTypes
<1>1. PICK i \in {0, 1} : i = IF g THEN 1 ELSE 0
  OBVIOUS
<1>2. PICK h : h = log[q].handles + i
  OBVIOUS
<1>3. PICK v : v = [open |-> g, own |-> TRUE, handles |-> h]
  OBVIOUS
<1>4. h \in Int
  BY <1>0, <1>2
<1>5. /\ v \in [open : BOOLEAN, own : BOOLEAN, handles : Int]
      /\ v.handles = h /\ v.own /\ (v.open <=> g)
  BY <1>3, <1>4
<1>6. log' = [log EXCEPT ![q] = v]
  BY <1>1, <1>2, <1>3 DEF logcore_openLogFile
<1>7. log'[q] = v /\ \A p \in Processes \ {q} : log'[p] = log[p]
  BY <1>6 DEF LogTypes
<1>8. LogTypes'
  BY <1>5, <1>6 DEF LogTypes
<1>9. QED
  BY <1>1, <1>2, <1>5, <1>7, <1>8

LEMMA CloseLog ==
    ASSUME LogTypes, NEW q \in Processes, log' = logcore_closeLogFile(q)
    PROVE  /\ LogTypes'
           /\ log'[q].handles <= log[q].handles
           /\ log[q].open /\ log[q].own => log'[q].handles = log[q].handles - 1
           /\ \A p \in Processes \ {q} : log'[p] = log[p]
<1>0. log[q] \in [open : BOOLEAN, own : BOOLEAN, handles : Int]
  BY DEF LogTypes
<1>1. CASE log[q].open /\ log[q].own
  <2>1. log' = [log EXCEPT ![q].open = FALSE, ![q].handles = @ - 1]
    BY <1>1 DEF logcore_closeLogFile
  <2>2. QED
    BY <1>0, <2>1 DEF LogTypes
<1>2. CASE ~(log[q].open /\ log[q].own)
  BY <1>0, <1>2 DEF logcore_closeLogFile, LogTypes
<1>3. QED
  BY <1>1, <1>2

(* The file of the log is settled once the call has its Config.            *)
LEMMA LogFileStays ==
    ASSUME ServeInv, [Next]_vars,
           \A c \in Calls : pc[c] \notin {"config", "parse", "post"}
    PROVE  \A x \in Calls : cfg'[x].logFile = cfg[x].logFile
<1>0. CallTypes /\ CfgTypes /\ ConfigThere
  BY DEF ServeInv
<1>1. CASE UNCHANGED cfg
  BY <1>1
<1>2. ASSUME NEW c \in Calls, SetConfigCore(c)
      PROVE  \A x \in Calls : cfg'[x].logFile = cfg[x].logFile
  BY <1>0, <1>2 DEF SetConfigCore, CfgTypes, ConfigType
<1>3. ASSUME NEW k, libswitch_postRefreshBind(k)
      PROVE  \A x \in Calls : cfg'[x].logFile = cfg[x].logFile
  <2>1. PICK b : b = core[cfg[k].configCore].named
    OBVIOUS
  <2>2. cfg' = [cfg EXCEPT ![k].bound = b]
    BY <1>3, <2>1 DEF libswitch_postRefreshBind
  <2>3. QED
    BY <1>0, <2>2 DEF CfgTypes, ConfigType
<1>4. ASSUME NEW c \in Calls, Bind(c)
      PROVE  \A x \in Calls : cfg'[x].logFile = cfg[x].logFile
  BY <1>3, <1>4 DEF Bind
<1>5. CASE Rebind
  BY <1>1, <1>3, <1>5 DEF Rebind
<1>6. ASSUME NEW c \in Calls, NewConfig(c) \/ ParseConfigFile(c) \/ PostConfig(c)
      PROVE  FALSE
  BY <1>6 DEF NewConfig, ParseConfigFile, PostConfig, Step
<1>8. ASSUME NEW c \in Calls,
             \/ Initialize(c) \/ Callback(c) \/ InitializeLibSwitch(c) \/ CheckHome(c)
             \/ LoadCore(c) \/ MakeHeap(c) \/ OpenDatabase(c) \/ InitServices(c) \/ InitServicesDies(c)
             \/ Publish(c) \/ StartWorker(c) \/ ReopenLog(c) \/ Worker(c)
      PROVE  UNCHANGED cfg
  BY <1>8 DEF Initialize, Callback, InitializeLibSwitch, CheckHome, LoadCore, MakeHeap,
       OpenDatabase, InitServices, InitServicesDies, Publish, StartWorker, ReopenLog, Worker, EnterLoop,
       BeginRefresh, RefreshSucceeds, RefreshFails, RefreshDies, MessageKills, WorkerEnds, globals
<1>9. CASE Lookup \/ SyncSelf \/ CheckBound \/ UseConfig \/ UNCHANGED vars
  <2>1. UNCHANGED cfg
    BY <1>9 DEF Lookup, SyncSelf, CheckBound, UseConfig, vars, globals
  <2>2. QED
    BY <1>1, <2>1
<1>10. QED
  BY <1>1, <1>2, <1>4, <1>5, <1>6, <1>8, <1>9 DEF Next, Thread, LookupStep

LEMMA StartedStep == ASSUME ServeInv, Started, [Next]_vars PROVE Started'
<1> SUFFICES ASSUME NEW d \in Calls
    PROVE  /\ pc'[d] \in Waiting \cup {"config", "parse", "home", "post"} => target'[d] = NoCall
           /\ worker'[d] # "none" =>
                 /\ target'[d] # NoCall
                 /\ pc'[d] \in {"reopen", "publish core", "bind"} \cup Over
  BY DEF Started
<1>0. CallTypes /\ ConfigThere /\ Started /\ PointerChange(d)
  BY PointerStep DEF ServeInv
<1> USE DEF Step, Goto, Become, Running, Looking, globals, thread, reader, node, history
<1> DEFINE Late == {"reopen", "publish core", "bind"} \cup Over
           Early == Waiting \cup {"config", "parse", "home", "post"}
<1>1. ASSUME target'[d] = target[d] \/ (pc[d] = "post" /\ pc'[d] \notin Early),
             pc'[d] \in Early => pc[d] \in Early,
             \/ worker'[d] = "none"
             \/ worker[d] # "none" /\ (pc'[d] = pc[d] \/ pc'[d] \in Late)
             \/ pc[d] = "start" /\ pc'[d] = "reopen"
      PROVE  /\ pc'[d] \in Early => target'[d] = NoCall
             /\ worker'[d] # "none" => target'[d] # NoCall /\ pc'[d] \in Late
  <2>1. pc'[d] \in Early => target'[d] = NoCall
    BY <1>0, <1>1 DEF Started
  <2>2. ASSUME worker'[d] # "none", pc[d] = "start", pc'[d] = "reopen"
        PROVE  target'[d] # NoCall /\ pc'[d] \in Late
    BY <1>0, <1>1, <2>2 DEF ConfigThere, Posting
  <2>3. ASSUME worker[d] # "none", pc'[d] = pc[d] \/ pc'[d] \in Late
        PROVE  target'[d] # NoCall /\ pc'[d] \in Late
    BY <1>0, <1>1, <2>3 DEF Started, Over
  <2>4. QED
    BY <1>1, <2>1, <2>2, <2>3
<1> DEFINE Goal == /\ pc'[d] \in Early => target'[d] = NoCall
                   /\ worker'[d] # "none" => target'[d] # NoCall /\ pc'[d] \in Late
<1> USE DEF Waiting, Over
<1>2. ASSUME NEW c \in Calls, Initialize(c) \/ Callback(c) \/ InitializeLibSwitch(c) PROVE Goal
  <2>1. /\ UNCHANGED <<target, worker>>
        /\ \/ pc'[d] = pc[d]
           \/ pc[d] \in {"none", "queued"} /\ pc'[d] \in {"queued", "config", "done"}
           \/ pc[d] = "done" /\ pc'[d] = "answered"
    BY <1>0, <1>2 DEF Initialize, Callback, InitializeLibSwitch, CallTypes
  <2>2. QED
    BY <1>0, <1>1, <2>1 DEF Started
<1>3. ASSUME NEW c \in Calls, NewConfig(c) \/ ParseConfigFile(c) \/ CheckHome(c) PROVE Goal
  <2>1. /\ UNCHANGED <<target, worker>>
        /\ \/ pc'[d] = pc[d]
           \/ pc[d] \in {"config", "parse", "home"}
    BY <1>0, <1>3 DEF NewConfig, ParseConfigFile, CheckHome, CallTypes
  <2>2. QED
    BY <1>0, <1>1, <2>1 DEF Started
<1>4. ASSUME NEW c \in Calls, PostConfig(c) PROVE Goal
  <2>1. /\ UNCHANGED worker
        /\ \/ pc'[d] = pc[d] /\ target'[d] = target[d]
           \/ pc[d] = "post" /\ pc'[d] = "load"
    BY <1>0, <1>4 DEF PostConfig, CallTypes
  <2>2. QED
    BY <1>0, <1>1, <2>1 DEF Started
<1>5. ASSUME NEW c \in Calls, LoadCore(c) PROVE Goal
  <2>1. Loads(c)
    BY <1>5, LoadCoreLoads
  <2>2. /\ UNCHANGED <<target, worker>>
        /\ pc'[d] = pc[d] \/ (pc[d] = "load" /\ pc'[d] \in {"hung", "heap", "done"})
    BY <1>0, <2>1 DEF Loads, CallTypes
  <2>3. QED
    BY <1>0, <1>1, <2>2 DEF Started
<1>6. ASSUME NEW c \in Calls, MakeHeap(c) \/ OpenDatabase(c) \/ InitServices(c) \/ InitServicesDies(c) \/ Publish(c)
      PROVE  Goal
  <2>1. /\ UNCHANGED <<target, worker>>
        /\ \/ pc'[d] = pc[d]
           \/ /\ pc[d] \in {"heap", "database", "services", "publish"}
              /\ pc'[d] \in {"database", "services", "publish", "publish core", "start"}
    BY <1>0, <1>6 DEF MakeHeap, OpenDatabase, InitServices, InitServicesDies, Publish, CallTypes
  <2>2. QED
    BY <1>0, <1>1, <2>1 DEF Started
<1>7. ASSUME NEW c \in Calls, StartWorker(c) PROVE Goal
  <2>1. /\ UNCHANGED target
        /\ \/ pc'[d] = pc[d] /\ worker'[d] = worker[d]
           \/ pc[d] = "start" /\ pc'[d] = "reopen"
    BY <1>0, <1>7 DEF StartWorker, CallTypes
  <2>2. QED
    BY <1>0, <1>1, <2>1 DEF Started
<1>8. ASSUME NEW c \in Calls, ReopenLog(c) \/ SetConfigCore(c) \/ Bind(c) PROVE Goal
  <2>1. /\ UNCHANGED <<target, worker>>
        /\ pc'[d] = pc[d] \/ pc'[d] \in {"publish core", "bind", "done"}
    BY <1>0, <1>8 DEF ReopenLog, SetConfigCore, Bind, CallTypes
  <2>2. QED
    BY <1>0, <1>1, <2>1 DEF Started
<1>9. CASE Stays
  <2>1. UNCHANGED pc /\ (worker[d] = "none" => worker'[d] = "none")
    BY <1>9 DEF Stays
  <2>2. ASSUME NEW c \in Calls, Worker(c) PROVE UNCHANGED target
    BY <2>2 DEF Worker, EnterLoop, BeginRefresh, RefreshSucceeds, RefreshFails, RefreshDies, MessageKills, WorkerEnds
  <2>3. ASSUME Lookup \/ LookupStep \/ UNCHANGED vars PROVE UNCHANGED target
    BY <2>3 DEF Lookup, LookupStep, SyncSelf, Rebind, CheckBound, UseConfig, vars
  <2>4. ASSUME UNCHANGED target PROVE Goal
    <3>1. target'[d] = target[d] /\ pc'[d] = pc[d]
      BY <2>1, <2>4
    <3>2. worker'[d] = "none" \/ worker[d] # "none"
      BY <2>1
    <3>3. QED
      BY <1>1, <3>1, <3>2
  <2>5. QED
    BY <1>0, <1>2, <1>3, <1>4, <1>5, <1>6, <1>7, <1>8, <2>2, <2>3, <2>4 DEF Next, Thread
<1>10. QED
  BY <1>0, <1>2, <1>3, <1>4, <1>5, <1>6, <1>7, <1>8, <1>9, OthersStay DEF Next, Thread

LEMMA LogTypesStep == ASSUME ServeInv, LogTypes, [Next]_vars PROVE LogTypes'
<1>0. CallTypes /\ "app" \in Processes /\ \A c \in Calls : c \in Processes
  BY DEF ServeInv, Processes
<1>1. CASE UNCHANGED log
  BY <1>1 DEF LogTypes
<1>2. ASSUME NEW c \in Calls,
             PostConfig(c) \/ ReopenLog(c) \/ BeginRefresh(c)
      PROVE  LogTypes'
  <2>1. PICK q \in Processes, g \in BOOLEAN : log' = logcore_openLogFile(q, g)
    BY <1>0, <1>2 DEF PostConfig, ReopenLog, BeginRefresh, LogOf, LogGood
  <2>2. QED
    BY <2>1, OpenLog
<1>3. ASSUME NEW c \in Calls, Publish(c) \/ RefreshSucceeds(c) \/ RefreshFails(c)
      PROVE  LogTypes'
  <2>1. PICK q \in Processes : log' = logcore_closeLogFile(q)
    BY <1>0, <1>3 DEF Publish, RefreshSucceeds, RefreshFails, LogOf
  <2>2. QED
    BY <2>1, CloseLog
<1>4. ASSUME NEW c \in Calls, StartWorker(c) PROVE LogTypes'
  <2>1. log' = log \/ log' = [log EXCEPT ![c] = [log["app"] EXCEPT !.own = FALSE]]
    BY <1>4 DEF StartWorker
  <2>2. [log["app"] EXCEPT !.own = FALSE] \in [open : BOOLEAN, own : BOOLEAN, handles : Int]
    BY <1>0 DEF LogTypes
  <2>3. QED
    BY <1>0, <2>1, <2>2 DEF LogTypes
<1>5. ASSUME NEW c \in Calls,
             \/ Initialize(c) \/ Callback(c) \/ InitializeLibSwitch(c) \/ NewConfig(c)
             \/ ParseConfigFile(c) \/ CheckHome(c) \/ LoadCore(c) \/ MakeHeap(c)
             \/ OpenDatabase(c) \/ InitServices(c) \/ InitServicesDies(c) \/ SetConfigCore(c) \/ Bind(c)
             \/ EnterLoop(c) \/ RefreshDies(c) \/ MessageKills(c)
      PROVE  UNCHANGED log
  BY <1>5 DEF Initialize, Callback, InitializeLibSwitch, NewConfig, ParseConfigFile,
       CheckHome, LoadCore, MakeHeap, OpenDatabase, InitServices, InitServicesDies, SetConfigCore, Bind,
       EnterLoop, RefreshDies, MessageKills, WorkerEnds
<1>6. ASSUME Lookup \/ LookupStep \/ UNCHANGED vars PROVE UNCHANGED log
  BY <1>6 DEF Lookup, LookupStep, SyncSelf, Rebind, CheckBound, UseConfig, vars
<1>7. QED
  BY <1>1, <1>2, <1>3, <1>4, <1>5, <1>6 DEF Next, Thread, Worker

\* The steps that leave the log alone, for the call that works.
LeavesLog(d) ==
    /\ log' = log /\ target'[d] = target[d]
    /\ \/ worker'[d] = worker[d]
       \/ worker[d] = "started" /\ worker'[d] = "waiting"
       \/ worker[d] \in {"started", "waiting", "refreshing"} /\ worker'[d] = "died"
    /\ \/ pc'[d] = pc[d]
       \/ /\ pc'[d] \notin {"start", "reopen"} /\ pc[d] \notin {"start", "reopen"}
          /\ pc'[d] \in Opened => pc[d] \in Opened

LEMMA BeginningSteps ==
    ASSUME CallTypes, NEW c \in Calls, NEW d \in Calls,
           \/ Initialize(c) \/ Callback(c) \/ InitializeLibSwitch(c)
           \/ NewConfig(c) \/ ParseConfigFile(c) \/ CheckHome(c)
    PROVE  /\ UNCHANGED <<log, target, worker>>
           /\ \/ pc'[d] = pc[d]
              \/ /\ pc'[d] \in {"queued", "answered", "config", "done", "parse", "home", "post"}
                 /\ pc[d] \in {"none", "done", "queued", "config", "parse", "home"}
<1> USE DEF Step, Goto
<1>1. UNCHANGED <<log, target, worker>>
  BY DEF Initialize, Callback, InitializeLibSwitch, NewConfig, ParseConfigFile, CheckHome, thread,
         node, globals
<1>2. CASE Initialize(c) \/ Callback(c) \/ InitializeLibSwitch(c)
  BY <1>1, <1>2 DEF Initialize, Callback, InitializeLibSwitch, CallTypes
<1>3. CASE NewConfig(c) \/ ParseConfigFile(c) \/ CheckHome(c)
  BY <1>1, <1>3 DEF NewConfig, ParseConfigFile, CheckHome, CallTypes
<1>4. QED
  BY <1>2, <1>3

LEMMA LogSteps ==
    ASSUME ServeInv, [Next]_vars, NEW d \in Calls,
           \A c \in Calls : pc[c] \in Working \/ worker[c] # "none" => c = d
    PROVE  \/ LeavesLog(d)
           \/ PostConfig(d) \/ Publish(d) \/ StartWorker(d) \/ ReopenLog(d)
           \/ BeginRefresh(d) \/ RefreshSucceeds(d) \/ RefreshFails(d)
<1>0. CallTypes
  BY DEF ServeInv
<1> USE DEF LeavesLog, Step, Goto, Fail, Become, Running, Looking, globals, thread, reader,
            node, history, Opened
<1>1. ASSUME NEW c \in Calls, 
             \/ Initialize(c) \/ Callback(c) \/ InitializeLibSwitch(c)
             \/ NewConfig(c) \/ ParseConfigFile(c) \/ CheckHome(c)
      PROVE  LeavesLog(d)
  BY <1>0, <1>1, BeginningSteps
<1>3. ASSUME NEW c \in Calls, LoadCore(c) PROVE LeavesLog(d)
  <2>1. Loads(c) /\ log' = log
    BY <1>3, LoadCoreLoads DEF LoadCore
  <2>2. QED
    BY <1>0, <2>1 DEF Loads, CallTypes
<1>4. ASSUME NEW c \in Calls, MakeHeap(c) \/ OpenDatabase(c) \/ InitServices(c) \/ InitServicesDies(c)
      PROVE  LeavesLog(d)
  <2>1. CASE MakeHeap(c)
    BY <1>0, <2>1 DEF MakeHeap, CallTypes
  <2>2. CASE OpenDatabase(c)
    BY <1>0, <2>2 DEF OpenDatabase, CallTypes
  <2>3. CASE InitServices(c) \/ InitServicesDies(c)
    <3>1. UNCHANGED <<log, target, worker>>
      BY <2>3 DEF InitServices, InitServicesDies
    <3>2. /\ pc[c] = "services"
          /\ \E to \in {"publish core", "publish", "services"} : Goto(c, to)
      BY <2>3 DEF InitServices, InitServicesDies
    <3>3. QED
      BY <1>0, <3>1, <3>2 DEF CallTypes
  <2>4. QED
    BY <1>4, <2>1, <2>2, <2>3
<1>5. ASSUME NEW c \in Calls, SetConfigCore(c) \/ Bind(c) PROVE LeavesLog(d)
  <2>1. CASE SetConfigCore(c)
    BY <1>0, <2>1 DEF SetConfigCore, CallTypes
  <2>2. CASE Bind(c)
    BY <1>0, <2>2 DEF Bind, CallTypes
  <2>3. QED
    BY <1>5, <2>1, <2>2
<1>6. ASSUME NEW c \in Calls, EnterLoop(c) \/ RefreshDies(c) \/ MessageKills(c)
      PROVE  LeavesLog(d)
  <2>1. UNCHANGED <<log, target, pc>>
    BY <1>6 DEF EnterLoop, RefreshDies, MessageKills, WorkerEnds
  <2>2. \/ worker[c] = "started" /\ worker' = [worker EXCEPT ![c] = "waiting"]
        \/ /\ worker[c] \in {"started", "waiting", "refreshing"}
           /\ worker' = [worker EXCEPT ![c] = "died"]
    BY <1>6 DEF EnterLoop, RefreshDies, MessageKills, WorkerEnds
  <2>3. QED
    BY <1>0, <2>1, <2>2 DEF CallTypes
<1>7. ASSUME NEW c \in Calls, PostConfig(c) \/ Publish(c) \/ StartWorker(c) \/ ReopenLog(c)
      PROVE  c = d
  BY <1>7 DEF PostConfig, Publish, StartWorker, ReopenLog, Working, Posting
<1>8. ASSUME NEW c \in Calls, BeginRefresh(c) \/ RefreshSucceeds(c) \/ RefreshFails(c)
      PROVE  c = d
  BY <1>8 DEF BeginRefresh, RefreshSucceeds, RefreshFails
<1>9. CASE Lookup \/ LookupStep \/ UNCHANGED vars
  BY <1>9 DEF Lookup, LookupStep, SyncSelf, Rebind, CheckBound, UseConfig, vars
<1>10. QED
  BY <1>1, <1>3, <1>4, <1>5, <1>6, <1>7, <1>8, <1>9 DEF Next, Thread, Worker

(* The handles of the log stay within their bound.                         *)
LEMMA LogInvStep == ASSUME ServeInv, Started, LogTypes, LogInv, [Next]_vars PROVE LogInv'
<1>0. /\ CallTypes /\ CallTypes' /\ CfgTypes /\ CoreTypes /\ ConfigThere /\ Begun /\ Begun'
      /\ ConfigThere' /\ Started /\ Started' /\ LogTypes /\ LogTypes'
  BY CallTypesStep, BegunStep, ConfigThereStep, StartedStep, LogTypesStep DEF ServeInv
<1>1. began \subseteq began'
  <2>1. ASSUME NEW c \in Calls, Initialize(c) \/ Callback(c) \/ InitializeLibSwitch(c)
        PROVE  began \subseteq began'
    BY <2>1 DEF Initialize, Callback, InitializeLibSwitch, history
  <2>2. ASSUME NEW c \in Calls, Moves(c) PROVE began' = began
    BY <2>2 DEF Moves
  <2>3. QED
    BY <1>0, <2>1, <2>2, ThreadMoves, OthersStay DEF Next, Stays
<1>2. \A c \in Calls : pc[c] \in Working \/ worker[c] # "none" => c \in began
  BY <1>0 DEF Begun, Standing, Working, Posting, Waiting, Over
<1> SUFFICES ASSUME Single'
    PROVE  /\ began' = {} => \A p \in Processes : log'[p].handles <= 0
           /\ \A d \in began', p \in Processes : Handles(p, d)'
  BY DEF LogInv
<1>3. Single
  BY <1>1 DEF Single
<1>4. ASSUME began' = {} PROVE \A p \in Processes : log'[p].handles <= 0
  <2>1. began = {}
    BY <1>1, <1>4
  <2>2. \A c \in Calls : pc[c] \notin Working /\ worker[c] = "none"
    BY <1>2, <2>1
  <2>3. log' = log
    <3>1. CASE Calls = {}
      <4>1. Lookup \/ LookupStep \/ UNCHANGED vars
        BY <3>1 DEF Next
      <4>2. QED
        BY <4>1 DEF Lookup, LookupStep, SyncSelf, Rebind, CheckBound, UseConfig, vars
    <3>2. ASSUME NEW d \in Calls PROVE log' = log
      <4>1. ~(PostConfig(d) \/ Publish(d) \/ StartWorker(d) \/ ReopenLog(d))
        BY <2>2 DEF PostConfig, Publish, StartWorker, ReopenLog, Step, Working, Posting
      <4>2. ~(BeginRefresh(d) \/ RefreshSucceeds(d) \/ RefreshFails(d))
        BY <2>2 DEF BeginRefresh, RefreshSucceeds, RefreshFails, Running
      <4>3. QED
        BY <2>2, <4>1, <4>2, LogSteps DEF LeavesLog
    <3>3. QED
      BY <3>1, <3>2
  <2>4. QED
    BY <1>3, <2>1, <2>3 DEF LogInv
<1>5. ASSUME NEW d \in began', NEW p \in Processes PROVE Handles(p, d)'
  <2>0. d \in Calls /\ log[p].handles \in Int /\ log'[p].handles \in Int
        /\ target[d] \in Calls \cup {NoCall}
    BY <1>0 DEF CallTypes, LogTypes
  <2>1. \A c \in Calls : pc[c] \in Working \/ worker[c] # "none" => c = d
    BY <1>1, <1>2 DEF Single
  <2>2. d \in began \/ (began = {} /\ pc[d] = "queued")
    <3>1. ASSUME NEW c \in Calls, InitializeLibSwitch(c), d \notin began PROVE c = d /\ pc[d] = "queued"
      BY <3>1 DEF InitializeLibSwitch, Step
    <3>2. ASSUME NEW c \in Calls, Initialize(c) \/ Callback(c) PROVE began' = began
      BY <3>2 DEF Initialize, Callback, history
    <3>3. ASSUME NEW c \in Calls, Moves(c) PROVE began' = began
      BY <3>3 DEF Moves
    <3>4. d \in began \/ pc[d] = "queued"
      BY <1>0, <3>1, <3>2, <3>3, ThreadMoves, OthersStay DEF Next, Stays
    <3>5. d \notin began => began = {}
      BY <1>1 DEF Single
    <3>6. QED
      BY <3>4, <3>5
  <2>3. d \in began => \A q \in Processes : Handles(q, d)
    BY <1>3 DEF LogInv
  <2>4. "app" \in Processes /\ d \in Processes /\ "app" # d
    BY <2>0, NoCallAssumption DEF Processes
  <2>5. /\ worker[d] # "none" => pc[d] \in {"reopen", "publish core", "bind"} \cup Over
        /\ worker[d] # "none" => target[d] # NoCall
        /\ pc[d] \in Posting => target[d] # NoCall
        /\ pc[d] \in Waiting \cup {"config", "parse", "home", "post"} => target[d] = NoCall
        /\ pc'[d] \in Posting => target'[d] # NoCall
        /\ worker'[d] # "none" => target'[d] # NoCall
    BY <1>0, <2>0 DEF Started, ConfigThere
  <2>6. target[d] # NoCall => d \in began
    BY <2>2, <2>5 DEF Waiting
  <2>7. ASSUME target[d] = NoCall PROVE \A q \in Processes : log[q].handles <= 0
    <3>1. worker[d] = "none" /\ CallHandles(d) = 0 /\ WorkerHandles(d) = 0
      BY <2>5, <2>7 DEF CallHandles, WorkerHandles
    <3>2. CASE d \in began
      BY <2>3, <3>1, <3>2 DEF Handles, MostHandles
    <3>3. CASE began = {}
      BY <1>3, <3>3 DEF LogInv
    <3>4. QED
      BY <2>2, <3>2, <3>3
  <2>8. ASSUME target[d] # NoCall, target'[d] = target[d] PROVE LogGood(d)' <=> LogGood(d)
    <3>1. \A c \in Calls : pc[c] \notin {"config", "parse", "post"}
      BY <2>1, <2>5, <2>8 DEF Working
    <3>2. cfg'[target[d]].logFile = cfg[target[d]].logFile
      BY <2>0, <2>8, <3>1, LogFileStays
    <3>3. QED
      BY <2>8, <3>2 DEF LogGood
  <2>9. pc[d] # "load" => LogOf(d)' = LogOf(d)
    BY <2>0, CoreStep DEF CoreChange, LoadCore, Step, LogOf
  <2> USE DEF Opened, Handles, MostHandles, CallHandles, WorkerHandles, WillClose
  <2>10. CASE LeavesLog(d)
    <3>1. CASE target[d] = NoCall
      <4>1. log[p].handles <= 0 /\ worker[d] = "none" /\ pc'[d] \notin Posting
        BY <2>5, <2>7, <2>10, <3>1 DEF LeavesLog
      <4>2. log'[p].handles <= 0 /\ worker'[d] = "none"
        BY <2>10, <4>1 DEF LeavesLog
      <4>3. ~WillClose(p, d)'
        BY <4>1, <4>2 DEF Posting
      <4>4. MostHandles(p, d)' \in Int /\ MostHandles(p, d)' >= 0
        OBVIOUS
      <4>5. QED
        BY <2>0, <4>2, <4>3, <4>4
    <3>2. CASE target[d] # NoCall
      <4>1. d \in began /\ Handles(p, d) /\ (LogGood(d)' <=> LogGood(d))
        BY <2>3, <2>6, <2>8, <2>10, <3>2 DEF LeavesLog
      <4>2. LogOf(d)' = LogOf(d) \/ (worker[d] = "none" /\ worker'[d] = "none")
        BY <2>5, <2>9, <2>10 DEF LeavesLog, Over
      <4>3. CallHandles(d)' = CallHandles(d) /\ WorkerHandles(d)' >= WorkerHandles(d)
        BY <2>10 DEF LeavesLog
      <4>4. WillClose(p, d)' => WillClose(p, d)
        BY <2>10, <4>2 DEF LeavesLog
      <4>5. MostHandles(p, d)' >= MostHandles(p, d)
        BY <4>2, <4>3
      <4> HIDE DEF WillClose, MostHandles
      <4>6. MostHandles(p, d) \in Int /\ MostHandles(p, d)' \in Int
        BY DEF MostHandles
      <4>7. QED
        BY <2>0, <2>10, <4>1, <4>4, <4>5, <4>6 DEF LeavesLog
    <3>3. QED
      BY <3>1, <3>2
  <2>11. CASE PostConfig(d)
    <3>1. /\ pc[d] = "post" /\ pc'[d] = "load" /\ worker' = worker
          /\ target' = [target EXCEPT ![d] = gConfig]
      BY <1>0, <2>0, <2>11 DEF PostConfig, Step, Goto, CallTypes
    <3>2. gConfig \in Calls /\ target'[d] = gConfig
      BY <1>0, <2>0, <3>1 DEF ConfigThere, CallTypes, Working
    <3>3. PICK f : f = Normalized(cfg[gConfig].logFile, cfg[gConfig].home)
      OBVIOUS
    <3>4. cfg'[gConfig].logFile = f
      BY <1>0, <2>11, <3>2, <3>3 DEF PostConfig, CfgTypes, ConfigType
    <3>5. PICK g \in BOOLEAN : g <=> f = "path"
      OBVIOUS
    <3>6. log' = logcore_openLogFile("app", g)
      BY <2>11, <3>3, <3>5 DEF PostConfig
    <3>7. LogGood(d)' <=> g
      BY <3>2, <3>4, <3>5 DEF LogGood
    <3>8. /\ log'["app"].handles = log["app"].handles + IF g THEN 1 ELSE 0
          /\ log'["app"].own /\ (log'["app"].open <=> g)
          /\ \A q \in Processes \ {"app"} : log'[q] = log[q]
      BY <1>0, <2>4, <3>6, OpenLog
    <3>9. worker'[d] = "none" /\ log[p].handles <= 0
      BY <2>5, <2>7, <3>1
    <3>10. target'[d] # NoCall
      BY <3>2, NoCallAssumption
    <3>11. QED
      BY <2>0, <3>1, <3>7, <3>8, <3>9, <3>10
  <2>12. CASE Publish(d)
    <3>1. /\ pc[d] = "publish" /\ pc'[d] = "start" /\ worker' = worker
          /\ target' = target /\ log' = logcore_closeLogFile("app")
      BY <1>0, <2>0, <2>12 DEF Publish, Step, Goto, CallTypes
    <3>2. worker[d] = "none" /\ target[d] # NoCall
      BY <2>5, <3>1 DEF Posting, Over
    <3>3. LogGood(d)' <=> LogGood(d)
      BY <2>8, <3>1, <3>2
    <3>4. d \in began /\ Handles("app", d) /\ Handles(p, d)
      BY <2>3, <2>4, <2>6, <3>2
    <3>5. /\ log'["app"].handles <= log["app"].handles
          /\ log["app"].open /\ log["app"].own => log'["app"].handles = log["app"].handles - 1
          /\ \A q \in Processes \ {"app"} : log'[q] = log[q]
      BY <1>0, <2>4, <3>1, CloseLog
    <3>6. log["app"].handles \in Int /\ log'["app"].handles \in Int
      BY <1>0, <2>4 DEF LogTypes
    <3>7. log'[p].handles <= 0
      <4>1. CASE p = "app"
        BY <3>1, <3>2, <3>4, <3>5, <3>6, <4>1
      <4>2. CASE p # "app"
        BY <2>0, <3>1, <3>2, <3>4, <3>5, <4>2
      <4>3. QED
        BY <4>1, <4>2
    <3>8. QED
      BY <2>0, <3>1, <3>2, <3>7
  <2>13. CASE StartWorker(d)
    <3>1. /\ pc[d] = "start" /\ pc'[d] = "reopen" /\ worker'[d] \in {"started", "unstarted"}
          /\ target' = target
          /\ log' = log \/ log' = [log EXCEPT ![d] = [log["app"] EXCEPT !.own = FALSE]]
      BY <1>0, <2>0, <2>13 DEF StartWorker, Step, Goto, CallTypes
    <3>2. worker[d] = "none" /\ target[d] # NoCall
      BY <2>5, <3>1 DEF Posting, Over
    <3>3. d \in began /\ Handles("app", d) /\ Handles(p, d)
      BY <2>3, <2>4, <2>6, <3>2
    <3>4. log["app"].handles <= 0 /\ log[p].handles <= 0
      BY <2>4, <3>1, <3>2, <3>3
    <3>5. log'[p].handles = log[p].handles \/ log'[p].handles = log["app"].handles
      BY <1>0, <2>4, <3>1 DEF LogTypes
    <3>6. QED
      BY <2>0, <3>1, <3>4, <3>5
  <2>14. CASE ReopenLog(d)
    <3>1. /\ pc[d] = "reopen" /\ pc'[d] = "publish core" /\ worker' = worker
          /\ target' = target /\ log' = logcore_openLogFile("app", LogGood(d))
      BY <1>0, <2>0, <2>14 DEF ReopenLog, Step, Goto, CallTypes
    <3>2. target[d] # NoCall
      BY <2>5, <3>1 DEF Posting
    <3>3. (LogGood(d)' <=> LogGood(d)) /\ LogOf(d)' = LogOf(d)
      BY <2>8, <2>9, <3>1, <3>2
    <3>4. d \in began /\ Handles("app", d) /\ Handles(p, d)
      BY <2>3, <2>4, <2>6, <3>2
    <3>5. PICK g \in BOOLEAN : g <=> LogGood(d)
      OBVIOUS
    <3>6. log' = logcore_openLogFile("app", g)
      BY <3>1, <3>5 DEF LogGood
    <3>7. /\ log'["app"].handles = log["app"].handles + IF g THEN 1 ELSE 0
          /\ log'["app"].own /\ (log'["app"].open <=> g)
          /\ \A q \in Processes \ {"app"} : log'[q] = log[q]
      BY <1>0, <2>4, <3>6, OpenLog
    <3>8. CASE p = "app"
      <4>1. /\ log'[p].handles <= log[p].handles + 1
            /\ log'[p].handles > log[p].handles => g
        BY <2>0, <3>5, <3>7, <3>8
      <4>2. MostHandles(p, d)' = MostHandles(p, d) + 1 /\ MostHandles(p, d) \in Int
        <5>1. CallHandles(d)' = 1 /\ CallHandles(d) = 0
          BY <3>1, <3>2
        <5>2. WorkerHandles(d)' = WorkerHandles(d) /\ WorkerHandles(d) \in {0, 1}
          BY <3>1
        <5> HIDE DEF CallHandles, WorkerHandles
        <5>3. QED
          BY <3>3, <3>8, <5>1, <5>2
      <4>3. log'[p].handles <= MostHandles(p, d)'
        <5>1. log[p].handles <= MostHandles(p, d)
          BY <3>4
        <5> HIDE DEF MostHandles
        <5>2. QED
          BY <2>0, <4>1, <4>2, <5>1
      <4>4. log'[p].handles > 0 => LogGood(d)'
        BY <2>0, <3>3, <3>4, <3>5, <4>1
      <4>5. QED
        BY <3>3, <3>5, <3>7, <3>8, <4>3, <4>4
    <3>9. CASE p # "app"
      BY <2>0, <3>1, <3>2, <3>3, <3>4, <3>5, <3>7, <3>9
    <3>10. QED
      BY <3>8, <3>9
  <2>15. CASE BeginRefresh(d)
    <3>1. /\ worker[d] = "waiting" /\ worker'[d] = "refreshing" /\ pc' = pc
          /\ target' = target /\ log' = logcore_openLogFile(LogOf(d), LogGood(d))
      BY <1>0, <2>0, <2>15 DEF BeginRefresh, Running, Become, thread, CallTypes
    <3>2. target[d] # NoCall /\ pc[d] \notin Opened
      BY <2>5, <3>1 DEF Over
    <3>3. (LogGood(d)' <=> LogGood(d)) /\ LogOf(d)' = LogOf(d)
      BY <2>8, <2>9, <3>1, <3>2
    <3>4. PICK q \in Processes : q = LogOf(d)
      BY <2>4 DEF LogOf
    <3>5. d \in began /\ Handles(q, d) /\ Handles(p, d)
      BY <2>3, <2>6, <3>2
    <3>6. PICK g \in BOOLEAN : g <=> LogGood(d)
      OBVIOUS
    <3>7. log' = logcore_openLogFile(q, g)
      BY <3>1, <3>4, <3>6 DEF LogGood
    <3>8. /\ log'[q].handles = log[q].handles + IF g THEN 1 ELSE 0
          /\ log'[q].own /\ (log'[q].open <=> g)
          /\ \A r \in Processes \ {q} : log'[r] = log[r]
      BY <1>0, <3>7, OpenLog
    <3>9. CASE p = q
      BY <2>0, <3>1, <3>2, <3>3, <3>4, <3>5, <3>6, <3>8, <3>9
    <3>10. CASE p # q
      BY <2>0, <3>1, <3>2, <3>3, <3>4, <3>5, <3>6, <3>8, <3>10
    <3>11. QED
      BY <3>9, <3>10
  <2>16. CASE RefreshSucceeds(d) \/ RefreshFails(d)
    <3>1. /\ worker[d] = "refreshing" /\ worker'[d] = "waiting" /\ pc' = pc
          /\ target' = target /\ log' = logcore_closeLogFile(LogOf(d))
      BY <1>0, <2>0, <2>16 DEF RefreshSucceeds, RefreshFails, Running, Become, thread, CallTypes
    <3>2. target[d] # NoCall /\ pc[d] \notin Opened
      BY <2>5, <3>1 DEF Over
    <3>3. (LogGood(d)' <=> LogGood(d)) /\ LogOf(d)' = LogOf(d)
      BY <2>8, <2>9, <3>1, <3>2
    <3>4. PICK q \in Processes : q = LogOf(d)
      BY <2>4 DEF LogOf
    <3>5. d \in began /\ Handles(q, d) /\ Handles(p, d)
      BY <2>3, <2>6, <3>2
    <3>6. /\ log'[q].handles <= log[q].handles
          /\ log[q].open /\ log[q].own => log'[q].handles = log[q].handles - 1
          /\ \A r \in Processes \ {q} : log'[r] = log[r]
      BY <1>0, <3>1, <3>4, CloseLog
    <3>7. CASE p = q
      BY <2>0, <3>1, <3>2, <3>3, <3>4, <3>5, <3>6, <3>7
    <3>8. CASE p # q
      BY <2>0, <3>1, <3>2, <3>3, <3>4, <3>5, <3>6, <3>8
    <3>9. QED
      BY <3>7, <3>8
  <2>17. QED
    BY <2>0, <2>1, <2>10, <2>11, <2>12, <2>13, <2>14, <2>15, <2>16, LogSteps
<1>6. QED
  BY <1>4, <1>5

-----------------------------------------------------------------------------
LEMMA OnlyWorker ==
    ASSUME ServeInv, [Next]_vars, Single'
    PROVE  /\ began \subseteq began' /\ Single
           /\ \A c, d \in Calls : pc[c] \in Working /\ pc[d] \in Working => c = d
           /\ \A c \in Calls : pc[c] \in Working => c \in began
           /\ gConfig # NoCall => gConfig' = gConfig
<1>0. CallTypes /\ ConfigThere /\ Begun
  BY DEF ServeInv
<1>1. began \subseteq began'
  <2>1. ASSUME NEW c \in Calls, Initialize(c) \/ Callback(c) \/ InitializeLibSwitch(c)
        PROVE  began \subseteq began'
    BY <2>1 DEF Initialize, Callback, InitializeLibSwitch, history
  <2>2. ASSUME NEW c \in Calls, Moves(c) PROVE began' = began
    BY <2>2 DEF Moves
  <2>3. QED
    BY <1>0, <2>1, <2>2, ThreadMoves, OthersStay DEF Next, Stays
<1>2. Single
  BY <1>1 DEF Single
<1>3. \A c \in Calls : pc[c] \in Working => c \in began
  BY <1>0 DEF Begun, Standing, Working, Posting, Waiting, Over
<1>4. gConfig # NoCall => gConfig' = gConfig
  <2>1. ASSUME gConfig # NoCall, NEW c \in Calls, pc[c] = "config" PROVE FALSE
    <3>1. c \in began /\ gConfig \in began /\ pc[gConfig] # "config"
      BY <1>0, <1>3, <2>1 DEF ConfigThere, Made, Working
    <3>2. QED
      BY <1>2, <2>1, <3>1 DEF Single
  <2>2. QED
    BY <2>1, PointerStep
<1>5. QED
  BY <1>1, <1>2, <1>3, <1>4 DEF Single

LEMMA UseInvStep == ASSUME ServeInv, Started, UseInv, [Next]_vars PROVE UseInv'
<1> SUFFICES ASSUME Single'
    PROVE  /\ \A d \in Calls : /\ cfg'[d].configCore \in {NoCall, d}
                               /\ cfg'[d].bound => core'[d].named
           /\ main' = "use" => cfg'[gConfig'].bound
  BY DEF UseInv
<1>0. CallTypes /\ CfgTypes /\ ConfigThere /\ Begun /\ Served /\ Alone /\ Single
      /\ (gConfig # NoCall => gConfig' = gConfig)
  BY OnlyWorker DEF ServeInv
<1>1. ASSUME NEW d \in Calls
      PROVE  /\ cfg'[d].configCore \in {NoCall, d}
             /\ cfg'[d].bound => cfg[d].bound \/ core[d].named
             /\ cfg[d].bound /\ pc[d] # "config" => cfg'[d].bound
  <2>1. ConfigChange(d) /\ cfg[d].configCore \in {NoCall, d}
        /\ (cfg[d].bound => core[d].named)
    BY <1>0, CfgStep DEF UseInv
  <2>2. CASE pc[d] = "config" /\ cfg'[d] = NewConfigObj
    BY <2>2 DEF NewConfigObj
  <2>3. CASE Kept(d)
    BY <2>1, <2>3 DEF Kept
  <2>4. CASE Rebound(d)
    BY <2>1, <2>4 DEF Rebound
  <2>5. ASSUME NEW c \in Calls, Pointed(c, d)
        PROVE  cfg'[d].configCore = d /\ cfg'[d].bound = cfg[d].bound
    <3>1. c \in began /\ pc[c] \in Posting
      BY <2>5, OnlyWorker DEF Pointed, Working, Posting
    <3>2. c = d
      BY <1>0, <2>5, <3>1 DEF Alone, Pointed
    <3>3. QED
      BY <2>5, <3>2 DEF Pointed
  <2>6. QED
    BY <2>1, <2>2, <2>3, <2>4, <2>5 DEF ConfigChange
<1>2. ASSUME NEW d \in Calls, cfg'[d].bound PROVE core'[d].named
  <2>1. core[d].named
    BY <1>0, <1>1, <1>2 DEF UseInv
  <2>2. pc[d] # "load"
    BY <1>0, <2>1 DEF Served, Started, Over
  <2>3. QED
    BY <2>1, <2>2, CoreStep DEF CoreChange
<1>3. ASSUME main' = "use" PROVE cfg'[gConfig'].bound
  <2>1. CASE CheckBound
    BY <1>3, <2>1 DEF CheckBound, globals
  <2>2. ASSUME ~CheckBound PROVE main = "use"
    <3>1. ASSUME NEW c \in Calls, Initialize(c) \/ Callback(c) \/ Thread(c) \/ Worker(c)
          PROVE  main' = main
      BY <3>1 DEF Initialize, Callback, Thread, InitializeLibSwitch, NewConfig,
           ParseConfigFile, CheckHome, PostConfig, LoadCore, MakeHeap, OpenDatabase,
           InitServices, InitServicesDies, Publish, StartWorker, ReopenLog, SetConfigCore, Bind, Worker,
           EnterLoop, BeginRefresh, RefreshSucceeds, RefreshFails, RefreshDies, MessageKills, WorkerEnds, node,
           reader
    <3>2. CASE Lookup \/ SyncSelf \/ Rebind
      BY <1>3, <3>2 DEF Lookup, SyncSelf, Rebind
    <3>3. CASE UseConfig \/ UNCHANGED vars
      BY <1>3, <3>3 DEF UseConfig, vars, node, reader
    <3>4. QED
      BY <1>3, <2>2, <3>1, <3>2, <3>3 DEF Next, LookupStep
  <2>3. ASSUME main = "use" PROVE cfg'[gConfig'].bound
    <3>1. gConfig \in Calls /\ pc[gConfig] # "config" /\ gConfig' = gConfig /\ cfg[gConfig].bound
      BY <1>0, <2>3 DEF ConfigThere, Made, CallTypes, UseInv
    <3>2. QED
      BY <1>1, <3>1
  <2>4. QED
    BY <2>1, <2>2, <2>3
<1>4. QED
  BY <1>1, <1>2, <1>3

-----------------------------------------------------------------------------
(* The application ends in no other ways.                                  *)
Ends ==
    /\ proc = "alive"
    /\ \/ proc' = "exited"
       \/ proc' = "document" /\ ~Read[site.doc].alive
       \/ \E c \in Calls : Ending(proc', core[c].cc)
       \/ /\ proc' = "lookup" /\ gConfig' = gConfig /\ began' = began
          /\ gConfig = NoCall \/ (main = "use" /\ ~cfg[gConfig].bound)

LEMMA EndStep ==
    ASSUME ServeInv, [Next]_vars
    PROVE  /\ site' = site
           /\ Ends \/ proc' = proc
           /\ \A x \in Calls : LoadCore(x) => proc' \in {"alive", "document"}
           /\ proc # "alive" => gConfig' = gConfig
<1>0. CallTypes /\ CoreTypes /\ CoreTypes'
  BY CoreStep DEF ServeInv
<1>1. site' = site
  <2>1. ASSUME NEW c \in Calls, Initialize(c) \/ Callback(c) \/ Thread(c) PROVE site' = site
    BY <2>1 DEF Initialize, Callback, Thread, InitializeLibSwitch, NewConfig,
         ParseConfigFile, CheckHome, PostConfig, LoadCore, MakeHeap, OpenDatabase,
         InitServices, InitServicesDies, Publish, StartWorker, ReopenLog, SetConfigCore, Bind
  <2>2. ASSUME NEW c \in Calls, Worker(c) PROVE site' = site
    BY <2>2 DEF Worker, EnterLoop, BeginRefresh, RefreshSucceeds, RefreshFails,
         RefreshDies, MessageKills, WorkerEnds
  <2>3. QED
    BY <2>1, <2>2 DEF Next, Lookup, LookupStep, SyncSelf, Rebind, CheckBound, UseConfig, vars
<1>2. \A x \in Calls : LoadCore(x) => proc' \in {"alive", "document"}
  BY DEF LoadCore, Step, Crash
<1>3. proc # "alive" => gConfig' = gConfig
  <2>1. ASSUME NEW c \in Calls, NewConfig(c) PROVE proc = "alive"
    BY <2>1 DEF NewConfig, Step
  <2>2. ASSUME NEW c \in Calls, Initialize(c) \/ Callback(c) \/ (Thread(c) /\ ~NewConfig(c))
        PROVE gConfig' = gConfig
    BY <2>2 DEF Initialize, Callback, Thread, InitializeLibSwitch, globals,
         ParseConfigFile, CheckHome, PostConfig, LoadCore, MakeHeap, OpenDatabase,
         InitServices, InitServicesDies, Publish, StartWorker, ReopenLog, SetConfigCore, Bind
  <2>3. ASSUME NEW c \in Calls, Worker(c) PROVE gConfig' = gConfig
    BY <2>3 DEF Worker, EnterLoop, BeginRefresh, RefreshSucceeds, RefreshFails,
         RefreshDies, MessageKills, WorkerEnds, globals
  <2>4. QED
    BY <2>1, <2>2, <2>3
       DEF Next, Thread, Lookup, LookupStep, SyncSelf, Rebind, CheckBound, UseConfig, vars, globals
<1>4. Ends \/ proc' = proc
  <2>1. ASSUME NEW c \in Calls,
               \/ Initialize(c) \/ Callback(c) \/ InitializeLibSwitch(c) \/ ParseConfigFile(c)
               \/ CheckHome(c) \/ PostConfig(c) \/ MakeHeap(c) \/ OpenDatabase(c) \/ Publish(c)
               \/ StartWorker(c) \/ ReopenLog(c) \/ SetConfigCore(c) \/ Bind(c)
               \/ BeginRefresh(c) \/ RefreshSucceeds(c) \/ RefreshFails(c)
        PROVE  proc' = proc
    BY <2>1 DEF Initialize, Callback, InitializeLibSwitch, ParseConfigFile, CheckHome,
         PostConfig, MakeHeap, OpenDatabase, Publish, StartWorker, ReopenLog, SetConfigCore,
         Bind, BeginRefresh, RefreshSucceeds, RefreshFails
  <2>2. ASSUME NEW c \in Calls, NewConfig(c) \/ LoadCore(c) PROVE Ends \/ proc' = proc
    BY <2>2 DEF NewConfig, LoadCore, Step, Crash, Ends
  <2>3. ASSUME NEW c \in Calls, InitServices(c) \/ InitServicesDies(c)
        PROVE  Ends \/ proc' = proc
    <3>1. CASE InitServices(c)
      BY <3>1 DEF InitServices
    <3>2. CASE InitServicesDies(c)
      <4>1. PICK why \in Deadly(c) : proc' = why /\ proc = "alive"
        BY <3>2 DEF InitServicesDies, Crash, Step
      <4>2. QED
        BY <4>1 DEF Deadly, Ending, Ends
    <3>3. QED
      BY <2>3, <3>1, <3>2
  <2>4. ASSUME NEW c \in Calls, EnterLoop(c) \/ MessageKills(c) \/ RefreshDies(c)
        PROVE  Ends \/ proc' = proc
    <3>1. CASE EnterLoop(c)
      BY <3>1 DEF EnterLoop, WorkerEnds, Running, Crash, Ends, Ending
    <3>2. CASE MessageKills(c)
      BY <3>2 DEF MessageKills, MessageMayCome, WorkerEnds, Running, Crash, Ends, Ending
    <3>3. CASE RefreshDies(c)
      <4>1. PICK why \in Deadly(c) : WorkerEnds(c, why)
        BY <3>3 DEF RefreshDies
      <4>2. proc' = proc \/ (proc' = why /\ proc = "alive")
        BY <3>3, <4>1 DEF RefreshDies, WorkerEnds, Running, Crash
      <4>3. QED
        BY <4>1, <4>2 DEF Deadly, Ending, Ends
    <3>4. QED
      BY <2>4, <3>1, <3>2, <3>3
  <2>5. CASE Lookup \/ Rebind \/ CheckBound \/ UNCHANGED vars
    BY <2>5 DEF Lookup, Rebind, CheckBound, vars
  <2>6. CASE SyncSelf \/ UseConfig
    BY <2>6 DEF SyncSelf, UseConfig, Looking, Crash, Ends, globals, history
  <2>7. QED
    BY <2>1, <2>2, <2>3, <2>4, <2>5, <2>6 DEF Next, Thread, Worker, LookupStep
<1>5. QED
  BY <1>1, <1>2, <1>3, <1>4

LEMMA EndInvStep == ASSUME ServeInv, UseInv, EndInv, [Next]_vars PROVE EndInv'
<1>1. /\ site' = site /\ (Ends \/ proc' = proc)
      /\ \A x \in Calls : LoadCore(x) => proc' \in {"alive", "document"}
      /\ proc # "alive" => gConfig' = gConfig
  BY EndStep
<1>2. proc' \notin {"alive", "document"} => \A x \in Calls : core'[x].cc = core[x].cc
  BY <1>1, CoreStep DEF CoreChange
<1>3. ~Single => ~Single'
  BY OnlyWorker
<1>4. ASSUME NEW c \in Calls, Ending(proc', core[c].cc) PROVE EndInv'
  <2>1. core'[c].cc = core[c].cc
    BY <1>2, <1>4 DEF Ending
  <2>2. Ending(proc, core[c].cc)'
    BY <1>1, <1>4, <2>1 DEF Ending
  <2>3. QED
    BY <2>2 DEF EndInv
<1>5. CASE proc' = proc
  <2>1. CASE proc = "lookup" /\ (gConfig = NoCall \/ ~Single)
    BY <1>1, <1>3, <1>5, <2>1 DEF EndInv
  <2>2. CASE proc = "document" /\ ~Read[site.doc].alive
    BY <1>1, <1>5, <2>2 DEF EndInv, Read
  <2>3. QED
    BY <1>4, <1>5, <2>1, <2>2 DEF EndInv
<1>6. CASE Ends
  <2>1. ASSUME proc' = "lookup", main = "use", ~cfg[gConfig].bound PROVE ~Single'
    BY <1>3, <2>1 DEF UseInv
  <2>2. CASE proc' = "document" /\ ~Read[site.doc].alive
    BY <1>1, <2>2 DEF EndInv, Read
  <2>3. QED
    BY <1>4, <1>6, <2>1, <2>2 DEF Ends, EndInv
<1>7. QED
  BY <1>1, <1>5, <1>6

LEMMA CoreReadStep == ASSUME ServeInv, SiteInv, CoreRead, [Next]_vars PROVE SiteInv' /\ CoreRead'
<1>1. site' = site
  BY EndStep
<1>2. ASSUME NEW c \in Calls
      PROVE  core'[c].cc = core[c].cc \/ (Read[site.doc].alive /\ core'[c].cc = Read[site.doc].cc)
  <2>1. CASE LoadCore(c)
    <3>1. PICK r : r = Read[site.doc]
      OBVIOUS
    <3>2. PICK v : v = [NewCore EXCEPT !.cc = r.cc]
      OBVIOUS
    <3>3. core' = core \/ (r.alive /\ core' = [core EXCEPT ![c] = v])
      BY <2>1, <3>1, <3>2 DEF LoadCore, SetCore
    <3>4. v.cc = r.cc
      BY <3>2 DEF NewCore
    <3>5. core = [x \in Calls |-> core[x]]
      BY DEF ServeInv, CoreTypes
    <3>6. QED
      BY <3>1, <3>3, <3>4, <3>5
  <2>2. QED
    BY <2>1, CoreStep DEF CoreChange
<1>3. SiteInv'
  BY <1>1 DEF SiteInv
<1>p. ASSUME NEW c \in Calls PROVE Placed(core'[c])
  <2>1. Placed(core[c]) => Placed(core'[c])
    BY CoreStep DEF CoreChange
  <2>2. QED
    BY <2>1 DEF CoreRead
<1>4. CoreRead'
  <2>1. /\ Read' = Read
        /\ \A c \in Calls : Placed(core'[c]) <=> Placed(core[c])'
    BY DEF Read, Placed
  <2>2. QED
    BY <1>1, <1>2, <1>p, <2>1 DEF CoreRead
<1>5. QED
  BY <1>3, <1>4

LEMMA LifeInit == Init => LifeInv
<1> SUFFICES ASSUME Init PROVE LifeInv
  OBVIOUS
<1>1. LogTypes /\ Started
  BY DEF Init, LogTypes, Started
<1>2. LogInv
  BY DEF Init, LogInv
<1>3. UseInv
  BY DEF Init, UseInv, NewConfigObj
<1>4. EndInv /\ SiteInv
  BY DEF Init, EndInv, SiteInv
<1>5. CoreRead
  BY DEF Init, CoreRead, NewCore, Placed
<1>6. QED
  BY <1>1, <1>2, <1>3, <1>4, <1>5 DEF LifeInv

LEMMA LifeStep == ServeInv /\ LifeInv /\ [Next]_vars => LifeInv'
BY LogTypesStep, StartedStep, LogInvStep, UseInvStep, EndInvStep, CoreReadStep DEF LifeInv

LEMMA LifeInvariant == Spec => [](ServeInv /\ LifeInv)
<1>1. Spec => []ServeInv
  BY ServeInvariant
<1>2. Spec => []LifeInv
  BY <1>1, LifeInit, LifeStep, PTL DEF Spec
<1>3. QED
  BY <1>1, <1>2, PTL

(* However many refreshes there are, whichever fail, and whether the       *)
(* worker is a thread or a process that was forked with the log closed or  *)
(* open, a process holds one handle of the log, or two with its thread's   *)
(* (log_core.c, cc_refreshConfigCore).                                     *)
THEOREM LogNeverLeaks == Spec => []LogNotLeaked
<1>1. ServeInv /\ LifeInv => LogNotLeaked
  <2> SUFFICES ASSUME ServeInv, LifeInv, ~Overlapped, NEW p \in Processes
      PROVE  log[p].handles <= IF \E c \in Calls : core[c].cc.threaded THEN 2 ELSE 1
    BY DEF LogNotLeaked
  <2>1. CallTypes /\ LogTypes /\ LogInv /\ log[p].handles \in Int
    BY DEF ServeInv, LifeInv, LogTypes
  <2>2. Single
    BY <2>1, OnlyOne DEF CallTypes, Overlapped, Single
  <2>3. CASE began = {}
    BY <2>1, <2>2, <2>3 DEF LogInv
  <2>4. ASSUME NEW d \in began
        PROVE  log[p].handles <= IF \E c \in Calls : core[c].cc.threaded THEN 2 ELSE 1
    <3>1. d \in Calls /\ log[p].handles <= MostHandles(p, d)
      BY <2>1, <2>2 DEF LogInv, CallTypes, Handles
    <3>2. MostHandles(p, d) \in Int /\ MostHandles(p, d) <= 2
      BY DEF MostHandles, CallHandles, WorkerHandles
    <3>3. ASSUME ~core[d].cc.threaded PROVE MostHandles(p, d) <= 1
      BY <3>1, <3>3, NoCallAssumption DEF MostHandles, CallHandles, WorkerHandles, LogOf
    <3>4. QED
      BY <2>1, <3>1, <3>2, <3>3
  <2>5. QED
    BY <2>3, <2>4
<1>2. QED
  BY <1>1, LifeInvariant, PTL

-----------------------------------------------------------------------------
(* What a handler leaves.                                                  *)
IsConfig(cc) ==
    /\ cc = [nameSpace |-> cc.nameSpace, homeDir |-> cc.homeDir,
             databaseFile |-> cc.databaseFile, sheapMapFile |-> cc.sheapMapFile,
             sheapPageSize |-> cc.sheapPageSize, services |-> cc.services,
             resourceService |-> cc.resourceService, messageBroker |-> cc.messageBroker,
             disableProcessRecovery |-> cc.disableProcessRecovery,
             enableAutoRefresh |-> cc.enableAutoRefresh,
             autoRefreshWaitSeconds |-> cc.autoRefreshWaitSeconds,
             threaded |-> cc.threaded]
    /\ cc.services \in Seq(ServiceDescriptor)
    /\ cc.resourceService \in ServiceDescriptor \cup {Null}
    /\ cc.messageBroker \in MessageBroker \cup {Null}
    /\ \A f \in Flags : cc[f] \in BOOLEAN

IsBundle(b) ==
    /\ b = [cc |-> b.cc, userdata |-> b.userdata, userdata2 |-> b.userdata2,
            alive |-> b.alive]
    /\ b.alive \in BOOLEAN
    /\ IsConfig(b.cc)
    /\ b.userdata \in ServiceDescriptor \cup {Null}
    /\ b.userdata2 \in Maybe

SettingRead(b, e, h) ==
    /\ \A f \in Copied : h.cc[f] = IF e.el = f THEN e.body ELSE b.cc[f]
    /\ \A f \in Flags : h.cc[f] <=> IF e.el = f THEN e.body \in On ELSE b.cc[f]
    /\ h.cc.sheapPageSize =
          IF e.el = "sheapPageSize" THEN Number[e.body] ELSE b.cc.sheapPageSize
    /\ e.el = "sheapPageSize" => e.body # Null
    /\ h.cc.autoRefreshWaitSeconds =
          IF e.el = "autoRefreshWaitSeconds" /\ e.body # Null THEN Number[e.body]
          ELSE b.cc.autoRefreshWaitSeconds

\* An element of the broker m makes it q.
BrokerGiven(m, e, q) ==
    /\ e.el = "messageBroker" => q = cm_newMessageBrokerObj
    /\ e.el = "broker" =>
          /\ q # Null
          /\ \A f \in BrokerTexts : q[f] = IF e.name = f THEN e.body ELSE m[f]
          /\ \A f \in BrokerNumbers : q[f] = IF e.name = f THEN Number[e.body] ELSE m[f]
          /\ e.name \in BrokerNumbers => e.body # Null

BrokerChanged(b, e, h) ==
    IF e.el \in {"messageBroker", "broker"}
    THEN BrokerGiven(b.cc.messageBroker, e, h.cc.messageBroker)
    ELSE h.cc.messageBroker = b.cc.messageBroker

NewResource == cc_newServiceDescriptorObj("RESOURCE_SERVICE", "RESOURCE_SERVICE")

\* An element of the resource service r makes it q.
ResourceGiven(r, e, q) ==
    /\ e.el = "resourceService" => q = NewResource
    /\ e.el \in ResourceParts =>
          /\ q # Null
          /\ q.uri = IF e.el = "resource/uri" THEN e.body ELSE r.uri
          /\ q.userColonPass = IF e.el = "resource/userColonPass" THEN e.body
                               ELSE r.userColonPass
          /\ e.el # "resource/param" =>
                q.timeoutSeconds = IF e.el = "resource/timeoutSeconds"
                                   THEN Number[e.body] ELSE r.timeoutSeconds
          /\ e.el = "resource/timeoutSeconds" => e.body # Null

ResourceRead(b, e, h) ==
    IF e.el \in ResourceParts \cup {"resourceService"}
    THEN ResourceGiven(b.cc.resourceService, e, h.cc.resourceService)
    ELSE h.cc.resourceService = b.cc.resourceService

\* A part of the service s makes it t.
PartRead(s, e, t) ==
    /\ s = Null <=> t = Null
    /\ s # Null =>
          /\ t.id = s.id /\ t.name = s.name
          /\ t.uri = IF e.el = "service/uri" THEN e.body ELSE s.uri
          /\ t.timeoutSeconds = IF e.el = "service/timeoutSeconds"
                                THEN Number[e.body] ELSE s.timeoutSeconds
          /\ e.el = "service/timeoutSeconds" => e.body # Null
          /\ t.params = IF e.el = "service/param" /\ e.name # Null
                        THEN With(s.params, e.name, e.body) ELSE s.params

ServiceRead(b, e, h) ==
    /\ h.cc.services = IF e.el = "service/end" THEN Append(b.cc.services, b.userdata)
                       ELSE b.cc.services
    /\ e.el = "service/end" => b.userdata # Null /\ h.userdata = Null
    /\ e.el = "service" =>
          h.userdata = IF e.id = Null THEN Null ELSE cc_newServiceDescriptorObj(e.id, e.name)
    /\ e.el \in ServiceParts => PartRead(b.userdata, e, h.userdata)
    /\ e.el \notin {"service", "service/end"} \cup ServiceParts => h.userdata = b.userdata

Fault(b, e) ==
    \/ /\ e.el \in {"sheapPageSize", "broker", "service/timeoutSeconds",
                    "resource/timeoutSeconds", "resource/param"}
       /\ e.body = Null
    \/ e.el = "service/end" /\ b.userdata = Null

ElementRead(b, e, h) ==
    /\ IsBundle(h)
    /\ h.alive => /\ SettingRead(b, e, h) /\ BrokerChanged(b, e, h)
                  /\ ResourceRead(b, e, h) /\ ServiceRead(b, e, h)
    /\ ~h.alive => Fault(b, e)

LEMMA CCWith ==
    ASSUME NEW b, IsBundle(b), NEW c, IsConfig(c), NEW h, h = [b EXCEPT !.cc = c]
    PROVE  /\ IsBundle(h) /\ h.cc = c /\ h.userdata = b.userdata
           /\ h.userdata2 = b.userdata2 /\ (h.alive <=> b.alive)
  BY DEF IsBundle

LEMMA DeadBundle ==
    ASSUME NEW b, IsBundle(b), NEW h, h = Dies(b)
    PROVE  IsBundle(h) /\ ~h.alive
<1>1. h = [cc |-> b.cc, userdata |-> b.userdata, userdata2 |-> b.userdata2, alive |-> FALSE]
  BY DEF IsBundle, Dies
<1>2. QED
  BY <1>1 DEF IsBundle

LEMMA CopyRead ==
    ASSUME NEW b, IsBundle(b), b.alive, NEW e \in Element, e.el \in Copied
    PROVE  ElementRead(b, e, Copy(b, e))
<1>1. PICK c : c = [b.cc EXCEPT ![e.el] = e.body]
  OBVIOUS
<1>2. PICK h : h = Copy(b, e)
  OBVIOUS
<1>3. h = [b EXCEPT !.cc = c]
  BY <1>1, <1>2 DEF Copy, IsBundle
<1>4. IsConfig(b.cc)
  BY DEF IsBundle
<1>5. /\ IsConfig(c)
      /\ \A f \in Copied : c[f] = IF e.el = f THEN e.body ELSE b.cc[f]
      /\ \A f \in Flags : c[f] = b.cc[f] 
      /\ c.sheapPageSize = b.cc.sheapPageSize
      /\ c.autoRefreshWaitSeconds = b.cc.autoRefreshWaitSeconds
      /\ c.messageBroker = b.cc.messageBroker /\ c.resourceService = b.cc.resourceService
      /\ c.services = b.cc.services
  BY <1>1, <1>4 DEF IsConfig, Copied, Flags
<1>6. /\ IsBundle(h) /\ h.cc = c /\ h.userdata = b.userdata
      /\ (h.alive <=> b.alive)
  BY <1>3, <1>5, CCWith
<1>7. SettingRead(b, e, h)
  BY <1>5, <1>6 DEF SettingRead, Copied, Flags
<1>8. BrokerChanged(b, e, h) /\ ResourceRead(b, e, h) /\ ServiceRead(b, e, h)
  BY <1>5, <1>6 DEF BrokerChanged, ResourceRead, ServiceRead, ResourceParts, ServiceParts, Copied
<1>9. QED
  BY <1>2, <1>6, <1>7, <1>8 DEF ElementRead

\* Flags, numbers and the message broker change a config_core only.
LEMMA FlagRead ==
    ASSUME NEW b, IsBundle(b), b.alive, NEW e \in Element, e.el \in Flags
    PROVE  ElementRead(b, e, Flag(b, e))
<1>0. PICK t \in BOOLEAN : t <=> e.body \in On
  <2>1. CASE e.body \in On
    BY <2>1
  <2>2. CASE e.body \notin On
    BY <2>2
  <2>3. QED
    BY <2>1, <2>2
<1>1. PICK c : c = [b.cc EXCEPT ![e.el] = t]
  OBVIOUS
<1>2. PICK h : h = Flag(b, e)
  OBVIOUS
<1>3. h = [b EXCEPT !.cc = c]
  <2>1. t = (e.body \in On)
    BY <1>0
  <2>2. QED
    BY <1>1, <1>2, <2>1 DEF Flag, IsBundle
<1>4. IsConfig(b.cc)
  BY DEF IsBundle
<1>5. /\ IsConfig(c)
      /\ \A f \in Copied : c[f] = b.cc[f]
      /\ \A f \in Flags : c[f] <=> IF e.el = f THEN t ELSE b.cc[f]
      /\ c.sheapPageSize = b.cc.sheapPageSize
      /\ c.autoRefreshWaitSeconds = b.cc.autoRefreshWaitSeconds
      /\ c.messageBroker = b.cc.messageBroker /\ c.resourceService = b.cc.resourceService
      /\ c.services = b.cc.services
  BY <1>1, <1>4 DEF IsConfig, Copied, Flags
<1>6. /\ IsBundle(h) /\ h.cc = c /\ h.userdata = b.userdata
      /\ (h.alive <=> b.alive)
  BY <1>3, <1>5, CCWith
<1>7. SettingRead(b, e, h)
  BY <1>0, <1>5, <1>6 DEF SettingRead, Copied, Flags
<1>8. BrokerChanged(b, e, h) /\ ResourceRead(b, e, h) /\ ServiceRead(b, e, h)
  BY <1>5, <1>6 DEF BrokerChanged, ResourceRead, ServiceRead, ResourceParts, ServiceParts, Flags
<1>9. QED
  BY <1>2, <1>6, <1>7, <1>8 DEF ElementRead

LEMMA NumberOf == ASSUME NEW t \in Maybe, t # Null PROVE Number[t] \in Int
  BY TextAssumption DEF Maybe

LEMMA ElementBody ==
    ASSUME NEW e \in Element
    PROVE  e.id \in Maybe /\ e.body \in Maybe /\ (e.el # "broker" => e.name \in Maybe)
  BY DEF Element, Maybe

LEMMA SheapPageSizeRead ==
    ASSUME NEW b, IsBundle(b), b.alive, NEW e \in Element, e.el = "sheapPageSize"
    PROVE  ElementRead(b, e, cc_setCCSheapPageSizeBody(b, e))
<1>1. CASE e.body = Null
  BY <1>1, DeadBundle DEF cc_setCCSheapPageSizeBody, ElementRead, Fault
<1>2. CASE e.body # Null
  <2>1. PICK c : c = [b.cc EXCEPT !.sheapPageSize = Number[e.body]]
    OBVIOUS
  <2>2. PICK h : h = cc_setCCSheapPageSizeBody(b, e)
    OBVIOUS
  <2>3. h = [b EXCEPT !.cc = c]
    BY <1>2, <2>1, <2>2 DEF cc_setCCSheapPageSizeBody, IsBundle
  <2>4. IsConfig(b.cc)
    BY DEF IsBundle
  <2>5. /\ IsConfig(c)
        /\ \A f \in Copied : c[f] = b.cc[f]
        /\ \A f \in Flags : c[f] = b.cc[f]
        /\ c.sheapPageSize = Number[e.body]
        /\ c.autoRefreshWaitSeconds = b.cc.autoRefreshWaitSeconds
        /\ c.messageBroker = b.cc.messageBroker /\ c.resourceService = b.cc.resourceService
        /\ c.services = b.cc.services
    BY <2>1, <2>4 DEF IsConfig, Copied, Flags
  <2>6. /\ IsBundle(h) /\ h.cc = c /\ h.userdata = b.userdata
        /\ (h.alive <=> b.alive)
    BY <2>3, <2>5, CCWith
  <2>7. SettingRead(b, e, h)
    BY <1>2, <2>5, <2>6 DEF SettingRead, Copied, Flags
  <2>8. BrokerChanged(b, e, h) /\ ResourceRead(b, e, h) /\ ServiceRead(b, e, h)
    BY <2>5, <2>6 DEF BrokerChanged, ResourceRead, ServiceRead, ResourceParts, ServiceParts
  <2>9. QED
    BY <2>2, <2>6, <2>7, <2>8 DEF ElementRead
<1>3. QED
  BY <1>1, <1>2

LEMMA AutoRefreshWaitRead ==
    ASSUME NEW b, IsBundle(b), b.alive, NEW e \in Element, e.el = "autoRefreshWaitSeconds"
    PROVE  ElementRead(b, e, cc_setCCAutoRefreshWaitSecondsBody(b, e))
<1>1. PICK n : n = IF e.body = Null THEN b.cc.autoRefreshWaitSeconds ELSE Number[e.body]
  OBVIOUS
<1>2. PICK c : c = [b.cc EXCEPT !.autoRefreshWaitSeconds = n]
  OBVIOUS
<1>3. PICK h : h = cc_setCCAutoRefreshWaitSecondsBody(b, e)
  OBVIOUS
<1>4. IsConfig(b.cc)
  BY DEF IsBundle
<1>5. /\ IsConfig(c)
      /\ \A f \in Copied : c[f] = b.cc[f]
      /\ \A f \in Flags : c[f] = b.cc[f]
      /\ c.sheapPageSize = b.cc.sheapPageSize
      /\ c.autoRefreshWaitSeconds = n
      /\ c.messageBroker = b.cc.messageBroker /\ c.resourceService = b.cc.resourceService
      /\ c.services = b.cc.services
  BY <1>2, <1>4 DEF IsConfig, Copied, Flags
<1>6. h = [b EXCEPT !.cc = c]
  <2>1. CASE e.body = Null
    <3>1. c = b.cc
      BY <1>1, <1>2, <1>4, <2>1 DEF IsConfig
    <3>2. QED
      BY <1>3, <2>1, <3>1 DEF cc_setCCAutoRefreshWaitSecondsBody, IsBundle
  <2>2. CASE e.body # Null
    BY <1>1, <1>2, <1>3, <2>2 DEF cc_setCCAutoRefreshWaitSecondsBody, IsBundle
  <2>3. QED
    BY <2>1, <2>2
<1>7. /\ IsBundle(h) /\ h.cc = c /\ h.userdata = b.userdata
      /\ (h.alive <=> b.alive)
  BY <1>5, <1>6, CCWith
<1>8. SettingRead(b, e, h)
  BY <1>1, <1>5, <1>7 DEF SettingRead, Copied, Flags
<1>9. BrokerChanged(b, e, h) /\ ResourceRead(b, e, h) /\ ServiceRead(b, e, h)
  BY <1>5, <1>7 DEF BrokerChanged, ResourceRead, ServiceRead, ResourceParts, ServiceParts
<1>10. QED
  BY <1>3, <1>7, <1>8, <1>9 DEF ElementRead

LEMMA MessageBrokerRead ==
    ASSUME NEW b, IsBundle(b), b.alive, NEW e \in Element, e.el = "messageBroker"
    PROVE  ElementRead(b, e, cc_setMessageBrokerAttributes(b))
<1>1. PICK c : c = [b.cc EXCEPT !.messageBroker = cm_newMessageBrokerObj]
  OBVIOUS
<1>2. PICK h : h = cc_setMessageBrokerAttributes(b)
  OBVIOUS
<1>3. h = [b EXCEPT !.cc = c]
  BY <1>1, <1>2 DEF cc_setMessageBrokerAttributes, IsBundle
<1>4. IsConfig(b.cc)
  BY DEF IsBundle
<1>n. cm_newMessageBrokerObj \in MessageBroker
  BY DEF cm_newMessageBrokerObj, MessageBroker, Maybe
<1>5. /\ IsConfig(c)
      /\ \A f \in Copied : c[f] = b.cc[f]
      /\ \A f \in Flags : c[f] = b.cc[f]
      /\ c.sheapPageSize = b.cc.sheapPageSize
      /\ c.autoRefreshWaitSeconds = b.cc.autoRefreshWaitSeconds
      /\ c.messageBroker = cm_newMessageBrokerObj /\ c.resourceService = b.cc.resourceService
      /\ c.services = b.cc.services
  BY <1>1, <1>4, <1>n DEF IsConfig, Copied, Flags
<1>6. /\ IsBundle(h) /\ h.cc = c /\ h.userdata = b.userdata
      /\ (h.alive <=> b.alive)
  BY <1>3, <1>5, CCWith
<1>7. SettingRead(b, e, h)
  BY <1>5, <1>6 DEF SettingRead, Copied, Flags
<1>8. BrokerChanged(b, e, h) /\ ResourceRead(b, e, h) /\ ServiceRead(b, e, h)
  BY <1>5, <1>6 DEF BrokerChanged, BrokerGiven, ResourceRead, ServiceRead, ResourceParts, ServiceParts
<1>9. QED
  BY <1>2, <1>6, <1>7, <1>8 DEF ElementRead

LEMMA BrokerSet ==
    ASSUME NEW b, IsBundle(b), b.alive, NEW e \in Element, e.el = "broker",
           NEW m \in MessageBroker, BrokerGiven(b.cc.messageBroker, e, m),
           NEW c, c = [b.cc EXCEPT !.messageBroker = m],
           NEW h, h = [b EXCEPT !.cc = c]
    PROVE  ElementRead(b, e, h)
<1>4. IsConfig(b.cc)
  BY DEF IsBundle
<1>5. /\ IsConfig(c)
      /\ \A f \in Copied : c[f] = b.cc[f]
      /\ \A f \in Flags : c[f] = b.cc[f]
      /\ c.sheapPageSize = b.cc.sheapPageSize
      /\ c.autoRefreshWaitSeconds = b.cc.autoRefreshWaitSeconds
      /\ c.messageBroker = m /\ c.resourceService = b.cc.resourceService
      /\ c.services = b.cc.services
  BY <1>4 DEF IsConfig, Copied, Flags
<1>6. /\ IsBundle(h) /\ h.cc = c /\ h.userdata = b.userdata
      /\ (h.alive <=> b.alive)
  BY <1>5, CCWith
<1>7. SettingRead(b, e, h)
  BY <1>5, <1>6 DEF SettingRead, Copied, Flags
<1>8. BrokerChanged(b, e, h) /\ ResourceRead(b, e, h) /\ ServiceRead(b, e, h)
  BY <1>5, <1>6 DEF BrokerChanged, ResourceRead, ServiceRead, ResourceParts, ServiceParts
<1>9. QED
  BY <1>6, <1>7, <1>8 DEF ElementRead

LEMMA BrokerRead ==
    ASSUME NEW b, IsBundle(b), b.alive, NEW e \in Element, e.el = "broker",
           b.cc.messageBroker # Null
    PROVE  /\ e.name \in BrokerTexts =>
                 ElementRead(b, e, cc_setMessageBrokerTextBody(b, e.name, e))
           /\ e.name \notin BrokerTexts =>
                 ElementRead(b, e, cc_setMessageBrokerNumberBody(b, e.name, e))
<1>1. b.cc.messageBroker \in MessageBroker
  BY DEF IsBundle, IsConfig
<1>2. ASSUME e.name \in BrokerTexts
      PROVE  ElementRead(b, e, cc_setMessageBrokerTextBody(b, e.name, e))
  <2>1. PICK m : m = [b.cc.messageBroker EXCEPT ![e.name] = e.body]
    OBVIOUS
  <2>2. m \in MessageBroker
    BY <1>1, <1>2, <2>1, ElementBody DEF MessageBroker, BrokerTexts
  <2>3. PICK c : c = [b.cc EXCEPT !.messageBroker = m]
    OBVIOUS
  <2>4. PICK h : h = cc_setMessageBrokerTextBody(b, e.name, e)
    OBVIOUS
  <2>5. h = [b EXCEPT !.cc = c]
    BY <2>1, <2>3, <2>4 DEF cc_setMessageBrokerTextBody, IsBundle, IsConfig
  <2>g. BrokerGiven(b.cc.messageBroker, e, m)
    <3>1. /\ \A f \in BrokerTexts : m[f] = IF e.name = f THEN e.body
                                           ELSE b.cc.messageBroker[f]
          /\ \A f \in BrokerNumbers : m[f] = b.cc.messageBroker[f]
      BY <1>1, <1>2, <2>1 DEF MessageBroker, BrokerTexts, BrokerNumbers
    <3>2. m # Null
      BY <2>2, NullAssumption
    <3>3. e.name \notin BrokerNumbers
      BY <1>2 DEF BrokerTexts, BrokerNumbers
    <3>4. QED
      BY <3>1, <3>2, <3>3 DEF BrokerGiven
  <2>6. ElementRead(b, e, h)
    BY <2>2, <2>3, <2>5, <2>g, BrokerSet
  <2>7. QED
    BY <2>4, <2>6
<1>3. ASSUME e.name \notin BrokerTexts, e.body # Null
      PROVE  ElementRead(b, e, cc_setMessageBrokerNumberBody(b, e.name, e))
  <2>1. PICK m : m = [b.cc.messageBroker EXCEPT ![e.name] = Number[e.body]]
    OBVIOUS
  <2>2. e.name \in BrokerNumbers
    BY <1>3 DEF Element, BrokerTexts, BrokerNumbers, Copied, Flags, ServiceParts, ResourceParts
  <2>3. Number[e.body] \in Int
    BY <1>3, ElementBody, NumberOf
  <2>4. m \in MessageBroker
    BY <1>1, <2>1, <2>2, <2>3 DEF MessageBroker, BrokerNumbers
  <2>5. PICK c : c = [b.cc EXCEPT !.messageBroker = m]
    OBVIOUS
  <2>6. PICK h : h = cc_setMessageBrokerNumberBody(b, e.name, e)
    OBVIOUS
  <2>7. h = [b EXCEPT !.cc = c]
    BY <1>3, <2>1, <2>5, <2>6 DEF cc_setMessageBrokerNumberBody, IsBundle, IsConfig
  <2>g. BrokerGiven(b.cc.messageBroker, e, m)
    <3>1. /\ \A f \in BrokerNumbers : m[f] = IF e.name = f THEN Number[e.body]
                                             ELSE b.cc.messageBroker[f]
          /\ \A f \in BrokerTexts : m[f] = b.cc.messageBroker[f]
      BY <1>1, <2>1, <2>2 DEF MessageBroker, BrokerTexts, BrokerNumbers
    <3>2. m # Null
      BY <2>4, NullAssumption
    <3>3. QED
      BY <1>3, <3>1, <3>2 DEF BrokerGiven
  <2>8. ElementRead(b, e, h)
    BY <2>4, <2>5, <2>7, <2>g, BrokerSet
  <2>9. QED
    BY <2>6, <2>8
<1>4. ASSUME e.body = Null
      PROVE  ElementRead(b, e, cc_setMessageBrokerNumberBody(b, e.name, e))
  BY <1>4, DeadBundle DEF cc_setMessageBrokerNumberBody, ElementRead, Fault
<1>5. QED
  BY <1>2, <1>3, <1>4

-----------------------------------------------------------------------------
\* The resource service.
LEMMA ResourceSet ==
    ASSUME NEW b, IsBundle(b), b.alive, NEW e \in Element,
           e.el \in ResourceParts \cup {"resourceService"},
           NEW d, IsBundle(d), d.cc = b.cc, d.alive, d.userdata = b.userdata,
           NEW r \in ServiceDescriptor,
           NEW c, c = [b.cc EXCEPT !.resourceService = r],
           NEW h, h = [d EXCEPT !.cc = c],
           ResourceGiven(b.cc.resourceService, e, r)
    PROVE  ElementRead(b, e, h)
<1>4. IsConfig(b.cc)
  BY DEF IsBundle
<1>5. /\ IsConfig(c)
      /\ \A f \in Copied : c[f] = b.cc[f]
      /\ \A f \in Flags : c[f] = b.cc[f]
      /\ c.sheapPageSize = b.cc.sheapPageSize
      /\ c.autoRefreshWaitSeconds = b.cc.autoRefreshWaitSeconds
      /\ c.messageBroker = b.cc.messageBroker /\ c.resourceService = r
      /\ c.services = b.cc.services
  BY <1>4 DEF IsConfig, Copied, Flags
<1>6. /\ IsBundle(h) /\ h.cc = c /\ h.userdata = b.userdata
      /\ (h.alive <=> d.alive)
  BY <1>5, CCWith
<1>7. SettingRead(b, e, h)
  <2>1. /\ \A f \in Copied \cup Flags : e.el # f
        /\ e.el # "sheapPageSize" /\ e.el # "autoRefreshWaitSeconds"
    BY DEF Copied, Flags, ResourceParts
  <2>2. /\ \A f \in Copied : h.cc[f] = b.cc[f]
        /\ \A f \in Flags : h.cc[f] = b.cc[f]
    BY <1>5, <1>6
  <2>3. /\ h.cc.sheapPageSize = b.cc.sheapPageSize
        /\ h.cc.autoRefreshWaitSeconds = b.cc.autoRefreshWaitSeconds
    BY <1>5, <1>6
  <2>4. \A f \in Copied : h.cc[f] = IF e.el = f THEN e.body ELSE b.cc[f]
    BY <2>1, <2>2
  <2>5. \A f \in Flags : h.cc[f] <=> IF e.el = f THEN e.body \in On ELSE b.cc[f]
    BY <2>1, <2>2
  <2>6. QED
    BY <2>1, <2>3, <2>4, <2>5 DEF SettingRead
<1>8. ResourceRead(b, e, h) /\ BrokerChanged(b, e, h)
  BY <1>5, <1>6 DEF ResourceRead, BrokerChanged, ResourceParts
<1>9. ServiceRead(b, e, h)
  BY <1>5, <1>6 DEF ServiceRead, ResourceParts, ServiceParts
<1>10. QED
  BY <1>6, <1>7, <1>8, <1>9 DEF ElementRead

LEMMA NewService ==
    ASSUME NEW id \in Maybe \cup {"RESOURCE_SERVICE"}, NEW name \in Maybe \cup {"RESOURCE_SERVICE"}
    PROVE  cc_newServiceDescriptorObj(id, name) \in ServiceDescriptor
<1>1. <<>> \in UNION {[names -> Text] : names \in SUBSET Text}
  <2>1. <<>> \in [{} -> Text]
    OBVIOUS
  <2>2. QED
    BY <2>1
<1>2. PICK P : P = UNION {[names -> Text] : names \in SUBSET Text}
  OBVIOUS
<1>3. PICK none : none = <<>>
  OBVIOUS
<1>4. [id |-> id, name |-> name, uri |-> Null, userColonPass |-> Null,
       timeoutSeconds |-> 2, params |-> none]
        \in [id : Maybe \cup {"RESOURCE_SERVICE"}, name : Maybe \cup {"RESOURCE_SERVICE"},
            uri : Maybe, userColonPass : Maybe, timeoutSeconds : Int, params : P]
  <2>1. none \in P /\ Null \in Maybe /\ 2 \in Int
    BY <1>1, <1>2, <1>3 DEF Maybe
  <2>2. QED
    BY <2>1
<1>5. QED
  BY <1>2, <1>3, <1>4 DEF cc_newServiceDescriptorObj, ServiceDescriptor

LEMMA ResourceServiceRead ==
    ASSUME NEW b, IsBundle(b), b.alive, NEW e \in Element, e.el = "resourceService"
    PROVE  ElementRead(b, e, cc_setResourceServiceAttributes(b))
<1>1. PICK c : c = [b.cc EXCEPT !.resourceService = NewResource]
  OBVIOUS
<1>2. PICK h : h = cc_setResourceServiceAttributes(b)
  OBVIOUS
<1>3. h = [b EXCEPT !.cc = c]
  BY <1>1, <1>2 DEF cc_setResourceServiceAttributes, IsBundle, NewResource
<1>4. NewResource \in ServiceDescriptor
  BY NewService DEF NewResource
<1>5. ResourceGiven(b.cc.resourceService, e, NewResource)
  BY DEF ResourceGiven, ResourceParts
<1>6. ElementRead(b, e, h)
  BY <1>1, <1>3, <1>4, <1>5, ResourceSet
<1>7. QED
  BY <1>2, <1>6

LEMMA ResourceTextRead ==
    ASSUME NEW b, IsBundle(b), b.alive, NEW e \in Element, b.cc.resourceService # Null,
           NEW f \in {"uri", "userColonPass"}, 
           e.el = IF f = "uri" THEN "resource/uri" ELSE "resource/userColonPass"
    PROVE  ElementRead(b, e, cc_setResourceServiceTextBody(b, f, e))
<1>1. b.cc.resourceService \in ServiceDescriptor
  BY DEF IsBundle, IsConfig
<1>2. PICK r : r = [b.cc.resourceService EXCEPT ![f] = e.body]
  OBVIOUS
<1>3. r \in ServiceDescriptor
  BY <1>1, <1>2, ElementBody DEF ServiceDescriptor
<1>4. ResourceGiven(b.cc.resourceService, e, r)
  <2>1. /\ r.uri = IF f = "uri" THEN e.body ELSE b.cc.resourceService.uri
        /\ r.userColonPass = IF f = "uri" THEN b.cc.resourceService.userColonPass ELSE e.body
        /\ r.timeoutSeconds = b.cc.resourceService.timeoutSeconds
    BY <1>1, <1>2 DEF ServiceDescriptor
  <2>2. r # Null
    BY <1>3, NullAssumption
  <2>3. QED
    BY <2>1, <2>2 DEF ResourceGiven, ResourceParts
<1>5. PICK c : c = [b.cc EXCEPT !.resourceService = r]
  OBVIOUS
<1>6. PICK h : h = cc_setResourceServiceTextBody(b, f, e)
  OBVIOUS
<1>7. h = [b EXCEPT !.cc = c]
  BY <1>2, <1>5, <1>6 DEF cc_setResourceServiceTextBody, IsBundle, IsConfig
<1>8. ElementRead(b, e, h)
  <2>1. e.el \in ResourceParts \cup {"resourceService"}
    BY DEF ResourceParts
  <2>2. QED
    BY <1>3, <1>4, <1>5, <1>7, <2>1, ResourceSet
<1>9. QED
  BY <1>6, <1>8

\* The timeout, and with another name for the next param, what is done for one.
LEMMA ResourceTimeoutRead ==
    ASSUME NEW b, IsBundle(b), b.alive, NEW e \in Element, b.cc.resourceService # Null,
           e.el \in {"resource/timeoutSeconds", "resource/param"},
           NEW d, IsBundle(d), d.cc = b.cc, d.alive, d.userdata = b.userdata
    PROVE  ElementRead(b, e, cc_setResourceServiceTimeoutBody(d, e))
<1>1. CASE e.body = Null
  <2>1. cc_setResourceServiceTimeoutBody(d, e) = Dies(d)
    BY <1>1 DEF cc_setResourceServiceTimeoutBody
  <2>2. QED
    BY <1>1, <2>1, DeadBundle DEF ElementRead, Fault
<1>2. CASE e.body # Null
  <2>1. b.cc.resourceService \in ServiceDescriptor
    BY DEF IsBundle, IsConfig
  <2>2. Number[e.body] \in Int
    BY <1>2, ElementBody, NumberOf
  <2>3. PICK r : r = [b.cc.resourceService EXCEPT !.timeoutSeconds = Number[e.body]]
    OBVIOUS
  <2>4. r \in ServiceDescriptor
    BY <2>1, <2>2, <2>3 DEF ServiceDescriptor
  <2>5. ResourceGiven(b.cc.resourceService, e, r)
    <3>1. /\ r.uri = b.cc.resourceService.uri
          /\ r.userColonPass = b.cc.resourceService.userColonPass
          /\ r.timeoutSeconds = Number[e.body]
      BY <2>1, <2>3 DEF ServiceDescriptor
    <3>2. r # Null
      BY <2>4, NullAssumption
    <3>3. QED
      BY <1>2, <3>1, <3>2 DEF ResourceGiven, ResourceParts
  <2>6. PICK c : c = [b.cc EXCEPT !.resourceService = r]
    OBVIOUS
  <2>7. PICK h : h = cc_setResourceServiceTimeoutBody(d, e)
    OBVIOUS
  <2>8. h = [d EXCEPT !.cc = c]
    BY <1>2, <2>3, <2>6, <2>7 DEF cc_setResourceServiceTimeoutBody, IsBundle, IsConfig
  <2>9. ElementRead(b, e, h)
    <3>1. e.el \in ResourceParts \cup {"resourceService"}
      BY DEF ResourceParts
    <3>2. QED
      BY <2>4, <2>5, <2>6, <2>8, <3>1, ResourceSet
  <2>10. QED
    BY <2>7, <2>9
<1>3. QED
  BY <1>1, <1>2

LEMMA ResourceParamRead ==
    ASSUME NEW b, IsBundle(b), b.alive, NEW e \in Element, b.cc.resourceService # Null,
           e.el = "resource/param"
    PROVE  ElementRead(b, e, cc_setResourceServiceTimeoutBody(
                                cc_setResourceServiceParamAttributes(b, e), e))
<1>1. PICK d : d = cc_setResourceServiceParamAttributes(b, e)
  OBVIOUS
<1>2. e.name \in Maybe
  BY ElementBody
<1>3. IsBundle(d) /\ d.cc = b.cc /\ d.alive /\ d.userdata = b.userdata
  BY <1>1, <1>2 DEF cc_setResourceServiceParamAttributes, IsBundle
<1>4. QED
  BY <1>1, <1>3, ResourceTimeoutRead

-----------------------------------------------------------------------------
\* The services: the elements that change the bundle's service only.
LEMMA ServiceSet ==
    ASSUME NEW b, IsBundle(b), b.alive, NEW e \in Element,
           e.el \in ServiceParts \cup {"service"},
           NEW h, IsBundle(h), h.cc = b.cc, h.alive,
           e.el = "service" => h.userdata = IF e.id = Null THEN Null
                                            ELSE cc_newServiceDescriptorObj(e.id, e.name),
           e.el \in ServiceParts => PartRead(b.userdata, e, h.userdata)
    PROVE  ElementRead(b, e, h)
<1>1. SettingRead(b, e, h)
  BY DEF SettingRead, ServiceParts, Copied, Flags
<1>2. ResourceRead(b, e, h) /\ BrokerChanged(b, e, h)
  BY DEF ResourceRead, BrokerChanged, ServiceParts, ResourceParts
<1>3. ServiceRead(b, e, h)
  BY DEF ServiceRead, ServiceParts
<1>4. QED
  BY <1>1, <1>2, <1>3 DEF ElementRead

LEMMA ServiceAttributesRead ==
    ASSUME NEW b, IsBundle(b), b.alive, NEW e \in Element, e.el = "service"
    PROVE  ElementRead(b, e, cc_setCCServiceAttributes(b, e))
<1>1. PICK s : s = IF e.id = Null THEN Null ELSE cc_newServiceDescriptorObj(e.id, e.name)
  OBVIOUS
<1>2. s \in ServiceDescriptor \cup {Null}
  BY <1>1, ElementBody, NewService
<1>3. PICK h : h = cc_setCCServiceAttributes(b, e)
  OBVIOUS
<1>4. h = [b EXCEPT !.userdata = s]
  BY <1>1, <1>3 DEF cc_setCCServiceAttributes
<1>5. IsBundle(h) /\ h.cc = b.cc /\ h.alive /\ h.userdata = s
  BY <1>2, <1>4 DEF IsBundle
<1>6. ElementRead(b, e, h)
  BY <1>1, <1>5, ServiceSet DEF ServiceParts
<1>7. QED
  BY <1>3, <1>6

LEMMA ServiceUriRead ==
    ASSUME NEW b, IsBundle(b), b.alive, NEW e \in Element, e.el = "service/uri"
    PROVE  ElementRead(b, e, cc_setCCServiceUriBody(b, e))
<1>1. CASE b.userdata = Null
  <2>1. PartRead(b.userdata, e, b.userdata)
    BY <1>1 DEF PartRead
  <2>2. cc_setCCServiceUriBody(b, e) = b
    BY <1>1 DEF cc_setCCServiceUriBody
  <2>3. QED
    BY <2>1, <2>2, ServiceSet DEF ServiceParts
<1>2. CASE b.userdata # Null
  <2>1. b.userdata \in ServiceDescriptor
    BY <1>2 DEF IsBundle
  <2>2. PICK s : s = [b.userdata EXCEPT !.uri = e.body]
    OBVIOUS
  <2>3. s \in ServiceDescriptor
    BY <2>1, <2>2, ElementBody DEF ServiceDescriptor
  <2>4. PartRead(b.userdata, e, s)
    <3>1. /\ s.id = b.userdata.id /\ s.name = b.userdata.name /\ s.uri = e.body
          /\ s.timeoutSeconds = b.userdata.timeoutSeconds /\ s.params = b.userdata.params
      BY <2>1, <2>2 DEF ServiceDescriptor
    <3>2. s # Null
      BY <2>3, NullAssumption
    <3>3. QED
      BY <1>2, <3>1, <3>2 DEF PartRead
  <2>5. PICK h : h = cc_setCCServiceUriBody(b, e)
    OBVIOUS
  <2>6. h = [b EXCEPT !.userdata = s]
    BY <1>2, <2>2, <2>5 DEF cc_setCCServiceUriBody, IsBundle
  <2>7. IsBundle(h) /\ h.cc = b.cc /\ h.alive /\ h.userdata = s
    BY <2>3, <2>6 DEF IsBundle
  <2>8. ElementRead(b, e, h)
    BY <2>4, <2>7, ServiceSet DEF ServiceParts
  <2>9. QED
    BY <2>5, <2>8
<1>3. QED
  BY <1>1, <1>2

LEMMA ServiceTimeoutRead ==
    ASSUME NEW b, IsBundle(b), b.alive, NEW e \in Element, e.el = "service/timeoutSeconds"
    PROVE  ElementRead(b, e, cc_setCCServiceTimeoutBody(b, e))
<1>1. CASE b.userdata = Null
  <2>1. PartRead(b.userdata, e, b.userdata)
    BY <1>1 DEF PartRead
  <2>2. cc_setCCServiceTimeoutBody(b, e) = b
    BY <1>1 DEF cc_setCCServiceTimeoutBody
  <2>3. QED
    BY <2>1, <2>2, ServiceSet DEF ServiceParts
<1>2. CASE b.userdata # Null /\ e.body = Null
  <2>1. cc_setCCServiceTimeoutBody(b, e) = Dies(b)
    BY <1>2 DEF cc_setCCServiceTimeoutBody
  <2>2. QED
    BY <1>2, <2>1, DeadBundle DEF ElementRead, Fault
<1>3. CASE b.userdata # Null /\ e.body # Null
  <2>1. b.userdata \in ServiceDescriptor /\ Number[e.body] \in Int
    BY <1>3, ElementBody, NumberOf DEF IsBundle
  <2>2. PICK s : s = [b.userdata EXCEPT !.timeoutSeconds = Number[e.body]]
    OBVIOUS
  <2>3. s \in ServiceDescriptor
    BY <2>1, <2>2 DEF ServiceDescriptor
  <2>4. PartRead(b.userdata, e, s)
    <3>1. /\ s.id = b.userdata.id /\ s.name = b.userdata.name /\ s.uri = b.userdata.uri
          /\ s.timeoutSeconds = Number[e.body] /\ s.params = b.userdata.params
      BY <2>1, <2>2 DEF ServiceDescriptor
    <3>2. s # Null
      BY <2>3, NullAssumption
    <3>3. QED
      BY <1>3, <3>1, <3>2 DEF PartRead
  <2>5. PICK h : h = cc_setCCServiceTimeoutBody(b, e)
    OBVIOUS
  <2>6. h = [b EXCEPT !.userdata = s]
    BY <1>3, <2>2, <2>5 DEF cc_setCCServiceTimeoutBody, IsBundle
  <2>7. IsBundle(h) /\ h.cc = b.cc /\ h.alive /\ h.userdata = s
    BY <2>3, <2>6 DEF IsBundle
  <2>8. ElementRead(b, e, h)
    BY <2>4, <2>7, ServiceSet DEF ServiceParts
  <2>9. QED
    BY <2>5, <2>8
<1>4. QED
  BY <1>1, <1>2, <1>3

LEMMA WithParam ==
    ASSUME NEW f \in UNION {[names -> Text] : names \in SUBSET Text},
           NEW k \in Text, NEW v \in Maybe
    PROVE  With(f, k, v) \in UNION {[names -> Text] : names \in SUBSET Text}
<1>1. PICK names \in SUBSET Text : f \in [names -> Text]
  OBVIOUS
<1>2. CASE v = Null
  <2>1. With(f, k, v) \in [names \ {k} -> Text]
    BY <1>1, <1>2 DEF With
  <2>2. names \ {k} \in SUBSET Text
    OBVIOUS
  <2>3. QED
    BY <2>1, <2>2
<1>3. CASE v # Null
  <2>1. With(f, k, v) \in [names \cup {k} -> Text]
    BY <1>1, <1>3 DEF With, Maybe
  <2>2. names \cup {k} \in SUBSET Text
    OBVIOUS
  <2>3. QED
    BY <2>1, <2>2
<1>4. QED
  BY <1>2, <1>3

LEMMA ServiceParamRead ==
    ASSUME NEW b, IsBundle(b), b.alive, NEW e \in Element, e.el = "service/param"
    PROVE  ElementRead(b, e, cc_setCCServiceParamBody(cc_setCCServiceParamAttributes(b, e), e))
<1>1. PICK d : d = cc_setCCServiceParamAttributes(b, e)
  OBVIOUS
<1>2. e.name \in Maybe /\ e.body \in Maybe
  BY ElementBody
<1>3. /\ IsBundle(d) /\ d.cc = b.cc /\ d.alive /\ d.userdata = b.userdata
      /\ d.userdata2 = e.name
  BY <1>1, <1>2 DEF cc_setCCServiceParamAttributes, IsBundle
<1>4. CASE b.userdata = Null \/ e.name = Null
  <2>1. PartRead(b.userdata, e, b.userdata)
    BY <1>4 DEF PartRead
  <2>2. cc_setCCServiceParamBody(d, e) = d
    BY <1>3, <1>4 DEF cc_setCCServiceParamBody
  <2>3. ElementRead(b, e, d)
    BY <1>3, <2>1, ServiceSet DEF ServiceParts
  <2>4. QED
    BY <1>1, <2>2, <2>3
<1>5. CASE b.userdata # Null /\ e.name # Null
  <2>1. b.userdata \in ServiceDescriptor /\ e.name \in Text
    BY <1>2, <1>5 DEF IsBundle, Maybe
  <2>2. PICK p : p = With(b.userdata.params, e.name, e.body)
    OBVIOUS
  <2>3. p \in UNION {[names -> Text] : names \in SUBSET Text}
    BY <1>2, <2>1, <2>2, WithParam DEF ServiceDescriptor
  <2>4. PICK s : s = [b.userdata EXCEPT !.params = p]
    OBVIOUS
  <2>5. s \in ServiceDescriptor
    BY <2>1, <2>3, <2>4 DEF ServiceDescriptor
  <2>6. PartRead(b.userdata, e, s)
    <3>1. /\ s.id = b.userdata.id /\ s.name = b.userdata.name /\ s.uri = b.userdata.uri
          /\ s.timeoutSeconds = b.userdata.timeoutSeconds /\ s.params = p
      BY <2>1, <2>4 DEF ServiceDescriptor
    <3>2. s # Null
      BY <2>5, NullAssumption
    <3>3. QED
      BY <1>5, <2>2, <3>1, <3>2 DEF PartRead
  <2>7. PICK h : h = cc_setCCServiceParamBody(d, e)
    OBVIOUS
  <2>8. h = [d EXCEPT !.userdata = s]
    BY <1>3, <1>5, <2>2, <2>4, <2>7 DEF cc_setCCServiceParamBody, IsBundle
  <2>9. IsBundle(h) /\ h.cc = b.cc /\ h.alive /\ h.userdata = s
    BY <1>3, <2>5, <2>8 DEF IsBundle
  <2>10. ElementRead(b, e, h)
    BY <2>6, <2>9, ServiceSet DEF ServiceParts
  <2>11. QED
    BY <1>1, <2>7, <2>10
<1>6. QED
  BY <1>4, <1>5

LEMMA ServiceEndRead ==
    ASSUME NEW b, IsBundle(b), b.alive, NEW e \in Element, e.el = "service/end"
    PROVE  ElementRead(b, e, cc_setCCServiceEnd(b))
<1>1. CASE b.userdata = Null
  <2>1. cc_setCCServiceEnd(b) = Dies(b)
    BY <1>1 DEF cc_setCCServiceEnd
  <2>2. QED
    BY <1>1, <2>1, DeadBundle DEF ElementRead, Fault
<1>2. CASE b.userdata # Null
  <2>1. b.userdata \in ServiceDescriptor /\ IsConfig(b.cc)
    BY <1>2 DEF IsBundle
  <2>2. PICK c : c = [b.cc EXCEPT !.services = Append(b.cc.services, b.userdata)]
    OBVIOUS
  <2>3. Append(b.cc.services, b.userdata) \in Seq(ServiceDescriptor)
    BY <2>1 DEF IsConfig
  <2>4. /\ IsConfig(c)
        /\ \A f \in Copied : c[f] = b.cc[f]
        /\ \A f \in Flags : c[f] = b.cc[f]
        /\ c.sheapPageSize = b.cc.sheapPageSize
        /\ c.autoRefreshWaitSeconds = b.cc.autoRefreshWaitSeconds
        /\ c.messageBroker = b.cc.messageBroker
        /\ c.resourceService = b.cc.resourceService
        /\ c.services = Append(b.cc.services, b.userdata)
    BY <2>1, <2>2, <2>3 DEF IsConfig, Copied, Flags
  <2>5. PICK h : h = cc_setCCServiceEnd(b)
    OBVIOUS
  <2>6. h = [cc |-> c, userdata |-> Null, userdata2 |-> Null, alive |-> b.alive]
    BY <1>2, <2>2, <2>5 DEF cc_setCCServiceEnd, IsBundle
  <2>7. IsBundle(h)
    BY <2>4, <2>6 DEF IsBundle, Maybe
  <2>8. SettingRead(b, e, h)
    BY <2>4, <2>6 DEF SettingRead, Copied, Flags
  <2>9. BrokerChanged(b, e, h) /\ ResourceRead(b, e, h) /\ ServiceRead(b, e, h)
    BY <1>2, <2>4, <2>6 DEF BrokerChanged, ResourceRead, ServiceRead, ResourceParts, ServiceParts
  <2>10. h.alive
    BY <2>6
  <2>11. ElementRead(b, e, h)
    BY <2>7, <2>8, <2>9, <2>10 DEF ElementRead
  <2>12. QED
    BY <2>5, <2>11
<1>3. QED
  BY <1>1, <1>2

-----------------------------------------------------------------------------
\* Every handler.
LEMMA ElementKinds ==
    ASSUME NEW e \in Element
    PROVE  e.el \in Copied \cup Flags \cup ServiceParts \cup ResourceParts
                    \cup {"sheapPageSize", "autoRefreshWaitSeconds", "messageBroker",
                          "resourceService", "service", "service/end", "broker"}
  BY DEF Element

LEMMA HandledReads ==
    ASSUME NEW b, IsBundle(b), b.alive, NEW e \in Element,
           e.el \in ResourceParts => b.cc.resourceService # Null,
           e.el = "broker" => b.cc.messageBroker # Null
    PROVE  ElementRead(b, e, Handled(b, e))
<1>1. CASE e.el \in Copied
  <2>1. Handled(b, e) = Copy(b, e)
    BY <1>1 DEF Handled, Copied, Flags
  <2>2. QED
    BY <1>1, <2>1, CopyRead
<1>2. CASE e.el \in Flags
  <2>1. Handled(b, e) = Flag(b, e)
    BY <1>2 DEF Handled, Copied, Flags
  <2>2. QED
    BY <1>2, <2>1, FlagRead
<1>3. CASE e.el = "sheapPageSize"
  <2>1. Handled(b, e) = cc_setCCSheapPageSizeBody(b, e)
    BY <1>3 DEF Handled, Copied, Flags
  <2>2. QED
    BY <1>3, <2>1, SheapPageSizeRead
<1>4. CASE e.el = "autoRefreshWaitSeconds"
  <2>1. Handled(b, e) = cc_setCCAutoRefreshWaitSecondsBody(b, e)
    BY <1>4 DEF Handled, Copied, Flags
  <2>2. QED
    BY <1>4, <2>1, AutoRefreshWaitRead
<1>5. CASE e.el = "messageBroker"
  <2>1. Handled(b, e) = cc_setMessageBrokerAttributes(b)
    BY <1>5 DEF Handled, Copied, Flags
  <2>2. QED
    BY <1>5, <2>1, MessageBrokerRead
<1>6. CASE e.el = "broker"
  <2>1. Handled(b, e) = IF e.name \in BrokerTexts
                        THEN cc_setMessageBrokerTextBody(b, e.name, e)
                        ELSE cc_setMessageBrokerNumberBody(b, e.name, e)
    BY <1>6 DEF Handled, Copied, Flags
  <2>2. QED
    BY <1>6, <2>1, BrokerRead
<1>7. CASE e.el = "resourceService"
  <2>1. Handled(b, e) = cc_setResourceServiceAttributes(b)
    BY <1>7 DEF Handled, Copied, Flags
  <2>2. QED
    BY <1>7, <2>1, ResourceServiceRead
<1>8. CASE e.el = "resource/uri"
  <2>1. Handled(b, e) = cc_setResourceServiceTextBody(b, "uri", e)
    BY <1>8 DEF Handled, Copied, Flags
  <2>2. QED
    BY <1>8, <2>1, ResourceTextRead DEF ResourceParts
<1>9. CASE e.el = "resource/userColonPass"
  <2>1. Handled(b, e) = cc_setResourceServiceTextBody(b, "userColonPass", e)
    BY <1>9 DEF Handled, Copied, Flags
  <2>2. QED
    BY <1>9, <2>1, ResourceTextRead DEF ResourceParts
<1>10. CASE e.el = "resource/timeoutSeconds"
  <2>1. Handled(b, e) = cc_setResourceServiceTimeoutBody(b, e)
    BY <1>10 DEF Handled, Copied, Flags
  <2>2. QED
    BY <1>10, <2>1, ResourceTimeoutRead DEF ResourceParts
<1>11. CASE e.el = "resource/param"
  <2>1. Handled(b, e) = cc_setResourceServiceTimeoutBody(
                            cc_setResourceServiceParamAttributes(b, e), e)
    BY <1>11 DEF Handled, Copied, Flags
  <2>2. QED
    BY <1>11, <2>1, ResourceParamRead DEF ResourceParts
<1>12. CASE e.el = "service"
  <2>1. Handled(b, e) = cc_setCCServiceAttributes(b, e)
    BY <1>12 DEF Handled, Copied, Flags
  <2>2. QED
    BY <1>12, <2>1, ServiceAttributesRead
<1>13. CASE e.el = "service/uri"
  <2>1. Handled(b, e) = cc_setCCServiceUriBody(b, e)
    BY <1>13 DEF Handled, Copied, Flags
  <2>2. QED
    BY <1>13, <2>1, ServiceUriRead
<1>14. CASE e.el = "service/timeoutSeconds"
  <2>1. Handled(b, e) = cc_setCCServiceTimeoutBody(b, e)
    BY <1>14 DEF Handled, Copied, Flags
  <2>2. QED
    BY <1>14, <2>1, ServiceTimeoutRead
<1>15. CASE e.el = "service/param"
  <2>1. Handled(b, e) = cc_setCCServiceParamBody(cc_setCCServiceParamAttributes(b, e), e)
    BY <1>15 DEF Handled, Copied, Flags
  <2>2. QED
    BY <1>15, <2>1, ServiceParamRead
<1>16. CASE e.el = "service/end"
  <2>1. Handled(b, e) = cc_setCCServiceEnd(b)
    BY <1>16 DEF Handled, Copied, Flags
  <2>2. QED
    BY <1>16, <2>1, ServiceEndRead
<1>17. QED
  BY <1>1, <1>2, <1>3, <1>4, <1>5, <1>6, <1>7, <1>8, <1>9, <1>10, <1>11, <1>12, <1>13,
     <1>14, <1>15, <1>16, ElementKinds DEF ServiceParts, ResourceParts

-----------------------------------------------------------------------------
(* What a document says, one element after the other.                      *)
LEMMA AtNext ==
    ASSUME NEW doc, NEW el, NEW lo \in Nat, NEW n \in Nat
    PROVE  At(doc, el, lo, n) = IF lo <= n /\ doc[n].el = el
                                  THEN At(doc, el, lo, n - 1) \cup {n}
                                  ELSE At(doc, el, lo, n - 1)
<1>1. \A m : m \in lo .. n <=> m \in lo .. (n - 1) \/ (lo <= n /\ m = n)
  OBVIOUS
<1>2. QED
  BY <1>1 DEF At

LEMMA LatestIs ==
    ASSUME NEW S, NEW n \in Int, n \in S, \A m \in S : m \in Int /\ m <= n
    PROVE  Latest(S) = n
<1>1. Latest(S) \in S /\ \A m \in S : m <= Latest(S)
  <2>1. \E k : k \in S /\ \A m \in S : m <= k
    OBVIOUS
  <2>2. QED
    BY <2>1 DEF Latest
<1>2. PICK k : k = Latest(S)
  OBVIOUS
<1>3. k \in Int /\ k <= n /\ n <= k
  BY <1>1, <1>2
<1>4. QED
  BY <1>2, <1>3

LEMMA EarliestIs ==
    ASSUME NEW S, NEW n \in Int, n \in S, \A m \in S : m \in Int /\ n <= m
    PROVE  Earliest(S) = n
<1>1. Earliest(S) \in S /\ \A m \in S : Earliest(S) <= m
  <2>1. \E k : k \in S /\ \A m \in S : k <= m
    OBVIOUS
  <2>2. QED
    BY <2>1 DEF Earliest
<1>2. PICK k : k = Earliest(S)
  OBVIOUS
<1>3. k \in Int /\ k <= n /\ n <= k
  BY <1>1, <1>2
<1>4. QED
  BY <1>2, <1>3

LEMMA AtBounds ==
    ASSUME NEW doc, NEW el, NEW lo \in Nat, NEW hi \in Int
    PROVE  /\ \A m \in At(doc, el, lo, hi) : m \in Nat /\ lo <= m /\ m <= hi /\ doc[m].el = el
           /\ IsFiniteSet(At(doc, el, lo, hi))
<1>1. At(doc, el, lo, hi) \subseteq lo .. hi
  BY DEF At
<1>2. IsFiniteSet(lo .. hi)
  BY FS_Interval
<1>3. IsFiniteSet(At(doc, el, lo, hi))
  BY <1>1, <1>2, FS_Subset
<1>4. QED
  BY <1>3 DEF At

LEMMA SaysNext ==
    ASSUME NEW doc, NEW el, NEW lo \in Nat, NEW n \in Nat, NEW default
    PROVE  Says(doc, el, lo, n, default) =
              IF lo <= n /\ doc[n].el = el THEN doc[n].body
              ELSE Says(doc, el, lo, n - 1, default)
<1>1. CASE lo <= n /\ doc[n].el = el
  <2>1. n \in At(doc, el, lo, n)
    BY <1>1 DEF At
  <2>2. Latest(At(doc, el, lo, n)) = n
    <3>1. \A m \in At(doc, el, lo, n) : m \in Int /\ m <= n
      BY AtBounds
    <3>2. QED
      BY <2>1, <3>1, LatestIs
  <2>3. QED
    BY <1>1, <2>1, <2>2 DEF Says
<1>2. CASE ~(lo <= n /\ doc[n].el = el)
  <2>1. At(doc, el, lo, n) = At(doc, el, lo, n - 1)
    BY <1>2, AtNext
  <2>2. QED
    BY <1>2, <2>1 DEF Says
<1>3. QED
  BY <1>1, <1>2

LEMMA SaysNumberNext ==
    ASSUME NEW doc, NEW el, NEW lo \in Nat, NEW n \in Nat, NEW default
    PROVE  SaysNumber(doc, el, lo, n, default) =
              IF lo <= n /\ doc[n].el = el
              THEN IF doc[n].body = Null THEN default ELSE Number[doc[n].body]
              ELSE SaysNumber(doc, el, lo, n - 1, default)
<1>1. Says(doc, el, lo, n, Null) = IF lo <= n /\ doc[n].el = el THEN doc[n].body
                                   ELSE Says(doc, el, lo, n - 1, Null)
  BY SaysNext
<1>2. QED
  BY <1>1 DEF SaysNumber

LEMMA SaysNothing ==
    ASSUME NEW doc, NEW el, NEW lo \in Nat, NEW n \in Int, NEW default, n < lo
    PROVE  /\ At(doc, el, lo, n) = {}
           /\ Says(doc, el, lo, n, default) = default
           /\ SaysNumber(doc, el, lo, n, default) = default
<1>1. At(doc, el, lo, n) = {}
  BY DEF At
<1>2. QED
  BY <1>1 DEF Says, SaysNumber

LEMMA NthNext ==
    ASSUME NEW doc, NEW n \in Nat, n # 0
    PROVE  /\ Nth(doc, n - 1) \in Nat
           /\ Nth(doc, n) = IF doc[n].el = "service" THEN Nth(doc, n - 1) + 1
                            ELSE Nth(doc, n - 1)
<1> DEFINE S == At(doc, "service", 1, n - 1)
<1>0. n - 1 \in Int /\ 1 \in Nat
  OBVIOUS
<1>1. IsFiniteSet(S) /\ n \notin S
  <2>1. IsFiniteSet(S) /\ \A m \in S : m <= n - 1
    BY <1>0, AtBounds
  <2>2. QED
    BY <2>1
<1>2. Cardinality(S) \in Nat /\ Cardinality(S \cup {n}) = Cardinality(S) + 1
  BY <1>1, FS_CardinalityType, FS_AddElement
<1>3. At(doc, "service", 1, n) = IF doc[n].el = "service" THEN S \cup {n} ELSE S
  BY <1>0, AtNext
<1> HIDE DEF S
<1>4. Nth(doc, n - 1) = Cardinality(S) /\ Nth(doc, n) = Cardinality(At(doc, "service", 1, n))
  BY DEF Nth, S
<1>5. QED
  BY <1>2, <1>3, <1>4

-----------------------------------------------------------------------------
(* The elements that were read so far.                                     *)
\* A service stands open after n elements.
Open(doc, n) == n # 0 /\ doc[n].el \in {"service"} \cup ServiceParts

StartBefore(doc, n) == Latest(At(doc, "service", 1, n))

Closed(cc, doc, s) ==
    /\ Nth(doc, s) \in 1 .. Len(cc.services)
    /\ ServiceAsWritten(cc.services[Nth(doc, s)], doc, s, EndOf(doc, s))

\* The services that have ended, and the one that is open.
ServicesRead(b, doc, n) ==
    /\ Open(doc, n) =>
          LET start == StartBefore(doc, n) IN
          /\ start \in At(doc, "service", 1, n)
          /\ At(doc, "service/end", start, n) = {}
          /\ Nth(doc, start) = Nth(doc, n) /\ Len(b.cc.services) = Nth(doc, n) - 1
          /\ b.userdata = Null => doc[start].id = Null
          /\ b.userdata # Null => ServiceAsWritten(b.userdata, doc, start, n)
          /\ \A s \in At(doc, "service", 1, n) \ {start} : Closed(b.cc, doc, s)
    /\ ~Open(doc, n) =>
          /\ b.userdata = Null /\ Len(b.cc.services) = Nth(doc, n)
          /\ \A s \in At(doc, "service", 1, n) : Closed(b.cc, doc, s)
    /\ \A i \in 1 .. Len(b.cc.services) : \E s \in At(doc, "service", 1, n) : Nth(doc, s) = i

\* The last resource service.
ResourceStands(b, doc, n) ==
    LET starts == At(doc, "resourceService", 1, n) IN
    /\ ResourceAsWritten(b.cc, doc, n)
    /\ starts # {} => b.cc.resourceService # Null /\ Latest(starts) \in 1 .. n

\* The last message broker.
BrokerStands(b, doc, n) ==
    LET starts == At(doc, "messageBroker", 1, n) IN
    /\ BrokerAsWritten(b.cc, doc, n)
    /\ starts # {} => b.cc.messageBroker # Null /\ Latest(starts) \in 1 .. n

ReadSoFar(b, doc, n) ==
    /\ IsBundle(b)
    /\ b.alive => /\ SettingsAsWritten(b.cc, doc, n)
                  /\ BrokerStands(b, doc, n)
                  /\ ResourceStands(b, doc, n)
                  /\ ServicesRead(b, doc, n)
    /\ ~b.alive => Careless(doc)

LEMMA SettingsStep ==
    ASSUME NEW doc \in Seq(Element), NEW n \in 1 .. Len(doc), NEW b, NEW h,
           IsBundle(b), IsBundle(h),
           SettingsAsWritten(b.cc, doc, n - 1), SettingRead(b, doc[n], h)
    PROVE  SettingsAsWritten(h.cc, doc, n)
<1>1. n \in Nat /\ 1 <= n
  OBVIOUS
<1>2. \A f \in Copied : h.cc[f] = Says(doc, f, 1, n, Default[f])
  BY <1>1, SaysNext DEF SettingsAsWritten, SettingRead
<1>3. ASSUME NEW f \in Flags PROVE h.cc[f] = (Says(doc, f, 1, n, Null) \in On)
  <2>1. b.cc[f] <=> Says(doc, f, 1, n - 1, Null) \in On
    BY <1>3 DEF SettingsAsWritten
  <2>2. h.cc[f] <=> IF doc[n].el = f THEN doc[n].body \in On ELSE b.cc[f]
    BY <1>3 DEF SettingRead
  <2>3. Says(doc, f, 1, n, Null) = IF doc[n].el = f THEN doc[n].body
                                   ELSE Says(doc, f, 1, n - 1, Null)
    BY <1>1, SaysNext
  <2>4. h.cc[f] <=> Says(doc, f, 1, n, Null) \in On
    BY <2>1, <2>2, <2>3
  <2>5. h.cc[f] \in BOOLEAN
    BY <1>3 DEF IsBundle, IsConfig
  <2>6. QED
    BY <2>4, <2>5
<1>4. h.cc.sheapPageSize = SaysNumber(doc, "sheapPageSize", 1, n, 0)
  BY <1>1, SaysNumberNext DEF SettingsAsWritten, SettingRead
<1>5. h.cc.autoRefreshWaitSeconds =
        IF Waits(doc, n) = {} THEN 20 ELSE Number[doc[Latest(Waits(doc, n))].body]
  <2>1. b.cc.autoRefreshWaitSeconds =
          IF Waits(doc, n - 1) = {} THEN 20
          ELSE Number[doc[Latest(Waits(doc, n - 1))].body]
    BY DEF SettingsAsWritten
  <2>2. CASE doc[n].el = "autoRefreshWaitSeconds" /\ doc[n].body # Null
    <3>1. n \in Waits(doc, n) /\ \A m \in Waits(doc, n) : m \in Int /\ m <= n
      BY <1>1, <2>2, AtBounds DEF Waits, At
    <3>2. Latest(Waits(doc, n)) = n
      BY <1>1, <3>1, LatestIs
    <3>3. QED
      BY <2>2, <3>1, <3>2 DEF SettingRead
  <2>3. CASE ~(doc[n].el = "autoRefreshWaitSeconds" /\ doc[n].body # Null)
    <3>1. Waits(doc, n) = Waits(doc, n - 1)
      BY <1>1, <2>3, AtNext DEF Waits
    <3>2. QED
      BY <2>1, <2>3, <3>1 DEF SettingRead
  <2>4. QED
    BY <2>2, <2>3
<1>6. QED
  BY <1>2, <1>3, <1>4, <1>5 DEF SettingsAsWritten

\* Nothing yet of what the element at n begins.
LEMMA SaysNothingAt ==
    ASSUME NEW doc, NEW el, NEW n \in Nat, NEW default, doc[n].el # el
    PROVE  Says(doc, el, n, n, default) = default
<1>1. At(doc, el, n, n) = {}
  BY DEF At
<1>2. QED
  BY <1>1 DEF Says

LEMMA SaysNoNumberAt ==
    ASSUME NEW doc, NEW el, NEW n \in Nat, NEW default, doc[n].el # el
    PROVE  SaysNumber(doc, el, n, n, default) = default
  BY SaysNothingAt DEF SaysNumber

LEMMA ResourceStep ==
    ASSUME NEW doc \in Seq(Element), NEW n \in 1 .. Len(doc), NEW b, NEW h,
           IsBundle(b), IsBundle(h), doc[n].el \in ResourceParts => b.cc.resourceService # Null,
           ResourceStands(b, doc, n - 1), ResourceRead(b, doc[n], h)
    PROVE  ResourceStands(h, doc, n)
<1> DEFINE old == At(doc, "resourceService", 1, n - 1)
           starts == At(doc, "resourceService", 1, n)
           r == b.cc.resourceService
           q == h.cc.resourceService
<1>0. n \in Nat /\ 1 <= n /\ 1 \in Nat
  OBVIOUS
<1>1. CASE doc[n].el = "resourceService"
  <2>1. starts = old \cup {n}
    BY <1>0, <1>1, AtNext
  <2>2. Latest(starts) = n
    <3>1. \A m \in starts : m \in Int /\ m <= n
      BY <1>0, AtBounds
    <3>2. QED
      BY <1>0, <2>1, <3>1, LatestIs
  <2>3. q = NewResource
    BY <1>1 DEF ResourceRead, ResourceGiven
  <2>4. q.uri = Null /\ q.userColonPass = Null /\ q.timeoutSeconds = 2 /\ q # Null
    BY <2>3, NewService, NullAssumption DEF NewResource, cc_newServiceDescriptorObj
  <2>5. /\ Says(doc, "resource/uri", n, n, Null) = Null
        /\ Says(doc, "resource/userColonPass", n, n, Null) = Null
        /\ SaysNumber(doc, "resource/timeoutSeconds", n, n, 2) = 2
    <3>1. Says(doc, "resource/uri", n, n, Null) = Null
      BY <1>0, <1>1, SaysNothingAt
    <3>2. Says(doc, "resource/userColonPass", n, n, Null) = Null
      BY <1>0, <1>1, SaysNothingAt
    <3>3. SaysNumber(doc, "resource/timeoutSeconds", n, n, 2) = 2
      BY <1>0, <1>1, SaysNoNumberAt
    <3>4. QED
      BY <3>1, <3>2, <3>3
  <2>6. ResourceAsWritten(h.cc, doc, n)
    BY <2>1, <2>2, <2>4, <2>5 DEF ResourceAsWritten
  <2>7. QED
    BY <1>0, <2>2, <2>4, <2>6 DEF ResourceStands
<1>2. CASE doc[n].el # "resourceService"
  <2>1. starts = old
    BY <1>0, <1>2, AtNext
  <2>2. CASE old = {}
    <3>1. r = Null
      BY <2>2 DEF ResourceStands, ResourceAsWritten
    <3>2. q = Null
      BY <1>2, <3>1 DEF ResourceRead
    <3>3. QED
      BY <2>1, <2>2, <3>2 DEF ResourceStands, ResourceAsWritten
  <2>3. CASE old # {}
    <3> DEFINE start == Latest(old)
    <3>1. /\ At(doc, "resource/param", start, n - 1) # {}
             \/ r.timeoutSeconds = SaysNumber(doc, "resource/timeoutSeconds", start, n - 1, 2)
          /\ r.uri = Says(doc, "resource/uri", start, n - 1, Null)
          /\ r.userColonPass = Says(doc, "resource/userColonPass", start, n - 1, Null)
          /\ r # Null /\ start \in 1 .. n - 1
      BY <2>3 DEF ResourceStands, ResourceAsWritten
    <3> HIDE DEF start
    <3>2. start \in Nat /\ start <= n
      BY <1>0, <3>1
    <3>3. /\ Says(doc, "resource/uri", start, n, Null) =
                IF doc[n].el = "resource/uri" THEN doc[n].body
                ELSE Says(doc, "resource/uri", start, n - 1, Null)
          /\ Says(doc, "resource/userColonPass", start, n, Null) =
                IF doc[n].el = "resource/userColonPass" THEN doc[n].body
                ELSE Says(doc, "resource/userColonPass", start, n - 1, Null)
      BY <1>0, <3>2, SaysNext
    <3>4. SaysNumber(doc, "resource/timeoutSeconds", start, n, 2) =
                IF doc[n].el = "resource/timeoutSeconds"
                THEN IF doc[n].body = Null THEN 2 ELSE Number[doc[n].body]
                ELSE SaysNumber(doc, "resource/timeoutSeconds", start, n - 1, 2)
      BY <1>0, <3>2, SaysNumberNext
    <3>5. At(doc, "resource/param", start, n) =
                IF doc[n].el = "resource/param"
                THEN At(doc, "resource/param", start, n - 1) \cup {n}
                ELSE At(doc, "resource/param", start, n - 1)
      BY <1>0, <3>2, AtNext
    <3>6. /\ q # Null
          /\ q.uri = Says(doc, "resource/uri", start, n, Null)
          /\ q.userColonPass = Says(doc, "resource/userColonPass", start, n, Null)
          /\ At(doc, "resource/param", start, n) # {}
             \/ q.timeoutSeconds = SaysNumber(doc, "resource/timeoutSeconds", start, n, 2)
      <4>1. CASE doc[n].el \in ResourceParts
        <5>1. ResourceGiven(r, doc[n], q)
          BY <4>1 DEF ResourceRead
        <5>2. QED
          BY <3>1, <3>3, <3>4, <3>5, <4>1, <5>1 DEF ResourceGiven
      <4>2. CASE doc[n].el \notin ResourceParts
        <5>1. q = r
          BY <1>2, <4>2 DEF ResourceRead
        <5>2. QED
          BY <3>1, <3>3, <3>4, <3>5, <4>2, <5>1 DEF ResourceParts
      <4>3. QED
        BY <4>1, <4>2
    <3>7. start = Latest(starts) /\ start \in 1 .. n /\ starts # {}
      BY <2>1, <2>3, <3>1, <3>2 DEF start
    <3> HIDE DEF starts, q, r
    <3>8. ResourceAsWritten(h.cc, doc, n)
      BY <3>6, <3>7 DEF ResourceAsWritten, starts, q
    <3>9. QED
      BY <3>6, <3>7, <3>8 DEF ResourceStands, starts, q
  <2>4. QED
    BY <2>2, <2>3
<1>3. QED
  BY <1>1, <1>2

LEMMA BrokerSaysNext ==
    ASSUME NEW doc, NEW f, NEW lo \in Nat, NEW n \in Nat
    PROVE  BrokerSays(doc, f, lo, n) =
              IF lo <= n /\ doc[n].el = "broker" /\ doc[n].name = f
              THEN doc[n].body ELSE BrokerSays(doc, f, lo, n - 1)
<1> DEFINE S(m) == {k \in At(doc, "broker", lo, m) : doc[k].name = f}
<1>1. CASE lo <= n /\ doc[n].el = "broker" /\ doc[n].name = f
  <2>1. n \in S(n)
    BY <1>1 DEF At
  <2>2. \A k \in S(n) : k \in Int /\ k <= n
    BY AtBounds
  <2>3. Latest(S(n)) = n
    BY <2>1, <2>2, LatestIs
  <2>4. QED
    BY <1>1, <2>1, <2>3 DEF BrokerSays
<1>2. CASE ~(lo <= n /\ doc[n].el = "broker" /\ doc[n].name = f)
  <2>1. S(n) = S(n - 1)
    BY <1>2, AtNext
  <2>2. QED
    BY <1>2, <2>1 DEF BrokerSays
<1>3. QED
  BY <1>1, <1>2

\* A broker that has just started, and one that goes on.
LEMMA BrokerStarts ==
    ASSUME NEW doc, NEW n \in Nat, doc[n].el = "messageBroker"
    PROVE  BrokerIs(cm_newMessageBrokerObj, doc, n, n)
<1>1. At(doc, "broker", n, n) = {}
  BY DEF At
<1>2. \A f : BrokerSays(doc, f, n, n) = Null
  BY <1>1 DEF BrokerSays
<1>3. \A f \in BrokerTexts : cm_newMessageBrokerObj[f] = Null
  BY DEF BrokerTexts, cm_newMessageBrokerObj
<1>4. QED
  BY <1>2, <1>3 DEF BrokerIs

LEMMA BrokerGoesOn ==
    ASSUME NEW doc, NEW n \in Nat, NEW start \in Nat, start <= n, NEW m, NEW q,
           doc[n].el # "messageBroker", BrokerIs(m, doc, start, n - 1),
           IF doc[n].el = "broker" THEN BrokerGiven(m, doc[n], q) ELSE q = m
    PROVE  BrokerIs(q, doc, start, n)
<1>1. CASE doc[n].el # "broker"
  <2>1. \A f : BrokerSays(doc, f, start, n) = BrokerSays(doc, f, start, n - 1)
    BY <1>1, BrokerSaysNext
  <2>2. QED
    BY <1>1, <2>1 DEF BrokerIs
<1>2. CASE doc[n].el = "broker"
  <2>1. ASSUME NEW f
        PROVE  BrokerSays(doc, f, start, n) = IF doc[n].name = f THEN doc[n].body
                                              ELSE BrokerSays(doc, f, start, n - 1)
    <3>1. BrokerSays(doc, f, start, n) =
            IF start <= n /\ doc[n].el = "broker" /\ doc[n].name = f
            THEN doc[n].body ELSE BrokerSays(doc, f, start, n - 1)
      BY BrokerSaysNext
    <3>2. QED
      BY <1>2, <3>1
  <2>2. BrokerGiven(m, doc[n], q)
    BY <1>2
  <2>3. ASSUME NEW f \in BrokerTexts PROVE q[f] = BrokerSays(doc, f, start, n)
    <3>1. q[f] = IF doc[n].name = f THEN doc[n].body ELSE m[f]
      BY <1>2, <2>2 DEF BrokerGiven
    <3>2. m[f] = BrokerSays(doc, f, start, n - 1)
      BY DEF BrokerIs
    <3>3. QED
      BY <2>1, <3>1, <3>2
  <2>4. ASSUME NEW f \in BrokerNumbers
        PROVE  q[f] = LET t == BrokerSays(doc, f, start, n)
                      IN  IF t = Null THEN cm_newMessageBrokerObj[f] ELSE Number[t]
    <3>1. /\ q[f] = IF doc[n].name = f THEN Number[doc[n].body] ELSE m[f]
          /\ doc[n].name = f => doc[n].body # Null
      BY <1>2, <2>2 DEF BrokerGiven
    <3>2. m[f] = LET t == BrokerSays(doc, f, start, n - 1)
                 IN  IF t = Null THEN cm_newMessageBrokerObj[f] ELSE Number[t]
      BY DEF BrokerIs
    <3>3. QED
      BY <2>1, <3>1, <3>2
  <2>5. QED
    BY <2>3, <2>4 DEF BrokerIs
<1>3. QED
  BY <1>1, <1>2

LEMMA BrokerStep ==
    ASSUME NEW doc \in Seq(Element), NEW n \in 1 .. Len(doc), NEW b, NEW h,
           doc[n].el = "broker" => b.cc.messageBroker # Null,
           BrokerStands(b, doc, n - 1), BrokerChanged(b, doc[n], h)
    PROVE  BrokerStands(h, doc, n)
<1> DEFINE old == At(doc, "messageBroker", 1, n - 1)
           starts == At(doc, "messageBroker", 1, n)
           m == b.cc.messageBroker
           q == h.cc.messageBroker
<1>0. n \in Nat /\ 1 <= n /\ 1 \in Nat
  OBVIOUS
<1>1. CASE doc[n].el = "messageBroker"
  <2>1. starts = old \cup {n}
    BY <1>0, <1>1, AtNext
  <2>2. Latest(starts) = n
    <3>1. \A k \in starts : k \in Int /\ k <= n
      BY <1>0, AtBounds
    <3>2. QED
      BY <1>0, <2>1, <3>1, LatestIs
  <2>3. q = cm_newMessageBrokerObj
    BY <1>1 DEF BrokerChanged, BrokerGiven
  <2>4. q # Null
    <3>1. cm_newMessageBrokerObj \in MessageBroker
      BY DEF cm_newMessageBrokerObj, MessageBroker, Maybe
    <3>2. QED
      BY <2>3, <3>1, NullAssumption
  <2>5. BrokerIs(q, doc, n, n)
    BY <1>0, <1>1, <2>3, BrokerStarts
  <2>6. QED
    BY <1>0, <2>1, <2>2, <2>4, <2>5 DEF BrokerStands, BrokerAsWritten
<1>2. CASE doc[n].el # "messageBroker"
  <2>1. starts = old
    BY <1>0, <1>2, AtNext
  <2>2. IF doc[n].el = "broker" THEN BrokerGiven(m, doc[n], q) ELSE q = m
    BY <1>2 DEF BrokerChanged
  <2>3. CASE old = {}
    <3>1. m = Null
      BY <2>3 DEF BrokerStands, BrokerAsWritten
    <3>2. q = Null
      BY <2>2, <3>1
    <3>3. QED
      BY <2>1, <2>3, <3>2 DEF BrokerStands, BrokerAsWritten
  <2>4. CASE old # {}
    <3> DEFINE start == Latest(old)
    <3>1. BrokerIs(m, doc, start, n - 1) /\ m # Null /\ start \in 1 .. n - 1
      BY <2>4 DEF BrokerStands, BrokerAsWritten
    <3> HIDE DEF start
    <3>2. start \in Nat /\ start <= n /\ start \in 1 .. n
      BY <1>0, <3>1
    <3>3. BrokerIs(q, doc, start, n)
      BY <1>0, <1>2, <2>2, <3>1, <3>2, BrokerGoesOn
    <3>4. q # Null
      BY <2>2, <3>1 DEF BrokerGiven
    <3>5. start = Latest(starts) /\ starts # {}
      BY <2>1, <2>4 DEF start
    <3> HIDE DEF starts, q
    <3>6. BrokerAsWritten(h.cc, doc, n)
      BY <3>3, <3>5 DEF BrokerAsWritten, starts, q
    <3>7. QED
      BY <3>2, <3>4, <3>5, <3>6 DEF BrokerStands, starts, q
  <2>5. QED
    BY <2>3, <2>4
<1>3. QED
  BY <1>1, <1>2

-----------------------------------------------------------------------------
\* One service.
LEMMA ParamSaysNext ==
    ASSUME NEW doc, NEW p, NEW lo \in Nat, NEW n \in Nat
    PROVE  ParamSays(doc, p, lo, n) =
              IF lo <= n /\ doc[n].el = "service/param" /\ doc[n].name = p
              THEN doc[n].body ELSE ParamSays(doc, p, lo, n - 1)
<1> DEFINE S(m) == {k \in At(doc, "service/param", lo, m) : doc[k].name = p}
<1>1. CASE lo <= n /\ doc[n].el = "service/param" /\ doc[n].name = p
  <2>1. n \in S(n)
    BY <1>1 DEF At
  <2>2. \A k \in S(n) : k \in Int /\ k <= n
    BY AtBounds
  <2>3. Latest(S(n)) = n
    BY <2>1, <2>2, LatestIs
  <2>4. QED
    BY <1>1, <2>1, <2>3 DEF ParamSays
<1>2. CASE ~(lo <= n /\ doc[n].el = "service/param" /\ doc[n].name = p)
  <2>1. S(n) = S(n - 1)
    BY <1>2, AtNext
  <2>2. QED
    BY <1>2, <2>1 DEF ParamSays
<1>3. QED
  BY <1>1, <1>2

LEMMA ServiceStarts ==
    ASSUME NEW doc \in Seq(Element), NEW n \in 1 .. Len(doc), doc[n].el = "service"
    PROVE  ServiceAsWritten(cc_newServiceDescriptorObj(doc[n].id, doc[n].name), doc, n, n)
<1> DEFINE s == cc_newServiceDescriptorObj(doc[n].id, doc[n].name)
<1>0. n \in Nat /\ n - 1 \in Int /\ n - 1 < n
  OBVIOUS
<1>1. /\ Says(doc, "service/uri", n, n, Null) = Null
      /\ SaysNumber(doc, "service/timeoutSeconds", n, n, 2) = 2
  <2>1. Says(doc, "service/uri", n, n, Null) = Null
    BY <1>0, SaysNothingAt
  <2>2. SaysNumber(doc, "service/timeoutSeconds", n, n, 2) = 2
    BY <1>0, SaysNoNumberAt
  <2>3. QED
    BY <2>1, <2>2
<1>2. \A p : ParamSays(doc, p, n, n) = Null
  <2>1. At(doc, "service/param", n, n) = {}
    BY DEF At
  <2>2. QED
    BY <2>1 DEF ParamSays
<1>3. /\ s.id = doc[n].id /\ s.name = doc[n].name /\ s.uri = Null /\ s.timeoutSeconds = 2
      /\ DOMAIN s.params = {}
  BY DEF cc_newServiceDescriptorObj
<1> HIDE DEF s
<1>4. ServiceAsWritten(s, doc, n, n)
  BY <1>1, <1>2, <1>3 DEF ServiceAsWritten
<1>5. QED
  BY <1>4 DEF s

LEMMA PartStep ==
    ASSUME NEW doc \in Seq(Element), NEW n \in 1 .. Len(doc), NEW start \in 1 .. n - 1,
           doc[n].el \in ServiceParts, NEW s, NEW t, s # Null,
           ServiceAsWritten(s, doc, start, n - 1), PartRead(s, doc[n], t)
    PROVE  ServiceAsWritten(t, doc, start, n)
<1>0. n \in Nat /\ start \in Nat /\ start <= n
  OBVIOUS
<1>1. Says(doc, "service/uri", start, n, Null) =
          IF doc[n].el = "service/uri" THEN doc[n].body
          ELSE Says(doc, "service/uri", start, n - 1, Null)
  BY <1>0, SaysNext
<1>2. SaysNumber(doc, "service/timeoutSeconds", start, n, 2) =
          IF doc[n].el = "service/timeoutSeconds"
          THEN IF doc[n].body = Null THEN 2 ELSE Number[doc[n].body]
          ELSE SaysNumber(doc, "service/timeoutSeconds", start, n - 1, 2)
  BY <1>0, SaysNumberNext
<1>3. /\ t.id = doc[start].id /\ t.name = doc[start].name
      /\ t.uri = Says(doc, "service/uri", start, n, Null)
      /\ t.timeoutSeconds = SaysNumber(doc, "service/timeoutSeconds", start, n, 2)
  BY <1>1, <1>2 DEF ServiceAsWritten, PartRead
<1>4. /\ DOMAIN s.params = {p \in Text : ParamSays(doc, p, start, n - 1) # Null}
      /\ \A p \in DOMAIN s.params : s.params[p] = ParamSays(doc, p, start, n - 1)
  BY DEF ServiceAsWritten
<1>5. CASE doc[n].el = "service/param" /\ doc[n].name # Null
  <2>1. doc[n].name \in Text /\ t.params = With(s.params, doc[n].name, doc[n].body)
    BY <1>5, ElementBody DEF PartRead, Maybe
  <2>2. PICK k, v : k = doc[n].name /\ v = doc[n].body
    OBVIOUS
  <2>3. \A p : ParamSays(doc, p, start, n) = IF p = k THEN v ELSE ParamSays(doc, p, start, n - 1)
    BY <1>0, <1>5, <2>2, ParamSaysNext
  <2>4. k \in Text /\ t.params = With(s.params, k, v)
    BY <2>1, <2>2
  <2>5. DOMAIN t.params = {p \in Text : ParamSays(doc, p, start, n) # Null}
    <3>1. CASE v = Null
      <4>1. DOMAIN t.params = DOMAIN s.params \ {k}
        BY <2>4, <3>1 DEF With
      <4>2. QED
        BY <1>4, <2>3, <2>4, <3>1, <4>1
    <3>2. CASE v # Null
      <4>1. DOMAIN t.params = DOMAIN s.params \cup {k}
        BY <2>4, <3>2 DEF With
      <4>2. QED
        BY <1>4, <2>3, <2>4, <3>2, <4>1
    <3>3. QED
      BY <3>1, <3>2
  <2>6. ASSUME NEW p \in DOMAIN t.params
        PROVE  t.params[p] = ParamSays(doc, p, start, n)
    <3>1. CASE p = k
      <4>1. v # Null
        BY <2>3, <2>5, <2>6, <3>1
      <4>2. t.params[k] = v
        BY <2>4, <4>1 DEF With
      <4>3. QED
        BY <2>3, <3>1, <4>2
    <3>2. CASE p # k
      <4>1. p \in DOMAIN s.params
        BY <1>4, <2>3, <2>5, <2>6, <3>2
      <4>2. t.params[p] = s.params[p]
        <5>1. CASE v = Null
          BY <2>4, <3>2, <4>1, <5>1 DEF With
        <5>2. CASE v # Null
          BY <2>4, <3>2, <4>1, <5>2 DEF With
        <5>3. QED
          BY <5>1, <5>2
      <4>3. QED
        BY <1>4, <2>3, <3>2, <4>1, <4>2
    <3>3. QED
      BY <3>1, <3>2
  <2>7. QED
    BY <1>3, <2>5, <2>6 DEF ServiceAsWritten
<1>6. CASE ~(doc[n].el = "service/param" /\ doc[n].name # Null)
  <2>1. t.params = s.params
    BY <1>6 DEF PartRead
  <2>2. ASSUME NEW p \in Text
        PROVE  ParamSays(doc, p, start, n) = ParamSays(doc, p, start, n - 1)
    <3>1. ~(doc[n].el = "service/param" /\ doc[n].name = p)
      BY <1>6, TextAssumption
    <3>2. QED
      BY <1>0, <3>1, ParamSaysNext
  <2>3. DOMAIN t.params = {p \in Text : ParamSays(doc, p, start, n) # Null}
    BY <1>4, <2>1, <2>2
  <2>4. \A p \in DOMAIN t.params : t.params[p] = ParamSays(doc, p, start, n)
    BY <1>4, <2>1, <2>2
  <2>5. QED
    BY <1>3, <2>3, <2>4 DEF ServiceAsWritten
<1>7. QED
  BY <1>5, <1>6

LEMMA EndRead ==
    ASSUME NEW doc \in Seq(Element), NEW n \in 1 .. Len(doc), NEW start \in 1 .. n - 1,
           doc[n].el = "service/end", NEW s, ServiceAsWritten(s, doc, start, n - 1)
    PROVE  ServiceAsWritten(s, doc, start, n)
<1>0. n \in Nat /\ start \in Nat
  OBVIOUS
<1>1. Says(doc, "service/uri", start, n, Null) = Says(doc, "service/uri", start, n - 1, Null)
  BY <1>0, SaysNext
<1>2. SaysNumber(doc, "service/timeoutSeconds", start, n, 2) =
          SaysNumber(doc, "service/timeoutSeconds", start, n - 1, 2)
  BY <1>0, SaysNumberNext
<1>3. ASSUME NEW p PROVE ParamSays(doc, p, start, n) = ParamSays(doc, p, start, n - 1)
  <2>1. doc[n].el # "service/param"
    OBVIOUS
  <2>2. QED
    BY <1>0, <2>1, ParamSaysNext
<1>4. QED
  BY <1>1, <1>2, <1>3 DEF ServiceAsWritten

-----------------------------------------------------------------------------
(* The services, step by step.                                             *)
\* Where the elements of a service stand.
LEMMA NestedAt ==
    ASSUME NEW doc, Document(doc), NEW n \in 1 .. Len(doc)
    PROVE  /\ doc[n] \in Element
           /\ Open(doc, n - 1) <=> doc[n].el \in ServiceParts \cup {"service/end"}
<1>1. doc \in Seq(Element) /\ WellNested(doc)
  BY DEF Document
<1>2. DOMAIN doc = 1 .. Len(doc) /\ n \in DOMAIN doc /\ doc[n] \in Element
  BY <1>1
<1>3. ASSUME doc[n].el \in ServiceParts \cup {"service/end"} PROVE Open(doc, n - 1)
  <2>1. n - 1 \in DOMAIN doc /\ doc[n - 1].el \in {"service"} \cup ServiceParts
    BY <1>1, <1>2, <1>3 DEF WellNested
  <2>2. n - 1 # 0
    BY <1>2, <2>1
  <2>3. QED
    BY <2>1, <2>2 DEF Open
<1>4. ASSUME Open(doc, n - 1) PROVE doc[n].el \in ServiceParts \cup {"service/end"}
  <2>1. n - 1 \in DOMAIN doc /\ doc[n - 1].el \in {"service"} \cup ServiceParts
    BY <1>2, <1>4 DEF Open
  <2>2. doc[(n - 1) + 1].el \in ServiceParts \cup {"service/end"}
    BY <1>1, <2>1 DEF WellNested
  <2>3. (n - 1) + 1 = n
    OBVIOUS
  <2>4. QED
    BY <2>2, <2>3
<1>5. QED
  BY <1>2, <1>3, <1>4

LEMMA ServicesOpen ==
    ASSUME NEW doc, Document(doc), NEW n \in 1 .. Len(doc), NEW b, NEW h,
           IsBundle(b), IsBundle(h), doc[n].el = "service",
           ServicesRead(b, doc, n - 1), ServiceRead(b, doc[n], h)
    PROVE  ServicesRead(h, doc, n)
<1>0. n \in Nat /\ n # 0 /\ 1 <= n /\ 1 \in Nat
  OBVIOUS
<1>1. ~Open(doc, n - 1) /\ Open(doc, n) /\ doc[n] \in Element
  BY <1>0, NestedAt DEF Open, ServiceParts
<1> DEFINE old == At(doc, "service", 1, n - 1)
           starts == At(doc, "service", 1, n)
<1>2. starts = old \cup {n}
  BY <1>0, AtNext
<1>3. StartBefore(doc, n) = n
  <2>1. \A m \in starts : m \in Int /\ m <= n
    BY <1>0, AtBounds
  <2>2. QED
    BY <1>0, <1>2, <2>1, LatestIs DEF StartBefore
<1>4. n \notin old
  <2>1. n - 1 \in Int
    BY <1>0
  <2>2. \A m \in old : m <= n - 1
    BY <1>0, <2>1, AtBounds
  <2>3. QED
    BY <1>0, <2>2
<1>5. h.cc.services = b.cc.services
  BY DEF ServiceRead
<1>6. /\ Len(b.cc.services) = Nth(doc, n - 1)
      /\ \A s \in old : Closed(b.cc, doc, s)
      /\ \A i \in 1 .. Len(b.cc.services) : \E s \in old : Nth(doc, s) = i
  BY <1>1 DEF ServicesRead
<1>7. Nth(doc, n) = Nth(doc, n - 1) + 1 /\ Nth(doc, n - 1) \in Nat
  BY <1>0, NthNext
<1>8. Len(h.cc.services) = Nth(doc, n) - 1
  BY <1>5, <1>6, <1>7
<1>9. \A s \in old : Closed(h.cc, doc, s)
  BY <1>5, <1>6 DEF Closed
<1>10. At(doc, "service/end", n, n) = {}
  BY DEF At
<1>11. h.userdata = IF doc[n].id = Null THEN Null
                    ELSE cc_newServiceDescriptorObj(doc[n].id, doc[n].name)
  BY DEF ServiceRead
<1>12. doc[n].id # Null => h.userdata # Null /\ ServiceAsWritten(h.userdata, doc, n, n)
  <2>1. doc \in Seq(Element)
    BY DEF Document
  <2>2. doc[n].id \in Maybe /\ doc[n].name \in Maybe
    BY <1>1, ElementBody
  <2>3. cc_newServiceDescriptorObj(doc[n].id, doc[n].name) # Null
    BY <2>2, NewService, NullAssumption
  <2>4. ServiceAsWritten(cc_newServiceDescriptorObj(doc[n].id, doc[n].name), doc, n, n)
    BY <2>1, ServiceStarts
  <2>5. QED
    BY <1>11, <2>3, <2>4
<1>13. \A i \in 1 .. Len(h.cc.services) : \E s \in starts : Nth(doc, s) = i
  BY <1>2, <1>5, <1>6
<1>14. \A s \in starts \ {n} : Closed(h.cc, doc, s)
  BY <1>2, <1>9
<1>15. n \in starts
  BY <1>2
<1> HIDE DEF starts, old
<1>16. QED
  BY <1>1, <1>3, <1>8, <1>10, <1>11, <1>12, <1>13, <1>14, <1>15 DEF ServicesRead, starts

LEMMA ServicesPart ==
    ASSUME NEW doc, Document(doc), NEW n \in 1 .. Len(doc), NEW b, NEW h,
           IsBundle(b), IsBundle(h), doc[n].el \in ServiceParts,
           ServicesRead(b, doc, n - 1), ServiceRead(b, doc[n], h)
    PROVE  ServicesRead(h, doc, n)
<1>0. n \in Nat /\ n # 0 /\ 1 <= n /\ 1 \in Nat /\ n - 1 \in Int
  OBVIOUS
<1>1. Open(doc, n - 1) /\ Open(doc, n) /\ doc \in Seq(Element)
  BY <1>0, NestedAt DEF Open, Document
<1>2. doc[n].el # "service" /\ doc[n].el # "service/end"
  BY DEF ServiceParts
<1> DEFINE old == At(doc, "service", 1, n - 1)
           start == StartBefore(doc, n - 1)
<1>3. At(doc, "service", 1, n) = old
  BY <1>0, <1>2, AtNext
<1>4. StartBefore(doc, n) = start
  BY <1>3 DEF StartBefore
<1>5. h.cc.services = b.cc.services /\ PartRead(b.userdata, doc[n], h.userdata)
  BY <1>2 DEF ServiceRead
<1>6. /\ start \in old
      /\ At(doc, "service/end", start, n - 1) = {}
      /\ Nth(doc, start) = Nth(doc, n - 1) /\ Len(b.cc.services) = Nth(doc, n - 1) - 1
      /\ b.userdata = Null => doc[start].id = Null
      /\ b.userdata # Null => ServiceAsWritten(b.userdata, doc, start, n - 1)
      /\ \A s \in old \ {start} : Closed(b.cc, doc, s)
  BY <1>1 DEF ServicesRead
<1>7. \A i \in 1 .. Len(b.cc.services) : \E s \in old : Nth(doc, s) = i
  BY DEF ServicesRead
<1>8. start \in 1 .. n - 1
  <2>1. \A m \in old : m \in Nat /\ 1 <= m /\ m <= n - 1
    BY <1>0, AtBounds
  <2>2. QED
    BY <1>6, <2>1
<1> HIDE DEF old, start
<1>9. At(doc, "service/end", start, n) = {}
  BY <1>0, <1>2, <1>6, <1>8, AtNext
<1>10. Nth(doc, n) = Nth(doc, n - 1)
  BY <1>0, <1>2, NthNext
<1>11. h.userdata = Null <=> b.userdata = Null
  BY <1>5 DEF PartRead
<1>12. b.userdata # Null => ServiceAsWritten(h.userdata, doc, start, n)
  BY <1>1, <1>5, <1>6, <1>8, PartStep
<1>13. \A s \in old \ {start} : Closed(h.cc, doc, s)
  BY <1>5, <1>6 DEF Closed
<1>14. QED
  BY <1>1, <1>3, <1>4, <1>5, <1>6, <1>7, <1>9, <1>10, <1>11, <1>12, <1>13 DEF ServicesRead

LEMMA ServicesEnd ==
    ASSUME NEW doc, Document(doc), NEW n \in 1 .. Len(doc), NEW b, NEW h,
           IsBundle(b), IsBundle(h), doc[n].el = "service/end",
           ServicesRead(b, doc, n - 1), ServiceRead(b, doc[n], h)
    PROVE  ServicesRead(h, doc, n)
<1>0. n \in Nat /\ n # 0 /\ 1 <= n /\ 1 \in Nat /\ n - 1 \in Int
  OBVIOUS
<1>1. Open(doc, n - 1) /\ ~Open(doc, n) /\ doc \in Seq(Element)
  BY <1>0, NestedAt DEF Open, Document, ServiceParts
<1> DEFINE old == At(doc, "service", 1, n - 1)
           start == StartBefore(doc, n - 1)
<1>2. doc[n].el # "service"
  OBVIOUS
<1>3. At(doc, "service", 1, n) = old
  BY <1>0, <1>2, AtNext
<1>5. /\ h.cc.services = Append(b.cc.services, b.userdata)
      /\ b.userdata # Null /\ h.userdata = Null
  BY DEF ServiceRead
<1>6. /\ start \in old
      /\ At(doc, "service/end", start, n - 1) = {}
      /\ Nth(doc, start) = Nth(doc, n - 1) /\ Len(b.cc.services) = Nth(doc, n - 1) - 1
      /\ ServiceAsWritten(b.userdata, doc, start, n - 1)
      /\ \A s \in old \ {start} : Closed(b.cc, doc, s)
  BY <1>1, <1>5 DEF ServicesRead
<1>7. \A i \in 1 .. Len(b.cc.services) : \E s \in old : Nth(doc, s) = i
  BY DEF ServicesRead
<1>8. start \in 1 .. n - 1
  <2>1. \A m \in old : m \in Nat /\ 1 <= m /\ m <= n - 1
    BY <1>0, AtBounds
  <2>2. QED
    BY <1>6, <2>1
<1> HIDE DEF old, start
<1>9. EndOf(doc, start) = n
  <2> DEFINE ends == At(doc, "service/end", start, Len(doc))
  <2>1. n \in ends
    BY <1>8 DEF At
  <2>2. \A m \in ends : m \in Int /\ n <= m
    BY <1>6, <1>8 DEF At
  <2> HIDE DEF ends
  <2>3. Earliest(ends) = n
    BY <1>0, <2>1, <2>2, EarliestIs
  <2>4. QED
    BY <2>3 DEF EndOf, ends
<1>10. Nth(doc, n) = Nth(doc, n - 1) /\ Nth(doc, n - 1) \in Nat
  BY <1>0, NthNext
<1>11. b.cc.services \in Seq(ServiceDescriptor) /\ b.userdata \in ServiceDescriptor
  BY <1>5 DEF IsBundle, IsConfig
<1>12. /\ Len(h.cc.services) = Len(b.cc.services) + 1
       /\ h.cc.services[Len(b.cc.services) + 1] = b.userdata
       /\ \A i \in 1 .. Len(b.cc.services) : h.cc.services[i] = b.cc.services[i]
  BY <1>5, <1>11
<1>13. Len(b.cc.services) \in Nat /\ Len(b.cc.services) + 1 = Nth(doc, n)
  BY <1>6, <1>10, <1>11
<1>14. Closed(h.cc, doc, start)
  <2>1. ServiceAsWritten(b.userdata, doc, start, n)
    BY <1>1, <1>6, <1>8, EndRead
  <2>2. Nth(doc, start) = Len(b.cc.services) + 1
    BY <1>6, <1>10, <1>13
  <2>3. Nth(doc, start) \in 1 .. Len(h.cc.services)
    BY <1>12, <1>13, <2>2
  <2>4. QED
    BY <1>9, <1>12, <2>1, <2>2, <2>3 DEF Closed
<1>15. ASSUME NEW s \in old \ {start} PROVE Closed(h.cc, doc, s)
  <2>1. Nth(doc, s) \in 1 .. Len(b.cc.services)
        /\ ServiceAsWritten(b.cc.services[Nth(doc, s)], doc, s, EndOf(doc, s))
    BY <1>6, <1>15 DEF Closed
  <2>2. Nth(doc, s) \in 1 .. Len(h.cc.services)
        /\ h.cc.services[Nth(doc, s)] = b.cc.services[Nth(doc, s)]
    BY <1>12, <1>13, <2>1
  <2>3. QED
    BY <2>1, <2>2 DEF Closed
<1>16. ASSUME NEW i \in 1 .. Len(h.cc.services) PROVE \E s \in old : Nth(doc, s) = i
  <2>1. CASE i \in 1 .. Len(b.cc.services)
    BY <1>7, <2>1
  <2>2. CASE i = Len(b.cc.services) + 1
    BY <1>6, <1>10, <1>13, <2>2
  <2>3. \A k \in Nat : i \in 1 .. k + 1 => i \in 1 .. k \/ i = k + 1
    OBVIOUS
  <2>4. i \in 1 .. Len(b.cc.services) + 1
    BY <1>12
  <2>5. QED
    BY <1>13, <2>1, <2>2, <2>3, <2>4
<1>17. Len(h.cc.services) = Nth(doc, n)
  BY <1>12, <1>13
<1>18. \A s \in old : Closed(h.cc, doc, s)
  BY <1>14, <1>15
<1>19. QED
  BY <1>1, <1>3, <1>5, <1>16, <1>17, <1>18 DEF ServicesRead, old

LEMMA ServicesOther ==
    ASSUME NEW doc, Document(doc), NEW n \in 1 .. Len(doc), NEW b, NEW h,
           IsBundle(b), IsBundle(h),
           doc[n].el \notin {"service", "service/end"} \cup ServiceParts,
           ServicesRead(b, doc, n - 1), ServiceRead(b, doc[n], h)
    PROVE  ServicesRead(h, doc, n)
<1>0. n \in Nat /\ n # 0 /\ 1 <= n /\ 1 \in Nat
  OBVIOUS
<1>1. ~Open(doc, n - 1) /\ ~Open(doc, n)
  BY <1>0, NestedAt DEF Open
<1>2. At(doc, "service", 1, n) = At(doc, "service", 1, n - 1)
  BY <1>0, AtNext
<1>3. Nth(doc, n) = Nth(doc, n - 1)
  BY <1>0, NthNext
<1>4. h.cc.services = b.cc.services /\ h.userdata = b.userdata
  BY DEF ServiceRead
<1>5. QED
  BY <1>1, <1>2, <1>3, <1>4 DEF ServicesRead, Closed

LEMMA ServicesStep ==
    ASSUME NEW doc, Document(doc), NEW n \in 1 .. Len(doc), NEW b, NEW h,
           IsBundle(b), IsBundle(h),
           ServicesRead(b, doc, n - 1), ServiceRead(b, doc[n], h)
    PROVE  ServicesRead(h, doc, n)
<1>1. CASE doc[n].el = "service"
  BY <1>1, ServicesOpen
<1>2. CASE doc[n].el \in ServiceParts
  BY <1>2, ServicesPart
<1>3. CASE doc[n].el = "service/end"
  BY <1>3, ServicesEnd
<1>4. CASE doc[n].el \notin {"service", "service/end"} \cup ServiceParts
  BY <1>4, ServicesOther
<1>5. QED
  BY <1>1, <1>2, <1>3, <1>4

-----------------------------------------------------------------------------
(* Induction over the natural numbers, with a set in the place of a        *)
(* predicate.                                                              *)
LEMMA Least ==
    ASSUME NEW T \in SUBSET Nat, T # {}
    PROVE  \E n \in T : \A m \in T : n <= m
<1>1. IsWellFoundedOn(OpToRel(<, Nat), Nat)
  BY NatLessThanWellFounded
<1>2. PICK R : R = OpToRel(<, Nat)
  OBVIOUS
<1>3. \E x \in T : \A y \in T : ~ (<<y, x>> \in R)
  BY <1>1, <1>2, WFMin
<1>4. \A m, n \in Nat : <<m, n>> \in R <=> m < n
  BY <1>2 DEF OpToRel
<1>5. PICK x \in T : \A y \in T : ~ (<<y, x>> \in R)
  BY <1>3
<1>6. ASSUME NEW y \in T PROVE x <= y
  <2>1. x \in Nat /\ y \in Nat
    OBVIOUS
  <2>2. ~ (y < x)
    BY <1>4, <1>5, <2>1
  <2>3. QED
    BY <2>1, <2>2
<1>7. QED
  BY <1>6

LEMMA SetInduction ==
    ASSUME NEW S, 0 \in S, \A n \in Nat : n \in S => n + 1 \in S
    PROVE  Nat \subseteq S
<1> SUFFICES ASSUME Nat \ S # {} PROVE FALSE
  OBVIOUS
<1>1. PICK n \in Nat \ S : \A m \in Nat \ S : n <= m
  BY Least
<1>2. n # 0 /\ n - 1 \in Nat /\ n = (n - 1) + 1
  BY <1>1
<1>3. n - 1 \in S
  BY <1>1, <1>2
<1>4. QED
  BY <1>1, <1>2, <1>3

-----------------------------------------------------------------------------
(* Reading the document.                                                   *)
LEMMA FaultIsCareless ==
    ASSUME NEW doc, Document(doc), NEW n \in 1 .. Len(doc), NEW b,
           ServicesRead(b, doc, n - 1), Fault(b, doc[n])
    PROVE  Careless(doc)
<1>1. doc \in Seq(Element) /\ DOMAIN doc = 1 .. Len(doc) /\ n \in DOMAIN doc
  BY DEF Document
<1>2. CASE /\ doc[n].el \in {"sheapPageSize", "broker", "service/timeoutSeconds",
                             "resource/timeoutSeconds", "resource/param"}
           /\ doc[n].body = Null
  BY <1>1, <1>2 DEF Careless
<1>3. CASE doc[n].el = "service/end" /\ b.userdata = Null
  <2>1. Open(doc, n - 1)
    BY <1>3, NestedAt
  <2>2. PICK start : start = StartBefore(doc, n - 1)
    OBVIOUS
  <2>3. start \in At(doc, "service", 1, n - 1) /\ doc[start].id = Null
    BY <1>3, <2>1, <2>2 DEF ServicesRead
  <2>4. start \in 1 .. n - 1 /\ doc[start].el = "service"
    BY <2>3 DEF At
  <2>5. start \in DOMAIN doc
    BY <1>1, <2>4
  <2>6. QED
    BY <2>3, <2>4, <2>5 DEF Careless
<1>4. QED
  BY <1>2, <1>3 DEF Fault

LEMMA ReadStep ==
    ASSUME NEW doc, Document(doc), NEW n \in 1 .. Len(doc), NEW b, NEW h,
           ReadSoFar(b, doc, n - 1), h = IF b.alive THEN Handled(b, doc[n]) ELSE b
    PROVE  ReadSoFar(h, doc, n)
<1>0. /\ IsBundle(b) /\ doc[n] \in Element /\ doc \in Seq(Element) /\ WellNested(doc)
      /\ n \in DOMAIN doc /\ n \in Nat
  BY NestedAt DEF ReadSoFar, Document
<1>1. CASE ~b.alive
  BY <1>0, <1>1 DEF ReadSoFar
<1>2. CASE b.alive
  <2>1. /\ SettingsAsWritten(b.cc, doc, n - 1) /\ ResourceStands(b, doc, n - 1)
        /\ BrokerStands(b, doc, n - 1) /\ ServicesRead(b, doc, n - 1)
    BY <1>2 DEF ReadSoFar
  <2>2. ASSUME doc[n].el \in ResourceParts PROVE b.cc.resourceService # Null
    <3>1. PICK m \in 1 .. n : doc[m].el = "resourceService"
      BY <1>0, <2>2 DEF WellNested
    <3>2. m # n
      BY <2>2, <3>1 DEF ResourceParts
    <3>3. m \in At(doc, "resourceService", 1, n - 1)
      BY <1>0, <3>1, <3>2 DEF At
    <3>4. QED
      BY <2>1, <3>3 DEF ResourceStands
  <2>3. ASSUME doc[n].el = "broker" PROVE b.cc.messageBroker # Null
    <3>1. PICK m \in 1 .. n : doc[m].el = "messageBroker"
      BY <1>0, <2>3 DEF WellNested
    <3>2. m # n
      BY <2>3, <3>1
    <3>3. m \in At(doc, "messageBroker", 1, n - 1)
      BY <1>0, <3>1, <3>2 DEF At
    <3>4. QED
      BY <2>1, <3>3 DEF BrokerStands
  <2>4. ElementRead(b, doc[n], h)
    BY <1>0, <1>2, <2>2, <2>3, HandledReads
  <2>5. IsBundle(h)
    BY <2>4 DEF ElementRead
  <2>6. CASE ~h.alive
    <3>1. Fault(b, doc[n])
      BY <2>4, <2>6 DEF ElementRead
    <3>2. Careless(doc)
      BY <2>1, <3>1, FaultIsCareless
    <3>3. QED
      BY <2>5, <2>6, <3>2 DEF ReadSoFar
  <2>7. CASE h.alive
    <3>1. /\ SettingRead(b, doc[n], h) /\ BrokerChanged(b, doc[n], h)
          /\ ResourceRead(b, doc[n], h) /\ ServiceRead(b, doc[n], h)
      BY <2>4, <2>7 DEF ElementRead
    <3>2. SettingsAsWritten(h.cc, doc, n)
      BY <1>0, <2>1, <2>5, <3>1, SettingsStep
    <3>3. ResourceStands(h, doc, n)
      BY <1>0, <2>1, <2>2, <2>5, <3>1, ResourceStep
    <3>4. ServicesRead(h, doc, n)
      BY <1>0, <2>1, <2>5, <3>1, ServicesStep
    <3>5. BrokerStands(h, doc, n)
      BY <1>0, <2>1, <2>3, <3>1, BrokerStep
    <3>6. QED
      BY <2>5, <2>7, <3>2, <3>3, <3>4, <3>5 DEF ReadSoFar
  <2>8. QED
    BY <2>6, <2>7
<1>3. QED
  BY <1>1, <1>2

LEMMA ReadNothing ==
    ASSUME NEW doc
    PROVE  ReadSoFar(Bundle([cc_newConfigCoreObj EXCEPT !.homeDir = "home"]), doc, 0)
<1>1. PICK c : c = [cc_newConfigCoreObj EXCEPT !.homeDir = "home"]
  OBVIOUS
<1>2. PICK b : b = Bundle(c)
  OBVIOUS
<1>3. /\ IsConfig(c) /\ \A f \in Copied : c[f] = Default[f]
      /\ c.services = <<>> /\ c.sheapPageSize = 0 /\ c.autoRefreshWaitSeconds = 20
      /\ c.resourceService = Null /\ c.messageBroker = Null
      /\ \A f \in Flags : c[f] = FALSE
  <2>1. c = [nameSpace |-> Null, homeDir |-> "home", databaseFile |-> Null,
             sheapMapFile |-> "/pid.shm", sheapPageSize |-> 0, services |-> <<>>,
             resourceService |-> Null, messageBroker |-> Null,
             disableProcessRecovery |-> FALSE, enableAutoRefresh |-> FALSE,
             autoRefreshWaitSeconds |-> 20, threaded |-> FALSE]
    BY <1>1 DEF cc_newConfigCoreObj
  <2>2. \A f \in Copied : c[f] = Default[f]
    BY <2>1 DEF Copied, Default
  <2>3. IsConfig(c)
    BY <2>1 DEF IsConfig, Flags
  <2>4. \A f \in Flags : c[f] = FALSE
    BY <2>1 DEF Flags
  <2>5. QED
    BY <2>1, <2>2, <2>3, <2>4
<1>4. b = [cc |-> c, userdata |-> Null, userdata2 |-> Null, alive |-> TRUE]
  BY <1>2 DEF Bundle
<1>5. IsBundle(b) /\ b.alive /\ b.cc = c /\ b.userdata = Null
  BY <1>3, <1>4 DEF IsBundle, Maybe
<1>6. ASSUME NEW el
      PROVE  /\ At(doc, el, 1, 0) = {}
             /\ \A default : Says(doc, el, 1, 0, default) = default
             /\ SaysNumber(doc, el, 1, 0, 0) = 0
  <2>1. At(doc, el, 1, 0) = {}
    BY DEF At
  <2>2. QED
    BY <2>1 DEF Says, SaysNumber
<1>7. SettingsAsWritten(c, doc, 0)
  <2>1. Null \notin On
    BY TextAssumption
  <2>2. ASSUME NEW f \in Flags PROVE c[f] = (Says(doc, f, 1, 0, Null) \in On)
    <3>1. Says(doc, f, 1, 0, Null) \notin On /\ c[f] = FALSE
      BY <1>3, <1>6, <2>1
    <3>2. c[f] <=> Says(doc, f, 1, 0, Null) \in On
      BY <3>1
    <3>3. c[f] \in BOOLEAN
      BY <1>3
    <3>4. QED
      BY <3>2, <3>3
  <2>3. Waits(doc, 0) = {}
    BY <1>6 DEF Waits
  <2>4. \A f \in Copied : c[f] = Says(doc, f, 1, 0, Default[f])
    BY <1>3, <1>6
  <2>5. QED
    BY <1>3, <1>6, <2>2, <2>3, <2>4 DEF SettingsAsWritten
<1>8. ResourceStands(b, doc, 0) /\ BrokerStands(b, doc, 0)
  BY <1>3, <1>5, <1>6 DEF ResourceStands, ResourceAsWritten, BrokerStands, BrokerAsWritten
<1>9. ServicesRead(b, doc, 0)
  <2>1. Nth(doc, 0) = 0 /\ Len(c.services) = 0
    BY <1>3, <1>6, FS_EmptySet DEF Nth
  <2>2. ~Open(doc, 0)
    BY DEF Open
  <2>3. QED
    BY <1>5, <1>6, <2>1, <2>2 DEF ServicesRead
<1>10. ReadSoFar(b, doc, 0)
  BY <1>5, <1>7, <1>8, <1>9 DEF ReadSoFar
<1>11. QED
  BY <1>1, <1>2, <1>10

\* The recursion inside cc_loadConfigCoreFile: f[i] is the bundle after i elements.
Reads(f, doc, cc, n) ==
    f = [i \in 0 .. n |->
            IF i = 0 THEN Bundle(cc)
            ELSE LET b == f[i - 1] IN IF b.alive THEN Handled(b, doc[i]) ELSE b]

LEMMA ReadsExists ==
    ASSUME NEW doc, NEW cc, NEW k \in Nat
    PROVE  \E f : Reads(f, doc, cc, k)
<1> DEFINE next(b, i) == IF b.alive THEN Handled(b, doc[i]) ELSE b
           S == {n \in Nat : \E f : Reads(f, doc, cc, n)}
<1>1. 0 \in S
  <2>1. Reads([i \in 0 .. 0 |-> Bundle(cc)], doc, cc, 0)
    BY DEF Reads
  <2>2. QED
    BY <2>1
<1>2. ASSUME NEW n \in Nat, n \in S PROVE n + 1 \in S
  <2>1. PICK f : Reads(f, doc, cc, n)
    BY <1>2
  <2>2. ASSUME NEW i \in 0 .. n PROVE f[i] = IF i = 0 THEN Bundle(cc) ELSE next(f[i - 1], i)
    BY <2>1 DEF Reads
  <2> DEFINE g == [i \in 0 .. n + 1 |-> IF i <= n THEN f[i] ELSE next(f[i - 1], i)]
  <2>3. ASSUME NEW i \in 0 .. n + 1
        PROVE  g[i] = IF i = 0 THEN Bundle(cc) ELSE next(g[i - 1], i)
    <3> HIDE DEF next
    <3>1. i # 0 => i - 1 \in 0 .. n /\ g[i - 1] = f[i - 1]
      OBVIOUS
    <3>2. CASE i <= n
      <4>1. i \in 0 .. n /\ g[i] = f[i]
        BY <3>2
      <4>2. QED
        BY <2>2, <3>1, <4>1
    <3>3. CASE ~(i <= n)
      BY <3>1, <3>3
    <3>4. QED
      BY <3>2, <3>3
  <2>4. g = [i \in 0 .. n + 1 |-> g[i]]
    OBVIOUS
  <2> HIDE DEF g
  <2>5. Reads(g, doc, cc, n + 1)
    BY <2>3, <2>4 DEF Reads
  <2>6. QED
    BY <2>5
<1> HIDE DEF S
<1>3. Nat \subseteq S
  BY <1>1, <1>2, SetInduction
<1>4. QED
  BY <1>3 DEF S

LEMMA ReadsSoFar ==
    ASSUME NEW doc, Document(doc), NEW cc, ReadSoFar(Bundle(cc), doc, 0),
           NEW f, Reads(f, doc, cc, Len(doc))
    PROVE  ReadSoFar(f[Len(doc)], doc, Len(doc))
<1>0. Len(doc) \in Nat
  BY DEF Document
<1>1. ASSUME NEW i \in 0 .. Len(doc)
      PROVE  f[i] = IF i = 0 THEN Bundle(cc)
                    ELSE IF f[i - 1].alive THEN Handled(f[i - 1], doc[i]) ELSE f[i - 1]
  BY DEF Reads
<1> DEFINE S == {n \in Nat : n <= Len(doc) => ReadSoFar(f[n], doc, n)}
<1>2. 0 \in S
  BY <1>0, <1>1
<1>3. ASSUME NEW n \in Nat, n \in S PROVE n + 1 \in S
  <2> SUFFICES ASSUME n + 1 <= Len(doc) PROVE ReadSoFar(f[n + 1], doc, n + 1)
    OBVIOUS
  <2>1. ReadSoFar(f[n], doc, n)
    BY <1>0, <1>3
  <2>2. PICK m : m = n + 1
    OBVIOUS
  <2>3. m \in 1 .. Len(doc) /\ m \in 0 .. Len(doc) /\ m # 0 /\ m - 1 = n
    BY <1>0, <2>2
  <2>4. f[m] = IF f[n].alive THEN Handled(f[n], doc[m]) ELSE f[n]
    BY <1>1, <2>3
  <2>5. ReadSoFar(f[n], doc, m - 1)
    BY <2>1, <2>3
  <2>6. ReadSoFar(f[m], doc, m)
    BY <2>3, <2>4, <2>5, ReadStep
  <2>7. QED
    BY <2>2, <2>6
<1> HIDE DEF S
<1>4. Nat \subseteq S
  BY <1>2, <1>3, SetInduction
<1>5. QED
  BY <1>0, <1>4 DEF S

\* What a document leaves is what it says, and only a careless one kills.
LEMMA DocumentRead ==
    ASSUME NEW doc, Document(doc), NEW b,
           b = cc_loadConfigCoreFile(doc, [cc_newConfigCoreObj EXCEPT !.homeDir = "home"])
    PROVE  /\ b.alive => /\ AsWritten(b.cc, doc)
                         /\ Directory(b.cc) = DirectoryOf(doc) /\ Space(b.cc) = SpaceOf(doc)
           /\ ~b.alive => Careless(doc)
<1>1. PICK cc : cc = [cc_newConfigCoreObj EXCEPT !.homeDir = "home"]
  OBVIOUS
<1>2. Len(doc) \in Nat /\ WellNested(doc) /\ DOMAIN doc = 1 .. Len(doc)
  BY DEF Document
<1> DEFINE after == CHOOSE f : Reads(f, doc, cc, Len(doc))
<1>3. \E f : Reads(f, doc, cc, Len(doc))
  BY <1>2, ReadsExists
<1>4. Reads(after, doc, cc, Len(doc))
  BY <1>3
<1>5. b = after[Len(doc)]
  BY <1>1 DEF cc_loadConfigCoreFile, Reads
<1> HIDE DEF after
<1>6. ReadSoFar(b, doc, Len(doc))
  BY <1>1, <1>4, <1>5, ReadNothing, ReadsSoFar
<1>7. ASSUME b.alive
      PROVE  /\ AsWritten(b.cc, doc)
             /\ Directory(b.cc) = DirectoryOf(doc) /\ Space(b.cc) = SpaceOf(doc)
  <2>1. /\ IsBundle(b) /\ SettingsAsWritten(b.cc, doc, Len(doc))
        /\ ResourceStands(b, doc, Len(doc)) /\ BrokerStands(b, doc, Len(doc))
        /\ ServicesRead(b, doc, Len(doc))
    BY <1>6, <1>7 DEF ReadSoFar
  <2>2. ~Open(doc, Len(doc))
    BY <1>2 DEF Open, WellNested
  <2>3. DOMAIN b.cc.services = 1 .. Len(b.cc.services)
    BY <2>1 DEF IsBundle, IsConfig
  <2>4. ServicesAsWritten(b.cc, doc)
    BY <2>1, <2>2, <2>3 DEF ServicesRead, ServicesAsWritten, Closed
  <2>5. AsWritten(b.cc, doc)
    BY <2>1, <2>4 DEF AsWritten, ResourceStands, BrokerStands
  <2>6. \A f \in Copied : b.cc[f] = Says(doc, f, 1, Len(doc), Default[f])
    BY <2>1 DEF SettingsAsWritten
  <2>7. /\ b.cc.databaseFile = Says(doc, "databaseFile", 1, Len(doc), Null)
        /\ b.cc.homeDir = Says(doc, "homeDir", 1, Len(doc), Default.homeDir)
        /\ b.cc.nameSpace = Says(doc, "nameSpace", 1, Len(doc), Null)
    <3>1. /\ "databaseFile" \in Copied /\ Default["databaseFile"] = Null
          /\ "homeDir" \in Copied /\ Default["homeDir"] = Default.homeDir
          /\ "nameSpace" \in Copied /\ Default["nameSpace"] = Null
      BY DEF Copied, Default
    <3>2. QED
      BY <2>6, <3>1
  <2>8. Directory(b.cc) = DirectoryOf(doc)
    BY <2>7 DEF Directory, DirectoryOf
  <2>9. Space(b.cc) = SpaceOf(doc)
    <3>1. CASE At(doc, "resourceService", 1, Len(doc)) = {}
      BY <2>1, <3>1 DEF ResourceStands, ResourceAsWritten, Space, SpaceOf
    <3>2. CASE At(doc, "resourceService", 1, Len(doc)) # {}
      <4>1. /\ b.cc.resourceService # Null
            /\ b.cc.resourceService.uri =
                 Says(doc, "resource/uri", Latest(At(doc, "resourceService", 1, Len(doc))),
                      Len(doc), Null)
        BY <2>1, <3>2 DEF ResourceStands, ResourceAsWritten
      <4>2. QED
        BY <2>7, <3>2, <4>1 DEF Space, SpaceOf
    <3>3. QED
      BY <3>1, <3>2
  <2>10. QED
    BY <2>5, <2>8, <2>9
<1>8. QED
  BY <1>6, <1>7 DEF ReadSoFar

-----------------------------------------------------------------------------
(* The application, which may look up and initialise again at any moment,  *)
(* for any config-core.xml, crashes in no other circumstances than a       *)
(* lookup before gConfig was set or with two initialisations at a time, a  *)
(* number or an id that is missing in the file, a segment that is too      *)
(* small, a switch without a name, a .part file that cannot be opened, a   *)
(* worker thread without a log or without a broker, and a message without  *)
(* a header that a worker thread acts on, or whose row it cannot write, or *)
(* for which it has no namespace or host name (libswitch_isSwitchEnabled,  *)
(* cc_initializeConfigCore, cm_internalMessagingLoop,                      *)
(* dbcore_insertToMessaging).                                              *)
THEOREM CrashesKnown == Spec => []CrashesOnlyWhen
<1>1. ServeInv /\ LifeInv => CrashesOnlyWhen
  <2> SUFFICES ASSUME ServeInv, LifeInv PROVE CrashesOnlyWhen
    OBVIOUS
  <2>1. CallTypes /\ EndInv /\ site \in Sites
    BY DEF ServeInv, LifeInv, SiteInv
  <2>2. ASSUME ~Single PROVE Overlapped
    BY <2>1, <2>2, OnlyOne DEF CallTypes, Overlapped, Single
  <2>3. ASSUME ~Read[site.doc].alive PROVE Careless(site.doc)
    <3>1. Document(site.doc)
      BY <2>1, SiteAssumption
    <3>2. Read[site.doc] = cc_loadConfigCoreFile(site.doc,
                               [cc_newConfigCoreObj EXCEPT !.homeDir = "home"])
      BY <2>1 DEF Read
    <3>3. QED
      BY <2>3, <3>1, <3>2, DocumentRead
  <2>4. QED
    BY <2>1, <2>2, <2>3 DEF EndInv, Ending, CrashesOnlyWhen
<1>2. QED
  BY <1>1, LifeInvariant, PTL

(* Whatever config-core.xml says, a config_core that was loaded says it:   *)
(* every setting, the services in the order of the file, each with its     *)
(* last timeout, uri and params, every part of the broker, the address and *)
(* the password of the resource service; and with the heap made, the       *)
(* directory and the namespace that its paths were given are those that    *)
(* are written (cc_loadConfigCoreFile, cc_initializeConfigCore).           *)
THEOREM CoreSaysWhatIsWritten == Spec => []LoadedAsWritten
<1>1. LifeInv => LoadedAsWritten
  <2> SUFFICES ASSUME LifeInv, NEW c \in Calls
               PROVE  /\ core[c].cc # cc_newConfigCoreObj => AsWritten(core[c].cc, site.doc)
                      /\ core[c].sheap => /\ core[c].dir = DirectoryOf(site.doc)
                                          /\ core[c].space = SpaceOf(site.doc)
    BY DEF LoadedAsWritten
  <2>1. core[c].sheap => /\ core[c].cc # cc_newConfigCoreObj
                         /\ core[c].dir = Directory(core[c].cc)
                         /\ core[c].space = Space(core[c].cc)
    <3>1. cc_newConfigCoreObj.homeDir = Null
      BY DEF cc_newConfigCoreObj
    <3>2. Placed(core[c])
      BY DEF LifeInv, CoreRead
    <3>3. QED
      BY <3>1, <3>2 DEF Placed
  <2> SUFFICES ASSUME core[c].cc # cc_newConfigCoreObj
               PROVE  /\ AsWritten(core[c].cc, site.doc)
                      /\ Directory(core[c].cc) = DirectoryOf(site.doc)
                      /\ Space(core[c].cc) = SpaceOf(site.doc)
    BY <2>1
  <2>2. site \in Sites /\ Read[site.doc].alive /\ core[c].cc = Read[site.doc].cc
    BY DEF LifeInv, SiteInv, CoreRead
  <2>3. Document(site.doc)
    BY <2>2, SiteAssumption
  <2>4. Read[site.doc] = cc_loadConfigCoreFile(site.doc,
                             [cc_newConfigCoreObj EXCEPT !.homeDir = "home"])
    BY <2>2 DEF Read
  <2>5. /\ AsWritten(Read[site.doc].cc, site.doc)
        /\ Directory(Read[site.doc].cc) = DirectoryOf(site.doc)
        /\ Space(Read[site.doc].cc) = SpaceOf(site.doc)
    BY <2>2, <2>3, <2>4, DocumentRead
  <2>6. QED
    BY <2>2, <2>5
<1>2. QED
  BY <1>1, LifeInvariant, PTL
=============================================================================
