---------------------------- MODULE PullRefresh -----------------------------
(***************************************************************************)
(* The AUTO (PULL) method: the messaging worker's timer loop, from the     *)
(* document an operator checks in to the configuration the application     *)
(* serves.  The repository holds one document, switch-config.xml: its      *)
(* attributes nextRefreshTime and nextRefreshServerRegex say when and      *)
(* where it is to be loaded, its body is the configuration.  A round of    *)
(* the loop requests the document twice: once for its date                 *)
(* (cm_canAutoRefreshNow) and, when that is due, once more for its text    *)
(* (cc_getRemoteResourcePath, inside cc_refreshConfigCore).  The text is   *)
(* written to a .part file, renamed over the local copy, and parsed from   *)
(* there; when anything fails before the rename, the local copy is parsed  *)
(* as it is.  The application loads its first configuration the same way.  *)
(* An answer that breaks off after its status line still has the status    *)
(* 200, which is all that is looked at: what came of it is kept.           *)
(*                                                                         *)
(* Abstractions: a configuration is the number of the document it came     *)
(* from; a regex is whether it matches this host; what SharedHeap details  *)
(* (build, publish, flip) is the one step PublishText.                     *)
(***************************************************************************)
EXTENDS Integers

CONSTANTS
    MaxDocs,     \* bound: documents the operator checks in
    MaxClock,    \* bound: seconds the clock advances
    CanFail,     \* requests and file operations may fail
    CanDie,      \* the messaging process may be killed
    CanRestart   \* the whole application may be restarted

ASSUME BoundAssumption == MaxDocs \in Nat /\ MaxClock \in Nat
ASSUME FaultAssumption ==
    CanFail \in BOOLEAN /\ CanDie \in BOOLEAN /\ CanRestart \in BOOLEAN

Document == [id : Nat, at : Nat, mine : BOOLEAN, ok : BOOLEAN]
\* What the installed package brings: a local copy that parses, due long ago.
Shipped == [id |-> 0, at |-> 0, mine |-> TRUE, ok |-> TRUE]

\* No file; also what a .part file that nobody reads any more is taken for.
NoPart == [doc |-> Shipped, cut |-> FALSE, whole |-> FALSE]

Labels == {"start", "check", "fetch", "download", "write", "rename", "parse",
           "publish", "mark", "sleep", "dead"}

VARIABLES
    remote,    \* the document in the repository
    clock,     \* time(NULL)
    pc,        \* the next step of the loop
    booting,   \* the application is loading its first configuration
    last,      \* lastAutoRefreshTimestamp
    now,       \* currentTimestamp in cm_canAutoRefreshNow
    part,      \* the .part file: the answer it comes from, whether that was
               \* cut short, and whether the file holds all of the answer
    local,     \* the local copy, likewise
    front      \* number of the configuration served, -1 for none

\* History variables; no guard reads them.
VARIABLES
    begun,     \* the documents whose date made a round refresh
    failed,    \* the download of the round in progress, or of the last one,
               \* failed or was cut short
    cutShort   \* the documents not served yet whose refresh the death of the
               \* worker ended

world   == <<remote, clock>>
files   == <<part, local>>
history == <<begun, failed, cutShort>>
vars    == <<world, pc, booting, last, now, files, front, history>>

Goto(label) == pc' = label

(* libswitch_initializeLibSwitch runs with the package's local copy.       *)
Init ==
    /\ remote = Shipped
    /\ clock = 1
    /\ pc = "download"
    /\ booting = TRUE
    /\ last = 0
    /\ now = 0
    /\ part = NoPart
    /\ local = [doc |-> Shipped, cut |-> FALSE, whole |-> TRUE]
    /\ front = -1
    /\ begun = {}
    /\ failed = FALSE
    /\ cutShort = {}

-----------------------------------------------------------------------------
(* The operator checks in a document; its date may lie in the past, its    *)
(* regex may leave this host out, and it may have a typo.                  *)
CheckIn ==
    /\ remote.id < MaxDocs
    /\ \E d \in 1 .. MaxClock, m \in BOOLEAN, w \in BOOLEAN :
          /\ m \/ w
          /\ remote' = [id |-> remote.id + 1, at |-> d, mine |-> m, ok |-> w]
    /\ UNCHANGED <<clock, pc, booting, last, now, files, front, history>>

Tick ==
    /\ clock < MaxClock
    /\ clock' = clock + 1
    /\ UNCHANGED <<remote, pc, booting, last, now, files, front, history>>

-----------------------------------------------------------------------------
(* cm_internalMessagingLoop begins: whatever was due before is not any more. *)
StartLoop ==
    /\ pc = "start"
    /\ last' = clock
    /\ Goto("check")
    /\ UNCHANGED <<world, booting, now, files, front, history>>

(* cm_canAutoRefreshNow reads the clock before it sends its request.       *)
ReadClock ==
    /\ pc = "check"
    /\ now' = clock
    /\ Goto("fetch")
    /\ UNCHANGED <<world, booting, last, files, front, history>>

Due(d) == last < d.at /\ d.at <= now

(* No answer, an answer that is not 200, a document that does not parse.   *)
CheckFails ==
    /\ pc = "fetch"
    /\ CanFail \/ ~remote.ok
    /\ Goto("sleep")
    /\ now' = 0
    /\ UNCHANGED <<world, booting, last, files, front, history>>

NotDue ==
    /\ pc = "fetch"
    /\ remote.ok
    /\ ~(Due(remote) /\ remote.mine)
    /\ Goto("sleep")
    /\ now' = 0
    /\ UNCHANGED <<world, booting, last, files, front, history>>

BeginRefresh ==
    /\ pc = "fetch"
    /\ remote.ok
    /\ Due(remote) /\ remote.mine
    /\ begun' = begun \cup {remote}
    /\ failed' = FALSE
    /\ Goto("download")
    /\ now' = 0
    /\ UNCHANGED <<world, booting, last, files, front, cutShort>>

-----------------------------------------------------------------------------
(* The worker ends, or the application that is still booting, and its      *)
(* variables with it; a .part file it leaves is emptied before it is       *)
(* written again.                                                          *)
Die ==
    /\ Goto("dead")
    /\ cutShort' = IF booting THEN cutShort
                   ELSE cutShort \cup {d \in begun : d.id > front}
    /\ last' = 0 /\ now' = 0 /\ part' = NoPart
    /\ UNCHANGED <<world, booting, local, front, begun, failed>>

(* cc_getRemoteResourcePath: a 200 with a body, whole or cut short by the  *)
(* timeout or a reset; the errorMsg that would tell is only logged.        *)
OpenPart ==
    /\ pc = "download"
    /\ \E cut \in BOOLEAN :
          /\ cut => CanFail
          /\ part' = [doc |-> remote, cut |-> cut, whole |-> FALSE]
    /\ Goto("write")
    /\ UNCHANGED <<world, booting, last, now, local, front, history>>

(* The result of apr_file_open is not looked at: writing to a .part file   *)
(* that could not be opened ends the process.                              *)
OpenFails ==
    /\ pc = "download"
    /\ CanFail
    /\ Die

\* Mutant: a short write is taken for a full one.
WritePart_Short ==
    /\ pc = "write"
    /\ part' \in {part, [part EXCEPT !.whole = TRUE]}
    /\ Goto("rename")
    /\ UNCHANGED <<world, booting, last, now, local, front, history>>

WritePart ==
    /\ pc = "write"
    /\ part' = [part EXCEPT !.whole = TRUE]
    /\ Goto("rename")
    /\ UNCHANGED <<world, booting, last, now, local, front, history>>

\* Mutant: the local copy is parsed although the new one was not moved there.
RenamePart_Skipped ==
    /\ pc = "rename"
    /\ Goto("parse")
    /\ UNCHANGED <<world, booting, last, now, files, front, history>>

RenamePart ==
    /\ pc = "rename"
    /\ local' = part
    /\ part' = NoPart
    /\ failed' = part.cut
    /\ Goto("parse")
    /\ UNCHANGED <<world, booting, last, now, front, begun, cutShort>>

(* The request, the write or the rename fails, or the body is empty:       *)
(* cc_getLocalResourcePath.                                                *)
FallBack ==
    /\ pc \in {"download", "write", "rename"}
    /\ CanFail
    /\ failed' = TRUE
    /\ Goto("parse")
    /\ part' = NoPart
    /\ UNCHANGED <<world, booting, last, now, local, front, begun, cutShort>>

(* expat refuses a document whose end it does not see.                     *)
Parses(file) == file.whole /\ ~file.cut /\ file.doc.ok

(* switchconfxml_loadConfFile fails: the refresh returns the error.  The   *)
(* first load goes on all the same, with nothing to serve.                 *)
ParseFails ==
    /\ pc = "parse"
    /\ ~Parses(local)
    /\ booting' = FALSE
    /\ Goto(IF booting THEN "start" ELSE "mark")
    /\ UNCHANGED <<world, last, now, files, front, history>>

ParseText ==
    /\ pc = "parse"
    /\ Parses(local)
    /\ Goto("publish")
    /\ UNCHANGED <<world, booting, last, now, files, front, history>>

(* switchconf_build and shmdata_PublishBackSeg.                            *)
PublishText ==
    /\ pc = "publish"
    /\ front' = local.doc.id
    /\ booting' = FALSE
    /\ Goto(IF booting THEN "start" ELSE "mark")
    /\ UNCHANGED <<world, last, now, files, history>>

\* Mutant: the timestamp of the round is not kept.
MarkDone_Forgets ==
    /\ pc = "mark"
    /\ Goto("sleep")
    /\ UNCHANGED <<world, booting, last, now, files, front, history>>

(* The handler has returned; the loop does not look at how it ended.       *)
MarkDone ==
    /\ pc = "mark"
    /\ last' = clock
    /\ Goto("sleep")
    /\ UNCHANGED <<world, booting, now, files, front, history>>

WakeUp ==
    /\ pc = "sleep"
    /\ Goto("check")
    /\ UNCHANGED <<world, booting, last, now, files, front, history>>

-----------------------------------------------------------------------------
(* The messaging process is killed at any point of its loop and forked     *)
(* anew by the application.                                                *)
WorkerDies ==
    /\ CanDie
    /\ ~booting
    /\ pc # "dead"
    /\ Die

RestartWorker ==
    /\ pc = "dead" /\ ~booting
    /\ Goto("start")
    /\ UNCHANGED <<world, booting, last, now, files, front, history>>

(* The application is restarted, whatever it is doing: only the files      *)
(* stay.                                                                   *)
RestartApplication ==
    /\ CanRestart
    /\ booting' = TRUE
    /\ front' = -1
    /\ failed' = FALSE
    /\ Goto("download")
    /\ last' = 0 /\ now' = 0 /\ part' = NoPart
    /\ UNCHANGED <<world, local, begun, cutShort>>

Check == ReadClock \/ CheckFails \/ NotDue \/ BeginRefresh
Load == OpenPart \/ OpenFails \/ WritePart \/ RenamePart \/ FallBack \/ ParseFails
            \/ ParseText \/ PublishText

Next == \/ CheckIn \/ Tick
        \/ StartLoop \/ Check \/ Load \/ MarkDone \/ WakeUp
        \/ WorkerDies \/ RestartWorker \/ RestartApplication

Spec == Init /\ [][Next]_vars

(* The worker is scheduled and time passes; a repository that answers      *)
(* every now and then answers the request of some round.                   *)
Fairness ==
    /\ WF_vars(Tick)
    /\ WF_vars(StartLoop \/ Check \/ Load \/ MarkDone \/ WakeUp)
    /\ SF_vars(BeginRefresh)

FairSpec == Spec /\ Fairness

-----------------------------------------------------------------------------
(* Properties.                                                             *)
FileType == [doc : Document, cut : BOOLEAN, whole : BOOLEAN]

TypeOK ==
    /\ remote \in Document
    /\ clock \in Nat /\ last \in Nat /\ now \in Nat
    /\ pc \in Labels
    /\ booting \in BOOLEAN /\ failed \in BOOLEAN
    /\ part \in FileType /\ local \in FileType
    /\ front \in Nat \cup {-1}
    /\ begun \subseteq Document /\ cutShort \subseteq Document

(* A date is acted upon at most once, whether the refresh it triggers      *)
(* succeeds, fails or is cut short by the death of the worker or of the    *)
(* application: the loop's timestamp then lies at or after the date.       *)
OncePerDate ==
    [][BeginRefresh => \A d \in begun : d.at # remote.at]_vars

(* The local copy is always all of some answer of the repository: a        *)
(* download that fails, or a worker killed while it writes, never leaves   *)
(* part of a file to parse.  (The answer may be cut short: the copy that   *)
(* parsed before is then lost, and a restart has nothing to serve.)  What  *)
(* is served parsed, and is never newer than the copy, even while the copy *)
(* is a document that does not parse.                                      *)
LocalCopyWhole ==
    /\ local.whole
    /\ front <= local.doc.id
    /\ front = local.doc.id => local.doc.ok

(* A refresh that ran its course leaves in the local copy the document it  *)
(* was begun for, or a later one, whatever was checked in, killed or       *)
(* restarted meanwhile, unless its download failed or was cut short.       *)
RefreshLoadsIt ==
    pc = "mark" => failed \/ \A d \in begun : local.doc.id >= d.id

Overtaken == remote.at <= last /\ remote \notin begun

(* Every document whose date comes is served, if it names this host,       *)
(* parses, and stays in the repository - unless its download failed or was *)
(* cut short, the worker died before it was served (its refresh is then    *)
(* never begun again) or stays dead, or the loop's timestamp overtook its date (the    *)
(* loop started, or another refresh ended, between the date and the next   *)
(* look at the repository).                                                *)
DueIsServed ==
    \A v \in 1 .. MaxDocs :
        remote.id = v /\ remote.ok /\ remote.mine
            ~> \/ front >= v \/ remote.id # v
               \/ failed \/ remote \in cutShort \/ Overtaken
               \/ pc = "dead" \/ booting

Scheduled(v) ==
    /\ remote.id = v /\ remote.ok /\ remote.mine
    /\ remote.at > clock /\ ~booting /\ pc # "start"

(* The README's "Timer based auto publish": a document that is in the      *)
(* repository before its date, while the loop runs, is served, or another  *)
(* one is checked in after it.                                             *)
ScheduledIsServed ==
    \A v \in 1 .. MaxDocs : Scheduled(v) ~> front >= v \/ remote.id # v
=============================================================================
