--------------------------- MODULE RealmMessaging ---------------------------
(***************************************************************************)
(* The PUSH method: the messaging workers of a realm on one topic of a     *)
(* message broker.  A worker keeps a connection, subscribes, announces     *)
(* itself with a PING, and from then on reads: a PING is answered with a   *)
(* PONG, every message is entered in the worker's realm database, and a    *)
(* REFRESH loads the document of the repository and is answered with       *)
(* REFRESH-COMPLETE or REFRESH-FAILED; a read that brings nothing is       *)
(* followed by an ALIVE.  The topic is not durable: the broker hands a     *)
(* message to the connections subscribed at that moment, the sender's own  *)
(* included.  The operator's sc command connects, sends one REFRESH and    *)
(* disconnects; an application that starts tries the broker with an ALIVE. *)
(* A host whose config-core.xml names no namespace sends messages without  *)
(* a header, and the worker that enters one in its database dies of it.    *)
(*                                                                         *)
(* Abstractions: frames are those StompFrames delivers, a damaged one      *)
(* being read as no message, for its command is then not MESSAGE; a        *)
(* message is one that the senders of the repository write, whose XML      *)
(* parses; a document is its number and whether it parses; a batch id is   *)
(* the second it was made in, by the clock of its host, for it is rand()   *)
(* seeded with that second.                                                *)
(***************************************************************************)
EXTENDS RealmDatabase, SequencesExt

CONSTANTS
    Nodes,         \* hosts that run a worker
    Console,       \* another host of the realm, on which sc is run
    Spaces,        \* namespaces
    NoSpace,       \* stands for a configuration that names none
    HostSpaces,    \* the namespaces the hosts may be configured with
    Everyone,      \* stands for a message without notifyNamespace
    Seconds,       \* bound: the seconds in which messages are numbered
    MaxVersion,    \* bound: documents checked in
    MaxRefresh,    \* bound: REFRESH messages of the operator
    MaxFaults,     \* bound: connections dropped, and connects, sends and
                   \* downloads that fail
    MaxAlive       \* bound: reads that bring nothing

ASSUME RealmAssumption ==
    /\ HostSpaces \subseteq Spaces \cup {NoSpace}
    /\ {Everyone, NoSpace} \cap Spaces = {} /\ Console \notin Nodes
    /\ Seconds \subseteq Nat /\ MaxVersion \in Nat /\ MaxRefresh \in Nat
    /\ MaxFaults \in Nat /\ MaxAlive \in Nat

Hosts == Nodes \cup {Console}
ErrorText == -1   \* text where a batch id is expected

\* Every message carries its sender's pid, here the sender; one that concerns
\* a namespace names it; a REFRESH-FAILED may carry a text as its errors.
Params(from, to) ==
    {[name |-> "pid", value |-> from]} \cup
    (IF to = Everyone THEN {} ELSE {[name |-> "notifyNamespace", value |-> to]})

\* A header is there if the sender has a namespace; without its attributes the
\* message is parsed with a null header.  nr, the number of the REFRESH that is
\* sent or answered, is not on the wire.
Message(type, from, headed, batch, to, nr) ==
    [type |-> type, from |-> from, headed |-> headed, batch |-> batch,
     to |-> to, params |-> Params(from, to), nr |-> nr]
NoMessage == Message("none", Console, FALSE, 0, Everyone, 0)

WithErrors(m, text) ==
    [m EXCEPT !.params = @ \cup {[name |-> "errors", value |-> text]}]

VARIABLES
    space,     \* the namespace in the configuration of each host
    repo,      \* the document in the repository: its number, whether it parses
    asked,     \* the REFRESH messages sent, with the repo of that moment
    link,      \* the broker's end: "down", "up" or "subscribed"
    socket,    \* cmConn->stomp->socket is not NULL
    inbox,     \* frames on their way to each node
    pc, msg,   \* each worker's step, and the message in hand
    local,     \* the local copy on each node
    front,     \* the version each node serves
    result,    \* what cc_refreshConfigCore returned, "ok" or "failed"
    realm      \* each node's database

\* History variables and bounds.
VARIABLES
    fellBack,  \* the last download of the node failed
    loaded,    \* batch ids of the REFRESH messages the node has loaded
    pinged,    \* batch ids that a PING was sent with
    missed,    \* numbers of the REFRESH messages whose frame was damaged
    faults, alives

world   == <<space, repo, asked>>
network == <<link, socket, inbox>>
worker  == <<pc, msg, result>>
config  == <<local, front, fellBack, loaded>>
history == <<pinged, missed, faults, alives>>
vars    == <<world, network, worker, config, realm, history>>

Init ==
    /\ space \in [Hosts -> HostSpaces]
    /\ repo = [ver |-> 0, ok |-> TRUE]
    /\ asked = <<>>
    /\ link = [n \in Nodes |-> "down"]
    /\ socket = [n \in Nodes |-> FALSE]
    /\ inbox = [n \in Nodes |-> <<>>]
    /\ pc = [n \in Nodes |-> "loop"]
    /\ msg = [n \in Nodes |-> NoMessage]
    /\ local = [n \in Nodes |-> [ver |-> 0, ok |-> TRUE]]
    /\ front = [n \in Nodes |-> 0]
    /\ result = [n \in Nodes |-> "ok"]
    /\ realm = [n \in Nodes |-> EmptyDatabase]
    /\ fellBack = [n \in Nodes |-> FALSE]
    /\ loaded = [n \in Nodes |-> {}]
    /\ pinged = {}
    /\ missed = [n \in Nodes |-> {}]
    /\ faults = 0 /\ alives = 0

Goto(n, label) == pc' = [pc EXCEPT ![n] = label]

\* cm_newWireMessageType with the header of the connection.
Own(h, type, batch, to, nr) ==
    Message(type, h, space[h] # NoSpace, batch, to, nr)

-----------------------------------------------------------------------------
(* The topic.                                                              *)
Delivered(boxes, m) ==
    [n \in Nodes |-> IF link[n] = "subscribed" THEN Append(boxes[n], m)
                                               ELSE boxes[n]]

Fault == faults < MaxFaults /\ faults' = faults + 1

\* A send on a connection the broker has dropped may still be accepted.
Accepted(n, boxes, m) ==
    /\ socket[n]
    /\ inbox' = IF link[n] = "down" THEN boxes ELSE Delivered(boxes, m)
    /\ UNCHANGED <<link, socket, faults>>

\* stomp_write_buffer closes the connection on every error.
Refused(n, boxes) ==
    /\ IF socket[n] /\ link[n] # "down" THEN Fault ELSE UNCHANGED faults
    /\ socket' = [socket EXCEPT ![n] = FALSE]
    /\ link' = [link EXCEPT ![n] = "down"]
    /\ inbox' = [boxes EXCEPT ![n] = <<>>]

Send(n, boxes, m) == Accepted(n, boxes, m) \/ Refused(n, boxes)

\* What the node's socket holds already may still be read.
Drop(n) ==
    /\ link[n] # "down"
    /\ Fault
    /\ link' = [link EXCEPT ![n] = "down"]
    /\ \E k \in 0 .. Len(inbox[n]) :
          inbox' = [inbox EXCEPT ![n] = SubSeq(@, 1, k)]
    /\ UNCHANGED <<world, socket, worker, config, realm, pinged, missed, alives>>

-----------------------------------------------------------------------------
(* The operator.                                                           *)
CheckIn ==
    /\ repo.ver < MaxVersion
    /\ \E w \in BOOLEAN : repo' = [ver |-> repo.ver + 1, ok |-> w]
    /\ UNCHANGED <<space, asked, network, worker, config, realm, history>>

\* sc.
SendRefresh(s) ==
    LET nr == Len(asked) + 1 IN
    /\ nr <= MaxRefresh
    /\ \E b \in Seconds :
          /\ asked' = Append(asked, [batch |-> b, doc |-> repo, to |-> s])
          /\ inbox' = Delivered(inbox, Own(Console, "REFRESH", b, s, nr))
    /\ UNCHANGED <<space, repo, link, socket, worker, config, realm, history>>

\* cm_testMessageBroker, of an application that starts on the other host.
TestMessageBroker ==
    /\ alives < MaxAlive
    /\ alives' = alives + 1
    /\ \E b \in Seconds :
          inbox' = Delivered(inbox, Own(Console, "ALIVE", b, Everyone, 0))
    /\ UNCHANGED <<world, link, socket, worker, config, realm, pinged, missed, faults>>

-----------------------------------------------------------------------------
(* cm_internalMessagingLoop: connect, subscribe, announce; a failure is    *)
(* followed by reconnectWaitMs and another attempt.                        *)
Connect(n) ==
    /\ pc[n] = "loop" /\ ~socket[n]
    /\ link' = [link EXCEPT ![n] = "up"]
    /\ socket' = [socket EXCEPT ![n] = TRUE]
    /\ Goto(n, "subscribe")
    /\ UNCHANGED <<world, inbox, msg, result, config, realm, history>>

\* apr_socket_create fails after it has set the socket: the next read is on a
\* descriptor that is none, and stomp_read_buffer repeats it for ever.
ConnectHangs(n) ==
    /\ pc[n] = "loop" /\ ~socket[n]
    /\ Fault
    /\ socket' = [socket EXCEPT ![n] = TRUE]
    /\ Goto(n, "stuck")
    /\ UNCHANGED <<world, link, inbox, msg, result, config, realm, pinged, missed,
                   alives>>

\* Mutant: the failed SUBSCRIBE leaves the connection as it is.
SubscribeFails_Keeps(n) ==
    /\ pc[n] = "subscribe"
    /\ IF link[n] # "down" THEN Fault ELSE UNCHANGED faults
    /\ Goto(n, "loop")
    /\ UNCHANGED <<world, network, msg, result, config, realm, pinged, missed, alives>>

SubscribeFails(n) ==
    /\ pc[n] = "subscribe"
    /\ Refused(n, inbox)
    /\ Goto(n, "loop")
    /\ UNCHANGED <<world, msg, result, config, realm, pinged, missed, alives>>

Subscribe(n) ==
    /\ pc[n] = "subscribe"
    /\ link' = IF link[n] = "down" THEN link
                                   ELSE [link EXCEPT ![n] = "subscribed"]
    /\ Goto(n, "ping")
    /\ UNCHANGED <<world, socket, inbox, msg, result, config, realm, history>>

Announce(n) ==
    /\ pc[n] = "ping"
    /\ \E b \in Seconds :
          /\ Send(n, inbox, Own(n, "PING", b, Everyone, 0))
          /\ pinged' = pinged \cup {b}
    /\ Goto(n, "loop")
    /\ UNCHANGED <<world, msg, result, config, realm, missed, alives>>

-----------------------------------------------------------------------------
(* cm_internalMessagingLoop: read.  A message is read and handled up to    *)
(* its first effect outside the node in one step.                          *)
Reading(n) == pc[n] = "loop" /\ socket[n]
Popped(n) == [inbox EXCEPT ![n] = Tail(@)]

\* strcmp of a notifyNamespace with the namespace of a node that has none.
Unanswerable(m, n) == m.to # Everyone /\ space[n] = NoSpace
Concerns(m, n) == m.to = Everyone \/ m.to = space[n]

\* A message that is handled to its end, and one the worker dies of.
Handles(m, n) == Concerns(m, n) /\ m.headed
Fatal(m, n) == Unanswerable(m, n) \/ (Concerns(m, n) /\ ~m.headed)

Pong(n, m) == Own(n, "PONG", m.batch, Everyone, 0)
IsRefresh(m) == m.type = "REFRESH"

Register(n, m) == realm' = [realm EXCEPT ![n] = RegisterMessage(@, m)]

\* The PONG of a PING is sent before the message is registered.
ReadFatal(n) ==
    /\ Reading(n) /\ inbox[n] # <<>>
    /\ LET m == Head(inbox[n]) IN
          /\ Fatal(m, n)
          /\ inbox' = [(IF m.type = "PING" THEN Delivered(inbox, Pong(n, m))
                                           ELSE inbox) EXCEPT ![n] = <<>>]
    /\ link' = [link EXCEPT ![n] = "down"]
    /\ socket' = [socket EXCEPT ![n] = FALSE]
    /\ Goto(n, "dead")
    /\ UNCHANGED <<world, msg, result, config, realm, history>>

ReadOther(n) ==
    /\ Reading(n) /\ inbox[n] # <<>>
    /\ LET m == Head(inbox[n]) IN
          /\ ~Fatal(m, n)
          /\ \/ ~Concerns(m, n) /\ UNCHANGED realm
             \/ /\ Handles(m, n) /\ m.type # "PING" /\ ~IsRefresh(m)
                /\ Register(n, m)
    /\ inbox' = Popped(n)
    /\ UNCHANGED <<world, link, socket, worker, config, history>>

ReadPing(n) ==
    /\ Reading(n) /\ inbox[n] # <<>>
    /\ LET m == Head(inbox[n]) IN
          /\ Handles(m, n) /\ m.type = "PING"
          /\ Send(n, Popped(n), Pong(n, m))
          /\ Register(n, m)
    /\ UNCHANGED <<world, worker, config, pinged, missed, alives>>

ReadRefresh(n) ==
    /\ Reading(n) /\ inbox[n] # <<>>
    /\ LET m == Head(inbox[n]) IN
          /\ Handles(m, n) /\ IsRefresh(m)
          /\ msg' = [msg EXCEPT ![n] = m]
          /\ Register(n, m)
    /\ inbox' = Popped(n)
    /\ Goto(n, "refresh")
    /\ UNCHANGED <<world, link, socket, result, config, history>>

\* The wait timed out, or the frame was a damaged one: ALIVE.
ReadNothing(n) ==
    /\ Reading(n) /\ alives < MaxAlive
    /\ alives' = alives + 1
    /\ \E b \in Seconds :
          LET m == Own(n, "ALIVE", b, Everyone, 0) IN
          \/ inbox[n] = <<>> /\ Send(n, inbox, m) /\ UNCHANGED missed
          \/ /\ inbox[n] # <<>> /\ Send(n, Popped(n), m)
             /\ missed' = [missed EXCEPT ![n] = @ \cup {Head(inbox[n]).nr}]
    /\ UNCHANGED <<world, worker, config, realm, pinged>>

\* End of stream; the ALIVE that follows fails on the closed connection.
ReadEof(n) ==
    /\ Reading(n) /\ link[n] = "down" /\ inbox[n] = <<>>
    /\ socket' = [socket EXCEPT ![n] = FALSE]
    /\ UNCHANGED <<world, link, inbox, worker, config, realm, history>>

-----------------------------------------------------------------------------
(* cc_handleMessageRecieved, for a REFRESH.                                *)
\* Mutant: the configuration is built before the local copy is replaced.
Refresh_Stale(n) ==
    /\ pc[n] = "refresh"
    /\ local' = [local EXCEPT ![n] = repo]
    /\ front' = [front EXCEPT ![n] = local[n].ver]
    /\ result' = [result EXCEPT ![n] = "ok"]
    /\ loaded' = [loaded EXCEPT ![n] = @ \cup {msg[n].batch}]
    /\ Goto(n, "answer")
    /\ UNCHANGED <<world, network, msg, fellBack, realm, history>>

\* cc_refreshConfigCore: download, or else the local copy; parse; publish.  A
\* download cut short replaces the local copy and does not parse.
Refresh(n) ==
    /\ pc[n] = "refresh"
    /\ \/ Fault /\ fellBack' = [fellBack EXCEPT ![n] = TRUE] /\ UNCHANGED local
       \/ /\ fellBack' = [fellBack EXCEPT ![n] = FALSE]
          /\ \/ local' = [local EXCEPT ![n] = repo] /\ UNCHANGED faults
             \/ local' = [local EXCEPT ![n] = [repo EXCEPT !.ok = FALSE]] /\ Fault
    /\ IF local'[n].ok
         THEN /\ front' = [front EXCEPT ![n] = local'[n].ver]
              /\ loaded' = [loaded EXCEPT ![n] = @ \cup {msg[n].batch}]
              /\ result' = [result EXCEPT ![n] = "ok"]
              /\ UNCHANGED realm
         ELSE /\ result' = [result EXCEPT ![n] = "failed"]
              /\ realm' = [realm EXCEPT ![n] = LogError(@)]
              /\ UNCHANGED <<front, loaded>>
    /\ Goto(n, "answer")
    /\ UNCHANGED <<world, network, msg, pinged, missed, alives>>

\* Mutant: the answer does not depend on the result.
Reply_Always(n) == Own(n, "REFRESH-COMPLETE", msg[n].batch, Everyone, msg[n].nr)

\* cm_sendRefreshFailed is called with the error where the batch id goes and
\* the batch id where the errors go.
Reply(n) ==
    IF result[n] = "ok"
      THEN Own(n, "REFRESH-COMPLETE", msg[n].batch, Everyone, msg[n].nr)
      ELSE WithErrors(Own(n, "REFRESH-FAILED", ErrorText, Everyone, msg[n].nr),
                      msg[n].batch)

Answer(n) ==
    /\ pc[n] = "answer"
    /\ Send(n, inbox, Reply(n))
    /\ Goto(n, "loop")
    /\ UNCHANGED <<world, msg, result, config, realm, pinged, missed, alives>>

Worker(n) ==
    \/ Connect(n) \/ ConnectHangs(n) \/ Subscribe(n) \/ SubscribeFails(n)
    \/ Announce(n) \/ ReadFatal(n) \/ ReadOther(n) \/ ReadPing(n) \/ ReadRefresh(n)
    \/ ReadNothing(n) \/ ReadEof(n) \/ Refresh(n) \/ Answer(n)

Next ==
    \/ CheckIn
    \/ \E s \in Spaces : SendRefresh(s)
    \/ TestMessageBroker
    \/ \E n \in Nodes : Drop(n) \/ Worker(n)

Spec == Init /\ [][Next]_vars

(* A worker is scheduled, and a broker that is up every now and then lets  *)
(* it connect at last.                                                     *)
FairSpec ==
    /\ Spec
    /\ \A n \in Nodes : WF_vars(Worker(n)) /\ SF_vars(Connect(n))

-----------------------------------------------------------------------------
(* Properties.                                                             *)
Types == {"none", "PING", "PONG", "ALIVE", "REFRESH", "REFRESH-COMPLETE",
          "REFRESH-FAILED"}
ParamOK(x) ==
    \/ x.name = "pid" /\ x.value \in Hosts
    \/ x.name = "notifyNamespace" /\ x.value \in Spaces
    \/ x.name = "errors" /\ x.value \in Nat
MessageOK(m) ==
    /\ m.type \in Types /\ m.from \in Hosts /\ m.headed \in BOOLEAN
    /\ m.batch \in Int /\ m.to \in Spaces \cup {Everyone}
    /\ m.nr \in 0 .. MaxRefresh /\ \A x \in m.params : ParamOK(x)

TypeOK ==
    /\ space \in [Hosts -> HostSpaces]
    /\ repo \in [ver : Nat, ok : BOOLEAN]
    /\ asked \in Seq([batch : Seconds, doc : [ver : Nat, ok : BOOLEAN], to : Spaces])
    /\ link \in [Nodes -> {"down", "up", "subscribed"}]
    /\ socket \in [Nodes -> BOOLEAN]
    /\ \A n \in Nodes :
          /\ MessageOK(msg[n]) /\ \A m \in ToSet(inbox[n]) : MessageOK(m)
          /\ pc[n] \in {"loop", "stuck", "subscribe", "ping", "refresh", "answer",
                       "dead"}
          /\ IsDatabase(realm[n], Hosts)
          /\ \A e \in realm[n].meta : ParamOK(e)
          /\ pc[n] \in {"refresh", "answer"} => msg[n].type = "REFRESH"
    /\ local \in [Nodes -> [ver : Nat, ok : BOOLEAN]]
    /\ front \in [Nodes -> Nat]
    /\ result \in [Nodes -> {"ok", "failed"}]
    /\ fellBack \in [Nodes -> BOOLEAN]
    /\ loaded \in [Nodes -> SUBSET Seconds] /\ pinged \subseteq Seconds
    /\ missed \in [Nodes -> SUBSET Nat]
    /\ faults \in 0 .. MaxFaults /\ alives \in 0 .. MaxAlive

(* A worker never keeps a connection on which it is deaf: one that the     *)
(* broker holds open is subscribed, but for the moment before SUBSCRIBE,   *)
(* whichever of the three sends of a reconnect fails.                      *)
NeverDeaf ==
    \A n \in Nodes : socket[n] /\ link[n] = "up" => pc[n] = "subscribe"

(* A REFRESH-COMPLETE is true: the node then serves the document that was  *)
(* in the repository when the REFRESH was sent, or a later one, however    *)
(* late it was handled, unless its download failed.                        *)
CompleteMeansLoaded ==
    [][\A n \in Nodes : Answer(n) /\ Reply(n).type = "REFRESH-COMPLETE" =>
          fellBack[n] \/ front[n] >= asked[msg[n].nr].doc.ver]_vars

(* A row of a realm database that shows a batch as completed by a node is  *)
(* right, on every node and whatever was lost or dropped: the node has     *)
(* loaded a REFRESH of that id, or a PING was sent in the same second,     *)
(* which, like its PONG, puts its own id into the row of the node.  (The   *)
(* row of the host sc is run on takes the id of the REFRESH itself.)       *)
RealmTellsTruth ==
    \A n \in Nodes : \A row \in ToSet(realm[n].rows) :
        row.host \in Nodes /\ row.refresh = "complete"
            => row.batch \in loaded[row.host] \cup pinged

(* A host has one row however often it reconnects, and the parameters kept *)
(* under a row are its host's; those of the first message of a host are    *)
(* under no row.  So the errors of a refresh that a row shows as failed    *)
(* are under the row or under none, and a node that shows its own refresh  *)
(* as failed has logged why.                                               *)
ParamsWithNode ==
    \A n \in Nodes : LET db == realm[n] IN \A i \in DOMAIN db.rows :
        /\ IdsOf(db, db.rows[i].host) = {i}
        /\ \A e \in db.meta :
              e.id = i /\ e.name = "pid" => e.value = db.rows[i].host
        /\ db.rows[i].refresh = "failed" =>
              /\ \E e \in db.meta : e.id \in {i, NoId} /\ e.name = "errors"
              /\ db.rows[i].host = n => db.errors > 0

Handed(n, r) ==
    \E m \in ToSet(inbox[n]) :
        m.type = "REFRESH" /\ m.nr = r /\ m.to = space[n]

Nameless == \E h \in Hosts : space[h] = NoSpace

Serves(n, r) == r \in DOMAIN asked /\ front[n] >= asked[r].doc.ver

(* A REFRESH that the broker hands to a node in its namespace is loaded,   *)
(* unless the connection is dropped or the frame damaged before it is      *)
(* read, its download fails, or the document does not parse.  The          *)
(* connection is also lost when the worker dies, which it does only when a *)
(* message without a header is among those it was handed.                  *)
PushReaches ==
    \A n \in Nodes, r \in 1 .. MaxRefresh :
        Handed(n, r) ~> \/ Serves(n, r)
                        \/ link[n] = "down" /\ (pc[n] = "dead" => Nameless)
                        \/ r \in missed[n]
                        \/ fellBack[n] \/ ~local[n].ok
=============================================================================
