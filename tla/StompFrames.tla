---------------------------- MODULE StompFrames -----------------------------
(***************************************************************************)
(* The client side of a STOMP connection, byte by byte: stomp_read_buffer  *)
(* takes one byte at a time off the socket into a list of blocks until a   *)
(* NUL and the newline after it, and stomp_write_buffer sends a frame in   *)
(* as many pieces as the socket takes.  A read that times out in the       *)
(* middle of a frame throws away what it has read and leaves the rest on   *)
(* the socket, where the next read begins; a write that fails for any      *)
(* reason closes the connection.                                           *)
(*                                                                         *)
(* Abstractions: a byte is the pair of its frame and its place in it; the  *)
(* frames of the broker hold one to MaxText bytes of text, of which the    *)
(* first stands for the line of the command, MESSAGE, and the second for   *)
(* the headers with the empty line after them.                             *)
(***************************************************************************)
EXTENDS Integers, FiniteSets, SequencesExt

CONSTANTS
    BlockSize,     \* bytes in a data_block_list
    MaxFrames,     \* bound: frames the broker sends
    MaxText,       \* bound: bytes of text in a frame of the broker
    MaxStalls,     \* bound: reads that time out in the middle of a frame
    MaxConnects,   \* bound: connections made
    OutLength,     \* bytes of a frame of the client
    MaxOut,        \* bound: frames the client sends on a connection
    NewlineChoices \* whether the broker ends a frame with a newline

ASSUME SizeAssumption ==
    /\ BlockSize \in Nat \ {0} /\ OutLength \in Nat \ {0}
    /\ MaxFrames \in Nat /\ MaxText \in Nat /\ MaxStalls \in Nat
    /\ MaxConnects \in Nat \ {0} /\ MaxOut \in Nat
    /\ NewlineChoices \subseteq BOOLEAN

Byte == Nat \X (Nat \cup {-1})
Text(k, n) == [j \in 1 .. n |-> <<k, j>>]
Nul(k) == <<k, 0>>
Newline(k) == <<k, -1>>
IsNul(b) == b[2] = 0
IsNewline(b) == b[2] = -1

VARIABLES
    sent,      \* the lengths of the frames the broker has sent
    wire,      \* bytes on their way to the client
    peer,      \* the broker's end: "open", "closed" or "reset", or "none" for
               \* a socket that was never connected
    socket,    \* connection->socket is not NULL
    pc,        \* what the client does: "idle", "text", "newline", "write"
    blocks,    \* the block list of stomp_read_buffer
    got,       \* the buffers stomp_read_buffer has returned
    left,      \* bytes of the frame being written that are not sent yet
    out        \* bytes the broker received on this connection, numbered
               \* from 1 to OutLength in every frame

\* History variables and bounds.
VARIABLES
    cut,       \* frames cut short by a read that timed out, or sent
               \* without a newline
    lost,      \* frames some bytes of which went down with a connection
    stalls, connects

reading == <<blocks, got>>
writing == <<left, out>>
history == <<cut, lost, stalls, connects>>
vars == <<sent, wire, peer, socket, pc, reading, writing, history>>

FramesOf(s) == {b[1] : b \in ToSet(s)}
Flat == FlattenSeq(blocks)

Init ==
    /\ sent = <<>> /\ wire = <<>>
    /\ peer = "open" /\ socket = TRUE /\ pc = "idle"
    /\ blocks = <<>> /\ got = <<>>
    /\ left = 0 /\ out = <<>>
    /\ cut = {} /\ lost = {}
    /\ stalls = 0 /\ connects = 1

-----------------------------------------------------------------------------
(* The broker and the network.                                             *)
BrokerSends ==
    /\ peer = "open" /\ socket
    /\ Len(sent) < MaxFrames
    /\ \E n \in 1 .. MaxText, ended \in NewlineChoices :
          LET k == Len(sent) + 1 IN
          /\ sent' = Append(sent, n)
          /\ wire' = wire \o Append(Text(k, n), Nul(k))
                          \o (IF ended THEN <<Newline(k)>> ELSE <<>>)
          /\ cut' = IF ended THEN cut ELSE cut \cup {k}
    /\ UNCHANGED <<peer, socket, pc, reading, writing, lost, stalls, connects>>

\* What is on its way still arrives.
PeerCloses ==
    /\ peer = "open" /\ socket
    /\ peer' = "closed"
    /\ UNCHANGED <<sent, wire, socket, pc, reading, writing, history>>

\* What is on its way is discarded.
PeerResets ==
    /\ peer = "open" /\ socket
    /\ peer' = "reset"
    /\ wire' = <<>>
    /\ lost' = lost \cup FramesOf(wire)
    /\ UNCHANGED <<sent, socket, pc, reading, writing, cut, stalls, connects>>

-----------------------------------------------------------------------------
(* stomp_read_buffer.                                                      *)
BeginRead ==
    /\ pc = "idle" /\ socket
    /\ blocks' = << <<>> >>
    /\ pc' = "text"
    /\ UNCHANGED <<sent, wire, peer, socket, got, writing, history>>

\* Mutant: the block is found full one byte too late.
Stored_Late(b) ==
    LET tail == Append(Last(blocks), b)
        list == Append(Front(blocks), tail)
    IN IF ~IsNul(b) /\ Len(tail) > BlockSize THEN Append(list, <<>>) ELSE list

\* A full block gets a successor, unless its last byte ends the text.
Stored(b) ==
    LET tail == Append(Last(blocks), b)
        list == Append(Front(blocks), tail)
    IN IF ~IsNul(b) /\ Len(tail) >= BlockSize THEN Append(list, <<>>) ELSE list

RecvByte ==
    /\ pc = "text" /\ wire # <<>>
    /\ blocks' = Stored(Head(wire))
    /\ wire' = Tail(wire)
    /\ pc' = IF IsNul(Head(wire)) THEN "newline" ELSE "text"
    /\ UNCHANGED <<sent, peer, socket, got, writing, history>>

\* The copy takes at most BlockSize bytes from each block.
Copied == FlattenSeq([i \in DOMAIN blocks |->
              SubSeq(blocks[i], 1, Min({BlockSize, Len(blocks[i])}))])

\* stomp_read: a buffer is a MESSAGE if its first line says so, and there is an
\* empty line at the end of its headers; whatever else it is, the caller reads
\* it as no message.
IsMessage(buffer) ==
    /\ Head(buffer)[2] = 1
    /\ \E i \in DOMAIN buffer : buffer[i][2] = 2

\* Mutant: the newline is looked at, not taken.
RecvNewline_Peeks ==
    /\ pc = "newline" /\ wire # <<>>
    /\ IsNewline(Head(wire))
    /\ got' = Append(got, Copied)
    /\ blocks' = <<>>
    /\ pc' = "idle"
    /\ UNCHANGED <<sent, wire, peer, socket, writing, history>>

RecvNewline ==
    /\ pc = "newline" /\ wire # <<>>
    /\ IsNewline(Head(wire))
    /\ wire' = Tail(wire)
    /\ got' = Append(got, Copied)
    /\ blocks' = <<>>
    /\ pc' = "idle"
    /\ UNCHANGED <<sent, peer, socket, writing, history>>

\* Any other byte is consumed with the frame: APR_EGENERAL.
RecvOther ==
    /\ pc = "newline" /\ wire # <<>>
    /\ ~IsNewline(Head(wire))
    /\ wire' = Tail(wire)
    /\ blocks' = <<>>
    /\ pc' = "idle"
    /\ UNCHANGED <<sent, peer, socket, got, writing, history>>

\* APR_TIMEUP before the first byte of a frame.
RecvQuiet ==
    /\ pc = "text" /\ Flat = <<>>
    /\ wire = <<>> /\ peer = "open"
    /\ blocks' = <<>>
    /\ pc' = "idle"
    /\ UNCHANGED <<sent, wire, peer, socket, got, writing, history>>

\* APR_TIMEUP in the middle, with more on its way, or at the newline of a
\* frame that was sent without one: the bytes read so far are gone.
RecvStall ==
    /\ pc \in {"text", "newline"} /\ Flat # <<>>
    /\ IF wire = <<>>
         THEN peer = "open" /\ UNCHANGED stalls
         ELSE stalls < MaxStalls /\ stalls' = stalls + 1
    /\ cut' = cut \cup FramesOf(Flat)
    /\ blocks' = <<>>
    /\ pc' = "idle"
    /\ UNCHANGED <<sent, wire, peer, socket, got, writing, lost, connects>>

\* Mutant: the end of the stream is one more error to read again after.
RecvEof_Ignored ==
    /\ pc \in {"text", "newline"}
    /\ wire = <<>> /\ peer = "closed"
    /\ UNCHANGED vars

(* The broker closed its end: stomp_disconnect.                            *)
RecvEof ==
    /\ pc \in {"text", "newline"}
    /\ wire = <<>> /\ peer = "closed"
    /\ socket' = FALSE
    /\ blocks' = <<>>
    /\ pc' = "idle"
    /\ lost' = lost \cup FramesOf(Flat)
    /\ UNCHANGED <<sent, wire, peer, got, writing, cut, stalls, connects>>

(* Any other error of a connection is reported once, then the stream is at *)
(* its end.  In the text the loop reads again; after the NUL the newline   *)
(* that was not read is compared all the same.  A socket that was never    *)
(* connected answers every read with an error, and the loop reads on: it   *)
(* takes no step that changes anything.                                    *)
RecvError ==
    /\ pc \in {"text", "newline"}
    /\ peer = "reset"
    /\ peer' = "closed"
    /\ IF pc = "text"
         THEN UNCHANGED <<pc, blocks, got, lost>>
         ELSE /\ got' \in {got, Append(got, Copied)}
              /\ lost' = lost \cup FramesOf(Flat)
              /\ blocks' = <<>>
              /\ pc' = "idle"
    /\ UNCHANGED <<sent, wire, socket, writing, cut, stalls, connects>>

-----------------------------------------------------------------------------
(* stomp_write_buffer: the frame is sent in pieces.                        *)
BeginWrite ==
    /\ pc = "idle" /\ socket
    /\ Len(out) < MaxOut * OutLength
    /\ left' = OutLength
    /\ pc' = "write"
    /\ UNCHANGED <<sent, wire, peer, socket, reading, out, history>>

\* The system may still take bytes for a broker that is gone.
SendSome ==
    /\ pc = "write" /\ peer # "none"
    /\ \E n \in 1 .. left :
          /\ out' = IF peer = "open"
                      THEN out \o [i \in 1 .. n |-> OutLength - left + i]
                      ELSE out
          /\ left' = left - n
          /\ pc' = IF n = left THEN "idle" ELSE "write"
    /\ UNCHANGED <<sent, wire, peer, socket, reading, history>>

\* Mutant: a send that times out is given up like a read that does.
SendFails_Keeps ==
    /\ pc = "write"
    /\ left' = 0
    /\ pc' = "idle"
    /\ UNCHANGED <<sent, wire, peer, socket, reading, out, history>>

(* An error, a timeout included: stomp_disconnect.                         *)
SendFails ==
    /\ pc = "write"
    /\ socket' = FALSE
    /\ left' = 0
    /\ pc' = "idle"
    /\ UNCHANGED <<sent, wire, peer, reading, out, history>>

(* stomp_connect, on a connection that is not valid.  An error before      *)
(* apr_socket_connect leaves a socket that is not connected, one after it  *)
(* a socket that is: both count as valid from here on.                     *)
Connect ==
    /\ pc = "idle" /\ ~socket
    /\ connects < MaxConnects
    /\ connects' = connects + 1
    /\ socket' = TRUE /\ peer' \in {"open", "none"}
    /\ lost' = lost \cup FramesOf(wire)
    /\ wire' = <<>> /\ out' = <<>>
    /\ UNCHANGED <<sent, pc, reading, left, cut, stalls>>

Broker == BrokerSends \/ PeerCloses \/ PeerResets
Read == RecvByte \/ RecvNewline \/ RecvOther \/ RecvQuiet \/ RecvStall
            \/ RecvEof \/ RecvError
Write == SendSome \/ SendFails

Next == Broker \/ BeginRead \/ Read \/ BeginWrite \/ Write \/ Connect

Spec == Init /\ [][Next]_vars
(* The process runs, and a socket with a timeout always answers.           *)
FairSpec == Spec /\ WF_vars(Read) /\ WF_vars(Write)

-----------------------------------------------------------------------------
(* Properties.                                                             *)
TypeOK ==
    /\ sent \in Seq(1 .. MaxText) /\ wire \in Seq(Byte)
    /\ peer \in {"open", "closed", "reset", "none"}
    /\ socket \in BOOLEAN
    /\ pc \in {"idle", "text", "newline", "write"}
    /\ blocks \in Seq(Seq(Byte)) /\ got \in Seq(Seq(Byte))
    /\ \A i \in DOMAIN blocks : Len(blocks[i]) <= BlockSize
    /\ left \in 0 .. OutLength /\ out \in Seq(1 .. OutLength)
    /\ cut \subseteq Nat /\ lost \subseteq Nat
    /\ stalls \in 0 .. MaxStalls /\ connects \in 1 .. MaxConnects

Whole(k) == Append(Text(k, sent[k]), Nul(k))
Damaged == cut \cup {k + 1 : k \in cut}

(* A buffer is the text of one frame, whole and in the order sent, even    *)
(* when it spans blocks and arrives around other frames that are cut: one  *)
(* cut damages the frame itself and at most the frame after it, which the  *)
(* bytes left behind are taken for the beginning of.  What a damaged frame *)
(* leaves is never read as a message, so every message is a whole one, and *)
(* messages come in the order they were sent, none of them twice.          *)
DamageContained ==
    \A i \in DOMAIN got :
        /\ \A k \in FramesOf(got[i]) : k \in Damaged \/ got[i] = Whole(k)
        /\ IsMessage(got[i]) =>
              /\ got[i] = Whole(Head(got[i])[1])
              /\ \A j \in 1 .. i - 1 : Head(got[j])[1] < Head(got[i])[1]

Pending == FramesOf(wire) \cup FramesOf(Flat)

(* No frame is skipped: one that is not on its way any more was returned   *)
(* whole, or it is one of those that a cut damages or a connection took    *)
(* down with it.                                                           *)
NothingSkipped ==
    \A k \in DOMAIN sent :
        k \in Pending \cup Damaged \cup lost
            \/ \E i \in DOMAIN got : got[i] = Whole(k)

(* The broker sees whole frames, one after the other: after a piece of a   *)
(* frame comes the next piece of it, or nothing more on that connection.   *)
OutInStep ==
    \A i \in DOMAIN out : out[i] = ((i - 1) % OutLength) + 1

(* A read that has begun on a connection that has failed does not go on    *)
(* forever: the error or the end of the stream brings it back.  A socket   *)
(* that was never connected is left out: it never comes to an end.         *)
ReadReturns == pc = "text" /\ peer \in {"closed", "reset"} ~> pc = "idle"
=============================================================================
