----------------------------- MODULE ListFiles ------------------------------
(***************************************************************************)
(* The list of a longFile or stringFile switch, from the repository to the *)
(* answer of a lookup: cc_getRemoteResourcePath requests the file through  *)
(* HttpClient, writes what came to a .part file and renames it;            *)
(* switchconf_buildFromFile reads the local copy line by line and pushes   *)
(* one value a line on an array of SwitchArrays, which is put in order and *)
(* searched.  The array of a csv switch is built from the document instead *)
(* and shares everything after that.                                       *)
(*                                                                         *)
(* apr_file_gets reads 127 bytes at most, so a longer line is read as two; *)
(* apr_strtok passes over a # at the beginning of a line, so a line of     *)
(* comment is read as a value (what atol makes of it, or its text).  A     *)
(* line is the values that are read from it and those written there.       *)
(***************************************************************************)
EXTENDS SwitchArrays, HttpClient

CONSTANTS
    Line,       \* the lines files are made of
    NoFile      \* no local copy

ASSUME LineAssumption ==
    Line \subseteq [read : Seq(Value), written : SUBSET Value] /\ Zero \notin Line

VARIABLES
    resource, \* the file in the repository
    copy,     \* the local copy
    stage,    \* "request", "open" or "lines"
    opened,   \* the file switchconf_buildFromFile reads
    line,     \* the line of it that is read next, and
    place     \* the value in that line

\* History: the local copy could not be replaced by what was received.
VARIABLE unwritten

files == <<resource, copy, stage, opened, line, place, unwritten>>
listVars == <<vars, http, files>>

\* A csv switch sends no request.  Functions other than http_request_get_verbose
\* have other callers, or none, and what they return is not a list.
ListInit ==
    /\ Init
    /\ resource \in UNION {[1 .. n -> Line] : n \in 0 .. MaxPieces}
    /\ copy \in {NoFile} \cup {<<l>> : l \in Line}
    /\ HttpInit(DOMAIN Function)
    /\ stage = IF source = "csv" THEN "lines" ELSE "request"
    /\ source = "csv" \/ fn # "GET" => copy = NoFile
    /\ source = "csv" => fn = "GET" /\ resource = <<>>
    /\ source = "strings" => fn = "GET"
    /\ opened = NoFile /\ line = 1 /\ place = 1
    /\ unwritten = FALSE

-----------------------------------------------------------------------------
\* The server sends the file, a cell for a line, in pieces of any number of
\* lines, and may stop in the middle of one: what came of that line is another.
Transfer ==
    /\ stage = "request"
    /\ \/ StatusLine \/ HeaderLine \/ http_put_callback \/ Fail
       \/ /\ sentBody = SubSeq(resource, 1, Len(sentBody))
          /\ \E n \in Len(sentBody) .. Len(resource) :
                \/ BodyPiece(SubSeq(resource, Len(sentBody) + 1, n))
                \/ /\ n < Len(resource)
                   /\ \E l \in Line :
                         BodyPiece(Append(SubSeq(resource, Len(sentBody) + 1, n), l))
       \/ sentBody = resource /\ Succeed
    /\ UNCHANGED <<vars, files>>

\* Mutant: the local copy is not replaced.
KeepAnswer_Not ==
    /\ stage = "request" /\ fn = "GET" /\ transfer = "returned"
    /\ stage' = "open"
    /\ UNCHANGED <<vars, http, resource, copy, opened, line, place, unwritten>>

\* cc_getRemoteResourcePath: errorMsg is not looked at.  The .part file may not
\* be written or not be renamed.
KeepAnswer ==
    /\ stage = "request" /\ fn = "GET" /\ transfer = "returned"
    /\ IF http_is200_OK /\ size > 0
       THEN \/ copy' = [k \in 1 .. size |-> data[k]] /\ UNCHANGED unwritten
            \/ unwritten' = TRUE /\ UNCHANGED copy
       ELSE UNCHANGED <<copy, unwritten>>
    /\ stage' = "open"
    /\ UNCHANGED <<vars, http, resource, opened, line, place>>

\* cc_getLocalResourcePath is the same path.  A file that cannot be opened makes
\* a NULL array, in which nothing is found, as in an empty one.
OpenFile ==
    /\ stage = "open"
    /\ opened' = copy
    /\ stage' = "lines"
    /\ UNCHANGED <<vars, http, resource, copy, line, place, unwritten>>

AtEnd == opened # NoFile => line > Len(opened)

\* switchconf_insertLong or ..String with a value of the line.
ReadValue ==
    /\ stage = "lines" /\ ~AtEnd
    /\ place <= Len(opened[line].read)
    /\ TakeToken
    /\ nelts' = nelts + 1 /\ elts'[nelts] = opened[line].read[place]
    /\ place' = place + 1
    /\ UNCHANGED <<http, resource, copy, stage, opened, line, unwritten>>

\* Mutant: the line after is not read.
NextLine_Two ==
    /\ stage = "lines" /\ ~AtEnd
    /\ place > Len(opened[line].read)
    /\ line' = line + 2 /\ place' = 1
    /\ UNCHANGED <<vars, http, resource, copy, stage, opened, unwritten>>

\* The end of a line, the first thing read of one without a value.
NextLine ==
    /\ stage = "lines" /\ ~AtEnd
    /\ place > Len(opened[line].read)
    /\ line' = line + 1 /\ place' = 1
    /\ UNCHANGED <<vars, http, resource, copy, stage, opened, unwritten>>

\* The values of a csv switch, and everything after reading.
ArrayStep ==
    /\ stage = "lines" /\ AtEnd
    /\ \/ source = "csv" /\ TakeToken
       \/ EndOfTokens \/ Compare \/ NextPlace \/ Ask \/ Probe \/ GiveUp
    /\ UNCHANGED <<http, files>>

ListNext ==
    Transfer \/ KeepAnswer \/ OpenFile \/ ReadValue \/ NextLine \/ ArrayStep

ListSpec == ListInit /\ [][ListNext]_listVars

-----------------------------------------------------------------------------
(* The block a caller is given holds what the server sent, in order and as *)
(* far as it came, and one zero behind it, and its size is that of what    *)
(* came, however the body is cut into pieces (http_memory_callback); an    *)
(* upload never hands over more bytes than there are (http_put_callback).  *)
BodyAsSent ==
    /\ Function[fn].body =>
          /\ size = Len(sentBody)
          /\ data = Append(sentBody, Zero) \/ (data = <<>> /\ sentBody = <<>>)
    /\ cursor <= UploadSize

(* The list that is searched is the repository's, unless the status was    *)
(* not 200, the answer broke off and the client said so (but               *)
(* cc_getRemoteResourcePath does not listen: the list is then the part     *)
(* that came), the file could not be written, or the repository's list is  *)
(* empty (the old one is then kept).                                       *)
ListFromRepository ==
    stage = "lines" /\ source # "csv" /\ opened # resource =>
        responseCode # 200 \/ (~complete /\ error) \/ unwritten \/ resource = <<>>

Plain(l) == {l.read[k] : k \in DOMAIN l.read} = l.written

(* A lookup finds every value written on a line of its own, and nothing    *)
(* that was not written, except what a line of comment or a line longer    *)
(* than the buffer of switchconf_buildFromFile is read as.                 *)
AnswersAsListed ==
    pc = "ready" /\ answer # "none" /\ opened # NoFile =>
        LET lines == {opened[k] : k \in DOMAIN opened}
            plain == UNION {l.written : l \in {m \in lines : Plain(m)}}
            odd == UNION {{l.read[k] : k \in DOMAIN l.read} :
                            l \in {m \in lines : ~Plain(m)}}
        IN  /\ x \in plain => answer = "yes"
            /\ answer = "yes" => x \in plain \cup odd
=============================================================================
