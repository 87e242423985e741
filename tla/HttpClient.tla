----------------------------- MODULE HttpClient -----------------------------
(***************************************************************************)
(* http-utils/http_client.c: one request through libcurl, from the call to *)
(* what the caller is given.  libcurl hands over the header lines and the  *)
(* body piece by piece, takes an upload buffer by buffer, and ends with a  *)
(* CURLcode; the function then returns the answer (NULL only if there was  *)
(* no status line) and, if it looks at the CURLcode at all, an error text. *)
(*                                                                         *)
(* Abstractions: a byte of the body is a cell, which holds whatever the    *)
(* caller makes of it; the options that change nothing of this (user       *)
(* agent, SSL, passwords) are left out; the header lines are the names in  *)
(* HeaderName.                                                             *)
(***************************************************************************)
EXTENDS Integers, Sequences

CONSTANTS
    Zero,       \* the cell apr_pcalloc fills a block with
    MaxPieces,  \* bound: cells of a body, header lines of an answer
    UploadSize, \* bytes a PUT sends
    BufferSize  \* bytes of curl's upload buffer

ASSUME HttpBoundAssumption ==
    MaxPieces \in Nat /\ UploadSize \in Nat /\ BufferSize \in Nat \ {0}

\* What a function asks of curl and makes of its CURLcode: body, the pieces
\* are kept; headers, when the header lines are; upload, the data is pulled by
\* http_put_callback; errors, the CURLcodes told to the caller.
Unlooked == {}
Partial == "CURLE_PARTIAL_FILE"
Failures == {Partial, "CURLE_OPERATION_TIMEDOUT", "CURLE_COULDNT_CONNECT"}

http_request_head_verbose ==
    [body |-> TRUE, headers |-> FALSE, upload |-> FALSE, errors |-> Failures \ {Partial}]
http_request_head_verbose2 ==
    [body |-> FALSE, headers |-> TRUE, upload |-> FALSE, errors |-> Failures \ {Partial}]
http_request_get_verbose ==
    [body |-> TRUE, headers |-> FALSE, upload |-> FALSE, errors |-> Failures]
\* With headers_in; the connect timeout is the caller's.
http_request_get_verbose2 ==
    [body |-> TRUE, headers |-> TRUE, upload |-> FALSE, errors |-> Failures]
http_request_get ==
    [http_request_get_verbose EXCEPT !.errors = Unlooked]
http_request_post_verbose ==
    [body |-> TRUE, headers |-> TRUE, upload |-> FALSE, errors |-> Failures]
http_request_put_verbose2 ==
    [body |-> TRUE, headers |-> TRUE, upload |-> TRUE, errors |-> Unlooked]
http_request_put_verbose ==
    [body |-> TRUE, headers |-> FALSE, upload |-> TRUE, errors |-> Unlooked]
http_request_delete_verbose ==
    [body |-> TRUE, headers |-> FALSE, upload |-> FALSE, errors |-> Unlooked]
http_request_delete_verbose2 ==
    [body |-> TRUE, headers |-> TRUE, upload |-> FALSE, errors |-> Failures]
http_request_method ==
    [body |-> TRUE, headers |-> TRUE, upload |-> FALSE, errors |-> Unlooked]

Function ==
    [HEAD |-> http_request_head_verbose, HEAD2 |-> http_request_head_verbose2,
     GET |-> http_request_get_verbose, GET2 |-> http_request_get_verbose2,
     GET0 |-> http_request_get, POST |-> http_request_post_verbose,
     PUT |-> http_request_put_verbose, PUT2 |-> http_request_put_verbose2,
     DELETE |-> http_request_delete_verbose, DELETE2 |-> http_request_delete_verbose2,
     METHOD |-> http_request_method]

VARIABLES
    fn,           \* the function called
    transfer,     \* "running", or how it ended: "returned" or "crashed"
    responseCode, \* 0 before a status line has come
    data,         \* the cells of the block ret->data, <<>> for NULL
    size,         \* ret->size
    headers_out,  \* the names in ret->headers_out
    cursor,       \* bytes of the upload handed to curl
    error         \* *error is set

\* History: what the server has sent of the body, and whether that was all.
VARIABLES sentBody, complete

http == <<fn, transfer, responseCode, data, size, headers_out, cursor, error,
          sentBody, complete>>

HttpInit(functions) ==
    /\ fn \in functions
    /\ transfer = "running"
    /\ responseCode = 0
    /\ data = <<>> /\ size = 0
    /\ headers_out = {}
    /\ cursor = 0
    /\ error = FALSE
    /\ sentBody = <<>> /\ complete = FALSE

-----------------------------------------------------------------------------
StatusLine ==
    /\ transfer = "running" /\ responseCode = 0
    /\ responseCode' \in {200, 404}
    /\ UNCHANGED <<fn, transfer, data, size, headers_out, cursor, error, sentBody, complete>>

\* The names that keep their own name; http_bind_headers_out writes X-P- before
\* every other, and before Transfer-Encoding when its value is "chunked".
Kept == {"location", "set-cookie"}
HeaderName == Kept \cup {"date"}

HeaderLine ==
    /\ transfer = "running" /\ responseCode # 0 /\ sentBody = <<>>
    /\ Function[fn].headers
    /\ \E name \in HeaderName :
          headers_out' = headers_out \cup
              {IF name \in Kept THEN <<name>> ELSE <<"X-P-", name>>}
    /\ UNCHANGED <<fn, transfer, responseCode, data, size, cursor, error, sentBody, complete>>

apr_pcalloc(n) == [k \in 1 .. n |-> Zero]

\* n cells of src are written behind the first cells of dst.
memcpy(dst, first, src, n) ==
    [k \in DOMAIN dst |-> IF k - first \in 1 .. n THEN src[k - first] ELSE dst[k]]

\* Mutant: the size is that of the last piece.
http_memory_callback_Last(ptr, realsize) ==
    /\ size' = realsize
    /\ IF size <= 0
       THEN data' = memcpy(apr_pcalloc(realsize + 1), 0, ptr, realsize)
       ELSE data' = memcpy(memcpy(apr_pcalloc(size + realsize + 1), 0, data, size),
                           size, ptr, realsize)

\* A larger block every time, with a cell more than the body so far.
http_memory_callback(ptr, realsize) ==
    IF size <= 0
    THEN /\ size' = realsize
         /\ data' = memcpy(apr_pcalloc(realsize + 1), 0, ptr, realsize)
    ELSE /\ data' = memcpy(memcpy(apr_pcalloc(size + realsize + 1), 0, data, size),
                           size, ptr, realsize)
         /\ size' = size + realsize

\* A piece of any size, of none too.
BodyPiece(piece) ==
    /\ transfer = "running" /\ responseCode # 0
    /\ Len(sentBody) + Len(piece) <= MaxPieces
    /\ sentBody' = sentBody \o piece
    /\ IF Function[fn].body THEN http_memory_callback(piece, Len(piece))
       ELSE UNCHANGED <<data, size>>
    /\ UNCHANGED <<fn, transfer, responseCode, headers_out, cursor, error, complete>>

Lesser(a, b) == IF a < b THEN a ELSE b

http_put_callback ==
    /\ transfer = "running" /\ responseCode = 0
    /\ Function[fn].upload /\ cursor < UploadSize
    /\ cursor' = cursor + Lesser(BufferSize, UploadSize - cursor)
    /\ UNCHANGED <<fn, transfer, responseCode, data, size, headers_out, error, sentBody, complete>>

\* http_request_method measures ret->data, which is NULL without a body.
Returns == IF fn = "METHOD" /\ data = <<>> THEN "crashed" ELSE "returned"

Succeed ==
    /\ transfer = "running" /\ responseCode # 0
    /\ complete' = TRUE
    /\ transfer' = Returns
    /\ UNCHANGED <<fn, responseCode, data, size, headers_out, cursor, error, sentBody>>

\* The server is not reached, falls silent or closes the connection.
Fail ==
    /\ transfer = "running"
    /\ \E res \in Failures :
          /\ (res = "CURLE_COULDNT_CONNECT") => responseCode = 0
          /\ (res = Partial) => responseCode # 0
          /\ error' = (res \in Function[fn].errors)
    /\ transfer' = Returns
    /\ UNCHANGED <<fn, responseCode, data, size, headers_out, cursor, sentBody, complete>>

-----------------------------------------------------------------------------
http_is200_OK == transfer = "returned" /\ responseCode = 200

=============================================================================
