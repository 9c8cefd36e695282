----------------------------- MODULE HttpTransfer -----------------------------
(***************************************************************************)
(* What HttpGetSocket, HttpPutSocket and HttpDebugSocket do with the data  *)
(* of one http exchange.  "get" stores a response in a file, in a buffer   *)
(* it allocates or in one it was given; "put" announces and sends a file,  *)
(* and has a response of its own; "debug" is a server that echoes the      *)
(* request as a page.  A body is the sequence of its byte numbers; the     *)
(* bytes reach OnData as HTTPSocket::OnRawData passes them on.             *)
(***************************************************************************)
EXTENDS Naturals, Sequences, SequencesExt

CONSTANTS Lengths,      \* Content-length headers, 0 for none
          MaxBody,      \* bound: bytes of a body
          Given         \* the size of a buffer passed to SetDataPtr

VARIABLES class, dest,  \* "get", "put", "debug"; "file", "own", "given"
          phase,        \* "new", "opened", "header", "body", "deleted"
          file,         \* put: the bytes in the file now
          announced, sent,  \* put: the Content-length sent, the bytes sent after it
          changed,      \* the file changed after SetFile
          length,       \* m_content_length
          chunked, size,    \* m_data_size
          arrived,      \* the bytes of the body received (m_content_ptr, m_read_ptr)
          stored,       \* the bytes in the file or the buffer
          fil,          \* m_fil is open
          contents,     \* calls of OnContent: the number of bytes arrived at each
          echo,         \* debug: the bytes and trailers of the page
          closing
put == <<file, announced, sent, changed>>
store == <<size, stored, fil>>
vars == <<class, dest, phase, put, length, chunked, store, arrived, contents, echo, closing>>

Bytes(a, n) == [i \in 1 .. n |-> a + i]

Init ==
    /\ class \in {"get", "put", "debug"} /\ dest \in {"file", "own", "given"}
    /\ phase = "new" /\ file \in 0 .. MaxBody /\ announced = 0 /\ sent = 0 /\ changed = FALSE
    /\ length = 0 /\ chunked = FALSE /\ size = (IF dest = "given" THEN Given ELSE 0)
    /\ arrived = 0 /\ stored = <<>> /\ fil = FALSE /\ contents = <<>> /\ echo = <<>> /\ closing = FALSE

-----------------------------------------------------------------------------
\* HttpPutSocket::SetFile takes the length; HttpGetSocket opens in its
\* constructor, and gives up when connect() fails at once.
SetFile ==
    /\ class = "put" /\ phase = "new" /\ ~closing
    /\ \/ announced' = file /\ phase' = "opened" /\ UNCHANGED closing
       \/ closing' = TRUE /\ UNCHANGED <<announced, phase>>       \* stat fails
    /\ UNCHANGED <<class, dest, file, sent, changed, length, chunked, store, arrived, contents, echo>>
Open ==
    /\ class = "get" /\ phase = "new" /\ ~closing
    /\ \/ phase' = "opened" /\ UNCHANGED closing
       \/ closing' = TRUE /\ UNCHANGED phase
    /\ UNCHANGED <<class, dest, put, length, chunked, store, arrived, contents, echo>>
\* Anything may write to the file until it is read.
FileChanges ==
    /\ class = "put" /\ phase = "opened" /\ ~changed
    /\ file' \in 0 .. MaxBody \ {file} /\ changed' = TRUE
    /\ UNCHANGED <<class, dest, phase, announced, sent, length, chunked, store, arrived, contents, echo, closing>>

\* OnConnect: the request, and for a put the file as it is now.
GetConnect ==
    /\ class = "get" /\ phase = "opened" /\ ~closing /\ phase' = "header"
    /\ UNCHANGED <<class, dest, put, length, chunked, store, arrived, contents, echo, closing>>
PutConnect ==
    /\ class = "put" /\ phase = "opened" /\ ~closing /\ phase' = "header" /\ sent' = file
    /\ UNCHANGED <<class, dest, file, announced, changed, length, chunked, store, arrived, contents, echo, closing>>
Accept ==
    /\ class = "debug" /\ phase = "new" /\ phase' = "header"
    /\ UNCHANGED <<class, dest, put, length, chunked, store, arrived, contents, echo, closing>>

-----------------------------------------------------------------------------
\* The page of HttpDebugSocket, with the trailer that closes it.
Trailer == 0
Page == [text |-> echo, closing |-> closing]
Ended(p) == [text |-> Append(p.text, Trailer), closing |-> TRUE]
OnDataCompleteTwice(p) == Ended(p)
OnDataComplete(p) == IF p.closing THEN p ELSE Ended(p)
Show(p) == echo' = p.text /\ closing' = p.closing

\* OnFirst, OnHeader and OnHeaderComplete of a response.
ClientHeader(n) ==
    /\ class # "debug" /\ phase = "header" /\ ~closing /\ phase' = "body" /\ length' = n
    /\ fil' = (dest = "file")
    /\ size' = IF dest = "own" /\ n # 0 THEN n ELSE size
    /\ closing' \in BOOLEAN                                       \* not a response
    /\ UNCHANGED <<class, dest, put, chunked, stored, arrived, contents, echo>>
\* HttpDebugSocket, and OnDataComplete when HTTPSocket expects no body.  A
\* request has a length or chunks, not both.
DebugHeader(n, chunks) ==
    /\ n = 0 \/ ~chunks
    /\ class = "debug" /\ phase = "header" /\ phase' = "body" /\ length' = n /\ chunked' = chunks
    /\ Show(IF n = 0 /\ ~chunks THEN OnDataComplete(Ended(Page)) ELSE Page)
    /\ UNCHANGED <<class, dest, put, store, arrived, contents>>

\* HttpClientSocket::OnData
OnContent(n) == contents' = Append(contents, n)
StoreOver(buf) == stored \o buf
Store(buf) == IF fil \/ (dest # "file" /\ size # 0 /\ arrived + Len(buf) <= size)
              THEN stored \o buf ELSE stored
ClientData(k) ==
    LET n == arrived + k IN
    /\ class # "debug" /\ phase = "body" /\ n <= MaxBody
    /\ stored' = Store(Bytes(arrived, k)) /\ arrived' = n
    /\ IF n = length /\ length # 0
       THEN /\ OnContent(n) /\ fil' = FALSE /\ closing' \in {closing, TRUE}   \* SetCloseOnComplete
       ELSE UNCHANGED <<contents, fil, closing>>
    /\ UNCHANGED <<class, dest, phase, put, length, chunked, size, echo>>

\* HttpDebugSocket::OnData, then OnDataComplete when the body is at its end.
DebugData(k) ==
    LET n == arrived + k IN
    /\ class = "debug" /\ phase = "body" /\ ~closing /\ n <= MaxBody
    /\ arrived' = n
    /\ LET p == [Page EXCEPT !.text = @ \o Bytes(arrived, k)]
           q == IF n >= length /\ length # 0 THEN Ended(p) ELSE p
       IN Show(IF n = length /\ ~chunked THEN OnDataComplete(q) ELSE q)
    /\ UNCHANGED <<class, dest, phase, put, length, chunked, store, contents>>
LastChunk ==
    /\ class = "debug" /\ phase = "body" /\ chunked /\ ~closing /\ Show(OnDataComplete(Page))
    /\ UNCHANGED <<class, dest, phase, put, length, chunked, store, arrived, contents>>

\* The connection ends, or the handler deletes the socket; a client that had
\* not completed is told by OnDelete.
OnDeleteAgain ==
    /\ phase # "deleted" /\ (closing \/ phase \in {"header", "body"}) /\ phase' = "deleted"
    /\ IF class # "debug" THEN OnContent(arrived) /\ fil' = FALSE ELSE UNCHANGED <<contents, fil>>
    /\ UNCHANGED <<class, dest, put, length, chunked, size, stored, arrived, echo, closing>>
OnDelete ==
    /\ phase # "deleted" /\ (closing \/ phase \in {"header", "body"}) /\ phase' = "deleted"
    /\ IF class # "debug" /\ contents = <<>> THEN OnContent(arrived) /\ fil' = FALSE
       ELSE UNCHANGED <<contents, fil>>
    /\ UNCHANGED <<class, dest, put, length, chunked, size, stored, arrived, echo, closing>>

Next == \/ SetFile \/ Open \/ FileChanges \/ GetConnect \/ PutConnect \/ Accept \/ LastChunk \/ OnDelete
        \/ \E n \in Lengths : ClientHeader(n) \/ \E c \in BOOLEAN : DebugHeader(n, c)
        \/ \E k \in 1 .. MaxBody : ClientData(k) \/ DebugData(k)
Spec == Init /\ [][Next]_vars

-----------------------------------------------------------------------------
\* What a client has stored fits its buffer and has no gap within the
\* announced length, so that a response that keeps to its Content-length is
\* complete when OnContent is called for its last byte
\* (HttpClientSocket::OnData).
StoredWhole ==
    /\ (dest # "file" /\ class # "debug") => Len(stored) <= size
    /\ (class # "debug" /\ arrived <= length /\ dest # "given") => stored = Bytes(0, arrived)

\* OnContent is called once for an exchange, at the last byte or when the
\* socket is deleted, and then the file is closed (HttpClientSocket::OnData,
\* OnDelete).
ContentOnce ==
    /\ Len(contents) <= 1 /\ (contents # <<>> => ~fil)
    /\ (phase = "deleted" /\ class # "debug") => Len(contents) = 1

\* A put sends what it announced unless the file changed after SetFile
\* (HttpPutSocket::OnConnect).
PutAsAnnounced == (class = "put" /\ phase \in {"header", "body"} /\ ~changed) => sent = announced

\* The page of HttpDebugSocket holds the body as it came and ends with one
\* trailer.
EchoOnce == class = "debug" =>
    /\ SelectSeq(echo, LAMBDA x : x # Trailer) = Bytes(0, arrived)
    /\ \A i \in 1 .. Len(echo) - 1 : echo[i] # Trailer
    /\ closing => echo # <<>> /\ Last(echo) = Trailer
=============================================================================
