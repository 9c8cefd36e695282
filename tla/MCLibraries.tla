----------------------------- MODULE MCLibraries -----------------------------
(***************************************************************************)
(* The libraries the sources carry, part by part: the connection pool of   *)
(* dbiwrapped (ConnectionPool) and the classes of Sockets-2.3.5.           *)
(***************************************************************************)
EXTENDS ConnectionPool, Slots, Integers, Sequences, TLC

CONSTANT None

message(f, hs, b) == [first |-> f, hdrs |-> hs, body |-> b]
Get == message("GET11", <<>>, <<>>)
Post == message("POST11", <<"cl2">>, <<<<"d1", "d2">>>>)
Requests == {
    <<Get, Post, Get>>,
    <<Post, message("POST11", <<"ck", "cl3">>, <<<<"d3", "d4", "d5">>>>)>>,
    <<Post, message("POST10", <<"cl2">>, <<<<"d6", "d7">>>>)>>,
    <<Get, message("POST11", <<"close", "cl1">>, <<<<"d8">>>>)>>,
    <<Get, message("GET10", <<>>, <<>>)>>}
Responses == {
    <<message("RESP", <<"cl3">>, <<<<"d1", "d2", "d3">>>>)>>,
    <<message("RESP", <<"chunked">>, <<<<"d1", "d2">>, <<"d3">>>>)>>}
Answers == {
    [header |-> {"content-length"}, cookies |-> <<>>],
    [header |-> {"h"}, cookies |-> <<<<"x", 1>>, <<"X", 2>>, <<"Cookie", 1>>>>]}
Contents == {
    <<>>, <<"b">>, <<"x", "-", "-">>, <<"x", "-", "-", "x">>,
    <<"r", "n", "-", "-", "x">>, <<"x", "x", "x", "x", "-", "-">>}
ajp(k, n, b) == [kind |-> k, length |-> n, body |-> b]
AjpRequests == {
    <<ajp("request", 0, <<>>), ajp("ping", 0, <<>>), ajp("request", 3, <<<<1>>, <<2, 3>>>>)>>,
    <<ajp("request", 4, <<<<1, 2>>, <<3>>, <<4>>>>), ajp("request", 1, <<<<5>>>>)>>,
    <<ajp("request", 2, <<<<1, 2>>>>), ajp("empty", 0, <<>>)>>,
    <<ajp("bad id", 0, <<>>), ajp("request", 0, <<>>)>>,
    <<ajp("unknown key", 0, <<>>), ajp("request", 0, <<>>)>>,
    <<ajp("request", 1, <<<<1, 2>>>>), ajp("request", 0, <<>>)>>}

\* Character codes: see Codecs.
Alphabets == [base64 |-> {0, 61, 107, 255}, form |-> {97, 61, 38, 37, 52, 43, 32, 233, 60},
              words |-> {97, 59, 32, 61, 98}, address |-> {49, 57, 48, 46}, url |-> {97, 58, 47, 63, 49},
              sql |-> {39, 92, 34, 38, 60, 97, 49}, utf8 |-> {97, 195, 169, 233, 128}]
Begins == [c \in DOMAIN Alphabets |-> IF c = "url" THEN <<104, 116, 116, 112, 58, 47, 47>> ELSE <<>>]
Lengths == [base64 |-> 7, form |-> 4, words |-> 6, address |-> 7, url |-> 6, sql |-> 5, utf8 |-> 5]

Sockets == INSTANCE SocketHandler WITH
    Tcp <- {"a", "b"}, Listen <- {"l"}, Fd <- {1, 2, 3}, FdSetSize <- 2,
    ByOwner <- {"l"}, Reconnecting <- {"a"}, Retry <- 1,
    st <- v1, pc <- v2, todo <- v3
Client == INSTANCE ClientOpen WITH
    Host <- {"h1", "h2"}, Ip <- {1, 2}, Port <- {80, 8080}, Retry <- 2, MaxOpens <- 5,
    dns <- v1, asked <- v2, client <- v3, remote <- v4, m_socket <- v5, open <- v6,
    target <- v7, connecting <- v8, refused <- v9, connected <- v10, retries <- v11,
    reconnect <- v12, closing <- v13, opens <- v14
Locks == INSTANCE SslLocks WITH
    Caller <- {"t1", "t2"}, Lock <- {1, 2}, MaxLocks <- 3,
    twice <- v1, m_mmap_mutex <- v2, m_mmap <- v3, made <- v4, holder <- v5, call <- v6,
    arg <- v7, mine <- v8, owns <- v9, locks <- v10
Ssl == INSTANCE SslNegotiation WITH
    MaxConnections <- 3, MaxOut <- 2,
    t <- v1
Events == INSTANCE EventHandler WITH
    Owner <- {"s", "t"}, SocketOwner <- {"s"}, Addr <- {1, 2, 3}, Delay <- {0, 1},
    MaxTime <- 3, MaxEvents <- 3,
    m_events <- v1, clock <- v2, now <- v3, pc <- v4, e <- v5, owners <- v6,
    m_sockets <- v7, m_unique_id <- v8, fate <- v9, orphan <- v10
Output == INSTANCE TcpOutput WITH
    Capacity <- 2, TransferLimit <- 1, MaxBytes <- 8,
    m_obuf <- v1, m_output_length <- v2, wfds <- v3, connected <- v4, closing <- v5,
    given <- v6, wire <- v7, fired <- v8
Circular == INSTANCE CircularBuffer WITH
    m_max <- 4, MaxBytes <- 9,
    buf <- v1, m_q <- v2, m_b <- v3, m_t <- v4, m_count <- v5, taken <- v6, handed <- v7
Udp == INSTANCE UdpSocket WITH
    MaxPort <- 2, Taken <- {1}, PortRange <- {0, 1}, m_ibufsz <- 1, m_retries <- 1,
    Lengths <- {0, 1, 2}, MaxDatagrams <- 3, MaxCalls <- 3,
    k <- v1, u <- v2, queue <- v3, pc <- v4, q <- v5, got <- v6, arrived <- v7,
    dropped <- v8, asked <- v9, calls <- v10
Disk == INSTANCE DiskFile WITH
    MaxBytes <- 3, MaxOpens <- 2,
    disk <- v1, path <- v2, m_fil <- v3, streams <- v4, pos <- v5, m_rptr <- v6,
    m_wptr <- v7, byte <- v8, opens <- v9, written <- v10, got <- v11, plain <- v12
Memory == INSTANCE MemFile WITH
    BLOCKSIZE <- 2, MaxBytes <- 7,
    heap <- v1, current_read <- v2, current_write <- v3, current_write_nr <- v4,
    read_ptr <- v5, write_ptr <- v6, caused_eof <- v7, contents <- v8, byte <- v9,
    got <- v10
Codec == INSTANCE Codecs WITH
    Alphabet <- Alphabets, Begin <- Begins, MaxLen <- Lengths, LineLength <- 8,
    codec <- v1, text <- v2
Http == INSTANCE HTTPSocket WITH
    Exchange <- [class : {"base", "httpd"}, msgs : Requests] \cup [class : {"client"}, msgs : Responses],
    exchange <- v1, pos <- v2, h <- v3, intact <- v4
Message == INSTANCE HttpMessage WITH
    Spelling <- [X |-> "x", x |-> "x", Cookie |-> "cookie"],
    Cookie <- {<<<<"X", 1>>>>, <<<<"x", 2>>, <<"Cookie", 1>>>>},
    Answer <- Answers, MaxRequests <- 3, MaxLines <- 2,
    class <- v1, n <- v2, phase <- v3, req <- v4, copies <- v5, freed <- v6, map <- v7,
    append <- v8, owed <- v9, lines <- v10, seen <- v11, sent <- v12,
    late <- v13
Upload == INSTANCE FormUpload WITH
    Field <- <<"f">>, File <- <<"u", "v">>,
    Value <- {<<>>, <<<<"x">>>>, <<<<"x">>, <<"-", "x">>>>},
    Content <- Contents, m_boundary <- <<"b">>, Garbage <- {"?", "-"},
    pc <- v1, m_fields <- v2, m_files <- v3, disk <- v4, length <- v5, sent <- v6,
    form <- v7
Transfer == INSTANCE HttpTransfer WITH
    Lengths <- {0, 1, 3}, MaxBody <- 4, Given <- 2,
    class <- v1, dest <- v2, phase <- v3, file <- v4, announced <- v5, sent <- v6,
    changed <- v7, length <- v8, chunked <- v9, size <- v10, arrived <- v11, stored <- v12,
    fil <- v13, contents <- v14, echo <- v15, closing <- v16
Answering == INSTANCE Responder WITH
    Classes <- {"http", "ajp"}, HeaderSize <- 2, EndSize <- 2, Chunk <- 3,
    Sizes <- {0, 1, 3, 7}, MaxResponses <- 2, MaxDone <- 3,
    class <- v1, keepalive <- v2, sizes <- v3, left <- v4, limit <- v5, out <- v6,
    wire <- v7, done <- v8, closing <- v9, ended <- v10, missed <- v11,
    replaced <- v12
Ajp == INSTANCE Ajp13 WITH
    Requests <- AjpRequests,
    requests <- v1, at <- v2, wire <- v3, s <- v4
Smtp == INSTANCE SmtpdSocket WITH
    Address <- {"ok", "long name"}, BodyLine <- {<<>>, <<"QUIT">>, <<".">>, <<".", "a">>},
    MaxLines <- 2, MaxCommands <- 3,
    m_hello <- v1, m_data <- v2, closing <- v3, wire <- v4, replies <- v5, waiting <- v6,
    mail <- v7, sending <- v8, data <- v9, mails <- v10, calls <- v11, commands <- v12

-----------------------------------------------------------------------------
LibInit ==
    /\ PoolInit
    /\ \/ part = "pool" /\ Off1
       \/ part = "sockets" /\ Sockets!Init /\ Off4
       \/ part = "client" /\ Client!Init /\ Off15
       \/ part = "locks" /\ Locks!SslInit /\ Off11
       \/ part = "ssl" /\ Ssl!Init /\ Off2
       \/ part = "events" /\ Events!Init /\ Off11
       \/ part = "output" /\ Output!Init /\ Off9
       \/ part = "circular" /\ Circular!Init /\ Off8
       \/ part = "udp" /\ Udp!Init /\ Off11
       \/ part = "disk" /\ Disk!Init /\ Off13
       \/ part = "memory" /\ Memory!Init /\ Off11
       \/ part = "codec" /\ Codec!Init /\ Off3
       \/ part = "http" /\ Http!Init /\ Off5
       \/ part = "message" /\ Message!Init /\ Off14
       \/ part = "upload" /\ Upload!Init /\ Off8
       \/ part = "transfer" /\ Transfer!Init /\ Off17
       \/ part = "responder" /\ Answering!Init /\ Off13
       \/ part = "ajp" /\ Ajp!Init /\ Off5
       \/ part = "smtp" /\ Smtp!Init /\ Off13

LibNext ==
    /\ UNCHANGED part
    /\ \/ part = "pool" /\ PoolNext /\ Keep1
       \/ /\ UNCHANGED poolVars
          /\ \/ part = "sockets" /\ Sockets!Next /\ Keep4
             \/ part = "client" /\ Client!Next /\ Keep15
             \/ part = "locks" /\ Locks!SslNext /\ Keep11
             \/ part = "ssl" /\ Ssl!Next /\ Keep2
             \/ part = "events" /\ Events!Next /\ Keep11
             \/ part = "output" /\ Output!Next /\ Keep9
             \/ part = "circular" /\ Circular!Next /\ Keep8
             \/ part = "udp" /\ Udp!Next /\ Keep11
             \/ part = "disk" /\ Disk!Next /\ Keep13
             \/ part = "memory" /\ Memory!Next /\ Keep11
             \/ part = "codec" /\ Codec!Next /\ Keep3
             \/ part = "http" /\ Http!Next /\ Keep5
             \/ part = "message" /\ Message!Next /\ Keep14
             \/ part = "upload" /\ Upload!Next /\ Keep8
             \/ part = "transfer" /\ Transfer!Next /\ Keep17
             \/ part = "responder" /\ Answering!Next /\ Keep13
             \/ part = "ajp" /\ Ajp!Next /\ Keep5
             \/ part = "smtp" /\ Smtp!Next /\ Keep13

LibSpec == LibInit /\ [][LibNext]_<<poolVars, allSlots>>

\* What a SocketHandler does when a stale number is handed out is not followed.
NotReused == part = "sockets" => Sockets!NotReused

-----------------------------------------------------------------------------
(***************************************************************************)
(* Every socket a handler knows is alive, a descriptor belongs to one      *)
(* socket and is open, select is asked about registered ones only          *)
(* (SocketHandler); a client connects to the address it was opened with    *)
(* and holds one descriptor through all its retries (TcpSocket); its TLS   *)
(* connection is negotiated once and before its first event, a second      *)
(* connection of the same socket never (TcpSocket); a datagram socket      *)
(* has the port it says (UdpSocket); two threads never hold one OpenSSL    *)
(* lock (SSLInitializer); a timer is fired once, in time order, for an     *)
(* owner that lives (EventHandler).  Excepted:                             *)
(*  - SocketHandler: numbers of descriptors that ListenSocket::Close, or   *)
(*    a close of a socket still in m_add, leaves behind, and all that      *)
(*    comes after the kernel has handed such a number out again;           *)
(*  - SslLocks: all that comes after two threads have each made a mutex    *)
(*    of the lock map, on its first use;                                   *)
(*  - EventHandler: a timer made by a callback whose own event was         *)
(*    deleted and whose address it got.                                    *)
(***************************************************************************)
SocketsKept ==
    /\ part = "sockets" => Sockets!NoDangling /\ Sockets!OwnDescriptor /\ Sockets!CheckSanity
    /\ part = "client" => Client!ConnectsAsAsked /\ Client!OneDescriptor
    /\ part = "ssl" => Ssl!SslOrder
    /\ part = "udp" => Udp!BoundPort
    /\ part = "locks" => Locks!LocksExclusive
    /\ part = "events" => Events!TimersKept

(***************************************************************************)
(* What was written comes out once and in order: of an output buffer       *)
(* (TcpSocket), a circular buffer (CircularBuffer), the datagrams a        *)
(* socket reads (UdpSocket), and a file on disk or in memory with a        *)
(* position to read from and one to write to (File, MemFile).  Excepted:   *)
(*  - UdpSocket: what is cut to the buffer, datagrams without a payload    *)
(*    and those that go with a descriptor that is closed;                  *)
(*  - DiskFile: a File that is opened again with positions other than 0,   *)
(*    or that fprintf was used on;                                         *)
(*  - MemFile: a reader that is not on the block of its position,          *)
(*    because its last read ended with a block or because the writer has   *)
(*    put another block in the place of its own.                           *)
(***************************************************************************)
BytesInOrder ==
    /\ part = "output" => Output!OutputInOrder
    /\ part = "circular" => Circular!Fifo
    /\ part = "udp" => Udp!DatagramsInOrder
    /\ part = "disk" => Disk!FileInOrder /\ Disk!OneStream
    /\ part = "memory" => Memory!ReadsWritten

(***************************************************************************)
(* What one side encodes the other decodes to the same: Base64, the fields *)
(* of a form, words, addresses, URLs, SQL and XML literals, UTF-8 (Base64, *)
(* Utility, Parse, HttpdForm, Database).                                   *)
(***************************************************************************)
RoundTrips ==
    part = "codec" =>
        /\ Codec!Base64Trip /\ Codec!FormTrip /\ Codec!WordsSplit /\ Codec!AddressTrip
        /\ Codec!SqlTrip /\ Codec!Utf8Trip /\ Codec!UrlParsersAgree

(***************************************************************************)
(* A request reaches the application as it was sent, however it is cut     *)
(* into reads, and nothing of one is seen in the next: HTTPSocket and      *)
(* its HttpRequest, an upload (HttpdForm), a body that is stored, put or   *)
(* echoed (HttpClientSocket, HttpPutSocket, HttpDebugSocket), an AJP       *)
(* request (Ajp13Socket) and a mail (SmtpdSocket).  Excepted:              *)
(*  - HTTPSocket: the messages from the first one on whose header a read   *)
(*    ended between the CR and the LF that close it, if it has a body;     *)
(*  - HttpMessage: of HttpdSocket, headers and cookies that a request      *)
(*    does not send itself, and any but its last Cookie header;            *)
(*  - FormUpload: the line feeds of a field, files that changed,           *)
(*    contents with the boundary, and the sizes its comment names;         *)
(*  - HttpTransfer: a put of a file that changed, more than was            *)
(*    announced, and a buffer of the application's that is too small;      *)
(*  - Ajp13: what is in front of the body of a second or later request.    *)
(***************************************************************************)
MessagesAsSent ==
    /\ part = "http" => Http!MessagesAsSent
    /\ part = "message" => Message!RequestAsSent /\ Message!CopiesKept
    /\ part = "upload" => Upload!FormAsSent
    /\ part = "transfer" => Transfer!StoredWhole /\ Transfer!ContentOnce /\ Transfer!PutAsAnnounced /\ Transfer!EchoOnce
    /\ part = "ajp" => Ajp!AjpRequests
    /\ part = "smtp" => Smtp!MailAsSent /\ Smtp!GreetedFirst

(***************************************************************************)
(* A response is sent whole, with the fields and cookies it was given,     *)
(* and no state waits for an event that never comes (HttpResponse,         *)
(* HttpBaseSocket, AjpBaseSocket, SmtpdSocket).  Excepted:                 *)
(*  - Responder: a response stalls when its output is once one byte        *)
(*    long, or when its file is read to the end with output pending and    *)
(*    no transfer limit set; one whose successor is answered early         *)
(*    breaks off; the end packet of AJP may come twice;                    *)
(*  - HttpMessage: of HttpdSocket's cookies the last one only; an answer   *)
(*    in OnExec that follows a late answer without a reset in between;     *)
(*  - SmtpdSocket: commands after the session is closed.                   *)
(***************************************************************************)
ResponsesWhole ==
    /\ part = "responder" => Answering!NoStall /\ Answering!WholeResponses
    /\ part = "message" => Message!AnswerAsSet
    /\ part = "ajp" => Ajp!AjpProgress
    /\ part = "smtp" => Smtp!CommandsAnswered
=============================================================================
