----------------------------- MODULE EchoServer -----------------------------
(***************************************************************************)
(* The blocking socket classes (src/Socket.cpp, ServerSocket.cpp,          *)
(* ClientSocket.cpp) under their two programs: simple_server_main.cpp      *)
(* echoes what one client at a time sends, simple_client_main.cpp sends    *)
(* one message and reads once.  A byte is a number and 0 is the byte that  *)
(* ends a C string.                                                        *)
(***************************************************************************)
EXTENDS Naturals, Sequences

CONSTANTS
    Client,         \* clients, one process each
    Messages,       \* what a client may send: non-empty sequences of bytes
    MAXRECV,        \* bytes asked for by one recv
    MAXCONNECTIONS  \* the listen backlog

VARIABLES
    pc,        \* where the server's main is
    m_sock,    \* m_sock of the server's two objects, -1 as NoFd
    open,      \* descriptors open in the server process
    backlog,   \* clients connected and not accepted
    peer,      \* the client behind new_sock
    buf,       \* the buffer of the last recv
    data,      \* the string of the server's inner loop
    cpc,       \* where each client's main is
    message,   \* what each client sent
    up,        \* bytes on their way to the server
    down,      \* bytes on their way to the client
    echoed,    \* every byte the server sent to the client
    reply,     \* what the client's one read returned
    taken      \* every byte the server's recv took from the client

vars == <<pc, m_sock, open, backlog, peer, buf, data, cpc, message, up, down,
          echoed, reply, taken>>
server == <<pc, m_sock, open, peer, buf, data, echoed, taken>>
client == <<cpc, message, reply>>

NoFd == 99
Nobody == "nobody"

\* The descriptor the kernel hands out: the lowest that is not open.
Lowest == CHOOSE n \in 0 .. 3 \ open : \A k \in 0 .. 3 \ open : n <= k

CString(bytes) ==
    LET zeros == {k \in DOMAIN bytes : bytes[k] = 0}
    IN  IF zeros = {} THEN bytes
        ELSE SubSeq(bytes, 1, (CHOOSE k \in zeros : \A j \in zeros : k <= j) - 1)

\* Without the memset an earlier, longer read shows behind this one.
recvUncleared(bytes, old) ==
    CString(bytes \o SubSeq(old, Len(bytes) + 1, Len(old)))

\* memset before ::recv: what follows the received bytes is zero.
recv(bytes, old) == CString(bytes)

DestroyOpen(objects) == open

\* ~Socket of the objects that go out of scope.
Destroy(objects) == open \ {m_sock[o] : o \in objects}

Init ==
    /\ pc = "create"
    /\ m_sock = [o \in {"server", "new_sock"} |-> NoFd]
    /\ open \in {{}, {0}}
    /\ backlog = <<>> /\ peer = Nobody /\ buf = <<>> /\ data = <<>>
    /\ cpc = [c \in Client |-> "start"]
    /\ message = [c \in Client |-> <<>>]
    /\ up = [c \in Client |-> <<>>]
    /\ down = [c \in Client |-> <<>>]
    /\ echoed = [c \in Client |-> <<>>]
    /\ taken = [c \in Client |-> <<>>]
    /\ reply = [c \in Client |-> <<>>]

----------------------------------------------------------------------------
(* The server.                                                             *)

Exit(objects) ==
    /\ pc' = "exited"
    /\ open' = Destroy(objects)
    /\ m_sock' = [o \in DOMAIN m_sock |-> IF o \in objects THEN NoFd ELSE m_sock[o]]
    /\ backlog' = <<>>

\* ServerSocket(port): create, bind and listen.  A failure of any of them
\* throws, and the base class closes what create opened.
create ==
    /\ pc = "create"
    /\ \/ /\ m_sock' = [m_sock EXCEPT !["server"] = Lowest]
          /\ open' = open \cup {Lowest}
          /\ pc' = "bind"
          /\ UNCHANGED backlog
       \/ Exit({})
    /\ UNCHANGED <<peer, buf, data, client, up, down, echoed, taken>>

Setup(from, to) ==
    /\ pc = from
    /\ \/ pc' = to /\ UNCHANGED <<m_sock, open, backlog>>
       \/ Exit({"server"})
    /\ UNCHANGED <<peer, buf, data, client, up, down, echoed, taken>>

bind == Setup("bind", "listen")
listen == Setup("listen", "accept")

\* server.accept(new_sock): a descriptor that is not above zero throws, out
\* of the loop and out of the program, and so does a failing ::accept.
Accept ==
    /\ pc = "accept" /\ backlog # <<>>
    /\ \/ /\ m_sock' = [m_sock EXCEPT !["new_sock"] = Lowest]
          /\ open' = open \cup {Lowest}
          /\ peer' = Head(backlog)
          /\ backlog' = Tail(backlog)
          /\ pc' = IF Lowest = 0 THEN "refused" ELSE "read"
       \/ /\ Exit({"server", "new_sock"})
          /\ UNCHANGED peer
    /\ UNCHANGED <<buf, data, client, up, down, echoed, taken>>

\* The inner catch: new_sock goes out of scope and the loop accepts again.
Hangup ==
    /\ pc' = "accept"
    /\ open' = Destroy({"new_sock"})
    /\ m_sock' = [m_sock EXCEPT !["new_sock"] = NoFd]
    /\ peer' = Nobody
    /\ data' = <<>>

\* new_sock >> data: up to MAXRECV bytes, or 0 at the end of the stream.
Read ==
    /\ pc = "read"
    /\ \/ \E n \in 1 .. MAXRECV :
            /\ n <= Len(up[peer])
            /\ LET bytes == SubSeq(up[peer], 1, n)
               IN  /\ data' = recv(bytes, buf)
                   /\ buf' = bytes \o SubSeq(buf, n + 1, Len(buf))
                   /\ taken' = [taken EXCEPT ![peer] = @ \o bytes]
            /\ up' = [up EXCEPT ![peer] = SubSeq(@, n + 1, Len(@))]
            /\ pc' = "write"
            /\ UNCHANGED <<m_sock, open, peer>>
       \/ /\ up[peer] = <<>> /\ cpc[peer] = "closed"
          /\ Hangup
          /\ UNCHANGED <<buf, up, taken>>
    /\ UNCHANGED <<backlog, client, down, echoed>>

\* new_sock << data: the blocking send takes all of it, or fails because the
\* client closed.
Write ==
    /\ pc = "write"
    /\ \/ /\ down' = [down EXCEPT ![peer] = @ \o data]
          /\ echoed' = [echoed EXCEPT ![peer] = @ \o data]
          /\ data' = <<>>
          /\ pc' = "read"
          /\ UNCHANGED <<m_sock, open, peer>>
       \/ /\ cpc[peer] = "closed"
          /\ Hangup
          /\ UNCHANGED <<down, echoed>>
    /\ UNCHANGED <<backlog, buf, client, up, taken>>

----------------------------------------------------------------------------
(* The clients.                                                            *)

Listening == pc \notin {"create", "bind", "listen", "exited"}

\* ClientSocket(host, port): create and connect.
Connect(c) ==
    /\ cpc[c] = "start"
    /\ \/ /\ Listening
          /\ Len(backlog) < MAXCONNECTIONS
          /\ backlog' = Append(backlog, c)
          /\ cpc' = [cpc EXCEPT ![c] = "send"]
       \/ /\ ~Listening
          /\ cpc' = [cpc EXCEPT ![c] = "closed"]
          /\ UNCHANGED backlog
    /\ UNCHANGED <<server, message, reply, up, down>>

\* The server's end of the connection of c is gone.
Dropped(c) == c # peer /\ \A k \in DOMAIN backlog : backlog[k] # c

Send(c) ==
    /\ cpc[c] = "send"
    /\ \/ \E m \in Messages :
            /\ message' = [message EXCEPT ![c] = m]
            /\ up' = [up EXCEPT ![c] = m]
            /\ cpc' = [cpc EXCEPT ![c] = "read"]
       \/ /\ Dropped(c)
          /\ cpc' = [cpc EXCEPT ![c] = "closed"]
          /\ UNCHANGED <<message, up>>
    /\ UNCHANGED <<server, backlog, reply, down>>

\* One recv; the object's destructor closes the connection.
Receive(c) ==
    /\ cpc[c] = "read"
    /\ \/ \E n \in 1 .. MAXRECV :
            /\ n <= Len(down[c])
            /\ reply' = [reply EXCEPT ![c] = recv(SubSeq(down[c], 1, n), <<>>)]
            /\ down' = [down EXCEPT ![c] = SubSeq(@, n + 1, Len(@))]
       \/ /\ down[c] = <<>> /\ Dropped(c)
          /\ UNCHANGED <<reply, down>>
    /\ cpc' = [cpc EXCEPT ![c] = "closed"]
    /\ UNCHANGED <<server, backlog, message, up>>

Next ==
    \/ create \/ bind \/ listen \/ Accept \/ Read \/ Write
    \/ \E c \in Client : Connect(c) \/ Send(c) \/ Receive(c)

Spec == Init /\ [][Next]_vars

----------------------------------------------------------------------------
(***************************************************************************)
(* A client gets back the bytes it sent, in order: of a message without a  *)
(* zero byte, what was echoed, is in the server's hands and is on the way  *)
(* add up to the message (Socket::recv and Socket::send).                  *)
(***************************************************************************)
EchoInOrder ==
    \A c \in Client :
        /\ message[c] = taken[c] \o up[c]
        /\ (\A k \in DOMAIN message[c] : message[c][k] # 0)
           => /\ c = peer => taken[c] = echoed[c] \o data
              /\ echoed[c] = SubSeq(message[c], 1, Len(echoed[c]))
              /\ reply[c] = SubSeq(echoed[c], 1, Len(reply[c]))

(***************************************************************************)
(* The descriptors open in the server are the ones its two objects hold    *)
(* (and standard input), they hold different ones, and none of an accepted *)
(* connection is the 0 that Socket::accept takes for a failure.            *)
(***************************************************************************)
DescriptorsHeld ==
    LET held == {m_sock[o] : o \in {o \in DOMAIN m_sock : m_sock[o] # NoFd}}
    IN  /\ held \subseteq open
        /\ open \ held \subseteq {0}
        /\ m_sock["server"] # NoFd => m_sock["server"] # m_sock["new_sock"]
        /\ pc # "refused"
=============================================================================
