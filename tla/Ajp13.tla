--------------------------------- MODULE Ajp13 ---------------------------------
(***************************************************************************)
(* Sockets-2.3.5: Ajp13Socket, the application's end of a connection from  *)
(* a web server.  AjpBaseSocket puts packets together from what each read  *)
(* brings, Ajp13Socket takes a request from a forward packet and its body  *)
(* from the packets behind it, of which it asks for all but the first.     *)
(* A packet is two bytes of id, two of length, and its bytes; the fields   *)
(* of a forward packet are one byte that stands for them.                  *)
(***************************************************************************)
EXTENDS Integers, Sequences, SequencesExt

CONSTANTS Requests,       \* sequences of requests: [kind, length, body], body in pieces
          None

VARIABLES requests,       \* what the web server has to send
          at,             \* and where it is: <<request, pieces sent>>
          wire,           \* bytes it has sent and that were not read
          s               \* the socket object
vars == <<requests, at, wire, s>>

HeaderSize == 4

\* left is m_body_size_left, body what m_req's file holds, asks the number of
\* GET_BODY_CHUNK packets sent.
Init ==
    /\ requests \in Requests /\ at = <<1, None>> /\ wire = <<>>
    /\ s = [m_state |-> 0, m_length |-> HeaderSize, m_message |-> <<>>, left |-> 0, file |-> FALSE,
            body |-> <<>>, request |-> 0, executed |-> <<>>, asks |-> 0, closing |-> FALSE]

-----------------------------------------------------------------------------
SetCloseAndDelete(o) == [o EXCEPT !.closing = TRUE]
OnHeader(o, id) == IF id # "12" THEN SetCloseAndDelete(o) ELSE o

\* The application is called; m_req is not reset.
Execute(o) == [o EXCEPT !.executed = Append(@, [request |-> o.request, body |-> o.body])]

\* Mutant: it is asked for the last piece once more.
ReceiveBodyAgain(o, buf) ==
    LET data == SubSeq(buf, 3, Len(buf))
        w == [o EXCEPT !.body = IF o.file THEN @ \o data ELSE @, !.left = @ - Len(data), !.asks = @ + 1]
    IN  IF Len(buf) < 2 \/ Len(data) > o.left THEN SetCloseAndDelete(o)
        ELSE IF w.left > 0 THEN w ELSE Execute(w)

\* The two bytes are the length of the data; a packet without them wraps
\* around and is more than expected.
ReceiveBody(o, buf) ==
    LET data == SubSeq(buf, 3, Len(buf))
        w == [o EXCEPT !.body = IF o.file THEN @ \o data ELSE @, !.left = @ - Len(data)]
    IN  IF Len(buf) < 2 \/ Len(data) > o.left THEN SetCloseAndDelete(o)
        ELSE IF w.left > 0 THEN [w EXCEPT !.asks = @ + 1] ELSE Execute(w)

\* A key it does not know closes the socket; it goes on all the same.
ReceiveForwardRequest(o, r) ==
    LET f == [o EXCEPT !.request = r, !.left = requests[r].length,
                       !.closing = @ \/ requests[r].kind = "unknown key"]
    IN  IF f.left = 0 THEN Execute(f) ELSE [f EXCEPT !.file = TRUE]

\* An empty packet leaves the id of the header in m_message.
OnPacket(o, buf) ==
    IF o.left > 0 THEN ReceiveBody(o, buf)
    ELSE IF buf = <<>> THEN SetCloseAndDelete(o)
    ELSE CASE buf[1] = "2" -> ReceiveForwardRequest(o, buf[2])
           [] buf[1] \in {"7", "8", "a"} -> o      \* shutdown, ping, cping: ignored
           [] OTHER -> SetCloseAndDelete(o)

\* AjpBaseSocket::OnRawData
RECURSIVE OnRawData(_, _)
OnRawData(o, buf) ==
    LET missing == o.m_length - Len(o.m_message)
        len == IF missing < Len(buf) THEN missing ELSE Len(buf)
        msg == o.m_message \o SubSeq(buf, 1, len)
        rest == SubSeq(buf, len + 1, Len(buf))
    IN  IF Len(msg) < o.m_length THEN [o EXCEPT !.m_message = msg]
        ELSE IF o.m_state = 0
        THEN OnRawData([OnHeader(o, msg[1]) EXCEPT !.m_state = 1, !.m_length = msg[4], !.m_message = <<>>], rest)
        ELSE OnRawData([OnPacket(o, msg) EXCEPT !.m_state = 0, !.m_length = HeaderSize, !.m_message = <<>>], rest)

-----------------------------------------------------------------------------
Packet(id, bytes) == <<id, "34", 0, Len(bytes)>> \o bytes

\* The web server sends a request with the first piece of its body, the others
\* when it is asked for them.
Forward ==
    /\ at[2] = None /\ at[1] <= Len(requests)
    /\ LET q == requests[at[1]] IN
       /\ wire' = wire \o (CASE q.kind = "ping" -> Packet("12", <<"8">>)
                             [] q.kind = "bad id" -> Packet("bad", <<"2", at[1]>>)
                             [] q.kind = "empty" -> Packet("12", <<>>)
                             [] OTHER -> Packet("12", <<"2", at[1]>>))
                       \o (IF q.body = <<>> THEN <<>> ELSE Packet("12", <<"0", "0">> \o q.body[1]))
       /\ at' = IF Len(q.body) <= 1 THEN <<at[1] + 1, None>> ELSE <<at[1], 1>>
    /\ UNCHANGED <<requests, s>>
BodyChunk ==
    /\ at[2] # None /\ s.asks > 0
    /\ LET q == requests[at[1]] IN
       /\ wire' = wire \o Packet("12", <<"0", "0">> \o q.body[at[2] + 1])
       /\ at' = IF at[2] + 1 = Len(q.body) THEN <<at[1] + 1, None>> ELSE <<at[1], at[2] + 1>>
    /\ s' = [s EXCEPT !.asks = @ - 1] /\ UNCHANGED requests
Read ==
    /\ wire # <<>> /\ ~s.closing
    /\ \E k \in 1..Len(wire) :
         s' = OnRawData(s, SubSeq(wire, 1, k)) /\ wire' = SubSeq(wire, k + 1, Len(wire))
    /\ UNCHANGED <<requests, at>>

Next == Forward \/ BodyChunk \/ Read
Spec == Init /\ [][Next]_vars

-----------------------------------------------------------------------------
\* However the bytes arrive, and until a packet it does not take closes the
\* connection, the requests are executed in the order they were sent, each
\* once, the first one with its own body alone.  Of a later request
\* on the connection only the end of its body is promised to be its own:
\* m_req is not reset, and its file has the bodies of the requests before it
\* in front (Ajp13Socket.cpp:360, where the reply says the connection is not
\* to be used again and names the missing Reset).
AjpRequests ==
    LET real == SelectSeq([i \in DOMAIN requests |-> i], LAMBDA i : requests[i].kind = "request")
        own(i) == FlattenSeq(requests[real[i]].body)
    IN ~s.closing => \A i \in DOMAIN s.executed :
           /\ i <= Len(real) /\ s.executed[i].request = real[i]
           /\ IsSuffix(own(i), s.executed[i].body)
           /\ i = 1 => s.executed[i].body = own(i)

\* Neither waits for the other: once all that was sent is read, a request of
\* which a piece is missing has been asked for, and one that is whole executed.
AjpProgress ==
    wire = <<>> /\ ~s.closing =>
        IF at[2] = None THEN s.asks = 0 /\ s.left = 0 ELSE s.asks = 1 /\ s.left > 0
===============================================================================
