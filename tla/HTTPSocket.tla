------------------------------ MODULE HTTPSocket ------------------------------
(***************************************************************************)
(* src/src/Sockets-2.3.5: what arrives on an http connection.  TcpSocket   *)
(* cuts the bytes of each read into lines (OnRead), HTTPSocket drives the  *)
(* header and the body from them (OnLine, OnRawData), and three classes    *)
(* collect a message: HttpBaseSocket ("base") and HttpdSocket ("httpd")    *)
(* execute requests, HttpClientSocket ("client") keeps a response.         *)
(* The stream is a sequence of tokens: "CR", "LF", a first line, a header, *)
(* a chunk size or a byte of a body.                                       *)
(***************************************************************************)
EXTENDS Integers, Sequences, FiniteSets, SequencesExt

CONSTANTS Exchange        \* the exchanges: [class, msgs]

VARIABLES exchange, pos,  \* what is sent, and how much of it was read
          h,              \* the socket object
          intact          \* history: the messages before the first whose header a read tore
vars == <<exchange, pos, h, intact>>

EOL == {"CR", "LF"}
Size == [cl0 |-> 0, cl1 |-> 1, cl2 |-> 2, cl3 |-> 3]        \* Content-Length
ContentLength(hdrs) == FoldLeft(LAMBDA n, x : IF x \in DOMAIN Size THEN Size[x] ELSE n, 0, hdrs)

\* A message as its bytes: with "chunked", each of its chunks behind its size.
Hex == <<"1", "2", "3">>
Ended(s) == s \o <<"CR", "LF">>
Encode(m) ==
    Ended(<<m.first>>) \o FlattenSeq([i \in DOMAIN m.hdrs |-> Ended(<<m.hdrs[i]>>)]) \o Ended(<<>>)
      \o (IF Contains(m.hdrs, "chunked")
          THEN FlattenSeq([i \in DOMAIN m.body |-> Ended(<<Hex[Len(m.body[i])]>>) \o Ended(m.body[i])])
                 \o Ended(<<"0">>) \o Ended(<<>>)
          ELSE FlattenSeq(m.body))
stream == FlattenSeq([i \in DOMAIN exchange.msgs |-> Encode(exchange.msgs[i])])

-----------------------------------------------------------------------------
(* The collecting classes *)

\* HTTPSocket's members, then those of the class: need is HttpBaseSocket's
\* m_body_size_left or m_content_length, file is m_body_file, m_file, m_fil or
\* m_data_ptr, out the messages handed to OnExec, Exec or OnContent.
Fresh(class, named) ==
    [class |-> class, named |-> named, line |-> <<>>, skip_c |-> FALSE, c |-> "CR", lp |-> TRUE,
     first |-> TRUE, header |-> TRUE, left |-> 0, http_1_1 |-> FALSE, keepalive |-> FALSE,
     chunked |-> FALSE, chunk_size |-> 0, chunk_state |-> 0, chunk_line |-> <<>>,
     method |-> <<>>, hdrs |-> <<>>, need |-> 0, received |-> 0, file |-> FALSE, body |-> <<>>,
     complete |-> FALSE, out |-> <<>>]

SetLineProtocol(s, x) == [s EXCEPT !.lp = x]

\* HTTPSocket::Reset
HTTPReset(s) == [SetLineProtocol(s, TRUE) EXCEPT !.first = TRUE, !.header = TRUE]

Delivered(s) == [s EXCEPT !.out = Append(@, [first |-> s.method, body |-> s.body])]

\* HttpRequest: InitBody opens the file of the body, Write needs it open.
InitBody(s) == [s EXCEPT !.file = TRUE]
Write(s, buf) == [s EXCEPT !.body = IF s.file THEN @ \o buf ELSE @]
RequestReset(s) == [s EXCEPT !.hdrs = <<>>, !.file = FALSE, !.body = <<>>]

BaseReset(s) == [HTTPReset(s) EXCEPT !.need = 0]
Execute(s) == BaseReset(RequestReset(Delivered(s)))
BaseHeaderComplete(s) ==
    LET n == ContentLength(s.hdrs)
    IN IF n > 0 THEN InitBody([s EXCEPT !.need = n]) ELSE Execute([s EXCEPT !.need = n])
BaseData(s, buf) ==
    LET t == [Write(s, buf) EXCEPT !.need = s.need - Len(buf)]
    IN IF t.need = 0 THEN Execute(t) ELSE t

\* Mutant: what was received stays counted.
HttpdResetCounting(s) == [HTTPReset(s) EXCEPT !.need = 0, !.file = FALSE, !.body = <<>>]

\* The strings of the headers stay.
HttpdReset(s) == [HTTPReset(s) EXCEPT !.need = 0, !.received = 0, !.file = FALSE, !.body = <<>>]
HttpdHeaderComplete(s) ==
    CASE s.method \in {<<"POST11">>, <<"POST10">>} -> [s EXCEPT !.file = TRUE]
      [] s.method \in {<<"GET11">>, <<"GET10">>} -> HttpdReset(Delivered(s))
      [] OTHER -> s                                  \* 405, and no Reset
HttpdData(s, buf) ==
    LET t == [Write(s, buf) EXCEPT !.received = @ + Len(buf)]
    IN IF t.received >= t.need /\ t.need # 0 /\ t.file THEN HttpdReset(Delivered(t)) ELSE t

\* With m_filename a file is opened; without one m_data_ptr is allocated when
\* the length is known, and data that does not fit is left out.
ClientHeaderComplete(s) == [s EXCEPT !.file = s.named \/ s.need # 0]
ClientData(s, buf) ==
    LET n == s.received + Len(buf)
        t == [IF s.named \/ n <= s.need THEN Write(s, buf) ELSE s EXCEPT !.received = n]
    IN IF n = s.need /\ s.need # 0 THEN Delivered([t EXCEPT !.complete = TRUE]) ELSE t

OnHeaderComplete(s) ==
    CASE s.class = "base" -> BaseHeaderComplete(s)
      [] s.class = "httpd" -> HttpdHeaderComplete(s)
      [] s.class = "client" -> ClientHeaderComplete(s)
OnData(s, buf) ==
    CASE s.class = "base" -> BaseData(s, buf)
      [] s.class = "httpd" -> HttpdData(s, buf)
      [] s.class = "client" -> ClientData(s, buf)

-----------------------------------------------------------------------------
(* HTTPSocket::OnLine *)

OnFirst(s, line) ==
    LET response == line = <<"RESP">>
        v11 == line \in {<<"GET11">>, <<"POST11">>, <<"PUT11">>}
    IN [s EXCEPT !.first = FALSE, !.method = line,
                 !.http_1_1 = IF response THEN @ ELSE v11,
                 !.keepalive = IF response THEN @ ELSE v11]

OnHeader(s, line) ==
    LET x == line[1]
    IN [s EXCEPT !.hdrs = Append(@, x),
                 !.need = IF x \in DOMAIN Size /\ s.class # "base" THEN Size[x] ELSE @,
                 !.left = IF x \in DOMAIN Size THEN Size[x] ELSE @,
                 !.keepalive = IF s.http_1_1 /\ x = "close" THEN FALSE ELSE @,
                 !.chunked = @ \/ x = "chunked"]

OnLine(s, line) ==
    IF s.first THEN OnFirst(s, line)
    ELSE IF line # <<>> THEN OnHeader(s, line)
    ELSE OnHeaderComplete(
           IF s.left # 0 \/ ~s.http_1_1 \/ ~s.keepalive \/ s.chunked
           THEN [SetLineProtocol(s, FALSE) EXCEPT !.header = FALSE] ELSE s)

-----------------------------------------------------------------------------
(* TcpSocket::OnRead(buf, n) and HTTPSocket::OnRawData *)

RECURSIVE Lines(_, _), OnRawData(_, _), Chunks(_, _)

\* Mutant: the second character of a line end that opens a read is not skipped.
OnReadUnskipped(s, buf) == IF s.lp THEN Lines(s, buf) ELSE OnRawData(s, buf)

OnRead(s, buf) ==
    LET skip == s.skip_c /\ buf[1] \in EOL /\ buf[1] # s.c
    IN IF ~s.lp THEN OnRawData(s, buf)
       ELSE IF skip THEN Lines([s EXCEPT !.skip_c = FALSE], Tail(buf)) ELSE Lines(s, buf)

\* Up to the next line end, or what is left when OnLine ends the lines.
Lines(s, buf) ==
    IF ~(\E j \in DOMAIN buf : buf[j] \in EOL) THEN [s EXCEPT !.line = @ \o buf]
    ELSE LET i == SelectInSeq(buf, LAMBDA b : b \in EOL)
             pair == i < Len(buf) /\ buf[i + 1] \in EOL /\ buf[i + 1] # buf[i]
             rest == SubSeq(buf, IF pair THEN i + 2 ELSE i + 1, Len(buf))
             t == [OnLine(s, s.line \o SubSeq(buf, 1, i - 1)) EXCEPT
                     !.skip_c = ~pair, !.c = buf[i], !.line = <<>>]
         IN IF t.lp THEN Lines(t, rest) ELSE IF rest = <<>> THEN t ELSE OnRawData(t, rest)

PrepareNext(s) == [SetLineProtocol(s, TRUE) EXCEPT !.first = TRUE, !.header = TRUE, !.left = 0]

OnRawData(s, buf) ==
    IF s.header THEN s
    ELSE IF s.chunked THEN Chunks(s, buf)
    ELSE IF ~s.http_1_1 \/ ~s.keepalive
         THEN [OnData(s, buf) EXCEPT !.left = s.left - Len(buf)]
    ELSE LET sz == IF s.left < Len(buf) THEN s.left ELSE Len(buf)
             t == [OnData(s, SubSeq(buf, 1, sz)) EXCEPT !.left = s.left - sz]
             rest == SubSeq(buf, sz + 1, Len(buf))
         IN IF t.left # 0 THEN t
            ELSE IF rest = <<>> THEN PrepareNext(t) ELSE OnRead(PrepareNext(t), rest)

\* The switch on m_chunk_state; m_chunk_line ends with the first CR LF.
IsLine(s) == IsSuffix(<<"CR", "LF">>, s)
Chunks(s, buf) ==
    IF buf = <<>> THEN s
    ELSE CASE s.chunk_state \in {0, 4} ->
                LET k == IF IsLine(s.chunk_line) THEN 0
                         ELSE SelectInSeq([j \in DOMAIN buf |-> s.chunk_line \o SubSeq(buf, 1, j)], IsLine)
                    full == k # 0 \/ IsLine(s.chunk_line)
                    rest == IF full THEN SubSeq(buf, k + 1, Len(buf)) ELSE <<>>
                    l == s.chunk_line \o SubSeq(buf, 1, IF full THEN k ELSE Len(buf))
                    n == IF \E j \in DOMAIN Hex : l[1] = Hex[j] THEN SelectInSeq(Hex, LAMBDA x : x = l[1]) ELSE 0
                IN IF ~full THEN [s EXCEPT !.chunk_line = l]
                   ELSE IF s.chunk_state = 0
                        THEN Chunks([s EXCEPT !.chunk_line = <<>>, !.chunk_size = n,
                                              !.chunk_state = IF n = 0 THEN 4 ELSE 1], rest)
                   ELSE LET t == [PrepareNext(s) EXCEPT !.chunked = FALSE, !.chunk_line = l]
                        IN IF rest = <<>> THEN t ELSE OnRead(t, rest)
           [] s.chunk_state = 1 ->
                LET sz == IF s.chunk_size < Len(buf) THEN s.chunk_size ELSE Len(buf)
                IN Chunks([OnData(s, SubSeq(buf, 1, sz)) EXCEPT
                             !.chunk_size = s.chunk_size - sz,
                             !.chunk_state = IF s.chunk_size = sz THEN 2 ELSE 1],
                          SubSeq(buf, sz + 1, Len(buf)))
           [] s.chunk_state = 2 -> Chunks([s EXCEPT !.chunk_state = 3], Tail(buf))
           [] s.chunk_state = 3 -> Chunks([s EXCEPT !.chunk_state = 0], Tail(buf))

-----------------------------------------------------------------------------
Init ==
    /\ exchange \in Exchange /\ pos = 0 /\ intact = Len(exchange.msgs)
    /\ \E named \in BOOLEAN : h = Fresh(exchange.class, named)
    /\ h.named => h.class = "client"
    /\ (h.class = "client" /\ Contains(exchange.msgs[1].hdrs, "chunked")) => h.named

\* A read of the next n bytes.
Read(n) ==
    /\ n \in 1..(Len(stream) - pos)
    /\ h' = OnRead(h, SubSeq(stream, pos + 1, pos + n))
    /\ pos' = pos + n
    /\ intact' = IF ~h'.lp /\ h'.skip_c /\ pos' < Len(stream) /\ stream[pos'] = "CR" /\ stream[pos' + 1] = "LF"
                 THEN Min({intact, Len(h'.out)}) ELSE intact
    /\ UNCHANGED exchange

\* The connection ends: HttpClientSocket::OnDelete.
OnDelete ==
    /\ pos = Len(stream) /\ h.class = "client" /\ ~h.complete
    /\ h' = Delivered([h EXCEPT !.complete = TRUE])
    /\ UNCHANGED <<exchange, pos, intact>>

Done == pos = Len(stream) /\ (h.class = "client" => h.complete) /\ UNCHANGED vars

Next == (\E n \in 1..Len(stream) : Read(n)) \/ OnDelete \/ Done

Spec == Init /\ [][Next]_vars

-----------------------------------------------------------------------------
Sent == [i \in DOMAIN exchange.msgs |->
           [first |-> <<exchange.msgs[i].first>>, body |-> FlattenSeq(exchange.msgs[i].body)]]

\* However the connection's bytes are cut into reads, the messages handed on
\* are those that were sent, in order, each with its own first line and its
\* whole body and nothing of its neighbours, and all of them once everything
\* has been read.  This holds up to the first message with a body whose header
\* a read tore: one that ended between the CR and the LF of the blank line.
\* m_skip_c is looked at in line mode only (TcpSocket.cpp:559 to 565), so the
\* LF is taken for the first byte of the body and the last byte is left over,
\* where HTTPSocket.h has "The full request/response body has been received".
MessagesAsSent ==
    /\ IsPrefix(SubSeq(h.out, 1, Min({intact, Len(h.out)})), Sent)
    /\ (intact = Len(Sent) /\ pos = Len(stream) /\ (h.class = "client" => h.complete)) => h.out = Sent
=============================================================================
