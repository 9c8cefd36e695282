------------------------------- MODULE Responder -------------------------------
(***************************************************************************)
(* Sockets-2.3.5: how HttpBaseSocket and Ajp13Socket send a response whose *)
(* body is a file.  Respond sends the header and calls OnTransferLimit,    *)
(* which sends pieces of the file until the kernel stops taking them; from *)
(* then on TcpSocket::OnWrite calls it when the output has drained below   *)
(* the transfer limit.  The kernel takes any part of what is offered.      *)
(***************************************************************************)
EXTENDS Integers, Sequences, SequencesExt, FiniteSets

CONSTANTS Classes,        \* of "http" and "ajp"
          HeaderSize, EndSize, Chunk,   \* bytes of a header, an end packet, a piece
          Sizes,          \* sizes of the files
          MaxResponses, MaxDone   \* bounds: responses, calls of OnResponseComplete

VARIABLES class, keepalive,
          sizes,          \* the sizes of the responses so far
          left,           \* bytes of m_res's file that were not read
          limit,          \* m_transfer_limit
          out, wire,      \* the output buffer, and what the kernel took
          done,           \* responses that OnResponseComplete was called for
          closing,
          ended,          \* history: OnResponseComplete was called for this response
          missed,         \* history: why OnTransferLimit is not called again for it
          replaced        \* history: responses the next one replaced in m_res
vars == <<class, keepalive, sizes, left, limit, out, wire, done, closing, ended, missed, replaced>>

Init ==
    /\ class \in Classes /\ keepalive \in BOOLEAN /\ (class = "ajp" => keepalive)
    /\ sizes = <<>> /\ left = 0 /\ limit = 0 /\ out = <<>> /\ wire = <<>> /\ done = 0
    /\ closing = FALSE /\ ended = FALSE /\ missed = {} /\ replaced = {}

\* The byte k of the part p of the n-th response.
Run(n, p, from, to) == [k \in 1..(to - from) |-> <<n, p, from + k>>]

\* TcpSocket::SendBuf: [out, wire] after bytes were given to a connected socket.
SendBuf(o, bytes) ==
    IF o.out # <<>> THEN {[o EXCEPT !.out = @ \o bytes]}
    ELSE {[o EXCEPT !.wire = @ \o SubSeq(bytes, 1, n), !.out = SubSeq(bytes, n + 1, Len(bytes))] : n \in 0..Len(bytes)}

\* The loop of OnTransferLimit, then its end; o has left, limit, done, closing.
\* Mutant: the limit is not set when the loop breaks.
RECURSIVE PiecesUnlimited(_)
PiecesUnlimited(o) ==
    IF o.left = 0 THEN {o}
    ELSE LET n == Len(sizes')
             sz == IF o.left < Chunk THEN o.left ELSE Chunk
             at == sizes'[n] - o.left
         IN UNION {IF Len(s.out) > 1 THEN {s} ELSE PiecesUnlimited(s) :
                     s \in SendBuf([o EXCEPT !.left = @ - sz], Run(n, "body", at, at + sz))}

RECURSIVE Pieces(_)
Pieces(o) ==
    IF o.left = 0 THEN {o}
    ELSE LET n == Len(sizes')
             sz == IF o.left < Chunk THEN o.left ELSE Chunk
             at == sizes'[n] - o.left
         IN UNION {IF Len(s.out) > 1 THEN {[s EXCEPT !.limit = 1]} ELSE Pieces(s) :
                     s \in SendBuf([o EXCEPT !.left = @ - sz], Run(n, "body", at, at + sz))}
ResponseEnd(o) ==
    IF o.out # <<>> THEN {o}
    ELSE IF class = "http"
    THEN {[o EXCEPT !.done = @ + 1, !.closing = @ \/ ~keepalive]}
    ELSE {[s EXCEPT !.done = @ + 1] : s \in SendBuf(o, Run(Len(sizes'), "end", 0, EndSize))}
OnTransferLimit(o) == UNION {ResponseEnd(s) : s \in Pieces(o)}

Output == [left |-> left, limit |-> limit, out |-> out, wire |-> wire, done |-> done, closing |-> closing]
Becomes(o) ==
    /\ left' = o.left /\ limit' = o.limit /\ out' = o.out /\ wire' = o.wire
    /\ done' = o.done /\ closing' = o.closing

\* The two ways OnTransferLimit is not called again.  OnWrite asks for more
\* output than the limit, which is 1 where it is set, so that an output of one
\* byte never passes it; and a loop that read the file to its end with output
\* pending sets no limit.
OneByte(o) == IF Len(o.out) = 1 THEN {"one byte"} ELSE {}
NoLimit(o) == IF o.out # <<>> /\ o.limit = 0 /\ o.left = 0 THEN {"no limit"} ELSE {}

\* Respond, when the next request was executed: m_res is replaced.
Respond ==
    /\ ~closing /\ Len(sizes) < MaxResponses
    /\ replaced' = IF left > 0 THEN replaced \cup {Len(sizes)} ELSE replaced
    /\ \E sz \in Sizes :
         /\ sizes' = Append(sizes, sz)
         /\ \E h \in SendBuf([Output EXCEPT !.left = sz], Run(Len(sizes) + 1, "header", 0, HeaderSize)) :
            \E o \in OnTransferLimit(h) :
               Becomes(o) /\ ended' = (o.done > done) /\ missed' = OneByte(o) \cup NoLimit(o)
    /\ UNCHANGED <<class, keepalive>>

\* TcpSocket::OnWrite: n bytes drain.
OnWrite ==
    /\ out # <<>> /\ done < MaxDone /\ UNCHANGED <<class, keepalive, sizes, replaced>>
    /\ \E n \in 1..Len(out) :
         LET o == [Output EXCEPT !.out = SubSeq(out, n + 1, Len(out)), !.wire = @ \o SubSeq(out, 1, n)]
             fires == limit > 0 /\ Len(out) > limit /\ Len(o.out) < limit
         IN \E r \in IF fires THEN OnTransferLimit(o) ELSE {o} :
               Becomes(r) /\ ended' = (ended \/ r.done > done) /\ missed' = missed \cup OneByte(r)

Next == Respond \/ OnWrite
Spec == Init /\ [][Next]_vars

-----------------------------------------------------------------------------
\* A response stalls for one of two reasons only: its output was one byte long
\* at the end of an OnWrite or of Respond, or Respond had read its file to the
\* end with output pending and no limit was ever set (TcpSocket.cpp:714 and
\* HttpBaseSocket.cpp:182 to 206).  Otherwise, when nothing is left to drain,
\* its file was sent to the end and OnResponseComplete was called, and the
\* connection is closed unless it is kept - also for a response that replaced
\* another.
NoStall ==
    (sizes # <<>> /\ out = <<>>) =>
        \/ "one byte" \in missed \/ "no limit" \in missed
        \/ left = 0 /\ ended /\ (closing \/ keepalive)

\* The client gets the responses one after the other, never interleaved, of
\* each the header and then every byte of the file once and in order, and the
\* whole of each before the next begins.  The one exception is a response
\* that the next replaced, because its request was executed early: it breaks
\* off where it was.  OnResponseComplete is called at most once for an http
\* response.  Nothing is said of the end packet of AJP, which is sent again
\* when it had to wait and drains.
Whole(n) == Run(n, "header", 0, HeaderSize) \o Run(n, "body", 0, sizes[n])
WholeResponses ==
    LET got == SelectSeq(wire \o out, LAMBDA b : b[2] # "end")
        of(n) == SelectSeq(got, LAMBDA b : b[1] = n)
    IN  /\ got = FlattenSeq([n \in DOMAIN sizes |-> of(n)])
        /\ \A n \in DOMAIN sizes : /\ IsPrefix(of(n), Whole(n))
                                  /\ n < Len(sizes) /\ n \notin replaced => of(n) = Whole(n)
        /\ class = "http" => done <= Len(sizes)
===============================================================================
