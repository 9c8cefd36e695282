------------------------------ MODULE TcpOutput ------------------------------
(***************************************************************************)
(* src/src/Sockets-2.3.5/TcpSocket.cpp: the output side of a TcpSocket.    *)
(* SendBuf hands the kernel what it takes and keeps the rest in a list of  *)
(* blocks of TCP_OUTPUT_CAPACITY bytes; OnWrite, called while the socket   *)
(* is in the write set, empties them.  A byte is its position in what the  *)
(* application has sent.                                                   *)
(***************************************************************************)
EXTENDS Integers, Sequences, SequencesExt

CONSTANTS Capacity,        \* TCP_OUTPUT_CAPACITY
          TransferLimit,   \* SetTransferLimit, 0 is off
          MaxBytes         \* bound on what the application sends

VARIABLES
    m_obuf,                \* the blocks: [data, _b], _t is Len(data)
    m_output_length,
    wfds,                  \* the socket is in the write set
    connected, closing,    \* IsConnected, CloseAndDelete
    given,                 \* how many bytes were accepted from the application
    wire,                  \* the bytes the kernel took
    fired                  \* the last OnWrite called OnTransferLimit
vars == <<m_obuf, m_output_length, wfds, connected, closing, given, wire, fired>>

Init ==
    /\ m_obuf = <<>> /\ m_output_length = 0 /\ wfds = FALSE
    /\ connected \in BOOLEAN /\ closing = FALSE
    /\ given = 0 /\ wire = <<>> /\ fired = FALSE

-----------------------------------------------------------------------------
(* OUTPUT *)

Block == [data |-> <<>>, _b |-> 0]
Space(block) == Capacity - Len(block.data)
Buf(block) == SubSeq(block.data, block._b + 1, Len(block.data))
RemoveSent(block, n) == [block EXCEPT !._b = @ + n]

Pending(obuf) == FlattenSeq([i \in DOMAIN obuf |-> Buf(obuf[i])])

\* Mutant: a block that is full is added to.
BufferFull(obuf, bytes) ==
    IF obuf = <<>> THEN <<[Block EXCEPT !.data = bytes]>>
    ELSE [obuf EXCEPT ![Len(obuf)].data = @ \o bytes]

\* TcpSocket::Buffer: the top block is filled, then new ones.
Buffer(obuf, bytes) ==
    FoldLeft(LAMBDA o, b : IF o # <<>> /\ Space(Last(o)) > 0
                           THEN [o EXCEPT ![Len(o)].data = Append(@, b)]
                           ELSE Append(o, [Block EXCEPT !.data = <<b>>]),
             obuf, bytes)

\* The first blocks are sent and deleted, the first that is not sent to its
\* end is left with what remains: the loop of OnWrite, n bytes taken in all.
Drain(obuf, n) ==
    FoldLeft(LAMBDA acc, b :
                IF acc.n >= Len(Buf(b)) THEN [acc EXCEPT !.n = @ - Len(Buf(b))]
                ELSE [n |-> 0, o |-> Append(acc.o, RemoveSent(b, acc.n))],
             [n |-> n, o |-> <<>>], obuf).o

-----------------------------------------------------------------------------
\* TryWrite takes n of the bytes, and may report an error when it takes less.
TryWrite(bytes, n, error) ==
    /\ wire' = wire \o SubSeq(bytes, 1, n)
    /\ error => n < Len(bytes)
    /\ closing' = (closing \/ error)

\* Mutant: what is left is buffered, and the socket is not watched for writing.
SendBufUnwatched(bytes) ==
    /\ ~closing
    /\ given' = given + Len(bytes)
    /\ \E n \in 0..Len(bytes), error \in BOOLEAN :
          /\ connected /\ m_obuf = <<>> /\ TryWrite(bytes, n, error)
          /\ m_obuf' = Buffer(m_obuf, SubSeq(bytes, n + 1, Len(bytes)))
          /\ m_output_length' = m_output_length + Len(bytes) - n
    /\ fired' = FALSE /\ UNCHANGED <<connected, wfds>>

SendBuf(bytes) ==
    /\ ~closing                       \* Ready or Connecting; refused otherwise
    /\ given' = given + Len(bytes)
    /\ \/ /\ ~connected \/ m_obuf # <<>>
          /\ m_obuf' = Buffer(m_obuf, bytes)
          /\ m_output_length' = m_output_length + Len(bytes)
          /\ UNCHANGED <<wfds, wire, closing>>
       \/ /\ connected /\ m_obuf = <<>>
          /\ \E n \in 0..Len(bytes), error \in BOOLEAN :
                /\ TryWrite(bytes, n, error)
                /\ m_obuf' = Buffer(m_obuf, SubSeq(bytes, n + 1, Len(bytes)))
                /\ m_output_length' = m_output_length + Len(bytes) - n
          /\ wfds' = (m_obuf' # <<>>)
    /\ fired' = FALSE /\ UNCHANGED connected

\* OnTransferLimit is called when the output goes from above the limit to
\* below it; a buffer that held just the limit drops below it without a call
\* (TcpSocket.h:261 has "fires when the output buffer drops below the value").
\* What that does to those who wait for the call is in module Responder.
OnWrite ==
    \E n \in 0..Len(Pending(m_obuf)), error \in BOOLEAN :
        /\ TryWrite(Pending(m_obuf), n, error)
        /\ m_obuf' = Drain(m_obuf, n)
        /\ m_output_length' = m_output_length - n
        /\ wfds' = (m_obuf' # <<>>)
        /\ fired' = /\ TransferLimit > 0
                    /\ m_output_length > TransferLimit /\ m_output_length' < TransferLimit

\* The handler: the write event, and CallOnConnect.
Writable == connected /\ wfds /\ OnWrite /\ UNCHANGED <<connected, given>>

OnConnect ==
    /\ ~connected /\ connected' = TRUE /\ UNCHANGED given
    /\ \/ m_output_length > 0 /\ OnWrite
       \/ m_output_length = 0 /\ UNCHANGED <<m_obuf, m_output_length, wfds, closing, wire, fired>>

Next ==
    \/ \E k \in 1..(MaxBytes - given) : SendBuf([i \in 1..k |-> given + i])
    \/ Writable
    \/ OnConnect

Spec == Init /\ [][Next]_vars

-----------------------------------------------------------------------------
\* What SendBuf accepted reaches the wire in order, nothing twice and nothing
\* lost: the wire, continued by the blocks, is what was sent.  m_output_length
\* counts the blocks exactly, no block is larger than its array, and as long
\* as something is left on a connected socket it is watched for writing.
OutputInOrder ==
    /\ wire \o Pending(m_obuf) = [i \in 1..given |-> i]
    /\ m_output_length = Len(Pending(m_obuf))
    /\ \A i \in DOMAIN m_obuf : Len(m_obuf[i].data) <= Capacity
    /\ connected => (wfds <=> m_obuf # <<>>)
=============================================================================
