---------------------------- MODULE CircularBuffer ----------------------------
(***************************************************************************)
(* src/src/Sockets-2.3.5/TcpSocket.cpp, TcpSocket::CircularBuffer: the     *)
(* input buffer of a socket.  The array has twice the size of the buffer,  *)
(* so that a block is always written in one piece.  A byte is its position *)
(* in what was written; 0 is what the array held before.                   *)
(***************************************************************************)
EXTENDS Integers, Sequences

CONSTANTS m_max,           \* the size
          MaxBytes         \* bound on what is written

VARIABLES buf, m_q, m_b, m_t, m_count,
          taken, handed    \* bytes accepted, and the bytes of the last Read
vars == <<buf, m_q, m_b, m_t, m_count, taken, handed>>

Init ==
    /\ buf = [i \in 0..(2 * m_max - 1) |-> 0]
    /\ m_q = 0 /\ m_b = 0 /\ m_t = 0 /\ m_count = 0 /\ taken = 0 /\ handed = <<>>

memcpy(b, at, s) == [i \in DOMAIN b |-> IF i \in at..(at + Len(s) - 1) THEN s[i - at + 1] ELSE b[i]]
Bytes(b, at, n) == [i \in 1..n |-> b[at + i - 1]]

\* Mutant: a block that ends at the border leaves the top behind it.
WriteOver(s) ==
    /\ m_q + Len(s) <= m_max
    /\ IF m_t + Len(s) > m_max
       THEN LET l1 == m_max - m_t
            IN /\ buf' = memcpy(memcpy(buf, m_t, s), 0, SubSeq(s, l1 + 1, Len(s)))
               /\ m_t' = Len(s) - l1
       ELSE /\ buf' = memcpy(memcpy(buf, m_t, s), m_max + m_t, s)
            /\ m_t' = m_t + Len(s)
    /\ m_q' = m_q + Len(s) /\ m_count' = m_count + Len(s) /\ taken' = taken + Len(s)
    /\ handed' = <<>> /\ UNCHANGED m_b

Write(s) ==
    /\ m_q + Len(s) <= m_max                      \* false on overflow
    /\ IF m_t + Len(s) > m_max
       THEN LET l1 == m_max - m_t
            IN /\ buf' = memcpy(memcpy(buf, m_t, s), 0, SubSeq(s, l1 + 1, Len(s)))
               /\ m_t' = Len(s) - l1
       ELSE /\ buf' = memcpy(memcpy(buf, m_t, s), m_max + m_t, s)
            /\ m_t' = IF m_t + Len(s) >= m_max THEN m_t + Len(s) - m_max ELSE m_t + Len(s)
    /\ m_q' = m_q + Len(s) /\ m_count' = m_count + Len(s) /\ taken' = taken + Len(s)
    /\ handed' = <<>> /\ UNCHANGED m_b

Read(l) ==
    /\ l <= m_q                                   \* false when there is not enough
    /\ LET crosses == m_b + l > m_max
           l1 == m_max - m_b
           b == IF crosses THEN l - l1 ELSE IF m_b + l >= m_max THEN m_b + l - m_max ELSE m_b + l
       IN /\ handed' = IF crosses THEN Bytes(buf, m_b, l1) \o Bytes(buf, 0, l - l1) ELSE Bytes(buf, m_b, l)
          /\ m_b' = IF m_q = l THEN 0 ELSE b
    /\ m_q' = m_q - l
    /\ m_t' = IF m_q = l THEN 0 ELSE m_t
    /\ UNCHANGED <<buf, m_count, taken>>

ReadInput(max_sz) == Read(IF max_sz < m_q THEN max_sz ELSE m_q)

GetL == IF m_b + m_q > m_max THEN m_max - m_b ELSE m_q

ByteCounter == m_count > 0 /\ m_count' = 0 /\ handed' = <<>> /\ UNCHANGED <<buf, m_q, m_b, m_t, taken>>

Next ==
    \/ \E l \in 1..(MaxBytes - taken) : Write([i \in 1..l |-> taken + i])
    \/ \E l \in 1..(m_max + 1) : ReadInput(l)
    \/ ByteCounter

Spec == Init /\ [][Next]_vars

-----------------------------------------------------------------------------
Newest(n) == [i \in 1..n |-> taken - n + i]

\* The buffer is a queue of the bytes it accepted, whatever the wraps: what it
\* holds is the last m_q of them, the part before the border is contiguous at
\* GetStart, and a Read hands out the bytes that come before those it leaves.
Fifo ==
    /\ [i \in 1..m_q |-> buf[(m_b + i - 1) % m_max]] = Newest(m_q)
    /\ Bytes(buf, m_b, GetL) = SubSeq(Newest(m_q), 1, GetL)
    /\ m_b \in 0..(m_max - 1) /\ m_t \in 0..(m_max - 1)
    /\ (m_b + m_q) % m_max = m_t
    /\ handed = [i \in 1..Len(handed) |-> taken - m_q - Len(handed) + i]
=============================================================================
