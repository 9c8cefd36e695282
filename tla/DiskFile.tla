------------------------------ MODULE DiskFile ------------------------------
(***************************************************************************)
(* src/src/Sockets-2.3.5/File.cpp: a stdio file with a position to read    *)
(* from and one to write to, over the one position of the FILE.  A byte is *)
(* a number, NewLine ends a line and a hole in the file reads as 0.        *)
(***************************************************************************)
EXTENDS Naturals, Sequences

CONSTANTS MaxBytes, MaxOpens      \* bounds on what is written and on fopen

NewLine == 10

VARIABLES disk,             \* path -> contents
          path, m_fil,      \* m_path, and whether the FILE is open
          streams,          \* FILEs the process has open
          pos,              \* the FILE's position
          m_rptr, m_wptr,
          byte, opens,      \* the next byte to write, calls of fopen
          written, got,     \* written to, and read from this file in order
          plain             \* opened with both positions 0, never fprintf'd
vars == <<disk, path, m_fil, streams, pos, m_rptr, m_wptr, byte, opens, written, got, plain>>

Paths == {"p", "q"}

Init ==
    /\ disk = [p \in Paths |-> <<>>] /\ path = "p" /\ m_fil = FALSE /\ streams = 0
    /\ pos = 0 /\ m_rptr = 0 /\ m_wptr = 0 /\ byte = 1 /\ opens = 0
    /\ written = <<>> /\ got = <<>> /\ plain = FALSE

-----------------------------------------------------------------------------
At(text, k) == IF k <= Len(text) THEN text[k] ELSE 0

\* The contents after s was written at position at.
Put(text, at, s) ==
    [k \in 1 .. (IF at + Len(s) > Len(text) THEN at + Len(s) ELSE Len(text)) |->
        IF k > at /\ k <= at + Len(s) THEN s[k - at] ELSE At(text, k)]

\* Mode w+ : the file is emptied, and the two positions stay what they were.
fopen(p) ==
    /\ ~m_fil /\ opens < MaxOpens
    /\ disk' = [disk EXCEPT ![p] = <<>>]
    /\ path' = p /\ m_fil' = TRUE /\ streams' = streams + 1 /\ pos' = 0
    /\ opens' = opens + 1
    /\ written' = <<>> /\ got' = <<>> /\ plain' = (m_rptr = 0 /\ m_wptr = 0)
    /\ UNCHANGED <<m_rptr, m_wptr, byte>>

fcloseKept ==
    /\ m_fil
    /\ m_fil' = FALSE
    /\ UNCHANGED <<disk, path, streams, pos, m_rptr, m_wptr, byte, opens, written, got, plain>>

fclose ==
    /\ m_fil
    /\ m_fil' = FALSE /\ streams' = streams - 1
    /\ UNCHANGED <<disk, path, pos, m_rptr, m_wptr, byte, opens, written, got, plain>>

fwrite(s) ==
    /\ m_fil
    /\ disk' = [disk EXCEPT ![path] = Put(@, m_wptr, s)]
    /\ pos' = m_wptr + Len(s) /\ m_wptr' = m_wptr + Len(s)
    /\ written' = written \o s /\ byte' = byte + 1
    /\ UNCHANGED <<path, m_fil, streams, m_rptr, opens, got, plain>>

Upto(from, n) ==
    LET text == disk[path] IN
    SubSeq(text, from + 1, IF from + n < Len(text) THEN from + n ELSE Len(text))

\* Without the fseek the read begins where the last write ended.
freadUnsought(n) ==
    /\ m_fil
    /\ got' = got \o Upto(pos, n)
    /\ pos' = pos + Len(Upto(pos, n)) /\ m_rptr' = pos + Len(Upto(pos, n))
    /\ UNCHANGED <<disk, path, m_fil, streams, m_wptr, byte, opens, written, plain>>

fread(n) ==
    LET s == Upto(m_rptr, n) IN
    /\ m_fil
    /\ got' = got \o s
    /\ pos' = m_rptr + Len(s) /\ m_rptr' = m_rptr + Len(s)
    /\ UNCHANGED <<disk, path, m_fil, streams, m_wptr, byte, opens, written, plain>>

\* A line, or as much of it as size - 1 bytes hold.
fgets(size) ==
    LET all == Upto(m_rptr, size - 1)
        ends == {k \in DOMAIN all : all[k] = NewLine}
        n == IF ends = {} THEN Len(all) ELSE CHOOSE k \in ends : \A j \in ends : k <= j
    IN  fread(n)

\* fprintf writes at the position to read from.
fprintf(s) ==
    /\ m_fil
    /\ disk' = [disk EXCEPT ![path] = Put(@, m_rptr, s)]
    /\ pos' = m_rptr + Len(s) /\ m_rptr' = m_rptr + Len(s)
    /\ byte' = byte + 1 /\ plain' = FALSE
    /\ UNCHANGED <<path, m_fil, streams, m_wptr, opens, written, got>>

reset_read ==
    /\ m_rptr # 0
    /\ m_rptr' = 0 /\ got' = <<>>
    /\ UNCHANGED <<disk, path, m_fil, streams, pos, m_wptr, byte, opens, written, plain>>

\* On a closed file: the next one is written from its beginning.
reset_write ==
    /\ ~m_fil /\ m_wptr # 0
    /\ m_wptr' = 0
    /\ UNCHANGED <<disk, path, m_fil, streams, pos, m_rptr, byte, opens, written, got, plain>>

Next ==
    \/ \E p \in Paths : fopen(p)
    \/ fclose \/ reset_read \/ reset_write
    \/ /\ byte <= MaxBytes
       /\ \/ fwrite(<<byte, byte>>) \/ fwrite(<<byte, NewLine>>) \/ fprintf(<<byte>>)
    \/ \E n \in {1, 3} : fread(n) \/ fgets(n + 1)

Spec == Init /\ [][Next]_vars

-----------------------------------------------------------------------------
\* What is read is what was written, from the beginning and in order, however
\* reads and writes alternate on the FILE's one position - for a file opened
\* with both positions at 0 (fopen does not reset them) that fprintf, which
\* writes at the position to read from, was not used on (File::fread, fwrite).
FileInOrder ==
    plain => /\ disk[path] = written
             /\ got = SubSeq(written, 1, m_rptr)

\* The process has one FILE open, or none: fclose gives it back.
OneStream == streams = IF m_fil THEN 1 ELSE 0
=============================================================================
