------------------------------- MODULE MemFile -------------------------------
(***************************************************************************)
(* src/src/Sockets-2.3.5/MemFile.cpp: a file in memory, a list of blocks   *)
(* of BLOCKSIZE bytes, with a position to read from and one to write to.   *)
(* A byte is a number that is never written twice.                         *)
(***************************************************************************)
EXTENDS Integers, Sequences, SequencesExt, FiniteSets

CONSTANTS BLOCKSIZE, MaxBytes        \* MaxBytes bounds what is written

VARIABLES heap,             \* block number -> [data, next], next 0 is NULL; m_base is 1
          current_read, current_write, current_write_nr,
          read_ptr, write_ptr, caused_eof,
          contents,         \* what was written since the position was reset
          byte,             \* the next byte
          got               \* what the last fread returned, and did it begin on its block
vars == <<heap, current_read, current_write, current_write_nr, read_ptr, write_ptr, caused_eof,
          contents, byte, got>>

Empty == [data |-> [i \in 0..(BLOCKSIZE - 1) |-> 0], next |-> 0]
Nothing == [s |-> <<>>, placed |-> TRUE]

Init ==
    /\ heap = <<Empty>> /\ current_read = 1 /\ current_write = 1 /\ current_write_nr = 0
    /\ read_ptr = 0 /\ write_ptr = 0 /\ caused_eof = FALSE
    /\ contents = <<>> /\ byte = 1 /\ got = Nothing

-----------------------------------------------------------------------------
\* A writer w is [heap, at, nr]: the list, the block written to and its number.
NewBlock(w) ==
    [heap |-> Append([w.heap EXCEPT ![w.at].next = Len(w.heap) + 1], Empty),
     at |-> Len(w.heap) + 1, nr |-> w.nr + 1]
Forward(w) ==
    IF w.heap[w.at].next # 0 THEN [w EXCEPT !.at = w.heap[w.at].next, !.nr = @ + 1] ELSE NewBlock(w)
Put(w, p, s) ==
    [w EXCEPT !.heap[w.at].data = [i \in DOMAIN @ |-> IF i \in p..(p + Len(s) - 1) THEN s[i - p + 1] ELSE @[i]]]

\* s cut where the blocks end, the first block holds p bytes already.
Pieces(p, s) ==
    LET room == BLOCKSIZE - p
        more == (Len(s) - room + BLOCKSIZE - 1) \div BLOCKSIZE
    IN IF Len(s) <= room THEN <<s>>
       ELSE <<SubSeq(s, 1, room)>>
              \o [k \in 1..more |-> SubSeq(s, room + (k - 1) * BLOCKSIZE + 1,
                                           IF k = more THEN Len(s) ELSE room + k * BLOCKSIZE)]

\* Mutant: a write that begins at a block's end goes to that block.
fwriteInPlace(s) ==
    LET p == write_ptr % BLOCKSIZE
        ps == Pieces(p, s)
        w == FoldLeft(LAMBDA v, t : Put(Forward(v), 0, t),
                      Put([heap |-> heap, at |-> current_write, nr |-> current_write_nr], p, ps[1]), Tail(ps))
    IN /\ heap' = w.heap /\ current_write' = w.at /\ current_write_nr' = w.nr
       /\ write_ptr' = write_ptr + Len(s)
       /\ contents' = contents \o s /\ byte' = byte + Len(s) /\ got' = Nothing
       /\ UNCHANGED <<current_read, read_ptr, caused_eof>>

fwrite(s) ==
    LET p == write_ptr % BLOCKSIZE
        w0 == [heap |-> heap, at |-> current_write, nr |-> current_write_nr]
        w1 == IF current_write_nr < write_ptr \div BLOCKSIZE THEN NewBlock(w0) ELSE w0
        ps == Pieces(p, s)
        w == FoldLeft(LAMBDA v, t : Put(Forward(v), 0, t), Put(w1, p, ps[1]), Tail(ps))
    IN /\ heap' = w.heap /\ current_write' = w.at /\ current_write_nr' = w.nr
       /\ write_ptr' = write_ptr + Len(s)
       /\ contents' = contents \o s /\ byte' = byte + Len(s) /\ got' = Nothing
       /\ UNCHANGED <<current_read, read_ptr, caused_eof>>

\* A reader is [at, s]: the block read from and what was read.
Take(r, p, n) == [r EXCEPT !.s = @ \o [i \in 1..n |-> heap[r.at].data[p + i - 1]]]
OneBlock(r, n) == IF heap[r.at].next = 0 THEN r ELSE Take([r EXCEPT !.at = heap[r.at].next], 0, n)

\* The reader is on the block of its position.
Placed == current_read = FoldLeft(LAMBDA b, k : IF b = 0 THEN 0 ELSE heap[b].next, 1,
                                  [k \in 1..(read_ptr \div BLOCKSIZE) |-> k])

fread(n) ==
    LET p == read_ptr % BLOCKSIZE
        sz == IF n > write_ptr - read_ptr THEN write_ptr - read_ptr ELSE n
        r0 == [at |-> current_read, s |-> <<>>]
        sz2 == sz - (BLOCKSIZE - p)
        full == IF sz2 > BLOCKSIZE THEN (sz2 - 1) \div BLOCKSIZE ELSE 0
        r == IF p + sz < BLOCKSIZE THEN Take(r0, p, sz)
             ELSE FoldLeft(LAMBDA q, k : OneBlock(q, k), Take(r0, p, BLOCKSIZE - p),
                           [k \in 1..full |-> BLOCKSIZE] \o <<sz2 - full * BLOCKSIZE>>)
    IN /\ caused_eof' = (caused_eof \/ n > write_ptr - read_ptr)
       /\ IF sz <= 0 THEN got' = Nothing /\ UNCHANGED <<current_read, read_ptr>>
          ELSE /\ got' = [s |-> r.s, placed |-> Placed]
               /\ current_read' = r.at /\ read_ptr' = read_ptr + Len(r.s)
       /\ UNCHANGED <<heap, current_write, current_write_nr, write_ptr, contents, byte>>

reset_read ==
    /\ read_ptr > 0
    /\ read_ptr' = 0 /\ current_read' = 1 /\ got' = Nothing
    /\ UNCHANGED <<heap, current_write, current_write_nr, write_ptr, caused_eof, contents, byte>>

\* The file is written again, for a reader that begins again: a reader further
\* on would see the writer behind it and available, a size_t, wrap.
reset_write ==
    /\ write_ptr > 0 /\ read_ptr = 0
    /\ write_ptr' = 0 /\ current_write' = 1 /\ current_write_nr' = 0
    /\ contents' = <<>> /\ got' = Nothing
    /\ UNCHANGED <<heap, current_read, read_ptr, caused_eof, byte>>

Next ==
    \/ \E k \in 1..(MaxBytes - byte + 1) : fwrite([i \in 1..k |-> byte + i - 1])
    \/ \E n \in 1..(2 * BLOCKSIZE + 2) : fread(n)
    \/ reset_read
    \/ reset_write

Spec == Init /\ [][Next]_vars

-----------------------------------------------------------------------------
\* A file returns what was written to it, in order and across its blocks: the
\* bytes of a read that begins on the block of its position are those at the
\* position, all that was asked for or all there is.  Nothing is said of a
\* reader that is on another block, which happens in two ways.  A read that
\* ends with the last byte of a block it did not begin in, or that has no
\* next one, stays on that block, and the reads after it return the block
\* once more (MemFile.cpp:118 to 154).  And a write that begins with a block
\* puts a new one in the place of one there was (MemFile.cpp:166), which
\* leaves a reader on the old one behind.
ReadsWritten ==
    /\ got.placed => got.s = SubSeq(contents, read_ptr - Len(got.s) + 1, read_ptr)
    /\ read_ptr <= write_ptr /\ write_ptr = Len(contents)
=============================================================================
