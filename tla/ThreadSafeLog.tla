----------------------------- MODULE ThreadSafeLog -----------------------------
(***************************************************************************)
(* The logs of thread_safe_log.h: threads put text into a stream of their  *)
(* own, a flush hands it as one message to a writer, and the thread of the *)
(* writer takes it to the file.  All logs share one writer that serves     *)
(* them by priority ("shared"), or each log has its own ("own").  The      *)
(* files, writers and logs are function-local statics: made on first use,  *)
(* destroyed at exit in the opposite order.                                *)
(***************************************************************************)
EXTENDS Integers, Sequences, SequencesExt, FiniteSetsExt

CONSTANTS Log,            \* logs 1..n, ordered as their addresses
          Thread,
          Priority,       \* nPriority of each log
          Many, Part,     \* above Many messages, one in Part is taken at once
          MaxPieces       \* bound: pieces of text of a thread

VARIABLES kind,
          order,          \* the statics, in the order of their construction
          slots,          \* m_aWritesTo, counted from 0
          idxWrite,
          queue,          \* m_astr, or m_astrMessages
          held,           \* what each writer has taken and not yet written
          destructing, finished,    \* m_bShouldBeDestructed, m_bHasFinished
          stream,         \* each thread's temporary, <<>> for none: [log, text]
          pieces,         \* the pieces that each thread has written
          file, flushed,  \* the messages in each file, how many are flushed
          open,           \* the files that are open
          exiting,
          given,          \* history: the messages handed over to each log
          outlives        \* history: the logs whose file was made before their writer
work == <<slots, idxWrite, queue, held, destructing, finished>>
files == <<file, flushed, open>>
history == <<given, outlives>>
vars == <<kind, order, work, stream, pieces, files, exiting, history>>

Shared == 0
Writer == {Shared} \union Log
WriterOf(l) == IF kind = "shared" THEN Shared ELSE l
Made(what, l) == Contains(order, <<what, l>>)

Init ==
    /\ kind \in {"shared", "own"} /\ order = <<>> /\ slots = <<>> /\ idxWrite = 0
    /\ queue = [l \in Log |-> <<>>] /\ held = [w \in Writer |-> <<>>]
    /\ destructing = {} /\ finished = {}
    /\ stream = [t \in Thread |-> <<>>] /\ pieces = [t \in Thread |-> 0]
    /\ file = [l \in Log |-> <<>>] /\ flushed = [l \in Log |-> 0] /\ open = {}
    /\ exiting = FALSE /\ given = [l \in Log |-> <<>>] /\ outlives = {}

-----------------------------------------------------------------------------
\* add_log: the logs share Sum slots, each one spread over as many as its
\* priority, from the spot it asks for to the next empty one.
Sum(logs) == FoldSet(LAMBDA l, s : s + Priority[l], 0, logs)
Place(a, n, at, l) == LET free == CHOOSE k \in 0 .. n - 1 :
                                     /\ a[(at + k) % n] = 0
                                     /\ \A j \in 0 .. k - 1 : a[(at + j) % n] # 0
                      IN [a EXCEPT ![(at + free) % n] = l]
Spread(a, n, l) == FoldLeftDomain(LAMBDA b, idx : Place(b, n, ((idx - 1) * n) \div Priority[l], l),
                                  a, [i \in 1 .. Priority[l] |-> i])
add_log(logs) ==
    LET n == Sum(logs)
        sorted == SetToSortSeq(logs, LAMBDA a, b : a < b)
    IN FoldLeft(LAMBDA a, l : Spread(a, n, l), [i \in 0 .. n - 1 |-> 0], sorted)

\* get_log: the first call for a log makes its file, the writer where there is
\* none yet, and the log; every call makes a stream for the caller.
GetLog(t, l) ==
    /\ ~exiting /\ stream[t] = <<>> /\ pieces[t] < MaxPieces
    /\ stream' = [stream EXCEPT ![t] = [log |-> l, text |-> <<>>]]
    /\ IF Made("log", l) THEN UNCHANGED <<order, slots, idxWrite, open, outlives>>
       ELSE /\ order' = order \o <<<<"file", l>>>>
                        \o (IF Made("writer", WriterOf(l)) THEN <<>> ELSE <<<<"writer", WriterOf(l)>>>>)
                        \o <<<<"log", l>>>>
            /\ open' = open \union {l}
            /\ outlives' = IF Made("writer", WriterOf(l)) THEN outlives ELSE outlives \union {l}
            /\ IF kind = "shared"
               THEN /\ slots' = add_log({l} \union {k \in Log : Made("log", k)})
                    /\ idxWrite' = 0
               ELSE UNCHANGED <<slots, idxWrite>>
    /\ UNCHANGED <<kind, queue, held, destructing, finished, pieces, file, flushed, exiting, given>>

\* overflow, xsputn: text stays with the caller.
Put(t) ==
    /\ stream[t] # <<>> /\ pieces[t] < MaxPieces
    /\ pieces' = [pieces EXCEPT ![t] = @ + 1]
    /\ stream' = [stream EXCEPT ![t].text = Append(@, <<t, pieces[t] + 1>>)]
    /\ UNCHANGED <<kind, order, work, files, exiting, history>>

add_message(l, str) == queue' = [queue EXCEPT ![l] = Append(@, str)]

\* sync: the text becomes one message, unless it is empty.
Sync(t) ==
    /\ stream[t] # <<>> /\ stream[t].text # <<>>
    /\ add_message(stream[t].log, stream[t].text)
    /\ given' = [given EXCEPT ![stream[t].log] = Append(@, stream[t].text)]
    /\ stream' = [stream EXCEPT ![t].text = <<>>]
    /\ UNCHANGED <<kind, order, slots, idxWrite, held, destructing, finished, pieces, files, exiting, outlives>>

\* ~basic_thread_safe_log drops what has not been flushed.
Release(t) ==
    /\ stream[t] # <<>> /\ stream' = [stream EXCEPT ![t] = <<>>]
    /\ UNCHANGED <<kind, order, work, pieces, files, exiting, history>>

-----------------------------------------------------------------------------
\* The thread of a writer.  The shared one looks from idxWrite on for a log
\* with messages; it stays there until that log has no more.
Busy(i) == queue[slots[i]] # <<>>
NextSlot ==
    LET n == Cardinality(DOMAIN slots)
        ahead == {k \in 0 .. n - 1 : Busy((idxWrite + k) % n)}
    IN IF ahead = {} THEN idxWrite
       ELSE (idxWrite + (CHOOSE k \in ahead : \A j \in ahead : k <= j)) % n
Batch(l) == IF kind = "shared" /\ Len(queue[l]) > Many THEN Len(queue[l]) \div Part ELSE 1

\* One pass under the lock.  A shared writer without logs never gets beyond
\* its first test.
Running(w) == Made("writer", w) /\ w \notin finished /\ held[w] = <<>>
              /\ (w = Shared => slots # <<>>)
Current(w) == IF w = Shared THEN slots[NextSlot] ELSE w
Take(w) ==
    /\ Running(w)
    /\ idxWrite' = IF w = Shared THEN NextSlot ELSE idxWrite
    /\ LET l == Current(w)
           rest == SubSeq(queue[l], Batch(l) + 1, Len(queue[l])) IN
       /\ queue[l] # <<>> /\ queue' = [queue EXCEPT ![l] = rest]
       /\ held' = [held EXCEPT ![w] = [log |-> l, msgs |-> SubSeq(queue[l], 1, Batch(l)), flush |-> rest = <<>>]]
    /\ UNCHANGED <<kind, order, slots, destructing, finished, stream, pieces, files, exiting, history>>
FinishAtOnce(w) ==
    /\ Running(w) /\ w \in destructing /\ finished' = finished \union {w}
    /\ UNCHANGED <<kind, order, slots, idxWrite, queue, held, destructing, stream, pieces, files, exiting, history>>
Finish(w) ==
    /\ Running(w) /\ queue[Current(w)] = <<>> /\ w \in destructing
    /\ finished' = finished \union {w}
    /\ UNCHANGED <<kind, order, slots, idxWrite, queue, held, destructing, stream, pieces, files, exiting, history>>

\* The messages go to the file after the lock is released; to a stream that
\* has been destroyed they are lost.
WriteNoFlush(w) ==
    /\ held[w] # <<>> /\ held' = [held EXCEPT ![w] = <<>>]
    /\ file' = IF held[w].log \in open THEN [file EXCEPT ![held[w].log] = @ \o held[w].msgs] ELSE file
    /\ UNCHANGED <<kind, order, slots, idxWrite, queue, destructing, finished, stream, pieces, flushed, open, exiting, history>>
Write(w) ==
    /\ held[w] # <<>> /\ held' = [held EXCEPT ![w] = <<>>]
    /\ LET l == held[w].log IN
       IF l \notin open THEN UNCHANGED <<file, flushed>>
       ELSE /\ file' = [file EXCEPT ![l] = @ \o held[w].msgs]
            /\ flushed' = IF held[w].flush THEN [flushed EXCEPT ![l] = Len(file'[l])] ELSE flushed
    /\ UNCHANGED <<kind, order, slots, idxWrite, queue, destructing, finished, stream, pieces, open, exiting, history>>

-----------------------------------------------------------------------------
\* Exit, when every stream is gone: the statics are destroyed from the last
\* one made to the first.
Exit ==
    /\ ~exiting /\ order # <<>> /\ \A t \in Thread : stream[t] = <<>>
    /\ exiting' = TRUE /\ UNCHANGED <<kind, order, work, stream, pieces, files, history>>
Static == Last(order)
Pop == order' = Front(order)

\* ~basic_thread_safe_log_writer_sharethread tells its thread and waits for it.
Tell ==
    /\ exiting /\ order # <<>> /\ Static[1] = "writer" /\ Static[2] \notin destructing
    /\ destructing' = destructing \union {Static[2]}
    /\ UNCHANGED <<kind, order, slots, idxWrite, queue, held, finished, stream, pieces, files, exiting, history>>
Destroy ==
    /\ exiting /\ order # <<>> /\ (Static[1] = "writer" => Static[2] \in finished) /\ Pop
    /\ open' = IF Static[1] = "file" THEN open \ {Static[2]} ELSE open
    /\ UNCHANGED <<kind, work, stream, pieces, file, flushed, exiting, history>>

Next == \/ \E t \in Thread : Put(t) \/ Sync(t) \/ Release(t) \/ \E l \in Log : GetLog(t, l)
        \/ \E w \in Writer : Take(w) \/ Finish(w) \/ Write(w)
        \/ Exit \/ Tell \/ Destroy
Spec == Init /\ [][Next]_vars

-----------------------------------------------------------------------------
Held(l) == IF held[WriterOf(l)] # <<>> /\ held[WriterOf(l)].log = l THEN held[WriterOf(l)].msgs ELSE <<>>

\* Every log gets as many of the slots of m_aWritesTo as its priority, so the
\* thread of the shared writer reaches all of them and no empty one
\* (basic_thread_safe_log_writer_sharethread::add_log, operator()).
SlotsShared ==
    kind = "shared" =>
        /\ \A i \in DOMAIN slots : slots[i] # 0
        /\ \A l \in Log : Made("log", l) => Cardinality({i \in DOMAIN slots : slots[i] = l}) = Priority[l]

\* A message given to a log whose file is open is in the file, with the
\* writer or in the queue: once, in the order given and in one piece, and a
\* file with nothing on its way has been flushed (operator(), add_message).
MessagesInOrder ==
    \A l \in open : /\ given[l] = file[l] \o Held(l) \o queue[l]
                    /\ Held(l) \o queue[l] = <<>> => flushed[l] = Len(given[l])

\* A file that was made before its writer, as the file of every log with a
\* writer of its own and that of the first log of a shared one, has every
\* message when the writer has ended (~thread_safe_log_writer_ownthread,
\* ~basic_thread_safe_log_writer_sharethread).  The file of a later log of the
\* shared writer is destroyed before the writer has ended: what is still on
\* its way then is written to a stream that is gone, and nothing is said of it.
FileComplete ==
    \A l \in Log : exiting /\ ~Made("writer", WriterOf(l)) /\ (kind = "own" \/ l \in outlives)
                   => file[l] = given[l]
=============================================================================
