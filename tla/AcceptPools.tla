------------------------------ MODULE AcceptPools ------------------------------
(***************************************************************************)
(* The servers that came before Server and SimpleScheduler, still in the   *)
(* tree and used by its tests:                                             *)
(*  - "single": singleacceptthreadpool.h, one thread accepts, a pool runs  *)
(*    the handlers, a Monitor resizes it and ends the accept loop;         *)
(*  - "shared": sharedmutexthreadpool.h and blockingacceptnoqueue.h, every *)
(*    worker accepts under one mutex and handles what it has accepted;     *)
(*  - "queue": prethreadedserver.cpp and blockingaccept.cpp, the acceptor  *)
(*    fills a TQueue from which a second thread feeds the pool.            *)
(* The handler is TestRequestHandler (requesthandler.cpp).                 *)
(***************************************************************************)
EXTENDS Integers, Sequences, FiniteSets, FiniteSetTheorems, TLAPS

CONSTANTS Conn, Fd,               \* clients, descriptors (small numbers)
          PoolSize, MinSize, MaxSize,
          MaxTicks                \* bound: periods of the Monitor

VARIABLES kind, pc,               \* the accepting thread
          peer,                   \* the clients: "idle", "open", "closed", "reset"
          fdOf,                   \* their descriptors, 0 for none
          at,                     \* where a connection is: see Place
          tqueue, tasks,          \* the TQueue, the queue of the pool
          sockets, shut,          \* _sockets, the connections shut down
          todo,                   \* entries of _sockets that run() has to look at
          busy, maxBusy, last, size, ticks,   \* the Monitor
          spinning                \* handlers without a connection that never end
net == <<peer, fdOf>>
mon == <<busy, maxBusy, last, size, ticks>>
vars == <<kind, pc, net, at, tqueue, tasks, sockets, shut, todo, mon, spinning>>

Place == {"none", "queued", "running", "spinning", "done"}
Running == {c \in Conn : at[c] \in {"running", "spinning"}}
Free == {f \in Fd : \A c \in Conn : fdOf[c] # f}

Init ==
    /\ kind \in {"single", "shared", "queue"} /\ pc = "accept"
    /\ peer = [c \in Conn |-> "idle"] /\ fdOf = [c \in Conn |-> 0] /\ at = [c \in Conn |-> "none"]
    /\ tqueue = <<>> /\ tasks = <<>> /\ sockets = <<>> /\ shut = {} /\ todo = {}
    /\ busy = 0 /\ maxBusy = 0 /\ last = 0 /\ size = PoolSize /\ ticks = 0 /\ spinning = 0

-----------------------------------------------------------------------------
\* The clients connect, close or reset.
Connect(c) == peer[c] = "idle" /\ peer' = [peer EXCEPT ![c] = "open"]
              /\ UNCHANGED <<kind, pc, fdOf, at, tqueue, tasks, sockets, shut, todo, mon, spinning>>
Hangup(c) == peer[c] = "open" /\ \E how \in {"closed", "reset"} : peer' = [peer EXCEPT ![c] = how]
             /\ UNCHANGED <<kind, pc, fdOf, at, tqueue, tasks, sockets, shut, todo, mon, spinning>>

\* accept() returns the lowest descriptor that is free.
NewFd(c) ==
    /\ at[c] = "none" /\ peer[c] # "idle" /\ Free # {}
    /\ fdOf' = [fdOf EXCEPT ![c] = CHOOSE f \in Free : \A g \in Free : f <= g]

\* map::insert keeps the entry of an earlier connection with the descriptor.
Insert(fd, c) == [f \in DOMAIN sockets \cup {fd} |-> IF f \in DOMAIN sockets THEN sockets[f] ELSE c]

\* After the first period of the Monitor accept() only fails.
AcceptSingle(c) ==
    /\ kind = "single" /\ pc = "accept" /\ ticks = 0 /\ NewFd(c)
    /\ sockets' = Insert(fdOf'[c], c) /\ tasks' = Append(tasks, c)
    /\ at' = [at EXCEPT ![c] = "queued"]
    /\ UNCHANGED <<kind, pc, peer, tqueue, shut, todo, mon, spinning>>

AcceptQueue(c) ==
    /\ kind = "queue" /\ NewFd(c)
    /\ tqueue' = Append(tqueue, c) /\ at' = [at EXCEPT ![c] = "queued"]
    /\ UNCHANGED <<kind, pc, peer, tasks, sockets, shut, todo, mon, spinning>>
Get ==
    /\ tqueue # <<>> /\ tqueue' = Tail(tqueue) /\ tasks' = Append(tasks, Head(tqueue))
    /\ UNCHANGED <<kind, pc, net, at, sockets, shut, todo, mon, spinning>>

\* A worker that holds the mutex accepts, releases it and handles.
AcceptShared(c) ==
    /\ kind = "shared" /\ NewFd(c) /\ Cardinality(Running) + spinning < PoolSize
    /\ at' = [at EXCEPT ![c] = "running"]
    /\ UNCHANGED <<kind, pc, peer, tqueue, tasks, sockets, shut, todo, mon, spinning>>

\* accept() fails.  A worker handles the -1 it got as it does a descriptor,
\* and so does the pool behind the TQueue: readline never returns 0 for it.
AcceptFails ==
    /\ \/ kind = "single" /\ pc = "accept" /\ pc' = "interrupt" /\ UNCHANGED spinning
       \/ kind # "single" /\ Cardinality(Running) + spinning < PoolSize
          /\ spinning' = spinning + 1 /\ UNCHANGED pc
    /\ UNCHANGED <<kind, net, at, tqueue, tasks, sockets, shut, todo, mon>>

-----------------------------------------------------------------------------
addHandler == busy' = busy + 1 /\ maxBusy' = IF busy' > maxBusy THEN busy' ELSE maxBusy
\* Mutant: a handler that ends is not taken off.
removeHandlerNot == UNCHANGED busy
removeHandler == busy' = busy - 1

\* A thread of the pool begins a handler.
Start ==
    /\ tasks # <<>> /\ Cardinality(Running) + spinning < size
    /\ at' = [at EXCEPT ![Head(tasks)] = "running"] /\ tasks' = Tail(tasks)
    /\ IF kind = "single" THEN addHandler ELSE UNCHANGED <<busy, maxBusy>>
    /\ UNCHANGED <<kind, pc, net, tqueue, sockets, shut, todo, last, size, ticks, spinning>>

\* readline returns 0: the client has closed or the socket was shut down.
EndOfInput(c) ==
    /\ at[c] = "running" /\ (peer[c] = "closed" \/ c \in shut)
    /\ at' = [at EXCEPT ![c] = "done"] /\ fdOf' = [fdOf EXCEPT ![c] = 0]
    /\ IF kind = "single" THEN removeHandler ELSE UNCHANGED busy
    /\ UNCHANGED <<kind, pc, peer, tqueue, tasks, sockets, shut, todo, maxBusy, last, size, ticks, spinning>>

\* readline returns -1: the loop ends for 0 only.
ReadError(c) ==
    /\ at[c] = "running" /\ peer[c] = "reset" /\ c \notin shut
    /\ at' = [at EXCEPT ![c] = "spinning"]
    /\ UNCHANGED <<kind, pc, net, tqueue, tasks, sockets, shut, todo, mon, spinning>>

-----------------------------------------------------------------------------
Least(a, b) == IF a < b THEN a ELSE b
Most(a, b) == IF a > b THEN a ELSE b

\* Mutant: the pool grows to the maximum and beyond.
NewSizeUnbounded(current) ==
    IF current > (size * 8) \div 10 THEN size + (size * 8) \div 10
    ELSE IF current < (size * 5) \div 10 THEN Most(MinSize, size - (size * 5) \div 10) ELSE 0
NewSize(current) ==
    IF current > (size * 8) \div 10 THEN Least(MaxSize, size + (size * 8) \div 10)
    ELSE IF current < (size * 5) \div 10 THEN Most(MinSize, size - (size * 5) \div 10) ELSE 0

\* Monitor::run after its sleep: it shuts the listening socket down, which
\* ends accept(), and resizes the pool.
Tick ==
    /\ kind = "single" /\ pc # "done" /\ ticks < MaxTicks /\ ticks' = ticks + 1
    /\ maxBusy' = 0
    /\ IF maxBusy = last \/ NewSize(maxBusy) = 0 THEN UNCHANGED <<last, size>>
       ELSE last' = maxBusy /\ size' = NewSize(maxBusy)
    /\ UNCHANGED <<kind, pc, net, at, tqueue, tasks, sockets, shut, todo, busy, spinning>>

-----------------------------------------------------------------------------
\* Mutant: the handlers are waited for, and not told.
InterruptUntold ==
    /\ pc = "interrupt" /\ pc' = "shutdown" /\ todo' = {}
    /\ UNCHANGED <<kind, net, at, tqueue, tasks, sockets, shut, mon, spinning>>

\* run() after an exception: the monitor and the listener are ended, every
\* socket in _sockets that is open is shut down, and the pool waited for.
Interrupt ==
    /\ pc = "interrupt" /\ pc' = "shutdown" /\ todo' = DOMAIN sockets
    /\ UNCHANGED <<kind, net, at, tqueue, tasks, sockets, shut, mon, spinning>>
ShutdownOne ==
    /\ pc = "shutdown" /\ \E f \in todo :
         /\ todo' = todo \ {f}
         /\ shut' = IF fdOf[sockets[f]] # 0 THEN shut \cup {sockets[f]} ELSE shut
    /\ UNCHANGED <<kind, pc, net, at, tqueue, tasks, sockets, mon, spinning>>
Cleared ==
    /\ pc = "shutdown" /\ todo = {} /\ pc' = "wait" /\ sockets' = <<>>
    /\ UNCHANGED <<kind, net, at, tqueue, tasks, shut, todo, mon, spinning>>
Return ==
    /\ pc = "wait" /\ tasks = <<>> /\ Running = {} /\ pc' = "done"
    /\ UNCHANGED <<kind, net, at, tqueue, tasks, sockets, shut, todo, mon, spinning>>

Next ==
    \/ \E c \in Conn : Connect(c) \/ Hangup(c) \/ AcceptSingle(c) \/ AcceptQueue(c) \/ AcceptShared(c)
                       \/ EndOfInput(c) \/ ReadError(c)
    \/ Get \/ AcceptFails \/ Start \/ Tick \/ Interrupt \/ ShutdownOne \/ Cleared \/ Return
Spec == Init /\ [][Next]_vars

-----------------------------------------------------------------------------
Times(q, c) == Cardinality({i \in DOMAIN q : q[i] = c})

\* Every connection that was accepted is in one queue, once, or handled; it
\* has its descriptor until it is done, and nobody else has it.  The Monitor
\* counts the handlers that have begun and not ended.
HandledOnce ==
    /\ at \in [Conn -> Place]
    /\ \A c \in Conn : /\ (fdOf[c] # 0) = (at[c] \in {"queued", "running", "spinning"})
                       /\ \A d \in Conn : c # d /\ fdOf[c] # 0 => fdOf[c] # fdOf[d]
                       /\ Times(tqueue, c) + Times(tasks, c) = IF at[c] = "queued" THEN 1 ELSE 0
    /\ kind = "single" => busy = Cardinality(Running)
    /\ pc = "done" => Running = {}

\* _sockets has an earlier connection, which is done, under the descriptor.
Shadowed(c) ==
    /\ fdOf[c] \in DOMAIN sockets /\ sockets[fdOf[c]] # c
    /\ at[sockets[fdOf[c]]] = "done"

\* When run() has been through _sockets, every connection that has not ended
\* was told to end, but one: insert() leaves the entry of an earlier connection
\* under the same descriptor in place, and run() then waits for the client of
\* the later one.
ShutdownReaches ==
    pc = "shutdown" /\ todo = {} =>
        \A c \in Conn : fdOf[c] # 0 => c \in shut \/ Shadowed(c)

\* The pool stays between the smaller and the larger of its first size and the
\* limits it was given.
SizeBounded == size \in Least(MinSize, PoolSize)..Most(MaxSize, PoolSize)

-----------------------------------------------------------------------------
(***************************************************************************)
(* The three properties hold for any connections, descriptors and sizes.   *)
(* The inductive invariant says where a connection can be: in one queue at *)
(* one place, or with a handler, with a descriptor nobody else has, and in *)
(* _sockets under it unless a connection that is done is there.            *)
(***************************************************************************)
(* A set of natural numbers has a least element.                           *)
LEMMA LeastNatural ==
    ASSUME NEW S \in SUBSET Nat, S # {}
    PROVE  \E m \in S : \A k \in S : m <= k
<1> DEFINE R == OpToRel(<, Nat)
<1>1. R = {p \in Nat \X Nat : p[1] < p[2]}
  BY Zenon DEF OpToRel
<1>2. IsWellFoundedOn(R, Nat)
  BY Zenon, NatLessThanWellFounded, Zenon
<1> HIDE DEF R
<1>3. PICK m \in S : \A k \in S : ~(<<k, m>> \in R)
  BY Zenon, <1>2, WFMin
<1>4. \A k \in S : ~(k < m)
  BY Zenon, <1>1, <1>3
<1> QED
  BY <1>4

\* 0 stands for no descriptor, and the limits of the pool are in order.
AcceptConstants ==
    /\ IsFiniteSet(Conn) /\ Fd \subseteq Nat \ {0}
    /\ PoolSize \in Nat /\ MinSize \in Nat /\ MaxSize \in Nat /\ MinSize <= MaxSize

Listed(q, c) == \E i \in DOMAIN q : q[i] = c
Distinct(q) == \A i, j \in DOMAIN q : q[i] = q[j] => i = j
Holds(c) == at[c] \in {"queued", "running", "spinning"}

AcceptTyped ==
    /\ kind \in {"single", "shared", "queue"}
    /\ pc \in {"accept", "interrupt", "shutdown", "wait", "done"}
    /\ at \in [Conn -> Place] /\ fdOf \in [Conn -> Nat]
    /\ tqueue \in Seq(Conn) /\ tasks \in Seq(Conn)
AcceptDescriptors ==
    \A c \in Conn : /\ fdOf[c] # 0 <=> Holds(c)
                    /\ \A d \in Conn : c # d /\ fdOf[c] # 0 => fdOf[c] # fdOf[d]
\* An accepted connection waits at one place of one queue.
AcceptQueues ==
    /\ Distinct(tqueue) /\ Distinct(tasks)
    /\ \A c \in Conn : /\ (at[c] = "queued") <=> (Listed(tqueue, c) \/ Listed(tasks, c))
                       /\ ~(Listed(tqueue, c) /\ Listed(tasks, c))
AcceptHandlers ==
    /\ kind = "single" => busy = Cardinality(Running) /\ tqueue = <<>>
    /\ pc # "accept" => kind = "single"
    /\ pc = "done" => Running = {} /\ tasks = <<>>
\* The entry of a descriptor is its connection or one that is done, and the
\* loop that shuts them down comes to every connection that has its own entry.
Entered(c) == fdOf[c] \in DOMAIN sockets /\ sockets[fdOf[c]] = c
Reached(c) ==
    \/ c \in shut \/ Shadowed(c)
    \/ pc \in {"accept", "interrupt"} /\ Entered(c)
    \/ pc = "shutdown" /\ Entered(c) /\ fdOf[c] \in todo
    \/ pc \in {"wait", "done"}
AcceptSockets ==
    /\ \A f \in DOMAIN sockets : f # 0 /\ sockets[f] \in Conn /\ (fdOf[sockets[f]] = f \/ at[sockets[f]] = "done")
    /\ kind = "single" => \A c \in Conn : fdOf[c] # 0 => Reached(c)
AcceptInv ==
    AcceptTyped /\ AcceptDescriptors /\ AcceptQueues /\ AcceptHandlers /\ AcceptSockets /\ SizeBounded

(* The servers begin with no connection, and the pool with its first size. *)
LEMMA AcceptInit ==
    ASSUME AcceptConstants, Init
    PROVE  AcceptInv
<1>1. AcceptTyped
  <2>1. <<>> \in Seq(Conn)
    OBVIOUS
  <2> QED
    BY Zenon, <2>1 DEF AcceptTyped, Init, Place
<1>2. AcceptDescriptors /\ AcceptQueues /\ AcceptSockets
  BY DEF AcceptDescriptors, AcceptQueues, AcceptSockets, Holds, Listed, Distinct, Init
<1>3. Running = {}
  BY Zenon DEF Running, Init
<1>4. AcceptHandlers
  BY Zenon, <1>3, FS_EmptySet DEF AcceptHandlers, Init
<1>5. SizeBounded
  BY DEF SizeBounded, Init, Least, Most, AcceptConstants
<1> QED
  BY Zenon, <1>1, <1>2, <1>4, <1>5 DEF AcceptInv

\* What the two ends of a queue do to its entries.
LEMMA QueueAppend ==
    ASSUME NEW T, NEW q \in Seq(T), NEW c \in T
    PROVE  /\ Append(q, c) \in Seq(T)
           /\ \A d : Listed(Append(q, c), d) <=> Listed(q, d) \/ d = c
           /\ Distinct(q) /\ ~Listed(q, c) => Distinct(Append(q, c))
<1>1. /\ Append(q, c) \in Seq(T) /\ DOMAIN q = 1..Len(q) /\ DOMAIN Append(q, c) = 1..(Len(q) + 1) /\ Len(q) \in Nat
      /\ Append(q, c)[Len(q) + 1] = c
  OBVIOUS
<1>2. \A i \in DOMAIN q : i \in DOMAIN Append(q, c) /\ Append(q, c)[i] = q[i]
  BY <1>1
<1>3. Len(q) + 1 \in DOMAIN Append(q, c) /\ \A i \in DOMAIN Append(q, c) : i = Len(q) + 1 \/ i \in DOMAIN q
  BY <1>1
<1>4. \A d : Listed(Append(q, c), d) <=> Listed(q, d) \/ d = c
  BY Zenon, <1>1, <1>2, <1>3 DEF Listed
<1>5. Distinct(q) /\ ~Listed(q, c) => Distinct(Append(q, c))
  BY Zenon, <1>1, <1>2, <1>3 DEF Listed, Distinct
<1> QED
  BY Zenon, <1>1, <1>4, <1>5

(* Taking the first entry of a queue takes that one only.                  *)
LEMMA QueueTail ==
    ASSUME NEW T, NEW q \in Seq(T), q # <<>>
    PROVE  /\ Tail(q) \in Seq(T) /\ Head(q) \in T /\ Listed(q, Head(q))
           /\ \A d : Listed(q, d) <=> Listed(Tail(q), d) \/ d = Head(q)
           /\ Distinct(q) => Distinct(Tail(q)) /\ ~Listed(Tail(q), Head(q))
<1>1. /\ Tail(q) \in Seq(T) /\ Head(q) = q[1] /\ Head(q) \in T /\ DOMAIN q = 1..Len(q) /\ Len(q) \in Nat
      /\ DOMAIN Tail(q) = 1..(Len(q) - 1) /\ 1 \in DOMAIN q
  OBVIOUS
<1>2. \A i \in DOMAIN Tail(q) : i + 1 \in DOMAIN q /\ Tail(q)[i] = q[i + 1] /\ i + 1 # 1 /\ i \in Nat
  BY <1>1
<1>3. \A i \in DOMAIN q : i = 1 \/ (i - 1 \in DOMAIN Tail(q) /\ Tail(q)[i - 1] = q[i])
  BY <1>1
<1>4. Listed(q, Head(q))
  BY Zenon, <1>1 DEF Listed
<1>5. \A d : Listed(q, d) <=> Listed(Tail(q), d) \/ d = Head(q)
  BY ZenonT(60), <1>1, <1>2, <1>3 DEF Listed
<1>6. Distinct(q) => Distinct(Tail(q)) /\ ~Listed(Tail(q), Head(q))
  BY <1>1, <1>2 DEF Listed, Distinct
<1> QED
  BY Zenon, <1>1, <1>4, <1>5, <1>6

\* A descriptor that accept() hands out is nobody's.
LEMMA AcceptFd ==
    ASSUME AcceptConstants, AcceptInv, NEW c \in Conn, NewFd(c)
    PROVE  /\ at[c] = "none" /\ fdOf[c] = 0
           /\ \E f \in Nat \ {0} : fdOf' = [fdOf EXCEPT ![c] = f] /\ \A d \in Conn : fdOf[d] # f
<1> DEFINE f == CHOOSE g \in Free : \A h \in Free : g <= h
<1>1. Free \subseteq Fd /\ Free # {} /\ Free \subseteq Nat
  BY Zenon DEF Free, NewFd, AcceptConstants
<1>2. \E g \in Free : \A h \in Free : g <= h
  BY Zenon, <1>1, LeastNatural
<1>3. f \in Free
  BY Zenon, <1>2
<1>4. f \in Nat \ {0} /\ \A d \in Conn : fdOf[d] # f
  BY Zenon, <1>1, <1>3 DEF Free, AcceptConstants
<1>5. fdOf' = [fdOf EXCEPT ![c] = f] /\ at[c] = "none"
  BY Zenon DEF NewFd
<1>6. fdOf[c] = 0
  BY Zenon, <1>5 DEF AcceptInv, AcceptDescriptors, Holds
<1> HIDE DEF f
<1> QED
  BY Zenon, <1>4, <1>5, <1>6

\* The steps that move no connection.
AcceptQuiet ==
    \/ (\E c \in Conn : Connect(c) \/ Hangup(c)) \/ AcceptFails \/ Tick
    \/ Interrupt \/ ShutdownOne \/ Cleared \/ Return
    \/ UNCHANGED vars
AcceptNew(c) == AcceptSingle(c) \/ AcceptQueue(c) \/ AcceptShared(c)

(* What a step of the servers is, by what it does to the connections.      *)
LEMMA AcceptCases ==
    ASSUME [Next]_vars
    PROVE  AcceptQuiet \/ Get \/ Start
           \/ \E c \in Conn : AcceptNew(c) \/ EndOfInput(c) \/ ReadError(c)
BY Zenon DEF Next, AcceptQuiet, AcceptNew

(* The quiet steps leave connections, queues and counts alone.             *)
LEMMA AcceptStays ==
    ASSUME AcceptQuiet
    PROVE  UNCHANGED <<kind, at, fdOf, tqueue, tasks, busy>>
BY Zenon DEF AcceptQuiet, Connect, Hangup, AcceptFails, Tick, Interrupt,
       ShutdownOne, Cleared, Return, vars, net, mon

(* Where the other steps take their connection: from nowhere into a queue  *)
(* or to a handler (accept), from the TQueue to the pool (Get), to a       *)
(* handler (Start), and away (EndOfInput, ReadError).                      *)
LEMMA AcceptMoved ==
    ASSUME AcceptConstants, AcceptInv
    PROVE  /\ \A c \in Conn : AcceptNew(c) =>
                /\ at[c] = "none" /\ fdOf[c] = 0
                /\ at' = [at EXCEPT ![c] = IF kind = "shared" THEN "running" ELSE "queued"]
                /\ tqueue' = (IF kind = "queue" THEN Append(tqueue, c) ELSE tqueue)
                /\ tasks' = (IF kind = "single" THEN Append(tasks, c) ELSE tasks)
                /\ \E f \in Nat \ {0} : fdOf' = [fdOf EXCEPT ![c] = f] /\ \A d \in Conn : fdOf[d] # f
                /\ UNCHANGED <<kind, pc, shut, todo, busy, size>>
           /\ Get =>
                /\ tqueue # <<>> /\ tqueue' = Tail(tqueue) /\ tasks' = Append(tasks, Head(tqueue))
                /\ UNCHANGED <<kind, pc, at, fdOf, sockets, shut, todo, busy, size>>
           /\ Start =>
                /\ tasks # <<>> /\ tasks' = Tail(tasks) /\ at' = [at EXCEPT ![Head(tasks)] = "running"]
                /\ UNCHANGED <<kind, pc, fdOf, tqueue, sockets, shut, todo, size>>
           /\ \A c \in Conn : EndOfInput(c) =>
                /\ at[c] = "running" /\ at' = [at EXCEPT ![c] = "done"] /\ fdOf' = [fdOf EXCEPT ![c] = 0]
                /\ UNCHANGED <<kind, pc, tqueue, tasks, sockets, shut, todo, size>>
           /\ \A c \in Conn : ReadError(c) =>
                /\ at[c] = "running" /\ at' = [at EXCEPT ![c] = "spinning"]
                /\ UNCHANGED <<kind, pc, fdOf, tqueue, tasks, sockets, shut, todo, busy, size>>
<1>1. ASSUME NEW c \in Conn, AcceptNew(c)
      PROVE  /\ at[c] = "none" /\ fdOf[c] = 0
             /\ at' = [at EXCEPT ![c] = IF kind = "shared" THEN "running" ELSE "queued"]
             /\ tqueue' = (IF kind = "queue" THEN Append(tqueue, c) ELSE tqueue)
             /\ tasks' = (IF kind = "single" THEN Append(tasks, c) ELSE tasks)
             /\ \E f \in Nat \ {0} : fdOf' = [fdOf EXCEPT ![c] = f] /\ \A d \in Conn : fdOf[d] # f
             /\ UNCHANGED <<kind, pc, shut, todo, busy, size>>
  <2>1. NewFd(c)
    BY Zenon, <1>1 DEF AcceptNew, AcceptSingle, AcceptQueue, AcceptShared
  <2>2. /\ at[c] = "none" /\ fdOf[c] = 0
        /\ \E f \in Nat \ {0} : fdOf' = [fdOf EXCEPT ![c] = f] /\ \A d \in Conn : fdOf[d] # f
    BY Zenon, <2>1, AcceptFd
  <2> QED
    BY Zenon, <1>1, <2>2 DEF AcceptNew, AcceptSingle, AcceptQueue, AcceptShared, mon
<1>2. Get =>
        /\ tqueue # <<>> /\ tqueue' = Tail(tqueue) /\ tasks' = Append(tasks, Head(tqueue))
        /\ UNCHANGED <<kind, pc, at, fdOf, sockets, shut, todo, busy, size>>
  BY Zenon DEF Get, mon, net
<1>3. Start =>
        /\ tasks # <<>> /\ tasks' = Tail(tasks) /\ at' = [at EXCEPT ![Head(tasks)] = "running"]
        /\ UNCHANGED <<kind, pc, fdOf, tqueue, sockets, shut, todo, size>>
  BY Zenon DEF Start, net
<1>4. \A c \in Conn : EndOfInput(c) =>
        /\ at[c] = "running" /\ at' = [at EXCEPT ![c] = "done"] /\ fdOf' = [fdOf EXCEPT ![c] = 0]
        /\ UNCHANGED <<kind, pc, tqueue, tasks, sockets, shut, todo, size>>
  BY Zenon DEF EndOfInput
<1>5. \A c \in Conn : ReadError(c) =>
        /\ at[c] = "running" /\ at' = [at EXCEPT ![c] = "spinning"]
        /\ UNCHANGED <<kind, pc, fdOf, tqueue, tasks, sockets, shut, todo, busy, size>>
  BY Zenon DEF ReadError, net, mon
<1> QED
  BY Zenon, <1>1, <1>2, <1>3, <1>4, <1>5

(* Every step keeps the places, descriptors and queues well formed.        *)
LEMMA AcceptTypedStep ==
    ASSUME AcceptConstants, AcceptInv, [Next]_vars
    PROVE  AcceptTyped'
<1>1. AcceptTyped
  BY Zenon DEF AcceptInv
<1>2. CASE AcceptQuiet
  <2>1. UNCHANGED <<kind, at, fdOf, tqueue, tasks>>
    BY Zenon, <1>2, AcceptStays
  <2>2. pc' \in {"accept", "interrupt", "shutdown", "wait", "done"}
    BY Zenon, <1>1, <1>2 DEF AcceptTyped, AcceptQuiet, Connect, Hangup, AcceptFails, Tick,
       Interrupt, ShutdownOne, Cleared, Return, vars
  <2> QED
    BY Zenon, <1>1, <2>1, <2>2 DEF AcceptTyped
<1>3. ASSUME NEW c \in Conn, AcceptNew(c) PROVE AcceptTyped'
  <2>1. Append(tqueue, c) \in Seq(Conn) /\ Append(tasks, c) \in Seq(Conn)
    BY Zenon, <1>1, QueueAppend DEF AcceptTyped
  <2>2. at' \in [Conn -> Place] /\ fdOf' \in [Conn -> Nat]
    BY ZenonT(60), <1>1, <1>3, AcceptMoved DEF AcceptTyped, Place
  <2> QED
    BY Zenon, <1>1, <1>3, <2>1, <2>2, AcceptMoved DEF AcceptTyped
<1>4. CASE Get
  <2>1. Tail(tqueue) \in Seq(Conn) /\ Head(tqueue) \in Conn
    BY Zenon, <1>1, <1>4, AcceptMoved, QueueTail DEF AcceptTyped
  <2>2. Append(tasks, Head(tqueue)) \in Seq(Conn)
    BY Zenon, <1>1, <2>1, QueueAppend DEF AcceptTyped
  <2> QED
    BY Zenon, <1>1, <1>4, <2>1, <2>2, AcceptMoved DEF AcceptTyped
<1>5. CASE Start
  <2>1. Tail(tasks) \in Seq(Conn)
    BY Zenon, <1>1, <1>5, AcceptMoved, QueueTail DEF AcceptTyped
  <2>2. at' \in [Conn -> Place]
    BY Zenon, <1>1, <1>5, AcceptMoved DEF AcceptTyped, Place
  <2> QED
    BY Zenon, <1>1, <1>5, <2>1, <2>2, AcceptMoved DEF AcceptTyped
<1>6. ASSUME NEW c \in Conn, EndOfInput(c) \/ ReadError(c) PROVE AcceptTyped'
  <2>1. at' \in [Conn -> Place] /\ fdOf' \in [Conn -> Nat]
    <3>1. CASE EndOfInput(c)
      <4>1. at' = [at EXCEPT ![c] = "done"] /\ fdOf' = [fdOf EXCEPT ![c] = 0]
        BY Zenon, <3>1, AcceptMoved
      <4> QED
        BY Zenon, <1>1, <4>1 DEF AcceptTyped, Place
    <3>2. CASE ReadError(c)
      BY Zenon, <1>1, <3>2, AcceptMoved DEF AcceptTyped, Place
    <3> QED
      BY Zenon, <1>6, <3>1, <3>2
  <2> QED
    BY Zenon, <1>1, <1>6, <2>1, AcceptMoved DEF AcceptTyped
<1> QED
  BY Zenon, <1>2, <1>3, <1>4, <1>5, <1>6, AcceptCases

(* A connection has a descriptor of its own from accept to the end of its  *)
(* handler.                                                                *)
LEMMA AcceptDescriptorsStep ==
    ASSUME AcceptConstants, AcceptInv, [Next]_vars
    PROVE  AcceptDescriptors'
<1>1. AcceptTyped /\ AcceptDescriptors /\ AcceptQueues
  BY Zenon DEF AcceptInv
<1>2. CASE AcceptQuiet
  BY Zenon, <1>1, <1>2, AcceptStays DEF AcceptDescriptors, Holds
<1>3. ASSUME NEW c \in Conn, AcceptNew(c) PROVE AcceptDescriptors'
  <2>1. PICK f \in Nat \ {0} : fdOf' = [fdOf EXCEPT ![c] = f] /\ \A d \in Conn : fdOf[d] # f
    BY Zenon, <1>3, AcceptMoved
  <2>2. /\ Holds(c)' /\ \A d \in Conn : d # c => (Holds(d)' <=> Holds(d))
    BY <1>1, <1>3, AcceptMoved DEF AcceptTyped, Holds
  <2>3. fdOf'[c] = f /\ \A d \in Conn : d # c => fdOf'[d] = fdOf[d]
    BY Zenon, <1>1, <2>1 DEF AcceptTyped
  <2> QED
    BY Zenon, <1>1, <2>1, <2>2, <2>3 DEF AcceptDescriptors
<1>4. CASE Get
  BY <1>1, <1>4, AcceptMoved DEF AcceptDescriptors, Holds
<1>5. CASE Start
  <2>1. Head(tasks) \in Conn /\ Listed(tasks, Head(tasks))
    BY Zenon, <1>1, <1>5, AcceptMoved, QueueTail DEF AcceptTyped
  <2>2. at[Head(tasks)] = "queued"
    BY Zenon, <1>1, <2>1 DEF AcceptQueues
  <2>3. \A d \in Conn : Holds(d)' <=> Holds(d)
    BY Zenon, <1>1, <1>5, <2>1, <2>2, AcceptMoved DEF AcceptTyped, Holds
  <2> QED
    BY Zenon, <1>1, <1>5, <2>3, AcceptMoved DEF AcceptDescriptors
<1>6. ASSUME NEW c \in Conn, EndOfInput(c) PROVE AcceptDescriptors'
  <2>1. ~Holds(c)' /\ \A d \in Conn : d # c => (Holds(d)' <=> Holds(d))
    BY <1>1, <1>6, AcceptMoved DEF AcceptTyped, Holds
  <2>2. fdOf'[c] = 0 /\ \A d \in Conn : d # c => fdOf'[d] = fdOf[d]
    BY Zenon, <1>1, <1>6, AcceptMoved DEF AcceptTyped
  <2> QED
    BY Zenon, <1>1, <2>1, <2>2 DEF AcceptDescriptors
<1>7. ASSUME NEW c \in Conn, ReadError(c) PROVE AcceptDescriptors'
  <2>1. \A d \in Conn : Holds(d)' <=> Holds(d)
    BY Zenon, <1>1, <1>7, AcceptMoved DEF AcceptTyped, Holds
  <2> QED
    BY Zenon, <1>1, <1>7, <2>1, AcceptMoved DEF AcceptDescriptors
<1> QED
  BY Zenon, <1>2, <1>3, <1>4, <1>5, <1>6, <1>7, AcceptCases

(* A connection enters one queue, once, and leaves it for a handler.       *)
LEMMA AcceptQueuesStep ==
    ASSUME AcceptConstants, AcceptInv, [Next]_vars
    PROVE  AcceptQueues'
<1>1. AcceptTyped /\ AcceptQueues /\ at \in [Conn -> Place] /\ tqueue \in Seq(Conn) /\ tasks \in Seq(Conn)
  BY Zenon DEF AcceptInv, AcceptTyped
<1>2. CASE AcceptQuiet
  BY ZenonT(60), <1>1, <1>2, AcceptStays DEF AcceptQueues, Listed, Distinct
<1>3. ASSUME NEW c \in Conn, AcceptNew(c) PROVE AcceptQueues'
  <2>1. /\ at[c] = "none" /\ at' = [at EXCEPT ![c] = IF kind = "shared" THEN "running" ELSE "queued"]
        /\ tqueue' = (IF kind = "queue" THEN Append(tqueue, c) ELSE tqueue)
        /\ tasks' = (IF kind = "single" THEN Append(tasks, c) ELSE tasks)
        /\ kind \in {"single", "shared", "queue"}
    BY Zenon, <1>1, <1>3, AcceptMoved DEF AcceptTyped
  <2>2. ~Listed(tqueue, c) /\ ~Listed(tasks, c)
    BY Zenon, <1>1, <2>1 DEF AcceptQueues
  <2>3. \A d \in Conn : d # c => at'[d] = at[d]
    BY Zenon, <1>1, <2>1
  <2>4. /\ \A d : Listed(Append(tqueue, c), d) <=> Listed(tqueue, d) \/ d = c
        /\ \A d : Listed(Append(tasks, c), d) <=> Listed(tasks, d) \/ d = c
        /\ Distinct(Append(tqueue, c)) /\ Distinct(Append(tasks, c))
    BY Zenon, <1>1, <2>2, QueueAppend DEF AcceptQueues
  <2>5. CASE kind = "shared"
    <3>1. at'[c] = "running" /\ tqueue' = tqueue /\ tasks' = tasks
      BY Zenon, <1>1, <2>1, <2>5
    <3> QED
      BY Zenon, <1>1, <2>2, <2>3, <3>1 DEF AcceptQueues
  <2>6. CASE kind = "queue"
    <3>1. at'[c] = "queued" /\ tqueue' = Append(tqueue, c) /\ tasks' = tasks
      BY Zenon, <1>1, <2>1, <2>6
    <3> QED
      BY Zenon, <1>1, <2>2, <2>3, <2>4, <3>1 DEF AcceptQueues
  <2>7. CASE kind = "single"
    <3>1. at'[c] = "queued" /\ tqueue' = tqueue /\ tasks' = Append(tasks, c)
      BY Zenon, <1>1, <2>1, <2>7
    <3> QED
      BY Zenon, <1>1, <2>2, <2>3, <2>4, <3>1 DEF AcceptQueues
  <2> QED
    BY Zenon, <2>1, <2>5, <2>6, <2>7
<1>4. CASE Get
  <2> DEFINE c == Head(tqueue)
  <2>1. tqueue # <<>> /\ tqueue' = Tail(tqueue) /\ tasks' = Append(tasks, c) /\ at' = at
    BY Zenon, <1>4, AcceptMoved
  <2>2. /\ c \in Conn /\ Distinct(Tail(tqueue)) /\ ~Listed(Tail(tqueue), c) /\ Listed(tqueue, c)
        /\ \A d : Listed(tqueue, d) <=> Listed(Tail(tqueue), d) \/ d = c
    BY Zenon, <1>1, <2>1, QueueTail DEF AcceptQueues
  <2> HIDE DEF c
  <2>3. ~Listed(tasks, c)
    BY Zenon, <1>1, <2>2 DEF AcceptQueues
  <2>4. Distinct(Append(tasks, c)) /\ \A d : Listed(Append(tasks, c), d) <=> Listed(tasks, d) \/ d = c
    BY Zenon, <1>1, <2>2, <2>3, QueueAppend DEF AcceptQueues
  <2> QED
    BY Zenon, <1>1, <2>1, <2>2, <2>3, <2>4 DEF AcceptQueues
<1>5. CASE Start
  <2> DEFINE c == Head(tasks)
  <2>1. tasks # <<>> /\ tasks' = Tail(tasks) /\ at' = [at EXCEPT ![c] = "running"] /\ tqueue' = tqueue
    BY Zenon, <1>5, AcceptMoved
  <2>2. /\ c \in Conn /\ Distinct(Tail(tasks)) /\ ~Listed(Tail(tasks), c) /\ Listed(tasks, c)
        /\ \A d : Listed(tasks, d) <=> Listed(Tail(tasks), d) \/ d = c
    BY Zenon, <1>1, <2>1, QueueTail DEF AcceptQueues
  <2> HIDE DEF c
  <2>3. ~Listed(tqueue, c) /\ at'[c] = "running" /\ \A d \in Conn : d # c => at'[d] = at[d]
    BY Zenon, <1>1, <2>1, <2>2 DEF AcceptQueues
  <2> QED
    BY Zenon, <1>1, <2>1, <2>2, <2>3 DEF AcceptQueues
<1>6. ASSUME NEW c \in Conn, EndOfInput(c) \/ ReadError(c) PROVE AcceptQueues'
  <2>1. at[c] = "running" /\ at'[c] # "queued" /\ (\A d \in Conn : d # c => at'[d] = at[d])
        /\ tqueue' = tqueue /\ tasks' = tasks
    BY Zenon, <1>1, <1>6, AcceptMoved
  <2> QED
    BY Zenon, <1>1, <2>1 DEF AcceptQueues
<1> QED
  BY <1>2, <1>3, <1>4, <1>5, <1>6, AcceptCases

(* The Monitor's count goes up and down with the handlers, and run()       *)
(* returns after the last of them.                                         *)
LEMMA AcceptHandlersStep ==
    ASSUME AcceptConstants, AcceptInv, [Next]_vars
    PROVE  AcceptHandlers'
<1>1. /\ AcceptTyped /\ AcceptQueues /\ AcceptHandlers /\ at \in [Conn -> Place]
      /\ tqueue \in Seq(Conn) /\ tasks \in Seq(Conn)
  BY Zenon DEF AcceptInv, AcceptTyped
<1>2. Running \subseteq Conn /\ IsFiniteSet(Running) /\ Cardinality(Running) \in Nat
  <2>1. Running \subseteq Conn
    BY Zenon DEF Running
  <2> QED
    BY Zenon, <2>1, FS_Subset, FS_CardinalityType DEF AcceptConstants
<1>3. CASE AcceptQuiet
  <2>1. UNCHANGED <<kind, at, tqueue, tasks, busy>>
    BY Zenon, <1>3, AcceptStays
  <2>2. Running' = Running
    BY Zenon, <2>1 DEF Running
  <2>3. /\ pc' # "accept" => kind = "single"
        /\ pc' = "done" => Running = {} /\ tasks = <<>>
    BY Zenon, <1>1, <1>3 DEF AcceptHandlers, AcceptQuiet, Connect, Hangup, AcceptFails,
       Tick, Interrupt, ShutdownOne, Cleared, Return, vars
  <2> QED
    BY Zenon, <1>1, <2>1, <2>2, <2>3 DEF AcceptHandlers
<1>4. ASSUME NEW c \in Conn, AcceptNew(c) PROVE AcceptHandlers'
  <2>1. /\ at[c] = "none" /\ at' = [at EXCEPT ![c] = IF kind = "shared" THEN "running" ELSE "queued"]
        /\ tqueue' = (IF kind = "queue" THEN Append(tqueue, c) ELSE tqueue)
        /\ UNCHANGED <<kind, pc, busy>> /\ pc # "done"
    <3>1. kind = "single" => pc = "accept"
      BY Zenon, <1>4 DEF AcceptNew, AcceptSingle, AcceptQueue, AcceptShared
    <3> QED
      BY Zenon, <1>1, <1>4, <3>1, AcceptMoved DEF AcceptHandlers
  <2>2. kind = "single" => Running' = Running
    BY Zenon, <1>1, <2>1 DEF Running
  <2> QED
    BY Zenon, <1>1, <2>1, <2>2 DEF AcceptHandlers
<1>5. CASE Get
  <2>1. tqueue # <<>> /\ UNCHANGED <<kind, pc, at, busy>>
    BY Zenon, <1>5, AcceptMoved
  <2>2. kind # "single" /\ pc = "accept"
    BY Zenon, <1>1, <2>1 DEF AcceptHandlers
  <2> QED
    BY Zenon, <2>1, <2>2 DEF AcceptHandlers
<1>6. CASE Start
  <2> DEFINE c == Head(tasks)
  <2>1. /\ tasks # <<>> /\ at' = [at EXCEPT ![c] = "running"] /\ UNCHANGED <<kind, pc, tqueue>>
    BY Zenon, <1>6, AcceptMoved
  <2>2. c \in Conn /\ Listed(tasks, c)
    BY Zenon, <1>1, <2>1, QueueTail
  <2>3. kind = "single" => busy' = busy + 1
    BY Zenon, <1>6 DEF Start, addHandler
  <2> HIDE DEF c
  <2>4. at[c] = "queued"
    BY Zenon, <1>1, <2>2 DEF AcceptQueues
  <2>5. Running' = Running \cup {c} /\ c \notin Running
    BY Zenon, <1>1, <2>1, <2>2, <2>4 DEF Running
  <2>6. Cardinality(Running') = Cardinality(Running) + 1
    BY Zenon, <1>2, <2>5, FS_AddElement
  <2> QED
    BY Zenon, <1>1, <2>1, <2>3, <2>6 DEF AcceptHandlers
<1>7. ASSUME NEW c \in Conn, EndOfInput(c) PROVE AcceptHandlers'
  <2>1. /\ at[c] = "running" /\ at' = [at EXCEPT ![c] = "done"] /\ UNCHANGED <<kind, pc, tqueue, tasks>>
    BY Zenon, <1>7, AcceptMoved
  <2>2. kind = "single" => busy' = busy - 1
    BY Zenon, <1>7 DEF EndOfInput, removeHandler
  <2>3. Running' = Running \ {c} /\ c \in Running
    BY Zenon, <1>1, <2>1 DEF Running
  <2>4. Cardinality(Running') = Cardinality(Running) - 1
    BY Zenon, <1>2, <2>3, FS_RemoveElement
  <2> QED
    BY Zenon, <1>1, <2>1, <2>2, <2>3, <2>4 DEF AcceptHandlers
<1>8. ASSUME NEW c \in Conn, ReadError(c) PROVE AcceptHandlers'
  <2>1. /\ at[c] = "running" /\ at' = [at EXCEPT ![c] = "spinning"]
        /\ UNCHANGED <<kind, pc, tqueue, tasks, busy>>
    BY Zenon, <1>8, AcceptMoved
  <2>2. Running' = Running
    BY Zenon, <1>1, <2>1 DEF Running
  <2> QED
    BY Zenon, <1>1, <2>1, <2>2 DEF AcceptHandlers
<1> QED
  BY <1>3, <1>4, <1>5, <1>6, <1>7, <1>8, AcceptCases

\* A connection that keeps its descriptor, its entry and its place stays reached.
LEMMA AcceptSocketsQuiet ==
    ASSUME AcceptInv, AcceptQuiet
    PROVE  AcceptSockets'
<1>1. UNCHANGED <<kind, at, fdOf>> /\ AcceptSockets
  BY Zenon, AcceptStays DEF AcceptInv
<1>2. CASE UNCHANGED <<pc, sockets, shut, todo>>
  BY Zenon, <1>1, <1>2 DEF AcceptSockets, Reached, Shadowed, Entered
<1>3. CASE AcceptFails
  <2>1. UNCHANGED <<sockets, shut, todo>> /\ (pc' = pc \/ (pc = "accept" /\ pc' = "interrupt"))
    BY Zenon, <1>3 DEF AcceptFails
  <2> QED
    BY Zenon, <1>1, <2>1 DEF AcceptSockets, Reached, Shadowed, Entered
<1>4. CASE Interrupt
  <2>1. UNCHANGED <<sockets, shut>> /\ pc = "interrupt" /\ pc' = "shutdown" /\ todo' = DOMAIN sockets
    BY Zenon, <1>4 DEF Interrupt
  <2> QED
    BY Zenon, <1>1, <2>1 DEF AcceptSockets, Reached, Shadowed, Entered
<1>5. CASE ShutdownOne
  <2>1. UNCHANGED <<sockets, pc>> /\ pc = "shutdown"
    BY Zenon, <1>5 DEF ShutdownOne
  <2>2. PICK f \in todo : todo' = todo \ {f} /\ shut' = IF fdOf[sockets[f]] # 0 THEN shut \cup {sockets[f]} ELSE shut
    BY Zenon, <1>5 DEF ShutdownOne
  <2>3. ASSUME NEW c \in Conn, fdOf[c] # 0, Reached(c) PROVE Reached(c)'
    <3>1. CASE c \in shut \/ Shadowed(c)
      BY Zenon, <1>1, <2>1, <2>2, <3>1 DEF Reached, Shadowed
    <3>2. CASE Entered(c) /\ fdOf[c] \in todo
      <4>1. CASE fdOf[c] = f
        BY Zenon, <1>1, <2>2, <2>3, <3>2, <4>1 DEF Reached, Entered
      <4>2. CASE fdOf[c] # f
        BY Zenon, <1>1, <2>1, <2>2, <3>2, <4>2 DEF Reached, Entered
      <4> QED
        BY Zenon, <4>1, <4>2
    <3> QED
      BY Zenon, <2>1, <2>3, <3>1, <3>2 DEF Reached
  <2> QED
    BY Zenon, <1>1, <2>1, <2>3 DEF AcceptSockets
<1>6. CASE Cleared
  <2>1. pc' = "wait" /\ sockets' = <<>>
    BY Zenon, <1>6 DEF Cleared
  <2>2. \A c \in Conn : Reached(c)'
    BY Zenon, <2>1 DEF Reached
  <2>3. DOMAIN sockets' = {}
    BY <2>1
  <2> QED
    BY Zenon, <1>1, <2>2, <2>3 DEF AcceptSockets
<1>7. CASE Return
  <2>1. UNCHANGED sockets /\ pc' = "done"
    BY Zenon, <1>7 DEF Return
  <2>2. \A c \in Conn : Reached(c)'
    BY Zenon, <2>1 DEF Reached
  <2> QED
    BY Zenon, <1>1, <2>1, <2>2 DEF AcceptSockets
<1>8. AcceptQuiet => \/ UNCHANGED <<pc, sockets, shut, todo>> \/ AcceptFails \/ Interrupt
                     \/ ShutdownOne \/ Cleared \/ Return
  BY Zenon DEF AcceptQuiet, Connect, Hangup, Tick, vars
<1> QED
  BY Zenon, <1>2, <1>3, <1>4, <1>5, <1>6, <1>7, <1>8

(* The entries of _sockets stay those of their connections, or of ones     *)
(* that are done.                                                          *)
LEMMA AcceptSocketsStep ==
    ASSUME AcceptConstants, AcceptInv, [Next]_vars
    PROVE  AcceptSockets'
<1>1. /\ AcceptSockets /\ at \in [Conn -> Place] /\ fdOf \in [Conn -> Nat] /\ tasks \in Seq(Conn)
  BY Zenon DEF AcceptInv, AcceptTyped
<1>2. \A f \in DOMAIN sockets : f # 0 /\ sockets[f] \in Conn /\ (fdOf[sockets[f]] = f \/ at[sockets[f]] = "done")
  BY Zenon, <1>1 DEF AcceptSockets
<1>3. ASSUME NEW c \in Conn, AcceptNew(c) PROVE AcceptSockets'
  <2>1. PICK f \in Nat \ {0} : fdOf' = [fdOf EXCEPT ![c] = f] /\ \A d \in Conn : fdOf[d] # f
    BY <1>3, AcceptMoved
  <2>2. /\ at[c] = "none" /\ fdOf[c] = 0 /\ at' = [at EXCEPT ![c] = IF kind = "shared" THEN "running" ELSE "queued"]
        /\ UNCHANGED <<kind, pc, shut, todo>>
    BY Zenon, <1>3, AcceptMoved
  <2>3. fdOf'[c] = f /\ \A d \in Conn : d # c => fdOf'[d] = fdOf[d] /\ at'[d] = at[d]
    BY Zenon, <1>1, <2>1, <2>2
  <2>4. \A g \in DOMAIN sockets : sockets[g] # c
    BY Zenon, <1>2, <2>2
  <2>5. \A g \in DOMAIN sockets : sockets[g] \in Conn /\ (fdOf'[sockets[g]] = g \/ at'[sockets[g]] = "done")
    BY Zenon, <1>2, <2>3, <2>4
  <2>6. CASE kind # "single"
    <3>1. sockets' = sockets
      BY Zenon, <1>3, <2>6 DEF AcceptNew, AcceptSingle, AcceptQueue, AcceptShared
    <3> QED
      BY Zenon, <1>2, <2>2, <2>5, <2>6, <3>1 DEF AcceptSockets
  <2>7. CASE kind = "single"
    <3>1. /\ sockets' = [g \in DOMAIN sockets \cup {f} |-> IF g \in DOMAIN sockets THEN sockets[g] ELSE c]
          /\ pc = "accept"
      BY Zenon, <1>3, <2>3, <2>7 DEF AcceptNew, AcceptSingle, AcceptQueue, AcceptShared, Insert
    <3>2. /\ DOMAIN sockets' = DOMAIN sockets \cup {f} /\ \A g \in DOMAIN sockets : sockets'[g] = sockets[g]
          /\ f \notin DOMAIN sockets => sockets'[f] = c
      BY Zenon, <3>1
    <3>3. \A g \in DOMAIN sockets' : g # 0 /\ sockets'[g] \in Conn /\ (fdOf'[sockets'[g]] = g \/ at'[sockets'[g]] = "done")
      BY Zenon, <1>2, <2>3, <2>5, <3>2
    <3>4. Reached(c)'
      <4>1. CASE f \notin DOMAIN sockets
        BY Zenon, <2>2, <2>3, <3>1, <3>2, <4>1 DEF Reached, Entered
      <4>2. CASE f \in DOMAIN sockets
        <5>1. sockets[f] \in Conn /\ sockets[f] # c /\ at[sockets[f]] = "done"
          BY Zenon, <1>2, <2>1, <2>4, <4>2
        <5> QED
          BY Zenon, <2>3, <3>2, <4>2, <5>1 DEF Reached, Shadowed
      <4> QED
        BY Zenon, <4>1, <4>2
    <3>5. ASSUME NEW d \in Conn, d # c, fdOf'[d] # 0 PROVE Reached(d)'
      <4>1. Reached(d) /\ fdOf'[d] = fdOf[d]
        BY Zenon, <1>1, <2>3, <2>7, <3>5 DEF AcceptSockets
      <4>2. ASSUME Shadowed(d) PROVE Shadowed(d)'
        <5> DEFINE e == sockets[fdOf[d]]
        <5>1. fdOf[d] \in DOMAIN sockets /\ e # d /\ at[e] = "done"
          BY Zenon, <4>2 DEF Shadowed
        <5>2. e \in Conn /\ e # c
          BY Zenon, <1>2, <2>4, <5>1
        <5>3. fdOf'[d] \in DOMAIN sockets' /\ sockets'[fdOf'[d]] = e /\ at'[e] = at[e]
          BY Zenon, <2>3, <3>2, <4>1, <5>1, <5>2
        <5> HIDE DEF e
        <5> QED
          BY Zenon, <5>1, <5>3 DEF Shadowed
      <4>3. Entered(d) => Entered(d)'
        BY Zenon, <3>2, <4>1 DEF Entered
      <4> QED
        BY Zenon, <2>2, <3>1, <4>1, <4>2, <4>3 DEF Reached
    <3> QED
      BY Zenon, <3>3, <3>4, <3>5 DEF AcceptSockets
  <2> QED
    BY Zenon, <2>6, <2>7
<1>4. CASE Get
  <2>1. UNCHANGED <<kind, pc, at, fdOf, sockets, shut, todo>>
    BY Zenon, <1>4, AcceptMoved
  <2> QED
    BY Zenon, <1>1, <2>1 DEF AcceptSockets, Reached, Shadowed, Entered
<1>5. ASSUME NEW c \in Conn, NEW to \in {"running", "spinning"}, at[c] # "done", at' = [at EXCEPT ![c] = to],
             UNCHANGED <<kind, pc, fdOf, sockets, shut, todo>>
      PROVE  AcceptSockets'
  <2>1. \A d \in Conn : at[d] = "done" => at'[d] = "done"
    BY Zenon, <1>1, <1>5
  <2>2. \A d \in Conn : Reached(d) => Reached(d)'
    BY Zenon, <1>2, <1>5, <2>1 DEF Reached, Shadowed, Entered
  <2> QED
    BY Zenon, <1>1, <1>5, <2>1, <2>2 DEF AcceptSockets
<1>6. CASE Start
  <2>1. /\ tasks # <<>> /\ at' = [at EXCEPT ![Head(tasks)] = "running"]
        /\ UNCHANGED <<kind, pc, fdOf, sockets, shut, todo>>
    BY Zenon, <1>6, AcceptMoved
  <2>2. Head(tasks) \in Conn /\ Listed(tasks, Head(tasks))
    BY Zenon, <1>1, <2>1, QueueTail
  <2>3. at[Head(tasks)] # "done"
    BY Zenon, <2>2 DEF AcceptInv, AcceptQueues
  <2> QED
    BY Zenon, <1>5, <2>1, <2>2, <2>3
<1>7. ASSUME NEW c \in Conn, ReadError(c) PROVE AcceptSockets'
  <2>1. /\ at[c] = "running" /\ at' = [at EXCEPT ![c] = "spinning"]
        /\ UNCHANGED <<kind, pc, fdOf, sockets, shut, todo>>
    BY Zenon, <1>7, AcceptMoved
  <2> QED
    BY Zenon, <1>5, <2>1
<1>8. ASSUME NEW c \in Conn, EndOfInput(c) PROVE AcceptSockets'
  <2>1. /\ at' = [at EXCEPT ![c] = "done"] /\ fdOf' = [fdOf EXCEPT ![c] = 0]
        /\ UNCHANGED <<kind, pc, sockets, shut, todo>>
    BY Zenon, <1>8, AcceptMoved
  <2>2. /\ at'[c] = "done" /\ fdOf'[c] = 0 /\ \A d \in Conn : d # c => at'[d] = at[d] /\ fdOf'[d] = fdOf[d]
    BY Zenon, <1>1, <2>1
  <2>3. ASSUME NEW d \in Conn, d # c, Reached(d) PROVE Reached(d)'
    <3>1. ASSUME Shadowed(d) PROVE Shadowed(d)'
      <4> DEFINE e == sockets[fdOf[d]]
      <4>1. fdOf[d] \in DOMAIN sockets /\ e # d /\ at[e] = "done"
        BY Zenon, <3>1 DEF Shadowed
      <4>2. e \in Conn
        BY Zenon, <1>2, <4>1
      <4>3. fdOf'[d] \in DOMAIN sockets' /\ sockets'[fdOf'[d]] = e /\ at'[e] = "done"
        BY Zenon, <2>1, <2>2, <2>3, <4>1, <4>2
      <4> HIDE DEF e
      <4> QED
        BY Zenon, <4>1, <4>3 DEF Shadowed
    <3>2. fdOf'[d] = fdOf[d] /\ UNCHANGED <<pc, sockets, shut, todo>>
      BY Zenon, <2>1, <2>2, <2>3
    <3>3. Shadowed(d) => Shadowed(d)'
      BY Zenon, <3>1
    <3> QED
      BY Zenon, <2>3, <3>2, <3>3 DEF Reached, Entered
  <2>4. \A f \in DOMAIN sockets : fdOf'[sockets[f]] = f \/ at'[sockets[f]] = "done"
    BY Zenon, <1>2, <2>2
  <2> QED
    BY Zenon, <1>1, <1>2, <2>1, <2>2, <2>3, <2>4 DEF AcceptSockets
<1> QED
  BY Zenon, <1>3, <1>4, <1>6, <1>7, <1>8, AcceptSocketsQuiet, AcceptCases

\* The Monitor's sizes: between the limits, or where the pool began.
LEMMA AcceptSizeStep ==
    ASSUME AcceptConstants, AcceptInv, [Next]_vars
    PROVE  SizeBounded'
<1>1. SizeBounded /\ size \in Nat
  BY DEF AcceptInv, SizeBounded, Least, Most, AcceptConstants
<1>2. size' = size \/ (NewSize(maxBusy) # 0 /\ size' = NewSize(maxBusy))
  BY Zenon DEF Next, vars, mon, Connect, Hangup, AcceptSingle,
     AcceptQueue, AcceptShared, EndOfInput, ReadError, Get,
     AcceptFails, Start, Tick, Interrupt, ShutdownOne,
     Cleared, Return
<1>3. CASE size' = size
  BY Zenon, <1>1, <1>3 DEF SizeBounded, Least, Most
<1>4. CASE NewSize(maxBusy) # 0 /\ size' = NewSize(maxBusy)
  <2> DEFINE more == size + (size * 8) \div 10
             less == size - (size * 5) \div 10
  <2>1. more \in Int /\ less \in Int /\ more >= size /\ less <= size
    BY <1>1
  <2>2. size' = Least(MaxSize, more) \/ size' = Most(MinSize, less)
    BY Zenon, <1>4 DEF NewSize
  <2> HIDE DEF more, less
  <2> QED
    BY <1>1, <2>1, <2>2 DEF SizeBounded, Least, Most, AcceptConstants
<1> QED
  BY Zenon, <1>2, <1>3, <1>4

(* Every step of the servers keeps their invariant.                        *)
LEMMA AcceptStep ==
    ASSUME AcceptConstants, AcceptInv, [Next]_vars
    PROVE  AcceptInv'
BY Zenon, AcceptTypedStep, AcceptDescriptorsStep, AcceptQueuesStep, AcceptHandlersStep, AcceptSocketsStep, AcceptSizeStep
   DEF AcceptInv

(* In a queue without repetitions a connection is counted once or not at   *)
(* all.                                                                    *)
LEMMA QueueCount ==
    ASSUME NEW T, NEW q \in Seq(T), Distinct(q), NEW c
    PROVE  Times(q, c) = IF Listed(q, c) THEN 1 ELSE 0
<1>1. CASE ~Listed(q, c)
  <2>1. {i \in DOMAIN q : q[i] = c} = {}
    BY Zenon, <1>1 DEF Listed
  <2>2. Times(q, c) = Cardinality({})
    BY Zenon, <2>1 DEF Times
  <2> QED
    BY Zenon, <1>1, <2>2, FS_EmptySet
<1>2. CASE Listed(q, c)
  <2>1. PICK i \in DOMAIN q : q[i] = c
    BY Zenon, <1>2 DEF Listed
  <2>2. {j \in DOMAIN q : q[j] = c} = {i}
    BY Zenon, <2>1 DEF Distinct
  <2>3. Times(q, c) = Cardinality({i})
    BY Zenon, <2>2 DEF Times
  <2> QED
    BY Zenon, <1>2, <2>3, FS_Singleton
<1> QED
  BY Zenon, <1>1, <1>2

(* The invariant has the three properties.                                 *)
LEMMA AcceptConsequence ==
    ASSUME AcceptInv
    PROVE  HandledOnce /\ ShutdownReaches /\ SizeBounded
<1>1. AcceptTyped /\ AcceptDescriptors /\ AcceptQueues /\ AcceptHandlers /\ AcceptSockets
  BY Zenon DEF AcceptInv
<1>2. ASSUME NEW c \in Conn
      PROVE  Times(tqueue, c) + Times(tasks, c) = IF at[c] = "queued" THEN 1 ELSE 0
  <2>1. Times(tqueue, c) = IF Listed(tqueue, c) THEN 1 ELSE 0
    BY Zenon, <1>1, QueueCount DEF AcceptTyped, AcceptQueues
  <2>2. Times(tasks, c) = IF Listed(tasks, c) THEN 1 ELSE 0
    BY Zenon, <1>1, QueueCount DEF AcceptTyped, AcceptQueues
  <2>3. /\ (at[c] = "queued") <=> (Listed(tqueue, c) \/ Listed(tasks, c))
        /\ ~(Listed(tqueue, c) /\ Listed(tasks, c))
    BY Zenon, <1>1 DEF AcceptQueues
  <2> QED
    BY <2>1, <2>2, <2>3
<1>3. \A c \in Conn : (fdOf[c] # 0) = (at[c] \in {"queued", "running", "spinning"})
  BY <1>1 DEF AcceptDescriptors, Holds
<1>4. HandledOnce
  <2>1. at \in [Conn -> Place]
    BY Zenon, <1>1 DEF AcceptTyped
  <2>2. \A c, d \in Conn : c # d /\ fdOf[c] # 0 => fdOf[c] # fdOf[d]
    BY Zenon, <1>1 DEF AcceptDescriptors
  <2>3. /\ kind = "single" => busy = Cardinality(Running)
        /\ pc = "done" => Running = {}
    BY Zenon, <1>1 DEF AcceptHandlers
  <2>4. \A c \in Conn :
          /\ (fdOf[c] # 0) = (at[c] \in {"queued", "running", "spinning"})
          /\ \A d \in Conn : c # d /\ fdOf[c] # 0 => fdOf[c] # fdOf[d]
          /\ Times(tqueue, c) + Times(tasks, c) = IF at[c] = "queued" THEN 1 ELSE 0
    <3>1. TAKE c \in Conn
    <3>2. Times(tqueue, c) + Times(tasks, c) = IF at[c] = "queued" THEN 1 ELSE 0
      BY Zenon, <1>2
    <3>3. (fdOf[c] # 0) = (at[c] \in {"queued", "running", "spinning"})
      BY Zenon, <1>3
    <3>4. \A d \in Conn : c # d /\ fdOf[c] # 0 => fdOf[c] # fdOf[d]
      BY Zenon, <2>2
    <3> QED
      BY Zenon, <3>2, <3>3, <3>4
  <2> QED
    BY Zenon, <2>1, <2>3, <2>4 DEF HandledOnce
<1>5. ShutdownReaches
  BY Zenon, <1>1 DEF ShutdownReaches, AcceptSockets, AcceptHandlers, Reached
<1> QED
  BY Zenon, <1>4, <1>5 DEF AcceptInv

(* A connection that was accepted is in one queue, once, or with one       *)
(* handler, with a descriptor of its own; a shutdown reaches every handler *)
(* but those with an earlier connection's entry under their descriptor;    *)
(* the pool stays within its sizes - for any connections, descriptors and  *)
(* sizes                                                                   *)
(* (SingleAcceptThreadPool::run, PreThreadedServer, BlockingAccept).       *)
THEOREM ConnectionsHandled ==
    ASSUME AcceptConstants
    PROVE  Spec => [](HandledOnce /\ ShutdownReaches /\ SizeBounded)
<1>1. Init => AcceptInv
  BY Zenon, AcceptInit
<1>2. AcceptInv /\ [Next]_vars => AcceptInv'
  BY Zenon, AcceptStep
<1>3. AcceptInv => HandledOnce /\ ShutdownReaches /\ SizeBounded
  BY Zenon, AcceptConsequence
<1> QED
  BY <1>1, <1>2, <1>3, PTL DEF Spec
=============================================================================
