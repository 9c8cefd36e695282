---------------------------- MODULE ServerProofs ----------------------------
(***************************************************************************)
(* Server keeps its descriptors, its socket map and its busy counter       *)
(* straight for any number of connections and descriptors, and the pool of *)
(* database connections stays exclusive and bounded for any number of      *)
(* threads.                                                                *)
(***************************************************************************)
EXTENDS Server, ConnectionPool, FiniteSetTheorems, TLAPS

(* Locations in which _busyHandlers counts a connection.                   *)
BusyPc == {"reading", "replying", "ending"}

(* What the process does while SIGPIPE has not ended it.                   *)
ProcessStep ==
    \/ Run \/ StopAccepting
    \/ \E c \in Conn : Accept(c) \/ Handle(c) \/ Send(c) \/ Hangup(c)

(* SIGPIPE leaves everything where it is and lets nothing follow.          *)
LEMMA LiveStep ==
  ASSUME [Next]_vars
  PROVE  [ProcessStep]_stateVars /\ (killed' = killed \/ killed' = TRUE)
<1>1. CASE Stopped \/ UNCHANGED vars
  BY Zenon, <1>1 DEF Stopped, vars
<1>2. CASE \E c \in Conn : SigPipe(c)
  BY Zenon, <1>2 DEF SigPipe
<1>3. CASE Alive(Run) \/ Alive(StopAccepting)
  BY Zenon, <1>3 DEF Alive, ProcessStep
<1>4. CASE \E c \in Conn : Alive(Accept(c)) \/ Alive(Handle(c)) \/ Alive(Send(c)) \/ Alive(Hangup(c))
  BY Zenon, <1>4 DEF Alive, ProcessStep
<1> QED
  BY Zenon, <1>1, <1>2, <1>3, <1>4 DEF Next

(* The busy handlers are finitely many.                                    *)
LEMMA BusyFinite == IsFiniteSet(Busy) /\ Cardinality(Busy) \in Nat
  BY Zenon, ConnAssumption, FS_Subset, FS_CardinalityType DEF Busy

(* What a move does to the set of busy handlers.                           *)
LEMMA MoveBusy ==
  ASSUME TypeOK, NEW c \in Conn, NEW from, NEW to, Go(c, from, to)
  PROVE  /\ from \in BusyPc /\ to \in BusyPc => Busy' = Busy
         /\ from \notin BusyPc /\ to \notin BusyPc => Busy' = Busy
         /\ from \notin BusyPc /\ to \in BusyPc => Cardinality(Busy') = Cardinality(Busy) + 1
         /\ from \in BusyPc /\ to \notin BusyPc => Cardinality(Busy') = Cardinality(Busy) - 1
<1>0. h' = [h EXCEPT ![c] = to] /\ h[c] = from /\ h \in [Conn -> HandlerPc]
  BY Zenon DEF Go, TypeOK
<1>1. \A d \in Conn : h'[d] = IF d = c THEN to ELSE h[d]
  BY Zenon, <1>0
<1>2. ASSUME from \in BusyPc <=> to \in BusyPc PROVE Busy' = Busy
  BY Zenon, <1>0, <1>1, <1>2 DEF Busy, BusyPc
<1>3. ASSUME from \notin BusyPc, to \in BusyPc
      PROVE Cardinality(Busy') = Cardinality(Busy) + 1
  <2>1. Busy' = Busy \cup {c} /\ c \notin Busy
    BY Zenon, <1>0, <1>1, <1>3 DEF Busy, BusyPc
  <2> QED
    BY Zenon, <2>1, BusyFinite, FS_AddElement
<1>4. ASSUME from \in BusyPc, to \notin BusyPc
      PROVE Cardinality(Busy') = Cardinality(Busy) - 1
  <2>1. Busy' = Busy \ {c} /\ c \in Busy
    BY Zenon, <1>0, <1>1, <1>4 DEF Busy, BusyPc
  <2> QED
    BY Zenon, <2>1, BusyFinite, FS_RemoveElement
<1> QED
  BY Zenon, <1>2, <1>3, <1>4

(* _busyHandlers stays the number of handlers between its increment and    *)
(* its decrement, whatever the action.                                     *)
LEMMA BusyStep ==
  ASSUME TypeOK, BusyExact, [ProcessStep]_stateVars
  PROVE  BusyExact'
<1> DEFINE Quiet == busy' = busy /\ Busy' = Busy
<1>0. Quiet => BusyExact'
  BY Zenon DEF BusyExact
<1>1. ASSUME NEW c \in Conn, Accept(c) \/ Schedule(c) \/ ScheduleBusy(c) PROVE Quiet
  <2>1. CASE Accept(c)
    BY <2>1, MoveBusy DEF Accept, BusyPc
  <2>2. CASE Schedule(c)
    BY <2>2, MoveBusy DEF Schedule, BusyPc
  <2>3. CASE ScheduleBusy(c)
    BY <2>3, MoveBusy DEF ScheduleBusy, BusyPc
  <2> QED
    BY Zenon, <1>1, <2>1, <2>2, <2>3
<1>2. ASSUME NEW c \in Conn, Begin(c) \/ EnterHandle(c) \/ Track(c) \/ CloseSocket(c) \/ Untrack(c)
      PROVE Quiet
  <2>1. CASE Begin(c)
    BY <2>1, MoveBusy DEF Begin, BusyPc
  <2>2. CASE EnterHandle(c)
    BY <2>2, MoveBusy DEF EnterHandle, BusyPc
  <2>3. CASE Track(c)
    BY <2>3, MoveBusy DEF Track, BusyPc
  <2>4. CASE CloseSocket(c)
    BY <2>4, MoveBusy DEF CloseSocket, BusyPc
  <2>5. CASE Untrack(c)
    BY <2>5, MoveBusy DEF Untrack, BusyPc
  <2> QED
    BY Zenon, <1>2, <2>1, <2>2, <2>3, <2>4, <2>5
<1>3. ASSUME NEW c \in Conn,
             ReadRequest(c) \/ RejectRequest(c) \/ ReadEof(c) \/ Reply(c) \/ WriteFails(c)
      PROVE Quiet
  <2>1. CASE ReadRequest(c)
    BY Zenon, <2>1, MoveBusy DEF ReadRequest, BusyPc
  <2>2. CASE RejectRequest(c)
    BY Zenon, <2>2, MoveBusy DEF RejectRequest, BusyPc
  <2>3. CASE ReadEof(c)
    BY Zenon, <2>3, MoveBusy DEF ReadEof, BusyPc
  <2>4. CASE Reply(c)
    <3>1. PICK to \in {"ending", "reading"} : Go(c, "replying", to)
      BY Zenon, <2>4 DEF Reply
    <3> QED
      BY Zenon, <2>4, <3>1, MoveBusy DEF Reply, BusyPc
  <2>5. CASE WriteFails(c)
    BY Zenon, <2>5, MoveBusy DEF WriteFails, BusyPc
  <2> QED
    BY <1>3, <2>1, <2>2, <2>3, <2>4, <2>5
<1>4. ASSUME NEW c \in Conn, CountBusy(c) PROVE BusyExact'
  <2>1. busy' = busy + 1 /\ Cardinality(Busy') = Cardinality(Busy) + 1
    BY <1>4, MoveBusy DEF CountBusy, BusyPc
  <2> QED
    BY Zenon, <2>1 DEF BusyExact
<1>5. ASSUME NEW c \in Conn, UncountBusy(c) PROVE BusyExact'
  <2>1. busy' = busy - 1 /\ Cardinality(Busy') = Cardinality(Busy) - 1
    BY <1>5, MoveBusy DEF UncountBusy, BusyPc
  <2> QED
    BY Zenon, <2>1 DEF BusyExact
<1>6. ASSUME UNCHANGED <<h, busy>> PROVE Quiet
  BY Zenon, <1>6 DEF Busy
<1>7. (\E c \in Conn : Send(c) \/ Hangup(c)) \/ StopAccepting \/ StopScheduler \/ ShutSockets
        \/ AwaitHandlers \/ AwaitPool \/ UNCHANGED stateVars => UNCHANGED <<h, busy>>
  BY Zenon DEF Send, Hangup, StopAccepting, StopScheduler, ShutSockets, AwaitHandlers, AwaitPool,
         stateVars
<1> HIDE DEF Quiet
<1> QED
  BY Zenon, <1>0, <1>1, <1>2, <1>3, <1>4, <1>5, <1>6, <1>7 DEF ProcessStep, Run, Handle

(* Every action keeps the types.  The counter is a natural number because  *)
(* it is the size of a set.                                                *)
LEMMA TypeStep ==
  ASSUME TypeOK, BusyExact, OwnDescriptor, [ProcessStep]_stateVars
  PROVE  TypeOK'
<1> USE DEF TypeOK
<1>0. busy' \in Nat
  <2>1. BusyExact'
    BY Zenon, BusyStep
  <2>2. IsFiniteSet(Busy')
    BY Zenon, ConnAssumption, FS_Subset DEF Busy
  <2> QED
    BY Zenon, <2>1, <2>2, FS_CardinalityType DEF BusyExact
<1>1. ASSUME NEW c \in Conn, Accept(c) \/ Schedule(c) \/ ScheduleBusy(c) PROVE TypeOK'
  <2>1. CASE Accept(c)
    BY <1>0, <2>1 DEF Accept, Go, RunPc, HandlerPc
  <2>2. CASE Schedule(c)
    BY <1>0, <2>2 DEF Schedule, Go, RunPc, HandlerPc, handlerVars, kernelVars
  <2>3. CASE ScheduleBusy(c)
    BY Zenon, <1>0, <2>3 DEF ScheduleBusy, Go, RunPc, HandlerPc, handlerVars
  <2> QED
    BY Zenon, <1>1, <2>1, <2>2, <2>3
<1>2. ASSUME StopAccepting \/ StopScheduler \/ AwaitHandlers \/ AwaitPool PROVE TypeOK'
  BY Zenon, <1>0, <1>2 DEF StopAccepting, StopScheduler, AwaitHandlers, AwaitPool, RunPc,
                    handlerVars, kernelVars
<1>3. ASSUME ShutSockets PROVE TypeOK'
  <2>1. shut' \subseteq Conn
    BY <1>3 DEF ShutSockets
  <2> QED
    BY Zenon, <1>0, <1>3, <2>1 DEF ShutSockets, RunPc, handlerVars
<1>4. ASSUME NEW c \in Conn, Begin(c) PROVE TypeOK'
  <2>1. Tail(backlog) \in Seq(Conn)
    BY <1>4 DEF Begin
  <2> QED
    BY Zenon, <1>0, <1>4, <2>1 DEF Begin, Go, HandlerPc, handlerVars, kernelVars
<1>5. ASSUME NEW c \in Conn, EnterHandle(c) \/ CountBusy(c) \/ ReadEof(c) \/ UncountBusy(c)
      PROVE TypeOK'
  BY Zenon, <1>0, <1>5 DEF EnterHandle, CountBusy, ReadEof, UncountBusy, Go, HandlerPc, InTask, Serving,
                    runVars, handlerVars, kernelVars
<1>6. ASSUME NEW c \in Conn, Track(c) PROVE TypeOK'
  <2>1. fd[c] \in Fd
    BY Zenon, <1>6 DEF Track, Go, OwnDescriptor, Open
  <2> QED
    BY Zenon, <1>0, <1>6, <2>1 DEF Track, Go, HandlerPc, InTask, Serving, runVars, kernelVars
<1>7. ASSUME NEW c \in Conn, ReadRequest(c) \/ RejectRequest(c) PROVE TypeOK'
  <2>1. pending' \in [Conn -> Seq(Request)]
    <3>1. Tail(pending[c]) \in Seq(Request)
      BY <1>7 DEF ReadRequest, RejectRequest
    <3> QED
      BY Zenon, <1>7, <3>1 DEF ReadRequest, RejectRequest
  <2>2. h[c] = "reading" => owner[fd[c]] \in Conn
    BY Zenon DEF OwnDescriptor, Open, Serving
  <2> QED
    BY Zenon, <1>0, <1>7, <2>1, <2>2 DEF ReadRequest, RejectRequest, Go, HandlerPc, InTask, Serving,
                                  runVars, handlerVars
<1>8. ASSUME NEW c \in Conn, Reply(c) PROVE TypeOK'
  BY <1>0, <1>8 DEF Reply, Go, HandlerPc, InTask, Serving, runVars, kernelVars
<1>9. ASSUME NEW c \in Conn, WriteFails(c) PROVE TypeOK'
  <2>1. owner[fd[c]] \in Conn
    BY Zenon, <1>9 DEF WriteFails, Go, OwnDescriptor, Open, Serving
  <2> QED
    BY Zenon, <1>0, <1>9, <2>1 DEF WriteFails, Go, HandlerPc, InTask, Serving, runVars, handlerVars
<1>10. ASSUME NEW c \in Conn, CloseSocket(c) PROVE TypeOK'
  BY Zenon, <1>0, <1>10 DEF CloseSocket, Go, HandlerPc, InTask, Serving, runVars, handlerVars
<1>11. ASSUME NEW c \in Conn, Untrack(c) PROVE TypeOK'
  BY Zenon, <1>0, <1>11 DEF Untrack, Go, HandlerPc, runVars, kernelVars
<1>12. ASSUME NEW c \in Conn, Send(c) \/ Hangup(c) PROVE TypeOK'
  <2>1. CASE Send(c)
    <3>1. sent' \in [Conn -> 0..MaxSent]
      BY <2>1, RequestAssumption DEF Send
    <3>2. pending' \in [Conn -> Seq(Request)]
      BY <2>1 DEF Send
    <3> QED
      BY Zenon, <1>0, <2>1, <3>1, <3>2 DEF Send, runVars, handlerVars
  <2>2. CASE Hangup(c)
    BY Zenon, <1>0, <2>2 DEF Hangup, runVars, handlerVars
  <2> QED
    BY Zenon, <1>12, <2>1, <2>2
<1>13. ASSUME UNCHANGED stateVars PROVE TypeOK'
  BY Zenon, <1>0, <1>13 DEF stateVars, runVars, handlerVars, kernelVars
<1> HIDE DEF TypeOK
<1> QED
  BY ZenonT(60), <1>1, <1>2, <1>3, <1>4, <1>5, <1>6, <1>7, <1>8, <1>9, <1>10, <1>11, <1>12, <1>13
  DEF ProcessStep, Run, Handle

(* A move within the locations that hold the descriptor changes neither    *)
(* whose it is nor that it is held.                                        *)
LEMMA HoldingMove ==
  ASSUME TypeOK, OwnDescriptor, NoStrayDescriptor,
         NEW c \in Conn, NEW from \in Open, NEW to \in Open, Go(c, from, to),
         UNCHANGED <<owner, fd>>
  PROVE  OwnDescriptor' /\ NoStrayDescriptor'
<1>1. \A d \in Conn : h'[d] \in Open <=> h[d] \in Open
  BY Zenon DEF Go, TypeOK
<1>2. OwnDescriptor'
  BY Zenon, <1>1 DEF OwnDescriptor
<1>3. NoStrayDescriptor'
  <2> SUFFICES ASSUME NEW f \in Fd, owner[f] # None
               PROVE  h'[owner[f]] \in Open /\ fd[owner[f]] = f
    BY Zenon DEF NoStrayDescriptor
  <2>1. owner[f] \in Conn
    BY Zenon DEF TypeOK
  <2> QED
    BY Zenon, <1>1, <2>1 DEF NoStrayDescriptor
<1> QED
  BY Zenon, <1>2, <1>3

(* Closing the descriptor of a connection leaves it in a location that     *)
(* does not hold one, and everybody else's alone.                          *)
LEMMA ClosingMove ==
  ASSUME TypeOK, OwnDescriptor, NoStrayDescriptor,
         NEW c \in Conn, NEW from \in Open, NEW to, to \notin Open, Go(c, from, to),
         owner' = [owner EXCEPT ![fd[c]] = None], fd' = fd
  PROVE  OwnDescriptor' /\ NoStrayDescriptor'
<1>0. fd[c] \in Fd /\ owner[fd[c]] = c
  BY Zenon DEF OwnDescriptor, Go
<1>1. \A d \in Conn : h'[d] = IF d = c THEN to ELSE h[d]
  BY Zenon DEF Go, TypeOK
<1>2. \A f \in Fd : owner'[f] = IF f = fd[c] THEN None ELSE owner[f]
  BY Zenon, <1>0 DEF TypeOK
<1>3. OwnDescriptor'
  BY <1>0, <1>1, <1>2 DEF OwnDescriptor
<1>4. NoStrayDescriptor'
  <2> SUFFICES ASSUME NEW f \in Fd, owner'[f] # None
               PROVE  h'[owner'[f]] \in Open /\ fd[owner'[f]] = f
    BY Zenon DEF NoStrayDescriptor
  <2>1. f # fd[c] /\ owner'[f] = owner[f] /\ owner[f] \in Conn
    BY Zenon, <1>2 DEF TypeOK
  <2>2. h[owner[f]] \in Open /\ fd[owner[f]] = f
    BY Zenon, <2>1 DEF NoStrayDescriptor
  <2>3. owner[f] # c
    BY Zenon, <2>1, <2>2
  <2> QED
    BY Zenon, <1>1, <2>1, <2>2, <2>3
<1> QED
  BY Zenon, <1>3, <1>4

(* Descriptor numbers are never shared, lost or used by a stranger.        *)
LEMMA DescriptorStep ==
  ASSUME TypeOK, OwnDescriptor, NoStrayDescriptor, [ProcessStep]_stateVars
  PROVE  OwnDescriptor' /\ NoStrayDescriptor'
<1> USE DEF Open, Serving
<1>1. ASSUME NEW c \in Conn, Accept(c) PROVE OwnDescriptor' /\ NoStrayDescriptor'
  <2>1. PICK f \in Fd : /\ owner[f] = None
                        /\ owner' = [owner EXCEPT ![f] = c]
                        /\ fd' = [fd EXCEPT ![c] = f]
    BY Zenon, <1>1 DEF Accept
  <2>2. \A d \in Conn : h'[d] = IF d = c THEN "scheduling" ELSE h[d]
    BY Zenon, <1>1 DEF Accept, Go, TypeOK
  <2>3. \A d \in Conn : fd'[d] = IF d = c THEN f ELSE fd[d]
    BY Zenon, <2>1 DEF TypeOK
  <2>4. \A g \in Fd : owner'[g] = IF g = f THEN c ELSE owner[g]
    BY Zenon, <2>1 DEF TypeOK
  <2>5. h[c] \notin Open
    BY Zenon, <1>1 DEF Accept, Go
  <2>6. OwnDescriptor'
    BY <2>1, <2>2, <2>3, <2>4, ConnAssumption DEF OwnDescriptor
  <2>7. NoStrayDescriptor'
    <3> SUFFICES ASSUME NEW g \in Fd, owner'[g] # None
                 PROVE  h'[owner'[g]] \in Open /\ fd'[owner'[g]] = g
      BY Zenon DEF NoStrayDescriptor
    <3>1. CASE g = f
      BY Zenon, <2>2, <2>3, <2>4, <3>1
    <3>2. CASE g # f
      <4>1. owner'[g] = owner[g] /\ owner[g] \in Conn
        BY Zenon, <2>4, <3>2 DEF TypeOK
      <4>2. h[owner[g]] \in Open /\ fd[owner[g]] = g
        BY Zenon, <4>1 DEF NoStrayDescriptor
      <4>3. owner[g] # c
        BY Zenon, <2>5, <4>2
      <4> QED
        BY Zenon, <2>2, <2>3, <4>1, <4>2, <4>3
    <3> QED
      BY Zenon, <3>1, <3>2
  <2> QED
    BY Zenon, <2>6, <2>7
<1>2. ASSUME NEW c \in Conn, ScheduleBusy(c) \/ CloseSocket(c)
      PROVE OwnDescriptor' /\ NoStrayDescriptor'
  BY Zenon, <1>2, ClosingMove DEF ScheduleBusy, CloseSocket, handlerVars
<1>3. ASSUME NEW c \in Conn, Schedule(c) \/ Begin(c) \/ EnterHandle(c)
      PROVE OwnDescriptor' /\ NoStrayDescriptor'
  BY Zenon, <1>3, HoldingMove DEF Schedule, Begin, EnterHandle, handlerVars, kernelVars
<1>4. ASSUME NEW c \in Conn, Track(c) \/ CountBusy(c) \/ ReadRequest(c) \/ RejectRequest(c)
      PROVE OwnDescriptor' /\ NoStrayDescriptor'
  BY Zenon, <1>4, HoldingMove DEF Track, CountBusy, ReadRequest, RejectRequest, handlerVars, kernelVars
<1>5. ASSUME NEW c \in Conn, ReadEof(c) \/ WriteFails(c) \/ UncountBusy(c)
      PROVE OwnDescriptor' /\ NoStrayDescriptor'
  BY Zenon, <1>5, HoldingMove DEF ReadEof, WriteFails, UncountBusy, handlerVars, kernelVars
<1>6. ASSUME NEW c \in Conn, Reply(c) PROVE OwnDescriptor' /\ NoStrayDescriptor'
  <2>1. PICK to \in {"ending", "reading"} : Go(c, "replying", to)
    BY Zenon, <1>6 DEF Reply
  <2> QED
    BY Zenon, <1>6, <2>1, HoldingMove DEF Reply, kernelVars
<1>7. ASSUME NEW c \in Conn, Untrack(c) PROVE OwnDescriptor' /\ NoStrayDescriptor'
  <2>1. h[c] = "erasing" /\ \A d \in Conn : h'[d] = IF d = c THEN "returned" ELSE h[d]
    BY Zenon, <1>7 DEF Untrack, Go, TypeOK
  <2>2. owner' = owner /\ fd' = fd
    BY Zenon, <1>7 DEF Untrack, kernelVars
  <2>3. \A d \in Conn : h'[d] \in Open <=> h[d] \in Open
    BY Zenon, <2>1
  <2> QED
    BY <2>2, <2>3 DEF OwnDescriptor, NoStrayDescriptor, TypeOK
<1>8. ASSUME UNCHANGED <<h, owner, fd>> PROVE OwnDescriptor' /\ NoStrayDescriptor'
  BY Zenon, <1>8 DEF OwnDescriptor, NoStrayDescriptor
<1>9. (\E c \in Conn : Send(c) \/ Hangup(c)) \/ StopAccepting \/ StopScheduler \/ ShutSockets
        \/ AwaitHandlers \/ AwaitPool \/ UNCHANGED stateVars => UNCHANGED <<h, owner, fd>>
  BY Zenon DEF Send, Hangup, StopAccepting, StopScheduler, ShutSockets, AwaitHandlers, AwaitPool,
         stateVars, handlerVars, kernelVars
<1> QED
  BY Zenon, <1>1, <1>2, <1>3, <1>4, <1>5, <1>6, <1>7, <1>8, <1>9 DEF ProcessStep, Run, Handle

(* A step of a connection that stays inside, or stays outside, the         *)
(* locations in which it may be tracked, and touches neither the map nor   *)
(* the descriptor numbers.                                                 *)
LEMMA TrackedMove ==
  ASSUME TypeOK, TrackedExact, NEW c \in Conn, NEW from, NEW to, Go(c, from, to),
         from \in Serving => to \in Serving, UNCHANGED <<sockets, tracked, fd>>
  PROVE  TrackedExact'
<1>1. \A d \in Conn : h[d] \in Serving => h'[d] \in Serving
  BY Zenon DEF Go, TypeOK
<1> QED
  BY Zenon, <1>1 DEF TrackedExact, TypeOK

(* The socket map holds one entry per tracked handler.                     *)
LEMMA TrackedStep ==
  ASSUME TypeOK, OwnDescriptor, TrackedExact, [ProcessStep]_stateVars
  PROVE  TrackedExact'
<1> USE DEF Serving
<1>1. ASSUME NEW c \in Conn, Accept(c) PROVE TrackedExact'
  <2>1. h[c] = "none" /\ \A d \in Conn : d # c => h'[d] = h[d] /\ fd'[d] = fd[d]
    BY Zenon, <1>1 DEF Accept, Go, TypeOK
  <2>2. c \notin tracked
    BY Zenon, <2>1 DEF TrackedExact
  <2>3. sockets' = sockets /\ tracked' = tracked
    BY Zenon, <1>1 DEF Accept
  <2>4. \A d \in tracked : h'[d] = h[d] /\ fd'[d] = fd[d]
    BY Zenon, <2>1, <2>2 DEF TypeOK
  <2> QED
    BY <2>3, <2>4 DEF TrackedExact
<1>2. ASSUME NEW c \in Conn, Schedule(c) \/ ScheduleBusy(c) \/ Begin(c) \/ EnterHandle(c)
      PROVE TrackedExact'
  BY Zenon, <1>2, TrackedMove DEF Schedule, ScheduleBusy, Begin, EnterHandle, handlerVars
<1>3. ASSUME NEW c \in Conn, Track(c) PROVE TrackedExact'
  <2>1. h[c] = "enter" /\ \A d \in Conn : h'[d] = IF d = c THEN "inserted" ELSE h[d]
    BY Zenon, <1>3 DEF Track, Go, TypeOK
  <2>2. c \notin tracked
    BY Zenon, <2>1 DEF TrackedExact
  <2>3. sockets' = sockets \cup {fd[c]} /\ fd' = fd
        /\ tracked' = IF fd[c] \in sockets THEN tracked ELSE tracked \cup {c}
    BY Zenon, <1>3 DEF Track
  <2>4. \A d \in tracked : d \in Conn /\ h[d] \in Serving /\ fd[d] \in sockets
    BY Zenon DEF TrackedExact, TypeOK
  <2>5. CASE fd[c] \in sockets
    <3>1. sockets' = sockets /\ tracked' = tracked
      BY Zenon, <2>3, <2>5
    <3> QED
      BY Zenon, <2>1, <2>3, <2>4, <3>1 DEF TrackedExact
  <2>6. CASE fd[c] \notin sockets
    <3>1. tracked' = tracked \cup {c}
      BY Zenon, <2>3, <2>6
    <3>2. \A d \in tracked' : h'[d] \in Serving /\ fd'[d] \in sockets'
      BY Zenon, <2>1, <2>3, <2>4, <3>1
    <3>3. \A f \in sockets' : \E d \in tracked' : fd'[d] = f
      BY Zenon, <2>3, <3>1 DEF TrackedExact
    <3>4. \A d, e \in tracked' : fd'[d] = fd'[e] => d = e
      BY Zenon, <2>3, <2>4, <2>6, <3>1 DEF TrackedExact
    <3> QED
      BY Zenon, <3>2, <3>3, <3>4 DEF TrackedExact
  <2> QED
    BY Zenon, <2>5, <2>6
<1>4. ASSUME NEW c \in Conn, CountBusy(c) \/ ReadRequest(c) \/ RejectRequest(c) \/ ReadEof(c)
      PROVE TrackedExact'
  BY Zenon, <1>4, TrackedMove DEF CountBusy, ReadRequest, RejectRequest, ReadEof, handlerVars
<1>5. ASSUME NEW c \in Conn, WriteFails(c) \/ UncountBusy(c) \/ CloseSocket(c)
      PROVE TrackedExact'
  BY Zenon, <1>5, TrackedMove DEF WriteFails, UncountBusy, CloseSocket, handlerVars
<1>6. ASSUME NEW c \in Conn, Reply(c) PROVE TrackedExact'
  <2>1. PICK to \in {"ending", "reading"} : Go(c, "replying", to)
    BY <1>6 DEF Reply
  <2> QED
    BY Zenon, <1>6, <2>1, TrackedMove DEF Reply
<1>7. ASSUME NEW c \in Conn, Untrack(c) PROVE TrackedExact'
  <2>1. \A d \in Conn : d # c => h'[d] = h[d]
    BY Zenon, <1>7 DEF Untrack, Go, TypeOK
  <2>2. tracked' = tracked \ {c} /\ fd' = fd
        /\ sockets' = IF c \in tracked THEN sockets \ {fd[c]} ELSE sockets
    BY Zenon, <1>7 DEF Untrack
  <2>3. \A d \in tracked' : d \in tracked /\ d # c /\ h'[d] = h[d]
    BY Zenon, <2>1, <2>2 DEF TypeOK
  <2>4. CASE c \in tracked
    <3>1. \A d \in tracked' : fd[d] # fd[c]
      BY Zenon, <2>3, <2>4 DEF TrackedExact
    <3>2. \A d \in tracked' : h'[d] \in Serving /\ fd'[d] \in sockets'
      BY Zenon, <2>2, <2>3, <2>4, <3>1 DEF TrackedExact
    <3>3. \A f \in sockets' : \E d \in tracked' : fd'[d] = f
      BY Zenon, <2>2, <2>4 DEF TrackedExact
    <3> QED
      BY Zenon, <2>2, <2>3, <3>2, <3>3 DEF TrackedExact
  <2>5. CASE c \notin tracked
    <3>1. tracked' = tracked /\ sockets' = sockets
      BY Zenon, <2>2, <2>5
    <3> QED
      BY Zenon, <2>2, <2>3, <3>1 DEF TrackedExact
  <2> QED
    BY Zenon, <2>4, <2>5
<1>8. ASSUME UNCHANGED <<h, sockets, tracked, fd>> PROVE TrackedExact'
  BY Zenon, <1>8 DEF TrackedExact
<1>9. (\E c \in Conn : Send(c) \/ Hangup(c)) \/ StopAccepting \/ StopScheduler \/ ShutSockets
        \/ AwaitHandlers \/ AwaitPool \/ UNCHANGED stateVars
      => UNCHANGED <<h, sockets, tracked, fd>>
  BY Zenon DEF Send, Hangup, StopAccepting, StopScheduler, ShutSockets, AwaitHandlers, AwaitPool,
         stateVars, handlerVars
<1> QED
  BY Zenon, <1>1, <1>2, <1>3, <1>4, <1>5, <1>6, <1>7, <1>8, <1>9 DEF ProcessStep, Run, Handle

(* A step of a connection that is not queued leaves the queue alone.       *)
LEMMA QueueMove ==
  ASSUME TypeOK, QueueExact, NEW c \in Conn, NEW from, NEW to, Go(c, from, to),
         from # "queued", to # "scheduling", UNCHANGED runVars
  PROVE  QueueExact'
<1>1. \A d \in Conn : h'[d] = IF d = c THEN to ELSE h[d]
  BY Zenon DEF Go, TypeOK
<1>2. \A i \in 1..Len(backlog) : backlog[i] \in Conn
  BY DEF TypeOK
<1>3. h[c] = from
  BY Zenon DEF Go
<1> QED
  BY ZenonT(60), <1>1, <1>2, <1>3 DEF QueueExact, runVars

(* The queue holds every connection handed over and not begun, once.       *)
LEMMA QueueStep ==
  ASSUME TypeOK, QueueExact, [ProcessStep]_stateVars
  PROVE  QueueExact'
<1>0. backlog \in Seq(Conn) /\ \A i \in 1..Len(backlog) : backlog[i] \in Conn
  BY DEF TypeOK
<1>1. ASSUME NEW c \in Conn, Accept(c) PROVE QueueExact'
  <2>1. h[c] = "none" /\ \A d \in Conn : h'[d] = IF d = c THEN "scheduling" ELSE h[d]
    BY Zenon, <1>1 DEF Accept, Go, TypeOK
  <2>2. main = "accepting" /\ main' = "scheduling" /\ backlog' = backlog /\ closed' = closed
    BY Zenon, <1>1 DEF Accept
  <2>3. \A d \in Conn : h[d] # "scheduling"
    BY Zenon, <2>2 DEF QueueExact
  <2> QED
    BY ZenonT(60), <1>0, <2>1, <2>2, <2>3 DEF QueueExact
<1>2. ASSUME NEW c \in Conn, Schedule(c) PROVE QueueExact'
  <2>1. h[c] = "scheduling" /\ \A d \in Conn : h'[d] = IF d = c THEN "queued" ELSE h[d]
    BY Zenon, <1>2 DEF Schedule, Go, TypeOK
  <2>2. backlog' = Append(backlog, c) /\ main' = "accepting" /\ closed' = closed
    BY Zenon, <1>2 DEF Schedule
  <2>3. main = "scheduling"
    BY Zenon, <2>1 DEF QueueExact
  <2>4. Len(backlog') = Len(backlog) + 1 /\ backlog'[Len(backlog) + 1] = c
        /\ \A i \in 1..Len(backlog) : backlog'[i] = backlog[i]
    BY <1>0, <2>2
  <2>5. \A i \in 1..Len(backlog) : backlog[i] # c
    BY Zenon, <2>1 DEF QueueExact
  <2>6. \A i \in 1..Len(backlog') : h'[backlog'[i]] = "queued"
    <3> SUFFICES ASSUME NEW i \in 1..Len(backlog') PROVE h'[backlog'[i]] = "queued"
      BY Zenon
    <3>1. CASE i = Len(backlog) + 1
      BY Zenon, <2>1, <2>4, <3>1
    <3>2. CASE i # Len(backlog) + 1
      <4>1. i \in 1..Len(backlog)
        BY <1>0, <2>4, <3>2
      <4> QED
        BY <1>0, <2>1, <2>4, <2>5, <4>1 DEF QueueExact
    <3> QED
      BY Zenon, <3>1, <3>2
  <2>7. \A i, j \in 1..Len(backlog') : i # j => backlog'[i] # backlog'[j]
    <3> SUFFICES ASSUME NEW i \in 1..Len(backlog'), NEW j \in 1..Len(backlog'), i # j
                 PROVE  backlog'[i] # backlog'[j]
      BY Zenon
    <3>0. \A k \in 1..Len(backlog') : k = Len(backlog) + 1 \/ k \in 1..Len(backlog)
      BY <1>0, <2>4
    <3> QED
      BY <2>4, <2>5, <3>0 DEF QueueExact
  <2>8. \A d \in Conn : h'[d] # "scheduling"
    BY Zenon, <2>1 DEF QueueExact
  <2> QED
    BY Zenon, <2>2, <2>3, <2>6, <2>7, <2>8 DEF QueueExact
<1>3. ASSUME NEW c \in Conn, ScheduleBusy(c) PROVE QueueExact'
  <2>1. h[c] = "scheduling" /\ \A d \in Conn : h'[d] = IF d = c THEN "refused" ELSE h[d]
    BY Zenon, <1>3 DEF ScheduleBusy, Go, TypeOK
  <2>2. backlog' = backlog /\ main' = "accepting" /\ closed' = closed
    BY Zenon, <1>3 DEF ScheduleBusy
  <2>3. main = "scheduling" /\ \A d \in Conn : h'[d] # "scheduling"
    BY Zenon, <2>1 DEF QueueExact
  <2> QED
    BY ZenonT(60), <1>0, <2>1, <2>2, <2>3 DEF QueueExact
<1>4. ASSUME NEW c \in Conn, Begin(c) PROVE QueueExact'
  <2>1. h[c] = "queued" /\ \A d \in Conn : h'[d] = IF d = c THEN "begun" ELSE h[d]
    BY Zenon, <1>4 DEF Begin, Go, TypeOK
  <2>2. backlog # <<>> /\ backlog[1] = c /\ backlog' = Tail(backlog)
        /\ main' = main /\ closed' = closed
    BY <1>0, <1>4 DEF Begin
  <2>3. Len(backlog') = Len(backlog) - 1 /\ \A i \in 1..Len(backlog') : backlog'[i] = backlog[i + 1]
    BY <1>0, <2>2
  <2>4. \A i \in 1..Len(backlog') : i + 1 \in 1..Len(backlog) /\ i + 1 # 1
    BY <1>0, <2>3
  <2>5. 1 \in 1..Len(backlog)
    BY <1>0, <2>2
  <2>6. \A i \in 1..Len(backlog') : backlog'[i] # c /\ backlog'[i] \in Conn /\ h[backlog'[i]] = "queued"
    BY <1>0, <2>2, <2>3, <2>4, <2>5 DEF QueueExact
  <2>7. \A i \in 1..Len(backlog') : h'[backlog'[i]] = "queued"
    BY Zenon, <2>1, <2>6
  <2>8. \A i, j \in 1..Len(backlog') : i # j => backlog'[i] # backlog'[j]
    <3> SUFFICES ASSUME NEW i \in 1..Len(backlog'), NEW j \in 1..Len(backlog'), i # j
                 PROVE  backlog'[i] # backlog'[j]
      OBVIOUS
    <3>1. i + 1 # j + 1
      OBVIOUS
    <3>2. backlog[i + 1] # backlog[j + 1]
      BY Zenon, <2>4, <3>1 DEF QueueExact
    <3> QED
      BY Zenon, <2>3, <3>2
  <2> QED
    BY SMTT(60), <2>1, <2>2, <2>7, <2>8 DEF QueueExact
<1>5. ASSUME NEW c \in Conn, EnterHandle(c) \/ Track(c) \/ CountBusy(c) \/ ReadRequest(c)
      PROVE QueueExact'
  BY Zenon, <1>5, QueueMove DEF EnterHandle, Track, CountBusy, ReadRequest
<1>6. ASSUME NEW c \in Conn, RejectRequest(c) \/ ReadEof(c) \/ WriteFails(c) \/ UncountBusy(c)
      PROVE QueueExact'
  BY Zenon, <1>6, QueueMove DEF RejectRequest, ReadEof, WriteFails, UncountBusy
<1>7. ASSUME NEW c \in Conn, CloseSocket(c) \/ Untrack(c) PROVE QueueExact'
  BY Zenon, <1>7, QueueMove DEF CloseSocket, Untrack
<1>8. ASSUME NEW c \in Conn, Reply(c) PROVE QueueExact'
  <2>1. PICK to \in {"ending", "reading"} : Go(c, "replying", to)
    BY <1>8 DEF Reply
  <2> QED
    BY Zenon, <1>8, <2>1, QueueMove DEF Reply
<1>9. ASSUME StopAccepting \/ StopScheduler \/ ShutSockets \/ AwaitHandlers \/ AwaitPool
      PROVE QueueExact'
  <2>1. h' = h /\ backlog' = backlog /\ main # "scheduling"
    BY Zenon, <1>9 DEF StopAccepting, StopScheduler, ShutSockets, AwaitHandlers, AwaitPool
  <2>2. \A c \in Conn : h[c] # "scheduling"
    BY Zenon, <2>1 DEF QueueExact
  <2>3. closed' <=> main' \in {"shutting", "busyWait", "poolWait", "returned"}
    BY <1>9 DEF StopAccepting, StopScheduler, ShutSockets, AwaitHandlers, AwaitPool, QueueExact
  <2> QED
    BY Zenon, <2>1, <2>2, <2>3 DEF QueueExact
<1>10. ASSUME UNCHANGED <<h, runVars>> PROVE QueueExact'
  BY Zenon, <1>10 DEF QueueExact, runVars
<1>11. (\E c \in Conn : Send(c) \/ Hangup(c)) \/ UNCHANGED stateVars => UNCHANGED <<h, runVars>>
  BY Zenon DEF Send, Hangup, stateVars
<1> QED
  BY ZenonT(60), <1>1, <1>2, <1>3, <1>4, <1>5, <1>6, <1>7, <1>8, <1>9, <1>10, <1>11 DEF ProcessStep, Run, Handle

(* The inductive invariant holds at the start and is kept by every step.   *)
LEMMA ServerInvInit == Init => ServerInv
<1> SUFFICES ASSUME Init PROVE ServerInv
  BY Zenon
<1> USE DEF Init
<1>1. TypeOK
  <2>1. h \in [Conn -> HandlerPc] /\ main \in RunPc
    BY Zenon DEF RunPc, HandlerPc
  <2>2. sent \in [Conn -> 0..MaxSent] /\ replies \in [Conn -> Nat] /\ busy \in Nat
    BY RequestAssumption
  <2>3. pending \in [Conn -> Seq(Request)] /\ backlog \in Seq(Conn)
    OBVIOUS
  <2>4. fd \in [Conn -> Fd \cup {None}] /\ owner \in [Fd -> Conn \cup {None}]
    BY Zenon
  <2>5. peer \in [Conn -> {"none", "open", "gone"}]
    BY Zenon
  <2> QED
    BY Zenon, <2>1, <2>2, <2>3, <2>4, <2>5 DEF TypeOK
<1>2. BusyExact
  <2>1. Busy = {}
    BY Zenon DEF Busy
  <2> QED
    BY Zenon, <2>1, FS_EmptySet DEF BusyExact
<1>3. OwnDescriptor /\ NoStrayDescriptor /\ TrackedExact /\ QueueExact
  BY DEF OwnDescriptor, NoStrayDescriptor, TrackedExact, QueueExact, Open, Serving
<1>4. killed \in BOOLEAN
  BY Zenon
<1> QED
  BY Zenon, <1>1, <1>2, <1>3, <1>4 DEF ServerInv

(* Every step keeps the inductive invariant.                               *)
LEMMA ServerInvStep == ServerInv /\ [Next]_vars => ServerInv'
<1> SUFFICES ASSUME ServerInv, [Next]_vars PROVE ServerInv'
  BY Zenon
<1>1. [ProcessStep]_stateVars /\ (killed' = killed \/ killed' = TRUE)
  BY Zenon, LiveStep
<1>2. killed' \in BOOLEAN
  BY Zenon, <1>1 DEF ServerInv
<1> QED
  BY Zenon, <1>1, <1>2, TypeStep, BusyStep, DescriptorStep, TrackedStep, QueueStep DEF ServerInv

(* Descriptor table, socket map, busy counter and queue agree with the     *)
(* handlers in every state of server.h, for any number of connections.     *)
THEOREM ServerInvariant == Spec => []ServerInv
  BY ServerInvInit, ServerInvStep, PTL DEF Spec

(* No handler ever reads, writes, shuts down or closes the descriptor of   *)
(* another connection.                                                     *)
THEOREM DescriptorsKept == Spec => []OwnDescriptor
<1>1. ServerInv => OwnDescriptor
  BY Zenon DEF ServerInv
<1> QED
  BY <1>1, ServerInvariant, PTL

(* No open descriptor is forgotten: a connection that is handled, or that  *)
(* the shutdown left queued, has it.                                       *)
THEOREM DescriptorsOwned == Spec => []NoStrayDescriptor
<1>1. ServerInv => NoStrayDescriptor
  BY Zenon DEF ServerInv
<1> QED
  BY <1>1, ServerInvariant, PTL

(* _sockets names exactly the handlers that registered, one per number.    *)
THEOREM SocketsTracked == Spec => []TrackedExact
<1>1. ServerInv => TrackedExact
  BY Zenon DEF ServerInv
<1> QED
  BY <1>1, ServerInvariant, PTL

PoolRunning == {c \in Conn : h[c] \in InTask \cup {"begun"}}
PoolFinished == {c \in Conn : h[c] = "returned"}

(* A step inside a task is no step of the pool.                            *)
LEMMA PoolStutter ==
  ASSUME TypeOK, NEW c \in Conn, NEW from, NEW to, Go(c, from, to), UNCHANGED <<backlog, closed>>,
         from \in InTask \cup {"begun"} <=> to \in InTask \cup {"begun"},
         from # "returned", to # "returned"
  PROVE  UNCHANGED <<backlog, PoolRunning, PoolFinished, closed>>
<1>1. h[c] = from /\ \A d \in Conn : h'[d] = IF d = c THEN to ELSE h[d]
  BY Zenon DEF Go, TypeOK
<1>2. PoolRunning' = PoolRunning
  BY Zenon, <1>1 DEF PoolRunning
<1>3. PoolFinished' = PoolFinished
  BY Zenon, <1>1 DEF PoolFinished
<1> QED
  BY Zenon, <1>2, <1>3

(* Every step of the server is a step of TaskPool or none.                 *)
LEMMA PoolStep ==
  ASSUME ServerInv, [ProcessStep]_stateVars
  PROVE  [Pool!PoolNext]_(Pool!poolVars)
<1> DEFINE Same == UNCHANGED <<backlog, PoolRunning, PoolFinished, closed>>
<1>0. TypeOK /\ QueueExact
  BY Zenon DEF ServerInv
<1>a. Same => UNCHANGED Pool!poolVars
  BY Zenon DEF Pool!poolVars, PoolRunning, PoolFinished
<1> USE DEF InTask, Serving
<1>1. ASSUME NEW c \in Conn, Schedule(c) PROVE Pool!Submit(c)
  <2>1. h[c] = "scheduling" /\ \A d \in Conn : h'[d] = IF d = c THEN "queued" ELSE h[d]
    BY Zenon, <1>0, <1>1 DEF Schedule, Go, TypeOK
  <2>2. PoolRunning' = PoolRunning
    BY Zenon, <2>1 DEF PoolRunning
  <2>3. PoolFinished' = PoolFinished
    BY Zenon, <2>1 DEF PoolFinished
  <2>4. main = "scheduling" /\ ~closed
    BY Zenon, <1>0, <2>1 DEF QueueExact
  <2>5. c \notin PoolRunning /\ c \notin PoolFinished
    BY Zenon, <2>1 DEF PoolRunning, PoolFinished
  <2>6. c \notin Pool!Backlogged
    <3>1. \A i \in 1..Len(backlog) : backlog[i] # c
      BY Zenon, <1>0, <2>1 DEF QueueExact
    <3>2. DOMAIN backlog = 1..Len(backlog)
      BY <1>0 DEF TypeOK
    <3> QED
      BY Zenon, <3>1, <3>2 DEF Pool!Backlogged
  <2>7. backlog' = Append(backlog, c) /\ closed' = closed
    BY Zenon, <1>1 DEF Schedule
  <2> QED
    BY Zenon, <2>2, <2>3, <2>4, <2>5, <2>6, <2>7 DEF Pool!Submit, PoolRunning, PoolFinished
<1>2. ASSUME NEW c \in Conn, Begin(c) PROVE Pool!Begin
  <2>1. h[c] = "queued" /\ \A d \in Conn : h'[d] = IF d = c THEN "begun" ELSE h[d]
    BY Zenon, <1>0, <1>2 DEF Begin, Go, TypeOK
  <2>2. PoolRunning' = PoolRunning \cup {c}
    BY Zenon, <2>1 DEF PoolRunning
  <2>3. PoolFinished' = PoolFinished
    BY Zenon, <2>1 DEF PoolFinished
  <2>4. ~closed /\ backlog # <<>> /\ Head(backlog) = c /\ backlog' = Tail(backlog) /\ closed' = closed
    BY Zenon, <1>2 DEF Begin
  <2> QED
    BY Zenon, <2>2, <2>3, <2>4 DEF Pool!Begin, PoolRunning, PoolFinished
<1>3. ASSUME NEW c \in Conn, Untrack(c) PROVE Pool!Finish(c)
  <2>1. h[c] = "erasing" /\ \A d \in Conn : h'[d] = IF d = c THEN "returned" ELSE h[d]
    BY Zenon, <1>0, <1>3 DEF Untrack, Go, TypeOK
  <2>2. c \in PoolRunning /\ PoolRunning' = PoolRunning \ {c}
    BY Zenon, <2>1 DEF PoolRunning
  <2>3. PoolFinished' = PoolFinished \cup {c}
    BY Zenon, <2>1 DEF PoolFinished
  <2>4. backlog' = backlog /\ closed' = closed
    BY Zenon, <1>3 DEF Untrack, runVars
  <2> QED
    BY Zenon, <2>2, <2>3, <2>4 DEF Pool!Finish, PoolRunning, PoolFinished
<1>4. ASSUME StopScheduler PROVE Pool!Close
  <2>1. ~closed /\ closed' = TRUE /\ backlog' = backlog /\ h' = h
    BY Zenon, <1>0, <1>4 DEF StopScheduler, QueueExact, TypeOK
  <2> QED
    BY Zenon, <2>1 DEF Pool!Close
<1>5. ASSUME NEW c \in Conn, Accept(c) \/ ScheduleBusy(c) PROVE Same
  BY Zenon, <1>0, <1>5, PoolStutter DEF Accept, ScheduleBusy
<1>6. ASSUME NEW c \in Conn, EnterHandle(c) \/ Track(c) \/ CountBusy(c) \/ ReadRequest(c)
      PROVE Same
  BY Zenon, <1>0, <1>6, PoolStutter DEF EnterHandle, Track, CountBusy, ReadRequest, runVars
<1>7. ASSUME NEW c \in Conn, RejectRequest(c) \/ ReadEof(c) \/ WriteFails(c) \/ UncountBusy(c)
      PROVE Same
  BY Zenon, <1>0, <1>7, PoolStutter DEF RejectRequest, ReadEof, WriteFails, UncountBusy, runVars
<1>8. ASSUME NEW c \in Conn, CloseSocket(c) \/ Reply(c) PROVE Same
  <2>1. CASE CloseSocket(c)
    BY Zenon, <1>0, <2>1, PoolStutter DEF CloseSocket, runVars
  <2>2. CASE Reply(c)
    <3>1. PICK to \in {"ending", "reading"} : Go(c, "replying", to)
      BY Zenon, <2>2 DEF Reply
    <3> QED
      BY Zenon, <1>0, <2>2, <3>1, PoolStutter DEF Reply, runVars
  <2> QED
    BY Zenon, <1>8, <2>1, <2>2
<1>9. ASSUME UNCHANGED <<h, backlog, closed>> PROVE Same
  BY Zenon, <1>9 DEF PoolRunning, PoolFinished
<1>10. (\E c \in Conn : Send(c) \/ Hangup(c)) \/ StopAccepting \/ ShutSockets
         \/ AwaitHandlers \/ AwaitPool \/ UNCHANGED stateVars => UNCHANGED <<h, backlog, closed>>
  BY Zenon DEF Send, Hangup, StopAccepting, ShutSockets, AwaitHandlers, AwaitPool, stateVars, runVars
<1>11. Pool!PoolNext \/ Same
  <2> HIDE DEF Same
  <2>1. CASE \E c \in Conn : Schedule(c) \/ Untrack(c)
    BY Zenon, <1>1, <1>3, <2>1 DEF Pool!PoolNext
  <2>2. CASE StopScheduler \/ \E c \in Conn : Begin(c)
    BY Zenon, <1>2, <1>4, <2>2 DEF Pool!PoolNext
  <2> QED
    BY Zenon, <2>1, <2>2, <1>5, <1>6, <1>7, <1>8, <1>9, <1>10 DEF ProcessStep, Run, Handle
<1> QED
  BY Zenon, <1>a, <1>11

(* The server needs of its worker pool no more than TaskPool promises.     *)
THEOREM ServerUsesPool == Spec => UsesPool
<1>1. Init => Pool!PoolInit
  <2> SUFFICES ASSUME Init PROVE Pool!PoolInit
    OBVIOUS
  <2>1. PoolRunning = {} /\ PoolFinished = {}
    BY Zenon DEF Init, PoolRunning, PoolFinished, InTask, Serving
  <2> QED
    BY Zenon, <2>1 DEF Init, Pool!PoolInit, PoolRunning, PoolFinished
<1>2. ServerInv /\ [Next]_vars => [Pool!PoolNext]_(Pool!poolVars)
  BY Zenon, LiveStep, PoolStep
<1> QED
  BY <1>1, <1>2, ServerInvariant, PTL DEF Spec, UsesPool, Pool!PoolSpec

-----------------------------------------------------------------------------
(* The connection pool is exclusive and bounded for any number of threads, *)
(* connections, data sources and spare connections.                        *)

(* A subset of the free connections is no larger than all of them, and one *)
(* more connection makes it larger by one at most.                         *)
LEMMA FreeSizes ==
    ASSUME PoolTypeOK
    PROVE  /\ Cardinality(free) \in Nat
           /\ \A S \in SUBSET free : Cardinality(S) <= Cardinality(free)
           /\ \A S \in SUBSET free : Cardinality(S) \in Nat
           /\ \A c \in Con : Cardinality(free \cup {c}) <= Cardinality(free) + 1
           /\ \A c \in Con : Cardinality(free \cup {c}) \in Nat
<1>1. IsFiniteSet(free)
  BY Zenon, PoolAssumption, FS_Subset DEF PoolTypeOK
<1>2. Cardinality(free) \in Nat
  BY Zenon, <1>1, FS_CardinalityType
<1>3. ASSUME NEW S \in SUBSET free
      PROVE  Cardinality(S) <= Cardinality(free) /\ Cardinality(S) \in Nat
  BY Zenon, <1>1, <1>3, FS_Subset, FS_CardinalityType
<1>4. ASSUME NEW c \in Con
      PROVE  /\ Cardinality(free \cup {c}) <= Cardinality(free) + 1
             /\ Cardinality(free \cup {c}) \in Nat
  BY SMTT(60), <1>1, <1>2, FS_AddElement
<1> QED BY Zenon, <1>2, <1>3, <1>4

(* Taking hold of a connection that no Query has keeps them exclusive.     *)
LEMMA Taken ==
    ASSUME PoolTypeOK, Exclusive, NEW q \in Query, NEW c \in Con \ used,
           con[q] = NoCon, con' = [con EXCEPT ![q] = c], used' = used \cup {c},
           c \notin free', free' \subseteq free
    PROVE  Exclusive' /\ Live' = Live \cup {q}
<1>1. \A p \in Query : con'[p] = IF p = q THEN c ELSE con[p]
  BY Zenon DEF PoolTypeOK
<1>2. Live' = Live \cup {q}
  BY Zenon, <1>1, PoolAssumption DEF Live
<1>3. used' = {con'[p] : p \in Live'}
  BY <1>1, <1>2 DEF Exclusive, Live
<1>4. \A p \in Live : con[p] # c
  BY Zenon DEF Exclusive
<1>5. \A p, r \in Live' : con'[p] = con'[r] => p = r
  BY <1>1, <1>2, <1>4 DEF Exclusive, Live
<1> QED BY <1>2, <1>3, <1>5 DEF Exclusive

(* Destroying a Query takes exactly its connection out of use.             *)
LEMMA Given ==
    ASSUME PoolTypeOK, Exclusive, NEW q \in Live,
           con' = [con EXCEPT ![q] = NoCon], used' = used \ {con[q]},
           free' \subseteq free \cup {con[q]}
    PROVE  Exclusive' /\ Live' = Live \ {q}
<1>1. \A p \in Query : con'[p] = IF p = q THEN NoCon ELSE con[p]
  BY Zenon DEF PoolTypeOK
<1>2. Live' = Live \ {q}
  BY Zenon, <1>1 DEF Live
<1>3. used' = {con'[p] : p \in Live'}
  BY <1>1, <1>2 DEF Exclusive, Live
<1>4. \A p, r \in Live' : con'[p] = con'[r] => p = r
  BY <1>1, <1>2 DEF Exclusive, Live
<1> QED BY Zenon, <1>2, <1>3, <1>4 DEF Exclusive

(* Every step of the pool keeps its invariant.                             *)
LEMMA PoolInvStep ==
    ASSUME PoolInv, [PoolNext]_poolVars
    PROVE  PoolInv'
<1> USE PoolAssumption DEF PoolInv
<1>1. CASE UNCHANGED poolVars
  BY <1>1 DEF poolVars, PoolTypeOK, Exclusive, ResultsFreed, FreeBounded, DestroyedIdle, Live
<1>2. ASSUME NEW q \in Query, Reuse(q) PROVE PoolInv'
  <2>1. PICK dead \in SUBSET free, c \in free :
           /\ c \notin dead
           /\ free' = free \ (dead \cup {c}) /\ used' = used \cup {c}
           /\ con' = [con EXCEPT ![q] = c]
    BY Zenon, <1>2 DEF Reuse
  <2>2. c \in Con \ used /\ c \notin free' /\ free' \subseteq free /\ con[q] = NoCon
    BY Zenon, <1>2, <2>1 DEF Reuse, Exclusive, PoolTypeOK
  <2>3. Exclusive' /\ Live' = Live \cup {q}
    BY Zenon, <2>1, <2>2, Taken
  <2>4. FreeBounded'
    BY <2>2, FreeSizes DEF FreeBounded
  <2>5. PoolTypeOK'
    BY Zenon, <1>2, <2>1, <2>2 DEF Reuse, PoolTypeOK
  <2>6. ResultsFreed' /\ DestroyedIdle'
    BY Zenon, <1>2, <2>1 DEF Reuse, ResultsFreed, DestroyedIdle
  <2> QED BY Zenon, <2>3, <2>4, <2>5, <2>6
<1>3. ASSUME NEW q \in Query, Connect(q) PROVE PoolInv'
  <2>1. PICK c \in Con \ (used \cup lost) :
           used' = used \cup {c} /\ con' = [con EXCEPT ![q] = c]
    BY Zenon, <1>3 DEF Connect
  <2>2. Exclusive' /\ Live' = Live \cup {q}
    BY Zenon, <1>3, <2>1, Taken DEF Connect
  <2>3. FreeBounded'
    BY <1>3, FS_EmptySet DEF Connect, FreeBounded
  <2>4. PoolTypeOK' /\ ResultsFreed' /\ DestroyedIdle'
    BY Zenon, <1>3, <2>1 DEF Connect, PoolTypeOK, ResultsFreed, DestroyedIdle
  <2> QED BY Zenon, <2>2, <2>3, <2>4
<1>4. ASSUME NEW q \in Query, ConnectFails(q) PROVE PoolInv'
  <2>1. FreeBounded'
    BY <1>4, FS_EmptySet DEF ConnectFails, FreeBounded
  <2> QED BY <1>4, <2>1 DEF ConnectFails, PoolTypeOK, Exclusive, Live, ResultsFreed, DestroyedIdle
<1>5. ASSUME NEW q \in Query, Execute(q) PROVE PoolInv'
  <2>1. con[q] \in used /\ con[q] \in Con
    BY Zenon, <1>5 DEF Execute, Exclusive, Live, PoolTypeOK
  <2> QED BY <1>5, <2>1 DEF Execute, PoolTypeOK, Exclusive, Live, ResultsFreed, FreeBounded,
        DestroyedIdle
<1>6. ASSUME NEW q \in Query, Destroy(q) PROVE PoolInv'
  <2>1. q \in Live /\ con[q] \in Con
    BY Zenon, <1>6 DEF Destroy, Live, PoolTypeOK
  <2>2. free' = {} \/ free' = Kept(con[q])
    BY Zenon, <1>6 DEF Destroy, Holds
  <2>3. free' \subseteq free \cup {con[q]}
    BY Zenon, <2>2 DEF Kept
  <2>4. Exclusive' /\ Live' = Live \ {q}
    BY Zenon, <1>6, <2>1, <2>3, Given DEF Destroy
  <2>5. FreeBounded'
    <3>1. CASE free' = {}
      BY <3>1, FS_EmptySet DEF FreeBounded
    <3>2. CASE free' = free
      BY Zenon, <3>2 DEF FreeBounded
    <3>3. CASE free' = free \cup {con[q]} /\ ~(Cardinality(free) > Spare)
      BY <2>1, <3>3, FreeSizes DEF FreeBounded
    <3> QED BY Zenon, <2>2, <3>1, <3>2, <3>3 DEF Kept
  <2>6. PoolTypeOK'
    BY Zenon, <1>6, <2>1, <2>3 DEF Destroy, Holds, PoolTypeOK
  <2>7. ResultsFreed'
    BY Zenon, <1>6 DEF Destroy, ResultsFreed
  <2>8. DestroyedIdle'
    <3>1. CASE alive'
      BY Zenon, <3>1 DEF DestroyedIdle
    <3>2. CASE ~alive'
      <4>1. sources' = {} /\ Live' = {} /\ free' = {}
        BY Zenon, <1>6, <2>4, <3>2 DEF Destroy, Holds
      <4> QED BY Zenon, <2>4, <4>1 DEF DestroyedIdle, Exclusive
    <3> QED BY Zenon, <3>1, <3>2
  <2> QED BY Zenon, <2>4, <2>5, <2>6, <2>7, <2>8
<1>7. ASSUME NEW s \in Source, DropSource(s) PROVE PoolInv'
  <2>1. free' = {} \/ free' = free
    BY Zenon, <1>7 DEF DropSource, Holds
  <2>2. FreeBounded'
    BY <2>1, FS_EmptySet DEF FreeBounded
  <2>3. Live' = Live
    BY Zenon, <1>7 DEF DropSource, Live
  <2>4. PoolTypeOK' /\ Exclusive' /\ ResultsFreed'
    BY <1>7, <2>1, <2>3 DEF DropSource, Holds, PoolTypeOK, Exclusive, Live, ResultsFreed
  <2>5. DestroyedIdle'
    BY Zenon, <1>7, <2>3 DEF DropSource, Holds, DestroyedIdle, Exclusive
  <2> QED BY Zenon, <2>2, <2>4, <2>5
<1> QED
  BY ZenonT(60), <1>1, <1>2, <1>3, <1>4, <1>5, <1>6, <1>7 DEF PoolNext

(* Each Query has a connection of its own, no connection is handed on with *)
(* an open result, at most Spare + 1 connections are idle, and the         *)
(* Database outlives its Query objects (Database.cpp:117-206).             *)
THEOREM PoolInvariant == PoolSpec => []PoolInv
<1>1. PoolInit => PoolInv
  BY PoolAssumption, FS_EmptySet DEF PoolInit, PoolInv, PoolTypeOK, Exclusive, Live, ResultsFreed,
     FreeBounded, DestroyedIdle
<1>2. PoolInv /\ [PoolNext]_poolVars => PoolInv'
  BY Zenon, PoolInvStep
<1> QED BY <1>1, <1>2, PTL DEF PoolSpec

(* "each object instance of Query gets a unique database connection"       *)
(* (Database.h:151).                                                       *)
THEOREM PoolExclusive == PoolSpec => []Exclusive
<1>1. PoolInv => Exclusive
  BY Zenon DEF PoolInv
<1> QED BY <1>1, PoolInvariant, PTL

(* No result outlives its Query, the idle connections stay bounded, and    *)
(* the Database goes after its last Query and data source                  *)
(* (Database.cpp:117-206).                                                 *)
THEOREM PoolDrains == PoolSpec => []PoolDrained
<1>1. PoolInv => PoolDrained
  BY Zenon DEF PoolInv, PoolDrained
<1> QED BY <1>1, PoolInvariant, PTL
=============================================================================
