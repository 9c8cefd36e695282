------------------------------- MODULE Server -------------------------------
(***************************************************************************)
(* src/src/server.h: the accept loop and the end of Server::run, and       *)
(* Server::handle, run once per connection by the worker pool.             *)
(*                                                                         *)
(* The pool is the one TaskPool promises (SimpleScheduler implements it);  *)
(* schedule() may refuse a task at any time.  owner, pending, peer and     *)
(* shut are the kernel's side of the sockets: a descriptor number is free  *)
(* again as soon as it is closed.  Deciding on a request and formatting    *)
(* the reply neither change the state below nor escape as an exception.    *)
(***************************************************************************)
EXTENDS Naturals, Sequences, FiniteSets

CONSTANTS
    Conn,           \* client connections
    Fd,             \* descriptor numbers free for client sockets
    None,
    MaxRequests,    \* _maxRequests ("maxrequests", 0: no limit)
    MaxSent         \* bound: requests a client sends

ASSUME ConnAssumption == IsFiniteSet(Conn) /\ None \notin Conn \cup Fd
ASSUME RequestAssumption == MaxRequests \in Nat /\ MaxSent \in Nat

VARIABLES
    main,           \* where Server::run is
    sockets,        \* _sockets
    busy,           \* _busyHandlers
    backlog,        \* _scheduler: connections handed to the pool, not begun
    closed,         \* _scheduler.shutdown() was called
    h,              \* where the handling of each connection is
    fd,             \* its descriptor number
    tracked,        \* connections whose SocketWrapper has _inserted
    replies,        \* handled, the local of Server::handle
    owner,          \* descriptor table: the connection behind a number
    pending,        \* requests received and not read
    sent,           \* how many requests the client sent
    peer,           \* the client's end
    shut,           \* connections shut down with SHUT_RDWR
    killed          \* SIGPIPE has ended the process

runVars == <<main, backlog, closed>>
kernelVars == <<owner, pending, sent, peer, shut>>
handlerVars == <<fd, tracked, replies>>
stateVars == <<runVars, sockets, busy, h, handlerVars, kernelVars>>
vars == <<stateVars, killed>>

\* A request whose empty line comes before all required attributes is "bad".
Request == {"good", "bad"}

(***************************************************************************)
(*   scheduling  accepted, Server::run is calling schedule()               *)
(*   begun       popped by a worker that is not yet counted in _active     *)
(*   enter       in handle(), before SocketWrapper                         *)
(*   inserted    before ++_busyHandlers                                    *)
(*   reading     in Parser::parse;  replying: before write()               *)
(*   ending      before --_busyHandlers                                    *)
(*   closing     before ~SocketReader;  erasing: before ~SocketWrapper     *)
(***************************************************************************)
Serving == {"inserted", "reading", "replying", "ending", "closing", "erasing"}
InTask == {"enter"} \cup Serving
HandlerPc == {"none", "scheduling", "refused", "queued", "begun", "returned"} \cup InTask
RunPc == {"accepting", "scheduling", "stopping", "shutting", "busyWait", "poolWait", "returned"}

Open == {"scheduling", "queued", "begun", "enter"} \cup (Serving \ {"erasing"})
Busy == {c \in Conn : h[c] \in {"reading", "replying", "ending"}}

Go(c, from, to) == h[c] = from /\ h' = [h EXCEPT ![c] = to]

Init ==
    /\ main = "accepting" /\ backlog = <<>> /\ closed = FALSE
    /\ sockets = {} /\ busy = 0
    /\ h = [c \in Conn |-> "none"]
    /\ fd = [c \in Conn |-> None]
    /\ tracked = {}
    /\ replies = [c \in Conn |-> 0]
    /\ owner = [f \in Fd |-> None]
    /\ pending = [c \in Conn |-> <<>>]
    /\ sent = [c \in Conn |-> 0]
    /\ peer = [c \in Conn |-> "none"]
    /\ shut = {} /\ killed = FALSE

-----------------------------------------------------------------------------
(* Server::run.                                                            *)

Accept(c) ==
    /\ main = "accepting"
    /\ Go(c, "none", "scheduling")
    /\ \E f \in Fd : /\ owner[f] = None
                     /\ owner' = [owner EXCEPT ![f] = c]
                     /\ fd' = [fd EXCEPT ![c] = f]
    /\ peer' = [peer EXCEPT ![c] = "open"]
    /\ main' = "scheduling"
    /\ UNCHANGED <<backlog, closed, sockets, busy, tracked, replies, pending, sent, shut>>

Schedule(c) ==
    /\ Go(c, "scheduling", "queued")
    /\ backlog' = Append(backlog, c)
    /\ main' = "accepting"
    /\ UNCHANGED <<closed, sockets, busy, handlerVars, kernelVars>>

\* Faulty variant: the descriptor of a refused connection is forgotten.
ScheduleBusyForgotten(c) ==
    /\ Go(c, "scheduling", "refused")
    /\ main' = "accepting"
    /\ UNCHANGED <<backlog, closed, sockets, busy, handlerVars, kernelVars>>

ScheduleBusy(c) ==
    /\ Go(c, "scheduling", "refused")
    /\ owner' = [owner EXCEPT ![fd[c]] = None]
    /\ main' = "accepting"
    /\ UNCHANGED <<backlog, closed, sockets, busy, handlerVars, pending, sent, peer, shut>>

(* accept() failed: a signal (EINTR), the monitor's shutdown (EINVAL), no  *)
(* descriptor left (EMFILE), ...; the listening socket is closed.          *)
StopAccepting ==
    /\ main = "accepting"
    /\ main' = "stopping"
    /\ UNCHANGED <<backlog, closed, sockets, busy, h, handlerVars, kernelVars>>

StopScheduler ==
    /\ main = "stopping"
    /\ closed' = TRUE
    /\ main' = "shutting"
    /\ UNCHANGED <<backlog, sockets, busy, h, handlerVars, kernelVars>>

\* Faulty variant: the clients are left to close their connections.
ShutSocketsForgotten ==
    /\ main = "shutting"
    /\ main' = "busyWait"
    /\ UNCHANGED <<backlog, closed, sockets, busy, h, handlerVars, kernelVars>>

ShutSockets ==
    /\ main = "shutting"
    /\ shut' = shut \cup ({owner[f] : f \in sockets} \ {None})
    /\ main' = "busyWait"
    /\ UNCHANGED <<backlog, closed, sockets, busy, h, handlerVars, owner, pending, sent, peer>>

AwaitHandlers ==
    /\ main = "busyWait" /\ busy = 0
    /\ main' = "poolWait"
    /\ UNCHANGED <<backlog, closed, sockets, busy, h, handlerVars, kernelVars>>

\* _scheduler.wait() sees a task only once its worker did ++_active.
AwaitPool ==
    /\ main = "poolWait" /\ \A c \in Conn : h[c] \notin InTask
    /\ main' = "returned"
    /\ UNCHANGED <<backlog, closed, sockets, busy, h, handlerVars, kernelVars>>

-----------------------------------------------------------------------------
(* Server::handle.                                                         *)

\* Faulty variant: a worker takes tasks after shutdown() too.
BeginLate(c) ==
    /\ backlog # <<>> /\ Head(backlog) = c
    /\ Go(c, "queued", "begun")
    /\ backlog' = Tail(backlog)
    /\ UNCHANGED <<main, closed, sockets, busy, handlerVars, kernelVars>>

Begin(c) ==
    /\ ~closed /\ backlog # <<>> /\ Head(backlog) = c
    /\ Go(c, "queued", "begun")
    /\ backlog' = Tail(backlog)
    /\ UNCHANGED <<main, closed, sockets, busy, handlerVars, kernelVars>>

EnterHandle(c) ==
    /\ Go(c, "begun", "enter")
    /\ UNCHANGED <<runVars, sockets, busy, handlerVars, kernelVars>>

\* SocketWrapper: insert() changes nothing when the number is a key already.
Track(c) ==
    /\ Go(c, "enter", "inserted")
    /\ sockets' = sockets \cup {fd[c]}
    /\ tracked' = IF fd[c] \in sockets THEN tracked ELSE tracked \cup {c}
    /\ UNCHANGED <<runVars, busy, fd, replies, kernelVars>>

CountBusy(c) ==
    /\ Go(c, "inserted", "reading")
    /\ busy' = busy + 1
    /\ UNCHANGED <<runVars, sockets, handlerVars, kernelVars>>

ReadRequest(c) ==
    /\ pending[c] # <<>> /\ Head(pending[c]) = "good"
    /\ Go(c, "reading", "replying")
    /\ pending' = [pending EXCEPT ![c] = Tail(@)]
    /\ UNCHANGED <<runVars, sockets, busy, handlerVars, owner, sent, peer, shut>>

\* Faulty variant: close() in place of shutdown() in the error path.
RejectClosing(c) ==
    /\ pending[c] # <<>> /\ Head(pending[c]) = "bad"
    /\ Go(c, "reading", "ending")
    /\ pending' = [pending EXCEPT ![c] = Tail(@)]
    /\ owner' = [owner EXCEPT ![fd[c]] = None]
    /\ UNCHANGED <<runVars, sockets, busy, handlerVars, sent, peer, shut>>

\* The parser throws.
RejectRequest(c) ==
    /\ pending[c] # <<>> /\ Head(pending[c]) = "bad"
    /\ Go(c, "reading", "ending")
    /\ pending' = [pending EXCEPT ![c] = Tail(@)]
    /\ shut' = shut \cup {owner[fd[c]]}
    /\ UNCHANGED <<runVars, sockets, busy, handlerVars, owner, sent, peer>>

\* Faulty variant: the loop does not look at isEof().
ReadEofMissed(c) ==
    /\ pending[c] = <<>> /\ (peer[c] = "gone" \/ c \in shut)
    /\ Go(c, "reading", "reading")
    /\ UNCHANGED <<runVars, sockets, busy, handlerVars, kernelVars>>

\* What was received before the shutdown is still delivered first.
ReadEof(c) ==
    /\ pending[c] = <<>> /\ (peer[c] = "gone" \/ c \in shut)
    /\ Go(c, "reading", "ending")
    /\ UNCHANGED <<runVars, sockets, busy, handlerVars, kernelVars>>

Reply(c) ==
    /\ c \notin shut
    /\ Go(c, "replying", IF MaxRequests > 0 /\ replies[c] + 1 = MaxRequests THEN "ending" ELSE "reading")
    /\ replies' = [replies EXCEPT ![c] = @ + 1]
    /\ UNCHANGED <<runVars, sockets, busy, fd, tracked, kernelVars>>

\* write() on a connection that is shut down or closed by the client raises
\* SIGPIPE.  Nothing in src/ sets what it does: where it is ignored (inherited,
\* or set by a library) write() fails and the error path is taken ...
WriteFails(c) ==
    /\ c \in shut \/ peer[c] = "gone"
    /\ Go(c, "replying", "ending")
    /\ shut' = shut \cup {owner[fd[c]]}
    /\ UNCHANGED <<runVars, sockets, busy, handlerVars, owner, pending, sent, peer>>

\* ... and by default it ends the process, with all its threads.
SigPipe(c) ==
    /\ ~killed
    /\ c \in shut \/ peer[c] = "gone"
    /\ h[c] = "replying"
    /\ killed' = TRUE
    /\ UNCHANGED stateVars

UncountBusy(c) ==
    /\ Go(c, "ending", "closing")
    /\ busy' = busy - 1
    /\ UNCHANGED <<runVars, sockets, handlerVars, kernelVars>>

\* The locals are destroyed in reverse order: SocketReader, SocketWrapper.
CloseSocket(c) ==
    /\ Go(c, "closing", "erasing")
    /\ owner' = [owner EXCEPT ![fd[c]] = None]
    /\ UNCHANGED <<runVars, sockets, busy, handlerVars, pending, sent, peer, shut>>

\* Faulty variant: the destructor does not look at _inserted.
UntrackAlways(c) ==
    /\ Go(c, "erasing", "returned")
    /\ sockets' = sockets \ {fd[c]}
    /\ tracked' = tracked \ {c}
    /\ UNCHANGED <<runVars, busy, fd, replies, kernelVars>>

Untrack(c) ==
    /\ Go(c, "erasing", "returned")
    /\ sockets' = IF c \in tracked THEN sockets \ {fd[c]} ELSE sockets
    /\ tracked' = tracked \ {c}
    /\ UNCHANGED <<runVars, busy, fd, replies, kernelVars>>

-----------------------------------------------------------------------------
(* The client.                                                             *)

\* postfix does not send a request before it has the previous reply.
Send(c) ==
    /\ peer[c] = "open" /\ sent[c] < MaxSent /\ sent[c] = replies[c]
    /\ sent' = [sent EXCEPT ![c] = @ + 1]
    /\ \E r \in Request : pending' = [pending EXCEPT ![c] = Append(@, r)]
    /\ UNCHANGED <<runVars, sockets, busy, h, handlerVars, owner, peer, shut>>

Hangup(c) ==
    /\ peer[c] = "open"
    /\ peer' = [peer EXCEPT ![c] = "gone"]
    /\ UNCHANGED <<runVars, sockets, busy, h, handlerVars, owner, pending, sent, shut>>

Stopped ==
    /\ \/ killed
       \/ /\ main = "returned"
          /\ \A c \in Conn : h[c] \notin InTask \cup {"begun"} /\ peer[c] # "open"
    /\ UNCHANGED vars

Run ==
    \/ \E c \in Conn : Schedule(c) \/ ScheduleBusy(c)
    \/ StopScheduler \/ ShutSockets \/ AwaitHandlers \/ AwaitPool
Handle(c) ==
    \/ Begin(c) \/ EnterHandle(c) \/ Track(c) \/ CountBusy(c)
    \/ ReadRequest(c) \/ RejectRequest(c) \/ ReadEof(c) \/ Reply(c) \/ WriteFails(c)
    \/ UncountBusy(c) \/ CloseSocket(c) \/ Untrack(c)

\* A step of a process that is alive.
Alive(A) == ~killed /\ A /\ UNCHANGED killed

Next ==
    \/ Alive(Run) \/ Alive(StopAccepting)
    \/ \E c \in Conn : Alive(Accept(c)) \/ Alive(Handle(c)) \/ Alive(Send(c)) \/ Alive(Hangup(c))
    \/ \E c \in Conn : SigPipe(c)
    \/ Stopped

Spec == Init /\ [][Next]_vars

\* Threads keep running.  Nothing is assumed of the clients ...
ThreadFairness == WF_vars(Alive(Run)) /\ \A c \in Conn : WF_vars(Alive(Handle(c)))
FairSpec == Spec /\ ThreadFairness
\* ... unless a property says that each closes its connection some day.
ClientFairness == \A c \in Conn : WF_vars(Alive(Hangup(c)))

-----------------------------------------------------------------------------
TypeOK ==
    /\ main \in RunPc /\ closed \in BOOLEAN /\ busy \in Nat
    /\ backlog \in Seq(Conn)
    /\ sockets \subseteq Fd /\ tracked \subseteq Conn /\ shut \subseteq Conn
    /\ h \in [Conn -> HandlerPc]
    /\ fd \in [Conn -> Fd \cup {None}]
    /\ replies \in [Conn -> Nat] /\ sent \in [Conn -> 0..MaxSent]
    /\ owner \in [Fd -> Conn \cup {None}]
    /\ pending \in [Conn -> Seq(Request)]
    /\ peer \in [Conn -> {"none", "open", "gone"}]

(* Everything a handler does with its descriptor number reaches its own    *)
(* client: the number stays open from accept() (server.h:100) to the only  *)
(* close(), in ~SocketReader (server.h:279) or after a refusal             *)
(* (server.h:108), although numbers are reused at once.                    *)
OwnDescriptor ==
    \A c \in Conn : h[c] \in Open => fd[c] \in Fd /\ owner[fd[c]] = c

(* No descriptor is forgotten: whatever is open belongs to a connection    *)
(* whose handling has not closed it yet, or that the shutdown left in the  *)
(* scheduler's queue (server.h:107-113, 277-283).                          *)
NoStrayDescriptor ==
    \A f \in Fd : owner[f] # None => h[owner[f]] \in Open /\ fd[owner[f]] = f

(* _sockets holds exactly the numbers of the handlers that inserted them,  *)
(* one handler per number: a handler whose insert() failed never removes   *)
(* another one's entry (server.h:238-253).                                 *)
TrackedExact ==
    /\ \A c \in tracked : h[c] \in Serving /\ fd[c] \in sockets
    /\ \A f \in sockets : \E c \in tracked : fd[c] = f
    /\ \A c, d \in tracked : fd[c] = fd[d] => c = d

\* _busyHandlers is what Server::run waits for (server.h:124).
BusyExact == busy = Cardinality(Busy)

\* Connections are queued once, and only while Server::run accepts.
QueueExact ==
    /\ \A i \in 1..Len(backlog) : h[backlog[i]] = "queued"
    /\ \A i, j \in 1..Len(backlog) : i # j => backlog[i] # backlog[j]
    /\ closed <=> main \in {"shutting", "busyWait", "poolWait", "returned"}
    /\ \A c \in Conn : h[c] = "scheduling" => main = "scheduling"
    /\ \A c, d \in Conn : h[c] = "scheduling" /\ h[d] = "scheduling" => c = d

(* The inductive invariant: descriptor table, socket map, busy counter and *)
(* queue all agree with where the handlers are.                            *)
ServerInv ==
    /\ TypeOK /\ BusyExact /\ OwnDescriptor /\ NoStrayDescriptor /\ TrackedExact
    /\ QueueExact
    /\ killed \in BOOLEAN

(* The server submits, begins and finishes its tasks as TaskPool allows,   *)
(* so that the pool proved of SimpleScheduler can stand in here: every     *)
(* connection is handled at most once, in order, and none is begun after   *)
(* _scheduler.shutdown() (server.h:119).                                   *)
Pool == INSTANCE TaskPool
            WITH Task <- Conn,
                 running <- {c \in Conn : h[c] \in InTask \cup {"begun"}},
                 finished <- {c \in Conn : h[c] = "returned"}
UsesPool == Pool!PoolSpec

(* "Error: socket still in use" (server.h:242): a handler that cannot      *)
(* insert its descriptor shares it with a connection that is still open.   *)
StillInUse ==
    [][\A c \in Conn : Track(c) /\ fd[c] \in sockets =>
            \E d \in Conn \ {c} : h[d] \in Open /\ fd[d] = fd[c]]_vars

(* Server::run shuts down every tracked connection (server.h:120-123), so  *)
(* a tracked handler ends without any help from its client.  Excepted: a   *)
(* handler that is about to write() to the connection just shut down may   *)
(* raise SIGPIPE (server.h:168), which ends the whole process.             *)
TrackedHandlersEnd ==
    \A c \in Conn : main = "shutting" /\ c \in tracked ~> h[c] = "returned" \/ killed

(* Server::run returns once accept() failed, provided the clients close    *)
(* their connections: those it did not shut down because they were queued, *)
(* were begun later or were not tracked may keep it waiting until then.    *)
(* Excepted again: the process that SIGPIPE ends.                          *)
RunReturns == ClientFairness => (main = "stopping" ~> main = "returned" \/ killed)
=============================================================================
