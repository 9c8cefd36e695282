---------------------------- MODULE SocketHandler ----------------------------
(***************************************************************************)
(* src/src/Sockets-2.3.5: SocketHandler::Select and the part of Socket,    *)
(* StreamSocket, TcpSocket and ListenSocket that decides when a socket is  *)
(* registered, watched, retried, closed and deleted.                       *)
(*                                                                         *)
(* Every method is an operator on the state st: it takes a state and       *)
(* returns the state after the call (a set of them where the kernel or the *)
(* clock decides).  Clocks are abstracted: a timeout that is running may   *)
(* be over at any Select.  The build is the one of sockets-config.h, and   *)
(* no callback detaches its socket (Detach does).                          *)
(***************************************************************************)
EXTENDS Integers, Sequences, FiniteSets, FiniteSetsExt, Functions

CONSTANTS
    Tcp, Listen,    \* instances of TcpSocket and of ListenSocket<TcpSocket>
    Fd,             \* descriptor numbers, positive; there are always enough
    FdSetSize,      \* FD_SETSIZE
    ByOwner,        \* instances their creator deletes (no SetDeleteByHandler)
    Reconnecting,   \* TcpSockets with SetReconnect
    Retry           \* GetConnectionRetry() of every TcpSocket

VARIABLES st, pc, todo

SX == INSTANCE SequencesExt
vars == <<st, pc, todo>>

Sock == Tcp \cup Listen
Invalid == 0
List == {"connect", "timeout", "retry", "close"}

Unborn == [fd |-> Invalid, life |-> "none", bDel |-> FALSE, bClose |-> FALSE,
           connected |-> FALSE, connecting |-> FALSE, flush |-> TRUE, out |-> FALSE,
           retries |-> 0, erased |-> FALSE, deleted |-> FALSE]

Init ==
    /\ st = [sk |-> [p \in Sock |-> Unborn],
             m_add |-> <<>>, m_sockets |-> <<>>, m_delete |-> <<>>,
             m_fds |-> <<>>, m_fds_erase |-> <<>>, list |-> [l \in List |-> {}],
             m_rfds |-> {}, m_wfds |-> {}, m_efds |-> {},
             open |-> {},                \* the kernel's descriptor table
             \* history: numbers that were closed and are still named, and
             \* whether one of them has been handed out again
             stale |-> {}, reused |-> FALSE]
    /\ pc = "user" /\ todo = {}

-----------------------------------------------------------------------------
(* SocketHandler's queues and fd_sets.                                     *)

Count(s) == Cardinality(DOMAIN s.m_sockets) + Cardinality(DOMAIN s.m_add) + Len(s.m_delete)
Without(f, k) == Restrict(f, DOMAIN f \ {k})
With(f, k, v) == [x \in DOMAIN f \cup {k} |-> IF x = k THEN v ELSE f[x]]
Put(set, x, in) == IF in THEN set \cup {x} ELSE set \ {x}

AddList(s, f, l, add) ==
    IF f = Invalid THEN s ELSE [s EXCEPT !.list[l] = Put(@, f, add)]

Set(s, f, r, w, x) ==
    IF f = Invalid THEN s
    ELSE [s EXCEPT !.m_rfds = Put(@, f, r), !.m_wfds = Put(@, f, w), !.m_efds = Put(@, f, x)]

Add(s, p) ==
    LET f == s.sk[p].fd IN
    IF f = Invalid
    THEN IF s.sk[p].bClose THEN [s EXCEPT !.m_delete = Append(@, p)] ELSE s
    ELSE IF f \in DOMAIN s.m_add THEN [s EXCEPT !.m_delete = Append(@, p)]
    ELSE [s EXCEPT !.m_add = With(@, f, p)]

\* The socket registered under a descriptor, in m_sockets or (also) in m_add.
Find(s, f) == IF f \in DOMAIN s.m_sockets THEN {s.m_sockets[f]} ELSE {}
FindAlsoAdded(s, f) ==
    IF f \in DOMAIN s.m_sockets THEN {s.m_sockets[f]}
    ELSE IF f \in DOMAIN s.m_add THEN {s.m_add[f]} ELSE {}

-----------------------------------------------------------------------------
(* Methods of the sockets.                                                 *)

Attach(s, p, f) == [s EXCEPT !.sk[p].fd = f, !.open = @ \cup {f}, !.reused = @ \/ f \in s.stale]
FreeFd(s) == Min(Fd \ s.open)

SetCloseAndDelete(s, p, x) ==
    IF x = s.sk[p].bClose THEN s
    ELSE [AddList(s, s.sk[p].fd, "close", x) EXCEPT !.sk[p].bClose = x]

SetConnecting(s, p, x) ==
    IF x = s.sk[p].connecting THEN s
    ELSE [AddList(s, s.sk[p].fd, "timeout", x) EXCEPT !.sk[p].connecting = x]

SetCallOnConnect(s, p) == AddList(s, s.sk[p].fd, "connect", TRUE)
SetRetryClientConnect(s, p, x) == AddList(s, s.sk[p].fd, "retry", x)

\* Mutants: m_socket is kept; the event lists are kept.
SocketCloseKeeping(s, p) ==
    LET f == s.sk[p].fd IN
    IF f = Invalid THEN s
    ELSE [Set(s, f, FALSE, FALSE, FALSE) EXCEPT
            !.open = @ \ {f}, !.list = [l \in List |-> @[l] \ {f}]]
SocketCloseListed(s, p) ==
    LET f == s.sk[p].fd IN
    IF f = Invalid THEN s
    ELSE [Set(s, f, FALSE, FALSE, FALSE) EXCEPT !.open = @ \ {f}, !.sk[p].fd = Invalid]

\* Socket::Close; TcpSocket::Close ends with it.
SocketClose(s, p) ==
    LET f == s.sk[p].fd IN
    IF f = Invalid THEN s
    ELSE [Set(s, f, FALSE, FALSE, FALSE) EXCEPT
            !.open = @ \ {f}, !.list = [l \in List |-> @[l] \ {f}], !.sk[p].fd = Invalid]

\* ListenSocket::Close forgets neither its descriptor nor the fd_sets.
Close(s, p) ==
    IF p \in Listen
    THEN [s EXCEPT !.open = @ \ {s.sk[p].fd}, !.stale = @ \cup ({s.sk[p].fd} \ {Invalid})]
    ELSE SocketClose(s, p)

\* The outcomes of TcpSocket::Open on a valid address.
Open(s, p) ==
    LET t == SetConnecting(s, p, FALSE)
        a == Attach(t, p, FreeFd(t))
    IN  IF Count(s) >= FdSetSize THEN {SetCloseAndDelete(s, p, TRUE)}
        ELSE { SetCallOnConnect(a, p),
               SetConnecting(a, p, TRUE),
               IF p \in Reconnecting THEN SetConnecting(a, p, TRUE)
               ELSE SetCloseAndDelete(t, p, TRUE) }

\* OnDisconnect, SetCloseAndDelete, SetFlushBeforeClose(false), SetLost.
Disconnect(s, p) == [SetCloseAndDelete(s, p, TRUE) EXCEPT !.sk[p].flush = FALSE]

\* The end of SendBuf and of OnWrite: watch for writing while output is left.
Rewatch(s, p) == LET f == s.sk[p].fd IN Set(s, f, f \in s.m_rfds, s.sk[p].out, TRUE)

\* TryWrite of what is buffered: all of it, not all, or an error.
Write(s, p) ==
    { Rewatch([s EXCEPT !.sk[p].out = FALSE], p),
      Rewatch(s, p),
      Rewatch(Disconnect(s, p), p) }

SendBuf(s, p) ==
    LET k == s.sk[p]
        buffered == [s EXCEPT !.sk[p].out = TRUE]
    IN  IF (k.fd = Invalid \/ k.bClose) /\ ~k.connecting THEN {s}
        ELSE IF ~k.connected \/ k.out THEN {buffered}
        ELSE Write(buffered, p)

\* What the application may do in a callback about p.
Callback(s, p) == {s, SetCloseAndDelete(s, p, TRUE)} \cup (IF p \in Tcp THEN SendBuf(s, p) ELSE {})

OnDelete(s, p) == [s EXCEPT !.sk[p].deleted = TRUE]

\* Mutant: a socket still waiting in m_add is not looked for.
RemoveRegistered(s, p) ==
    LET at == {f \in DOMAIN s.m_sockets : s.m_sockets[f] = p}
    IN  IF s.sk[p].erased \/ at = {} THEN s ELSE [s EXCEPT !.m_sockets = Without(@, Min(at))]

\* ~Socket: SocketHandler::Remove, then Socket::Close if the descriptor is known.
Remove(s, p) ==
    LET in(f) == \E k \in DOMAIN f : f[k] = p
        out(f) == Without(f, CHOOSE k \in DOMAIN f : f[k] = p)
    IN  IF s.sk[p].erased THEN s
        ELSE IF in(s.m_sockets) THEN [s EXCEPT !.m_sockets = out(@)]
        ELSE IF in(s.m_add) THEN [s EXCEPT !.m_add = out(@)]
        ELSE [s EXCEPT !.m_delete = SelectSeq(@, LAMBDA q : q # p)]

\* The members are gone with the instance; how it was closed is history.
Delete(s, p) ==
    [SocketClose(Remove(s, p), p) EXCEPT
        !.sk[p] = [Unborn EXCEPT !.life = "deleted", !.bClose = s.sk[p].bClose,
                                 !.deleted = s.sk[p].deleted],
        !.stale = IF p \in Listen THEN @ \ {s.sk[p].fd} ELSE @]

-----------------------------------------------------------------------------
(* The application between two Selects.                                    *)

Born(p) == [st EXCEPT !.sk[p].life = "live", !.sk[p].bDel = p \notin ByOwner]

Connect(p) ==
    /\ pc = "user" /\ st.sk[p].life = "none"
    /\ \E s \in Open(Born(p), p) : st' = Add(s, p)
    /\ UNCHANGED <<pc, todo>>

Bind(p) ==
    /\ pc = "user" /\ st.sk[p].life = "none"
    /\ \/ st' = Add(Attach(Born(p), p, FreeFd(st)), p)
       \/ st' = Born(p)                  \* bind() or listen() failed
    /\ UNCHANGED <<pc, todo>>

Order(p) ==
    /\ pc = "user" /\ st.sk[p].life = "live"
    /\ st' \in Callback(st, p)
    /\ UNCHANGED <<pc, todo>>

\* The owner of a socket deletes it, whatever the handler knows of it.
Destroy(p) ==
    /\ pc = "user" /\ st.sk[p].life = "live" /\ p \in ByOwner /\ ~st.sk[p].bDel
    /\ st' = Delete(st, p)
    /\ UNCHANGED <<pc, todo>>

Call ==
    /\ pc = "user" /\ pc' = "add"
    /\ UNCHANGED <<st, todo>>

-----------------------------------------------------------------------------
(* SocketHandler::Select.                                                  *)

AddNext ==
    /\ pc = "add" /\ DOMAIN st.m_add # {} /\ Cardinality(DOMAIN st.m_sockets) < FdSetSize
    /\ LET f == Min(DOMAIN st.m_add)
           p == st.m_add[f]
           k == st.sk[p]
           added == [st EXCEPT !.m_add = Without(@, f)]
           watched == IF k.bClose THEN added
                      ELSE IF k.connecting THEN Set(added, f, FALSE, TRUE, TRUE)
                      ELSE Set(added, f, TRUE, k.out, TRUE)
       IN  st' = IF k.fd \in DOMAIN st.m_sockets
                 THEN [added EXCEPT !.m_delete = Append(@, p)]
                 ELSE [watched EXCEPT !.m_fds = Append(@, f), !.m_sockets = With(@, f, p)]
    /\ UNCHANGED <<pc, todo>>

\* What select() may report of the sockets in m_fds: <<index, kind>>.
Rank == [read |-> 1, write |-> 2, except |-> 3]
Watched(kind) == CASE kind = "read" -> st.m_rfds [] kind = "write" -> st.m_wfds [] OTHER -> st.m_efds
Events == {e \in (DOMAIN st.m_fds) \X (DOMAIN Rank) : st.m_fds[e[1]] \in Watched(e[2])}

Poll ==
    /\ pc = "add"
    /\ DOMAIN st.m_add = {} \/ Cardinality(DOMAIN st.m_sockets) >= FdSetSize
    /\ st.m_rfds \cup st.m_wfds \cup st.m_efds \subseteq st.open
    /\ pc' = "dispatch" /\ todo' = Events
    /\ UNCHANGED st

\* select() fails (EINTR, or a descriptor is bad): the fd_sets are rebuilt.
PollFails ==
    /\ pc = "add"
    /\ DOMAIN st.m_add = {} \/ Cardinality(DOMAIN st.m_sockets) >= FdSetSize
    /\ LET good == {f \in DOMAIN st.m_sockets : st.sk[st.m_sockets[f]].fd = f /\ f \in st.open}
       IN  st' = [st EXCEPT !.m_fds_erase = @ \o SX!SetToSeq(DOMAIN st.m_sockets \ good),
                            !.m_rfds = @ \cap good, !.m_wfds = @ \cap good, !.m_efds = @ \cap good]
    /\ pc' = "dispatch" /\ todo' = {}

OnReadTcp(s, p) == Callback(s, p) \cup {Disconnect(s, p)}

\* One turn of ListenSocket::OnRead's loop; q is the instance it creates.
OnAccept(s, q) ==
    IF Count(s) >= FdSetSize THEN {s}
    ELSE LET f == FreeFd(s)
             made == [s EXCEPT !.sk[q].life = "live", !.sk[q].bDel = TRUE, !.sk[q].connected = TRUE]
         IN  Callback(Add(Attach(made, q, f), q), q)

OnWrite(s, p) ==
    LET k == s.sk[p]
        failed == Set(s, k.fd, FALSE, FALSE, TRUE)
    IN  IF ~k.connecting THEN Write(s, p)
        ELSE { SetCallOnConnect(SetConnecting(Set(s, k.fd, TRUE, FALSE, TRUE), p, FALSE), p),
               IF k.retries < Retry THEN failed
               ELSE SetCloseAndDelete(SetConnecting(failed, p, FALSE), p, TRUE) }

\* One event, in the order of m_fds and, for one socket, read, write, exception;
\* the events before it did not happen.
After(e) == {d \in todo : d[1] > e[1] \/ (d[1] = e[1] /\ Rank[d[2]] > Rank[e[2]])}
Event(e) ==
    /\ pc = "dispatch" /\ e \in todo
    /\ todo' = After(e)
    /\ IF Find(st, st.m_fds[e[1]]) = {} THEN st' = st
       ELSE \E p \in Find(st, st.m_fds[e[1]]) :
              st' \in CASE e[2] = "except" -> {SetCloseAndDelete(st, p, TRUE)}
                        [] e[2] = "read" /\ p \in Tcp -> OnReadTcp(st, p)
                        [] e[2] = "write" /\ p \in Tcp -> OnWrite(st, p)
                        [] OTHER -> {st}
    /\ UNCHANGED pc

Accept(e, q) ==
    /\ pc = "dispatch" /\ e \in todo /\ e[2] = "read"
    /\ Find(st, st.m_fds[e[1]]) \cap Listen # {}
    /\ q \in Tcp \ (ByOwner \cup Reconnecting) /\ st.sk[q].life = "none"
    /\ st' \in OnAccept(st, q)
    /\ todo' = {e} \cup After(e) /\ UNCHANGED pc

\* After the events Select works through its lists, each of which it copies
\* when it comes to it, and only if it is not empty.
Phases == <<"dispatch", "connect", "timeout", "retry", "close">>
NextPhase ==
    \E i \in DOMAIN Phases :
        LET later == {k \in DOMAIN Phases : k > i /\ st.list[Phases[k]] # {}} IN
        /\ pc = Phases[i] /\ (pc = "dispatch" \/ todo = {})
        /\ IF later = {} THEN pc' = "erase" /\ todo' = {}
           ELSE pc' = Phases[Min(later)] /\ todo' = st.list[pc']
        /\ UNCHANGED st

Turn(at, f) == pc = at /\ f \in todo /\ todo' = todo \ {f} /\ UNCHANGED pc

CallOnConnect(f) ==
    /\ Turn("connect", f)
    /\ IF Find(st, f) = {} THEN st' = st
       ELSE \E p \in Find(st, f) :
            LET s == [st EXCEPT !.sk[p].connected = TRUE] IN
            \E t \in (IF p \in Tcp /\ s.sk[p].out THEN OnWrite(s, p) ELSE {s}) :
            \E u \in Callback(t, p) : st' = AddList(u, u.sk[p].fd, "connect", FALSE)

OnConnectTimeout(s, p) ==
    LET again == [s EXCEPT !.sk[p].retries = @ + 1]
        give == SetCloseAndDelete(s, p, TRUE)
    IN  {SetConnecting(t, p, FALSE) : t \in
            IF s.sk[p].retries < Retry
            THEN {SetRetryClientConnect(again, p, TRUE), SetCloseAndDelete(again, p, TRUE)}
            ELSE {give}}

CheckTimeout(f) ==
    /\ Turn("timeout", f)
    /\ \/ UNCHANGED st
       \/ \E p \in FindAlsoAdded(st, f) :
          LET s == AddList(st, st.sk[p].fd, "timeout", FALSE) IN
          IF st.sk[p].connecting THEN st' \in OnConnectTimeout(s, p) ELSE st' = s

Erase(s, f) == [s EXCEPT !.m_fds_erase = Append(@, f)]

CheckRetry(f) ==
    /\ Turn("retry", f)
    /\ IF Find(st, f) = {} THEN st' = st
       ELSE \E p \in Find(st, f) :
            \E s \in Open(Close(SetRetryClientConnect(st, p, FALSE), p), p) :
                st' = Erase(Add(s, p), f)

\* Within 5 seconds of the order: output is sent first, and nothing else happens
\* here but the shutdown of the sending side.
Flush(s, p) == s

Reopen(s, p, f) ==
    LET closed == Close([SetCloseAndDelete(s, p, FALSE) EXCEPT !.sk[p].connected = FALSE], p)
    IN  {Erase(Add([t EXCEPT !.sk[p].retries = 0], p), f) : t \in Open(closed, p)}

Dispose(s, p, f) ==
    LET closed == OnDelete(Close(Set(s, s.sk[p].fd, FALSE, FALSE, FALSE), p), p)
    IN  Erase([closed EXCEPT !.sk[p].erased = @ \/ closed.sk[p].bDel,
                             !.stale = IF f \in DOMAIN s.m_sockets THEN @ ELSE @ \cup {f}], f)

CheckClose(f) ==
    /\ Turn("close", f)
    /\ IF FindAlsoAdded(st, f) = {} THEN st' = st
       ELSE \E p \in FindAlsoAdded(st, f) :
            LET tcp == p \in Tcp /\ st.sk[p].connected IN
            \/ tcp /\ st.sk[p].flush /\ st' = Flush(st, p)
            \/ IF tcp /\ p \in Reconnecting THEN st' \in Reopen(st, p, f)
               ELSE st' = Dispose(st, p, f)

EraseNext ==
    /\ pc = "erase" /\ st.m_fds_erase # <<>>
    /\ LET f == Head(st.m_fds_erase)
           t == [st EXCEPT !.m_fds_erase = Tail(@), !.m_fds = SX!RemoveFirst(@, f)]
           s == IF \E p \in Find(st, f) : st.sk[p].erased THEN Delete(t, t.m_sockets[f]) ELSE t
       IN  st' = [s EXCEPT !.m_sockets = Without(@, f),
                           !.stale = IF \E p \in Find(st, f) \cap Tcp : st.sk[p].fd # f THEN @ \ {f} ELSE @]
    /\ UNCHANGED <<pc, todo>>

\* "remove Add's that fizzed"
DeleteNext ==
    /\ pc = "erase" /\ st.m_fds_erase = <<>> /\ st.m_delete # <<>>
    /\ LET p == Head(st.m_delete)
           s == OnDelete([st EXCEPT !.m_delete = Tail(@)], p)
       IN  st' = IF s.sk[p].bDel THEN Delete([s EXCEPT !.sk[p].erased = TRUE], p) ELSE s
    /\ UNCHANGED <<pc, todo>>

Return ==
    /\ pc = "erase" /\ st.m_fds_erase = <<>> /\ st.m_delete = <<>>
    /\ pc' = "user"
    /\ UNCHANGED <<st, todo>>

\* ~SocketHandler: the next of the registered sockets is closed, and deleted when
\* it is the handler's to delete; those still in m_add are left as they are.
EmptyNext ==
    /\ pc \in {"user", "gone"} /\ pc' = "gone" /\ DOMAIN st.m_sockets # {}
    /\ LET f == Min(DOMAIN st.m_sockets)
           p == st.m_sockets[f]
           s == Close(st, p)
           t == IF s.sk[p].bDel THEN Delete([s EXCEPT !.sk[p].erased = TRUE], p) ELSE s
       IN  st' = [t EXCEPT !.m_sockets = Without(@, f)]
    /\ UNCHANGED todo

Select ==
    \/ AddNext \/ Poll \/ PollFails
    \/ \E e \in todo : Event(e) \/ \E q \in Tcp : Accept(e, q)
    \/ NextPhase
    \/ \E f \in todo : CallOnConnect(f) \/ CheckTimeout(f) \/ CheckRetry(f) \/ CheckClose(f)
    \/ EraseNext \/ DeleteNext \/ Return

Next ==
    \/ \E p \in Tcp : Connect(p)
    \/ \E p \in Listen : Bind(p)
    \/ \E p \in Sock : Order(p) \/ Destroy(p)
    \/ Call \/ Select \/ EmptyNext

Spec == Init /\ [][Next]_vars

-----------------------------------------------------------------------------
(* Properties.  Two closes leave the number of a descriptor behind:        *)
(* ListenSocket::Close in m_socket and m_fds_close, and Select, when it    *)
(* closes a socket that is still in m_add, as a key there, under which the *)
(* next Select registers the closed socket.  Such a number is stale until  *)
(* the listener is deleted or a failing select() erases the entry.  Once   *)
(* the kernel hands a stale number out, two sockets answer to it, and the  *)
(* wrong one may be closed or deleted: the invariants say nothing of what  *)
(* comes after that.                                                       *)

NotReused == ~st.reused

\* Until a stale number is handed out: every socket SocketHandler has in
\* m_sockets, m_add or m_delete is alive: no step of Select (which deletes in
\* two places) and no ~Socket leaves a pointer to a deleted instance behind;
\* and OnDelete is called only of a socket ordered to close.
NoDangling ==
    LET live(p) == st.sk[p].life = "live"
    IN  NotReused =>
        /\ \A f \in DOMAIN st.m_sockets : live(st.m_sockets[f])
        /\ \A f \in DOMAIN st.m_add : live(st.m_add[f])
        /\ \A i \in DOMAIN st.m_delete : live(st.m_delete[i])
        /\ \A p \in Sock : st.sk[p].deleted => st.sk[p].bClose

\* Until a stale number is handed out: a descriptor belongs to one socket, and
\* is open while it does unless it is stale, through every retry and
\* reconnect, which close one and open another under the same instance; and
\* the sockets that are registered under a number not theirs are those it is
\* stale of.  When ~SocketHandler is done only a socket that was never
\* registered has an open one.
OwnDescriptor ==
    LET holders(f) == {p \in Sock : st.sk[p].life = "live" /\ st.sk[p].fd = f}
    IN  NotReused =>
        /\ pc = "gone" /\ DOMAIN st.m_sockets = {} => st.open \subseteq DOMAIN st.m_add
        /\ \A f \in Fd : /\ Cardinality(holders(f)) <= 1
                        /\ holders(f) # {} => f \in st.open \/ f \in st.stale
        /\ pc = "user" => \A f \in DOMAIN st.m_sockets : st.sk[st.m_sockets[f]].fd # f => f \in st.stale

\* Until a stale number is handed out: what SocketHandler::CheckSanity prints
\* a complaint about never happens between two Selects but for stale numbers:
\* every other descriptor in one of the event lists is registered; and every
\* descriptor select() is asked about is open.
CheckSanity ==
    pc = "user" /\ NotReused =>
        /\ UNION {st.list[l] : l \in List} \subseteq DOMAIN st.m_sockets \cup DOMAIN st.m_add \cup st.stale
        /\ st.m_rfds \cup st.m_wfds \cup st.m_efds \subseteq st.open
=============================================================================
