------------------------------ MODULE UdpSocket ------------------------------
(***************************************************************************)
(* src/src/Sockets-2.3.5/UdpSocket.cpp: one UdpSocket, the kernel socket   *)
(* under it, and the datagrams that arrive while it is read.               *)
(*                                                                         *)
(* k is the kernel's view of the descriptor, u the members of the object.  *)
(* A port is a port_t: it wraps after MaxPort, and 0 lets the kernel pick  *)
(* Ephemeral.  A datagram is the number of its arrival and its length.     *)
(***************************************************************************)
EXTENDS Integers, Sequences, FiniteSets

CONSTANTS
    MaxPort, Taken,     \* port numbers are 0 .. MaxPort; ports others have bound
    PortRange,              \* values of the parameter range of Bind
    m_ibufsz, m_retries,
    Lengths,            \* lengths of arriving datagrams
    MaxDatagrams, MaxCalls

VARIABLES
    k,          \* the descriptor: open, local port (0 = unbound), peer, options, groups
    u,          \* m_bind_ok, m_port, m_connected, m_b_read_ts, m_bCloseAndDelete
    queue,      \* the receive queue of the descriptor
    pc, q,      \* inside OnRead: the local q, or "idle"
    got,        \* datagrams handed to OnRawData, with the length it was told
    arrived,    \* history: the datagrams that arrived
    dropped,    \* history: the queued datagrams that went with their descriptor
    asked,      \* history: port and range of the Bind of the open descriptor
    calls

vars == <<k, u, queue, pc, q, got, arrived, dropped, asked, calls>>

Port == 0 .. MaxPort
Ephemeral == MaxPort + 1
Option == {"SO_BROADCAST", "IP_MULTICAST_TTL", "IP_MULTICAST_LOOP", "IP_MULTICAST_IF"}
NoDescriptor == [open |-> FALSE, port |-> 0, peer |-> FALSE,
                 opt |-> [o \in Option |-> FALSE], member |-> FALSE]

Init ==
    /\ k = NoDescriptor
    /\ \E ts \in BOOLEAN :
         u = [m_bind_ok |-> FALSE, m_port |-> 0, m_connected |-> FALSE,
              m_b_read_ts |-> ts, m_bCloseAndDelete |-> FALSE]
    /\ queue = <<>> /\ pc = "idle" /\ q = 0 /\ got = <<>>
    /\ arrived = <<>> /\ dropped = {} /\ asked = <<>> /\ calls = 0

\* A method called by the application, between events or from OnRawData.
Call == ~u.m_bCloseAndDelete /\ calls < MaxCalls /\ calls' = calls + 1

-----------------------------------------------------------------------------
(* Descriptors, Bind, Open and the senders.                                *)

\* Socket::CreateSocket: the open descriptor, or none when socket() fails.
CreateSocket == IF k.open THEN {k} ELSE {[NoDescriptor EXCEPT !.open = TRUE], NoDescriptor}

\* bind() of one port: an already bound descriptor or a taken port is refused.
Binds(d, p) == d.port = 0 /\ p \notin Taken

\* The ports Bind tries, in order, and how many it tries before one is bound.
Tried(p, i) == (p + i) % (MaxPort + 1)
Success(d, p, range) == {i \in 0 .. range : Binds(d, Tried(p, i)) /\ \A j \in 0 .. i - 1 : ~Binds(d, Tried(p, j))}

Fail == u' = [u EXCEPT !.m_bCloseAndDelete = TRUE] /\ UNCHANGED asked

\* Mutant: the port asked for is remembered, not the one that was bound.
BindAsked(p, range) ==
    /\ Call
    /\ \E d \in CreateSocket :
         \/ ~d.open /\ k' = d /\ Fail
         \/ \E i \in IF d.open THEN Success(d, p, range) ELSE {} :
              /\ k' = [d EXCEPT !.port = IF Tried(p, i) = 0 THEN Ephemeral ELSE Tried(p, i)]
              /\ u' = [u EXCEPT !.m_bind_ok = TRUE, !.m_port = p]
              /\ asked' = <<p, range>>
         \/ d.open /\ Success(d, p, range) = {} /\ k' = d /\ Fail
    /\ UNCHANGED <<queue, pc, q, got, arrived, dropped>>

\* A socket() that fails and a range without a free port both end in
\* SetCloseAndDelete and an exception.
Bind(p, range) ==
    /\ Call
    /\ \E d \in CreateSocket :
         \/ ~d.open /\ k' = d /\ Fail
         \/ \E i \in IF d.open THEN Success(d, p, range) ELSE {} :
              /\ k' = [d EXCEPT !.port = IF Tried(p, i) = 0 THEN Ephemeral ELSE Tried(p, i)]
              /\ u' = [u EXCEPT !.m_bind_ok = TRUE, !.m_port = Tried(p, i)]
              /\ asked' = <<p, range>>
         \/ d.open /\ Success(d, p, range) = {} /\ k' = d /\ Fail
    /\ UNCHANGED <<queue, pc, q, got, arrived, dropped>>

\* Bind(intf, port, range) with an interface Ipv4Address cannot resolve.
BindInvalid ==
    /\ Call /\ Fail
    /\ UNCHANGED <<k, queue, pc, q, got, arrived, dropped>>

\* connect() gives an unbound descriptor a local port, and may fail.
Open ==
    /\ Call
    /\ \E d \in CreateSocket :
         \/ /\ d.open
            /\ k' = [d EXCEPT !.peer = TRUE, !.port = IF @ = 0 THEN Ephemeral ELSE @]
            /\ u' = [u EXCEPT !.m_connected = TRUE]
         \/ k' = d /\ u' = [u EXCEPT !.m_bCloseAndDelete = TRUE]
    /\ UNCHANGED <<queue, pc, q, got, arrived, dropped, asked>>

\* sendto() binds an unbound descriptor; its own failure is only logged.
SendToBuf ==
    /\ Call
    /\ \E d \in CreateSocket :
         \/ d.open /\ UNCHANGED u
            /\ k' \in {d, [d EXCEPT !.port = IF @ = 0 THEN Ephemeral ELSE @]}
         \/ ~d.open /\ k' = d /\ u' = [u EXCEPT !.m_bCloseAndDelete = TRUE]
    /\ UNCHANGED <<queue, pc, q, got, arrived, dropped, asked>>

\* The setters and getters of options create a descriptor when there is none,
\* and only log an error of setsockopt() or getsockopt().
SetOption(o, x) ==
    /\ Call
    /\ \E d \in CreateSocket :
         \/ d.open /\ k' \in {d, [d EXCEPT !.opt[o] = x]} /\ UNCHANGED u
         \/ ~d.open /\ k' = d /\ u' = [u EXCEPT !.m_bCloseAndDelete = TRUE]
    /\ UNCHANGED <<queue, pc, q, got, arrived, dropped, asked>>

SetBroadcast(b) == SetOption("SO_BROADCAST", b)
SetMulticastTTL(ttl) == SetOption("IP_MULTICAST_TTL", ttl)
SetMulticastLoop(x) == SetOption("IP_MULTICAST_LOOP", x)
SetMulticastDefaultInterface(a) == SetOption("IP_MULTICAST_IF", a)

MulticastMembership(in) ==
    /\ Call
    /\ \E d \in CreateSocket :
         \/ d.open /\ k' \in {d, [d EXCEPT !.member = in]} /\ UNCHANGED u
         \/ ~d.open /\ k' = d /\ u' = [u EXCEPT !.m_bCloseAndDelete = TRUE]
    /\ UNCHANGED <<queue, pc, q, got, arrived, dropped, asked>>

\* Socket::Close: the descriptor and what the kernel had queued for it go;
\* the members keep their values.
Close ==
    /\ Call /\ k.open
    /\ k' = NoDescriptor /\ queue' = <<>> /\ asked' = <<>>
    /\ dropped' = dropped \cup {queue[i].id : i \in DOMAIN queue}
    /\ UNCHANGED <<u, pc, q, got, arrived>>

-----------------------------------------------------------------------------
(* Datagrams.                                                              *)

\* A bound descriptor is sent a datagram, also while OnRead runs.
Arrive(n) ==
    /\ k.open /\ k.port # 0 /\ Len(arrived) < MaxDatagrams
    /\ arrived' = Append(arrived, [id |-> Len(arrived) + 1, len |-> n])
    /\ queue' = Append(queue, [id |-> Len(arrived) + 1, len |-> n])
    /\ UNCHANGED <<k, u, pc, q, got, dropped, asked, calls>>

\* recvfrom() cuts a datagram to the buffer.
Cut(d) == [d EXCEPT !.len = IF @ > m_ibufsz THEN m_ibufsz ELSE @]

\* OnRead is called when the descriptor is readable.
ReadEvent ==
    /\ pc = "idle" /\ k.open /\ queue # <<>> /\ ~u.m_bCloseAndDelete
    /\ pc' = "recv" /\ q' = IF u.m_b_read_ts THEN 0 ELSE m_retries
    /\ UNCHANGED <<k, u, queue, got, arrived, dropped, asked, calls>>

\* Mutant: the budget is looked at after the next datagram was taken.
OnReadLate ==
    /\ pc = "recv"
    /\ IF queue = <<>> \/ Head(queue).len = 0
       THEN pc' = "idle" /\ queue' = (IF queue = <<>> THEN queue ELSE Tail(queue)) /\ UNCHANGED <<q, got>>
       ELSE /\ queue' = Tail(queue)
            /\ IF q < 0 THEN pc' = "idle" /\ UNCHANGED <<q, got>>
               ELSE got' = Append(got, Cut(Head(queue))) /\ q' = q - 1 /\ UNCHANGED pc
    /\ UNCHANGED <<k, u, arrived, dropped, asked, calls>>

\* One turn of the loop: recvfrom() or ReadTS(), OnRawData, and the budget q.
\* An empty datagram ends the loop like an empty queue, without a call.
OnRead ==
    /\ pc = "recv"
    /\ IF queue = <<>> \/ Head(queue).len = 0
       THEN pc' = "idle" /\ queue' = (IF queue = <<>> THEN queue ELSE Tail(queue)) /\ UNCHANGED <<q, got>>
       ELSE /\ queue' = Tail(queue) /\ got' = Append(got, Cut(Head(queue)))
            /\ IF q = 0 THEN pc' = "idle" /\ UNCHANGED q ELSE q' = q - 1 /\ UNCHANGED pc
    /\ UNCHANGED <<k, u, arrived, dropped, asked, calls>>

Next ==
    \/ \E p \in Port, range \in PortRange : Bind(p, range)
    \/ BindInvalid \/ Open \/ SendToBuf \/ Close
    \/ \E x \in BOOLEAN : \/ SetBroadcast(x) \/ SetMulticastTTL(x) \/ SetMulticastLoop(x)
                          \/ SetMulticastDefaultInterface(x) \/ MulticastMembership(x)
    \/ \E n \in Lengths : Arrive(n)
    \/ ReadEvent \/ OnRead
    \/ u.m_bCloseAndDelete /\ UNCHANGED vars      \* left to SocketHandler
    \/ calls = MaxCalls /\ pc = "idle" /\ queue = <<>> /\ UNCHANGED vars

Spec == Init /\ [][Next]_vars

-----------------------------------------------------------------------------
\* As long as the descriptor of the last successful Bind is open, GetPort is
\* the port the kernel listens on (or 0 when the kernel chose), and it is one
\* of the range asked for.
BoundPort ==
    asked # <<>> =>
      /\ u.m_bind_ok /\ k.open
      /\ u.m_port \in {Tried(asked[1], i) : i \in 0 .. asked[2]}
      /\ k.port = IF u.m_port = 0 THEN Ephemeral ELSE u.m_port

\* Every datagram with a payload that arrived is handed to OnRawData once, in
\* the order of arrival and cut to the buffer, unless it is still queued or
\* went with a closed descriptor.
DatagramsInOrder ==
    LET payload == SelectSeq(arrived, LAMBDA d : d.len > 0 /\ d.id \notin dropped)
        taken == SelectSeq(payload, LAMBDA d : \A i \in DOMAIN queue : queue[i].id # d.id)
    IN  got = [j \in DOMAIN taken |-> Cut(taken[j])]
=============================================================================
