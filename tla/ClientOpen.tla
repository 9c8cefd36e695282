----------------------------- MODULE ClientOpen -----------------------------
(***************************************************************************)
(* A client socket of the Sockets library, from the host name or address   *)
(* it is opened with to the connection: the three forms of TcpSocket::Open *)
(* (TcpSocket.cpp), CreateSocket and the two remote addresses (Socket.cpp),*)
(* Ipv4Address (Ipv4Address.cpp), and the handler that opens it again for  *)
(* a retry or a reconnect.  A port keeps its two bytes.                    *)
(***************************************************************************)
EXTENDS Naturals

CONSTANTS
    Host,     \* host names; DNS says which address each has, if any
    Ip,       \* addresses
    Port,     \* ports, in host byte order
    Retry,    \* GetConnectionRetry: attempts after the first
    MaxOpens  \* bound on calls of socket(2)

VARIABLES
    dns,        \* Host -> Ip or NoIp
    asked,      \* what the application asked for: [ip, port], or NoAddress
    client,     \* m_client_remote_address
    remote,     \* m_remote_address
    m_socket,   \* the attached descriptor, or Invalid
    open,       \* descriptors open
    target,     \* the address given to the last connect(2)
    connecting, \* the Connecting flag
    refused,    \* the pending connect failed and is no longer watched
    connected,  \* the Connected flag
    retries,    \* GetConnectionRetries
    reconnect,  \* Reconnect()
    closing,    \* CloseAndDelete()
    opens

vars == <<dns, asked, client, remote, m_socket, open, target, connecting,
          refused, connected, retries, reconnect, closing, opens>>
settings == <<dns, asked, reconnect>>

NoIp == 0
Invalid == 0
NoAddress == [ip |-> NoIp, port |-> <<0, 0>>, valid |-> FALSE]

\* Byte order: the low byte of a host port is first in memory, a network
\* port has the high byte first.
htons(port) == <<port \div 256, port % 256>>
ntohs(bytes) == 256 * bytes[1] + bytes[2]

Ipv4Address(ip, port) == [ip |-> ip, port |-> htons(port), valid |-> TRUE]
Ipv4AddressHost(host, port) ==
    [ip |-> dns[host], port |-> htons(port), valid |-> dns[host] # NoIp]
GetPort(ad) == ntohs(ad.port)

\* A copy made from the fields converts the port a second time.
GetCopySwapped(ad) ==
    Ipv4Address(ad.ip, 256 * ad.port[2] + ad.port[1])

\* GetCopy goes through the sockaddr_in: the copy is valid by its family.
GetCopy(ad) == [ad EXCEPT !.valid = TRUE]

SetClientRemoteAddress(ad) == client' = GetCopy(ad)
GetClientRemoteAddress == GetCopy(client)
SetRemoteAddress(ad) == remote' = GetCopy(ad)
GetRemoteIP4 == remote.ip
GetRemotePort == GetPort(remote)

Init ==
    /\ dns \in [Host -> Ip \cup {NoIp}]
    /\ asked = NoAddress /\ client = NoAddress /\ remote = NoAddress
    /\ m_socket = Invalid /\ open = {} /\ target = NoAddress
    /\ connecting = FALSE /\ refused = FALSE /\ connected = FALSE
    /\ retries = 0 /\ reconnect \in BOOLEAN /\ closing = FALSE /\ opens = 0

----------------------------------------------------------------------------
\* connect(2): under way, done, or refused at once.  A refused one stays
\* attached when the socket reconnects, and is closed otherwise.
Connect(ad, fd, fds) ==
    /\ SetClientRemoteAddress(ad)
    /\ SetRemoteAddress(ad)
    /\ target' = ad
    /\ \/ /\ m_socket' = fd /\ open' = fds \cup {fd}
          /\ \E b \in BOOLEAN : connecting' = b /\ connected' = ~b
          /\ closing' = FALSE
       \/ /\ m_socket' = IF reconnect THEN fd ELSE Invalid
          /\ open' = IF reconnect THEN fds \cup {fd} ELSE fds
          /\ connecting' = reconnect /\ connected' = FALSE
          /\ closing' = ~reconnect

\* CreateSocket or SetNonblocking failed: nothing is attached.
Fails(fds) ==
    /\ m_socket' = Invalid /\ open' = fds
    /\ connecting' = FALSE /\ connected' = FALSE /\ closing' = TRUE
    /\ UNCHANGED <<client, remote, target>>

\* Open(ad, bind_ad), with the descriptors fds open.
Open(ad, fds) ==
    IF ad.valid
    THEN /\ opens < MaxOpens
         /\ opens' = opens + 1
         /\ Connect(ad, opens + 1, fds) \/ Fails(fds)
    ELSE /\ closing' = TRUE
         /\ UNCHANGED <<client, remote, m_socket, open, target, connecting,
                        connected, opens>>

\* Open(host, port), the resolver disabled: u2ip, or close.
OpenHost(host, port) ==
    /\ opens = 0 /\ ~closing
    /\ asked' = Ipv4AddressHost(host, port)
    /\ IF dns[host] # NoIp THEN Open(Ipv4Address(dns[host], port), open)
       ELSE /\ closing' = TRUE
            /\ UNCHANGED <<client, remote, m_socket, open, target, connecting,
                           connected, opens>>
    /\ UNCHANGED <<dns, reconnect, refused, retries>>

\* Open(ad) with an address the application built.
OpenAddress(host, port) ==
    /\ opens = 0 /\ ~closing
    /\ asked' = Ipv4AddressHost(host, port)
    /\ Open(Ipv4AddressHost(host, port), open)
    /\ UNCHANGED <<dns, reconnect, refused, retries>>

\* The name gets another address.
Rename(host) ==
    /\ opens > 0
    /\ \E ip \in Ip : dns' = [dns EXCEPT ![host] = ip]
    /\ UNCHANGED <<asked, client, remote, m_socket, open, target, connecting,
                   refused, connected, retries, reconnect, closing, opens>>

----------------------------------------------------------------------------
(* The handler's side.                                                     *)

MayRetry == retries < Retry

\* TcpSocket::OnWrite while connecting.
OnWrite ==
    /\ connecting /\ ~refused /\ ~closing
    /\ \/ /\ connecting' = FALSE /\ connected' = TRUE
          /\ UNCHANGED <<refused, closing>>
       \/ /\ refused' = TRUE
          /\ connecting' = MayRetry
          /\ closing' = ~MayRetry
          /\ UNCHANGED connected
    /\ UNCHANGED <<settings, client, remote, m_socket, open, target, retries, opens>>

AgainUnclosed == Open(GetClientRemoteAddress, open)

\* Close, then Open with the address the socket keeps.
Again == Open(GetClientRemoteAddress, open \ {m_socket})

\* OnConnectTimeout, and the retry of the same Select; the application's
\* OnConnectRetry may decline.
OnConnectTimeout ==
    /\ connecting /\ ~closing
    /\ refused' = FALSE
    /\ \/ MayRetry /\ retries' = retries + 1 /\ Again
       \/ /\ closing' = TRUE /\ connecting' = FALSE
          /\ retries' = IF MayRetry THEN retries + 1 ELSE retries
          /\ UNCHANGED <<client, remote, m_socket, open, target, connected, opens>>
    /\ UNCHANGED settings

\* The peer closed an established connection of a socket that reconnects.
Reconnect ==
    /\ connected /\ reconnect /\ ~closing
    /\ retries' = 0
    /\ Again
    /\ UNCHANGED <<settings, refused>>

\* Any other closing socket is closed and deleted.
Delete ==
    /\ closing \/ (connected /\ ~reconnect)
    /\ m_socket # Invalid
    /\ m_socket' = Invalid /\ open' = open \ {m_socket}
    /\ closing' = TRUE /\ connected' = FALSE
    /\ UNCHANGED <<settings, client, remote, target, connecting, refused, retries, opens>>

Next ==
    \/ \E h \in Host, p \in Port : OpenHost(h, p) \/ OpenAddress(h, p)
    \/ \E h \in Host : Rename(h)
    \/ OnWrite \/ OnConnectTimeout \/ Reconnect \/ Delete

Spec == Init /\ [][Next]_vars

----------------------------------------------------------------------------
(***************************************************************************)
(* Every connect goes to the address and port the application asked for,   *)
(* also when DNS answers otherwise by the time of a retry or a reconnect,  *)
(* and GetRemoteIP4 and GetRemotePort give them back                       *)
(* (TcpSocket::Open, Ipv4Address::GetCopy).                                *)
(***************************************************************************)
ConnectsAsAsked ==
    target # NoAddress =>
        /\ target.ip = asked.ip /\ GetPort(target) = GetPort(asked)
        /\ GetRemoteIP4 = asked.ip /\ GetRemotePort = GetPort(asked)
        /\ GetPort(asked) \in Port

(***************************************************************************)
(* At any time the only open descriptor is the attached one: Open closes   *)
(* the one it does not attach, and a retry or a reconnect closes the old   *)
(* one first (SocketHandler::Select, TcpSocket::Open).                     *)
(***************************************************************************)
OneDescriptor == open = {m_socket} \ {Invalid}
=============================================================================
