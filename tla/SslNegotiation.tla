--------------------------- MODULE SslNegotiation ---------------------------
(***************************************************************************)
(* src/src/Sockets-2.3.5: the SSL half of TcpSocket.cpp with the places    *)
(* where SocketHandler::Select and ListenSocket::OnRead call it.  One      *)
(* TcpSocket with EnableSSL, as a client (with or without SetReconnect) or *)
(* as an accepted connection.                                              *)
(*                                                                         *)
(* t is the whole state: the members of the socket, the handshake OpenSSL  *)
(* keeps for m_ssl, and the callbacks of the current connection.  Methods  *)
(* map a state to the set of states they may leave behind.                 *)
(***************************************************************************)
EXTENDS Integers, FiniteSets

CONSTANTS MaxConnections, MaxOut

VARIABLES t

vars == <<t>>

Role == {"client", "reconnecting", "server", "plainserver"}

Init ==
    \E role \in Role :
      t = [role |-> role, phase |-> IF role \in {"client", "reconnecting"} THEN "connecting" ELSE "accepted",
           m_ssl_ctx |-> FALSE, m_ssl |-> FALSE, negotiate |-> FALSE, server |-> FALSE,
           connected |-> FALSE, closing |-> FALSE, is_reconnect |-> FALSE,
           turn |-> "read", hs |-> "none", out |-> 0, conn |-> 1,
           ok |-> 0, failed |-> 0, early |-> FALSE, crashed |-> FALSE]

SetCloseAndDelete(s) == [s EXCEPT !.closing = TRUE]
OnDisconnect(s) == SetCloseAndDelete(s)      \* a lost connection

-----------------------------------------------------------------------------
(* Contexts, reading and writing.                                          *)

\* InitSSLClient, and the InitSSLServer an application must supply; the
\* default one ("plainserver") leaves no context.  A context is shared: it is
\* made once and found in the static table afterwards.
InitializeContext(s) == [s EXCEPT !.m_ssl_ctx = TRUE]
InitSSLServer(s) == IF s.role = "plainserver" THEN SetCloseAndDelete(s) ELSE InitializeContext(s)

\* SSL_write runs what is left of the handshake first.
Handshakes(s) == IF s.hs = "going" THEN {[s EXCEPT !.hs = h] : h \in {"going", "done", "bad"}} ELSE {s}

\* The outcomes of TryWrite with pending output: all, nothing (WANT_*), error.
TryWrite(s) ==
    IF ~s.m_ssl THEN {[s EXCEPT !.crashed = TRUE]}
    ELSE UNION {IF r.hs = "done" THEN {[r EXCEPT !.out = 0], r, OnDisconnect(r)}
                ELSE IF r.hs = "bad" THEN {OnDisconnect(r)} ELSE {r} : r \in Handshakes(s)}

OnWrite(s) == IF s.out = 0 THEN {s} ELSE TryWrite(s)

\* OnRead: SSL_read after the handshake; a socket that is closing is not read.
OnRead(s) ==
    IF s.closing \/ s.phase = "connecting" THEN {s}
    ELSE IF ~s.m_ssl THEN {[s EXCEPT !.crashed = TRUE]}
    ELSE {s, OnDisconnect(s)}

-----------------------------------------------------------------------------
(* Negotiation.                                                            *)

\* SSL_connect or SSL_accept: returns > 0, WANT_READ/WANT_WRITE, or failure.
Result(s) == IF s.hs = "done" THEN {"done"} ELSE IF s.hs = "bad" THEN {"bad"} ELSE {"done", "going", "bad"}

Established(s) ==
    {[r EXCEPT !.ok = @ + 1, !.early = @ \/ r.hs # "done"] :
       r \in OnWrite([s EXCEPT !.negotiate = FALSE, !.connected = TRUE])}

Failed(s) == [SetCloseAndDelete(s) EXCEPT !.negotiate = FALSE, !.failed = @ + 1]

\* Mutant: the flag is not reset once the connection is established.
SSLNegotiateAgain(s) ==
    IF ~s.m_ssl THEN {[s EXCEPT !.crashed = TRUE]}
    ELSE UNION {LET r == [s EXCEPT !.hs = h] IN
                CASE h = "done" -> {[x EXCEPT !.negotiate = TRUE] : x \in Established(r)}
                  [] h = "bad" -> {Failed(r)}
                  [] OTHER -> {r} : h \in Result(s)}

SSLNegotiate(s) ==
    IF ~s.m_ssl THEN {[s EXCEPT !.crashed = TRUE]}
    ELSE UNION {LET r == [s EXCEPT !.hs = h] IN
                CASE h = "done" -> Established(r)
                  [] h = "bad" -> {Failed(r)}
                  [] OTHER -> {r} : h \in Result(s)}

\* The socket's SSL object and BIO, either of which may not be had.
NewSSL(s) == {[s EXCEPT !.m_ssl = TRUE, !.hs = "going"], SetCloseAndDelete(s)}

\* A client negotiates at once.  When that does not establish the connection
\* (it failed, or it needs more) the flag is set.
OnSSLConnect(s) ==
    IF s.m_ssl_ctx THEN {SetCloseAndDelete(s)}
    ELSE UNION {IF ~r.m_ssl THEN {r}
                ELSE {IF x.ok > r.ok THEN x ELSE [x EXCEPT !.negotiate = TRUE] : x \in SSLNegotiate(r)} :
                r \in NewSSL(InitializeContext(s))}

OnSSLAccept(s) ==
    IF s.m_ssl_ctx THEN {SetCloseAndDelete(s)}
    ELSE LET i == [InitSSLServer(s) EXCEPT !.server = TRUE]
         IN  IF i.m_ssl_ctx THEN {IF r.m_ssl THEN [r EXCEPT !.negotiate = TRUE] ELSE r : r \in NewSSL(i)}
             ELSE {i}

-----------------------------------------------------------------------------
(* Steps of the handler and of the application.                            *)

Alive == ~t.crashed /\ t.phase # "gone"

\* One Select: the read event, the write event, LIST_CALLONCONNECT, LIST_CLOSE.
Turn(from) == Alive /\ t.turn = from
Then(to, s) == [s EXCEPT !.turn = to]

\* A readable and a writable descriptor; there may be no event.
Event ==
    \E now \in {"read", "write"} :
      /\ Turn(now)
      /\ \E s \in {t} \cup (CASE t.phase = "open" /\ t.negotiate -> SSLNegotiate(t)
                              [] t.phase = "connecting" /\ t.negotiate /\ now = "write" -> SSLNegotiate(t)
                              [] t.phase = "open" /\ now = "read" -> OnRead(t)
                              [] t.phase = "open" -> OnWrite(t)
                              [] OTHER -> {}) :
           t' = Then(IF now = "read" THEN "write" ELSE "connect", s)

\* ListenSocket::OnRead: the socket is added, and has events from the next Select.
Accept ==
    /\ Turn("read") /\ t.phase = "accepted"
    /\ \E s \in OnSSLAccept([t EXCEPT !.phase = "open", !.connected = TRUE]) : t' = Then("connect", s)

\* The TCP connection is there.  The write event of a socket still flagged as
\* negotiating goes to SSLNegotiate instead, so it never gets here.
CallOnConnect ==
    /\ Turn("connect")
    /\ \E s \in {t} \cup (IF t.phase = "connecting" /\ ~t.negotiate
                           THEN OnSSLConnect([t EXCEPT !.phase = "open", !.connected = TRUE]) ELSE {}) :
         t' = Then("close", s)

\* SendBuf before the connection is there buffers; afterwards it writes.
SendBuf ==
    /\ Alive /\ ~t.closing /\ t.out < MaxOut
    /\ t' \in IF t.connected /\ t.out = 0 THEN TryWrite([t EXCEPT !.out = 1])
              ELSE {[t EXCEPT !.out = @ + 1]}

UserClose == Alive /\ ~t.closing /\ t.phase = "open" /\ t' = SetCloseAndDelete(t)

\* TcpSocket::Close frees m_ssl and keeps m_ssl_ctx.
Close(s) == [s EXCEPT !.m_ssl = FALSE, !.hs = "none"]

\* LIST_CLOSE: a connected socket with SetReconnect is opened again, any other
\* one is closed and deleted.  Output of an SSL socket is not waited for.
ClosePhase ==
    /\ Turn("close")
    /\ t' = Then("read",
         IF ~t.closing THEN t
         ELSE IF t.connected /\ t.role = "reconnecting"
         THEN [Close(t) EXCEPT !.closing = FALSE, !.is_reconnect = TRUE, !.connected = FALSE,
                               !.phase = IF t.conn < MaxConnections THEN "connecting" ELSE "gone",
                               !.conn = @ + 1, !.ok = 0, !.failed = 0]
         ELSE [Close(t) EXCEPT !.phase = "gone"])

Next ==
    \/ Event \/ Accept \/ CallOnConnect \/ ClosePhase \/ SendBuf \/ UserClose
    \/ ~Alive /\ UNCHANGED vars

Spec == Init /\ [][Next]_vars

-----------------------------------------------------------------------------
\* OnConnect, OnReconnect and OnAccept are called after the handshake, once
\* per connection and never besides OnSSLConnectFailed or OnSSLAcceptFailed;
\* on a first connection OpenSSL is never called without an SSL object; and a
\* reconnection gets no further than the refusal of OnSSLConnect, because the
\* context of the first connection is still there.
SslOrder ==
    /\ ~t.early
    /\ t.ok + t.failed <= 1
    /\ t.crashed => t.conn > 1
    /\ t.conn > 1 => t.ok = 0
=============================================================================
