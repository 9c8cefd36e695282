---------------------------- MODULE DaemonProofs ----------------------------
(***************************************************************************)
(* Parts of the daemon around its server: the echo server of the tree's    *)
(* tests (EchoServer), the configuration (Configuration) and the results   *)
(* of the thread pools' tasks (Future), each with its inductive invariant. *)
(***************************************************************************)
EXTENDS Integers, Sequences, WellFoundedInduction, TLAPS

(* A set of natural numbers has a least element.                           *)
LEMMA LeastNatural ==
    ASSUME NEW S \in SUBSET Nat, S # {}
    PROVE  \E m \in S : \A k \in S : m <= k
<1> DEFINE R == OpToRel(<, Nat)
<1>1. R = {p \in Nat \X Nat : p[1] < p[2]}
  BY Zenon DEF OpToRel
<1>2. IsWellFoundedOn(R, Nat)
  BY Zenon, NatLessThanWellFounded, Zenon
<1> HIDE DEF R
<1>3. PICK m \in S : \A k \in S : ~(<<k, m>> \in R)
  BY Zenon, <1>2, WFMin
<1>4. \A k \in S : ~(k < m)
  BY Zenon, <1>1, <1>3
<1> QED
  BY <1>4

-----------------------------------------------------------------------------
(* Sequences, element by element.                                          *)

Prefix(s, t) == Len(s) <= Len(t) /\ \A k \in 1..Len(s) : s[k] = t[k]

(* A part of a sequence, element by element.                               *)
LEMMA Cut ==
    ASSUME NEW T, NEW s \in Seq(T), NEW m \in 1..(Len(s) + 1), NEW n \in 0..Len(s), m <= n + 1
    PROVE  /\ SubSeq(s, m, n) \in Seq(T) /\ Len(SubSeq(s, m, n)) = n - m + 1
           /\ \A k \in 1..(n - m + 1) : SubSeq(s, m, n)[k] = s[m + k - 1]
<1>1. Len(s) \in Nat /\ \A k \in 1..Len(s) : s[k] \in T
  OBVIOUS
<1>2. SubSeq(s, m, n) = [k \in 1..(n - m + 1) |-> s[m + k - 1]]
  OBVIOUS
<1>3. \A k \in 1..(n - m + 1) : s[m + k - 1] \in T
  BY <1>1
<1>4. [k \in 1..(n - m + 1) |-> s[m + k - 1]] \in Seq(T)
  BY <1>1, <1>3
<1>5. Len([k \in 1..(n - m + 1) |-> s[m + k - 1]]) = n - m + 1
  BY <1>1
<1> QED
  BY Zenon, <1>2, <1>4, <1>5

(* Two sequences put together, element by element.                         *)
LEMMA Joined ==
    ASSUME NEW T, NEW a \in Seq(T), NEW b \in Seq(T)
    PROVE  /\ a \o b \in Seq(T) /\ Len(a \o b) = Len(a) + Len(b)
           /\ \A k \in 1..(Len(a) + Len(b)) : (a \o b)[k] = IF k <= Len(a) THEN a[k] ELSE b[k - Len(a)]
OBVIOUS

(* Sequences with the same elements are the same.                          *)
LEMMA SameSeq ==
    ASSUME NEW T, NEW a \in Seq(T), NEW b \in Seq(T), Len(a) = Len(b), \A k \in 1..Len(a) : a[k] = b[k]
    PROVE  a = b
OBVIOUS

(* The empty sequence adds nothing.                                        *)
LEMMA EmptyJoined ==
    ASSUME NEW T, NEW a \in Seq(T)
    PROVE  a \o <<>> = a /\ <<>> \o a = a /\ <<>> \in Seq(T)
<1>1. <<>> \in Seq(T) /\ Len(<<>>) = 0
  OBVIOUS
<1>2. a \o <<>> \in Seq(T) /\ Len(a \o <<>>) = Len(a) /\ \A k \in 1..Len(a) : (a \o <<>>)[k] = a[k]
  BY <1>1, Joined
<1>3. <<>> \o a \in Seq(T) /\ Len(<<>> \o a) = Len(a) /\ \A k \in 1..Len(a) : (<<>> \o a)[k] = a[k]
  BY <1>1, Joined
<1> QED
  BY Zenon, <1>1, <1>2, <1>3, SameSeq

(* Three runs of bytes can be put together in either order.                *)
LEMMA BytesJoined ==
    \A a, b, c \in Seq(Nat) : (a \o b) \o c = a \o (b \o c)
<1> SUFFICES ASSUME NEW a \in Seq(Nat), NEW b \in Seq(Nat), NEW c \in Seq(Nat)
             PROVE  (a \o b) \o c = a \o (b \o c)
  BY Zenon
<1>1. /\ a \o b \in Seq(Nat) /\ Len(a \o b) = Len(a) + Len(b)
      /\ \A k \in 1..(Len(a) + Len(b)) : (a \o b)[k] = IF k <= Len(a) THEN a[k] ELSE b[k - Len(a)]
  BY Zenon, Joined
<1>2. /\ b \o c \in Seq(Nat) /\ Len(b \o c) = Len(b) + Len(c)
      /\ \A k \in 1..(Len(b) + Len(c)) : (b \o c)[k] = IF k <= Len(b) THEN b[k] ELSE c[k - Len(b)]
  BY Zenon, Joined
<1> DEFINE ab == a \o b
           bc == b \o c
<1>3. /\ ab \o c \in Seq(Nat) /\ Len(ab \o c) = Len(ab) + Len(c)
      /\ \A k \in 1..(Len(ab) + Len(c)) : (ab \o c)[k] = IF k <= Len(ab) THEN ab[k] ELSE c[k - Len(ab)]
  BY <1>1, Joined
<1>4. /\ a \o bc \in Seq(Nat) /\ Len(a \o bc) = Len(a) + Len(bc)
      /\ \A k \in 1..(Len(a) + Len(bc)) : (a \o bc)[k] = IF k <= Len(a) THEN a[k] ELSE bc[k - Len(a)]
  BY Zenon, <1>2, Joined
<1>5. Len(a) \in Nat /\ Len(b) \in Nat /\ Len(c) \in Nat
  OBVIOUS
<1> HIDE DEF ab, bc
<1>6. Len(ab) = Len(a) + Len(b) /\ \A k \in 1..(Len(a) + Len(b)) : ab[k] = IF k <= Len(a) THEN a[k] ELSE b[k - Len(a)]
  BY Zenon, <1>1 DEF ab
<1>7. Len(bc) = Len(b) + Len(c) /\ \A k \in 1..(Len(b) + Len(c)) : bc[k] = IF k <= Len(b) THEN b[k] ELSE c[k - Len(b)]
  BY Zenon, <1>2 DEF bc
<1>8. Len(ab \o c) = Len(a \o bc)
  BY <1>3, <1>4, <1>5, <1>6, <1>7
<1>9. ASSUME NEW k \in 1..Len(ab \o c) PROVE (ab \o c)[k] = (a \o bc)[k]
  <2>1. k \in 1..(Len(a) + Len(b) + Len(c)) /\ k \in Nat
    BY <1>3, <1>5, <1>6
  <2>2. CASE k <= Len(a)
    <3>0. k \in 1..(Len(a) + Len(b)) /\ k \in 1..(Len(ab) + Len(c)) /\ k <= Len(ab)
      BY <1>5, <1>6, <2>1, <2>2
    <3>1. (ab \o c)[k] = a[k]
      BY Zenon, <1>3, <1>6, <2>2, <3>0
    <3>2. (a \o bc)[k] = a[k]
      BY <1>4, <1>5, <1>7, <2>1, <2>2
    <3> QED BY Zenon, <3>1, <3>2
  <2>3. CASE ~(k <= Len(a)) /\ k <= Len(a) + Len(b)
    <3>1. (ab \o c)[k] = b[k - Len(a)]
      BY SMTT(60), <1>3, <1>5, <1>6, <2>1, <2>3
    <3>2. k \in 1..(Len(a) + Len(bc)) /\ k - Len(a) \in 1..(Len(b) + Len(c)) /\ k - Len(a) <= Len(b)
      BY <1>5, <1>7, <2>1, <2>3
    <3>3. bc[k - Len(a)] = b[k - Len(a)]
      BY Zenon, <1>7, <3>2
    <3> QED
      BY Zenon, <1>4, <2>3, <3>1, <3>2, <3>3
  <2>4. CASE ~(k <= Len(a) + Len(b))
    <3>1. (ab \o c)[k] = c[k - (Len(a) + Len(b))]
      BY Zenon, <1>3, <1>5, <1>6, <2>1, <2>4
    <3>2. /\ k \in 1..(Len(a) + Len(bc)) /\ k - Len(a) \in 1..(Len(b) + Len(c)) /\ ~(k - Len(a) <= Len(b))
          /\ ~(k <= Len(a)) /\ (k - Len(a)) - Len(b) = k - (Len(a) + Len(b))
      BY <1>5, <1>7, <2>1, <2>4
    <3>3. bc[k - Len(a)] = c[(k - Len(a)) - Len(b)]
      BY Zenon, <1>7, <3>2
    <3> QED
      BY Zenon, <1>4, <3>1, <3>2, <3>3
  <2> QED
    BY Zenon, <1>5, <2>1, <2>2, <2>3, <2>4
<1>10. ab \o c = a \o bc
  BY Zenon, <1>3, <1>4, <1>8, <1>9, SameSeq
<1> QED
  BY Zenon, <1>10 DEF ab, bc

(* A sequence is its beginning and its rest.                               *)
LEMMA CutInTwo ==
    ASSUME NEW T, NEW s \in Seq(T), NEW n \in 0..Len(s)
    PROVE  SubSeq(s, 1, n) \o SubSeq(s, n + 1, Len(s)) = s
<1> DEFINE a == SubSeq(s, 1, n)
           b == SubSeq(s, n + 1, Len(s))
<1>1. Len(s) \in Nat /\ n \in Nat
  OBVIOUS
<1>2. a \in Seq(T) /\ Len(a) = n /\ \A k \in 1..n : a[k] = s[k]
  <2>1. /\ a \in Seq(T) /\ Len(a) = n - 1 + 1
        /\ \A k \in 1..(n - 1 + 1) : a[k] = s[1 + k - 1]
    BY <1>1, Cut
  <2> QED
    BY <1>1, <2>1
<1>3. b \in Seq(T) /\ Len(b) = Len(s) - n /\ \A k \in 1..(Len(s) - n) : b[k] = s[n + k]
  <2>1. /\ b \in Seq(T) /\ Len(b) = Len(s) - (n + 1) + 1
        /\ \A k \in 1..(Len(s) - (n + 1) + 1) : b[k] = s[(n + 1) + k - 1]
    BY <1>1, Cut
  <2> QED
    BY <1>1, <2>1
<1> HIDE DEF a, b
<1>4. /\ a \o b \in Seq(T) /\ Len(a \o b) = Len(a) + Len(b)
      /\ \A k \in 1..(Len(a) + Len(b)) : (a \o b)[k] = IF k <= Len(a) THEN a[k] ELSE b[k - Len(a)]
  BY <1>2, <1>3, Joined
<1>5. Len(a \o b) = Len(s)
  BY <1>1, <1>2, <1>3, <1>4
<1>6. ASSUME NEW k \in 1..Len(s) PROVE (a \o b)[k] = s[k]
  <2>1. CASE k <= n
    BY <1>1, <1>2, <1>3, <1>4, <2>1
  <2>2. CASE ~(k <= n)
    <3>1. k - n \in 1..(Len(s) - n) /\ n + (k - n) = k
      BY <1>1, <2>2
    <3>2. b[k - n] = s[k]
      BY Zenon, <1>3, <3>1
    <3> QED
      BY <1>1, <1>2, <1>3, <1>4, <2>2, <3>2
  <2> QED
    BY Zenon, <2>1, <2>2
<1>7. a \o b = s
  BY Zenon, <1>4, <1>5, <1>6, SameSeq
<1> QED
  BY Zenon, <1>7 DEF a, b

(* A sequence is a prefix of what it is continued to.                      *)
LEMMA PrefixJoined ==
    ASSUME NEW T, NEW a \in Seq(T), NEW b \in Seq(T), NEW c \in Seq(T), Prefix(c, a)
    PROVE  Prefix(a, a \o b) /\ Prefix(c, a \o b)
<1>1. /\ Len(a \o b) = Len(a) + Len(b)
      /\ \A k \in 1..(Len(a) + Len(b)) : (a \o b)[k] = IF k <= Len(a) THEN a[k] ELSE b[k - Len(a)]
  BY Zenon, Joined
<1>2. Len(a) \in Nat /\ Len(b) \in Nat /\ Len(c) \in Nat /\ Len(c) <= Len(a)
  BY DEF Prefix
<1>3. \A k \in 1..Len(a) : (a \o b)[k] = a[k]
  BY <1>1, <1>2
<1>4. Len(a) <= Len(a \o b) /\ Len(c) <= Len(a \o b)
  BY <1>1, <1>2
<1>5. \A k \in 1..Len(c) : k \in 1..Len(a)
  BY <1>2
<1> QED
  BY Zenon, <1>3, <1>4, <1>5 DEF Prefix

(* The beginning of a sequence is a prefix of it.                          *)
LEMMA PrefixCut ==
    ASSUME NEW T, NEW s \in Seq(T), NEW n \in 0..Len(s)
    PROVE  SubSeq(s, 1, n) \in Seq(T) /\ Prefix(SubSeq(s, 1, n), s) /\ Len(SubSeq(s, 1, n)) = n
<1>1. Len(s) \in Nat /\ n \in Nat
  OBVIOUS
<1>2. /\ SubSeq(s, 1, n) \in Seq(T) /\ Len(SubSeq(s, 1, n)) = n - 1 + 1
      /\ \A k \in 1..(n - 1 + 1) : SubSeq(s, 1, n)[k] = s[1 + k - 1]
  BY <1>1, Cut
<1> QED
  BY <1>1, <1>2 DEF Prefix

(* A prefix of a sequence is its beginning.                                *)
LEMMA PrefixIsCut ==
    ASSUME NEW T, NEW s \in Seq(T), NEW t \in Seq(T), Prefix(s, t)
    PROVE  s = SubSeq(t, 1, Len(s))
<1>1. Len(s) \in 0..Len(t) /\ Len(s) \in Nat
  BY DEF Prefix
<1>2. /\ SubSeq(t, 1, Len(s)) \in Seq(T) /\ Prefix(SubSeq(t, 1, Len(s)), t)
      /\ Len(SubSeq(t, 1, Len(s))) = Len(s)
  BY Zenon, <1>1, PrefixCut
<1>3. \A k \in 1..Len(s) : s[k] = SubSeq(t, 1, Len(s))[k]
  BY Zenon, <1>2 DEF Prefix
<1> QED
  BY Zenon, <1>2, <1>3, SameSeq

-----------------------------------------------------------------------------
(* The echo server: EchoServer.tla.                                        *)
CONSTANTS Client, Messages, MAXRECV, MAXCONNECTIONS
VARIABLES pc, m_sock, open, backlog, peer, buf, data, cpc, message, up, down,
          echoed, reply, taken
Echo == INSTANCE EchoServer

\* Bytes are numbers, and no client has the name for none.
EchoConstants == Messages \subseteq Seq(Nat) /\ MAXRECV \in Nat /\ Echo!Nobody \notin Client

\* The descriptors at each point of main, with standard input open or not.
Holding(server, new_sock, fds) == m_sock["server"] = server /\ m_sock["new_sock"] = new_sock /\ open = fds
EchoSockets ==
    /\ m_sock \in [{"server", "new_sock"} -> Nat]
    /\ \/ pc \in {"create", "exited"} /\ (Holding(99, 99, {}) \/ Holding(99, 99, {0}))
       \/ pc \in {"bind", "listen", "accept"} /\ (Holding(0, 99, {0}) \/ Holding(1, 99, {0, 1}))
       \/ pc \in {"read", "write"} /\ (Holding(0, 1, {0, 1}) \/ Holding(1, 2, {0, 1, 2}))

(* The descriptor the kernel gives out next.                               *)
LEMMA LowestFree ==
    /\ open = {} => Echo!Lowest = 0
    /\ open = {0} => Echo!Lowest = 1
    /\ open = {0, 1} => Echo!Lowest = 2
<1>1. ASSUME NEW m \in 0..3, NEW S, S = 0..3 \ open, m \in S, \A k \in S : m <= k
      PROVE  Echo!Lowest = m
  <2>1. \A n \in S : (\A k \in S : n <= k) => n = m
    BY <1>1
  <2>2. Echo!Lowest = CHOOSE n \in S : \A k \in S : n <= k
    BY Zenon, <1>1 DEF Echo!Lowest
  <2> QED
    BY Zenon, <1>1, <2>1, <2>2
<1>2. ASSUME open = {} PROVE Echo!Lowest = 0
  <2>1. 0 \in 0..3 \ open /\ \A k \in 0..3 \ open : 0 <= k
    BY <1>2
  <2> QED
    BY Zenon, <1>1, <2>1
<1>3. ASSUME open = {0} PROVE Echo!Lowest = 1
  <2>1. 1 \in 0..3 \ open /\ \A k \in 0..3 \ open : 1 <= k
    BY <1>3
  <2> QED
    BY Zenon, <1>1, <2>1
<1>4. ASSUME open = {0, 1} PROVE Echo!Lowest = 2
  <2>1. 2 \in 0..3 \ open /\ \A k \in 0..3 \ open : 2 <= k
    BY <1>4
  <2> QED
    BY Zenon, <1>1, <2>1
<1> QED
  BY Zenon, <1>2, <1>3, <1>4

(* Every step keeps the two objects' descriptors where main expects them.  *)
LEMMA EchoSocketsStep ==
    ASSUME EchoSockets, [Echo!Next]_Echo!vars
    PROVE  EchoSockets'
<1> USE DEF EchoSockets, Holding, Echo!Destroy, Echo!NoFd
<1>1. CASE Echo!create
  <2>1. CASE Echo!Exit({})
    BY <1>1, <2>1 DEF Echo!create, Echo!Exit
  <2>2. CASE /\ m_sock' = [m_sock EXCEPT !["server"] = Echo!Lowest] /\ open' = open \cup {Echo!Lowest} /\ pc' = "bind"
    BY <1>1, <2>2, LowestFree DEF Echo!create
  <2> QED
    BY Zenon, <1>1, <2>1, <2>2 DEF Echo!create
<1>2. CASE Echo!bind \/ Echo!listen
  BY <1>2 DEF Echo!bind, Echo!listen, Echo!Setup, Echo!Exit
<1>3. CASE Echo!Accept
  <2>1. CASE Echo!Exit({"server", "new_sock"})
    BY <1>3, <2>1 DEF Echo!Accept, Echo!Exit
  <2>2. CASE /\ m_sock' = [m_sock EXCEPT !["new_sock"] = Echo!Lowest] /\ open' = open \cup {Echo!Lowest}
             /\ pc' = IF Echo!Lowest = 0 THEN "refused" ELSE "read"
    BY <1>3, <2>2, LowestFree DEF Echo!Accept
  <2> QED
    BY Zenon, <1>3, <2>1, <2>2 DEF Echo!Accept
<1>4. CASE Echo!Read
  <2>1. CASE pc' = "write" /\ UNCHANGED <<m_sock, open>>
    BY Zenon, <1>4, <2>1 DEF Echo!Read
  <2>2. CASE Echo!Hangup
    BY <1>4, <2>2 DEF Echo!Read, Echo!Hangup
  <2> QED
    BY Zenon, <1>4, <2>1, <2>2 DEF Echo!Read
<1>5. CASE Echo!Write
  <2>1. CASE pc' = "read" /\ UNCHANGED <<m_sock, open>>
    BY Zenon, <1>5, <2>1 DEF Echo!Write
  <2>2. CASE Echo!Hangup
    BY <1>5, <2>2 DEF Echo!Write, Echo!Hangup
  <2> QED
    BY Zenon, <1>5, <2>1, <2>2 DEF Echo!Write
<1>6. CASE \E c \in Client : Echo!Connect(c) \/ Echo!Send(c) \/ Echo!Receive(c)
  BY <1>6 DEF Echo!Connect, Echo!Send, Echo!Receive, Echo!server
<1>7. CASE UNCHANGED Echo!vars
  BY Zenon, <1>7 DEF Echo!vars
<1> QED
  BY Zenon, <1>1, <1>2, <1>3, <1>4, <1>5, <1>6, <1>7 DEF Echo!Next

(* So no accepted connection gets descriptor 0, and none is left open.     *)
LEMMA EchoDescriptors == EchoSockets => Echo!DescriptorsHeld
<1> SUFFICES ASSUME EchoSockets PROVE Echo!DescriptorsHeld
  BY Zenon
<1>1. DOMAIN m_sock = {"server", "new_sock"}
  BY Zenon DEF EchoSockets
<1> DEFINE held == {m_sock[o] : o \in {o \in DOMAIN m_sock : m_sock[o] # Echo!NoFd}}
<1>2. held = {n \in {m_sock["server"], m_sock["new_sock"]} : n # 99}
  BY <1>1 DEF Echo!NoFd
<1> HIDE DEF held
<1>3. /\ held \subseteq open /\ open \ held \subseteq {0}
      /\ m_sock["server"] # 99 => m_sock["server"] # m_sock["new_sock"]
      /\ pc # "refused"
  BY <1>2 DEF EchoSockets, Holding
<1> QED
  BY Zenon, <1>3 DEF Echo!DescriptorsHeld, Echo!NoFd, held

\* Where the bytes of a client are.
NoZero(s) == \A k \in DOMAIN s : s[k] # 0
Queued(c) == \E k \in DOMAIN backlog : backlog[k] = c
EchoTyped ==
    /\ cpc \in [Client -> {"start", "send", "read", "closed"}]
    /\ message \in [Client -> Seq(Nat)] /\ up \in [Client -> Seq(Nat)] /\ down \in [Client -> Seq(Nat)]
    /\ echoed \in [Client -> Seq(Nat)] /\ reply \in [Client -> Seq(Nat)] /\ taken \in [Client -> Seq(Nat)]
    /\ data \in Seq(Nat) /\ backlog \in Seq(Client)
EchoServing ==
    /\ IF pc \in {"read", "write"} THEN peer \in Client ELSE peer = Echo!Nobody
    /\ pc # "write" => data = <<>>
    /\ pc = "write" => cpc[peer] \notin {"start", "send"}
    /\ \A j, k \in DOMAIN backlog : backlog[j] = backlog[k] => j = k
Silent(c) ==
    /\ message[c] = <<>> /\ up[c] = <<>> /\ down[c] = <<>>
    /\ echoed[c] = <<>> /\ reply[c] = <<>> /\ taken[c] = <<>>
EchoClient(c) ==
    /\ message[c] = taken[c] \o up[c]
    /\ cpc[c] \in {"start", "send"} => Silent(c)
    /\ cpc[c] = "start" => c # peer /\ ~Queued(c)
    /\ cpc[c] = "read" => down[c] = echoed[c] /\ reply[c] = <<>>
    /\ Queued(c) => c # peer /\ taken[c] = <<>> /\ echoed[c] = <<>>
    /\ NoZero(message[c]) => /\ c = peer => taken[c] = echoed[c] \o data
                             /\ Prefix(echoed[c], message[c]) /\ Prefix(reply[c], echoed[c])
EchoInv == EchoSockets /\ EchoTyped /\ EchoServing /\ \A c \in Client : EchoClient(c)

\* What is left of a string in a buffer, and of one without a zero.
LEMMA StringCut ==
    ASSUME NEW s \in Seq(Nat)
    PROVE  Echo!CString(s) \in Seq(Nat) /\ (NoZero(s) => Echo!CString(s) = s)
<1> DEFINE zeros == {k \in DOMAIN s : s[k] = 0}
           first == CHOOSE k \in zeros : \A j \in zeros : k <= j
<1>1. DOMAIN s = 1..Len(s) /\ Len(s) \in Nat
  OBVIOUS
<1>2. CASE zeros = {}
  <2>1. Echo!CString(s) = s
    BY Zenon, <1>2 DEF Echo!CString
  <2> QED
    BY Zenon, <2>1
<1>3. CASE zeros # {}
  <2>1. zeros \subseteq Nat
    BY <1>1
  <2>2. \E k \in zeros : \A j \in zeros : k <= j
    BY Zenon, <1>3, <2>1, LeastNatural
  <2>3. first \in zeros
    BY Zenon, <2>2
  <2>4. first - 1 \in 0..Len(s)
    BY <1>1, <2>3
  <2>5. Echo!CString(s) = SubSeq(s, 1, first - 1)
    BY Zenon, <1>3 DEF Echo!CString
  <2>6. SubSeq(s, 1, first - 1) \in Seq(Nat)
    BY Zenon, <2>4, PrefixCut
  <2> QED
    BY Zenon, <1>3, <2>5, <2>6 DEF NoZero
<1> QED
  BY Zenon, <1>2, <1>3

(* A part of a message without a zero byte has none.                       *)
LEMMA NoZeroPrefix ==
    ASSUME NEW s \in Seq(Nat), NEW t \in Seq(Nat), Prefix(s, t), NoZero(t)
    PROVE  NoZero(s)
<1>1. DOMAIN s = 1..Len(s) /\ DOMAIN t = 1..Len(t) /\ Len(s) \in Nat /\ Len(t) \in Nat /\ Len(s) <= Len(t)
  BY DEF Prefix
<1>2. \A k \in 1..Len(s) : k \in 1..Len(t) /\ s[k] = t[k]
  BY <1>1 DEF Prefix
<1> QED
  BY Zenon, <1>1, <1>2 DEF NoZero

(* Nor has what is left of it.                                             *)
LEMMA NoZeroRest ==
    ASSUME NEW a \in Seq(Nat), NEW b \in Seq(Nat), NoZero(a \o b)
    PROVE  NoZero(b)
<1>1. /\ a \o b \in Seq(Nat) /\ Len(a \o b) = Len(a) + Len(b)
      /\ \A k \in 1..(Len(a) + Len(b)) : (a \o b)[k] = IF k <= Len(a) THEN a[k] ELSE b[k - Len(a)]
  BY Zenon, Joined
<1>2. DOMAIN b = 1..Len(b) /\ DOMAIN (a \o b) = 1..(Len(a) + Len(b)) /\ Len(a) \in Nat /\ Len(b) \in Nat
  BY <1>1
<1>3. ASSUME NEW k \in 1..Len(b) PROVE b[k] # 0
  <2>1. k + Len(a) \in 1..(Len(a) + Len(b)) /\ ~(k + Len(a) <= Len(a)) /\ (k + Len(a)) - Len(a) = k
    BY <1>2
  <2>2. (a \o b)[k + Len(a)] = b[k]
    BY Zenon, <1>1, <2>1
  <2> QED
    BY Zenon, <1>2, <2>1, <2>2 DEF NoZero
<1> QED
  BY Zenon, <1>2, <1>3 DEF NoZero

(* Nothing has been sent.                                                  *)
LEMMA EchoInit == EchoConstants /\ Echo!Init => EchoInv
<1> SUFFICES ASSUME EchoConstants, Echo!Init PROVE EchoInv
  BY Zenon
<1>1. EchoSockets
  BY DEF Echo!Init, EchoSockets, Holding, Echo!NoFd
<1>2. EchoTyped /\ EchoServing
  BY DEF Echo!Init, EchoTyped, EchoServing
<1>3. ASSUME NEW c \in Client PROVE EchoClient(c)
  <2>1. Silent(c) /\ cpc[c] = "start" /\ ~Queued(c) /\ peer = Echo!Nobody /\ data = <<>>
    BY DEF Echo!Init, Silent, Queued
  <2>2. <<>> \o <<>> = <<>> /\ Prefix(<<>>, <<>>)
    BY DEF Prefix
  <2> QED
    BY Zenon, <2>1, <2>2 DEF EchoClient, Silent, EchoConstants
<1> QED
  BY Zenon, <1>1, <1>2, <1>3 DEF EchoInv

\* A step that leaves the bytes of a client alone, and does not make it the
\* one that is served.
LEMMA EchoUntouched ==
    ASSUME NEW c \in Client, EchoClient(c), cpc'[c] = cpc[c], message'[c] = message[c], up'[c] = up[c],
           down'[c] = down[c], echoed'[c] = echoed[c], reply'[c] = reply[c], taken'[c] = taken[c],
           Queued(c)' => Queued(c), c = peer' => c = peer /\ data' = data
    PROVE  EchoClient(c)'
<1>1. Silent(c)' <=> Silent(c)
  BY Zenon DEF Silent
<1> QED
  BY Zenon, <1>1 DEF EchoClient

(* The constructor of the server touches no bytes.                         *)
LEMMA EchoCreateStep ==
    ASSUME EchoConstants, EchoInv, Echo!create \/ Echo!bind \/ Echo!listen
    PROVE  EchoTyped' /\ EchoServing' /\ \A c \in Client : EchoClient(c)'
<1>1. /\ backlog' = backlog \/ backlog' = <<>>
      /\ pc \notin {"read", "write"} /\ pc' \notin {"read", "write"}
      /\ UNCHANGED <<peer, data, cpc, message, reply, up, down, echoed, taken>>
  BY Zenon DEF Echo!create, Echo!bind, Echo!listen, Echo!Setup, Echo!Exit, Echo!client
<1>2. EchoTyped'
  BY ZenonT(60), <1>1, EmptyJoined DEF EchoInv, EchoTyped
<1>4. EchoServing'
  <2>1. \A j, k \in DOMAIN backlog' : backlog'[j] = backlog'[k] => j = k
    BY <1>1 DEF EchoInv, EchoServing
  <2> QED
    BY Zenon, <1>1, <2>1 DEF EchoInv, EchoServing
<1>3. ASSUME NEW c \in Client PROVE EchoClient(c)'
  <2>1. Queued(c)' => Queued(c)
    BY <1>1 DEF Queued
  <2> QED
    BY Zenon, <1>1, <2>1, EchoUntouched DEF EchoInv
<1> QED
  BY Zenon, <1>2, <1>3, <1>4

\* The one that is accepted has sent nothing that was taken.
LEMMA EchoAcceptStep ==
    ASSUME EchoConstants, EchoInv, EchoSockets', Echo!Accept
    PROVE  EchoTyped' /\ EchoServing' /\ \A c \in Client : EchoClient(c)'
<1>1. /\ pc = "accept" /\ peer = Echo!Nobody /\ data = <<>> /\ backlog \in Seq(Client) /\ backlog # <<>>
      /\ UNCHANGED <<data, cpc, message, reply, up, down, echoed, taken>>
  BY Zenon DEF Echo!Accept, Echo!client, EchoInv, EchoServing, EchoTyped
<1>2. CASE Echo!Exit({"server", "new_sock"}) /\ peer' = peer
  <2>1. backlog' = <<>> /\ pc' = "exited"
    BY Zenon, <1>2 DEF Echo!Exit
  <2>2. EchoTyped' /\ EchoServing'
    BY <1>1, <1>2, <2>1 DEF EchoInv, EchoTyped, EchoServing
  <2>3. ASSUME NEW c \in Client PROVE EchoClient(c)'
    <3>1. ~Queued(c)'
      BY <2>1 DEF Queued
    <3> QED
      BY Zenon, <1>1, <1>2, <3>1, EchoUntouched DEF EchoInv
  <2> QED
    BY Zenon, <2>2, <2>3
<1>3. CASE /\ peer' = Head(backlog) /\ backlog' = Tail(backlog)
           /\ pc' = IF Echo!Lowest = 0 THEN "refused" ELSE "read"
  <2>1. pc' = "read"
    BY Zenon, <1>3 DEF EchoSockets
  <2>2. /\ Head(backlog) = backlog[1] /\ 1 \in DOMAIN backlog /\ Head(backlog) \in Client
        /\ Tail(backlog) \in Seq(Client)
        /\ \A k \in DOMAIN Tail(backlog) : k + 1 \in DOMAIN backlog /\ Tail(backlog)[k] = backlog[k + 1] /\ k + 1 # 1
        /\ DOMAIN Tail(backlog) \subseteq Nat
    BY <1>1
  <2>3. \A j, k \in DOMAIN backlog : backlog[j] = backlog[k] => j = k
    BY Zenon DEF EchoInv, EchoServing
  <2>4. \A j, k \in DOMAIN Tail(backlog) : Tail(backlog)[j] = Tail(backlog)[k] => j = k
    BY <2>2, <2>3
  <2>5. EchoTyped' /\ EchoServing'
    BY Zenon, <1>1, <1>3, <2>1, <2>2, <2>4 DEF EchoInv, EchoTyped, EchoServing
  <2>6. ASSUME NEW c \in Client PROVE EchoClient(c)'
    <3>1. Queued(c)' => Queued(c) /\ c # peer'
      BY <1>3, <2>2, <2>3 DEF Queued
    <3>2. CASE c # peer'
      BY Zenon, <1>1, <3>1, <3>2, EchoUntouched DEF EchoInv
    <3>3. CASE c = peer'
      <4>1. Queued(c) /\ EchoClient(c) /\ ~Queued(c)'
        BY Zenon, <1>3, <2>2, <3>1, <3>3 DEF Queued, EchoInv
      <4>2. taken[c] = <<>> /\ echoed[c] = <<>> /\ cpc[c] # "start" /\ <<>> \o <<>> = <<>>
        BY <4>1 DEF EchoClient
      <4>3. taken'[c] = echoed'[c] \o data'
        BY Zenon, <1>1, <4>2
      <4>4. Silent(c)' <=> Silent(c)
        BY Zenon, <1>1 DEF Silent
      <4> QED
        BY Zenon, <1>1, <4>1, <4>2, <4>3, <4>4 DEF EchoClient
    <3> QED
      BY Zenon, <3>2, <3>3
  <2> QED
    BY <2>5, <2>6
<1> QED
  BY Zenon, <1>2, <1>3 DEF Echo!Accept

\* The inner catch: nobody is served any more.
LEMMA EchoHangupStep ==
    ASSUME EchoConstants, EchoInv, Echo!Hangup, UNCHANGED <<backlog, cpc, message, reply, up, down, echoed, taken>>
    PROVE  EchoTyped' /\ EchoServing' /\ \A c \in Client : EchoClient(c)'
<1>1. pc' = "accept" /\ peer' = Echo!Nobody /\ data' = <<>>
  BY Zenon DEF Echo!Hangup
<1>2. EchoTyped' /\ EchoServing'
  BY <1>1 DEF EchoInv, EchoTyped, EchoServing
<1>3. ASSUME NEW c \in Client PROVE EchoClient(c)'
  <2>1. (Queued(c)' => Queued(c)) /\ c # peer'
    BY Zenon, <1>1 DEF Queued, EchoConstants
  <2> QED
    BY Zenon, <2>1, EchoUntouched DEF EchoInv
<1> QED
  BY Zenon, <1>2, <1>3

(* What recv takes goes to data, up to a zero byte.                        *)
LEMMA EchoReadStep ==
    ASSUME EchoConstants, EchoInv, Echo!Read
    PROVE  EchoTyped' /\ EchoServing' /\ \A c \in Client : EchoClient(c)'
<1>1. /\ pc = "read" /\ peer \in Client /\ data = <<>> /\ EchoClient(peer)
      /\ UNCHANGED <<backlog, cpc, message, reply, down, echoed>>
  BY Zenon DEF Echo!Read, Echo!client, EchoInv, EchoServing
<1>2. CASE Echo!Hangup /\ UNCHANGED <<up, taken>>
  BY Zenon, <1>1, <1>2, EchoHangupStep
<1>3. ASSUME NEW n \in 1..MAXRECV, n <= Len(up[peer]),
             data' = Echo!recv(SubSeq(up[peer], 1, n), buf),
             taken' = [taken EXCEPT ![peer] = @ \o SubSeq(up[peer], 1, n)],
             up' = [up EXCEPT ![peer] = SubSeq(@, n + 1, Len(@))], pc' = "write", peer' = peer
      PROVE  EchoTyped' /\ EchoServing' /\ \A c \in Client : EchoClient(c)'
  <2> DEFINE bytes == SubSeq(up[peer], 1, n)
             rest == SubSeq(up[peer], n + 1, Len(up[peer]))
  <2>1. up[peer] \in Seq(Nat) /\ taken[peer] \in Seq(Nat) /\ echoed[peer] \in Seq(Nat) /\ Len(up[peer]) \in Nat
    BY <1>1 DEF EchoInv, EchoTyped
  <2>2. n \in 0..Len(up[peer]) /\ n + 1 \in 1..(Len(up[peer]) + 1) /\ Len(up[peer]) > 0
    BY <1>3, <2>1 DEF EchoConstants
  <2>3. bytes \in Seq(Nat) /\ Prefix(bytes, up[peer]) /\ rest \in Seq(Nat) /\ bytes \o rest = up[peer]
    <3>1. n + 1 <= Len(up[peer]) + 1
      BY <2>1, <2>2
    <3>2. bytes \in Seq(Nat) /\ Prefix(bytes, up[peer])
      BY Zenon, <2>1, <2>2, PrefixCut
    <3>3. rest \in Seq(Nat)
      <4>1. Len(up[peer]) \in 0..Len(up[peer])
        BY <2>1
      <4> QED
        BY Zenon, <2>1, <2>2, <3>1, <4>1, Cut
    <3>4. bytes \o rest = up[peer]
      BY Zenon, <2>1, <2>2, CutInTwo
    <3> QED
      BY Zenon, <3>2, <3>3, <3>4
  <2> HIDE DEF bytes, rest
  <2>4. /\ data' = Echo!CString(bytes) /\ taken' = [taken EXCEPT ![peer] = taken[peer] \o bytes]
        /\ up' = [up EXCEPT ![peer] = rest]
    BY Zenon, <1>1, <1>3 DEF EchoInv, EchoTyped, bytes, rest, Echo!recv
  <2>5. data' \in Seq(Nat) /\ (NoZero(bytes) => data' = bytes) /\ taken[peer] \o bytes \in Seq(Nat)
    BY Zenon, <2>1, <2>3, <2>4, StringCut, Joined
  <2>6. cpc[peer] \notin {"start", "send"}
    BY <1>1, <2>2 DEF EchoClient, Silent
  <2>7. EchoTyped' /\ EchoServing'
    <3>1. taken' \in [Client -> Seq(Nat)] /\ up' \in [Client -> Seq(Nat)]
      BY Zenon, <1>1, <2>3, <2>4, <2>5 DEF EchoInv, EchoTyped
    <3>2. EchoTyped'
      BY Zenon, <1>1, <2>5, <3>1 DEF EchoInv, EchoTyped
    <3>3. EchoServing'
      BY Zenon, <1>1, <1>3, <2>6 DEF EchoInv, EchoServing
    <3> QED
      BY Zenon, <3>2, <3>3
  <2>8. ASSUME NEW c \in Client, c # peer PROVE EchoClient(c)'
    <3>1. (Queued(c)' => Queued(c)) /\ taken'[c] = taken[c] /\ up'[c] = up[c] /\ c # peer'
      BY Zenon, <1>1, <1>3, <2>4, <2>8 DEF Queued, EchoInv, EchoTyped
    <3> QED
      BY Zenon, <1>1, <3>1, EchoUntouched DEF EchoInv
  <2>9. EchoClient(peer)'
    <3>1. /\ taken'[peer] = taken[peer] \o bytes /\ up'[peer] = rest /\ message'[peer] = message[peer]
          /\ cpc'[peer] = cpc[peer] /\ down'[peer] = down[peer] /\ echoed'[peer] = echoed[peer]
          /\ reply'[peer] = reply[peer]
      BY Zenon, <1>1, <2>4 DEF EchoInv, EchoTyped
    <3>2. message'[peer] = taken'[peer] \o up'[peer]
      <4>1. message[peer] = taken[peer] \o (bytes \o rest)
        BY Zenon, <1>1, <2>3 DEF EchoClient
      <4>2. (taken[peer] \o bytes) \o rest = taken[peer] \o (bytes \o rest)
        <5>1. taken[peer] \in Seq(Nat) /\ bytes \in Seq(Nat) /\ rest \in Seq(Nat)
          BY Zenon, <2>1, <2>3
        <5> QED
          BY ZenonT(60), <5>1, BytesJoined
      <4> QED
        BY Zenon, <3>1, <4>1, <4>2
    <3>3. ~Queued(peer)' /\ peer' = peer
      BY Zenon, <1>1, <1>3 DEF EchoClient, Queued
    <3>4. ASSUME NoZero(message[peer])
          PROVE  /\ taken'[peer] = echoed'[peer] \o data'
                 /\ Prefix(echoed[peer], message[peer]) /\ Prefix(reply[peer], echoed[peer])
      <4>1. NoZero(up[peer])
        BY Zenon, <1>1, <2>1, <3>4, NoZeroRest DEF EchoClient
      <4>2. NoZero(bytes)
        BY Zenon, <2>1, <2>3, <4>1, NoZeroPrefix
      <4>3. taken[peer] = echoed[peer]
        BY Zenon, <1>1, <2>1, <3>4, EmptyJoined DEF EchoClient
      <4> QED
        BY ZenonT(60), <1>1, <2>5, <3>1, <3>4, <4>2, <4>3 DEF EchoClient
    <3> QED
      BY ZenonT(60), <1>1, <2>6, <3>1, <3>2, <3>3, <3>4 DEF EchoClient
  <2> QED
    BY Zenon, <2>7, <2>8, <2>9, <1>3
<1> QED
  BY Zenon, <1>2, <1>3 DEF Echo!Read

(* What is written was in data.                                            *)
LEMMA EchoWriteStep ==
    ASSUME EchoConstants, EchoInv, Echo!Write
    PROVE  EchoTyped' /\ EchoServing' /\ \A c \in Client : EchoClient(c)'
<1>1. /\ pc = "write" /\ peer \in Client /\ cpc[peer] \notin {"start", "send"} /\ EchoClient(peer)
      /\ UNCHANGED <<backlog, cpc, message, reply, up, taken>>
  BY Zenon DEF Echo!Write, Echo!client, EchoInv, EchoServing
<1>2. CASE Echo!Hangup /\ UNCHANGED <<down, echoed>>
  BY Zenon, <1>1, <1>2, EchoHangupStep
<1>3. CASE /\ down' = [down EXCEPT ![peer] = @ \o data] /\ echoed' = [echoed EXCEPT ![peer] = @ \o data]
           /\ data' = <<>> /\ pc' = "read" /\ peer' = peer
  <2>1. /\ data \in Seq(Nat) /\ echoed[peer] \in Seq(Nat) /\ down[peer] \in Seq(Nat) /\ taken[peer] \in Seq(Nat)
        /\ up[peer] \in Seq(Nat) /\ reply[peer] \in Seq(Nat)
    BY Zenon, <1>1 DEF EchoInv, EchoTyped
  <2>2. echoed[peer] \o data \in Seq(Nat) /\ down[peer] \o data \in Seq(Nat)
    BY Zenon, <2>1, Joined
  <2>3. EchoTyped' /\ EchoServing'
    BY <1>1, <1>3, <2>2 DEF EchoInv, EchoTyped, EchoServing
  <2>4. ASSUME NEW c \in Client, c # peer PROVE EchoClient(c)'
    <3>1. (Queued(c)' => Queued(c)) /\ down'[c] = down[c] /\ echoed'[c] = echoed[c] /\ c # peer'
      BY Zenon, <1>1, <1>3, <2>4 DEF Queued, EchoInv, EchoTyped
    <3> QED
      BY Zenon, <1>1, <3>1, EchoUntouched DEF EchoInv
  <2>5. EchoClient(peer)'
    <3>1. /\ echoed'[peer] = echoed[peer] \o data /\ down'[peer] = down[peer] \o data
          /\ message'[peer] = message[peer] /\ taken'[peer] = taken[peer] /\ up'[peer] = up[peer]
          /\ cpc'[peer] = cpc[peer] /\ reply'[peer] = reply[peer] /\ peer' = peer
      BY Zenon, <1>1, <1>3 DEF EchoInv, EchoTyped
    <3>2. ~Queued(peer)'
      BY Zenon, <1>1, <1>3 DEF EchoClient, Queued
    <3>3. ASSUME NoZero(message[peer])
          PROVE  /\ taken'[peer] = echoed'[peer] \o data'
                 /\ Prefix(echoed'[peer], message[peer]) /\ Prefix(reply[peer], echoed'[peer])
      <4>1. taken[peer] = echoed[peer] \o data /\ message[peer] = taken[peer] \o up[peer]
        BY Zenon, <1>1, <3>3 DEF EchoClient
      <4>2. taken[peer] \o <<>> = taken[peer]
        BY Zenon, <2>1, EmptyJoined
      <4>3. Prefix(taken[peer], taken[peer])
        BY DEF Prefix
      <4>4. Prefix(taken[peer], message[peer])
        BY Zenon, <2>1, <4>1, <4>3, PrefixJoined
      <4>5. Prefix(reply[peer], echoed[peer])
        BY Zenon, <1>1, <3>3 DEF EchoClient
      <4>6. Prefix(reply[peer], echoed[peer] \o data)
        BY Zenon, <2>1, <4>5, PrefixJoined
      <4> QED
        BY ZenonT(60), <1>3, <3>1, <4>1, <4>2, <4>4, <4>6
    <3> QED
      BY Zenon, <1>1, <3>1, <3>2, <3>3 DEF EchoClient
  <2> QED
    BY Zenon, <1>3, <2>3, <2>4, <2>5
<1> QED
  BY Zenon, <1>2, <1>3 DEF Echo!Write

(* A client that connects has sent nothing yet.                            *)
LEMMA EchoConnectStep ==
    ASSUME EchoConstants, EchoInv, NEW c \in Client, Echo!Connect(c)
    PROVE  EchoTyped' /\ EchoServing' /\ \A d \in Client : EchoClient(d)'
<1>1. /\ cpc[c] = "start" /\ EchoClient(c) /\ Silent(c) /\ c # peer /\ ~Queued(c)
      /\ UNCHANGED <<pc, peer, data, echoed, taken, message, reply, up, down>>
  BY Zenon DEF Echo!Connect, Echo!server, EchoInv, EchoClient
<1>2. backlog \in Seq(Client) /\ cpc \in [Client -> {"start", "send", "read", "closed"}]
  BY Zenon DEF EchoInv, EchoTyped
<1>3. PICK to \in {"send", "closed"} : cpc' = [cpc EXCEPT ![c] = to]
  BY Zenon DEF Echo!Connect
<1>4. backlog' = backlog \/ (backlog' = Append(backlog, c) /\ cpc'[c] # "closed")
  BY Zenon, <1>2 DEF Echo!Connect
<1>5. cpc'[c] \in {"send", "closed"} /\ \A d \in Client : d # c => cpc'[d] = cpc[d]
  BY Zenon, <1>2, <1>3
<1>6. /\ backlog' \in Seq(Client)
      /\ \A k \in DOMAIN backlog' : \/ k \in DOMAIN backlog /\ backlog'[k] = backlog[k]
                                    \/ k = Len(backlog) + 1 /\ backlog'[k] = c
  BY <1>2, <1>4
<1>7. \A k \in DOMAIN backlog : backlog[k] # c
  BY Zenon, <1>1 DEF Queued
<1>8. \A j, k \in DOMAIN backlog' : backlog'[j] = backlog'[k] => j = k
  BY Zenon, <1>6, <1>7 DEF EchoInv, EchoServing
<1>9. EchoTyped'
  BY ZenonT(60), <1>1, <1>2, <1>3, <1>6 DEF EchoInv, EchoTyped
<1>10. EchoServing'
  BY Zenon, <1>1, <1>5, <1>8 DEF EchoInv, EchoServing
<1>11. ASSUME NEW d \in Client, d # c PROVE EchoClient(d)'
  <2>1. (Queued(d)' => Queued(d)) /\ cpc'[d] = cpc[d]
    BY <1>5, <1>6, <1>11 DEF Queued
  <2> QED
    BY Zenon, <1>1, <2>1, EchoUntouched DEF EchoInv
<1>12. EchoClient(c)'
  <2>1. Silent(c)' /\ (NoZero(message[c])' <=> NoZero(message[c]))
    BY Zenon, <1>1 DEF Silent
  <2> QED
    BY ZenonT(60), <1>1, <1>5, <2>1 DEF EchoClient, Silent
<1> QED
  BY Zenon, <1>9, <1>10, <1>11, <1>12

(* A message goes on its way whole.                                        *)
LEMMA EchoSendStep ==
    ASSUME EchoConstants, EchoInv, NEW c \in Client, Echo!Send(c)
    PROVE  EchoTyped' /\ EchoServing' /\ \A d \in Client : EchoClient(d)'
<1>1. /\ cpc[c] = "send" /\ EchoClient(c) /\ Silent(c) /\ ~(pc = "write" /\ peer = c)
      /\ UNCHANGED <<pc, peer, data, echoed, taken, backlog, reply, down>>
  BY Zenon DEF Echo!Send, Echo!server, EchoInv, EchoClient, EchoServing
<1>2. /\ cpc \in [Client -> {"start", "send", "read", "closed"}]
      /\ message \in [Client -> Seq(Nat)] /\ up \in [Client -> Seq(Nat)]
  BY Zenon DEF EchoInv, EchoTyped
<1>3. PICK to \in {"read", "closed"}, m \in Seq(Nat) :
        cpc' = [cpc EXCEPT ![c] = to] /\ message' = [message EXCEPT ![c] = m] /\ up' = [up EXCEPT ![c] = m]
  <2>1. CASE \E m \in Messages : /\ message' = [message EXCEPT ![c] = m] /\ up' = [up EXCEPT ![c] = m]
                                 /\ cpc' = [cpc EXCEPT ![c] = "read"]
    BY Zenon, <2>1 DEF EchoConstants
  <2>2. CASE cpc' = [cpc EXCEPT ![c] = "closed"] /\ UNCHANGED <<message, up>>
    <3>1. message[c] = <<>> /\ up[c] = <<>> /\ <<>> \in Seq(Nat)
      BY <1>1, EmptyJoined DEF Silent
    <3>2. message = [message EXCEPT ![c] = <<>>] /\ up = [up EXCEPT ![c] = <<>>]
      BY Zenon, <1>2, <3>1
    <3> QED
      BY Zenon, <2>2, <3>1, <3>2
  <2> QED
    BY Zenon, <2>1, <2>2 DEF Echo!Send
<1>4. /\ cpc'[c] \in {"read", "closed"} /\ message'[c] = m /\ up'[c] = m
      /\ \A d \in Client : d # c => cpc'[d] = cpc[d] /\ message'[d] = message[d] /\ up'[d] = up[d]
  BY Zenon, <1>2, <1>3
<1>5. EchoTyped'
  BY Zenon, <1>1, <1>2, <1>3 DEF EchoInv, EchoTyped
<1>6. EchoServing'
  <2>1. pc = "write" => peer \in Client /\ cpc'[peer] \notin {"start", "send"}
    BY Zenon, <1>1, <1>4 DEF EchoInv, EchoServing
  <2> QED
    BY Zenon, <1>1, <2>1 DEF EchoInv, EchoServing
<1>7. ASSUME NEW d \in Client, d # c PROVE EchoClient(d)'
  <2>1. (Queued(d)' => Queued(d)) /\ cpc'[d] = cpc[d] /\ message'[d] = message[d] /\ up'[d] = up[d]
    BY Zenon, <1>1, <1>4, <1>7 DEF Queued
  <2> QED
    BY Zenon, <1>1, <2>1, EchoUntouched DEF EchoInv
<1>8. EchoClient(c)'
  <2>1. /\ taken'[c] = <<>> /\ echoed'[c] = <<>> /\ down'[c] = <<>> /\ reply'[c] = <<>>
        /\ Queued(c)' => Queued(c)
    BY Zenon, <1>1 DEF Silent, Queued
  <2>2. <<>> \o m = m /\ <<>> \o <<>> = <<>>
    BY Zenon, EmptyJoined
  <2>3. c = peer => data = <<>>
    BY Zenon, <1>1 DEF EchoInv, EchoServing
  <2>4. Len(<<>>) = 0 /\ Len(m) \in Nat
    OBVIOUS
  <2>5. Prefix(<<>>, m) /\ Prefix(<<>>, <<>>)
    BY <2>4 DEF Prefix
  <2>6. Queued(c) => c # peer
    BY Zenon, <1>1 DEF EchoClient
  <2> QED
    BY Zenon, <1>1, <1>4, <2>1, <2>2, <2>3, <2>5, <2>6 DEF EchoClient
<1> QED
  BY Zenon, <1>5, <1>6, <1>7, <1>8

\* What the client reads is a prefix of what was echoed to it.
LEMMA EchoReceiveStep ==
    ASSUME EchoConstants, EchoInv, NEW c \in Client, Echo!Receive(c)
    PROVE  EchoTyped' /\ EchoServing' /\ \A d \in Client : EchoClient(d)'
<1>1. /\ cpc[c] = "read" /\ EchoClient(c) /\ down[c] = echoed[c] /\ reply[c] = <<>>
      /\ UNCHANGED <<pc, peer, data, echoed, taken, backlog, message, up>>
      /\ cpc' = [cpc EXCEPT ![c] = "closed"]
  BY Zenon DEF Echo!Receive, Echo!server, EchoInv, EchoClient
<1>2. /\ cpc \in [Client -> {"start", "send", "read", "closed"}] /\ down[c] \in Seq(Nat) /\ Len(down[c]) \in Nat
      /\ reply \in [Client -> Seq(Nat)] /\ down \in [Client -> Seq(Nat)] /\ message[c] \in Seq(Nat)
  BY DEF EchoInv, EchoTyped
<1>3. PICK r \in Seq(Nat), left \in Seq(Nat) :
        /\ reply' = [reply EXCEPT ![c] = r] /\ down' = [down EXCEPT ![c] = left]
        /\ NoZero(message[c]) => Prefix(r, echoed[c])
  <2>1. ASSUME NEW n \in 1..MAXRECV, n <= Len(down[c]),
               reply' = [reply EXCEPT ![c] = Echo!recv(SubSeq(down[c], 1, n), <<>>)],
               down' = [down EXCEPT ![c] = SubSeq(@, n + 1, Len(@))]
        PROVE  \E r \in Seq(Nat), left \in Seq(Nat) :
                   /\ reply' = [reply EXCEPT ![c] = r] /\ down' = [down EXCEPT ![c] = left]
                   /\ NoZero(message[c]) => Prefix(r, echoed[c])
    <3> DEFINE bytes == SubSeq(down[c], 1, n)
               left == SubSeq(down[c], n + 1, Len(down[c]))
    <3>1. /\ n \in 0..Len(down[c]) /\ n + 1 \in 1..(Len(down[c]) + 1) /\ n + 1 <= Len(down[c]) + 1
          /\ Len(down[c]) \in 0..Len(down[c])
      BY <1>2, <2>1 DEF EchoConstants
    <3>2. bytes \in Seq(Nat) /\ Prefix(bytes, down[c])
      BY Zenon, <1>2, <3>1, PrefixCut
    <3>3. left \in Seq(Nat)
      BY Zenon, <1>2, <3>1, Cut
    <3> HIDE DEF bytes, left
    <3>4. reply' = [reply EXCEPT ![c] = Echo!CString(bytes)] /\ down' = [down EXCEPT ![c] = left]
      BY Zenon, <1>2, <2>1 DEF bytes, left, Echo!recv
    <3>5. Echo!CString(bytes) \in Seq(Nat) /\ (NoZero(bytes) => Echo!CString(bytes) = bytes)
      BY Zenon, <3>2, StringCut
    <3>6. NoZero(message[c]) => Prefix(Echo!CString(bytes), echoed[c])
      <4>1. HAVE NoZero(message[c])
      <4>2. Prefix(down[c], message[c])
        BY Zenon, <1>1, <4>1 DEF EchoClient
      <4>3. NoZero(down[c])
        BY Zenon, <1>2, <4>1, <4>2, NoZeroPrefix
      <4>4. NoZero(bytes)
        BY Zenon, <1>2, <3>2, <4>3, NoZeroPrefix
      <4> QED
        BY Zenon, <1>1, <3>2, <3>5, <4>4
    <3> QED
      BY Zenon, <3>3, <3>4, <3>5, <3>6
  <2>2. CASE UNCHANGED <<reply, down>>
    <3>1. reply = [reply EXCEPT ![c] = reply[c]] /\ down = [down EXCEPT ![c] = down[c]] /\ reply[c] \in Seq(Nat)
      BY Zenon, <1>2
    <3>2. NoZero(message[c]) => Prefix(reply[c], echoed[c])
      BY Zenon, <1>1 DEF EchoClient
    <3> QED
      BY Zenon, <1>2, <2>2, <3>1, <3>2
  <2> QED
    BY Zenon, <2>1, <2>2 DEF Echo!Receive
<1>4. /\ cpc'[c] = "closed" /\ reply'[c] = r
      /\ \A d \in Client : d # c => cpc'[d] = cpc[d] /\ reply'[d] = reply[d] /\ down'[d] = down[d]
  BY Zenon, <1>1, <1>2, <1>3
<1>5. EchoTyped'
  BY Zenon, <1>1, <1>2, <1>3 DEF EchoInv, EchoTyped
<1>6. EchoServing'
  <2>1. pc = "write" => peer \in Client /\ cpc'[peer] \notin {"start", "send"}
    BY Zenon, <1>1, <1>4 DEF EchoInv, EchoServing
  <2> QED
    BY Zenon, <1>1, <2>1 DEF EchoInv, EchoServing
<1>7. ASSUME NEW d \in Client, d # c PROVE EchoClient(d)'
  <2>1. (Queued(d)' => Queued(d)) /\ cpc'[d] = cpc[d] /\ reply'[d] = reply[d] /\ down'[d] = down[d]
    BY Zenon, <1>1, <1>4, <1>7 DEF Queued
  <2> QED
    BY Zenon, <1>1, <2>1, EchoUntouched DEF EchoInv
<1>8. EchoClient(c)'
  <2>1. Queued(c)' => Queued(c)
    BY Zenon, <1>1 DEF Queued
  <2> QED
    BY Zenon, <1>1, <1>3, <1>4, <2>1 DEF EchoClient
<1> QED
  BY Zenon, <1>5, <1>6, <1>7, <1>8

(* Every step of the server and of its clients keeps the invariant.        *)
LEMMA EchoStep ==
    ASSUME EchoConstants, EchoInv, [Echo!Next]_Echo!vars
    PROVE  EchoInv'
<1>1. EchoSockets'
  BY Zenon, EchoSocketsStep DEF EchoInv
<1>2. EchoTyped' /\ EchoServing' /\ \A c \in Client : EchoClient(c)'
  <2>1. CASE UNCHANGED Echo!vars
    <3>1. /\ UNCHANGED <<backlog, peer, data, cpc, message, up, down, echoed, reply, taken, pc>>
      BY Zenon, <2>1 DEF Echo!vars
    <3>2. EchoTyped' /\ EchoServing'
      BY Zenon, <3>1 DEF EchoInv, EchoTyped, EchoServing
    <3>3. ASSUME NEW c \in Client PROVE EchoClient(c)'
      <4>1. Queued(c)' => Queued(c)
        BY Zenon, <3>1 DEF Queued
      <4> QED
        BY Zenon, <3>1, <4>1, EchoUntouched DEF EchoInv
    <3> QED
      BY Zenon, <3>2, <3>3
  <2> QED
    BY Zenon, <1>1, <2>1, EchoCreateStep, EchoAcceptStep, EchoReadStep, EchoWriteStep, EchoConnectStep, EchoSendStep,
       EchoReceiveStep DEF Echo!Next
<1> QED
  BY Zenon, <1>1, <1>2 DEF EchoInv

(* The invariant says where the bytes are.                                 *)
LEMMA EchoConsequence == EchoInv => Echo!EchoInOrder /\ Echo!DescriptorsHeld
<1>1. SUFFICES ASSUME EchoInv, NEW c \in Client
               PROVE  /\ message[c] = taken[c] \o up[c]
                      /\ (\A k \in DOMAIN message[c] : message[c][k] # 0)
                         => /\ c = peer => taken[c] = echoed[c] \o data
                            /\ echoed[c] = SubSeq(message[c], 1, Len(echoed[c]))
                            /\ reply[c] = SubSeq(echoed[c], 1, Len(reply[c]))
  BY Zenon, EchoDescriptors DEF Echo!EchoInOrder, EchoInv
<1>2. EchoClient(c) /\ message[c] \in Seq(Nat) /\ echoed[c] \in Seq(Nat) /\ reply[c] \in Seq(Nat)
  BY Zenon, <1>1 DEF EchoInv, EchoTyped
<1>3. ASSUME NoZero(message[c])
      PROVE  echoed[c] = SubSeq(message[c], 1, Len(echoed[c])) /\ reply[c] = SubSeq(echoed[c], 1, Len(reply[c]))
  <2>1. Prefix(echoed[c], message[c]) /\ Prefix(reply[c], echoed[c])
    BY Zenon, <1>2, <1>3 DEF EchoClient
  <2> QED
    BY Zenon, <1>2, <2>1, PrefixIsCut
<1> QED
  BY Zenon, <1>2, <1>3 DEF EchoClient, NoZero

(* What is echoed to a client is what it sent, in order, and the server    *)
(* holds exactly the descriptors of its objects - for any clients,         *)
(* messages and buffer size (Socket::recv, Socket::send,                   *)
(* ServerSocket::accept).                                                  *)
THEOREM EchoedInOrder ==
    ASSUME EchoConstants
    PROVE  Echo!Spec => [](Echo!EchoInOrder /\ Echo!DescriptorsHeld)
<1>1. Echo!Init => EchoInv
  BY Zenon, EchoInit
<1>2. EchoInv /\ [Echo!Next]_Echo!vars => EchoInv'
  BY Zenon, EchoStep
<1> QED
  BY <1>1, <1>2, EchoConsequence, PTL DEF Echo!Spec
-----------------------------------------------------------------------------
(* Building a configuration: Configuration.tla.                            *)
CONSTANTS Section, Numeral, MaxSections, MaxLoads
VARIABLES phase, databases, datasources, matchers, newCore, newSettings, core, settings,
          read, more, load, rejected
Compiler == INSTANCE Configuration

\* What a compilation makes: every file its parts come from was rejected, up
\* to the one before it.
Objects == [made : Nat, from : SUBSET Nat]
Outlived(o, upto) == \A x \in o.from : x..upto \subseteq rejected
Contained(container) == \A k \in DOMAIN container : container[k] \in Objects /\ Outlived(container[k], load - 1)
Emptied == DOMAIN databases = {} /\ DOMAIN datasources = {} /\ DOMAIN matchers = {}
ServerNames == {t.name : t \in Compiler!Range(Compiler!configTokens("server"))}

CompileParts ==
    /\ Contained(databases) /\ Contained(datasources) /\ Contained(matchers)
    /\ phase = "running" => Emptied \/ load \in rejected
CompileNew ==
    /\ newCore \in Seq(Objects)
    /\ \A i \in DOMAIN newCore : newCore[i].made = load /\ Outlived(newCore[i], load - 1)
    /\ \A k \in DOMAIN newSettings : newSettings[k].made = load
    /\ DOMAIN newSettings \in {{}, ServerNames}
    /\ phase # "parsing" => newCore = <<>> /\ DOMAIN newSettings = {}
CompileOld ==
    /\ \E x \in Nat : /\ \A i \in DOMAIN core : core[i].made = x /\ Outlived(core[i], x - 1)
                      /\ \A k \in DOMAIN settings : settings[k].made = x
    /\ DOMAIN settings \in {{}, ServerNames}
CompileInv == load \in Nat /\ CompileParts /\ CompileNew /\ CompileOld

(* Before the first file there is nothing.                                 *)
LEMMA CompileInit == Compiler!Init => CompileInv
<1>1. SUFFICES ASSUME Compiler!Init PROVE CompileInv
  BY Zenon
<1>2. DOMAIN Compiler!NoEntry = {} /\ DOMAIN <<>> = {} /\ <<>> \in Seq(Objects)
  BY EmptyJoined DEF Compiler!NoEntry
<1>3. CompileParts
  BY Zenon, <1>1, <1>2 DEF Compiler!Init, CompileParts, Contained
<1>4. CompileNew /\ CompileOld
  BY Zenon, <1>1, <1>2 DEF Compiler!Init, CompileNew, CompileOld
<1> QED
  BY Zenon, <1>1, <1>3, <1>4 DEF CompileInv, Compiler!Init

\* The running configuration stays: rejected only grows.
LEMMA CompileKept ==
    ASSUME CompileInv, UNCHANGED <<core, settings>>, rejected \subseteq rejected'
    PROVE  CompileOld'
<1>1. PICK x \in Nat : /\ \A i \in DOMAIN core : core[i].made = x /\ Outlived(core[i], x - 1)
                       /\ \A k \in DOMAIN settings : settings[k].made = x
  BY Zenon DEF CompileInv, CompileOld
<1>2. \A i \in DOMAIN core : Outlived(core[i], x - 1)'
  BY Zenon, <1>1 DEF Outlived
<1> QED
  BY Zenon, <1>1, <1>2 DEF CompileInv, CompileOld

\* Every setting of the server is required and has a default, so a [server]
\* section gives all of them a value.
LEMMA ServerTokens ==
    \A i \in DOMAIN Compiler!configTokens("server") :
        Compiler!configTokens("server")[i].required /\ Compiler!configTokens("server")[i].def # ""
<1> DEFINE tokens == Compiler!configTokens("server")
           Set(t) == t.required = TRUE /\ t.def # ""
           t1 == Compiler!Token("port", TRUE, "4096")
           t2 == Compiler!Token("listen", TRUE, "0.0.0.0")
           t3 == Compiler!Token("sparethreads", TRUE, "2")
           t4 == Compiler!Token("maxthreads", TRUE, "150")
           t5 == Compiler!Token("maxrequests", TRUE, "0")
           t6 == Compiler!Token("cacherefresh", TRUE, "600")
           t7 == Compiler!Token("poolrefresh", TRUE, "5")
           t8 == Compiler!Token("deferwithstatus", TRUE, "true")
           t9 == Compiler!Token("defer", TRUE, "defer_if_permit Service is unavailable")
           t10 == Compiler!Token("dunno", TRUE, "dunno")
           t11 == Compiler!Token("onerror", TRUE, "dunno")
           t12 == Compiler!Token("log", TRUE, "minimal")
           t13 == Compiler!Token("stats", TRUE, "120")
<1>1. tokens = <<t1, t2, t3, t4, t5, t6, t7, t8, t9, t10, t11, t12, t13>>
  BY Zenon DEF Compiler!configTokens
<1>2. Set(t1) /\ Set(t2) /\ Set(t3) /\ Set(t4) /\ Set(t5) /\ Set(t6) /\ Set(t7)
  BY Zenon DEF Compiler!Token
<1>3. Set(t8) /\ Set(t9) /\ Set(t10) /\ Set(t11) /\ Set(t12) /\ Set(t13)
  BY Zenon DEF Compiler!Token
<1> HIDE DEF tokens, Set, t1, t2, t3, t4, t5, t6, t7, t8, t9, t10, t11, t12, t13
<1>4. DOMAIN tokens = 1..13
  BY <1>1
<1>5. ASSUME NEW i \in 1..13 PROVE Set(tokens[i])
  BY <1>1, <1>2, <1>3
<1> QED
  BY Zenon, <1>4, <1>5 DEF tokens, Set

(* So the map of a [server] section has all the names.                     *)
LEMMA ServerKeys ==
    ASSUME NEW sec, sec.section = "server"
    PROVE  DOMAIN Compiler!ConfigWriter(sec) = ServerNames
<1> DEFINE tokens == Compiler!configTokens("server")
<1>1. DOMAIN Compiler!ConfigWriter(sec) =
          {k \in ServerNames : Compiler!Lines(sec, k) # {}} \cup {tokens[i].name : i \in Compiler!Defaulted(sec)}
  BY Zenon DEF Compiler!ConfigWriter, Compiler!Keys, ServerNames
<1>2. \A i \in DOMAIN tokens : tokens[i].required /\ tokens[i].def # ""
  BY Zenon, ServerTokens
<1>3. Compiler!Undefined(sec) = {} /\ Compiler!Missing(sec) \subseteq DOMAIN tokens
  BY Zenon, <1>2 DEF Compiler!Undefined, Compiler!Missing
<1>4. Compiler!Defaulted(sec) = Compiler!Missing(sec)
  BY Zenon, <1>3 DEF Compiler!Defaulted
<1>5. ServerNames = {tokens[i].name : i \in DOMAIN tokens}
  BY Zenon DEF ServerNames, Compiler!Range
<1>6. ASSUME NEW i \in DOMAIN tokens, Compiler!Lines(sec, tokens[i].name) = {}
      PROVE  i \in Compiler!Missing(sec)
  <2>1. \A p \in Compiler!Range(sec.body) : p[1] # tokens[i].name
    BY Zenon, <1>6 DEF Compiler!Lines, Compiler!Range
  <2> QED
    BY Zenon, <1>2, <2>1 DEF Compiler!Missing
<1> HIDE DEF tokens
<1> QED
  BY <1>1, <1>3, <1>4, <1>5, <1>6

\* An object made of good parts is good, and so is a container it is put into.
Sound(o) == o \in Objects /\ Outlived(o, load - 1)

(* An object made of good parts, by this file, is good.                    *)
LEMMA SoundObject ==
    ASSUME load \in Nat, NEW parts, \A p \in parts : Sound(p)
    PROVE  Sound(Compiler!Object(parts)) /\ Compiler!Object(parts).made = load
<1> DEFINE from == {load} \cup UNION {p.from : p \in parts}
<1>1. Compiler!Object(parts) = [made |-> load, from |-> from]
  BY Zenon DEF Compiler!Object
<1>2. \A x \in from : x \in Nat /\ x..(load - 1) \subseteq rejected
  <2>1. \A x \in load..(load - 1) : FALSE
    OBVIOUS
  <2>2. \A p \in parts : p.from \subseteq Nat /\ \A x \in p.from : x..(load - 1) \subseteq rejected
    BY Zenon DEF Sound, Objects, Outlived
  <2> QED
    BY Zenon, <2>1, <2>2
<1> HIDE DEF from
<1>3. [made |-> load, from |-> from] \in Objects
  BY Zenon, <1>2 DEF Objects
<1> QED
  BY <1>1, <1>2, <1>3 DEF Sound, Outlived

(* A part that is looked up is good.                                       *)
LEMMA SoundPart ==
    ASSUME NEW container, Contained(container), NEW map, NEW key
    PROVE  \A p \in Compiler!Part(container, map, key) : Sound(p)
BY Zenon DEF Contained, Compiler!Part, Sound

(* Inserting an object made of good parts leaves a good container.         *)
LEMMA SoundInsert ==
    ASSUME load \in Nat, NEW container, Contained(container), NEW map, NEW parts, \A p \in parts : Sound(p)
    PROVE  Contained(Compiler!insert(container, Compiler!Entry(map, parts)))
<1> DEFINE o == Compiler!Object(parts)
           entry == Compiler!Entry(map, parts)
<1>1. Sound(o)
  BY Zenon, SoundObject
<1>2. \A k \in DOMAIN entry : entry[k] = o
  BY Zenon DEF Compiler!Entry
<1> HIDE DEF o, entry
<1>3. /\ DOMAIN Compiler!insert(container, entry) = DOMAIN container \cup DOMAIN entry
      /\ \A k \in DOMAIN container : Compiler!insert(container, entry)[k] = container[k]
      /\ \A k \in DOMAIN entry : k \notin DOMAIN container => Compiler!insert(container, entry)[k] = entry[k]
  BY Zenon DEF Compiler!insert
<1>4. Contained(Compiler!insert(container, entry))
  BY Zenon, <1>1, <1>2, <1>3 DEF Contained, Sound
<1> QED
  BY Zenon, <1>4 DEF entry

(* What does not change stays good.                                        *)
LEMMA ContainedKept ==
    ASSUME UNCHANGED <<load, rejected>>
    PROVE  /\ databases' = databases /\ Contained(databases) => Contained(databases)'
           /\ datasources' = datasources /\ Contained(datasources) => Contained(datasources)'
           /\ matchers' = matchers /\ Contained(matchers) => Contained(matchers)'
           /\ newCore' = newCore /\ newSettings' = newSettings /\ phase' = phase /\ CompileNew => CompileNew'
<1>1. \A o, n : Outlived(o, n)' <=> Outlived(o, n)
  BY Zenon DEF Outlived
<1>2. databases' = databases /\ Contained(databases) => Contained(databases)'
  BY Zenon DEF Contained, Outlived
<1>3. datasources' = datasources /\ Contained(datasources) => Contained(datasources)'
  BY Zenon DEF Contained, Outlived
<1>4. matchers' = matchers /\ Contained(matchers) => Contained(matchers)'
  BY DEF Contained, Outlived
<1>5. newCore' = newCore /\ newSettings' = newSettings /\ phase' = phase /\ CompileNew => CompileNew'
  BY Zenon DEF CompileNew, Outlived
<1> QED
  BY Zenon, <1>2, <1>3, <1>4, <1>5

(* What a section makes is of this file, and its parts are good.           *)
LEMMA CompileCreate ==
    ASSUME CompileInv, phase = "parsing", NEW sec, Compiler!Create(sec, Compiler!ConfigWriter(sec)),
           UNCHANGED <<phase, core, settings, load, rejected>>
    PROVE  CompileInv'
<1> DEFINE map == Compiler!ConfigWriter(sec)
<1>1. load \in Nat /\ CompileParts /\ CompileNew /\ CompileOld'
  BY Zenon, CompileKept DEF CompileInv
<1>2. Contained(databases) /\ Contained(datasources) /\ Contained(matchers)
  BY Zenon, <1>1 DEF CompileParts
<1>3. /\ \A key : \A p \in Compiler!Part(databases, map, key) : Sound(p)
      /\ \A key : \A p \in Compiler!Part(datasources, map, key) : Sound(p)
      /\ \A key : \A p \in Compiler!Part(matchers, map, key) : Sound(p)
  BY Zenon, <1>2, SoundPart
<1> HIDE DEF map
<1>4. CASE sec.section = "database" /\ databases' = Compiler!insert(databases, Compiler!Entry(map, {}))
           /\ UNCHANGED <<datasources, matchers, newCore, newSettings>>
  <2>1. Contained(Compiler!insert(databases, Compiler!Entry(map, {})))
    BY Zenon, <1>1, <1>2, SoundInsert
  <2>2. Contained(databases)'
    BY Zenon, <1>4, <2>1 DEF Contained, Outlived
  <2>3. CompileParts' /\ CompileNew'
    BY ZenonT(60), <1>1, <1>2, <1>4, <2>2, ContainedKept DEF CompileParts
  <2> QED
    BY Zenon, <1>1, <2>3 DEF CompileInv
<1>5. ASSUME NEW parts, \A p \in parts : Sound(p), datasources' = Compiler!insert(datasources, Compiler!Entry(map, parts)),
             UNCHANGED <<databases, matchers, newCore, newSettings>>
      PROVE  CompileInv'
  <2>1. Contained(Compiler!insert(datasources, Compiler!Entry(map, parts)))
    BY Zenon, <1>1, <1>2, <1>5, SoundInsert
  <2>2. Contained(datasources)'
    BY Zenon, <1>5, <2>1 DEF Contained, Outlived
  <2>3. CompileParts' /\ CompileNew'
    BY ZenonT(60), <1>1, <1>2, <1>5, <2>2, ContainedKept DEF CompileParts
  <2> QED
    BY <1>1, <2>3 DEF CompileInv
<1>6. ASSUME NEW parts, \A p \in parts : Sound(p), matchers' = Compiler!insert(matchers, Compiler!Entry(map, parts)),
             UNCHANGED <<databases, datasources, newCore, newSettings>>
      PROVE  CompileInv'
  <2>1. Contained(Compiler!insert(matchers, Compiler!Entry(map, parts)))
    BY Zenon, <1>1, <1>2, <1>6, SoundInsert
  <2>2. Contained(matchers)'
    BY <1>6, <2>1 DEF Contained, Outlived
  <2>3. CompileParts' /\ CompileNew'
    BY Zenon, <1>1, <1>2, <1>6, <2>2, ContainedKept DEF CompileParts
  <2> QED
    BY <1>1, <2>3 DEF CompileInv
<1>7. ASSUME NEW parts, \A p \in parts : Sound(p), newCore' = Append(newCore, Compiler!Object(parts)),
             UNCHANGED <<databases, datasources, matchers, newSettings>>
      PROVE  CompileInv'
  <2> DEFINE o == Compiler!Object(parts)
  <2>1. o \in Objects /\ o.made = load /\ Outlived(o, load - 1)
    BY Zenon, <1>1, <1>7, SoundObject DEF Sound
  <2>2. newCore \in Seq(Objects)
    BY Zenon, <1>1 DEF CompileNew
  <2>3. newCore' = Append(newCore, o)
    BY Zenon, <1>7
  <2> HIDE DEF o
  <2>4. /\ newCore' \in Seq(Objects)
        /\ \A i \in DOMAIN newCore' : newCore'[i] = o \/ (i \in DOMAIN newCore /\ newCore'[i] = newCore[i])
    BY <2>1, <2>2, <2>3
  <2>5. \A i \in DOMAIN newCore' : newCore'[i].made = load /\ Outlived(newCore'[i], load - 1)
    BY Zenon, <1>1, <2>1, <2>4 DEF CompileNew
  <2>6. CompileNew'
    BY Zenon, <1>1, <1>7, <2>4, <2>5 DEF CompileNew, Outlived
  <2>7. CompileParts'
    BY <1>1, <1>2, <1>7, ContainedKept DEF CompileParts
  <2> QED
    BY Zenon, <1>1, <2>6, <2>7 DEF CompileInv
<1>8. CASE sec.section = "server" /\ Compiler!copyVals(map) /\ UNCHANGED <<databases, datasources, matchers, newCore>>
  <2> DEFINE entries == [k \in DOMAIN map |-> [val |-> map[k], made |-> load]]
  <2>1. newSettings' = Compiler!insert(newSettings, entries)
    BY Zenon, <1>8 DEF Compiler!copyVals
  <2>2. DOMAIN entries = ServerNames /\ \A k \in DOMAIN entries : entries[k].made = load
    BY Zenon, <1>8, ServerKeys DEF map
  <2> HIDE DEF entries
  <2>3. /\ DOMAIN newSettings' = DOMAIN newSettings \cup ServerNames
        /\ \A k \in DOMAIN newSettings' : \/ newSettings'[k] = newSettings[k] /\ k \in DOMAIN newSettings
                                          \/ newSettings'[k] = entries[k] /\ k \in DOMAIN entries
    BY Zenon, <2>1, <2>2 DEF Compiler!insert
  <2>4. DOMAIN newSettings' = ServerNames
    BY Zenon, <1>1, <2>3 DEF CompileNew
  <2>5. \A k \in DOMAIN newSettings' : newSettings'[k].made = load
    BY Zenon, <1>1, <2>2, <2>3 DEF CompileNew
  <2>6. CompileNew'
    BY Zenon, <1>1, <1>8, <2>4, <2>5 DEF CompileNew, Outlived, ServerNames, Compiler!Range
  <2>7. CompileParts'
    BY ZenonT(60), <1>1, <1>2, <1>8, ContainedKept DEF CompileParts
  <2> QED
    BY <1>1, <2>6, <2>7 DEF CompileInv
<1>9. CASE sec.section = "policy" /\ UNCHANGED <<databases, datasources, matchers, newSettings>>
           /\ newCore' = Append(newCore, Compiler!Object(
                  Compiler!Part(matchers, map, "match")
                  \cup IF Compiler!getVal(map, "type") = "greylist" THEN Compiler!Part(datasources, map, "datasource") ELSE {}))
  BY SMTT(60), <1>3, <1>7, <1>9
<1>10. CASE sec.section = "datasource" /\ UNCHANGED <<databases, matchers, newCore, newSettings>>
            /\ datasources' = Compiler!insert(datasources, Compiler!Entry(map, Compiler!Part(databases, map, "database")))
  BY ZenonT(60), <1>3, <1>5, <1>10
<1>11. CASE sec.section = "match" /\ UNCHANGED <<databases, datasources, newCore, newSettings>>
            /\ matchers' = Compiler!insert(matchers, Compiler!Entry(map, IF Compiler!getVal(map, "type") = "all" THEN {}
                                                     ELSE Compiler!Part(datasources, map, "datasource")))
  BY <1>3, <1>6, <1>11
<1> QED
  BY Zenon, <1>4, <1>8, <1>9, <1>10, <1>11 DEF map, Compiler!Create, Compiler!new, Compiler!containers

\* An error keeps the running configuration, and the containers.
LEMMA CompileThrow ==
    ASSUME CompileInv, phase = "parsing", Compiler!Throw, rejected \subseteq rejected',
           Contained(databases)', Contained(datasources)', Contained(matchers)', Emptied' \/ load \in rejected'
    PROVE  CompileInv'
<1>1. /\ phase' # "parsing" /\ newCore' = <<>> /\ newSettings' = Compiler!NoEntry
      /\ UNCHANGED <<core, settings, load>>
  BY Zenon DEF Compiler!Throw, Compiler!running, Compiler!file
<1>2. DOMAIN Compiler!NoEntry = {} /\ DOMAIN <<>> = {} /\ <<>> \in Seq(Objects)
  BY EmptyJoined DEF Compiler!NoEntry
<1>3. CompileOld'
  BY Zenon, <1>1, CompileKept
<1>4. CompileNew'
  BY Zenon, <1>1, <1>2 DEF CompileNew
<1>5. CompileParts'
  BY Zenon, <1>1 DEF CompileParts
<1> QED
  BY Zenon, <1>1, <1>3, <1>4, <1>5 DEF CompileInv

(* One more rejected file makes nothing worse.                             *)
LEMMA ContainedGrown ==
    ASSUME UNCHANGED <<load, databases, datasources, matchers>>, rejected \subseteq rejected', CompileParts
    PROVE  Contained(databases)' /\ Contained(datasources)' /\ Contained(matchers)'
<1>1. Contained(databases)'
  BY Zenon DEF CompileParts, Contained, Outlived
<1>2. Contained(datasources)'
  BY Zenon DEF CompileParts, Contained, Outlived
<1>3. Contained(matchers)'
  BY Zenon DEF CompileParts, Contained, Outlived
<1> QED
  BY Zenon, <1>1, <1>2, <1>3

(* A section makes its object, is skipped, or ends the file with an error. *)
LEMMA CompileParse ==
    ASSUME CompileInv, NEW sec, NEW isLast, Compiler!ParseSection(sec, isLast)
    PROVE  CompileInv'
<1>1. phase = "parsing"
  BY Zenon DEF Compiler!ParseSection
<1>2. CASE Compiler!Create(sec, Compiler!ConfigWriter(sec)) /\ UNCHANGED <<phase, core, settings, load, rejected>>
  BY Zenon, <1>1, <1>2, CompileCreate
<1>3. CASE UNCHANGED <<databases, datasources, matchers, newCore, newSettings, phase, core, settings, load, rejected>>
  <2>1. CompileParts' /\ CompileNew'
    BY Zenon, <1>3, ContainedKept DEF CompileInv, CompileParts, Emptied
  <2> QED
    BY Zenon, <1>3, <2>1, CompileKept DEF CompileInv
<1>4. CASE Compiler!Throw /\ rejected' = rejected \cup {load} /\ UNCHANGED <<databases, datasources, matchers>>
  <2>1. load' = load
    BY Zenon, <1>4 DEF Compiler!Throw, Compiler!file
  <2> QED
    BY Zenon, <1>1, <1>4, <2>1, CompileThrow, ContainedGrown DEF CompileInv
<1> QED
  BY Zenon, <1>2, <1>3, <1>4 DEF Compiler!ParseSection, Compiler!containers, Compiler!new, Compiler!running

(* A file parsed to its end replaces the configuration and empties the     *)
(* containers.                                                             *)
LEMMA CompileFinish ==
    ASSUME CompileInv, Compiler!Finish
    PROVE  CompileInv'
<1>1. /\ phase = "parsing" /\ rejected' = rejected
      /\ databases' = Compiler!NoEntry /\ datasources' = Compiler!NoEntry /\ matchers' = Compiler!NoEntry
  BY Zenon DEF Compiler!Finish
<1>2. DOMAIN Compiler!NoEntry = {} /\ DOMAIN <<>> = {} /\ <<>> \in Seq(Objects)
  BY EmptyJoined DEF Compiler!NoEntry
<1>3. Emptied' /\ Contained(databases)' /\ Contained(datasources)' /\ Contained(matchers)'
  BY Zenon, <1>1, <1>2 DEF Emptied, Contained
<1>4. CASE Compiler!Throw
  BY Zenon, <1>1, <1>3, <1>4, CompileThrow
<1>5. CASE /\ phase' = "running" /\ core' = newCore /\ settings' = newSettings
           /\ newCore' = <<>> /\ newSettings' = Compiler!NoEntry /\ load' = load
  <2>1. CompileNew' /\ CompileParts'
    BY Zenon, <1>2, <1>3, <1>5 DEF CompileNew, CompileParts
  <2>2. /\ \A i \in DOMAIN core' : core'[i].made = load /\ Outlived(core'[i], load - 1)
        /\ \A k \in DOMAIN settings' : settings'[k].made = load
        /\ DOMAIN settings' \in {{}, ServerNames} /\ load \in Nat
    BY Zenon, <1>5 DEF CompileInv, CompileNew
  <2>3. \A i \in DOMAIN core' : \A x \in core'[i].from : x..(load - 1) \subseteq rejected'
    BY Zenon, <1>1, <2>2 DEF Outlived
  <2>4. CompileOld'
    BY ZenonT(60), <2>2, <2>3 DEF CompileOld, Outlived, ServerNames, Compiler!Range
  <2> QED
    BY Zenon, <1>5, <2>1, <2>2, <2>4 DEF CompileInv
<1> QED
  BY Zenon, <1>4, <1>5 DEF Compiler!Finish, Compiler!file

\* The file before the one that is opened now was rejected, or left nothing.
LEMMA CompileReload ==
    ASSUME CompileInv, Compiler!Reload
    PROVE  CompileInv'
<1>1. /\ phase = "running" /\ load' = load + 1 /\ load \in Nat /\ rejected \subseteq rejected'
      /\ phase' = "running" => load' \in rejected'
      /\ UNCHANGED <<databases, datasources, matchers, newCore, newSettings, core, settings>>
  BY Zenon DEF CompileInv, Compiler!Reload, Compiler!containers, Compiler!new, Compiler!running
<1>2. newCore = <<>> /\ DOMAIN newSettings = {} /\ newCore \in Seq(Objects) /\ (Emptied \/ load \in rejected)
  BY Zenon, <1>1 DEF CompileInv, CompileNew, CompileParts
<1>3. CompileNew' /\ CompileOld'
  <2>1. DOMAIN <<>> = {}
    OBVIOUS
  <2> QED
    BY Zenon, <1>1, <1>2, <2>1, CompileKept DEF CompileNew
<1>4. ASSUME NEW o, Sound(o), load \in rejected PROVE \A x \in o.from : x..load \subseteq rejected'
  <2>1. ASSUME NEW x \in o.from, NEW y \in x..load PROVE y \in rejected
    <3>1. x \in Nat
      BY Zenon, <1>4 DEF Sound, Objects
    <3>2. y = load \/ y \in x..(load - 1)
      BY <1>1, <2>1, <3>1
    <3> QED
      BY Zenon, <1>4, <3>2 DEF Sound, Outlived
  <2> QED
    BY Zenon, <1>1, <2>1
<1>5. load' - 1 = load
  BY <1>1
<1>6. Contained(databases)'
  <2>1. ASSUME NEW k \in DOMAIN databases
        PROVE  databases[k] \in Objects /\ \A x \in databases[k].from : x..load \subseteq rejected'
    <3>1. Sound(databases[k])
      BY Zenon DEF CompileInv, CompileParts, Contained, Sound
    <3> QED
      BY ZenonT(60), <1>2, <1>4, <3>1 DEF Emptied, Sound
  <2> QED
    BY Zenon, <1>1, <1>5, <2>1 DEF Contained, Outlived
<1>7. Contained(datasources)'
  <2>1. ASSUME NEW k \in DOMAIN datasources
        PROVE  datasources[k] \in Objects /\ \A x \in datasources[k].from : x..load \subseteq rejected'
    <3>1. Sound(datasources[k])
      BY Zenon DEF CompileInv, CompileParts, Contained, Sound
    <3> QED
      BY Zenon, <1>2, <1>4, <3>1 DEF Emptied, Sound
  <2> QED
    BY Zenon, <1>1, <1>5, <2>1 DEF Contained, Outlived
<1>8. Contained(matchers)'
  <2>1. ASSUME NEW k \in DOMAIN matchers
        PROVE  matchers[k] \in Objects /\ \A x \in matchers[k].from : x..load \subseteq rejected'
    <3>1. Sound(matchers[k])
      BY Zenon DEF CompileInv, CompileParts, Contained, Sound
    <3> QED
      BY Zenon, <1>2, <1>4, <3>1 DEF Emptied, Sound
  <2> QED
    BY Zenon, <1>1, <1>5, <2>1 DEF Contained, Outlived
<1> QED
  BY <1>1, <1>3, <1>6, <1>7, <1>8 DEF CompileInv, CompileParts

(* Every step of the compiler keeps the invariant.                         *)
LEMMA CompileStep ==
    ASSUME CompileInv, [Compiler!Next]_Compiler!vars
    PROVE  CompileInv'
<1>1. CASE UNCHANGED Compiler!vars
  <2>1. UNCHANGED <<databases, datasources, matchers, newCore, newSettings, phase, core, settings, load, rejected>>
    BY Zenon, <1>1 DEF Compiler!vars, Compiler!containers, Compiler!new, Compiler!running, Compiler!file
  <2>2. CompileParts' /\ CompileNew'
    BY Zenon, <2>1, ContainedKept DEF CompileInv, CompileParts, Emptied
  <2> QED
    BY Zenon, <2>1, <2>2, CompileKept DEF CompileInv
<1> QED
  BY Zenon, <1>1, CompileFinish, CompileReload, CompileParse DEF Compiler!Next, Compiler!Done

(* The invariant has the three properties.                                 *)
LEMMA CompileConsequence ==
    ASSUME CompileInv
    PROVE  Compiler!OneConfiguration /\ Compiler!OldOnlyAfterReject /\ Compiler!SettingsWhole
<1>1. PICK x \in Nat : /\ \A i \in DOMAIN core : core[i].made = x /\ Outlived(core[i], x - 1)
                       /\ \A k \in DOMAIN settings : settings[k].made = x
  BY Zenon DEF CompileInv, CompileOld
<1>2. Compiler!OneConfiguration
  BY Zenon, <1>1 DEF Compiler!OneConfiguration
<1>3. Compiler!OldOnlyAfterReject
  BY Zenon, <1>1 DEF Compiler!OldOnlyAfterReject, Compiler!Range, Outlived
<1>4. Compiler!SettingsWhole
  BY Zenon DEF Compiler!SettingsWhole, CompileInv, CompileOld, ServerNames
<1> QED
  BY Zenon, <1>2, <1>3, <1>4

(* The server runs with one file's modules and settings at a time, a       *)
(* module has parts of an earlier file only if every file since was        *)
(* rejected, and the settings are whole - for any sections, files and      *)
(* reloads (System::run, System::compileConfig, Parser::parse).            *)
THEOREM OneConfigurationRuns ==
    Compiler!Spec => [](Compiler!OneConfiguration /\ Compiler!OldOnlyAfterReject /\ Compiler!SettingsWhole)
<1>1. CompileInv /\ [Compiler!Next]_Compiler!vars => CompileInv'
  BY Zenon, CompileStep
<1>2. CompileInv => Compiler!OneConfiguration /\ Compiler!OldOnlyAfterReject /\ Compiler!SettingsWhole
  BY Zenon, CompileConsequence
<1> QED
  BY <1>1, <1>2, CompileInit, PTL DEF Compiler!Spec

-----------------------------------------------------------------------------
(* A future of the thread pools: Future.tla.                               *)
CONSTANTS Waiter
VARIABLES m_ready, m_result, m_is_cancelled, m_executing, task, canceller, waiter, ran
Result == INSTANCE Future

FutureInv ==
    /\ waiter \in [Waiter -> {"idle", "waiting", "value"}]
    /\ m_ready => ran /\ m_result = "value" /\ task \in {"end", "done"}
    /\ task \notin {"queued", "done"} => m_executing
    /\ \A w \in Waiter : waiter[w] = "value" => m_ready
    /\ task = "set" => ran
    /\ task \in {"end", "done"} => m_ready \/ m_is_cancelled
    /\ canceller \in {"executing", "false"} => m_ready

(* The task has not begun.                                                 *)
LEMMA FutureInit == Result!Init => FutureInv
  BY Zenon DEF Result!Init, FutureInv

(* The worker, the one that cancels and those that wait keep the           *)
(* invariant, whatever flag each reads in between.                         *)
LEMMA FutureStep ==
    ASSUME FutureInv, [Result!Next]_Result!vars
    PROVE  FutureInv'
<1> USE DEF FutureInv
<1>1. CASE Result!Begin \/ Result!is_cancelled \/ Result!Call
  BY <1>1 DEF Result!Begin, Result!is_cancelled, Result!Call
<1>2. CASE Result!set_value \/ Result!End
  BY <1>2 DEF Result!set_value, Result!End
<1>3. CASE Result!cancel
  BY Zenon, <1>3 DEF Result!cancel
<1>4. ASSUME NEW w \in Waiter, Result!Wait(w) \/ Result!Return(w) \/ Result!TimeOut(w)
      PROVE  FutureInv'
  BY <1>4 DEF Result!Wait, Result!Return, Result!TimeOut
<1>5. CASE UNCHANGED Result!vars
  BY Zenon, <1>5 DEF Result!vars
<1> QED
  BY ZenonT(60), <1>1, <1>2, <1>3, <1>4, <1>5 DEF Result!Next

(* The invariant says what a future's value is.                            *)
LEMMA FutureConsequence == FutureInv => Result!FutureValue
  BY Zenon DEF FutureInv, Result!FutureValue

(* A future whose task has returned has the value of its function or is    *)
(* cancelled, and one whose function threw is never ready, for any number  *)
(* of waiting threads (future_impl, future_impl_task_func).                *)
THEOREM FutureValueKept == Result!Spec => []Result!FutureValue
  BY FutureInit, FutureStep, FutureConsequence, PTL DEF Result!Spec
=============================================================================
