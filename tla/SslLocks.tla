------------------------------ MODULE SslLocks ------------------------------
(***************************************************************************)
(* src/src/Sockets-2.3.5/SSLInitializer.cpp: the locks OpenSSL asks for by *)
(* number, made on first use and kept in a map that a mutex, also made on  *)
(* first use, protects.  TcpSocket's static SSLInitializer is constructed  *)
(* before main starts a thread; its RAND_write_file is the first to ask.   *)
(***************************************************************************)
EXTENDS Naturals

CONSTANTS
    Caller,     \* threads that use SSL sockets
    Lock,       \* OpenSSL's lock numbers
    MaxLocks    \* bound on the calls of the callback that lock

NoMutex == 0

VARIABLES
    twice,         \* history: a second mutex was made for the map
    m_mmap_mutex,  \* the mutex of the map, or NoMutex
    m_mmap,        \* lock number -> mutex, NoMutex when not made
    made,          \* mutexes made
    holder,        \* the pairs of a locked mutex and the thread that holds it
    call,          \* where each thread's callback is
    arg,           \* its arguments: [mode, n]
    mine,          \* the mutex it got from MMapMutex, then the one from the map
    owns,          \* lock numbers a thread has locked
    locks

sslVars == <<twice, m_mmap_mutex, m_mmap, made, holder, call, arg, mine, owns, locks>>

New == made + 1
Free(m) == \A t \in Caller : <<m, t>> \notin holder

\* SSLInitializer(): if RAND_file_name found a name, RAND_write_file and
\* RAND_load_file take and release a lock, so that the callback has run when
\* threads start.
Construct ==
    /\ twice = FALSE
    /\ \/ /\ m_mmap_mutex = 1 /\ made = 2
          /\ \E rand \in Lock : m_mmap = [n \in Lock |-> IF n = rand THEN 2 ELSE NoMutex]
       \/ m_mmap_mutex = NoMutex /\ made = 0 /\ m_mmap = [n \in Lock |-> NoMutex]

SslInit ==
    /\ Construct
    /\ holder = {}
    /\ call = [t \in Caller |-> "ssl"]
    /\ arg = [t \in Caller |-> [mode |-> "unlock", n |-> 0]]
    /\ mine = [t \in Caller |-> NoMutex]
    /\ owns = [t \in Caller |-> {}]
    /\ locks = 0

----------------------------------------------------------------------------
\* OpenSSL locks a number the thread does not have, or unlocks one it has.
SSL_locking_function(t) ==
    /\ call[t] = "ssl"
    /\ \/ /\ locks < MaxLocks /\ locks' = locks + 1
          /\ \E n \in Lock \ owns[t] : arg' = [arg EXCEPT ![t] = [mode |-> "lock", n |-> n]]
       \/ /\ \E n \in owns[t] : arg' = [arg EXCEPT ![t] = [mode |-> "unlock", n |-> n]]
          /\ UNCHANGED locks
    /\ call' = [call EXCEPT ![t] = IF m_mmap_mutex = NoMutex THEN "new" ELSE "get"]
    /\ UNCHANGED <<twice, m_mmap_mutex, m_mmap, made, holder, mine, owns>>

\* MMapMutex: it was NULL when tested.
NewMMapMutex(t) ==
    /\ call[t] = "new"
    /\ m_mmap_mutex' = New
    /\ made' = New
    /\ twice' = (twice \/ m_mmap_mutex # NoMutex)
    /\ call' = [call EXCEPT ![t] = "get"]
    /\ UNCHANGED <<m_mmap, holder, arg, mine, owns, locks>>

\* return *m_mmap_mutex, read again.
MMapMutex(t) ==
    /\ call[t] = "get"
    /\ mine' = [mine EXCEPT ![t] = m_mmap_mutex]
    /\ call' = [call EXCEPT ![t] = "enter"]
    /\ UNCHANGED <<twice, m_mmap_mutex, m_mmap, made, holder, arg, owns, locks>>

EnterUnlocked(t) ==
    /\ call[t] = "enter"
    /\ call' = [call EXCEPT ![t] = "map"]
    /\ UNCHANGED <<twice, m_mmap_mutex, m_mmap, made, holder, arg, mine, owns, locks>>

\* Lock lock(MMapMutex()).
EnterMap(t) ==
    /\ call[t] = "enter"
    /\ Free(mine[t])
    /\ holder' = holder \cup {<<mine[t], t>>}
    /\ call' = [call EXCEPT ![t] = "map"]
    /\ UNCHANGED <<twice, m_mmap_mutex, m_mmap, made, arg, mine, owns, locks>>

\* find: a number that is not in the map gets a new mutex.
MMap(t) ==
    /\ call[t] = "map"
    /\ IF m_mmap[arg[t].n] = NoMutex
       THEN call' = [call EXCEPT ![t] = "insert"]
       ELSE call' = [call EXCEPT ![t] = "leave"]
    /\ UNCHANGED <<twice, m_mmap_mutex, m_mmap, made, holder, arg, mine, owns, locks>>

InsertMutex(t) ==
    /\ call[t] = "insert"
    /\ m_mmap' = [m_mmap EXCEPT ![arg[t].n] = New]
    /\ made' = New
    /\ call' = [call EXCEPT ![t] = "leave"]
    /\ UNCHANGED <<twice, m_mmap_mutex, holder, arg, mine, owns, locks>>

\* mutex = MMap()[n], and the end of the scope of lock.
LeaveMap(t) ==
    /\ call[t] = "leave"
    /\ holder' = holder \ {<<mine[t], t>>}
    /\ mine' = [mine EXCEPT ![t] = m_mmap[arg[t].n]]
    /\ call' = [call EXCEPT ![t] = arg[t].mode]
    /\ UNCHANGED <<twice, m_mmap_mutex, m_mmap, made, arg, owns, locks>>

\* mutex->Lock() or mutex->Unlock(): pthread_mutex_unlock checks no owner.
LockMutex(t) ==
    /\ call[t] = "lock"
    /\ Free(mine[t])
    /\ holder' = holder \cup {<<mine[t], t>>}
    /\ owns' = [owns EXCEPT ![t] = @ \cup {arg[t].n}]
    /\ call' = [call EXCEPT ![t] = "ssl"]
    /\ UNCHANGED <<twice, m_mmap_mutex, m_mmap, made, arg, mine, locks>>

UnlockMutex(t) ==
    /\ call[t] = "unlock"
    /\ holder' = holder \ ({mine[t]} \X Caller)
    /\ owns' = [owns EXCEPT ![t] = @ \ {arg[t].n}]
    /\ call' = [call EXCEPT ![t] = "ssl"]
    /\ UNCHANGED <<twice, m_mmap_mutex, m_mmap, made, arg, mine, locks>>

SslNext ==
    \E t \in Caller :
        \/ SSL_locking_function(t) \/ NewMMapMutex(t) \/ MMapMutex(t) \/ EnterMap(t)
        \/ MMap(t) \/ InsertMutex(t) \/ LeaveMap(t) \/ LockMutex(t) \/ UnlockMutex(t)

SslSpec == SslInit /\ [][SslNext]_sslVars

----------------------------------------------------------------------------
InMap(t) == call[t] \in {"map", "insert", "leave"}

(***************************************************************************)
(* Two threads never hold the same OpenSSL lock, never use the map at the  *)
(* same time, and a thread that holds a lock holds the mutex the map has   *)
(* for it - until a second mutex has been made for the map.  That happens  *)
(* only if the constructor found no name for a random file, so that the    *)
(* callback first runs in the threads, and two of them find no mutex; then *)
(* nothing keeps the threads apart (SSLInitializer::SSL_locking_function,  *)
(* MMapMutex).                                                             *)
(***************************************************************************)
LocksExclusive ==
    ~twice =>
        /\ \A s, t \in Caller : s # t => /\ owns[s] \cap owns[t] = {}
                                         /\ ~(InMap(s) /\ InMap(t))
        /\ \A t \in Caller : \A n \in owns[t] : <<m_mmap[n], t>> \in holder

-----------------------------------------------------------------------------
(* The inductive invariant of LocksExclusive, for one mutex of the map.    *)

Pc == {"ssl", "new", "get", "enter", "map", "insert", "leave", "lock", "unlock"}

SslTypeOK ==
    /\ twice \in BOOLEAN /\ m_mmap_mutex \in Nat /\ made \in Nat /\ m_mmap \in [Lock -> Nat]
    /\ holder \subseteq Nat \X Caller /\ call \in [Caller -> Pc] /\ mine \in [Caller -> Nat]
    /\ owns \in [Caller -> SUBSET Lock]
    /\ arg \in [Caller -> [mode : {"lock", "unlock"}, n : Lock \cup {0}]]
    /\ \A t \in Caller : call[t] # "ssl" => arg[t].n \in Lock

\* A lock has a mutex of its own, and nothing is there before the map's mutex.
MapInv ==
    /\ m_mmap_mutex <= made /\ \A n \in Lock : m_mmap[n] <= made
    /\ \A n \in Lock : m_mmap[n] # NoMutex => m_mmap[n] # m_mmap_mutex
    /\ \A n, k \in Lock : m_mmap[n] = m_mmap[k] /\ m_mmap[n] # NoMutex => n = k
    /\ \A m \in Nat, t \in Caller : <<m, t>> \in holder => m <= made
    /\ m_mmap_mutex = NoMutex => holder = {} /\ \A n \in Lock : m_mmap[n] = NoMutex

\* A mutex has one holder: the thread in the map, or the one that owns the lock.
HeldInv ==
    /\ \A m \in Nat : \A s, t \in Caller : <<m, s>> \in holder /\ <<m, t>> \in holder => s = t
    /\ \A t \in Caller : <<m_mmap_mutex, t>> \in holder <=> InMap(t)
    /\ \A t \in Caller : \A n \in Lock :
          n \in owns[t] <=> m_mmap[n] # NoMutex /\ <<m_mmap[n], t>> \in holder

\* What a thread knows on its way through the callback.
CallInv(t) ==
    /\ call[t] \in {"get", "enter"} => m_mmap_mutex # NoMutex
    /\ call[t] # "ssl" => (arg[t].mode = "unlock" <=> arg[t].n \in owns[t])
    /\ call[t] = "enter" \/ InMap(t) => mine[t] = m_mmap_mutex
    /\ call[t] = "insert" => m_mmap[arg[t].n] = NoMutex
    /\ call[t] = "leave" => m_mmap[arg[t].n] # NoMutex
    /\ call[t] \in {"lock", "unlock"} =>
          /\ mine[t] = m_mmap[arg[t].n] /\ mine[t] # NoMutex /\ call[t] = arg[t].mode

LocksKept == MapInv /\ HeldInv /\ \A t \in Caller : CallInv(t)
LocksInv == SslTypeOK /\ (~twice => LocksKept)
=============================================================================
