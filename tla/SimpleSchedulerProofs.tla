------------------------ MODULE SimpleSchedulerProofs ------------------------
(***************************************************************************)
(* Proofs about SimpleScheduler for any number of threads, tasks, workers  *)
(* and spare workers.  The argument counts threads by location: every      *)
(* action but notify_all moves one thread from one location to another, so *)
(* OccMove says how each count changes.  The first section is about the    *)
(* locks of OpenSSL (SslLocks), which the threads of a daemon also take.   *)
(***************************************************************************)
EXTENDS SimpleScheduler, SslLocks, FiniteSetTheorems, TLAPS

-----------------------------------------------------------------------------
(* The OpenSSL locks exclude each other for any number of threads, locks   *)
(* and calls, as long as the map has had one mutex.                        *)

(* Every step keeps the variables in their types.                          *)
LEMMA LockTypeStep ==
    ASSUME SslTypeOK, [SslNext]_sslVars
    PROVE  SslTypeOK'
<1> USE DEF SslTypeOK, Pc, New
<1>1. CASE UNCHANGED sslVars
  BY Zenon, <1>1 DEF sslVars
<1>2. ASSUME NEW t \in Caller, SSL_locking_function(t) PROVE SslTypeOK'
  BY <1>2 DEF SSL_locking_function
<1>3. ASSUME NEW t \in Caller, NewMMapMutex(t) PROVE SslTypeOK'
  BY <1>3 DEF NewMMapMutex
<1>4. ASSUME NEW t \in Caller, MMapMutex(t) PROVE SslTypeOK'
  BY Zenon, <1>4 DEF MMapMutex
<1>5. ASSUME NEW t \in Caller, EnterMap(t) PROVE SslTypeOK'
  BY <1>5 DEF EnterMap
<1>6. ASSUME NEW t \in Caller, MMap(t) PROVE SslTypeOK'
  BY Zenon, <1>6 DEF MMap
<1>7. ASSUME NEW t \in Caller, InsertMutex(t) PROVE SslTypeOK'
  <2>1. \A f \in [Lock -> Nat], x \in Lock, v \in Nat : [f EXCEPT ![x] = v] \in [Lock -> Nat]
    BY Zenon
  <2>2. made + 1 \in Nat /\ arg[t].n \in Lock
    BY <1>7 DEF InsertMutex
  <2>3. m_mmap' \in [Lock -> Nat] /\ made' \in Nat
    BY Zenon, <1>7, <2>1, <2>2 DEF InsertMutex
  <2> QED BY Zenon, <1>7, <2>3 DEF InsertMutex
<1>8. ASSUME NEW t \in Caller, LeaveMap(t) PROVE SslTypeOK'
  <2>1. arg[t].mode \in {"lock", "unlock"} /\ m_mmap[arg[t].n] \in Nat
    BY Zenon, <1>8 DEF LeaveMap
  <2>2. mine' \in [Caller -> Nat] /\ call' \in [Caller -> Pc]
    BY Zenon, <1>8, <2>1 DEF LeaveMap
  <2> QED BY Zenon, <1>8, <2>2 DEF LeaveMap
<1>9. ASSUME NEW t \in Caller, LockMutex(t) PROVE SslTypeOK'
  BY <1>9 DEF LockMutex
<1>10. ASSUME NEW t \in Caller, UnlockMutex(t) PROVE SslTypeOK'
  BY Zenon, <1>10 DEF UnlockMutex
<1> QED BY Zenon, <1>1, <1>2, <1>3, <1>4, <1>5, <1>6, <1>7, <1>8, <1>9, <1>10 DEF SslNext

(* A call, and reading the map's mutex, change nothing that is shared.     *)
LEMMA CallStep ==
    ASSUME SslTypeOK, LocksKept, NEW t \in Caller,
           SSL_locking_function(t) \/ MMapMutex(t) \/ MMap(t)
    PROVE  LocksKept'
<1> USE DEF NoMutex
<1>a. MapInv BY Zenon DEF LocksKept
<1>b. HeldInv BY Zenon DEF LocksKept
<1>c. \A s \in Caller : CallInv(s) BY Zenon DEF LocksKept
<1>1. UNCHANGED <<m_mmap_mutex, m_mmap, made, holder, owns>>
  BY Zenon DEF SSL_locking_function, MMapMutex, MMap
<1>2. \A s \in Caller : InMap(s)' <=> InMap(s)
  BY <1>a DEF SSL_locking_function, MMapMutex, MMap, InMap, SslTypeOK, MapInv
<1>3. MapInv' /\ HeldInv'
  BY Zenon, <1>1, <1>2, <1>a, <1>b DEF MapInv, HeldInv
<1>4. ASSUME NEW s \in Caller, s # t PROVE CallInv(s)'
  <2>1. call'[s] = call[s] /\ arg'[s] = arg[s] /\ mine'[s] = mine[s]
    BY Zenon, <1>4 DEF SSL_locking_function, MMapMutex, MMap, SslTypeOK
  <2> QED BY Zenon, <1>1, <2>1, <1>c DEF CallInv, InMap
<1>5. CallInv(t)'
  <2>1. CASE SSL_locking_function(t)
    <3>1. call'[t] = IF m_mmap_mutex = 0 THEN "new" ELSE "get"
      BY Zenon, <2>1 DEF SSL_locking_function, SslTypeOK
    <3>2. arg'[t].mode = "unlock" <=> arg'[t].n \in owns[t]
      BY <2>1 DEF SSL_locking_function, SslTypeOK
    <3> QED BY Zenon, <1>1, <3>1, <3>2, <1>c DEF CallInv, InMap
  <2>2. CASE MMapMutex(t)
    BY Zenon, <1>1, <2>2, <1>a, <1>c DEF MMapMutex, CallInv, InMap, MapInv, SslTypeOK
  <2>3. CASE MMap(t)
    BY Zenon, <1>1, <2>3, <1>c DEF MMap, CallInv, InMap, SslTypeOK
  <2> QED BY Zenon, <2>1, <2>2, <2>3
<1> QED BY Zenon, <1>3, <1>4, <1>5 DEF LocksKept

(* The first mutex of the map is made while no thread is past asking.      *)
LEMMA NewStep ==
    ASSUME SslTypeOK, LocksKept, NEW t \in Caller, NewMMapMutex(t), m_mmap_mutex = NoMutex
    PROVE  LocksKept'
<1> USE DEF NoMutex, New
<1>a. MapInv BY Zenon DEF LocksKept
<1>b. HeldInv BY Zenon DEF LocksKept
<1>c. \A s \in Caller : CallInv(s) BY Zenon DEF LocksKept
<1>1. /\ UNCHANGED <<m_mmap, holder, arg, mine, owns>>
      /\ m_mmap_mutex' = made + 1 /\ made' = made + 1 /\ made \in Nat
  BY Zenon DEF NewMMapMutex, SslTypeOK
<1>2. holder = {} /\ \A n \in Lock : m_mmap[n] = 0
  BY Zenon, <1>a DEF MapInv
<1>3. \A s \in Caller : call[s] \in {"ssl", "new"}
  <2> SUFFICES ASSUME NEW s \in Caller PROVE call[s] \in {"ssl", "new"}
    BY Zenon
  <2>1. call[s] \notin {"get", "enter"} /\ ~InMap(s)
    BY Zenon, <1>2, <1>b, <1>c DEF CallInv, HeldInv
  <2>2. call[s] \notin {"lock", "unlock"}
    BY Zenon, <1>2, <1>c DEF CallInv, SslTypeOK
  <2> QED BY Zenon, <2>1, <2>2 DEF SslTypeOK, Pc, InMap
<1>4. \A s \in Caller : call'[s] = IF s = t THEN "get" ELSE call[s]
  BY Zenon DEF NewMMapMutex, SslTypeOK
<1>5. MapInv'
  BY <1>1, <1>2 DEF MapInv
<1>6. HeldInv'
  <2>1. \A s \in Caller : ~InMap(s)'
    BY <1>3, <1>4 DEF InMap
  <2>2. \A s \in Caller : \A n \in Lock : n \notin owns[s]
    BY Zenon, <1>2, <1>b DEF HeldInv
  <2> QED BY Zenon, <1>1, <1>2, <2>1, <2>2 DEF HeldInv
<1>7. ASSUME NEW s \in Caller PROVE CallInv(s)'
  BY <1>1, <1>3, <1>4, <1>c DEF CallInv, InMap, NewMMapMutex
<1> QED BY Zenon, <1>5, <1>6, <1>7 DEF LocksKept

(* Entering the map needs its mutex, which nobody has.                     *)
LEMMA EnterStep ==
    ASSUME SslTypeOK, LocksKept, NEW t \in Caller, EnterMap(t)
    PROVE  LocksKept'
<1> USE DEF NoMutex
<1>a. MapInv BY Zenon DEF LocksKept
<1>b. HeldInv BY Zenon DEF LocksKept
<1>c. \A s \in Caller : CallInv(s) BY Zenon DEF LocksKept
<1>0. m_mmap_mutex # 0 /\ m_mmap_mutex \in Nat /\ m_mmap_mutex <= made
  BY Zenon, <1>a, <1>c DEF EnterMap, CallInv, MapInv, SslTypeOK
<1>1. UNCHANGED <<m_mmap_mutex, m_mmap, made, arg, mine, owns>> /\ mine[t] = m_mmap_mutex
  BY Zenon, <1>c DEF EnterMap, CallInv
<1>2. holder' = holder \cup {<<m_mmap_mutex, t>>} /\ \A s \in Caller : <<m_mmap_mutex, s>> \notin holder
  BY Zenon, <1>1 DEF EnterMap, Free
<1>3. \A s \in Caller : call'[s] = IF s = t THEN "map" ELSE call[s]
  BY Zenon DEF EnterMap, SslTypeOK
<1>4. MapInv'
  BY Zenon, <1>0, <1>1, <1>2, <1>a DEF MapInv
<1>5. HeldInv'
  <2>1. \A m \in Nat : \A r, s \in Caller : <<m, r>> \in holder' /\ <<m, s>> \in holder' => r = s
    BY Zenon, <1>2, <1>b DEF HeldInv
  <2>2. \A s \in Caller : <<m_mmap_mutex, s>> \in holder' <=> InMap(s)'
    BY Zenon, <1>2, <1>3, <1>b DEF HeldInv, InMap
  <2>3. \A n \in Lock : m_mmap[n] # m_mmap_mutex
    BY Zenon, <1>0, <1>a DEF MapInv
  <2>4. \A s \in Caller : \A n \in Lock : <<m_mmap[n], s>> \in holder' <=> <<m_mmap[n], s>> \in holder
    BY Zenon, <1>2, <2>3
  <2> QED BY Zenon, <1>1, <2>1, <2>2, <2>4, <1>b DEF HeldInv
<1>6. ASSUME NEW s \in Caller PROVE CallInv(s)'
  <2>1. CASE s = t
    BY <1>1, <1>3, <1>c, <2>1 DEF CallInv, InMap, EnterMap
  <2>2. CASE s # t
    BY ZenonT(60), <1>1, <1>3, <1>c, <2>2 DEF CallInv, InMap
  <2> QED BY Zenon, <2>1, <2>2
<1> QED BY Zenon, <1>4, <1>5, <1>6 DEF LocksKept

(* The thread in the map gives a lock a mutex that nobody has seen.        *)
LEMMA InsertStep ==
    ASSUME SslTypeOK, LocksKept, NEW t \in Caller, InsertMutex(t)
    PROVE  LocksKept'
<1> USE DEF NoMutex, New
<1>a. MapInv BY DEF LocksKept
<1>b. HeldInv BY DEF LocksKept
<1>c. \A s \in Caller : CallInv(s) BY DEF LocksKept
<1> DEFINE n == arg[t].n
<1>1. /\ UNCHANGED <<m_mmap_mutex, holder, arg, mine, owns>>
      /\ n \in Lock /\ m_mmap[n] = 0 /\ made' = made + 1 /\ made \in Nat
  BY Zenon, <1>c DEF InsertMutex, SslTypeOK, CallInv
<1>2. \A k \in Lock : m_mmap'[k] = IF k = n THEN made + 1 ELSE m_mmap[k]
  BY Zenon, <1>1 DEF InsertMutex, SslTypeOK
<1>3. \A s \in Caller : call'[s] = IF s = t THEN "leave" ELSE call[s]
  BY Zenon DEF InsertMutex, SslTypeOK
<1>4. \A k \in Lock : m_mmap[k] \in Nat
  BY Zenon DEF SslTypeOK
<1>0. m_mmap_mutex # 0 /\ m_mmap_mutex \in Nat
  BY Zenon, <1>a, <1>b DEF InsertMutex, InMap, MapInv, HeldInv, SslTypeOK
<1>5. MapInv'
  <2>1. m_mmap_mutex' <= made' /\ \A k \in Lock : m_mmap'[k] <= made'
    BY <1>0, <1>1, <1>2, <1>4, <1>a DEF MapInv
  <2>2. \A k \in Lock : m_mmap'[k] # 0 => m_mmap'[k] # m_mmap_mutex'
    BY <1>0, <1>1, <1>2, <1>4, <1>a DEF MapInv
  <2>3. \A k, l \in Lock : m_mmap'[k] = m_mmap'[l] /\ m_mmap'[k] # 0 => k = l
    BY <1>1, <1>2, <1>4, <1>a DEF MapInv
  <2>4. \A m \in Nat, s \in Caller : <<m, s>> \in holder' => m <= made'
    BY <1>1, <1>a DEF MapInv
  <2> QED BY Zenon, <1>0, <1>1, <2>1, <2>2, <2>3, <2>4 DEF MapInv
<1>6. HeldInv'
  <2>a. made + 1 \in Nat /\ ~(made + 1 <= made)
    BY <1>1
  <2>1. \A s \in Caller : n \notin owns[s] /\ <<made + 1, s>> \notin holder
    <3>1. \A s \in Caller : n \notin owns[s]
      BY Zenon, <1>1, <1>b DEF HeldInv
    <3>2. \A s \in Caller : <<made + 1, s>> \notin holder
      BY Zenon, <2>a, <1>a DEF MapInv
    <3> QED BY Zenon, <3>1, <3>2
  <2>2. \A s \in Caller : InMap(s)' <=> InMap(s)
    BY Zenon, <1>3 DEF InMap, InsertMutex
  <2>3. ASSUME NEW s \in Caller, NEW k \in Lock
        PROVE  k \in owns[s] <=> m_mmap'[k] # 0 /\ <<m_mmap'[k], s>> \in holder
    BY Zenon, <1>1, <1>2, <2>1, <1>b DEF HeldInv
  <2>4. /\ \A m \in Nat : \A r, s \in Caller : <<m, r>> \in holder' /\ <<m, s>> \in holder' => r = s
        /\ \A s \in Caller : <<m_mmap_mutex', s>> \in holder' <=> InMap(s)'
    BY Zenon, <1>1, <2>2, <1>b DEF HeldInv
  <2>5. owns' = owns /\ holder' = holder
    BY Zenon, <1>1
  <2> QED BY Zenon, <2>3, <2>4, <2>5 DEF HeldInv
<1>7. \A s \in Caller : s # t => call[s] # "insert"
  <2>1. <<m_mmap_mutex, t>> \in holder
    BY Zenon, <1>b DEF HeldInv, InMap, InsertMutex
  <2> SUFFICES ASSUME NEW s \in Caller, call[s] = "insert" PROVE s = t
    BY Zenon
  <2>2. <<m_mmap_mutex, s>> \in holder
    BY Zenon, <1>b DEF HeldInv, InMap
  <2> QED BY Zenon, <1>0, <1>b, <2>1, <2>2 DEF HeldInv
<1>8. ASSUME NEW s \in Caller PROVE CallInv(s)'
  <2>1. CASE s = t
    BY <1>1, <1>2, <1>3, <2>1, <1>c DEF CallInv, InMap, InsertMutex
  <2>2. CASE s # t
    <3>1. call'[s] = call[s] /\ (call[s] # "ssl" => arg[s].n \in Lock)
      BY Zenon, <1>3, <2>2 DEF SslTypeOK
    <3> QED BY <1>1, <1>2, <1>7, <2>2, <3>1, <1>c DEF CallInv, InMap
  <2> QED BY <2>1, <2>2
<1> QED BY <1>5, <1>6, <1>8 DEF LocksKept

(* Leaving the map gives its mutex back and keeps that of the lock.        *)
LEMMA LeaveStep ==
    ASSUME SslTypeOK, LocksKept, NEW t \in Caller, LeaveMap(t)
    PROVE  LocksKept'
<1> USE DEF NoMutex
<1>a. MapInv BY DEF LocksKept
<1>b. HeldInv BY DEF LocksKept
<1>c. \A s \in Caller : CallInv(s) BY DEF LocksKept
<1>0. m_mmap_mutex # 0
  BY Zenon, <1>a, <1>b DEF LeaveMap, InMap, MapInv, HeldInv
<1>1. UNCHANGED <<m_mmap_mutex, m_mmap, made, arg, owns>> /\ mine[t] = m_mmap_mutex
  BY Zenon, <1>c DEF LeaveMap, CallInv, InMap
<1>2. holder' = holder \ {<<m_mmap_mutex, t>>}
  BY Zenon, <1>1 DEF LeaveMap
<1>3. \A s \in Caller : /\ call'[s] = IF s = t THEN arg[t].mode ELSE call[s]
                        /\ mine'[s] = IF s = t THEN m_mmap[arg[t].n] ELSE mine[s]
  BY Zenon DEF LeaveMap, SslTypeOK
<1>4. arg[t].mode \in {"lock", "unlock"}
  BY Zenon DEF SslTypeOK
<1>5. MapInv'
  BY Zenon, <1>1, <1>2, <1>a DEF MapInv
<1>6. HeldInv'
  <2>1. \A m \in Nat : \A r, s \in Caller : <<m, r>> \in holder' /\ <<m, s>> \in holder' => r = s
    BY Zenon, <1>2, <1>b DEF HeldInv
  <2>2. \A s \in Caller : <<m_mmap_mutex, s>> \in holder' <=> InMap(s)'
    BY Zenon, <1>2, <1>3, <1>4, <1>b DEF HeldInv, InMap
  <2>3. \A k \in Lock : m_mmap[k] # m_mmap_mutex
    BY Zenon, <1>0, <1>a DEF MapInv
  <2>4. \A s \in Caller : \A k \in Lock : <<m_mmap[k], s>> \in holder' <=> <<m_mmap[k], s>> \in holder
    BY Zenon, <1>2, <2>3
  <2> QED BY Zenon, <1>1, <2>1, <2>2, <2>4, <1>b DEF HeldInv
<1>7. ASSUME NEW s \in Caller PROVE CallInv(s)'
  <2>1. CASE s = t
    BY <1>1, <1>3, <1>4, <1>c, <2>1 DEF CallInv, InMap, LeaveMap
  <2>2. CASE s # t
    BY <1>1, <1>3, <1>c, <2>2 DEF CallInv, InMap
  <2> QED BY <2>1, <2>2
<1> QED BY <1>5, <1>6, <1>7 DEF LocksKept

(* A lock is taken from nobody, and given back by its owner.               *)
LEMMA OwnStep ==
    ASSUME SslTypeOK, LocksKept, NEW t \in Caller, LockMutex(t) \/ UnlockMutex(t)
    PROVE  LocksKept'
<1> USE DEF NoMutex
<1>a. MapInv BY Zenon DEF LocksKept
<1>b. HeldInv BY Zenon DEF LocksKept
<1>c. \A s \in Caller : CallInv(s) BY Zenon DEF LocksKept
<1> DEFINE n == arg[t].n
           m == m_mmap[n]
<1>1. /\ UNCHANGED <<m_mmap_mutex, m_mmap, made, arg, mine>>
      /\ n \in Lock /\ mine[t] = m /\ m # 0 /\ m # m_mmap_mutex /\ m \in Nat
  BY <1>a, <1>c DEF LockMutex, UnlockMutex, CallInv, SslTypeOK, MapInv
<1>2. \A k \in Lock : m_mmap[k] = m => k = n
  BY Zenon, <1>1, <1>a DEF MapInv
<1>3. \A s \in Caller : call'[s] = IF s = t THEN "ssl" ELSE call[s]
  BY Zenon DEF LockMutex, UnlockMutex, SslTypeOK
<1>4. \A s \in Caller : InMap(s)' <=> InMap(s)
  BY Zenon, <1>3 DEF InMap, LockMutex, UnlockMutex
<1>5. MapInv'
  <2>1. m <= made /\ holder' \subseteq holder \cup {<<m, t>>}
    BY <1>1, <1>a DEF MapInv, SslTypeOK, LockMutex, UnlockMutex
  <2> QED BY Zenon, <1>1, <2>1, <1>a DEF MapInv
<1>6. \A s \in Caller : s # t => owns'[s] = owns[s]
  BY Zenon DEF LockMutex, UnlockMutex, SslTypeOK
<1>7. CASE LockMutex(t)
  <2>1. holder' = holder \cup {<<m, t>>} /\ \A s \in Caller : <<m, s>> \notin holder
    BY Zenon, <1>1, <1>7 DEF LockMutex, Free
  <2>2. owns'[t] = owns[t] \cup {n}
    BY Zenon, <1>7 DEF LockMutex, SslTypeOK
  <2>3. HeldInv'
    <3>1. \A k \in Nat : \A r, s \in Caller : <<k, r>> \in holder' /\ <<k, s>> \in holder' => r = s
      BY Zenon, <2>1, <1>b DEF HeldInv
    <3>2. \A s \in Caller : <<m_mmap_mutex, s>> \in holder' <=> InMap(s)'
      BY Zenon, <1>1, <1>4, <2>1, <1>b DEF HeldInv
    <3>3. ASSUME NEW s \in Caller, NEW k \in Lock
          PROVE  k \in owns'[s] <=> m_mmap[k] # 0 /\ <<m_mmap[k], s>> \in holder'
      BY Zenon, <1>1, <1>2, <1>6, <2>1, <2>2, <1>b DEF HeldInv
    <3> QED BY Zenon, <1>1, <3>1, <3>2, <3>3, <1>b DEF HeldInv
  <2>4. ASSUME NEW s \in Caller PROVE CallInv(s)'
    <3>1. CASE s = t
      BY Zenon, <1>1, <1>3, <3>1 DEF CallInv, InMap
    <3>2. CASE s # t
      BY <1>1, <1>3, <1>6, <1>c, <3>2 DEF CallInv, InMap
    <3> QED BY Zenon, <3>1, <3>2
  <2> QED BY Zenon, <1>5, <2>3, <2>4 DEF LocksKept
<1>8. CASE UnlockMutex(t)
  <2>1. holder' = holder \ ({m} \X Caller)
    BY Zenon, <1>1, <1>8 DEF UnlockMutex
  <2>2. owns'[t] = owns[t] \ {n} /\ n \in owns[t]
    BY Zenon, <1>8, <1>c DEF UnlockMutex, SslTypeOK, CallInv
  <2>3. ASSUME NEW s \in Caller, s # t PROVE n \notin owns[s]
    <3>1. <<m, t>> \in holder
      BY Zenon, <1>1, <2>2, <1>b DEF HeldInv
    <3>2. <<m, s>> \notin holder
      BY Zenon, <1>1, <2>3, <3>1, <1>b DEF HeldInv
    <3> QED BY Zenon, <1>1, <3>2, <1>b DEF HeldInv
  <2>4. HeldInv'
    <3>1. \A k \in Nat : \A r, s \in Caller : <<k, r>> \in holder' /\ <<k, s>> \in holder' => r = s
      BY Zenon, <2>1, <1>b DEF HeldInv
    <3>2. \A s \in Caller : <<m_mmap_mutex, s>> \in holder' <=> InMap(s)'
      BY Zenon, <1>1, <1>4, <2>1, <1>b DEF HeldInv
    <3>3. ASSUME NEW s \in Caller, NEW k \in Lock
          PROVE  k \in owns'[s] <=> m_mmap[k] # 0 /\ <<m_mmap[k], s>> \in holder'
      BY <1>1, <1>2, <1>6, <2>1, <2>2, <2>3, <1>b DEF HeldInv
    <3> QED BY <1>1, <3>1, <3>2, <3>3, <1>b DEF HeldInv
  <2>5. ASSUME NEW s \in Caller PROVE CallInv(s)'
    <3>1. CASE s = t
      BY <1>1, <1>3, <3>1 DEF CallInv, InMap
    <3>2. CASE s # t
      BY <1>1, <1>3, <1>6, <1>c, <3>2 DEF CallInv, InMap
    <3> QED BY <3>1, <3>2
  <2> QED BY <1>5, <2>4, <2>5 DEF LocksKept
<1> QED BY Zenon, <1>7, <1>8

-----------------------------------------------------------------------------
(* Every step that makes no second mutex for the map keeps the locks apart. *)
LEMMA LocksStep ==
    ASSUME LocksInv, [SslNext]_sslVars
    PROVE  LocksInv'
<1> USE DEF LocksInv
<1>1. SslTypeOK'
  BY Zenon, LockTypeStep
<1> SUFFICES ASSUME ~twice' PROVE LocksKept'
  BY Zenon, <1>1
<1>2. ASSUME NEW t \in Caller, NewMMapMutex(t) PROVE ~twice /\ m_mmap_mutex = NoMutex
  BY Zenon, <1>2 DEF NewMMapMutex
<1>a. ASSUME NEW t \in Caller,
             \/ SSL_locking_function(t) \/ MMapMutex(t) \/ EnterMap(t) \/ MMap(t)
             \/ InsertMutex(t) \/ LeaveMap(t) \/ LockMutex(t) \/ UnlockMutex(t)
      PROVE  twice' = twice
  BY Zenon, <1>a DEF SSL_locking_function, MMapMutex, EnterMap, MMap, InsertMutex, LeaveMap, LockMutex,
     UnlockMutex
<1>3. ~twice /\ LocksKept
  <2>1. CASE SslNext
    <3> PICK t \in Caller :
          \/ SSL_locking_function(t) \/ NewMMapMutex(t) \/ MMapMutex(t) \/ EnterMap(t)
          \/ MMap(t) \/ InsertMutex(t) \/ LeaveMap(t) \/ LockMutex(t) \/ UnlockMutex(t)
      BY Zenon, <2>1 DEF SslNext
    <3>1. ~twice
      BY Zenon, <1>2, <1>a
    <3> QED BY Zenon, <3>1
  <2>2. CASE UNCHANGED sslVars
    BY Zenon, <2>2 DEF sslVars
  <2> QED BY Zenon, <2>1, <2>2
<1>4. CASE UNCHANGED sslVars
  BY Zenon, <1>3, <1>4 DEF sslVars, LocksKept, MapInv, HeldInv, CallInv, InMap
<1> QED
  BY Zenon, <1>2, <1>3, <1>4, CallStep, NewStep, EnterStep, InsertStep, LeaveStep, OwnStep DEF SslNext

(* Two threads never hold the same OpenSSL lock and never use the map at   *)
(* once, for any threads, locks and calls, as long as no second mutex has  *)
(* been made for the map: always when the constructor ran the callback     *)
(* before the threads, and else until two of them find no mutex            *)
(* (SSLInitializer::SSL_locking_function, MMapMutex).                      *)
THEOREM LocksKeptApart == SslSpec => []LocksExclusive
<1>1. SslInit => LocksInv
  <2> SUFFICES ASSUME SslInit PROVE LocksInv
    BY Zenon
  <2> USE DEF SslInit, Construct, NoMutex
  <2>0. /\ m_mmap_mutex \in Nat /\ made \in Nat /\ m_mmap \in [Lock -> Nat]
        /\ m_mmap_mutex <= made /\ \A n \in Lock : m_mmap[n] <= made
        /\ \A n \in Lock : m_mmap[n] # 0 => m_mmap[n] # m_mmap_mutex
        /\ \A n, k \in Lock : m_mmap[n] = m_mmap[k] /\ m_mmap[n] # 0 => n = k
        /\ m_mmap_mutex = 0 => \A n \in Lock : m_mmap[n] = 0
    <3>1. CASE m_mmap_mutex = 1 /\ made = 2 /\ \E rand \in Lock : m_mmap = [n \in Lock |-> IF n = rand THEN 2 ELSE 0]
      <4> PICK rand \in Lock : m_mmap = [n \in Lock |-> IF n = rand THEN 2 ELSE 0]
        BY Zenon, <3>1
      <4> QED BY <3>1
    <3>2. CASE m_mmap_mutex = 0 /\ made = 0 /\ m_mmap = [n \in Lock |-> 0]
      BY <3>2
    <3> QED BY Zenon, <3>1, <3>2
  <2>1. SslTypeOK
    <3>1. arg \in [Caller -> [mode : {"lock", "unlock"}, n : Lock \cup {0}]]
      BY DEF SslInit
    <3>2. call \in [Caller -> Pc] /\ mine \in [Caller -> Nat] /\ owns \in [Caller -> SUBSET Lock]
      BY DEF Pc
    <3> QED BY Zenon, <2>0, <3>1, <3>2 DEF SslTypeOK
  <2>2. MapInv
    BY Zenon, <2>0 DEF MapInv
  <2>3. HeldInv /\ \A t \in Caller : CallInv(t)
    BY Zenon DEF HeldInv, CallInv, InMap
  <2> QED BY Zenon, <2>1, <2>2, <2>3 DEF LocksInv, LocksKept
<1>2. LocksInv /\ [SslNext]_sslVars => LocksInv'
  BY Zenon, LocksStep
<1>3. LocksInv => LocksExclusive
  <2> SUFFICES ASSUME SslTypeOK, HeldInv PROVE LocksExclusive
    BY Zenon DEF LocksInv, LocksExclusive, LocksKept
  <2>1. ASSUME NEW t \in Caller, NEW n \in owns[t]
        PROVE  n \in Lock /\ m_mmap[n] \in Nat /\ <<m_mmap[n], t>> \in holder
    BY Zenon DEF HeldInv, SslTypeOK
  <2>a. m_mmap_mutex \in Nat
    BY Zenon DEF SslTypeOK
  <2>2. \A s, t \in Caller : s # t => owns[s] \cap owns[t] = {} /\ ~(InMap(s) /\ InMap(t))
    BY Zenon, <2>1, <2>a DEF HeldInv
  <2> QED BY Zenon, <2>1, <2>2 DEF LocksExclusive
<1> QED BY <1>1, <1>2, <1>3, PTL DEF SslSpec

-----------------------------------------------------------------------------

Occ(f, L) == Cardinality({v \in Thread : f[v] \in L})
Ind(x, L) == IF x \in L THEN 1 ELSE 0

CountedPc == {"locking", "asleep", "taken"}
AvailablePc == {"enter", "locking", "asleep"}

(* Moving one thread changes the number of threads in a set of locations   *)
(* by the indicator of the new location minus that of the old one.         *)
LEMMA OccMove ==
    ASSUME NEW f \in [Thread -> WorkerPc], NEW w \in Thread, NEW b \in WorkerPc, NEW L
    PROVE  /\ Occ(f, L) \in Nat
           /\ Occ([f EXCEPT ![w] = b], L) \in Nat
           /\ Occ([f EXCEPT ![w] = b], L) = Occ(f, L) + Ind(b, L) - Ind(f[w], L)
<1> DEFINE S == {v \in Thread : f[v] \in L}
           T == {v \in Thread : [f EXCEPT ![w] = b][v] \in L}
<1>1. IsFiniteSet(S) /\ IsFiniteSet(T)
  BY Zenon, FS_Subset, ThreadAssumption, S \subseteq Thread, T \subseteq Thread
<1>2. Cardinality(S) \in Nat /\ Cardinality(T) \in Nat
  BY Zenon, <1>1, FS_CardinalityType
<1>3. CASE b \in L /\ f[w] \in L
  <2>1. T = S
    BY Zenon, <1>3
  <2> QED
    BY <1>2, <1>3, <2>1 DEF Occ, Ind
<1>4. CASE b \in L /\ f[w] \notin L
  <2>1. T = S \cup {w} /\ w \notin S
    BY Zenon, <1>4
  <2>2. Cardinality(T) = Cardinality(S) + 1
    BY Zenon, <1>1, <2>1, FS_AddElement
  <2> QED
    BY <1>2, <1>4, <2>2 DEF Occ, Ind
<1>5. CASE b \notin L /\ f[w] \in L
  <2>1. T = S \ {w} /\ w \in S
    BY Zenon, <1>5
  <2>2. Cardinality(T) = Cardinality(S) - 1
    BY Zenon, <1>1, <2>1, FS_RemoveElement
  <2> QED
    BY <1>2, <1>5, <2>2 DEF Occ, Ind
<1>6. CASE b \notin L /\ f[w] \notin L
  <2>1. T = S
    BY Zenon, <1>6
  <2> QED
    BY <1>2, <1>6, <2>1 DEF Occ, Ind
<1> QED
  BY Zenon, <1>3, <1>4, <1>5, <1>6

(* The four counts the invariant is about, in terms of Occ.                *)
LEMMA Counts ==
    /\ Cardinality(Counted) = Occ(pc, CountedPc)
    /\ Cardinality(At("running")) = Occ(pc, {"running"})
    /\ Cardinality(Available) = Occ(pc, AvailablePc)
    /\ Cardinality(At("locking")) = Occ(pc, {"locking"})
<1>1. /\ At("running") = {v \in Thread : pc[v] \in {"running"}}
      /\ At("locking") = {v \in Thread : pc[v] \in {"locking"}}
  BY Zenon DEF At
<1> QED
  BY Zenon, <1>1 DEF Occ, Counted, Available, CountedPc, AvailablePc

(* How the four counts change when a worker moves from a to b.             *)
LEMMA MoveCounts ==
    ASSUME TypeOK, NEW w \in Thread, NEW a \in WorkerPc, NEW b \in WorkerPc, Go(w, a, b)
    PROVE  /\ pc' \in [Thread -> WorkerPc]
           /\ Cardinality(Counted) \in Nat
           /\ Cardinality(Counted)' \in Nat
           /\ Cardinality(Counted)' = Cardinality(Counted) + Ind(b, CountedPc) - Ind(a, CountedPc)
           /\ Cardinality(At("running")) \in Nat
           /\ Cardinality(At("running"))' \in Nat
           /\ Cardinality(At("running"))' = Cardinality(At("running")) + Ind(b, {"running"}) - Ind(a, {"running"})
           /\ Cardinality(Available) \in Nat
           /\ Cardinality(Available)' \in Nat
           /\ Cardinality(Available)' = Cardinality(Available) + Ind(b, AvailablePc) - Ind(a, AvailablePc)
           /\ Cardinality(At("locking")) \in Nat
           /\ Cardinality(At("locking"))' \in Nat
           /\ Cardinality(At("locking"))' = Cardinality(At("locking")) + Ind(b, {"locking"}) - Ind(a, {"locking"})
<1>1. /\ pc \in [Thread -> WorkerPc]
      /\ pc[w] = a
      /\ pc' = [pc EXCEPT ![w] = b]
  BY Zenon DEF TypeOK, Go
<1>2. \A L : /\ Occ(pc, L) \in Nat
             /\ Occ(pc', L) \in Nat
             /\ Occ(pc', L) = Occ(pc, L) + Ind(b, L) - Ind(a, L)
  BY ZenonT(60), <1>1, OccMove
<1>3. /\ Cardinality(Counted)' = Occ(pc', CountedPc)
      /\ Cardinality(At("running"))' = Occ(pc', {"running"})
      /\ Cardinality(Available)' = Occ(pc', AvailablePc)
      /\ Cardinality(At("locking"))' = Occ(pc', {"locking"})
  <2>1. /\ At("running")' = {v \in Thread : pc'[v] \in {"running"}}
        /\ At("locking")' = {v \in Thread : pc'[v] \in {"locking"}}
    BY Zenon DEF At
  <2> QED
    BY Zenon, <2>1 DEF Occ, Counted, Available, CountedPc, AvailablePc
<1>4. pc' \in [Thread -> WorkerPc]
  BY Zenon, <1>1
<1> QED
  BY Zenon, <1>2, <1>3, <1>4, Counts

(* A move of a worker with the changes of the two counters that belong to  *)
(* it: what _waiting and _active count.                                    *)
CountedMove(w, a, b) ==
    /\ Go(w, a, b)
    /\ waiting' = waiting + Ind(b, CountedPc) - Ind(a, CountedPc)
    /\ active' = active + Ind(b, {"running"}) - Ind(a, {"running"})

(* Such a move keeps the counters exact, and so natural numbers.           *)
LEMMA CountersMove ==
    ASSUME TypeOK, CountersExact, NEW w \in Thread, NEW a \in WorkerPc, NEW b \in WorkerPc,
           CountedMove(w, a, b)
    PROVE  pc' \in [Thread -> WorkerPc] /\ waiting' \in Nat /\ active' \in Nat /\ CountersExact'
<1>1. Go(w, a, b)
  BY Zenon DEF CountedMove
<1>2. /\ pc' \in [Thread -> WorkerPc]
      /\ Cardinality(Counted)' \in Nat
      /\ Cardinality(Counted)' = Cardinality(Counted) + Ind(b, CountedPc) - Ind(a, CountedPc)
      /\ Cardinality(At("running"))' \in Nat
      /\ Cardinality(At("running"))' = Cardinality(At("running")) + Ind(b, {"running"}) - Ind(a, {"running"})
  BY Zenon, <1>1, MoveCounts
<1>3. /\ waiting' = Cardinality(Counted)'
      /\ active' = Cardinality(At("running"))'
  BY Zenon, <1>2 DEF CountedMove, CountersExact
<1> QED
  BY Zenon, <1>2, <1>3 DEF CountersExact

(* A move that takes no worker out of a set of locations does not lower    *)
(* the number of workers in it.                                            *)
LEMMA MoveKeeps ==
    ASSUME TypeOK, NEW w \in Thread, NEW a \in WorkerPc, NEW b \in WorkerPc, Go(w, a, b)
    PROVE  /\ Cardinality(Available) \in Nat /\ Cardinality(Available)' \in Nat
           /\ a \notin AvailablePc \/ b \in AvailablePc => Cardinality(Available) <= Cardinality(Available)'
           /\ Cardinality(At("locking")) \in Nat /\ Cardinality(At("locking"))' \in Nat
           /\ a # "locking" => Cardinality(At("locking")) <= Cardinality(At("locking"))'
<1>1. /\ Cardinality(Available) \in Nat /\ Cardinality(Available)' \in Nat
      /\ Cardinality(Available)' = Cardinality(Available) + Ind(b, AvailablePc) - Ind(a, AvailablePc)
      /\ Cardinality(At("locking")) \in Nat /\ Cardinality(At("locking"))' \in Nat
      /\ Cardinality(At("locking"))' = Cardinality(At("locking")) + Ind(b, {"locking"}) - Ind(a, {"locking"})
  BY Zenon, MoveCounts
<1>2. /\ a \notin AvailablePc \/ b \in AvailablePc => Ind(b, AvailablePc) - Ind(a, AvailablePc) \in {0, 1}
      /\ a # "locking" => Ind(b, {"locking"}) - Ind(a, {"locking"}) \in {0, 1}
  BY DEF Ind
<1>3. /\ Ind(a, AvailablePc) \in Int /\ Ind(b, AvailablePc) \in Int
      /\ Ind(a, {"locking"}) \in Int /\ Ind(b, {"locking"}) \in Int
  BY DEF Ind
<1> QED
  BY <1>1, <1>2, <1>3

Base == TypeOK /\ CountersExact /\ CallerPhase /\ HoldersHaveTask

(* Steps of the calling thread that move no worker preserve the types, the *)
(* counters and the phase.                                                 *)
LEMMA CallerBase ==
    ASSUME Base,
           \/ LoadFirstCounter
           \/ Refuse
           \/ Admit
           \/ SeeWaiter
           \/ KeepWorkers
           \/ Shutdown
           \/ LoadActive
           \/ LoadWaiting
           \/ UNCHANGED vars
    PROVE  Base'
<1> USE SettingsAssumption DEF Base, TypeOK, CountersExact, CallerPhase, HoldersHaveTask,
        CallerPc, Task, Counted, Holding, At, vars
<1>1. CASE LoadFirstCounter
  BY Zenon, <1>1 DEF LoadFirstCounter, CounterSum
<1>2. CASE Refuse
  BY <1>2 DEF Refuse, CounterSum
<1>3. CASE Admit
  BY Zenon, <1>3 DEF Admit, CounterSum
<1>4. CASE SeeWaiter
  BY Zenon, <1>4 DEF SeeWaiter, CounterSum
<1>5. CASE KeepWorkers
  BY Zenon, <1>5 DEF KeepWorkers, CounterSum
<1>6. CASE Shutdown
  BY Zenon, <1>6 DEF Shutdown, CounterSum
<1>7. CASE LoadActive
  BY Zenon, <1>7 DEF LoadActive, CounterSum
<1>8. CASE LoadWaiting
  BY Zenon, <1>8 DEF LoadWaiting, CounterSum
<1>9. CASE UNCHANGED vars
  BY Zenon, <1>9
<1> QED
  BY ZenonT(60), <1>1, <1>2, <1>3, <1>4, <1>5, <1>6, <1>7, <1>8, <1>9

(* Every step of a worker is a move that keeps its counters exact.         *)
LEMMA WorkerMoves ==
    ASSUME TypeOK, NEW w \in Thread, Exec(w) \/ SpuriousWake(w)
    PROVE  \E a, b \in WorkerPc : CountedMove(w, a, b)
<1>0. waiting \in Nat /\ active \in Nat
  BY Zenon DEF TypeOK
<1>1. CASE EnterExec(w)
  <2>1. CountedMove(w, "enter", "locking")
    BY <1>0, <1>1 DEF EnterExec, CountedMove, Ind, CountedPc
  <2> QED
    BY Zenon, <2>1 DEF WorkerPc
<1>2. CASE Sleep(w)
  <2>1. CountedMove(w, "locking", "asleep")
    BY <1>0, <1>2 DEF Sleep, CountedMove, Ind, CountedPc
  <2> QED
    BY Zenon, <2>1 DEF WorkerPc
<1>3. CASE SpuriousWake(w)
  <2>1. CountedMove(w, "asleep", "locking")
    BY <1>0, <1>3 DEF SpuriousWake, CountedMove, Ind, CountedPc
  <2> QED
    BY Zenon, <2>1 DEF WorkerPc
<1>4. CASE Take(w)
  <2>1. CountedMove(w, "locking", "taken")
    BY <1>0, <1>4 DEF Take, CountedMove, Ind, CountedPc
  <2> QED
    BY Zenon, <2>1 DEF WorkerPc
<1>5. CASE SeeShutdown(w)
  <2>1. CountedMove(w, "locking", "leaving")
    BY <1>0, <1>5 DEF SeeShutdown, CountedMove, Ind, CountedPc
  <2> QED
    BY Zenon, <2>1 DEF WorkerPc
<1>6. CASE Leave(w)
  <2>1. CountedMove(w, "leaving", "none")
    BY <1>0, <1>6 DEF Leave, CountedMove, Ind, CountedPc
  <2> QED
    BY Zenon, <2>1 DEF WorkerPc
<1>7. CASE StopWaiting(w)
  <2>1. CountedMove(w, "taken", "between")
    BY <1>0, <1>7 DEF StopWaiting, CountedMove, Ind, CountedPc
  <2> QED
    BY Zenon, <2>1 DEF WorkerPc
<1>8. CASE BeginTask(w)
  <2>1. CountedMove(w, "between", "running")
    BY <1>0, <1>8 DEF BeginTask, CountedMove, Ind, CountedPc
  <2> QED
    BY Zenon, <2>1 DEF WorkerPc
<1>9. CASE FinishTask(w)
  <2>1. CountedMove(w, "running", "deciding")
    BY <1>0, <1>9 DEF FinishTask, CountedMove, Ind, CountedPc
  <2> QED
    BY Zenon, <2>1 DEF WorkerPc
<1>10. CASE EndThread(w)
  <2>1. CountedMove(w, "deciding", "none")
    BY <1>0, <1>10 DEF EndThread, CountedMove, Ind, CountedPc
  <2> QED
    BY Zenon, <2>1 DEF WorkerPc
<1>11. CASE PollAgain(w)
  <2>1. CountedMove(w, "deciding", "enter")
    BY <1>0, <1>11 DEF PollAgain, CountedMove, Ind, CountedPc
  <2> QED
    BY Zenon, <2>1 DEF WorkerPc
<1> QED
  BY Zenon, <1>1, <1>2, <1>3, <1>4, <1>5, <1>6, <1>7, <1>8, <1>9, <1>10, <1>11 DEF Exec

(* So they preserve the same facts.                                        *)
LEMMA WorkerBase ==
    ASSUME Base, NEW w \in Thread, Exec(w) \/ SpuriousWake(w)
    PROVE  Base'
<1>1. PICK a \in WorkerPc, b \in WorkerPc : CountedMove(w, a, b)
  BY Zenon, WorkerMoves DEF Base
<1>2. pc' \in [Thread -> WorkerPc] /\ waiting' \in Nat /\ active' \in Nat /\ CountersExact'
  BY Zenon, <1>1, CountersMove DEF Base
<1>3. UNCHANGED <<shutdown, main, seen, next, refused>>
  BY Zenon DEF Exec, callerVars, EnterExec, Sleep, SpuriousWake, Take, SeeShutdown, Leave, StopWaiting, BeginTask,
     FinishTask, EndThread, PollAgain
<1>4. /\ queue' \in Seq(Task)
      /\ task' \in [Thread -> Task \cup {0}]
      /\ done' \subseteq Task
      /\ HoldersHaveTask'
  <2>1. CASE Take(w)
    BY <2>1 DEF Base, TypeOK, Take, HoldersHaveTask, Holding, Go
  <2>2. CASE FinishTask(w)
    BY Zenon, <2>2 DEF Base, TypeOK, FinishTask, HoldersHaveTask, Holding, Go
  <2>3. CASE ~Take(w) /\ ~FinishTask(w)
    <3>1. UNCHANGED <<queue, task, done>>
      BY Zenon, <2>3 DEF Exec, EnterExec, Sleep, SpuriousWake, SeeShutdown, Leave, StopWaiting, BeginTask,
         EndThread, PollAgain
    <3>2. Holding' \subseteq Holding
      BY Zenon, <2>3 DEF Base, TypeOK, Exec, EnterExec, Sleep, SpuriousWake, SeeShutdown, Leave, StopWaiting, BeginTask,
         EndThread, PollAgain, Holding, Go
    <3> QED
      BY Zenon, <3>1, <3>2 DEF Base, TypeOK, HoldersHaveTask
  <2> QED
    BY Zenon, <2>1, <2>2, <2>3
<1>5. TypeOK'
  BY Zenon, <1>2, <1>3, <1>4 DEF Base, TypeOK
<1>6. CallerPhase'
  BY Zenon, <1>3 DEF Base, CallerPhase
<1> QED
  BY Zenon, <1>2, <1>4, <1>5, <1>6 DEF Base

(* And the steps of the caller that create or wake a worker.               *)
LEMMA SpawnBase ==
    ASSUME Base, Spawn
    PROVE  Base'
<1> USE SettingsAssumption DEF Base, TypeOK
<1>1. PICK w \in Thread : Go(w, "none", "enter")
  BY Zenon DEF Spawn
<1>2. HoldersHaveTask'
  BY Zenon, <1>1 DEF Spawn, HoldersHaveTask, Holding, Go, WorkerPc
<1>3. CountedMove(w, "none", "enter")
  BY <1>1 DEF Spawn, CountedMove, Ind, CountedPc
<1>4. pc' \in [Thread -> WorkerPc] /\ CountersExact'
  BY Zenon, <1>3, CountersMove DEF WorkerPc
<1>5. TypeOK' /\ CallerPhase'
  BY Zenon, <1>4 DEF Spawn, CallerPc, CallerPhase
<1> QED
  BY Zenon, <1>2, <1>4, <1>5

LEMMA PushBase ==
    ASSUME Base, Push
    PROVE  Base'
<1> USE SettingsAssumption DEF Base, TypeOK
<1>1. /\ queue' \in Seq(Task)
      /\ next' \in 1..(MaxTasks + 1)
      /\ CallerPhase'
  BY DEF Push, CallerPhase, Task
<1>2. CASE UNCHANGED pc
  BY Zenon, <1>1, <1>2 DEF Push, CallerPc, CountersExact, Counted, At, HoldersHaveTask, Holding
<1>3. CASE \E w \in Thread : Go(w, "asleep", "locking")
  <2>1. PICK w \in Thread : Go(w, "asleep", "locking")
    BY Zenon, <1>3
  <2>2. HoldersHaveTask'
    BY Zenon, <2>1 DEF Push, HoldersHaveTask, Holding, Go, WorkerPc
  <2>3. CountedMove(w, "asleep", "locking")
    BY <2>1 DEF Push, CountedMove, Ind, CountedPc
  <2>4. pc' \in [Thread -> WorkerPc] /\ CountersExact'
    BY Zenon, <2>3, CountersMove DEF WorkerPc
  <2>5. TypeOK'
    BY Zenon, <1>1, <2>4 DEF Push, CallerPc
  <2> QED
    BY Zenon, <1>1, <2>2, <2>4, <2>5
<1> QED
  BY Zenon, <1>2, <1>3 DEF Push, NotifyOne

LEMMA NotifyAllBase ==
    ASSUME Base, NotifyAll
    PROVE  Base'
<1>1. pc' \in [Thread -> WorkerPc]
  BY Zenon DEF Base, TypeOK, NotifyAll, WorkerPc
<1>2. Counted' = Counted /\ At("running")' = At("running") /\ Holding' = Holding
  BY Zenon DEF Base, TypeOK, NotifyAll, Counted, At, Holding
<1>3. /\ main = "notify" /\ main' = "draining"
      /\ UNCHANGED <<queue, active, waiting, shutdown, task, seen, next, refused, done>>
  BY Zenon DEF NotifyAll
<1>4. TypeOK'
  BY Zenon, <1>1, <1>3 DEF Base, TypeOK, CallerPc
<1>5. CountersExact'
  BY Zenon, <1>2, <1>3 DEF Base, CountersExact
<1>7. HoldersHaveTask'
  BY Zenon, <1>2, <1>3 DEF Base, HoldersHaveTask
<1>6. CallerPhase'
  BY Zenon, <1>3 DEF Base, CallerPhase
<1> QED
  BY Zenon, <1>4, <1>5, <1>6, <1>7 DEF Base

(* The types, the counters and the caller's phase are inductive.           *)
LEMMA BaseStep ==
    ASSUME Base, [Next]_vars
    PROVE  Base'
BY Zenon, CallerBase, WorkerBase, SpawnBase, PushBase, NotifyAllBase DEF Next, Schedule, Wait, Stopped

LEMMA BaseInit ==
    Init => Base
<1> SUFFICES ASSUME Init PROVE Base
  OBVIOUS
<1>1. Counted = {} /\ At("running") = {} /\ Holding = {}
  BY Zenon DEF Init, Counted, At, Holding
<1>2. CountersExact
  BY Zenon, <1>1, FS_EmptySet DEF Init, CountersExact
<1>3. TypeOK
  <2>1. queue \in Seq(Task)
    BY DEF Init
  <2>2. pc \in [Thread -> WorkerPc]
    BY Zenon DEF Init, WorkerPc
  <2>3. task \in [Thread -> Task \cup {0}]
    BY Zenon DEF Init
  <2>4. main \in CallerPc
    BY Zenon DEF Init, CallerPc
  <2>5. next \in 1..(MaxTasks + 1)
    BY SettingsAssumption DEF Init
  <2> QED
    BY Zenon, <2>1, <2>2, <2>3, <2>4, <2>5 DEF Init, TypeOK
<1>4. CallerPhase /\ HoldersHaveTask
  BY Zenon, <1>1 DEF Init, CallerPhase, HoldersHaveTask
<1> QED
  BY Zenon, <1>2, <1>3, <1>4 DEF Base

(* Every variable keeps its type and _active and _waiting count the        *)
(* threads they stand for: simplescheduler.h:97-122 decrements neither     *)
(* below zero, on any path.                                                *)
THEOREM CountersCorrect ==
    Spec => [](TypeOK /\ CountersExact)
<1>1. Base /\ [Next]_vars => Base'
  BY BaseStep
<1>2. Base => TypeOK /\ CountersExact
  BY Zenon DEF Base
<1> QED
  BY BaseInit, <1>1, <1>2, PTL DEF Spec

-----------------------------------------------------------------------------
(* Stranding: schedule() creates a thread whenever it finds the queue not  *)
(* empty, and a worker that takes a task leaves Available with it.         *)
LEMMA StrandingStep ==
    ASSUME Base, Stranding, [Next]_vars
    PROVE  Stranding'
<1>1. CASE shutdown'
  BY Zenon, <1>1 DEF Stranding
<1>2. CASE ~shutdown' /\ UNCHANGED <<queue, pc, main>>
  <2>1. Available' = Available
    BY Zenon, <1>2 DEF Available
  <2>2. ~shutdown
    BY Zenon, <1>2, BaseStep DEF Base, CallerPhase
  <2> QED
    BY Zenon, <1>2, <2>1, <2>2 DEF Stranding
<1>3. CASE ~shutdown' /\ \E w \in Thread : Exec(w) \/ SpuriousWake(w)
  <2>1. PICK w \in Thread : Exec(w) \/ SpuriousWake(w)
    BY Zenon, <1>3
  <2>2. TypeOK
    BY Zenon DEF Base
  <2>3. CASE Take(w)
    <3>1. Go(w, "locking", "taken")
      BY Zenon, <2>3 DEF Take
    <3>2. Len(queue') = Len(queue) - 1 /\ Len(queue) \in Nat
      BY <2>2, <2>3 DEF Take, TypeOK
    <3>3. UNCHANGED <<main, shutdown>>
      BY Zenon, <2>3 DEF Take, callerVars
    <3>4. Ind("taken", AvailablePc) = 0 /\ Ind("locking", AvailablePc) = 1
      BY Zenon DEF Ind, AvailablePc
    <3>5. "locking" \in WorkerPc /\ "taken" \in WorkerPc
      BY Zenon DEF WorkerPc
    <3>6. /\ Cardinality(Available) \in Nat
          /\ Cardinality(Available)' = Cardinality(Available) + Ind("taken", AvailablePc) - Ind("locking", AvailablePc)
      BY Zenon, <2>2, <3>1, <3>5, MoveCounts
    <3> QED
      BY <1>3, <3>2, <3>3, <3>4, <3>6 DEF Stranding
  <2>4. CASE SeeShutdown(w)
    BY Zenon, <1>3, <2>4 DEF SeeShutdown
  <2>5. CASE ~Take(w) /\ ~SeeShutdown(w)
    <3>1. UNCHANGED <<queue, main, shutdown>>
      BY Zenon, <2>1, <2>5 DEF Exec, callerVars, EnterExec, Sleep, SpuriousWake, Leave, StopWaiting, BeginTask,
         FinishTask, EndThread, PollAgain
    <3>2. \E a, b \in WorkerPc : Go(w, a, b) /\ (a \notin AvailablePc \/ b \in AvailablePc)
      BY Zenon, <2>1, <2>5 DEF Exec, EnterExec, Sleep, SpuriousWake, Leave, StopWaiting, BeginTask,
         FinishTask, EndThread, PollAgain, WorkerPc, AvailablePc
    <3>3. /\ Cardinality(Available) \in Nat /\ Cardinality(Available)' \in Nat
          /\ Cardinality(Available) <= Cardinality(Available)'
      BY Zenon, <2>2, <3>2, MoveKeeps
    <3>4. Len(queue) \in Nat
      BY <2>2 DEF TypeOK
    <3> QED
      BY <3>1, <3>3, <3>4 DEF Stranding
  <2> QED
    BY Zenon, <2>1, <2>3, <2>4, <2>5
<1>4. CASE Spawn
  <2>1. PICK w \in Thread : Go(w, "none", "enter")
    BY Zenon, <1>4 DEF Spawn
  <2>2. Ind("none", AvailablePc) = 0 /\ Ind("enter", AvailablePc) = 1
    BY Zenon DEF Ind, AvailablePc
  <2>3. "none" \in WorkerPc /\ "enter" \in WorkerPc
    BY Zenon DEF WorkerPc
  <2>4. /\ Cardinality(Available) \in Nat
        /\ Cardinality(Available)' = Cardinality(Available) + Ind("enter", AvailablePc) - Ind("none", AvailablePc)
    BY Zenon, <2>1, <2>3, MoveCounts DEF Base
  <2>5. Len(queue) \in Nat
    BY DEF Base, TypeOK
  <2>6. main # "push" /\ main' = "push" /\ UNCHANGED <<queue, shutdown>>
    BY Zenon, <1>4 DEF Spawn
  <2> QED
    BY <2>2, <2>4, <2>5, <2>6 DEF Stranding
<1>5. CASE KeepWorkers
  <2>1. Available' = Available
    BY Zenon, <1>5 DEF KeepWorkers, Available
  <2>2. Cardinality(Available) \in Nat
    BY Zenon, FS_Subset, FS_CardinalityType, ThreadAssumption DEF Available
  <2> QED
    BY <1>5, <2>1, <2>2 DEF KeepWorkers, Stranding
<1>6. CASE Push
  <2>1. Len(queue') = Len(queue) + 1 /\ main' = "ready" /\ main = "push" /\ UNCHANGED shutdown
    BY <1>6 DEF Push, Base, TypeOK
  <2>2. CASE UNCHANGED pc
    <3>1. Available' = Available
      BY Zenon, <2>2 DEF Available
    <3> QED
      BY <2>1, <3>1 DEF Stranding, Base, TypeOK
  <2>3. CASE \E w \in Thread : Go(w, "asleep", "locking")
    <3>1. "asleep" \in WorkerPc /\ "locking" \in WorkerPc /\ "locking" \in AvailablePc
      BY Zenon DEF WorkerPc, AvailablePc
    <3>2. /\ Cardinality(Available) \in Nat /\ Cardinality(Available)' \in Nat
          /\ Cardinality(Available) <= Cardinality(Available)'
      BY Zenon, <2>3, <3>1, MoveKeeps DEF Base
    <3>3. Len(queue) \in Nat
      BY DEF Base, TypeOK
    <3> QED
      BY <2>1, <3>2, <3>3 DEF Stranding
  <2> QED
    BY Zenon, <1>6, <2>2, <2>3 DEF Push, NotifyOne
<1>7. CASE ~shutdown' /\ (LoadFirstCounter \/ Refuse \/ Admit \/ SeeWaiter)
  <2>1. Available' = Available
    BY Zenon, <1>7 DEF LoadFirstCounter, Refuse, Admit, SeeWaiter, Available
  <2> QED
    BY <1>7, <2>1 DEF LoadFirstCounter, Refuse, Admit, SeeWaiter, Stranding
<1>8. CASE Shutdown \/ Wait \/ Stopped
  BY Zenon, <1>1, <1>2, <1>8 DEF Shutdown, Wait, LoadActive, LoadWaiting, NotifyAll, Stopped, vars, Base, CallerPhase
<1> QED
  BY Zenon, <1>1, <1>2, <1>3, <1>4, <1>5, <1>6, <1>7, <1>8 DEF Next, Schedule, vars

(* No lost wakeup: a worker falls asleep only on an empty queue, and while *)
(* one sleeps every push wakes one.                                        *)
LEMMA WakeupStep ==
    ASSUME Base, NoLostWakeup, [Next]_vars
    PROVE  NoLostWakeup'
<1>1. CASE shutdown'
  BY Zenon, <1>1 DEF NoLostWakeup
<1>2. CASE ~shutdown' /\ UNCHANGED <<queue, pc>>
  <2>1. ~shutdown
    BY Zenon, <1>2 DEF Next, Schedule, Shutdown, Wait, LoadFirstCounter, Refuse, Admit, Spawn, SeeWaiter, KeepWorkers,
       Push, LoadActive, LoadWaiting, NotifyAll, Stopped, vars, Exec, EnterExec, Sleep, SpuriousWake, Take,
       SeeShutdown, Leave, StopWaiting, BeginTask, FinishTask, EndThread, PollAgain
  <2>2. At("asleep")' = At("asleep") /\ At("locking")' = At("locking")
    BY Zenon, <1>2 DEF At
  <2> QED
    BY Zenon, <1>2, <2>1, <2>2 DEF NoLostWakeup
<1>3. CASE ~shutdown' /\ \E w \in Thread : Exec(w) \/ SpuriousWake(w)
  <2>1. PICK w \in Thread : Exec(w) \/ SpuriousWake(w)
    BY <1>3
  <2>2. TypeOK
    BY Zenon DEF Base
  <2>3. CASE Take(w)
    <3>1. Go(w, "locking", "taken") /\ UNCHANGED shutdown
      BY Zenon, <2>3 DEF Take
    <3>2. At("asleep")' \subseteq At("asleep")
      BY Zenon, <2>2, <3>1 DEF TypeOK, At, Go
    <3>3. Len(queue') = Len(queue) - 1 /\ Len(queue) \in Nat
      BY <2>2, <2>3 DEF Take, TypeOK
    <3>4. Ind("taken", {"locking"}) = 0 /\ Ind("locking", {"locking"}) = 1
      BY Zenon DEF Ind
    <3>5. "locking" \in WorkerPc /\ "taken" \in WorkerPc
      BY DEF WorkerPc
    <3>6. /\ Cardinality(At("locking")) \in Nat
          /\ Cardinality(At("locking"))' = Cardinality(At("locking")) + Ind("taken", {"locking"}) - Ind("locking", {"locking"})
      BY Zenon, <2>2, <3>1, <3>5, MoveCounts
    <3> QED
      BY <1>3, <3>1, <3>2, <3>3, <3>4, <3>6 DEF NoLostWakeup
  <2>4. CASE Sleep(w)
    <3>1. Go(w, "locking", "asleep") /\ Len(queue') = 0
      BY Zenon, <2>4 DEF Sleep
    <3>2. "locking" \in WorkerPc /\ "asleep" \in WorkerPc
      BY Zenon DEF WorkerPc
    <3>3. Cardinality(At("locking"))' \in Nat
      BY Zenon, <2>2, <3>1, <3>2, MoveKeeps
    <3> QED
      BY <3>1, <3>3 DEF NoLostWakeup
  <2>5. CASE SeeShutdown(w)
    BY <1>3, <2>5 DEF SeeShutdown
  <2>6. CASE ~Take(w) /\ ~Sleep(w) /\ ~SeeShutdown(w)
    <3>1. UNCHANGED <<queue, shutdown>>
      BY Zenon, <2>1, <2>6 DEF Exec, EnterExec, SpuriousWake, Leave, StopWaiting, BeginTask,
         FinishTask, EndThread, PollAgain
    <3>2. \E a, b \in WorkerPc : Go(w, a, b) /\ a # "locking" /\ b # "asleep"
      BY Zenon, <2>1, <2>6 DEF Exec, EnterExec, SpuriousWake, Leave, StopWaiting, BeginTask,
         FinishTask, EndThread, PollAgain, WorkerPc
    <3>3. /\ Cardinality(At("locking")) \in Nat /\ Cardinality(At("locking"))' \in Nat
          /\ Cardinality(At("locking")) <= Cardinality(At("locking"))'
      BY Zenon, <2>2, <3>2, MoveKeeps
    <3>4. At("asleep")' \subseteq At("asleep")
      BY Zenon, <2>2, <3>2 DEF TypeOK, At, Go
    <3>5. Len(queue) \in Nat
      BY <2>2 DEF TypeOK
    <3> QED
      BY <3>1, <3>3, <3>4, <3>5 DEF NoLostWakeup
  <2> QED
    BY Zenon, <2>1, <2>3, <2>4, <2>5, <2>6
<1>4. CASE Spawn
  <2>1. PICK w \in Thread : Go(w, "none", "enter")
    BY <1>4 DEF Spawn
  <2>2. At("asleep")' = At("asleep") /\ At("locking")' = At("locking")
    BY Zenon, <2>1 DEF At, Go, Base, TypeOK
  <2> QED
    BY Zenon, <1>4, <2>2 DEF Spawn, NoLostWakeup
<1>5. CASE Push
  <2>1. Len(queue') = Len(queue) + 1 /\ UNCHANGED shutdown /\ Len(queue) \in Nat
    BY <1>5 DEF Push, Base, TypeOK
  <2>2. CASE At("asleep") = {} /\ UNCHANGED pc
    BY Zenon, <2>2 DEF At, NoLostWakeup
  <2>3. CASE \E w \in Thread : Go(w, "asleep", "locking")
    <3>1. PICK w \in Thread : Go(w, "asleep", "locking")
      BY Zenon, <2>3
    <3>2. w \in At("asleep")
      BY Zenon, <3>1 DEF At, Go
    <3>3. /\ Cardinality(At("locking"))' = Cardinality(At("locking")) + 1
          /\ Cardinality(At("locking")) \in Nat
      <4>1. Ind("locking", {"locking"}) = 1 /\ Ind("asleep", {"locking"}) = 0
        BY Zenon DEF Ind
      <4>2. "asleep" \in WorkerPc /\ "locking" \in WorkerPc
        BY Zenon DEF WorkerPc
      <4>3. /\ Cardinality(At("locking")) \in Nat
            /\ Cardinality(At("locking"))' = Cardinality(At("locking")) + Ind("locking", {"locking"}) - Ind("asleep", {"locking"})
        BY Zenon, <3>1, <4>2, MoveCounts DEF Base
      <4> QED
        BY <4>1, <4>3
    <3> QED
      BY <2>1, <3>2, <3>3 DEF NoLostWakeup
  <2> QED
    BY Zenon, <1>5, <2>2, <2>3 DEF Push, NotifyOne
<1>6. CASE LoadFirstCounter \/ Refuse \/ Admit \/ SeeWaiter \/ KeepWorkers
  BY Zenon, <1>1, <1>2, <1>6 DEF LoadFirstCounter, Refuse, Admit, SeeWaiter, KeepWorkers
<1>7. CASE Shutdown \/ Wait \/ Stopped
  BY Zenon, <1>1, <1>2, <1>7 DEF Shutdown, Wait, LoadActive, LoadWaiting, NotifyAll, Stopped, vars, Base, CallerPhase
<1> QED
  BY Zenon, <1>1, <1>2, <1>3, <1>4, <1>5, <1>6, <1>7 DEF Next, Schedule, vars

(* A queued task always has a live worker, when "sparethreads" is not 0: a *)
(* worker that ends sees another one counted in _waiting.                  *)
LEMMA WorkerForTaskStep ==
    ASSUME MaxSpare >= 1, Base, LeavingOnShutdown, WorkerForTask, [Next]_vars
    PROVE  WorkerForTask'
<1>1. waiting > 0 => \E v \in Thread : pc[v] \in CountedPc
  <2>1. Cardinality({}) = 0
    BY Zenon, FS_EmptySet
  <2> QED
    BY <2>1 DEF Base, CountersExact, Counted, CountedPc
<1>2. CASE shutdown'
  BY Zenon, <1>2 DEF WorkerForTask
<1>3. CASE \E w \in Thread : Exec(w) \/ SpuriousWake(w)
  <2>1. PICK w \in Thread : Exec(w) \/ SpuriousWake(w)
    BY Zenon, <1>3
  <2>2. CASE EndThread(w)
    <3>1. CASE shutdown
      BY Zenon, <2>2, <3>1 DEF EndThread, WorkerForTask
    <3>2. CASE ~shutdown
      <4>1. waiting > 0
        BY <2>2, <3>2, SettingsAssumption DEF EndThread, Base, TypeOK
      <4>2. PICK v \in Thread : pc[v] \in CountedPc
        BY Zenon, <1>1, <4>1
      <4>3. v # w /\ pc'[v] = pc[v]
        BY Zenon, <2>2, <4>2 DEF EndThread, Go, CountedPc, Base, TypeOK
      <4>4. v \in Live'
        BY Zenon, <4>2, <4>3 DEF Live, CountedPc
      <4> QED
        BY Zenon, <4>4 DEF WorkerForTask
    <3> QED
      BY Zenon, <3>1, <3>2
  <2>3. CASE Leave(w)
    BY Zenon, <2>3 DEF Leave, Go, LeavingOnShutdown, WorkerForTask
  <2>4. CASE ~EndThread(w) /\ ~Leave(w)
    <3>1. pc'[w] # "none"
      BY Zenon, <2>1, <2>4 DEF Exec, EnterExec, Sleep, SpuriousWake, Take, SeeShutdown, StopWaiting, BeginTask,
         FinishTask, PollAgain, Go, Base, TypeOK
    <3> QED
      BY Zenon, <3>1 DEF WorkerForTask, Live
  <2> QED
    BY Zenon, <2>2, <2>3, <2>4
<1>4. CASE Spawn
  <2>1. PICK w \in Thread : Go(w, "none", "enter")
    BY Zenon, <1>4 DEF Spawn
  <2>2. w \in Live'
    BY Zenon, <2>1 DEF Go, Live, Base, TypeOK
  <2> QED
    BY Zenon, <2>2 DEF WorkerForTask
<1>5. CASE SeeWaiter
  <2>1. PICK v \in Thread : pc[v] \in CountedPc
    BY Zenon, <1>1, <1>5 DEF SeeWaiter
  <2>2. v \in Live'
    BY Zenon, <1>5, <2>1 DEF SeeWaiter, Live, CountedPc
  <2> QED
    BY <2>2 DEF WorkerForTask
<1>6. CASE Push
  <2>1. (Live # {} /\ Live \subseteq Live') \/ shutdown'
    BY Zenon, <1>6 DEF Push, NotifyOne, Go, Live, WorkerForTask, Base, TypeOK
  <2> QED
    BY Zenon, <2>1 DEF WorkerForTask
<1>7. CASE LoadFirstCounter \/ Refuse \/ Admit \/ KeepWorkers
  BY Zenon, <1>7 DEF LoadFirstCounter, Refuse, Admit, KeepWorkers, WorkerForTask, Live
<1>8. CASE Shutdown \/ Wait \/ Stopped \/ UNCHANGED vars
  BY Zenon, <1>2, <1>8 DEF Shutdown, Wait, LoadActive, LoadWaiting, NotifyAll, Stopped, vars, Base, CallerPhase,
     WorkerForTask, Live
<1> QED
  BY Zenon, <1>2, <1>3, <1>4, <1>5, <1>6, <1>7, <1>8 DEF Next, Schedule

(* exec() returns with the mutex held only on the shutdown path.           *)
LEMMA LeavingStep ==
    ASSUME Base, LeavingOnShutdown, [Next]_vars
    PROVE  LeavingOnShutdown'
<1> USE DEF LeavingOnShutdown, Base, TypeOK
<1>1. CASE \E w \in Thread : Exec(w) \/ SpuriousWake(w)
  <2>1. PICK w \in Thread : Exec(w) \/ SpuriousWake(w)
    BY Zenon, <1>1
  <2>2. /\ UNCHANGED shutdown
        /\ \E a, b \in WorkerPc : Go(w, a, b) /\ (b = "leaving" => shutdown)
    BY Zenon, <2>1 DEF Exec, EnterExec, Sleep, SpuriousWake, Take, SeeShutdown, Leave, StopWaiting, BeginTask,
       FinishTask, EndThread, PollAgain, WorkerPc
  <2> QED
    BY Zenon, <2>2 DEF Go
<1>2. CASE Schedule
  BY Zenon, <1>2 DEF Schedule, LoadFirstCounter, Refuse, Admit, Spawn, SeeWaiter, KeepWorkers, Push, NotifyOne, Go
<1>3. CASE Shutdown \/ Wait \/ Stopped \/ UNCHANGED vars
  BY Zenon, <1>3 DEF Shutdown, Wait, LoadActive, LoadWaiting, NotifyAll, Stopped, vars
<1> QED
  BY Zenon, <1>1, <1>2, <1>3 DEF Next

(* Tasks are begun in the order they were accepted, and no two workers     *)
(* hold the same one.                                                      *)
LEMMA TaskOrderStep ==
    ASSUME Base, TaskOrder, [Next]_vars
    PROVE  TaskOrder'
<1>0. /\ \A k \in 1..Len(queue) : queue[k] \in Int
      /\ \A t \in done : t \in Int
      /\ \A v \in Holding : task[v] \in Int
      /\ next \in Int /\ Len(queue) \in Nat
  <2>1. /\ \A k \in 1..Len(queue) : queue[k] \in Task
        /\ \A t \in done : t \in Task
        /\ \A v \in Holding : task[v] \in Task
        /\ Len(queue) \in Nat
    BY DEF Base, TypeOK, HoldersHaveTask
  <2>2. next \in Int /\ \A t \in Task : t \in Int
    BY DEF Base, TypeOK, Task
  <2> QED
    BY Zenon, <2>1, <2>2
<1>1. CASE UNCHANGED <<queue, task, done>> /\ Holding' = Holding /\ next' \in {next, next + 1}
  BY <1>0, <1>1 DEF TaskOrder
<1>2. CASE Push
  <2>1. Holding' = Holding
    BY Zenon, <1>2 DEF Push, NotifyOne, Go, Holding, Base, TypeOK
  <2>2. /\ queue' = Append(queue, next) /\ next' = next + 1
        /\ UNCHANGED <<task, done>>
    BY Zenon, <1>2 DEF Push
  <2>3. /\ Len(queue') = Len(queue) + 1 /\ Len(queue) \in Nat
        /\ queue'[Len(queue) + 1] = next
        /\ \A k \in 1..Len(queue) : queue'[k] = queue[k] /\ queue[k] \in Task
    BY <2>2 DEF Base, TypeOK
  <2> QED
    BY <2>1, <2>2, <2>3 DEF TaskOrder, Base, TypeOK, HoldersHaveTask, Task
<1>3. CASE \E w \in Thread : Take(w)
  <2>1. PICK w \in Thread : Take(w)
    BY Zenon, <1>3
  <2>2. /\ Len(queue') = Len(queue) - 1 /\ Len(queue) \in Nat \ {0}
        /\ \A k \in 1..Len(queue') : queue'[k] = queue[k + 1]
        /\ Head(queue) = queue[1]
        /\ \A k \in 1..Len(queue) : queue[k] \in Task
    BY <2>1 DEF Take, Base, TypeOK
  <2>3. /\ Holding' = Holding \cup {w} /\ w \notin Holding
        /\ task'[w] = queue[1]
        /\ \A v \in Holding : task'[v] = task[v]
        /\ UNCHANGED <<next, done>>
    BY Zenon, <2>1, <2>2 DEF Take, Go, Holding, Base, TypeOK, callerVars
  <2>4. /\ \A k \in 1..Len(queue') : queue'[k] < next
        /\ \A j, k \in 1..Len(queue') : j < k => queue'[j] < queue'[k]
        /\ \A k \in 1..Len(queue') : queue[1] < queue'[k]
    <3>1. /\ 1 \in 1..Len(queue)
          /\ \A k \in 1..Len(queue') : k + 1 \in 1..Len(queue) /\ 1 < k + 1
          /\ \A j, k \in 1..Len(queue') : j < k => j + 1 < k + 1
      BY <2>2
    <3> QED
      BY Zenon, <2>2, <3>1 DEF TaskOrder
  <2>5. \A v \in Holding : task[v] < queue[1] /\ task[v] < next
    BY <2>2 DEF TaskOrder
  <2>6. \A v \in Holding, k \in 1..Len(queue') : task[v] < queue'[k]
    BY <2>2 DEF TaskOrder
  <2>7. queue[1] < next
    BY <2>2 DEF TaskOrder
  <2>8. \A v, u \in Holding' : v # u => task'[v] # task'[u]
    <3>1. \A v \in Holding : task[v] \in Int /\ queue[1] \in Int
      BY <1>0, <2>2
    <3>2. \A v \in Holding : task'[v] # task'[w]
      BY <2>3, <2>5, <3>1
    <3>3. \A v, u \in Holding : v # u => task'[v] # task'[u]
      BY Zenon, <2>3 DEF TaskOrder
    <3> QED
      BY Zenon, <2>3, <3>2, <3>3
  <2> QED
    BY Zenon, <2>3, <2>4, <2>5, <2>6, <2>7, <2>8 DEF TaskOrder
<1>4. CASE \E w \in Thread : FinishTask(w)
  <2>1. PICK w \in Thread : FinishTask(w)
    BY <1>4
  <2>2. /\ Holding' = Holding \ {w} /\ w \in Holding
        /\ \A v \in Holding' : task'[v] = task[v]
        /\ done' = done \cup {task[w]}
        /\ UNCHANGED <<next, queue>>
    BY Zenon, <2>1 DEF FinishTask, Go, Holding, Base, TypeOK, callerVars
  <2> QED
    BY Zenon, <2>2 DEF TaskOrder
<1>5. CASE \E w \in Thread : (Exec(w) \/ SpuriousWake(w)) /\ ~Take(w) /\ ~FinishTask(w)
  <2>1. PICK w \in Thread : (Exec(w) \/ SpuriousWake(w)) /\ ~Take(w) /\ ~FinishTask(w)
    BY Zenon, <1>5
  <2>2. UNCHANGED <<queue, task, done, next>>
    BY Zenon, <2>1 DEF Exec, EnterExec, Sleep, SpuriousWake, SeeShutdown, Leave, StopWaiting, BeginTask,
       EndThread, PollAgain, callerVars
  <2>3. Holding' = Holding
    BY Zenon, <2>1 DEF Exec, EnterExec, Sleep, SpuriousWake, SeeShutdown, Leave, StopWaiting, BeginTask,
       EndThread, PollAgain, Go, Holding, Base, TypeOK
  <2> QED
    BY Zenon, <1>1, <2>2, <2>3
<1>6. CASE Spawn
  <2>1. Holding' = Holding
    BY Zenon, <1>6 DEF Spawn, Go, Holding, Base, TypeOK
  <2> QED
    BY Zenon, <1>1, <1>6, <2>1 DEF Spawn
<1>7. CASE LoadFirstCounter \/ Refuse \/ Admit \/ SeeWaiter \/ KeepWorkers
  BY Zenon, <1>1, <1>7 DEF LoadFirstCounter, Refuse, Admit, SeeWaiter, KeepWorkers, Holding
<1>8. CASE Shutdown \/ Wait \/ Stopped \/ UNCHANGED vars
  <2>1. Holding' = Holding
    BY Zenon, <1>8 DEF Shutdown, Wait, LoadActive, LoadWaiting, NotifyAll, Stopped, vars, Holding, Base, TypeOK
  <2> QED
    BY Zenon, <1>1, <1>8, <2>1 DEF Shutdown, Wait, LoadActive, LoadWaiting, NotifyAll, Stopped, vars
<1> QED
  BY Zenon, <1>2, <1>3, <1>4, <1>5, <1>6, <1>7, <1>8 DEF Next, Schedule

-----------------------------------------------------------------------------
LEMMA SchedulerInvInit ==
    Init => SchedulerInv /\ WorkerForTask
<1> SUFFICES ASSUME Init PROVE SchedulerInv /\ WorkerForTask
  BY Zenon
<1>1. Base
  BY Zenon, BaseInit
<1>2. Available = {} /\ At("asleep") = {} /\ Holding = {}
  BY Zenon DEF Init, Available, At, Holding
<1>3. Stranding
  BY <1>2, FS_EmptySet DEF Init, Stranding
<1>4. NoLostWakeup /\ LeavingOnShutdown
  BY Zenon, <1>2 DEF Init, NoLostWakeup, LeavingOnShutdown
<1>5. TaskOrder /\ WorkerForTask
  BY <1>2 DEF Init, TaskOrder, WorkerForTask
<1> QED
  BY Zenon, <1>1, <1>3, <1>4, <1>5 DEF SchedulerInv, Base

LEMMA SchedulerInvStep ==
    SchedulerInv /\ [Next]_vars => SchedulerInv'
BY Zenon, BaseStep, LeavingStep, StrandingStep, WakeupStep, TaskOrderStep DEF SchedulerInv, Base

(* The inductive invariant holds for every pool size, with or without      *)
(* spare threads (simplescheduler.h:74-123).                               *)
THEOREM SchedulerInvariant ==
    Spec => []SchedulerInv
<1>1. Init => SchedulerInv
  BY Zenon, SchedulerInvInit
<1> QED
  BY <1>1, SchedulerInvStep, PTL DEF Spec

(* Every queued task but one has a worker on its way to the queue, whatever *)
(* the interleaving of the unlocked tests of schedule() with exec().        *)
THEOREM StrandedBound ==
    Spec => []AtMostOneStranded
<1>1. SchedulerInv => AtMostOneStranded
  <2> SUFFICES ASSUME SchedulerInv PROVE AtMostOneStranded
    BY Zenon
  <2>1. Cardinality(Available) \in Nat
    BY Zenon, FS_Subset, FS_CardinalityType, ThreadAssumption DEF Available
  <2>2. Len(queue) \in Nat
    BY DEF SchedulerInv, TypeOK
  <2> QED
    BY <2>1, <2>2 DEF SchedulerInv, Stranding, AtMostOneStranded
<1> QED
  BY <1>1, SchedulerInvariant, PTL

(* No push is missed by the sleeping workers.                              *)
THEOREM WakeupsKept ==
    Spec => []NoLostWakeup
<1>1. SchedulerInv => NoLostWakeup
  BY Zenon DEF SchedulerInv
<1> QED
  BY <1>1, SchedulerInvariant, PTL

(* With at least one spare thread no accepted task is left without a       *)
(* thread.                                                                 *)
THEOREM NoTaskOrphaned ==
    ASSUME MaxSpare >= 1
    PROVE  Spec => []NoOrphanedTask
<1>1. Init => SchedulerInv /\ WorkerForTask
  BY Zenon, SchedulerInvInit
<1>2. SchedulerInv /\ WorkerForTask /\ [Next]_vars => SchedulerInv' /\ WorkerForTask'
  BY Zenon, SchedulerInvStep, WorkerForTaskStep DEF SchedulerInv, Base
<1>3. WorkerForTask => NoOrphanedTask
  BY Zenon DEF WorkerForTask, NoOrphanedTask
<1> QED
  BY <1>1, <1>2, <1>3, PTL DEF Spec

-----------------------------------------------------------------------------
(* The steps of the scheduler are steps of the abstract pool.              *)
LEMMA PoolStep ==
    ASSUME SchedulerInv, [Next]_vars
    PROVE  [Pool!PoolNext]_(Pool!poolVars)
<1> USE DEF SchedulerInv, TypeOK, Pool!poolVars
<1>1. CASE UNCHANGED <<queue, task, done, shutdown>> /\ Holding' = Holding
  BY Zenon, <1>1 DEF Running
<1>2. CASE Push
  <2>1. Holding' = Holding
    BY Zenon, <1>2 DEF Push, NotifyOne, Go, Holding
  <2>2. Running' = Running
    BY Zenon, <1>2, <2>1 DEF Push, Running
  <2>3. next \in Task /\ next \in Int /\ ~shutdown
    BY <1>2, SettingsAssumption DEF Push, CallerPhase, Task
  <2>4. next \notin Pool!Backlogged
    BY <2>3 DEF Pool!Backlogged, TaskOrder
  <2>5. next \notin Running \cup done
    BY <2>3 DEF Running, TaskOrder
  <2>6. Pool!Submit(next)
    BY Zenon, <1>2, <2>2, <2>3, <2>4, <2>5 DEF Push, Pool!Submit
  <2> QED
    BY Zenon, <2>3, <2>6 DEF Pool!PoolNext
<1>3. CASE \E w \in Thread : Take(w)
  <2>1. PICK w \in Thread : Take(w)
    BY Zenon, <1>3
  <2>2. /\ Holding' = Holding \cup {w} /\ w \notin Holding
        /\ task'[w] = Head(queue)
        /\ \A v \in Holding : task'[v] = task[v]
    BY Zenon, <2>1 DEF Take, Go, Holding
  <2>3. Running' = Running \cup {Head(queue)}
    BY Zenon, <2>2 DEF Running
  <2>4. Pool!Begin
    BY Zenon, <2>1, <2>3 DEF Take, Pool!Begin
  <2> QED
    BY Zenon, <2>4 DEF Pool!PoolNext
<1>4. CASE \E w \in Thread : FinishTask(w)
  <2>1. PICK w \in Thread : FinishTask(w)
    BY <1>4
  <2>2. /\ Holding' = Holding \ {w} /\ w \in Holding
        /\ \A v \in Holding' : task'[v] = task[v]
        /\ done' = done \cup {task[w]}
        /\ UNCHANGED <<queue, shutdown>>
    BY Zenon, <2>1 DEF FinishTask, Go, Holding
  <2>3. task[w] \in Running /\ task[w] \in Task
    BY Zenon, <2>2 DEF Running, HoldersHaveTask
  <2>4. Running' = Running \ {task[w]}
    BY <2>2 DEF Running, TaskOrder
  <2>5. Pool!Finish(task[w])
    BY Zenon, <2>2, <2>3, <2>4 DEF Pool!Finish
  <2> QED
    BY Zenon, <2>3, <2>5 DEF Pool!PoolNext
<1>5. CASE \E w \in Thread : (Exec(w) \/ SpuriousWake(w)) /\ ~Take(w) /\ ~FinishTask(w)
  <2>1. PICK w \in Thread : (Exec(w) \/ SpuriousWake(w)) /\ ~Take(w) /\ ~FinishTask(w)
    BY Zenon, <1>5
  <2>2. UNCHANGED <<queue, task, done, shutdown>>
    BY Zenon, <2>1 DEF Exec, EnterExec, Sleep, SpuriousWake, SeeShutdown, Leave, StopWaiting, BeginTask,
       EndThread, PollAgain
  <2>3. Holding' = Holding
    BY Zenon, <2>1 DEF Exec, EnterExec, Sleep, SpuriousWake, SeeShutdown, Leave, StopWaiting, BeginTask,
       EndThread, PollAgain, Go, Holding
  <2> QED
    BY Zenon, <1>1, <2>2, <2>3
<1>6. CASE Spawn
  <2>1. Holding' = Holding
    BY Zenon, <1>6 DEF Spawn, Go, Holding
  <2> QED
    BY Zenon, <1>1, <1>6, <2>1 DEF Spawn
<1>7. CASE LoadFirstCounter \/ Refuse \/ Admit \/ SeeWaiter \/ KeepWorkers
  BY Zenon, <1>1, <1>7 DEF LoadFirstCounter, Refuse, Admit, SeeWaiter, KeepWorkers, Holding
<1>8. CASE Wait \/ Stopped \/ UNCHANGED vars
  <2>1. Holding' = Holding
    BY Zenon, <1>8 DEF Wait, LoadActive, LoadWaiting, NotifyAll, Stopped, vars, Holding
  <2> QED
    BY Zenon, <1>1, <1>8, <2>1 DEF Wait, LoadActive, LoadWaiting, NotifyAll, Stopped, vars
<1>9. CASE Shutdown
  <2>1. Running' = Running
    BY Zenon, <1>9 DEF Shutdown, Running, Holding
  <2>2. Pool!Close
    BY Zenon, <1>9, <2>1 DEF Shutdown, Pool!Close, CallerPhase
  <2> QED
    BY Zenon, <2>2 DEF Pool!PoolNext
<1> QED
  BY ZenonT(60), <1>2, <1>3, <1>4, <1>5, <1>6, <1>7, <1>8, <1>9 DEF Next, Schedule

(* The thread pool of simplescheduler.h implements the abstract pool: its  *)
(* tasks begin at most once, in order, and never after shutdown().         *)
THEOREM PoolImplemented ==
    Spec => ImplementsPool
<1>1. Init => Pool!PoolInit
  <2> SUFFICES ASSUME Init PROVE Pool!PoolInit
    OBVIOUS
  <2>1. Running = {}
    BY Zenon DEF Init, Running, Holding
  <2> QED
    BY Zenon, <2>1 DEF Init, Pool!PoolInit
<1>2. SchedulerInv /\ [Next]_vars => [Pool!PoolNext]_(Pool!poolVars)
  BY Zenon, PoolStep
<1> QED
  BY <1>1, <1>2, SchedulerInvariant, PTL DEF Spec, ImplementsPool, Pool!PoolSpec

=============================================================================
