------------------------- MODULE CacheHandlerProofs -------------------------
(***************************************************************************)
(* Caches are loaded once and never used after a refresh has made them     *)
(* stale, for any number of workers, matchers, refreshes and reloads.      *)
(***************************************************************************)
EXTENDS CacheHandler, TLAPS

-----------------------------------------------------------------------------
(* What every step keeps: the types and the owners of the locks.           *)

(* The cache a worker is after is one of its handler's.                    *)
LEMMA Typed ==
    ASSUME TypeOK, NEW w \in Worker
    PROVE  H(w) \in Handler /\ At(w) \in Addr
<1>1. matcher[w] \in Matcher
  BY Zenon DEF TypeOK
<1>2. H(w) \in Handler /\ matcher[w].ds \in DS
  BY Zenon, <1>1 DEF H, Handler, DS
<1>3. src[matcher[w].ds] \in [addr : Addr, table : Table]
  BY Zenon, <1>2 DEF TypeOK
<1>4. At(w) \in Addr
  BY Zenon, <1>3 DEF At
<1> QED BY Zenon, <1>2, <1>4

LEMMA CachedTyped ==
    ASSUME TypeOK, NEW w \in Worker
    PROVE  Cached(w) \in Entry \cup {None}
  BY Typed DEF TypeOK, Cached

(* What load() makes is a cache of the table of the matcher's data source. *)
LEMMA LoadTyped ==
    ASSUME TypeOK, NEW w \in Worker, Load(w)
    PROVE  \E e \in Entry : held' = [held EXCEPT ![w] = e] /\ e.version = version
<1> DEFINE e == [table |-> src[matcher[w].ds].table, column |-> matcher[w].column,
                 version |-> version]
<1>1. matcher[w] \in Matcher /\ version \in Nat
  BY Zenon DEF TypeOK
<1>2. matcher[w].ds \in DS /\ matcher[w].column \in {m.column : m \in Matcher}
  BY Zenon, <1>1 DEF DS
<1>3. src[matcher[w].ds] \in [addr : Addr, table : Table]
  BY Zenon, <1>2 DEF TypeOK
<1>4. e \in Entry
  BY Zenon, <1>1, <1>2, <1>3 DEF Entry
<1>5. held' = [held EXCEPT ![w] = e] /\ e.version = version
  BY Zenon DEF Load
<1> HIDE DEF e
<1> QED BY Zenon, <1>4, <1>5

(* What an insertion and a clearing do to the caches, place by place.      *)
LEMMA InsertStore ==
    ASSUME TypeOK, NEW w \in Worker, Insert(w)
    PROVE  /\ \A h \in Handler : \A a \in Addr :
                 /\ cache'[h][a] = IF h = H(w) /\ a = At(w) THEN held[w] ELSE cache[h][a]
                 /\ loads'[h][a] = IF h = H(w) /\ a = At(w) THEN loads[h][a] + 1 ELSE loads[h][a]
           /\ cache' \in [Handler -> [Addr -> Entry \cup {None}]]
           /\ loads' \in [Handler -> [Addr -> Nat]]
<1>1. H(w) \in Handler /\ At(w) \in Addr /\ held[w] \in Entry \cup {None}
  BY Zenon, Typed DEF TypeOK
<1>2. /\ cache \in [Handler -> [Addr -> Entry \cup {None}]]
      /\ loads \in [Handler -> [Addr -> Nat]]
  BY Zenon DEF TypeOK
<1>3. /\ cache' = [cache EXCEPT ![H(w)] = [cache[H(w)] EXCEPT ![At(w)] = held[w]]]
      /\ loads' = [loads EXCEPT ![H(w)] = [loads[H(w)] EXCEPT ![At(w)] = loads[H(w)][At(w)] + 1]]
  BY Zenon DEF Insert
<1> HIDE DEF H, At
<1>4. /\ [cache[H(w)] EXCEPT ![At(w)] = held[w]] \in [Addr -> Entry \cup {None}]
      /\ [loads[H(w)] EXCEPT ![At(w)] = loads[H(w)][At(w)] + 1] \in [Addr -> Nat]
  BY <1>1, <1>2
<1> QED BY Zenon, <1>1, <1>2, <1>3, <1>4

LEMMA ClearStore ==
    ASSUME TypeOK, NEW h \in Handler, Clear(h)
    PROVE  /\ \A g \in Handler : \A a \in Addr :
                 /\ cache'[g][a] = IF g = h THEN None ELSE cache[g][a]
                 /\ loads'[g][a] = IF g = h THEN 0 ELSE loads[g][a]
           /\ cache' \in [Handler -> [Addr -> Entry \cup {None}]]
           /\ loads' \in [Handler -> [Addr -> Nat]]
  BY Zenon DEF TypeOK, Clear

(* A step of a worker leaves the other workers' variables alone.           *)
LEMMA OthersKept ==
    ASSUME TypeOK, NEW w \in Worker, Match(w) \/ Matching(w), NEW v \in Worker, v # w
    PROVE  /\ pc'[v] = pc[v] /\ matcher'[v] = matcher[v] /\ held'[v] = held[v]
           /\ since'[v] = since[v] /\ H(v)' = H(v) /\ At(v)' = At(v)
  BY Zenon DEF TypeOK, Match, Matching, Instance, Get, Create, FindAgain, Load, LoadFails, Insert,
     Use, Go, H, At

(* And of its own, all but Match keep the matcher and since.               *)
LEMMA OwnKept ==
    ASSUME TypeOK, NEW w \in Worker, Matching(w)
    PROVE  /\ UNCHANGED <<src, matcher, since, version, todo, monitor, begun, refreshed>>
           /\ H(w)' = H(w) /\ At(w)' = At(w)
  BY Zenon DEF Matching, Instance, Get, Create, FindAgain, Load, LoadFails, Insert, Use, refresh,
     H, At, store

(* How a worker comes to insert or to use a cache, and who changes caches. *)
LEMMA Arrives ==
    ASSUME TypeOK, NEW w \in Worker, Match(w) \/ Matching(w)
    PROVE  /\ pc'[w] = "insert" => Load(w)
           /\ pc'[w] = "use" => Get(w) \/ FindAgain(w) \/ Insert(w)
           /\ ~Insert(w) => UNCHANGED <<cache, loads>>
<1>0. pc \in [Worker -> {pc[v] : v \in Worker}]
  BY Zenon DEF TypeOK
<1>1. CASE Match(w)
  <2>1. pc'[w] \notin {"insert", "use"} /\ UNCHANGED <<cache, loads>>
    BY Zenon, <1>0, <1>1 DEF Match, Go, store
  <2> QED BY Zenon, <2>1
<1>2. CASE Instance(w)
  <2>1. pc'[w] \notin {"insert", "use"} /\ UNCHANGED <<cache, loads>>
    BY Zenon, <1>0, <1>2 DEF Instance, Go, store
  <2> QED BY <2>1
<1>3. CASE Get(w)
  <2>1. pc'[w] # "insert" /\ UNCHANGED <<cache, loads>>
    BY Zenon, <1>0, <1>3 DEF Get, Go, store
  <2> QED BY Zenon, <1>3, <2>1
<1>4. CASE Create(w)
  <2>1. pc'[w] \notin {"insert", "use"} /\ UNCHANGED <<cache, loads>>
    BY Zenon, <1>0, <1>4 DEF Create, Go, store
  <2> QED BY <2>1
<1>5. CASE FindAgain(w)
  <2>1. pc'[w] # "insert" /\ UNCHANGED <<cache, loads>>
    BY Zenon, <1>0, <1>5 DEF FindAgain, Go, store
  <2> QED BY Zenon, <1>5, <2>1
<1>6. CASE Load(w)
  <2>1. pc'[w] = "insert" /\ UNCHANGED <<cache, loads>>
    BY Zenon, <1>0, <1>6 DEF Load, Go, store
  <2> QED BY Zenon, <1>6, <2>1
<1>7. CASE LoadFails(w)
  <2>1. pc'[w] \notin {"insert", "use"} /\ UNCHANGED <<cache, loads>>
    BY Zenon, <1>0, <1>7 DEF LoadFails, Go, store
  <2> QED BY <2>1
<1>8. CASE Insert(w)
  <2>1. pc'[w] # "insert"
    BY Zenon, <1>0, <1>8 DEF Insert, Go
  <2> QED BY Zenon, <1>8, <2>1
<1>9. CASE Use(w)
  <2>1. pc'[w] \notin {"insert", "use"} /\ UNCHANGED <<cache, loads>>
    BY Zenon, <1>0, <1>9 DEF Use, Go, store
  <2> QED BY <2>1
<1> QED BY Zenon, <1>1, <1>2, <1>3, <1>4, <1>5, <1>6, <1>7, <1>8, <1>9 DEF Matching

(* Every step keeps the variables in their types.                          *)
LEMMA TypeStep ==
    ASSUME TypeOK, [Next]_vars
    PROVE  TypeOK'
<1> USE DEF vars, thread, store, refresh, Go
<1>1. CASE UNCHANGED vars
  BY Zenon, <1>1 DEF TypeOK
<1>2. ASSUME NEW w \in Worker, Match(w) PROVE TypeOK'
  BY Zenon, <1>2 DEF Match, TypeOK
<1>3. ASSUME NEW w \in Worker, Instance(w) PROVE TypeOK'
  BY Zenon, <1>3, Typed DEF Instance, TypeOK
<1>4. ASSUME NEW w \in Worker, Get(w) PROVE TypeOK'
  <2>1. Cached(w) \in Entry \cup {None}
    BY Zenon, CachedTyped
  <2>2. PICK l \in {"use", "create"} : pc' = [pc EXCEPT ![w] = l]
    BY Zenon, <1>4 DEF Get
  <2> QED BY Zenon, <1>4, <2>1, <2>2 DEF Get, TypeOK
<1>5. ASSUME NEW w \in Worker, Create(w) PROVE TypeOK'
  BY Zenon, <1>5, Typed DEF Create, TypeOK
<1>6. ASSUME NEW w \in Worker, FindAgain(w) PROVE TypeOK'
  BY Zenon, <1>6, Typed, CachedTyped DEF FindAgain, TypeOK
<1>7. ASSUME NEW w \in Worker, Load(w) PROVE TypeOK'
  <2>1. PICK e \in Entry : held' = [held EXCEPT ![w] = e]
    BY Zenon, <1>7, LoadTyped
  <2> QED BY <1>7, <2>1 DEF Load, TypeOK
<1>8. ASSUME NEW w \in Worker, LoadFails(w) PROVE TypeOK'
  <2>1. H(w) \in Handler
    BY Zenon, Typed
  <2> QED BY <1>8, <2>1 DEF LoadFails, TypeOK
<1>9. ASSUME NEW w \in Worker, Insert(w) PROVE TypeOK'
  BY Zenon, <1>9, Typed, InsertStore DEF Insert, TypeOK
<1>10. ASSUME NEW w \in Worker, Use(w) PROVE TypeOK'
  BY Zenon, <1>10 DEF Use, TypeOK
<1>11. CASE Refresh
  BY <1>11 DEF Refresh, TypeOK
<1>12. ASSUME NEW h \in Handler, Clear(h) PROVE TypeOK'
  BY Zenon, <1>12, ClearStore DEF Clear, TypeOK
<1>13. CASE RefreshDone
  BY Zenon, <1>13 DEF RefreshDone, TypeOK
<1>14. CASE Change
  BY <1>14 DEF Change, TypeOK
<1>15. CASE Reload
  <2>1. src' \in [DS -> [addr : Addr, table : Table]]
    <3>1. PICK A : src' \in [DS -> [addr : Addr \ A, table : Table]]
      BY Zenon, <1>15 DEF Reload, Placements
    <3>2. ASSUME NEW d \in DS PROVE src'[d] \in [addr : Addr, table : Table]
      BY Zenon, <3>1
    <3> QED BY Zenon, <3>1, <3>2
  <2> QED BY <1>15, <2>1 DEF Reload, TypeOK
<1> QED
  BY Zenon, <1>1, <1>2, <1>3, <1>4, <1>5, <1>6, <1>7, <1>8, <1>9, <1>10, <1>11, <1>12, <1>13,
     <1>14, <1>15 DEF Next, Matching, Refreshing

(* The lock of a handler stays with the worker inside its create().        *)
LEMMA LockStep ==
    ASSUME TypeOK, LockExact, [Next]_vars
    PROVE  LockExact'
<1> USE NoneAssumption
<1> DEFINE Inside(w) == pc[w] \in {"find", "insert"}
<1>1. ASSUME UNCHANGED <<lock, pc, matcher>> PROVE LockExact'
  BY <1>1 DEF LockExact, H
<1>2. ASSUME NEW w \in Worker, UNCHANGED lock, ~Inside(w), ~Inside(w)',
             Match(w) \/ Matching(w)
      PROVE  LockExact'
  <2>1. \A v \in Worker : v # w => Inside(v)' = Inside(v) /\ H(v)' = H(v)
    BY Zenon, <1>2, OthersKept
  <2> QED BY <1>2, <2>1 DEF LockExact
<1>3. ASSUME NEW w \in Worker, Match(w) \/ Instance(w) \/ Get(w) \/ Use(w)
      PROVE  LockExact'
  <2>1. UNCHANGED lock /\ ~Inside(w) /\ ~Inside(w)'
    BY Zenon, <1>3 DEF Match, Instance, Get, Use, store, Go, TypeOK
  <2> QED BY Zenon, <1>2, <1>3, <2>1 DEF Matching
<1>4. ASSUME NEW w \in Worker, Load(w) PROVE LockExact'
  <2>1. UNCHANGED lock /\ Inside(w) /\ Inside(w)' /\ H(w)' = H(w)
    BY Zenon, <1>4, OwnKept DEF Matching, Load, store, Go, TypeOK
  <2>2. \A v \in Worker : v # w => Inside(v)' = Inside(v) /\ H(v)' = H(v)
    BY Zenon, <1>4, OthersKept DEF Matching
  <2> QED BY <2>1, <2>2 DEF LockExact
<1>5. ASSUME NEW w \in Worker, Create(w) PROVE LockExact'
  <2>1. /\ lock[H(w)] = None /\ ~Inside(w) /\ Inside(w)' /\ H(w)' = H(w)
        /\ \A h \in Handler : lock'[h] = IF h = H(w) THEN w ELSE lock[h]
    BY Zenon, <1>5, OwnKept DEF Matching, Create, Go, TypeOK
  <2>2. \A v \in Worker : v # w => Inside(v)' = Inside(v) /\ H(v)' = H(v)
    BY Zenon, <1>5, OthersKept DEF Matching
  <2> QED BY <2>1, <2>2 DEF LockExact
<1>6. ASSUME NEW w \in Worker, FindAgain(w) \/ LoadFails(w) \/ Insert(w) PROVE LockExact'
  <2>1. /\ Inside(w) /\ ~Inside(w)' /\ lock[H(w)] = w
        /\ \A h \in Handler : lock'[h] = IF h = H(w) THEN None ELSE lock[h]
    <3>1. H(w) \in Handler
      BY Zenon, Typed
    <3>2. Inside(w) /\ ~Inside(w)' /\ lock' = [lock EXCEPT ![H(w)] = None]
      BY Zenon, <1>6 DEF FindAgain, LoadFails, Insert, Go, TypeOK
    <3> QED BY <3>1, <3>2 DEF LockExact, TypeOK
  <2>2. \A v \in Worker : v # w => Inside(v)' = Inside(v) /\ H(v)' = H(v)
    BY Zenon, <1>6, OthersKept DEF Matching
  <2> QED BY <2>1, <2>2 DEF LockExact
<1> QED
  BY Zenon, <1>1, <1>3, <1>4, <1>5, <1>6 DEF Next, vars, Matching, Refreshing, Refresh, Clear,
     RefreshDone, Change, Reload, store, thread

-----------------------------------------------------------------------------
(* What the refreshes and the loads keep.                                  *)


(* A cache is loaded exactly when it is there, so once at most.            *)
LEMMA LoadsBounded ==
    ASSUME LoadsExact
    PROVE  LoadedOnce
<1>1. SUFFICES ASSUME NEW h \in Handler, NEW a \in Addr PROVE loads[h][a] <= 1
  BY Zenon DEF LoadedOnce
<1>2. loads[h][a] \in {0, 1}
  BY Zenon DEF LoadsExact
<1> QED BY <1>2

(* No step leaves a cache that is older than the floor of its handler.     *)
LEMMA FloorStep ==
    ASSUME TypeOK, LockExact, FloorKept, [Next]_vars
    PROVE  FloorKept'
<1> USE NoneAssumption
<1>1. refreshed \in Nat /\ begun \in Nat /\ version \in Nat
  BY Zenon DEF TypeOK
<1>2. \A h \in Handler : Floor(h) \in Nat /\ Floor(h) >= refreshed /\ Floor(h) <= version
  BY <1>1 DEF Floor, FloorKept
<1>3. \A h \in Handler : \A a \in Addr : cache[h][a] # None => cache[h][a].version \in Nat
  <2>1. \A h \in Handler : \A a \in Addr : cache[h][a] # None => cache[h][a] \in Entry
    BY DEF TypeOK
  <2> QED BY Zenon, <2>1 DEF Entry
<1>4. \A w \in Worker : held[w] # None => held[w].version \in Nat
  <2>1. \A w \in Worker : held[w] # None => held[w] \in Entry
    BY Zenon DEF TypeOK
  <2> QED BY Zenon, <2>1 DEF Entry
<1>5. CASE UNCHANGED vars
  BY Zenon, <1>5 DEF vars, thread, store, refresh, FloorKept, Floor, H
<1>6. ASSUME NEW w \in Worker, Match(w) PROVE FloorKept'
  <2>1. UNCHANGED <<cache, registered, version, todo, monitor, begun, refreshed>>
    BY Zenon, <1>6 DEF Match, store, refresh
  <2>2. pc'[w] = "instance" /\ since'[w] = refreshed
    BY Zenon, <1>6 DEF Match, Go, TypeOK
  <2>3. \A h \in Handler : Floor(h)' = Floor(h)
    BY Zenon, <2>1 DEF Floor
  <2>4. \A v \in Worker : H(v) \in Handler
    BY Zenon, Typed
  <2>5. \A v \in Worker : v # w => /\ pc'[v] = pc[v] /\ held'[v] = held[v]
                                  /\ since'[v] = since[v] /\ H(v)' = H(v)
    BY Zenon, <1>6, OthersKept
  <2>6. \A v \in Worker : /\ since'[v] <= refreshed'
                          /\ pc'[v] \notin {"idle", "instance"} => H(v)' \in registered'
                          /\ pc'[v] \in {"insert", "use"} => held'[v] # None
                          /\ pc'[v] = "insert" => held'[v].version >= Floor(H(v))'
    <3>1. ASSUME NEW v \in Worker, v # w PROVE Floor(H(v))' = Floor(H(v))
      BY Zenon, <2>1, <2>5, <3>1 DEF Floor
    <3> QED BY <1>1, <2>1, <2>2, <2>5, <3>1 DEF FloorKept
  <2> QED BY Zenon, <2>1, <2>3, <2>6 DEF FloorKept
<1>7. ASSUME NEW w \in Worker, Matching(w) PROVE FloorKept'
  <2>1. /\ UNCHANGED <<since, version, todo, monitor, begun, refreshed>>
        /\ H(w)' = H(w)
    BY Zenon, <1>7, OwnKept
  <2>2. \A h \in Handler : Floor(h)' = Floor(h)
    BY Zenon, <2>1 DEF Floor
  <2>3. \A v \in Worker : H(v) \in Handler
    BY Typed
  <2>4. registered \subseteq registered'
    BY Zenon, <1>7 DEF Matching, Instance, Get, Create, FindAgain, Load, LoadFails, Insert, Use
  <2>5. /\ pc'[w] \notin {"idle", "instance"} => H(w) \in registered'
        /\ pc'[w] \in {"insert", "use"} => held'[w] # None
        /\ pc'[w] = "insert" => held'[w].version >= Floor(H(w))
    <3>1. CASE Instance(w)
      BY Zenon, <3>1 DEF Instance, Go, TypeOK
    <3>2. CASE Get(w)
      BY Zenon, <3>2 DEF Get, Go, TypeOK, FloorKept
    <3>3. CASE Create(w)
      BY Zenon, <3>3 DEF Create, Go, TypeOK, FloorKept
    <3>4. CASE FindAgain(w)
      BY Zenon, <3>4 DEF FindAgain, Go, TypeOK, FloorKept
    <3>5. CASE Load(w)
      <4>1. PICK e \in Entry : held'[w] = e /\ e.version = version
        BY <3>5, LoadTyped DEF TypeOK
      <4> QED BY Zenon, <1>2, <2>3, <3>5, <4>1 DEF Load, Go, TypeOK, FloorKept
    <3>6. CASE LoadFails(w)
      BY Zenon, <3>6 DEF LoadFails, Go, TypeOK
    <3>7. CASE Insert(w)
      BY Zenon, <3>7 DEF Insert, Go, TypeOK, FloorKept
    <3>8. CASE Use(w)
      BY Zenon, <3>8 DEF Use, Go, TypeOK
    <3> QED BY Zenon, <1>7, <3>1, <3>2, <3>3, <3>4, <3>5, <3>6, <3>7, <3>8 DEF Matching
  <2>6. \A h \in Handler : \A a \in Addr : cache'[h][a] # None =>
           h \in registered' /\ cache'[h][a].version >= Floor(h)
    <3>1. CASE Insert(w)
      <4>1. pc[w] = "insert"
        BY Zenon, <3>1 DEF Insert, Go
      <4>2. SUFFICES ASSUME NEW h \in Handler, NEW a \in Addr, cache'[h][a] # None
                     PROVE  h \in registered' /\ cache'[h][a].version >= Floor(h)
        BY Zenon
      <4>3. cache'[h][a] = IF h = H(w) /\ a = At(w) THEN held[w] ELSE cache[h][a]
        BY Zenon, <3>1, InsertStore
      <4>4. H(w) \in registered /\ held[w].version >= Floor(H(w))
        BY Zenon, <4>1 DEF FloorKept
      <4>5. cache[h][a] # None => h \in registered /\ cache[h][a].version >= Floor(h)
        BY Zenon DEF FloorKept
      <4> QED BY Zenon, <2>4, <4>2, <4>3, <4>4, <4>5
    <3>2. CASE UNCHANGED cache
      BY Zenon, <2>4, <3>2 DEF FloorKept
    <3> QED BY Zenon, <1>7, <3>1, <3>2 DEF Matching, Instance, Get, Create, FindAgain, Load, LoadFails,
           Use, store
  <2>7. \A v \in Worker : v # w => pc'[v] = pc[v] /\ held'[v] = held[v] /\ H(v)' = H(v)
    BY Zenon, <1>7, OthersKept
  <2>8. \A v \in Worker : /\ since'[v] <= refreshed'
                          /\ pc'[v] \notin {"idle", "instance"} => H(v)' \in registered'
                          /\ pc'[v] \in {"insert", "use"} => held'[v] # None
                          /\ pc'[v] = "insert" => held'[v].version >= Floor(H(v))
    BY Zenon, <2>1, <2>4, <2>5, <2>7 DEF FloorKept
  <2>9. \A v \in Worker : Floor(H(v))' = Floor(H(v))
    <3>1. \A v \in Worker : H(v)' = H(v)
      BY Zenon, <2>1, <2>7
    <3> QED BY Zenon, <2>1, <3>1 DEF Floor
  <2> QED BY Zenon, <2>1, <2>2, <2>6, <2>8, <2>9 DEF FloorKept
<1>8. CASE Refresh
  <2>1. /\ monitor = "idle" /\ monitor' = "run" /\ todo' = registered /\ begun' = version
        /\ UNCHANGED <<cache, registered, pc, matcher, held, since, version, refreshed>>
    BY Zenon, <1>8 DEF Refresh, store, thread
  <2>2. \A h \in registered : Floor(h) = refreshed /\ Floor(h)' = refreshed
    BY Zenon, <2>1 DEF Floor
  <2>3. \A v \in Worker : H(v)' = H(v)
    BY Zenon, <2>1 DEF H
  <2>4. refreshed' <= begun' /\ begun' <= version' /\ (monitor' = "idle" => begun' = refreshed')
    BY <1>1, <2>1 DEF FloorKept
  <2>5. \A h \in Handler : \A a \in Addr : cache'[h][a] # None =>
           h \in registered' /\ cache'[h][a].version >= Floor(h)'
    BY Zenon, <2>1, <2>2 DEF FloorKept
  <2>6. \A v \in Worker : /\ since'[v] <= refreshed'
                          /\ pc'[v] \notin {"idle", "instance"} => H(v)' \in registered'
                          /\ pc'[v] \in {"insert", "use"} => held'[v] # None
                          /\ pc'[v] = "insert" => held'[v].version >= Floor(H(v))'
    <3>1. ASSUME NEW v \in Worker, H(v) \in registered PROVE Floor(H(v))' = Floor(H(v))
      BY Zenon, <2>1, <2>3, <3>1 DEF Floor
    <3> QED BY Zenon, <2>1, <2>3, <3>1 DEF FloorKept
  <2> QED BY Zenon, <2>4, <2>5, <2>6 DEF FloorKept
<1>9. ASSUME NEW g \in Handler, Clear(g) PROVE FloorKept'
  <2>1. UNCHANGED <<registered, pc, matcher, held, since, version, monitor, begun, refreshed>>
    BY Zenon, <1>9 DEF Clear, thread
  <2>2. \A h \in Handler : h # g => Floor(h)' = Floor(h)
    BY Zenon, <1>9 DEF Clear, Floor
  <2>3. \A v \in Worker : H(v)' = H(v) /\ H(v) \in Handler
    BY Zenon, <2>1, Typed DEF H
  <2>4. \A v \in Worker : pc[v] = "insert" => H(v) # g
    BY Zenon, <1>9 DEF Clear, LockExact
  <2>5. \A h \in Handler : \A a \in Addr : cache'[h][a] # None =>
           h \in registered' /\ cache'[h][a].version >= Floor(h)'
    <3>1. SUFFICES ASSUME NEW h \in Handler, NEW a \in Addr, cache'[h][a] # None
                   PROVE  h \in registered' /\ cache'[h][a].version >= Floor(h)'
      BY Zenon
    <3>2. h # g /\ cache'[h][a] = cache[h][a]
      BY Zenon, <1>9, <3>1, ClearStore
    <3> QED BY Zenon, <2>1, <2>2, <3>1, <3>2 DEF FloorKept
  <2>6. \A v \in Worker : /\ since'[v] <= refreshed'
                          /\ pc'[v] \notin {"idle", "instance"} => H(v)' \in registered'
                          /\ pc'[v] \in {"insert", "use"} => held'[v] # None
                          /\ pc'[v] = "insert" => held'[v].version >= Floor(H(v))'
    <3>1. ASSUME NEW v \in Worker, H(v) # g PROVE Floor(H(v))' = Floor(H(v))
      <4>1. H(v) \in todo' <=> H(v) \in todo
        BY Zenon, <1>9, <3>1 DEF Clear
      <4> QED BY Zenon, <2>1, <2>3, <4>1 DEF Floor
    <3> QED BY Zenon, <2>1, <2>3, <2>4, <3>1 DEF FloorKept
  <2> QED BY Zenon, <2>1, <2>5, <2>6 DEF FloorKept
<1>10. CASE RefreshDone
  <2>1. /\ monitor = "run" /\ monitor' = "idle" /\ todo = {} /\ refreshed' = begun
        /\ UNCHANGED <<cache, registered, pc, matcher, held, since, version, begun>>
    BY Zenon, <1>10 DEF RefreshDone, store, thread
  <2>2. \A h \in Handler : Floor(h)' = Floor(h)
    BY Zenon, <2>1 DEF Floor
  <2>3. \A v \in Worker : H(v)' = H(v) /\ H(v) \in Handler /\ since[v] \in Nat
    BY Zenon, <2>1, Typed DEF H, TypeOK
  <2>4. refreshed' <= begun' /\ begun' <= version' /\ refreshed <= refreshed' /\ begun' = refreshed'
    BY <1>1, <2>1 DEF FloorKept
  <2>5. \A h \in Handler : \A a \in Addr : cache'[h][a] # None =>
           h \in registered' /\ cache'[h][a].version >= Floor(h)'
    BY Zenon, <2>1, <2>2 DEF FloorKept
  <2>6. \A v \in Worker : since'[v] <= refreshed'
    BY <1>1, <2>1, <2>3, <2>4 DEF FloorKept
  <2>7. \A v \in Worker : /\ pc'[v] \notin {"idle", "instance"} => H(v)' \in registered'
                          /\ pc'[v] \in {"insert", "use"} => held'[v] # None
                          /\ pc'[v] = "insert" => held'[v].version >= Floor(H(v))'
    <3>1. \A v \in Worker : Floor(H(v))' = Floor(H(v))
      BY Zenon, <2>1, <2>3 DEF Floor
    <3> QED BY Zenon, <2>1, <2>3, <3>1 DEF FloorKept
  <2> QED BY Zenon, <2>4, <2>5, <2>6, <2>7 DEF FloorKept
<1>11. CASE Change
  <2>1. /\ version' = version + 1
        /\ UNCHANGED <<cache, registered, pc, matcher, held, since, begun, refreshed, monitor, todo>>
    BY Zenon, <1>11 DEF Change, store, thread, refresh
  <2>2. \A h : Floor(h)' = Floor(h)
    BY Zenon, <2>1 DEF Floor
  <2>3. \A v \in Worker : H(v)' = H(v)
    BY Zenon, <2>1 DEF H
  <2>4. refreshed' <= begun' /\ begun' <= version' /\ (monitor' = "idle" => begun' = refreshed')
    BY <1>1, <2>1 DEF FloorKept
  <2>5. \A v \in Worker : Floor(H(v))' = Floor(H(v))
    BY Zenon, <2>1, <2>3 DEF Floor
  <2> QED BY Zenon, <2>1, <2>2, <2>3, <2>4, <2>5 DEF FloorKept
<1>12. CASE Reload
  <2>1. UNCHANGED <<cache, registered, pc, matcher, held, since, version, begun, refreshed,
                    monitor, todo>>
    BY Zenon, <1>12 DEF Reload, store, thread, refresh
  <2> QED BY Zenon, <2>1 DEF FloorKept, Floor, H
<1> QED
  BY Zenon, <1>5, <1>6, <1>7, <1>8, <1>9, <1>10, <1>11, <1>12 DEF Next, Refreshing

(* Every step keeps what the matches use fresh.                            *)
LEMMA FreshStep ==
    ASSUME TypeOK, FloorKept, Fresh, [Next]_vars
    PROVE  Fresh'
<1> USE NoneAssumption
<1>1. \A v \in Worker : H(v) \in Handler /\ At(v) \in Addr
  BY Zenon, Typed
<1>2. \A h \in Handler : Floor(h) \in Nat /\ Floor(h) >= refreshed
  BY DEF Floor, FloorKept, TypeOK
<1>3. CASE UNCHANGED <<pc, held, since>>
  BY Zenon, <1>3 DEF Fresh
<1>4. ASSUME NEW w \in Worker, Match(w) \/ Matching(w) PROVE Fresh'
  <2>1. \A v \in Worker : v # w /\ pc'[v] = "use" => held'[v].version >= since'[v]
    BY Zenon, <1>4, OthersKept DEF Fresh
  <2>2. CASE pc'[w] # "use"
    BY Zenon, <2>1, <2>2 DEF Fresh
  <2>3. CASE pc'[w] = "use"
    <3>1. since'[w] = since[w] /\ (Get(w) \/ FindAgain(w) \/ Insert(w))
      <4>1. Get(w) \/ FindAgain(w) \/ Insert(w)
        BY Zenon, <1>4, <2>3, Arrives
      <4>2. UNCHANGED since
        BY Zenon, <4>1, OwnKept DEF Matching
      <4> QED BY Zenon, <4>1, <4>2
    <3>2. held'[w] # None /\ held'[w].version >= Floor(H(w)) /\ held'[w] \in Entry
      <4>1. CASE Insert(w)
        BY Zenon, <4>1 DEF Insert, Go, FloorKept, TypeOK
      <4>2. CASE Get(w) \/ FindAgain(w)
        <5>1. Cached(w) # None /\ held'[w] = Cached(w)
          BY Zenon, <2>3, <4>2 DEF Get, FindAgain, Go, TypeOK
        <5>2. Cached(w) \in Entry
          BY Zenon, <5>1, CachedTyped
        <5> QED BY Zenon, <1>1, <5>1, <5>2 DEF FloorKept, Cached
      <4> QED BY Zenon, <3>1, <4>1, <4>2
    <3>3. since[w] \in Nat /\ since[w] <= refreshed /\ refreshed \in Nat
      BY Zenon DEF FloorKept, TypeOK
    <3>4. held'[w].version \in Nat
      BY Zenon, <3>2 DEF Entry
    <3>5. held'[w].version >= since'[w]
      BY <1>1, <1>2, <3>1, <3>2, <3>3, <3>4
    <3> QED BY Zenon, <2>1, <3>5 DEF Fresh
  <2> QED BY Zenon, <2>2, <2>3
<1> QED
  BY Zenon, <1>3, <1>4 DEF Next, vars, Refreshing, Refresh, Clear, RefreshDone, Change, Reload, thread

(* Every step counts loads exactly.                                        *)
LEMMA LoadsStep ==
    ASSUME TypeOK, LockExact, FloorKept, LoadsExact, [Next]_vars
    PROVE  LoadsExact'
<1> USE NoneAssumption
<1>1. \A v \in Worker : H(v) \in Handler /\ At(v) \in Addr
  BY Zenon, Typed
<1>2. CASE UNCHANGED <<cache, loads, pc, matcher, src>>
  BY Zenon, <1>2 DEF LoadsExact, Cached, H, At
<1>3. ASSUME NEW w \in Worker, Match(w) \/ Matching(w), UNCHANGED <<cache, loads>>
      PROVE  LoadsExact'
  <2>1. \A v \in Worker : v # w /\ pc'[v] = "insert" => Cached(v)' = None
    BY <1>3, OthersKept DEF LoadsExact, Cached
  <2>2. pc'[w] = "insert" => Load(w)
    BY Zenon, <1>3, Arrives
  <2>3. Load(w) => Cached(w)' = None
    BY Zenon, <1>3 DEF Load, Cached, H, At
  <2> QED BY Zenon, <1>3, <2>1, <2>2, <2>3 DEF LoadsExact
<1>4. ASSUME NEW w \in Worker, Insert(w) PROVE LoadsExact'
  <2>1. pc[w] = "insert" /\ pc'[w] = "use" /\ Cached(w) = None /\ held[w] # None
    BY Zenon, <1>4 DEF Insert, Go, TypeOK, LoadsExact, FloorKept
  <2>2. \A v \in Worker : v # w /\ pc[v] = "insert" => H(v) # H(w)
    <3>1. SUFFICES ASSUME NEW v \in Worker, v # w, pc[v] = "insert", H(v) = H(w)
                   PROVE  FALSE
      BY Zenon
    <3>2. lock[H(w)] = w
      BY Zenon, <1>1, <2>1 DEF LockExact
    <3>3. lock[H(v)] = v
      BY Zenon, <1>1, <3>1 DEF LockExact
    <3> QED BY Zenon, <3>1, <3>2, <3>3
  <2>3. \A v \in Worker : v # w => pc'[v] = pc[v] /\ H(v)' = H(v) /\ At(v)' = At(v)
    BY Zenon, <1>4, OthersKept DEF Matching
  <2>4. \A v \in Worker : pc'[v] = "insert" => Cached(v)' = None
    <3>1. SUFFICES ASSUME NEW v \in Worker, pc'[v] = "insert" PROVE Cached(v)' = None
      BY Zenon
    <3>2. v # w /\ pc[v] = "insert" /\ H(v) # H(w) /\ H(v)' = H(v) /\ At(v)' = At(v)
      BY Zenon, <2>1, <2>2, <2>3, <3>1
    <3>3. cache'[H(v)][At(v)] = cache[H(v)][At(v)]
      BY Zenon, <1>1, <1>4, <3>2, InsertStore
    <3>4. Cached(v)' = cache'[H(v)'][At(v)'] /\ Cached(v) = None
      BY Zenon, <3>2 DEF LoadsExact, Cached
    <3> QED BY Zenon, <3>2, <3>3, <3>4 DEF Cached
  <2>5. \A h \in Handler : \A a \in Addr : loads'[h][a] = IF cache'[h][a] = None THEN 0 ELSE 1
    <3>1. SUFFICES ASSUME NEW h \in Handler, NEW a \in Addr
                   PROVE  loads'[h][a] = IF cache'[h][a] = None THEN 0 ELSE 1
      BY Zenon
    <3>2. /\ cache'[h][a] = IF h = H(w) /\ a = At(w) THEN held[w] ELSE cache[h][a]
          /\ loads'[h][a] = IF h = H(w) /\ a = At(w) THEN loads[h][a] + 1 ELSE loads[h][a]
      BY Zenon, <1>4, InsertStore
    <3>3. loads[h][a] = IF cache[h][a] = None THEN 0 ELSE 1
      BY Zenon DEF LoadsExact
    <3>4. cache[H(w)][At(w)] = None
      BY Zenon, <2>1 DEF Cached
    <3> QED BY <2>1, <3>2, <3>3, <3>4
  <2> QED BY Zenon, <2>4, <2>5 DEF LoadsExact
<1>5. ASSUME NEW g \in Handler, Clear(g) PROVE LoadsExact'
  <2>1. UNCHANGED <<pc, matcher, src>>
    BY Zenon, <1>5 DEF Clear, thread
  <2>2. \A v \in Worker : H(v)' = H(v) /\ At(v)' = At(v)
    BY Zenon, <2>1 DEF H, At
  <2>3. \A h \in Handler : \A a \in Addr : loads'[h][a] = IF cache'[h][a] = None THEN 0 ELSE 1
    BY <1>5, ClearStore DEF LoadsExact
  <2>4. \A v \in Worker : pc'[v] = "insert" => Cached(v)' = None
    <3> SUFFICES ASSUME NEW v \in Worker, pc[v] = "insert" PROVE cache'[H(v)][At(v)] = None
      BY Zenon, <2>1, <2>2 DEF Cached
    <3>1. cache[H(v)][At(v)] = None
      BY Zenon DEF LoadsExact, Cached
    <3> QED BY Zenon, <1>1, <1>5, <3>1, ClearStore
  <2> QED BY Zenon, <2>3, <2>4 DEF LoadsExact
<1>6. CASE Reload
  <2>1. UNCHANGED <<cache, loads, pc>> /\ \A v \in Worker : pc'[v] = "idle"
    BY Zenon, <1>6 DEF Reload, store, thread
  <2> QED BY Zenon, <2>1 DEF LoadsExact
<1> QED
  <2>1. CASE \E w \in Worker : Match(w) \/ Matching(w)
    BY Zenon, <1>3, <1>4, <2>1, Arrives
  <2>2. CASE Refresh \/ RefreshDone \/ Change \/ UNCHANGED vars
    BY Zenon, <1>2, <2>2 DEF Refresh, RefreshDone, Change, store, thread, vars
  <2> QED BY Zenon, <1>5, <1>6, <2>1, <2>2 DEF Next, Refreshing

-----------------------------------------------------------------------------
(* The invariant of the caches, their locks and the refresh.               *)
THEOREM CacheInvariant == Spec => []CacheInv
<1>1. Init => CacheInv
  <2> SUFFICES ASSUME Init PROVE CacheInv
    BY Zenon
  <2>1. src \in [DS -> [addr : Addr, table : Table]]
    <3>1. src \in [DS -> [addr : Addr \ {}, table : Table]]
      BY Zenon DEF Init, Placements
    <3> QED BY Zenon, <3>1
  <2>2. TypeOK
    BY Zenon, <2>1 DEF Init, TypeOK
  <2>3. LockExact
    BY Zenon, NoneAssumption DEF Init, LockExact
  <2>4. FloorKept /\ LoadsExact /\ Fresh
    BY DEF Init, FloorKept, LoadsExact, Fresh
  <2> QED BY Zenon, <2>2, <2>3, <2>4 DEF CacheInv
<1>2. CacheInv /\ [Next]_vars => CacheInv'
  BY Zenon, TypeStep, LockStep, FloorStep, LoadsStep, FreshStep DEF CacheInv
<1> QED BY <1>1, <1>2, PTL DEF Spec

(* A match begun after a refresh uses nothing older than that refresh      *)
(* (cachehandler.h:53-69).                                                 *)
THEOREM CacheFresh == Spec => []Fresh
<1>1. CacheInv => Fresh
  BY Zenon DEF CacheInv
<1> QED BY <1>1, CacheInvariant, PTL

(* Between two clears a cache is loaded at most once                       *)
(* (cachehandler.h:60-68).                                                 *)
THEOREM CacheLoadedOnce == Spec => []LoadedOnce
<1>1. CacheInv => LoadedOnce
  BY Zenon, LoadsBounded DEF CacheInv
<1> QED BY <1>1, CacheInvariant, PTL
=============================================================================
