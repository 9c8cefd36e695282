---------------------------- MODULE CacheHandler ----------------------------
(***************************************************************************)
(* The caches of the cached matchers: CacheHandler (src/src/cachehandler.h)*)
(* with its read-write lock (readwriteable.h), the match and Factory of    *)
(* CachedExactMatch and CachedPatternMatch, which share them, CacheRefresh *)
(* (cacherefresh.h), which the monitor thread runs, and the reload that    *)
(* replaces the data sources.  There is one handler per kind of matcher;   *)
(* it finds a cache by the address of a data source.                       *)
(***************************************************************************)
EXTENDS Naturals, FiniteSets

CONSTANTS
    Worker,         \* worker threads
    Matcher,        \* cached matchers: records [handler, ds, column]
    Addr,           \* addresses of DataSource objects
    Table,          \* tables a data source may name
    None,           \* no cache, no lock holder
    MaxVersion,     \* bound: changes made to the tables by others
    MaxRefresh,     \* bound: refreshes
    MaxFailures,    \* bound: loads that fail
    MaxReloads      \* bound: reloads

Handler == {m.handler : m \in Matcher}
DS == {m.ds : m \in Matcher}

\* What a cache holds: the columns of a table, as they were at some version.
Entry == [table : Table, column : {m.column : m \in Matcher}, version : Nat]

ASSUME NoneAssumption == None \notin Worker /\ None \notin Entry

VARIABLES
    src,            \* the data sources: [addr, table] by name
    cache,          \* _caches: [table, column, version] by handler and address
    lock,           \* who holds the WLock of each handler
    registered,     \* handlers constructed: _functions of CacheRefresh
    pc, matcher,    \* where each worker is in match(), and of which matcher
    held,           \* the cache it uses or has just loaded
    version,        \* the state of the tables in the database
    todo,           \* handlers the running refresh has still to clear
    monitor,        \* "idle" or "run": inside CacheRefresh::run, with its mutex
    begun,          \* the version when that refresh began
    refreshed,      \* and when the last completed one began
    since,          \* refreshed, when the worker began its match
    loads,          \* loads of each cache since it was last cleared
    refreshes, failures, reloads

thread == <<pc, matcher, held, since>>
store == <<cache, lock, loads>>
refresh == <<todo, monitor, begun, refreshed, refreshes>>
vars == <<src, store, registered, thread, version, refresh, failures, reloads>>

Go(w, from, to) == pc[w] = from /\ pc' = [pc EXCEPT ![w] = to]
H(w) == matcher[w].handler
At(w) == src[matcher[w].ds].addr
Cached(w) == cache[H(w)][At(w)]

\* Distinct data sources have distinct addresses.
Placements(avoid) ==
    {s \in [DS -> [addr : Addr \ avoid, table : Table]] :
        \A d, e \in DS : s[d].addr = s[e].addr => d = e}

Init ==
    /\ src \in Placements({})
    /\ cache = [h \in Handler |-> [a \in Addr |-> None]]
    /\ lock = [h \in Handler |-> None]
    /\ loads = [h \in Handler |-> [a \in Addr |-> 0]]
    /\ registered = {} /\ todo = {} /\ monitor = "idle"
    /\ pc = [w \in Worker |-> "idle"]
    /\ matcher \in [Worker -> Matcher]
    /\ held = [w \in Worker |-> None]
    /\ version = 0 /\ begun = 0 /\ refreshed = 0 /\ since = [w \in Worker |-> 0]
    /\ refreshes = 0 /\ failures = 0 /\ reloads = 0

-----------------------------------------------------------------------------
Match(w) ==
    /\ Go(w, "idle", "instance")
    /\ \E m \in Matcher : matcher' = [matcher EXCEPT ![w] = m]
    /\ since' = [since EXCEPT ![w] = refreshed]
    /\ UNCHANGED <<src, store, registered, held, version, refresh, failures, reloads>>

\* instance(): the first call constructs the handler, which registers itself
\* under the mutex that a running refresh holds.
Instance(w) ==
    /\ Go(w, "instance", "get")
    /\ H(w) \in registered \/ monitor = "idle"
    /\ registered' = registered \cup {H(w)}
    /\ UNCHANGED <<src, store, matcher, held, since, version, refresh, failures, reloads>>

\* Faulty variant: after a miss get() is tried again, as if somebody else
\* were to create the cache.
GetAgain(w) ==
    /\ lock[H(w)] = None
    /\ IF Cached(w) # None THEN Go(w, "get", "use") ELSE Go(w, "get", "get")
    /\ held' = [held EXCEPT ![w] = Cached(w)]
    /\ UNCHANGED <<src, store, registered, matcher, since, version, refresh, failures, reloads>>

Get(w) ==
    /\ lock[H(w)] = None
    /\ IF Cached(w) # None THEN Go(w, "get", "use") ELSE Go(w, "get", "create")
    /\ held' = [held EXCEPT ![w] = Cached(w)]
    /\ UNCHANGED <<src, store, registered, matcher, since, version, refresh, failures, reloads>>

\* create(): the write lock, and a second look at the container.
Create(w) ==
    /\ lock[H(w)] = None
    /\ Go(w, "create", "find")
    /\ lock' = [lock EXCEPT ![H(w)] = w]
    /\ UNCHANGED <<src, cache, loads, registered, matcher, held, since, version, refresh,
                   failures, reloads>>

FindAgain(w) ==
    /\ Cached(w) # None
    /\ Go(w, "find", "use")
    /\ held' = [held EXCEPT ![w] = Cached(w)]
    /\ lock' = [lock EXCEPT ![H(w)] = None]
    /\ UNCHANGED <<src, cache, loads, registered, matcher, since, version, refresh,
                   failures, reloads>>

\* Faulty variant: create() loads without looking again.
LoadAnyway(w) ==
    /\ Go(w, "find", "insert")
    /\ held' = [held EXCEPT ![w] = [table |-> src[matcher[w].ds].table,
                                    column |-> matcher[w].column, version |-> version]]
    /\ UNCHANGED <<src, store, registered, matcher, since, version, refresh, failures, reloads>>

\* Factory::create reads the table while the lock is held.
Load(w) ==
    /\ Cached(w) = None
    /\ Go(w, "find", "insert")
    /\ held' = [held EXCEPT ![w] = [table |-> src[matcher[w].ds].table,
                                    column |-> matcher[w].column, version |-> version]]
    /\ UNCHANGED <<src, store, registered, matcher, since, version, refresh, failures, reloads>>

\* The query throws; the lock is released, the request answered with an error.
LoadFails(w) ==
    /\ failures < MaxFailures /\ Cached(w) = None
    /\ Go(w, "find", "idle")
    /\ failures' = failures + 1
    /\ lock' = [lock EXCEPT ![H(w)] = None]
    /\ UNCHANGED <<src, cache, loads, registered, matcher, held, since, version, refresh, reloads>>

Insert(w) ==
    /\ Go(w, "insert", "use")
    /\ cache' = [cache EXCEPT ![H(w)][At(w)] = held[w]]
    /\ loads' = [loads EXCEPT ![H(w)][At(w)] = @ + 1]
    /\ lock' = [lock EXCEPT ![H(w)] = None]
    /\ UNCHANGED <<src, registered, matcher, held, since, version, refresh, failures, reloads>>

\* The lookup in the cache, which nobody changes any more.
Use(w) ==
    /\ Go(w, "use", "idle")
    /\ held' = [held EXCEPT ![w] = None]
    /\ UNCHANGED <<src, store, registered, matcher, since, version, refresh, failures, reloads>>

-----------------------------------------------------------------------------
\* CacheRefresh::run
Refresh ==
    /\ monitor = "idle" /\ refreshes < MaxRefresh
    /\ monitor' = "run" /\ todo' = registered /\ begun' = version
    /\ refreshes' = refreshes + 1
    /\ UNCHANGED <<src, store, registered, thread, version, refreshed, failures, reloads>>

\* Faulty variant: clear() without the write lock.
ClearUnlocked(h) ==
    /\ h \in todo
    /\ cache' = [cache EXCEPT ![h] = [a \in Addr |-> None]]
    /\ loads' = [loads EXCEPT ![h] = [a \in Addr |-> 0]]
    /\ todo' = todo \ {h}
    /\ UNCHANGED <<src, lock, registered, thread, version, monitor, begun, refreshed, refreshes,
                   failures, reloads>>

\* Faulty variant: the loop does not move on.
ClearAgain(h) ==
    /\ h \in todo /\ lock[h] = None
    /\ cache' = [cache EXCEPT ![h] = [a \in Addr |-> None]]
    /\ loads' = [loads EXCEPT ![h] = [a \in Addr |-> 0]]
    /\ UNCHANGED <<src, lock, registered, thread, version, refresh, failures, reloads>>

Clear(h) ==
    /\ h \in todo /\ lock[h] = None
    /\ cache' = [cache EXCEPT ![h] = [a \in Addr |-> None]]
    /\ loads' = [loads EXCEPT ![h] = [a \in Addr |-> 0]]
    /\ todo' = todo \ {h}
    /\ UNCHANGED <<src, lock, registered, thread, version, monitor, begun, refreshed, refreshes,
                   failures, reloads>>

RefreshDone ==
    /\ monitor = "run" /\ todo = {}
    /\ monitor' = "idle" /\ refreshed' = begun
    /\ UNCHANGED <<src, store, registered, thread, version, todo, begun, refreshes, failures,
                   reloads>>

\* Somebody changes a table.
Change ==
    /\ version < MaxVersion
    /\ version' = version + 1
    /\ UNCHANGED <<src, store, registered, thread, refresh, failures, reloads>>

\* A reload: no handler and no monitor runs, the new data sources are made
\* before the old ones are destroyed, and the caches are left as they are.
Reload ==
    /\ reloads < MaxReloads
    /\ \A w \in Worker : pc[w] = "idle"
    /\ monitor = "idle"
    /\ src' \in Placements({src[d].addr : d \in DS})
    /\ reloads' = reloads + 1
    /\ UNCHANGED <<store, registered, thread, version, refresh, failures>>

Matching(w) ==
    \/ Instance(w) \/ Get(w) \/ Create(w) \/ FindAgain(w) \/ Load(w)
    \/ LoadFails(w) \/ Insert(w) \/ Use(w)
Refreshing == RefreshDone \/ \E h \in Handler : Clear(h)

Next ==
    \/ \E w \in Worker : Match(w) \/ Matching(w)
    \/ Refresh \/ Refreshing \/ Change \/ Reload

Spec == Init /\ [][Next]_vars
\* A thread inside match() and the monitor inside run() go on.
Fairness == WF_vars(Refreshing) /\ \A w \in Worker : WF_vars(Matching(w))

-----------------------------------------------------------------------------
TypeOK ==
    /\ src \in [DS -> [addr : Addr, table : Table]]
    /\ cache \in [Handler -> [Addr -> Entry \cup {None}]]
    /\ lock \in [Handler -> Worker \cup {None}]
    /\ loads \in [Handler -> [Addr -> Nat]]
    /\ registered \subseteq Handler /\ todo \subseteq registered
    /\ monitor \in {"idle", "run"}
    /\ pc \in [Worker -> {"idle", "instance", "get", "create", "find", "insert", "use"}]
    /\ matcher \in [Worker -> Matcher] /\ held \in [Worker -> Entry \cup {None}]
    /\ version \in Nat /\ begun \in Nat /\ refreshed \in Nat /\ since \in [Worker -> Nat]
    /\ refreshes \in Nat /\ failures \in Nat /\ reloads \in Nat

(* A match that begins after a refresh completed never uses data read      *)
(* before that refresh began, even if a load was under way when the caches *)
(* were cleared (cachehandler.h:53-69).                                    *)
Fresh == \A w \in Worker : pc[w] = "use" => held[w].version >= since[w]

(* Workers that miss the same cache at once load it once: between two      *)
(* clears a table is read into a cache at most one time                    *)
(* (cachehandler.h:60-68).                                                 *)
LoadedOnce == \A h \in Handler : \A a \in Addr : loads[h][a] <= 1

\* The write lock of a handler is held by the worker inside its create().
LockExact ==
    \A w \in Worker, h \in Handler :
        lock[h] = w <=> pc[w] \in {"find", "insert"} /\ H(w) = h

\* What the caches of a handler may not be older than: the running refresh if
\* it has been here, else the last one.
Floor(h) == IF monitor = "run" /\ h \notin todo THEN begun ELSE refreshed

\* Every cache, and every one about to be inserted, is as new as that.
FloorKept ==
    /\ refreshed <= begun /\ begun <= version /\ (monitor = "idle" => begun = refreshed)
    /\ \A h \in Handler : \A a \in Addr : cache[h][a] # None =>
          h \in registered /\ cache[h][a].version >= Floor(h)
    /\ \A w \in Worker :
          /\ since[w] <= refreshed
          /\ pc[w] \notin {"idle", "instance"} => H(w) \in registered
          /\ pc[w] \in {"insert", "use"} => held[w] # None
          /\ pc[w] = "insert" => held[w].version >= Floor(H(w))

\* Loads are counted exactly, and nobody inserts where there is a cache.
LoadsExact ==
    /\ \A h \in Handler : \A a \in Addr : loads[h][a] = IF cache[h][a] = None THEN 0 ELSE 1
    /\ \A w \in Worker : pc[w] = "insert" => Cached(w) = None

\* The inductive invariant.
CacheInv == TypeOK /\ LockExact /\ FloorKept /\ LoadsExact /\ Fresh

(* A refresh the monitor began ends, whatever the workers do and although  *)
(* loads fail: server.h:202 is followed by the wait for the next signal.   *)
RefreshCompletes == monitor = "run" ~> monitor = "idle"

(* Every match ends (cachehandler.h:59-76): nobody waits for a lock that   *)
(* is not given back.                                                      *)
MatchEnds == \A w \in Worker : pc[w] # "idle" ~> pc[w] = "idle"

(* "create or find a cache based on the handle DataSource"                 *)
(* (cachehandler.h:58): what a match uses was read from the table of its   *)
(* own data source and, "add the index column" (cachedexactmatch.h:53),    *)
(* indexed by its own column.                                              *)
OwnRows ==
    \A w \in Worker : pc[w] = "use" =>
        held[w].table = src[matcher[w].ds].table /\ held[w].column = matcher[w].column

-----------------------------------------------------------------------------
(* Small instances. *)

\* One matcher of each kind, on one data source.
Both == {[handler |-> "exact", ds |-> "d1", column |-> "address"],
         [handler |-> "pattern", ds |-> "d1", column |-> "expression"]}
\* One matcher.
Single == {[handler |-> "exact", ds |-> "d1", column |-> "address"]}

\* Addresses are only compared, so it is enough to start with one placement.
FirstPlacement == Init /\ src = CHOOSE s \in Placements({}) : TRUE
OnePlacement == FirstPlacement /\ [][Next]_vars /\ Fairness
=============================================================================
