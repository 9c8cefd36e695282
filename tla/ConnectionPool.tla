--------------------------- MODULE ConnectionPool ---------------------------
(***************************************************************************)
(* The pool of database connections: Database::grabdb and freedb           *)
(* (src/src/dbiwrapped-0.0.1/Database.cpp), the Query objects that hold a  *)
(* connection (Query.cpp) and the DBQuery objects of the data sources      *)
(* (src/src/dbdatasource.h), for one Database and many threads.  grabdb,   *)
(* freedb and ~Database hold the mutex from beginning to end: each is one  *)
(* step, the pings and the connect of grabdb included.                     *)
(***************************************************************************)
EXTENDS Naturals, FiniteSets

CONSTANTS
    Con,        \* dbi_conn handles: addresses, reused once a handle is closed
    Query,      \* DBQuery objects, at most one per thread at a time
    Source,     \* the DBDataSource objects of the Database
    NoCon,       \* no connection
    Spare       \* m_spareconnections

ASSUME PoolAssumption == Spare \in Nat /\ NoCon \notin Con /\ IsFiniteSet(Con)

VARIABLES
    free, used,     \* _free and _used
    lost,           \* handles whose connect failed: nobody closes them
    con,            \* con of each live Query, NoCon if there is no such object
    results,        \* connections with an open dbi_result (Query::res)
    sources,        \* data sources alive: each holds the Database
    alive           \* whether the Database object exists

poolVars == <<free, used, lost, con, results, sources, alive>>

Live == {q \in Query : con[q] # NoCon}

PoolInit ==
    /\ free = {} /\ used = {} /\ lost = {} /\ results = {}
    /\ con = [q \in Query |-> NoCon]
    /\ sources = Source
    /\ alive = TRUE

-----------------------------------------------------------------------------
\* Faulty variant: the connection is left in _free.
ReuseKept(q) ==
    /\ sources # {} /\ con[q] = NoCon
    /\ \E dead \in SUBSET free : \E c \in free \ dead :
          /\ free' = free \ dead
          /\ used' = used \cup {c}
          /\ con' = [con EXCEPT ![q] = c]
    /\ UNCHANGED <<lost, results, sources, alive>>

\* The loop of grabdb takes free connections until one answers the ping, and
\* closes those that do not.
Reuse(q) ==
    /\ sources # {} /\ con[q] = NoCon
    /\ \E dead \in SUBSET free : \E c \in free \ dead :
          /\ free' = free \ (dead \cup {c})
          /\ used' = used \cup {c}
          /\ con' = [con EXCEPT ![q] = c]
    /\ UNCHANGED <<lost, results, sources, alive>>

\* No free connection is alive: a new one is made.
Connect(q) ==
    /\ sources # {} /\ con[q] = NoCon
    /\ \E c \in Con \ (used \cup lost) :
          /\ used' = used \cup {c}
          /\ con' = [con EXCEPT ![q] = c]
    /\ free' = {}
    /\ UNCHANGED <<lost, results, sources, alive>>

\* An option or the connect fails: grabdb throws, the Query is never built
\* and the new handle is forgotten; dbi_conn_new may fail before there is one.
ConnectFails(q) ==
    /\ sources # {} /\ con[q] = NoCon
    /\ free' = {}
    /\ \/ \E c \in Con \ (used \cup lost) : lost' = lost \cup {c}
       \/ lost' = lost
    /\ UNCHANGED <<used, con, results, sources, alive>>

\* lookup, insert and update; a query that fails throws and has no result.
Execute(q) ==
    /\ con[q] # NoCon /\ con[q] \notin results
    /\ results' = results \cup {con[q]}
    /\ UNCHANGED <<free, used, lost, con, sources, alive>>

\* Faulty variant: the limit is forgotten.
KeptAlways(c) == free \cup {c}

\* freedb keeps a connection unless more than Spare are free already.
Kept(c) == IF Cardinality(free) > Spare THEN free ELSE free \cup {c}

\* Faulty variant: only data sources keep the Database alive.
HoldsSourcesOnly(src, queries, rest) ==
    /\ alive' = (src # {})
    /\ free' = IF src # {} THEN rest ELSE {}

\* What the last shared pointer to the Database leaves: ~Database closes all.
Holds(src, queries, rest) ==
    LET held == src # {} \/ queries # {} IN
    /\ alive' = held
    /\ free' = IF held THEN rest ELSE {}

\* Faulty variant: the result stays open.
DestroyUnfreed(q) ==
    /\ con[q] # NoCon
    /\ used' = used \ {con[q]}
    /\ con' = [con EXCEPT ![q] = NoCon]
    /\ Holds(sources, Live \ {q}, Kept(con[q]))
    /\ UNCHANGED <<lost, results, sources>>

\* ~DBQuery frees the result, ~Query gives the connection back, and then the
\* DBQuery lets go of the Database.
Destroy(q) ==
    /\ con[q] # NoCon
    /\ results' = results \ {con[q]}
    /\ used' = used \ {con[q]}
    /\ con' = [con EXCEPT ![q] = NoCon]
    /\ Holds(sources, Live \ {q}, Kept(con[q]))
    /\ UNCHANGED <<lost, sources>>

\* A reload replaces the configuration and a data source goes with it.
DropSource(s) ==
    /\ s \in sources
    /\ sources' = sources \ {s}
    /\ Holds(sources', Live, free)
    /\ UNCHANGED <<used, lost, con, results>>

PoolNext ==
    \/ \E q \in Query : Reuse(q) \/ Connect(q) \/ ConnectFails(q) \/ Execute(q) \/ Destroy(q)
    \/ \E s \in Source : DropSource(s)

PoolSpec == PoolInit /\ [][PoolNext]_poolVars

-----------------------------------------------------------------------------
PoolTypeOK ==
    /\ free \subseteq Con /\ used \subseteq Con /\ lost \subseteq Con
    /\ con \in [Query -> Con \cup {NoCon}]
    /\ results \subseteq Con /\ sources \subseteq Source /\ alive \in BOOLEAN

(* Each Query has a connection of its own: no two Query objects share one, *)
(* none of theirs is free to be grabbed, and _used holds exactly theirs,   *)
(* so that freedb never throws in ~Query (Database.h:151, Database.cpp:    *)
(* 193-196).                                                               *)
Exclusive ==
    /\ \A p, q \in Live : con[p] = con[q] => p = q
    /\ used = {con[q] : q \in Live}
    /\ used \cap free = {}

(* A connection is handed on without an open result of the query before    *)
(* it (dbdatasource.h:52-56, Query.cpp:90-99).                             *)
ResultsFreed == results \subseteq used

(* What freedb leaves idle is bounded; the bound is one more than          *)
(* m_spareconnections, because the size is compared before the insertion   *)
(* (Database.cpp:198-204).                                                 *)
FreeBounded == Cardinality(free) <= Spare + 1

(* The Database object lives as long as anybody can use it: when it goes,  *)
(* no Query is left and "destroying Database object before Query object"   *)
(* is never printed (Database.cpp:123-126).                                *)
DestroyedIdle == alive \/ (Live = {} /\ used = {} /\ free = {} /\ sources = {})

(* A connection nobody uses holds no result, idle connections are bounded, *)
(* and a destroyed Database leaves nothing in use (Database.cpp:117-206,   *)
(* Query.cpp:90-99).                                                       *)
PoolDrained == ResultsFreed /\ FreeBounded /\ DestroyedIdle

\* The inductive invariant.
PoolInv == PoolTypeOK /\ Exclusive /\ ResultsFreed /\ FreeBounded /\ DestroyedIdle
=============================================================================
