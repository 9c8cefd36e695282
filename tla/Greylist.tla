------------------------------ MODULE Greylist ------------------------------
(***************************************************************************)
(* The greylist policy, src/src/greylist.h: Greylist::decide, run by       *)
(* several workers at once against one table of the database.  Each query  *)
(* is atomic, decide() is not: it is a SELECT followed, perhaps much       *)
(* later, by an INSERT or an UPDATE.  The clock is time(), which may be    *)
(* set back.                                                               *)
(***************************************************************************)
EXTENDS Naturals, Sequences, FiniteSets

CONSTANTS
    Worker,         \* worker threads
    Triplet,        \* requests: records [pair, name, net, host]
    Setup,          \* records [mode, indexed]: _mode, and whether the table has a
                    \* unique index on the triplet
    Timeout,        \* _timeout, seconds
    MaxTime,        \* bound: the clock
    MaxDecisions    \* bound: requests decided

ASSUME SettingAssumption ==
    /\ Setup \subseteq [mode : {"reverse", "weak", "normal"}, indexed : BOOLEAN]
    /\ Timeout \in Nat /\ MaxTime \in Nat /\ MaxDecisions \in Nat
ASSUME WorkerAssumption == IsFiniteSet(Worker)

VARIABLES
    setup,          \* one of Setup, chosen with the configuration
    table,          \* the rows; a row's id is its position
    clock,          \* time(), always after the epoch
    pc,             \* where each worker is in decide()
    req,            \* its triplet
    id,             \* the id local: the row found
    count, uts,     \* the count and uts locals
    lNow,           \* the lNow local
    decisions,      \* how many requests were taken up
    saw,            \* history: the rows there were when a worker found none
    history         \* per row: when it was inserted, what its worker saw, when
                    \* first let through, and how many requests it let through

locals == <<req, id, count, uts, lNow>>
vars == <<setup, table, clock, pc, locals, decisions, saw, history>>

Row == [key : Triplet, count : Nat, uts : Nat]
Past == [born : Nat, saw : Nat, first : Nat, passes : Nat]
DecidePc == {"idle", "find", "stamp", "insert", "decide", "increment", "wait"}

(* The WHERE clause of findTriplet: sender and recipient, and the client   *)
(* by its short name, by the first weakbytes bytes of its address, or by   *)
(* its address.  A client without a name is looked up by its network.      *)
LookupMode(t) == IF setup.mode = "reverse" /\ t.name = "" THEN "weak" ELSE setup.mode
Matches(k, t) ==
    /\ k.pair = t.pair
    /\ LookupMode(t) = "reverse" => k.name = t.name
    /\ LookupMode(t) = "weak" => k.net = t.net
    /\ LookupMode(t) = "normal" => k.net = t.net /\ k.host = t.host
Found(t) == {i \in DOMAIN table : Matches(table[i].key, t)}

Go(w, from, to) == pc[w] = from /\ pc' = [pc EXCEPT ![w] = to]

Init ==
    /\ setup \in Setup
    /\ table = <<>> /\ history = <<>> /\ saw = [w \in Worker |-> 0]
    /\ clock = 1
    /\ pc = [w \in Worker |-> "idle"]
    /\ req \in [Worker -> Triplet]
    /\ id = [w \in Worker |-> 0]
    /\ count = [w \in Worker |-> 0] /\ uts = [w \in Worker |-> 0]
    /\ lNow = [w \in Worker |-> 0]
    /\ decisions = 0

-----------------------------------------------------------------------------
Decide(w) ==
    /\ decisions < MaxDecisions
    /\ Go(w, "idle", "find")
    /\ \E t \in Triplet : req' = [req EXCEPT ![w] = t]
    /\ decisions' = decisions + 1
    /\ UNCHANGED <<table, clock, id, count, uts, lNow, saw, history>>

\* The row is the first one of the result, in whatever order the database has.
FindTriplet(w) ==
    /\ \E i \in Found(req[w]) :
          /\ id' = [id EXCEPT ![w] = i]
          /\ count' = [count EXCEPT ![w] = table[i].count]
          /\ uts' = [uts EXCEPT ![w] = table[i].uts]
    /\ Go(w, "find", "decide")
    /\ UNCHANGED <<table, clock, req, lNow, decisions, saw, history>>

\* Faulty variant: rows that never let a request through are not looked at.
FindNoTripletPassed(w) ==
    /\ \A i \in Found(req[w]) : table[i].count = 0
    /\ Go(w, "find", "stamp")
    /\ saw' = [saw EXCEPT ![w] = Len(table)]
    /\ UNCHANGED <<table, clock, locals, decisions, history>>

FindNoTriplet(w) ==
    /\ Found(req[w]) = {}
    /\ Go(w, "find", "stamp")
    /\ saw' = [saw EXCEPT ![w] = Len(table)]
    /\ UNCHANGED <<table, clock, locals, decisions, history>>

StampInsert(w) ==
    /\ Go(w, "stamp", "insert")
    /\ lNow' = [lNow EXCEPT ![w] = clock]
    /\ UNCHANGED <<table, clock, req, id, count, uts, decisions, saw, history>>

\* Faulty variant: the row is inserted again when the answer is lost.
InsertTripletAgain(w) ==
    /\ \E l \in {"idle", "insert"} : Go(w, "insert", l)
    /\ setup.indexed => \A i \in DOMAIN table : table[i].key # req[w]
    /\ table' = Append(table, [key |-> req[w], count |-> 0, uts |-> lNow[w]])
    /\ history' = Append(history, [born |-> lNow[w], saw |-> saw[w], first |-> 0, passes |-> 0])
    /\ UNCHANGED <<clock, locals, decisions, saw>>

InsertTriplet(w) ==
    /\ Go(w, "insert", "idle")
    /\ setup.indexed => \A i \in DOMAIN table : table[i].key # req[w]
    /\ table' = Append(table, [key |-> req[w], count |-> 0, uts |-> lNow[w]])
    /\ history' = Append(history, [born |-> lNow[w], saw |-> saw[w], first |-> 0, passes |-> 0])
    /\ UNCHANGED <<clock, locals, decisions, saw>>

\* Error 1062 (duplicate entry) is swallowed by DBQuery::insert.
InsertDuplicate(w) ==
    /\ setup.indexed /\ \E i \in DOMAIN table : table[i].key = req[w]
    /\ Go(w, "insert", "idle")
    /\ UNCHANGED <<table, clock, locals, decisions, saw, history>>

\* lTimeDiff: a row from the future has waited for no time at all.
TimeDiff(w, now) == IF uts[w] < now THEN now - uts[w] ELSE 0

\* Faulty variant: without that test the unsigned difference wraps around.
PassWrapped(w) ==
    /\ Go(w, "decide", "increment")
    /\ lNow' = [lNow EXCEPT ![w] = clock]
    /\ count[w] > 0 \/ (2^16 + clock - uts[w]) % 2^16 > Timeout
    /\ UNCHANGED <<table, clock, req, id, count, uts, decisions, saw, history>>

Pass(w) ==
    /\ Go(w, "decide", "increment")
    /\ lNow' = [lNow EXCEPT ![w] = clock]
    /\ count[w] > 0 \/ TimeDiff(w, clock) > Timeout
    /\ UNCHANGED <<table, clock, req, id, count, uts, decisions, saw, history>>

\* Faulty variant: a row is asked for its age even if it let a request through.
DeferByAge(w) ==
    /\ Go(w, "decide", "wait")
    /\ TimeDiff(w, clock) <= Timeout
    /\ lNow' = [lNow EXCEPT ![w] = clock]
    /\ UNCHANGED <<table, clock, req, id, count, uts, decisions, saw, history>>

\* Faulty variant: deferring again restarts the waiting time.
DeferRestarting(w) ==
    /\ Go(w, "decide", "wait")
    /\ ~(count[w] > 0 \/ TimeDiff(w, clock) > Timeout)
    /\ lNow' = [lNow EXCEPT ![w] = clock]
    /\ table' = [table EXCEPT ![id[w]].uts = clock]
    /\ UNCHANGED <<clock, req, id, count, uts, decisions, saw, history>>

Defer(w) ==
    /\ Go(w, "decide", "wait")
    /\ ~(count[w] > 0 \/ TimeDiff(w, clock) > Timeout)
    /\ lNow' = [lNow EXCEPT ![w] = clock]
    /\ UNCHANGED <<table, clock, req, id, count, uts, decisions, saw, history>>

\* What an UPDATE to the given count does to the row, and what it records.
Updated(w, c) == [key |-> table[id[w]].key, count |-> c, uts |-> lNow[w]]
Recorded(w) ==
    LET p == history[id[w]] IN
    [born |-> p.born, saw |-> p.saw, first |-> IF p.passes = 0 THEN lNow[w] ELSE p.first,
     passes |-> p.passes + 1]

\* Faulty variant: the count read by the SELECT is written back.
IncrementStale(w) ==
    /\ Go(w, "increment", "idle")
    /\ table' = [table EXCEPT ![id[w]] = Updated(w, count[w] + 1)]
    /\ history' = [history EXCEPT ![id[w]] = Recorded(w)]
    /\ UNCHANGED <<clock, locals, decisions, saw>>

\* UPDATE ... SET count = count + 1, uts = lNow WHERE id = id; then "dunno".
IncrementTriplet(w) ==
    /\ Go(w, "increment", "idle")
    /\ table' = [table EXCEPT ![id[w]] = Updated(w, table[id[w]].count + 1)]
    /\ history' = [history EXCEPT ![id[w]] = Recorded(w)]
    /\ UNCHANGED <<clock, locals, decisions, saw>>

\* The "wait" reply leaves decide().
Reply(w) ==
    /\ Go(w, "wait", "idle")
    /\ UNCHANGED <<table, clock, locals, decisions, saw, history>>

\* Any query may throw; the handler then answers with the error action.
QueryFails(w) ==
    /\ \E l \in {"find", "insert", "increment"} : Go(w, l, "idle")
    /\ UNCHANGED <<table, clock, locals, decisions, saw, history>>

\* Time passes, or the clock is set back.
SetClock ==
    /\ clock' \in 1..MaxTime
    /\ clock' <= clock + 1
    /\ UNCHANGED <<table, pc, locals, decisions, saw, history>>

Next ==
    /\ UNCHANGED setup
    /\ \/ \E w \in Worker :
             \/ Decide(w) \/ FindTriplet(w) \/ FindNoTriplet(w)
             \/ StampInsert(w) \/ InsertTriplet(w) \/ InsertDuplicate(w)
             \/ Pass(w) \/ Defer(w) \/ IncrementTriplet(w) \/ Reply(w) \/ QueryFails(w)
       \/ SetClock

Spec == Init /\ [][Next]_vars

-----------------------------------------------------------------------------
TypeOK ==
    /\ table \in Seq(Row) /\ history \in Seq(Past)
    /\ clock \in Nat /\ decisions \in Nat
    /\ pc \in [Worker -> DecidePc] /\ req \in [Worker -> Triplet]
    /\ id \in [Worker -> Nat] /\ count \in [Worker -> Nat]
    /\ uts \in [Worker -> Nat] /\ lNow \in [Worker -> Nat] /\ saw \in [Worker -> Nat]

(* No update is lost: a row's count is the number of requests it let       *)
(* through, however the SELECTs and UPDATEs of the workers interleave      *)
(* (greylist.h:120-127, dbdatasource.h:146-152).                           *)
CountExact ==
    /\ Len(history) = Len(table)
    /\ \A i \in 1..Len(table) : table[i].count = history[i].passes

(* Greylisting proper: the first request a row lets through comes more     *)
(* than _timeout seconds after the row was inserted, also when the clock   *)
(* was set back in between (greylist.h:41-48).                             *)
NeverEarly ==
    \A i \in 1..Len(history) :
        history[i].passes > 0 => history[i].first > history[i].born + Timeout

(* Retrying too early costs nothing: a request is deferred with "wait"     *)
(* only within _timeout seconds of the insertion of its row or before it   *)
(* by the clock, never because an earlier retry moved uts                  *)
(* (greylist.h:41-53).                                                     *)
NotPostponed ==
    \A w \in Worker : pc[w] = "wait" => lNow[w] <= history[id[w]].born + Timeout

(* Find and insert are not atomic (greylist.h:35-36), so workers may       *)
(* insert the same triplet twice; but no more often than there are         *)
(* workers.                                                                *)
RowsOf(t) == {i \in DOMAIN table : table[i].key = t}
DuplicatesBounded == \A t \in Triplet : Cardinality(RowsOf(t)) <= Cardinality(Worker)

\* The worker that inserted the later of two rows found none before the
\* earlier one was there.
Overlapped(i, j) ==
    \/ i < j /\ history[j].saw < i
    \/ j < i /\ history[i].saw < j

(* A triplet that has passed is not kept waiting again: a request is told  *)
(* to wait although a row of the same triplet let one through only when    *)
(* that is another row, inserted by a request that overlapped with the     *)
(* insertion of this one, or when the clock shows a time before the row    *)
(* first let one through; and a request is recorded as new only if every   *)
(* row of its triplet is younger than its lookup.  Of several rows that    *)
(* match, those of other clients included that share the name or the       *)
(* network, whichever the database puts first decides alone                *)
(* (greylist.h:35-53, 90-102).                                             *)
OncePassed ==
    \A w \in Worker :
        /\ pc[w] = "wait" =>
              \A i \in RowsOf(table[id[w]].key) : table[i].count > 0 =>
                  \/ i = id[w] /\ lNow[w] < history[i].first
                  \/ Overlapped(i, id[w])
        /\ pc[w] \in {"stamp", "insert"} => \A i \in RowsOf(req[w]) : i > saw[w]

\* What a worker read stays true of its row until the row is let through.
LocalsExact ==
    \A w \in Worker :
        pc[w] \in {"decide", "increment", "wait"} =>
            /\ id[w] \in 1..Len(table)
            /\ count[w] <= table[id[w]].count
            /\ count[w] = 0 => uts[w] = history[id[w]].born
            /\ pc[w] = "wait" => count[w] = 0 /\ lNow[w] <= history[id[w]].born + Timeout
            /\ pc[w] = "increment" /\ count[w] = 0 => lNow[w] > history[id[w]].born + Timeout

\* uts is the time of insertion until the row lets a request through.
UtsIsBirth ==
    \A i \in 1..Len(table) : table[i].count = 0 => table[i].uts = history[i].born

\* Once a triplet has a row only the workers that missed it can add others.
Inserting(t) == {w \in Worker : pc[w] \in {"stamp", "insert"} /\ req[w] = t}
InsertsBounded ==
    \A t \in Triplet : RowsOf(t) # {} =>
        Cardinality(RowsOf(t)) + Cardinality(Inserting(t)) <= Cardinality(Worker)

\* Two rows of a triplet were inserted by requests that overlapped.
DuplicatesOverlap ==
    \A i, j \in 1..Len(table) : i < j /\ table[i].key = table[j].key => history[j].saw < i
SawRows == \A w \in Worker : saw[w] <= Len(table)
NewSinceLookup ==
    \A w \in Worker : pc[w] \in {"stamp", "insert"} => \A i \in RowsOf(req[w]) : i > saw[w]

(* The inductive invariant of the table, its history and the workers.      *)
GreylistInv == TypeOK /\ CountExact /\ UtsIsBirth /\ LocalsExact /\ NeverEarly
=============================================================================
