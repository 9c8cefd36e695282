------------------------------ MODULE TaskPool ------------------------------
(***************************************************************************)
(* What a caller of SimpleScheduler<TaskType> is promised, with no threads *)
(* and no counters: a submitted task waits in submission order, is begun   *)
(* at most once and only while the pool is open, and then finishes.        *)
(* Closing the pool (SimpleScheduler::shutdown, simplescheduler.h:58)      *)
(* abandons what has not begun.                                            *)
(***************************************************************************)
EXTENDS Naturals, Sequences

CONSTANT Task            \* the tasks a caller may submit

VARIABLES
    backlog,             \* submitted, not begun, oldest first
    running,             \* begun, not finished
    finished,
    closed               \* shutdown() was called

poolVars == <<backlog, running, finished, closed>>

PoolInit ==
    /\ backlog = <<>>
    /\ running = {}
    /\ finished = {}
    /\ closed = FALSE

Backlogged == {backlog[i] : i \in DOMAIN backlog}

Submit(t) ==
    /\ ~closed
    /\ t \notin Backlogged \cup running \cup finished
    /\ backlog' = Append(backlog, t)
    /\ UNCHANGED <<running, finished, closed>>

Begin ==
    /\ ~closed
    /\ backlog # <<>>
    /\ running' = running \cup {Head(backlog)}
    /\ backlog' = Tail(backlog)
    /\ UNCHANGED <<finished, closed>>

Finish(t) ==
    /\ t \in running
    /\ running' = running \ {t}
    /\ finished' = finished \cup {t}
    /\ UNCHANGED <<backlog, closed>>

Close ==
    /\ ~closed
    /\ closed' = TRUE
    /\ UNCHANGED <<backlog, running, finished>>

PoolNext ==
    \/ \E t \in Task : Submit(t) \/ Finish(t)
    \/ Begin
    \/ Close

PoolSpec == PoolInit /\ [][PoolNext]_poolVars
=============================================================================
