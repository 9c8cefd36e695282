--------------------------- MODULE SimpleScheduler ---------------------------
(***************************************************************************)
(* The worker pool of src/src/simplescheduler.h.  One thread (the accept   *)
(* loop of Server::run) calls schedule(), then once shutdown() and wait(); *)
(* every worker thread runs exec() until it returns true.                  *)
(*                                                                         *)
(* _active and _waiting are atomic counters that are read and written      *)
(* without _monitor, so each access is a step of its own.  What happens    *)
(* under _monitor is one step, except that a worker that leaves because of *)
(* the shutdown decrements _waiting before it releases the mutex.          *)
(***************************************************************************)
EXTENDS Naturals, Sequences, FiniteSets

CONSTANTS
    Thread,         \* thread slots; a slot is reused once its thread ended
    MaxSpare,       \* _maxSpare   ("sparethreads")
    MaxWorkers,     \* _maxWorkers ("maxthreads")
    MaxTasks        \* bound: how many times schedule() is called

ASSUME ThreadAssumption == IsFiniteSet(Thread)
ASSUME SettingsAssumption == MaxSpare \in Nat /\ MaxWorkers \in Nat /\ MaxTasks \in Nat

Task == 1..MaxTasks

VARIABLES
    queue,          \* _queue
    active,         \* _active
    waiting,        \* _waiting
    shutdown,       \* _shutdown
    pc,             \* where each worker thread is in Worker::run / exec()
    task,           \* the task local of exec(), 0 when there is none
    main,           \* where the calling thread is
    seen,           \* the operand of _waiting + _active loaded first
    next,           \* the task the caller schedules next
    refused,        \* tasks for which schedule() returned false
    done            \* tasks that have returned

callerVars == <<main, seen, next, refused>>
vars == <<queue, active, waiting, shutdown, pc, task, main, seen, next, refused, done>>

(***************************************************************************)
(* Worker locations.                                                       *)
(*   none      no thread in this slot                                      *)
(*   enter     thread created or exec() returned false: before ++_waiting  *)
(*   locking   before scoped_lock, or woken and about to lock again        *)
(*   asleep    inside _signal.wait                                         *)
(*   taken     task popped and mutex released, before --_waiting           *)
(*   between   after --_waiting, before ++_active                          *)
(*   running   inside task()                                               *)
(*   deciding  after --_active, before the test that ends the thread       *)
(*   leaving   saw the shutdown, --_waiting done, mutex still held         *)
(***************************************************************************)
WorkerPc == {"none", "enter", "locking", "asleep", "taken", "between",
             "running", "deciding", "leaving"}
CallerPc == {"ready", "sawWaiting", "sawActive", "hasRoom", "sawWaiter", "push",
             "draining", "noneActive", "notify", "drained"}

At(l) == {w \in Thread : pc[w] = l}
Live == {w \in Thread : pc[w] # "none"}
Counted == {w \in Thread : pc[w] \in {"locking", "asleep", "taken"}}
\* Workers that reach the queue without running a task first.
Available == {w \in Thread : pc[w] \in {"enter", "locking", "asleep"}}
Holding == {w \in Thread : pc[w] \in {"taken", "between", "running"}}

MonitorFree == At("leaving") = {}
Go(w, from, to) == pc[w] = from /\ pc' = [pc EXCEPT ![w] = to]

Init ==
    /\ queue = <<>>
    /\ active = 0
    /\ waiting = 0
    /\ shutdown = FALSE
    /\ pc = [w \in Thread |-> "none"]
    /\ task = [w \in Thread |-> 0]
    /\ main = "ready"
    /\ seen = 0
    /\ next = 1
    /\ refused = {}
    /\ done = {}

-----------------------------------------------------------------------------
(* schedule(): the test against _maxWorkers loads two atomics, in an order *)
(* that C++ leaves open.                                                   *)

LoadFirstCounter ==
    /\ main = "ready"
    /\ next <= MaxTasks
    /\ \/ main' = "sawWaiting" /\ seen' = waiting
       \/ main' = "sawActive" /\ seen' = active
    /\ UNCHANGED <<queue, active, waiting, shutdown, pc, task, next, refused, done>>

CounterSum == seen + (IF main = "sawWaiting" THEN active ELSE waiting)

Refuse ==
    /\ main \in {"sawWaiting", "sawActive"}
    /\ CounterSum >= MaxWorkers
    /\ main' = "ready"
    /\ refused' = refused \cup {next}
    /\ next' = next + 1
    /\ UNCHANGED <<queue, active, waiting, shutdown, pc, task, seen, done>>

Admit ==
    /\ main \in {"sawWaiting", "sawActive"}
    /\ CounterSum < MaxWorkers
    /\ main' = "hasRoom"
    /\ UNCHANGED <<queue, active, waiting, shutdown, pc, task, seen, next, refused, done>>

(* (_waiting == 0) || (!_queue.empty()), evaluated left to right without   *)
(* the mutex; the new thread is detached.                                  *)
Spawn ==
    /\ \/ main = "hasRoom" /\ waiting = 0
       \/ main = "sawWaiter" /\ queue # <<>>
    /\ \E w \in Thread : Go(w, "none", "enter")
    /\ main' = "push"
    /\ UNCHANGED <<queue, active, waiting, shutdown, task, seen, next, refused, done>>

SeeWaiter ==
    /\ main = "hasRoom"
    /\ waiting > 0
    /\ main' = "sawWaiter"
    /\ UNCHANGED <<queue, active, waiting, shutdown, pc, task, seen, next, refused, done>>

\* Faulty variant: "|| !_queue.empty()" left out of the test.
KeepWorkersIgnoringQueue ==
    /\ main = "sawWaiter"
    /\ main' = "push"
    /\ UNCHANGED <<queue, active, waiting, shutdown, pc, task, seen, next, refused, done>>

KeepWorkers ==
    /\ main = "sawWaiter"
    /\ queue = <<>>
    /\ main' = "push"
    /\ UNCHANGED <<queue, active, waiting, shutdown, pc, task, seen, next, refused, done>>

\* Faulty variant: the notification is forgotten.
NotifyNobody == UNCHANGED pc

\* _signal.notify_one(): one sleeper, if there is any, goes for the mutex.
NotifyOne ==
    \/ At("asleep") = {} /\ UNCHANGED pc
    \/ \E w \in Thread : Go(w, "asleep", "locking")

Push ==
    /\ main = "push"
    /\ MonitorFree
    /\ queue' = Append(queue, next)
    /\ NotifyOne
    /\ main' = "ready"
    /\ next' = next + 1
    /\ UNCHANGED <<active, waiting, shutdown, task, seen, refused, done>>

-----------------------------------------------------------------------------
(* exec(), run in a loop by Worker::run.                                   *)

EnterExec(w) ==
    /\ Go(w, "enter", "locking")
    /\ waiting' = waiting + 1
    /\ UNCHANGED <<queue, active, shutdown, task, callerVars, done>>

Sleep(w) ==
    /\ MonitorFree
    /\ ~shutdown /\ queue = <<>>
    /\ Go(w, "locking", "asleep")
    /\ UNCHANGED <<queue, active, waiting, shutdown, task, callerVars, done>>

SpuriousWake(w) ==
    /\ Go(w, "asleep", "locking")
    /\ UNCHANGED <<queue, active, waiting, shutdown, task, callerVars, done>>

\* Faulty variant: the queue is served after shutdown() too.
TakeAfterShutdown(w) ==
    /\ MonitorFree
    /\ queue # <<>>
    /\ Go(w, "locking", "taken")
    /\ task' = [task EXCEPT ![w] = Head(queue)]
    /\ queue' = Tail(queue)
    /\ UNCHANGED <<active, waiting, shutdown, callerVars, done>>

Take(w) ==
    /\ MonitorFree
    /\ ~shutdown /\ queue # <<>>
    /\ Go(w, "locking", "taken")
    /\ task' = [task EXCEPT ![w] = Head(queue)]
    /\ queue' = Tail(queue)
    /\ UNCHANGED <<active, waiting, shutdown, callerVars, done>>

SeeShutdown(w) ==
    /\ MonitorFree
    /\ shutdown
    /\ Go(w, "locking", "leaving")
    /\ waiting' = waiting - 1
    /\ UNCHANGED <<queue, active, shutdown, task, callerVars, done>>

Leave(w) ==
    /\ Go(w, "leaving", "none")
    /\ UNCHANGED <<queue, active, waiting, shutdown, task, callerVars, done>>

StopWaiting(w) ==
    /\ Go(w, "taken", "between")
    /\ waiting' = waiting - 1
    /\ UNCHANGED <<queue, active, shutdown, task, callerVars, done>>

BeginTask(w) ==
    /\ Go(w, "between", "running")
    /\ active' = active + 1
    /\ UNCHANGED <<queue, waiting, shutdown, task, callerVars, done>>

\* task() returns, then --_active.
FinishTask(w) ==
    /\ Go(w, "running", "deciding")
    /\ active' = active - 1
    /\ done' = done \cup {task[w]}
    /\ task' = [task EXCEPT ![w] = 0]
    /\ UNCHANGED <<queue, waiting, shutdown, callerVars>>

\* Faulty variant: the ending worker counts itself among the spare ones.
EndThreadCountingItself(w) ==
    /\ waiting + 1 >= MaxSpare \/ shutdown
    /\ Go(w, "deciding", "none")
    /\ UNCHANGED <<queue, active, waiting, shutdown, task, callerVars, done>>

EndThread(w) ==
    /\ waiting >= MaxSpare \/ shutdown
    /\ Go(w, "deciding", "none")
    /\ UNCHANGED <<queue, active, waiting, shutdown, task, callerVars, done>>

PollAgain(w) ==
    /\ ~(waiting >= MaxSpare \/ shutdown)
    /\ Go(w, "deciding", "enter")
    /\ UNCHANGED <<queue, active, waiting, shutdown, task, callerVars, done>>

-----------------------------------------------------------------------------
(* shutdown() and wait().                                                  *)

Shutdown ==
    /\ main = "ready"
    /\ shutdown' = TRUE
    /\ main' = "draining"
    /\ UNCHANGED <<queue, active, waiting, pc, task, seen, next, refused, done>>

\* (_active > 0) || (_waiting > 0): again two loads.
LoadActive ==
    /\ main = "draining"
    /\ main' = IF active > 0 THEN "notify" ELSE "noneActive"
    /\ UNCHANGED <<queue, active, waiting, shutdown, pc, task, seen, next, refused, done>>

LoadWaiting ==
    /\ main = "noneActive"
    /\ main' = IF waiting > 0 THEN "notify" ELSE "drained"
    /\ UNCHANGED <<queue, active, waiting, shutdown, pc, task, seen, next, refused, done>>

\* Faulty variant: wait() only polls.
NotifyAllForgotten ==
    /\ main = "notify"
    /\ main' = "draining"
    /\ UNCHANGED <<queue, active, waiting, shutdown, pc, task, seen, next, refused, done>>

NotifyAll ==
    /\ main = "notify"
    /\ MonitorFree
    /\ pc' = [w \in Thread |-> IF pc[w] = "asleep" THEN "locking" ELSE pc[w]]
    /\ main' = "draining"
    /\ UNCHANGED <<queue, active, waiting, shutdown, task, seen, next, refused, done>>

\* wait() returned and the last worker ended: nothing is left to run.
Stopped == main = "drained" /\ Live = {} /\ UNCHANGED vars

-----------------------------------------------------------------------------
Schedule == LoadFirstCounter \/ Refuse \/ Admit \/ Spawn \/ SeeWaiter \/ KeepWorkers \/ Push
Wait == LoadActive \/ LoadWaiting \/ NotifyAll
Exec(w) ==
    \/ EnterExec(w) \/ Sleep(w) \/ Take(w) \/ SeeShutdown(w) \/ Leave(w)
    \/ StopWaiting(w) \/ BeginTask(w) \/ FinishTask(w) \/ EndThread(w) \/ PollAgain(w)

Next ==
    \/ Schedule \/ Shutdown \/ Wait
    \/ \E w \in Thread : Exec(w) \/ SpuriousWake(w)
    \/ Stopped

Spec == Init /\ [][Next]_vars

(* Every thread keeps being scheduled, and a task returns: a handler ends  *)
(* when its client closes the connection or sends its last request.        *)
Fairness ==
    /\ WF_vars(Schedule)
    /\ WF_vars(Wait)
    /\ \A w \in Thread : WF_vars(Exec(w))

FairSpec == Spec /\ Fairness

-----------------------------------------------------------------------------
TypeOK ==
    /\ queue \in Seq(Task)
    /\ active \in Nat
    /\ waiting \in Nat
    /\ shutdown \in BOOLEAN
    /\ pc \in [Thread -> WorkerPc]
    /\ task \in [Thread -> Task \cup {0}]
    /\ main \in CallerPc
    /\ seen \in Nat
    /\ next \in 1..(MaxTasks + 1)
    /\ refused \subseteq Task
    /\ done \subseteq Task

(* The atomic counters are what schedule(), exec() and wait() decide on.   *)
(* They drift from the threads by exactly the two windows of the code: a   *)
(* created thread is not counted before simplescheduler.h:97, and a worker *)
(* is in neither counter between lines 114 and 115.                        *)
CountersExact ==
    /\ waiting = Cardinality(Counted)
    /\ active = Cardinality(At("running"))

(* With at least one spare thread configured, an accepted task is never    *)
(* left with no thread to run it: a worker ends (simplescheduler.h:119)    *)
(* only when another one is still counted, and schedule() relies on a      *)
(* counted worker (line 81) only while one lives.                          *)
NoOrphanedTask ==
    ~shutdown /\ queue # <<>> => Live # {}

(* The unlocked test of simplescheduler.h:81 can mistake a worker that     *)
(* already took a task for an idle one, so a task may have to wait for a   *)
(* task to end; but never more than one task of the queue is in that       *)
(* position: all others have a worker on its way to the queue.             *)
AtMostOneStranded ==
    ~shutdown => Len(queue) <= Cardinality(Available) + 1

(* notify_one() under the mutex (simplescheduler.h:88-90) loses no wakeup: *)
(* while some worker sleeps, as many others as there are queued tasks are  *)
(* awake and going for the mutex.                                          *)
NoLostWakeup ==
    ~shutdown /\ At("asleep") # {} => Len(queue) <= Cardinality(At("locking"))

-----------------------------------------------------------------------------
(* What makes the invariants above inductive.                              *)

\* shutdown() is called once, by the thread that calls schedule().
CallerPhase ==
    /\ shutdown <=> main \in {"draining", "noneActive", "notify", "drained"}
    /\ main \in {"sawWaiting", "sawActive", "hasRoom", "sawWaiter", "push"} => next <= MaxTasks

\* A worker leaves with the mutex held only after shutdown().
LeavingOnShutdown == \A w \in Thread : pc[w] = "leaving" => shutdown

\* A worker between the pop and the end of task() has a task.
HoldersHaveTask == \A w \in Holding : task[w] \in Task

\* A caller that decided to push counts its task as queued already.
Stranding ==
    ~shutdown => Len(queue) + (IF main = "push" THEN 1 ELSE 0) <= Cardinality(Available) + 1

\* ... and relies on a live worker from the moment it saw one waiting.
WorkerForTask ==
    ~shutdown /\ (queue # <<>> \/ main \in {"sawWaiter", "push"}) => Live # {}

\* Tasks are numbered in the order of the calls of schedule().
TaskOrder ==
    /\ \A i \in 1..Len(queue) : queue[i] < next
    /\ \A i, j \in 1..Len(queue) : i < j => queue[i] < queue[j]
    /\ \A w \in Holding : task[w] < next
    /\ \A w \in Holding : \A i \in 1..Len(queue) : task[w] < queue[i]
    /\ \A v, w \in Holding : v # w => task[v] # task[w]
    /\ \A t \in done : t < next

(* The inductive invariant: counters, caller and workers agree on which    *)
(* tasks and threads exist.  It holds whatever "sparethreads" is.          *)
SchedulerInv ==
    /\ TypeOK /\ CountersExact /\ CallerPhase /\ HoldersHaveTask
    /\ LeavingOnShutdown /\ Stranding /\ NoLostWakeup /\ TaskOrder

-----------------------------------------------------------------------------
(* "maxthreads" (tokens.h:115, and the warning of server.h:110) names an   *)
(* upper limit for the threads of the pool.                                *)
ThreadsBounded == Cardinality(Live) <= MaxWorkers

(* The threads and counters implement the pool a caller is promised: tasks *)
(* begin in the order schedule() accepted them, each at most once, none    *)
(* after shutdown(), and none disappears.                                  *)
Running == {task[w] : w \in Holding}
Pool == INSTANCE TaskPool
            WITH backlog <- queue, running <- Running, finished <- done, closed <- shutdown
ImplementsPool == Pool!PoolSpec

(* Every accepted task is begun unless the server shuts down first: the    *)
(* stranded task of AtMostOneStranded is picked up when a worker polls     *)
(* again (simplescheduler.h:122).                                          *)
EveryTaskServed ==
    \A t \in Task : (\E i \in DOMAIN queue : queue[i] = t) ~> (t \in Running \cup done \/ shutdown)

(* After shutdown() every worker ends and wait() returns: the repeated     *)
(* notify_all() of simplescheduler.h:67 reaches also the workers that fell *)
(* asleep between the test of _shutdown and the notification.              *)
ShutdownCompletes ==
    shutdown ~> (main = "drained" /\ Live = {})
=============================================================================
