------------------------------- MODULE PoolCore -------------------------------
(***************************************************************************)
(* src/lib/threadpool/boost/threadpool: the pool SingleAcceptThreadPool    *)
(* runs its requests in (static_size, wait_for_all_tasks), with each of    *)
(* the three schedulers.                                                   *)
(* One action is what a thread does under m_monitor, or between two of its *)
(* critical sections.                                                      *)
(***************************************************************************)
EXTENDS Integers, Sequences, FiniteSets, FiniteSetTheorems, TLAPS

CONSTANTS Policies,         \* of "fifo", "lifo" and "prio"
          Worker,           \* the worker_thread objects that can be made
          MaxTasks,         \* bound on the tasks that are scheduled
          Sizes,            \* what the pool is resized to
          MaxResizes,       \* bound on the calls of resize
          Deaths            \* bound on the tasks that throw

VARIABLES policy,           \* the SchedulingPolicy of the pool
          m_scheduler, m_worker_count, m_target_worker_count, m_active_worker_count,
          m_terminate_all_workers, m_terminated_workers,
          worker,           \* what each worker_thread is at
          owner,            \* what the thread that owns the pool is at
          next, done,       \* tasks scheduled, and tasks that were executed
          resizes, deaths
vars == <<policy, m_scheduler, m_worker_count, m_target_worker_count, m_active_worker_count,
          m_terminate_all_workers, m_terminated_workers, worker, owner, next, done, resizes, deaths>>
counts == <<m_worker_count, m_target_worker_count, m_active_worker_count>>
life == <<policy, m_terminate_all_workers, m_terminated_workers>>
bounds == <<next, resizes, deaths>>

At(s) == {w \in Worker : worker[w][1] = s}

Init ==
    /\ policy \in Policies /\ m_scheduler = <<>> /\ m_worker_count = 0 /\ m_target_worker_count = 0
    /\ m_active_worker_count = 0 /\ m_terminate_all_workers = FALSE /\ m_terminated_workers = {}
    /\ worker = [w \in Worker |-> <<"none">>] /\ owner = "using"
    /\ next = 0 /\ done = {} /\ resizes = 0 /\ deaths = 0

-----------------------------------------------------------------------------
(* The schedulers: a queue, a stack, and a priority_queue, in no order among
   equals, of tasks whose priority is their number modulo 2. *)

\* prio_task_func::operator<
prio_task_func(t, rhs) == t % 2 < rhs % 2

fifo_scheduler(t) == Append(m_scheduler, t)
lifo_scheduler(t) == <<t>> \o m_scheduler
prio_scheduler ==
    {i \in DOMAIN m_scheduler :
        \A j \in DOMAIN m_scheduler : ~prio_task_func(m_scheduler[i], m_scheduler[j])}

push(t) == IF policy = "lifo" THEN lifo_scheduler(t) ELSE fifo_scheduler(t)
top == IF policy = "prio" THEN prio_scheduler ELSE {i \in DOMAIN m_scheduler : i = 1}
pop(i) == SubSeq(m_scheduler, 1, i - 1) \o SubSeq(m_scheduler, i + 1, Len(m_scheduler))

-----------------------------------------------------------------------------
(* The owner *)

\* notify_one wakes one of the workers that wait, when there is one.
schedule ==
    /\ owner = "using" /\ next < MaxTasks
    /\ m_scheduler' = push(next + 1) /\ next' = next + 1
    /\ \/ \E w \in At("waiting") : worker' = [worker EXCEPT ![w] = <<"woken">>]
       \/ At("waiting") = {} /\ UNCHANGED worker
    /\ UNCHANGED <<counts, life, owner, done, resizes, deaths>>

clear ==
    /\ owner = "using" /\ m_scheduler # <<>> /\ m_scheduler' = <<>>
    /\ UNCHANGED <<counts, life, worker, owner, next, done, resizes, deaths>>

\* The workers that wait are woken.
notify_all(state) == [w \in Worker |-> IF state[w] = <<"waiting">> THEN <<"woken">> ELSE state[w]]

\* pool_core::resize on the values of a worker's end: made of the workers that
\* were never used, and fewer when boost::thread throws thread_resource_error.
Resized(n, count, active, state) ==
    /\ m_target_worker_count' = n
    /\ IF count <= n
       THEN \E k \in 0..(n - count) :
              /\ \E new \in SUBSET {w \in Worker : state[w] = <<"none">>} :
                    /\ Cardinality(new) = k
                    /\ worker' = [w \in Worker |-> IF w \in new THEN <<"run">> ELSE state[w]]
              /\ m_worker_count' = count + k /\ m_active_worker_count' = active + k
       ELSE /\ m_worker_count' = count /\ m_active_worker_count' = active
            /\ worker' = notify_all(state)

\* static_size::worker_died_unexpectedly asks for one more than are left.
static_size(new_worker_count) == new_worker_count + 1

resize(n) ==
    /\ owner = "using" /\ resizes < MaxResizes /\ resizes' = resizes + 1
    /\ ~m_terminate_all_workers
    /\ Resized(n, m_worker_count, m_active_worker_count, worker)
    /\ UNCHANGED <<m_scheduler, life, owner, next, done, deaths>>

Idle == m_active_worker_count = 0 /\ m_scheduler = <<>>

\* Mutant: the pool is terminated without waiting for its tasks.
waitNot ==
    /\ owner = "using" /\ owner' = "terminate"
    /\ UNCHANGED <<m_scheduler, counts, life, worker, next, done, resizes, deaths>>

\* wait(): returns when there is nothing active or pending; wait_for_all_tasks.
wait ==
    /\ owner = "using" /\ Idle /\ owner' = "terminate"
    /\ UNCHANGED <<m_scheduler, counts, life, worker, next, done, resizes, deaths>>

terminate_all_workers ==
    /\ owner = "terminate" /\ owner' = "terminating"
    /\ m_terminate_all_workers' = TRUE /\ m_target_worker_count' = 0
    /\ worker' = notify_all(worker)
    /\ UNCHANGED <<m_scheduler, m_worker_count, m_active_worker_count, policy, m_terminated_workers, done, bounds>>

\* The rest of it: no worker is active, and those in the list are joined.
join ==
    /\ owner = "terminating" /\ m_active_worker_count = 0
    /\ m_terminated_workers \subseteq At("gone")
    /\ owner' = "shut" /\ m_terminated_workers' = {}
    /\ UNCHANGED <<m_scheduler, counts, policy, m_terminate_all_workers, worker, done, bounds>>

-----------------------------------------------------------------------------
(* A worker: worker_thread::run and pool_core::execute_task *)

\* Mutant: a worker that was woken does not count as active again.
execute_taskIdle(w) ==
    /\ worker[w] \in {<<"run">>, <<"woken">>}
    /\ IF m_scheduler # <<>>
       THEN /\ worker' = [worker EXCEPT ![w] = <<"task", Head(m_scheduler)>>]
            /\ m_scheduler' = Tail(m_scheduler) /\ UNCHANGED m_active_worker_count
       ELSE /\ worker' = [worker EXCEPT ![w] = IF m_worker_count > m_target_worker_count
                                               THEN <<"leaving">> ELSE <<"waiting">>]
            /\ m_active_worker_count' = IF worker[w] = <<"run">> THEN m_active_worker_count - 1 ELSE m_active_worker_count
            /\ UNCHANGED m_scheduler
    /\ UNCHANGED <<m_worker_count, m_target_worker_count, life, owner, done, bounds>>

\* The critical section of execute_task, from its begin or from the wait.
execute_task(w) ==
    /\ worker[w] \in {<<"run">>, <<"woken">>}
    /\ LET active == IF worker[w] = <<"woken">> THEN m_active_worker_count + 1 ELSE m_active_worker_count
           many == m_worker_count > m_target_worker_count
       IN IF many /\ (worker[w] = <<"run">> \/ m_scheduler = <<>>)
          THEN /\ worker' = [worker EXCEPT ![w] = <<"leaving">>]
               /\ m_active_worker_count' = active /\ UNCHANGED m_scheduler
          ELSE IF m_scheduler = <<>>
          THEN /\ worker' = [worker EXCEPT ![w] = <<"waiting">>]
               /\ m_active_worker_count' = active - 1 /\ UNCHANGED m_scheduler
          ELSE \E i \in top : /\ worker' = [worker EXCEPT ![w] = <<"task", m_scheduler[i]>>]
                              /\ m_scheduler' = pop(i) /\ m_active_worker_count' = active
    /\ UNCHANGED <<m_worker_count, m_target_worker_count, life, owner, done, bounds>>

task(w) ==
    /\ w \in At("task") /\ done' = done \cup {worker[w][2]}
    /\ worker' = [worker EXCEPT ![w] = <<"run">>]
    /\ UNCHANGED <<m_scheduler, counts, life, owner, bounds>>

\* The task throws: died_unexpectedly, and static_size makes a new worker.
worker_died_unexpectedly(w) ==
    /\ w \in At("task") /\ deaths < Deaths /\ deaths' = deaths + 1
    /\ done' = done \cup {worker[w][2]}
    /\ LET state == [worker EXCEPT ![w] = <<"gone">>]
       IN IF m_terminate_all_workers
          THEN /\ m_worker_count' = m_worker_count - 1 /\ m_active_worker_count' = m_active_worker_count - 1
               /\ m_terminated_workers' = m_terminated_workers \cup {w} /\ worker' = state
               /\ UNCHANGED m_target_worker_count
          ELSE /\ Resized(static_size(m_worker_count - 1), m_worker_count - 1, m_active_worker_count - 1, state)
               /\ UNCHANGED m_terminated_workers
    /\ UNCHANGED <<m_scheduler, policy, m_terminate_all_workers, owner, next, resizes>>

worker_destructed(w) ==
    /\ w \in At("leaving")
    /\ m_worker_count' = m_worker_count - 1 /\ m_active_worker_count' = m_active_worker_count - 1
    /\ m_terminated_workers' = IF m_terminate_all_workers THEN m_terminated_workers \cup {w} ELSE m_terminated_workers
    /\ worker' = [worker EXCEPT ![w] = <<"gone">>]
    /\ UNCHANGED <<m_scheduler, m_target_worker_count, policy, m_terminate_all_workers, owner, done, bounds>>

Next ==
    \/ schedule \/ clear \/ wait \/ terminate_all_workers \/ join
    \/ \E n \in Sizes : resize(n)
    \/ \E w \in Worker : execute_task(w) \/ task(w) \/ worker_destructed(w) \/ worker_died_unexpectedly(w)

Spec == Init /\ [][Next]_vars

-----------------------------------------------------------------------------
Pending(t) == \E i \in DOMAIN m_scheduler : m_scheduler[i] = t
Running(t) == \E w \in At("task") : worker[w][2] = t

\* The pool's counts are what its workers do, which wait() relies on: those
\* that exist and those that do not sleep.  A task is never executed twice,
\* nobody sleeps over a task nobody was woken for, and when the owner has
\* shut the pool down no task is left and none is running.  A fifo_scheduler
\* hands out the tasks in the order they came.
PoolCounts ==
    /\ m_worker_count = Cardinality({w \in Worker : worker[w] \notin {<<"none">>, <<"gone">>}})
    /\ m_active_worker_count = Cardinality(At("run") \cup At("task") \cup At("leaving"))
    /\ \A t \in 1..next : ~(Pending(t) /\ Running(t)) /\ (t \in done => ~Pending(t) /\ ~Running(t))
    /\ m_scheduler # <<>> /\ At("waiting") # {} =>
          At("woken") \cup At("run") \cup At("task") # {}
    /\ owner = "shut" => m_scheduler = <<>> /\ At("task") = {}
    /\ policy = "fifo" => \A i \in DOMAIN m_scheduler : \A t \in 1..next :
          Running(t) \/ t \in done => t < m_scheduler[i]

-----------------------------------------------------------------------------
(***************************************************************************)
(* The inductive invariant behind PoolCounts.                              *)
(***************************************************************************)
Existing == {w \in Worker : worker[w] \notin {<<"none">>, <<"gone">>}}
Active == At("run") \cup At("task") \cup At("leaving")
Awake == At("woken") \cup At("run")

States == {<<s>> : s \in {"none", "run", "waiting", "woken", "leaving", "gone"}}
          \cup {<<"task", t>> : t \in 1..next}
Typed ==
    /\ next \in Nat /\ m_scheduler \in Seq(1..next) /\ done \subseteq 1..next
    /\ worker \in [Worker -> States]
    /\ m_worker_count \in Int /\ m_target_worker_count \in Int /\ m_active_worker_count \in Int

Counted ==
    /\ m_worker_count = Cardinality(Existing)
    /\ m_active_worker_count = Cardinality(Active)

\* A task is pending once, with one worker, or done.
TasksApart ==
    /\ \A i, j \in DOMAIN m_scheduler : m_scheduler[i] = m_scheduler[j] => i = j
    /\ \A v, w \in At("task") : worker[v] = worker[w] => v = w
    /\ \A w \in At("task") : worker[w][2] \notin done /\ \A i \in DOMAIN m_scheduler : m_scheduler[i] # worker[w][2]
    /\ \A i \in DOMAIN m_scheduler : m_scheduler[i] \notin done

\* A worker that sleeps is not one too many, and there are as many awake as
\* there are tasks: each schedule woke one, and a worker that is about to
\* look at the queue does not sleep before it is empty.
SleepersCovered ==
    At("waiting") # {} =>
        /\ m_worker_count <= m_target_worker_count
        /\ Len(m_scheduler) <= Cardinality(Awake)

Drained == owner # "using" => m_scheduler = <<>> /\ At("task") = {}

InTurn ==
    policy = "fifo" =>
        /\ \A i, j \in DOMAIN m_scheduler : i < j => m_scheduler[i] < m_scheduler[j]
        /\ \A i \in DOMAIN m_scheduler :
              /\ \A w \in At("task") : worker[w][2] < m_scheduler[i]
              /\ \A t \in done : t < m_scheduler[i]

PoolInv == Typed /\ Counted /\ TasksApart /\ SleepersCovered /\ Drained /\ InTurn
-----------------------------------------------------------------------------
(* Proofs, for every finite set of workers and all sizes that are natural  *)
(* numbers.                                                                *)

\* One element more or less in a finite set.
LEMMA Counting ==
    ASSUME NEW S, IsFiniteSet(S), NEW w
    PROVE  /\ Cardinality(S) \in Nat
           /\ IsFiniteSet(S \cup {w}) /\ IsFiniteSet(S \ {w})
           /\ w \in S => S \cup {w} = S /\ Cardinality(S \ {w}) = Cardinality(S) - 1 /\ Cardinality(S) > 0
           /\ w \notin S => S \ {w} = S /\ Cardinality(S \cup {w}) = Cardinality(S) + 1
  BY SMTT(60), FS_AddElement, FS_RemoveElement, FS_CardinalityType, FS_EmptySet

\* The sets of workers are finite.
LEMMA WorkersFinite ==
    ASSUME IsFiniteSet(Worker)
    PROVE  /\ \A x : IsFiniteSet(At(x))
           /\ IsFiniteSet(Existing) /\ IsFiniteSet(Active) /\ IsFiniteSet(Awake)
  BY Zenon, FS_Subset DEF At, Existing, Active, Awake

\* What each set of workers becomes when one of them goes to state s.
LEMMA Moved ==
    ASSUME Typed, NEW w \in Worker, NEW s \in States, worker' = [worker EXCEPT ![w] = s]
    PROVE  /\ \A x : At(x)' = IF s[1] = x THEN At(x) \cup {w} ELSE At(x) \ {w}
           /\ Existing' = IF s \in {<<"none">>, <<"gone">>} THEN Existing \ {w} ELSE Existing \cup {w}
           /\ worker' \in [Worker -> States]
  BY Zenon DEF Typed, At, Existing

\* What the label of a state says about it.
LEMMA Labels ==
    ASSUME Typed, NEW w \in Worker
    PROVE  /\ worker[w] \in States
           /\ worker[w][1] \in {"none", "run", "waiting", "woken", "leaving", "gone", "task"}
           /\ \A s \in {"none", "run", "waiting", "woken", "leaving", "gone"} :
                 w \in At(s) <=> worker[w] = <<s>>
           /\ w \in At("task") => worker[w][2] \in 1..next /\ worker[w] = <<"task", worker[w][2]>>
           /\ w \in Existing <=> w \notin At("none") /\ w \notin At("gone")
  BY DEF Typed, States, At, Existing

LEMMA SameStates == next' = next => States' = States
  BY Zenon DEF States

\* Two workers have two tasks.
LEMMA TasksDiffer ==
    ASSUME Typed, TasksApart, NEW v \in At("task"), NEW w \in At("task"), v # w
    PROVE  worker[v][2] # worker[w][2]
  <1>1. worker[v] = <<"task", worker[v][2]>> /\ worker[w] = <<"task", worker[w][2]>>
    BY Zenon, Labels DEF At
  <1>2. worker[v] # worker[w]
    BY Zenon DEF TasksApart
  <1> QED
    BY Zenon, <1>1, <1>2

\* A part of a sequence, and two sequences put together.
LEMMA Cut ==
    ASSUME NEW T, NEW s \in Seq(T), NEW m \in 1..(Len(s) + 1), NEW n \in 0..Len(s), m <= n + 1
    PROVE  /\ SubSeq(s, m, n) \in Seq(T) /\ Len(SubSeq(s, m, n)) = n - m + 1
           /\ \A k \in 1..(n - m + 1) : SubSeq(s, m, n)[k] = s[m + k - 1]
  <1>1. Len(s) \in Nat /\ \A k \in 1..Len(s) : s[k] \in T
    OBVIOUS
  <1>2. SubSeq(s, m, n) = [k \in 1..(n - m + 1) |-> s[m + k - 1]]
    OBVIOUS
  <1>3. \A k \in 1..(n - m + 1) : s[m + k - 1] \in T
    BY <1>1
  <1>4. [k \in 1..(n - m + 1) |-> s[m + k - 1]] \in Seq(T)
    BY <1>1, <1>3
  <1>5. Len([k \in 1..(n - m + 1) |-> s[m + k - 1]]) = n - m + 1
    BY <1>1
  <1> QED
    BY Zenon, <1>2, <1>4, <1>5

LEMMA Joined ==
    ASSUME NEW T, NEW a \in Seq(T), NEW b \in Seq(T)
    PROVE  /\ a \o b \in Seq(T) /\ Len(a \o b) = Len(a) + Len(b)
           /\ \A k \in 1..(Len(a) + Len(b)) : (a \o b)[k] = IF k <= Len(a) THEN a[k] ELSE b[k - Len(a)]
  OBVIOUS

\* The queue without the task that is popped.
LEMMA Popped ==
    ASSUME Typed, NEW i \in DOMAIN m_scheduler
    PROVE  /\ pop(i) \in Seq(1..next) /\ Len(pop(i)) = Len(m_scheduler) - 1
           /\ \A k \in 1..(Len(m_scheduler) - 1) : pop(i)[k] = IF k < i THEN m_scheduler[k] ELSE m_scheduler[k + 1]
  <1> DEFINE s == m_scheduler
             T == 1..next
             a == SubSeq(s, 1, i - 1)
             b == SubSeq(s, i + 1, Len(s))
  <1>1. s \in Seq(T) /\ i \in 1..Len(s) /\ Len(s) \in Nat /\ \A k \in 1..Len(s) : s[k] \in T
    BY DEF Typed
  <1>2. pop(i) = a \o b
    BY Zenon DEF pop
  <1> HIDE DEF s, T
  <1>3. /\ a \in Seq(T) /\ Len(a) = i - 1
        /\ \A k \in 1..(i - 1) : a[k] = s[k]
    <2>1. /\ a \in Seq(T) /\ Len(a) = (i - 1) - 1 + 1
          /\ \A k \in 1..((i - 1) - 1 + 1) : a[k] = s[1 + k - 1]
      BY <1>1, Cut
    <2> HIDE DEF a
    <2> QED
      BY <1>1, <2>1
  <1>4. /\ b \in Seq(T) /\ Len(b) = Len(s) - i
        /\ \A k \in 1..(Len(s) - i) : b[k] = s[i + k]
    <2>1. /\ b \in Seq(T) /\ Len(b) = Len(s) - (i + 1) + 1
          /\ \A k \in 1..(Len(s) - (i + 1) + 1) : b[k] = s[(i + 1) + k - 1]
      BY <1>1, Cut
    <2> HIDE DEF b
    <2> QED
      BY SMTT(60), <1>1, <2>1
  <1> HIDE DEF a, b
  <1>5. /\ a \o b \in Seq(T) /\ Len(a \o b) = Len(a) + Len(b)
        /\ \A k \in 1..(Len(a) + Len(b)) : (a \o b)[k] = IF k <= Len(a) THEN a[k] ELSE b[k - Len(a)]
    BY Zenon, <1>3, <1>4, Joined
  <1>6. ASSUME NEW k \in 1..(Len(s) - 1)
        PROVE (a \o b)[k] = IF k < i THEN s[k] ELSE s[k + 1]
    <2>1. CASE k < i
      BY SMTT(60), <1>1, <1>3, <1>4, <1>5, <2>1
    <2>2. CASE ~(k < i)
      <3>1. k - (i - 1) \in 1..(Len(s) - i) /\ i + (k - (i - 1)) = k + 1
        BY <1>1, <2>2
      <3>2. b[k - (i - 1)] = s[k + 1]
        BY Zenon, <1>4, <3>1
      <3>3. k \in 1..(Len(a) + Len(b)) /\ ~(k <= Len(a)) /\ k - Len(a) = k - (i - 1)
        BY <1>1, <1>3, <1>4, <2>2
      <3> QED
        BY Zenon, <1>5, <2>2, <3>2, <3>3
    <2> QED
      BY Zenon, <2>1, <2>2
  <1>7. Len(a \o b) = Len(s) - 1
    BY <1>1, <1>3, <1>4, <1>5
  <1> QED
    BY Zenon, <1>2, <1>5, <1>6, <1>7 DEF s, T

\* The queue with the task that is pushed.
LEMMA Pushed ==
    ASSUME Typed, NEW t \in Nat
    PROVE  /\ push(t) \in Seq((1..next) \cup {t}) /\ Len(push(t)) = Len(m_scheduler) + 1
           /\ policy # "lifo" => \A k \in 1..(Len(m_scheduler) + 1) :
                 push(t)[k] = IF k = Len(m_scheduler) + 1 THEN t ELSE m_scheduler[k]
           /\ policy = "lifo" => \A k \in 1..(Len(m_scheduler) + 1) :
                 push(t)[k] = IF k = 1 THEN t ELSE m_scheduler[k - 1]
  <1> DEFINE s == m_scheduler
             T == (1..next) \cup {t}
  <1>1. s \in Seq(1..next) /\ s \in Seq(T) /\ <<t>> \in Seq(T)
    BY DEF Typed
  <1>2. CASE policy = "lifo"
    BY <1>1, <1>2 DEF push, lifo_scheduler
  <1>3. CASE policy # "lifo"
    BY <1>1, <1>3 DEF push, fifo_scheduler
  <1> QED
    BY Zenon, <1>2, <1>3

-----------------------------------------------------------------------------
(* The owner's actions keep the invariant. *)

LEMMA ScheduleStep ==
    ASSUME IsFiniteSet(Worker), PoolInv, schedule
    PROVE  PoolInv'
  <1> DEFINE t == next + 1
             n == Len(m_scheduler)
  <1> USE DEF PoolInv
  <1>1. /\ next \in Nat /\ t \in Nat /\ t > next /\ next' = t /\ m_scheduler' = push(t) /\ n \in Nat
        /\ DOMAIN m_scheduler = 1..n /\ \A k \in 1..n : m_scheduler[k] \in 1..next
    BY DEF schedule, Typed
  <1>0. (1..next) \cup {t} = 1..next'
    BY <1>1
  <1> HIDE DEF PoolInv, t
  <1>2. /\ m_scheduler' \in Seq(1..next') /\ Len(m_scheduler') = n + 1 /\ DOMAIN m_scheduler' = 1..(n + 1)
    <2>1. push(t) \in Seq((1..next) \cup {t}) /\ Len(push(t)) = n + 1
      BY Zenon, <1>1, Pushed DEF PoolInv
    <2> QED
      BY <1>0, <1>1, <2>1
  <1>3. /\ policy # "lifo" => \A k \in 1..(n + 1) : m_scheduler'[k] = IF k = n + 1 THEN t ELSE m_scheduler[k]
        /\ policy = "lifo" => \A k \in 1..(n + 1) : m_scheduler'[k] = IF k = 1 THEN t ELSE m_scheduler[k - 1]
    BY Zenon, <1>1, Pushed DEF PoolInv
  <1> HIDE DEF n
  <1>4. \A k \in 1..(n + 1) : m_scheduler'[k] = t \/ \E i \in 1..n : m_scheduler'[k] = m_scheduler[i]
    <2>1. CASE policy = "lifo"
      BY <1>1, <1>3, <2>1
    <2>2. CASE policy # "lifo"
      BY <1>1, <1>3, <2>2
    <2> QED
      BY Zenon, <2>1, <2>2
  <1>5. \A i, j \in 1..(n + 1) : m_scheduler'[i] = m_scheduler'[j] => i = j
    <2>1. \A i, j \in 1..n : m_scheduler[i] = m_scheduler[j] => i = j
      BY Zenon, <1>1 DEF TasksApart, PoolInv
    <2>2. \A k \in 1..n : m_scheduler[k] # t
      BY <1>1
    <2>3. CASE policy = "lifo"
      <3>1. m_scheduler'[1] = t /\ \A k \in 1..(n + 1) : k # 1 => k - 1 \in 1..n /\ m_scheduler'[k] = m_scheduler[k - 1]
        BY <1>1, <1>3, <2>3
      <3> QED
        BY <1>1, <2>1, <2>2, <3>1
    <2>4. CASE policy # "lifo"
      <3>1. m_scheduler'[n + 1] = t /\ \A k \in 1..(n + 1) : k # n + 1 => k \in 1..n /\ m_scheduler'[k] = m_scheduler[k]
        BY <1>1, <1>3, <2>4
      <3> QED
        BY ZenonT(60), <1>1, <2>1, <2>2, <3>1
    <2> QED
      BY Zenon, <2>3, <2>4
  <1> USE DEF PoolInv
  <1>6. /\ At("run")' = At("run") /\ At("task")' = At("task") /\ At("leaving")' = At("leaving")
        /\ \A w \in At("task") : worker'[w] = worker[w]
        /\ Existing' = Existing /\ worker' \in [Worker -> States]
        /\ \/ \E w \in At("waiting") : At("woken")' = At("woken") \cup {w}
           \/ At("waiting")' = {}
    <2>1. CASE \E w \in At("waiting") : worker' = [worker EXCEPT ![w] = <<"woken">>]
      <3>1. PICK w \in At("waiting") : worker' = [worker EXCEPT ![w] = <<"woken">>]
        BY Zenon, <2>1
      <3>2. w \in Worker /\ worker[w] = <<"waiting">> /\ <<"woken">> \in States /\ <<"woken">>[1] = "woken"
        BY Zenon, <3>1, Labels DEF At, States
      <3>3. /\ \A x : At(x)' = IF "woken" = x THEN At(x) \cup {w} ELSE At(x) \ {w}
            /\ Existing' = Existing \cup {w} /\ worker' \in [Worker -> States]
        BY Zenon, <3>1, <3>2, Moved
      <3>4. w \in Existing /\ w \notin At("run") /\ w \notin At("task") /\ w \notin At("leaving")
        BY <3>2 DEF Existing, At
      <3>5. \A v \in At("task") : worker'[v] = worker[v]
        BY Zenon, <3>1, <3>2, <3>4 DEF Typed, At
      <3> QED
        BY Zenon, <3>3, <3>4, <3>5
    <2>2. CASE At("waiting") = {} /\ worker' = worker
      BY Zenon, <2>2 DEF At, Existing, Typed
    <2> QED
      BY Zenon, <2>1, <2>2 DEF schedule
  <1>7. Typed'
    <2>1. States \subseteq States'
      BY <1>1 DEF States, Typed
    <2> QED
      BY <1>1, <1>2, <1>6, <2>1 DEF Typed, schedule, counts
  <1>8. Counted'
    BY Zenon, <1>6 DEF Counted, Active, schedule, counts
  <1>9. TasksApart'
    <2>1. \A w \in At("task") : worker[w][2] \in 1..next
      BY Zenon, Labels DEF At
    <2>2. t \notin done /\ (\A w \in At("task") : worker[w][2] # t) /\ done' = done
      BY <1>1, <2>1 DEF Typed, schedule
    <2>3. \A w \in At("task") : worker[w][2] \notin done /\ \A i \in 1..n : m_scheduler[i] # worker[w][2]
      BY Zenon, <1>1 DEF TasksApart
    <2>4. \A i \in 1..n : m_scheduler[i] \notin done
      BY Zenon, <1>1 DEF TasksApart
    <2>5. \A v, w \in At("task") : worker[v] = worker[w] => v = w
      BY Zenon DEF TasksApart
    <2>6. \A i \in 1..(n + 1) : m_scheduler'[i] \notin done /\ \A w \in At("task") : m_scheduler'[i] # worker[w][2]
      BY <1>4, <2>2, <2>3, <2>4
    <2> QED
      BY <1>2, <1>5, <1>6, <2>2, <2>3, <2>5, <2>6 DEF TasksApart
  <1>10. SleepersCovered'
    <2>1. SUFFICES ASSUME At("waiting")' # {}
                   PROVE  m_worker_count' <= m_target_worker_count' /\ n + 1 <= Cardinality(Awake')
      BY Zenon, <1>2 DEF SleepersCovered
    <2>2. PICK w \in At("waiting") : At("woken")' = At("woken") \cup {w}
      BY Zenon, <1>6, <2>1
    <2>3. Awake' = Awake \cup {w} /\ w \notin Awake
      BY Zenon, <1>6, <2>2 DEF Awake, At
    <2>4. Cardinality(Awake') = Cardinality(Awake) + 1 /\ Cardinality(Awake) \in Nat
      BY Zenon, <2>3, Counting, WorkersFinite
    <2> QED
      BY <1>1, <2>2, <2>4 DEF SleepersCovered, schedule, counts
  <1>11. Drained'
    BY Zenon DEF schedule, Drained
  <1>12. InTurn'
    <2>1. SUFFICES ASSUME policy = "fifo"
                   PROVE  /\ \A i, j \in 1..(n + 1) : i < j => m_scheduler'[i] < m_scheduler'[j]
                          /\ \A i \in 1..(n + 1) :
                                /\ \A w \in At("task") : worker[w][2] < m_scheduler'[i]
                                /\ \A d \in done : d < m_scheduler'[i]
      BY Zenon, <1>2, <1>6 DEF InTurn, schedule, life
    <2>2. \A k \in 1..(n + 1) : m_scheduler'[k] = IF k = n + 1 THEN t ELSE m_scheduler[k]
      BY Zenon, <1>3, <2>1
    <2>3. /\ \A i, j \in 1..n : i < j => m_scheduler[i] < m_scheduler[j]
          /\ \A i \in 1..n : (\A w \in At("task") : worker[w][2] < m_scheduler[i]) /\ (\A d \in done : d < m_scheduler[i])
      BY Zenon, <1>1, <2>1 DEF InTurn
    <2>4. \A i, j \in 1..(n + 1) : i < j => m_scheduler'[i] < m_scheduler'[j]
      <3> SUFFICES ASSUME NEW i \in 1..(n + 1), NEW j \in 1..(n + 1), i < j
                   PROVE  m_scheduler'[i] < m_scheduler'[j]
        BY Zenon
      <3>1. \A k \in 1..n : m_scheduler[k] < t
        BY <1>1
      <3>2. i \in 1..n /\ i # n + 1 /\ (j = n + 1 \/ j \in 1..n)
        BY <1>1
      <3> QED
        BY Zenon, <2>2, <2>3, <3>1, <3>2
    <2>5. ASSUME NEW i \in 1..(n + 1)
          PROVE  /\ \A w \in At("task") : worker[w][2] < m_scheduler'[i]
                 /\ \A d \in done : d < m_scheduler'[i]
      <3>1. CASE i = n + 1
        <4>1. \A w \in At("task") : worker[w][2] \in 1..next
          BY Zenon, Labels DEF At
        <4>2. \A d \in done : d \in 1..next
          BY Zenon DEF Typed
        <4> QED
          BY <1>1, <2>2, <3>1, <4>1, <4>2
      <3>2. CASE i # n + 1
        BY <1>1, <2>2, <2>3, <3>2
      <3> QED
        BY Zenon, <3>1, <3>2
    <2> QED
      BY Zenon, <2>4, <2>5
  <1> QED
    BY Zenon, <1>7, <1>8, <1>9, <1>10, <1>11, <1>12

LEMMA ClearStep ==
    ASSUME IsFiniteSet(Worker), PoolInv, clear
    PROVE  PoolInv'
  <1>1. /\ m_scheduler' = <<>> /\ worker' = worker /\ next' = next /\ done' = done
        /\ policy' = policy /\ owner' = "using" /\ UNCHANGED counts
    BY Zenon DEF clear, life
  <1>2. /\ \A x : At(x)' = At(x)
        /\ Existing' = Existing /\ Active' = Active /\ Awake' = Awake
    BY Zenon, <1>1 DEF At, Existing, Active, Awake
  <1>3. m_scheduler' \in Seq(1..next') /\ Len(m_scheduler') = 0 /\ DOMAIN m_scheduler' = {}
    BY <1>1
  <1>4. Cardinality(Awake) \in Nat
    BY Zenon, Counting, WorkersFinite
  <1> QED
    BY <1>1, <1>2, <1>3, <1>4, SameStates DEF PoolInv, Typed, Counted, TasksApart, SleepersCovered, Drained, InTurn, counts

LEMMA WaitStep ==
    ASSUME IsFiniteSet(Worker), PoolInv, wait
    PROVE  PoolInv'
  <1>1. /\ worker' = worker /\ m_scheduler' = m_scheduler /\ next' = next /\ done' = done
        /\ policy' = policy /\ UNCHANGED counts /\ m_scheduler = <<>> /\ m_active_worker_count = 0
    BY Zenon DEF wait, Idle, life
  <1>2. /\ \A x : At(x)' = At(x)
        /\ Existing' = Existing /\ Active' = Active /\ Awake' = Awake
    BY Zenon, <1>1 DEF At, Existing, Active, Awake
  <1>3. At("task") = {}
    <2>1. Cardinality(Active) = 0 /\ IsFiniteSet(Active)
      BY Zenon, <1>1, WorkersFinite DEF PoolInv, Counted
    <2> QED
      BY Zenon, <2>1, FS_EmptySet DEF Active
  <1> QED
    BY Zenon, <1>1, <1>2, <1>3, SameStates DEF PoolInv, Typed, Counted, TasksApart, SleepersCovered, Drained, InTurn, counts

\* Waking those that wait changes no other set of workers.
LEMMA Notified ==
    ASSUME Typed, worker' = notify_all(worker)
    PROVE  /\ worker' \in [Worker -> States] /\ At("waiting")' = {}
           /\ At("run")' = At("run") /\ At("task")' = At("task") /\ At("leaving")' = At("leaving")
           /\ Existing' = Existing /\ Active' = Active
           /\ \A w \in At("task") : worker'[w] = worker[w]
  <1>1. \A w \in Worker : worker[w] \in States /\ worker'[w] = IF worker[w] = <<"waiting">> THEN <<"woken">> ELSE worker[w]
    BY Zenon DEF Typed, notify_all
  <1>2. <<"woken">> \in States
    BY Zenon DEF States
  <1>3. worker' \in [Worker -> States]
    BY Zenon, <1>1, <1>2 DEF notify_all
  <1>4. At("waiting")' = {}
    BY <1>1 DEF At, States
  <1>5. At("run")' = At("run") /\ At("task")' = At("task") /\ At("leaving")' = At("leaving")
    BY <1>1 DEF At
  <1>6. Existing' = Existing
    BY <1>1 DEF Existing
  <1>7. \A w \in At("task") : worker'[w] = worker[w]
    BY <1>1 DEF At
  <1> QED
    BY Zenon, <1>3, <1>4, <1>5, <1>6, <1>7 DEF Active

LEMMA TerminateStep ==
    ASSUME IsFiniteSet(Worker), PoolInv, terminate_all_workers
    PROVE  PoolInv'
  <1>1. /\ worker' = notify_all(worker) /\ m_scheduler' = m_scheduler /\ next' = next /\ done' = done
        /\ policy' = policy /\ m_target_worker_count' = 0 /\ owner # "using"
        /\ m_worker_count' = m_worker_count /\ m_active_worker_count' = m_active_worker_count
    BY Zenon DEF terminate_all_workers, bounds
  <1>2. States' = States /\ Typed
    BY Zenon, <1>1, SameStates DEF PoolInv
  <1> QED
    BY <1>1, <1>2, Notified DEF PoolInv, Typed, Counted, TasksApart, SleepersCovered, Drained, InTurn

LEMMA JoinStep ==
    ASSUME IsFiniteSet(Worker), PoolInv, join
    PROVE  PoolInv'
  <1>1. /\ worker' = worker /\ m_scheduler' = m_scheduler /\ next' = next /\ done' = done
        /\ policy' = policy /\ UNCHANGED counts /\ owner # "using"
    BY Zenon DEF join, bounds
  <1>2. /\ \A x : At(x)' = At(x)
        /\ Existing' = Existing /\ Active' = Active /\ Awake' = Awake
    BY Zenon, <1>1 DEF At, Existing, Active, Awake
  <1> QED
    BY Zenon, <1>1, <1>2, SameStates DEF PoolInv, Typed, Counted, TasksApart, SleepersCovered, Drained, InTurn, counts

-----------------------------------------------------------------------------
(* Resized works on the states of a worker's end, so the sets of workers   *)
(* are taken of any assignment of states.                                  *)

In(state, s) == {w \in Worker : state[w][1] = s}
ExistingIn(state) == {w \in Worker : state[w] \notin {<<"none">>, <<"gone">>}}
ActiveIn(state) == In(state, "run") \cup In(state, "task") \cup In(state, "leaving")
AwakeIn(state) == In(state, "woken") \cup In(state, "run")

\* Resized counts what it makes, leaves tasks alone and wakes everyone when
\* there are too many workers.
LEMMA ResizedCounts ==
    ASSUME IsFiniteSet(Worker), NEW state \in [Worker -> States], NEW n \in Int, NEW count \in Int, NEW active \in Int,
           count = Cardinality(ExistingIn(state)), active = Cardinality(ActiveIn(state)),
           Resized(n, count, active, state)
    PROVE  /\ worker' \in [Worker -> States] /\ m_target_worker_count' = n
           /\ m_worker_count' = Cardinality(ExistingIn(worker'))
           /\ m_active_worker_count' = Cardinality(ActiveIn(worker'))
           /\ In(worker', "task") = In(state, "task") /\ \A w \in In(state, "task") : worker'[w] = state[w]
           /\ In(worker', "waiting") # {} =>
                 /\ m_worker_count' <= n
                 /\ In(state, "waiting") # {} /\ AwakeIn(state) \subseteq AwakeIn(worker')
  <1>1. \A w \in Worker : state[w] \in States
    BY Zenon
  <1>2. IsFiniteSet(ExistingIn(state)) /\ IsFiniteSet(ActiveIn(state))
    BY Zenon, FS_Subset DEF ExistingIn, ActiveIn, In
  <1>3. CASE count <= n
    <2>1. PICK k \in 0..(n - count), new \in SUBSET {w \in Worker : state[w] = <<"none">>} :
             /\ Cardinality(new) = k
             /\ worker' = [w \in Worker |-> IF w \in new THEN <<"run">> ELSE state[w]]
             /\ m_worker_count' = count + k /\ m_active_worker_count' = active + k
             /\ m_target_worker_count' = n
      BY Zenon, <1>3 DEF Resized
    <2>2. \A w \in Worker : worker'[w] = IF w \in new THEN <<"run">> ELSE state[w]
      BY Zenon, <2>1
    <2>3. new \subseteq Worker /\ IsFiniteSet(new) /\ \A w \in new : state[w] = <<"none">>
      BY Zenon, <2>1, FS_Subset
    <2>4. worker' \in [Worker -> States]
      BY Zenon, <1>1, <2>1 DEF States
    <2>5. ExistingIn(worker') = ExistingIn(state) \cup new /\ ExistingIn(state) \cap new = {}
      BY <1>1, <2>2, <2>3 DEF ExistingIn
    <2>6. In(worker', "run") = In(state, "run") \cup new /\ In(worker', "task") = In(state, "task")
          /\ In(worker', "leaving") = In(state, "leaving") /\ In(worker', "woken") = In(state, "woken")
          /\ In(worker', "waiting") = In(state, "waiting")
      BY <1>1, <2>2, <2>3 DEF In
    <2>7. new \cap ActiveIn(state) = {} /\ ActiveIn(worker') = ActiveIn(state) \cup new
      BY <2>3, <2>6 DEF ActiveIn, In
    <2>8. /\ Cardinality(ExistingIn(state) \cup new) = count + k
          /\ Cardinality(ActiveIn(state) \cup new) = active + k
      <3>1. ASSUME NEW S, IsFiniteSet(S), S \cap new = {}
            PROVE  Cardinality(S \cup new) = Cardinality(S) + k
        <4>1. Cardinality(S \cup new) = Cardinality(S) + Cardinality(new) - Cardinality(S \cap new)
          BY Zenon, <2>3, <3>1, FS_Union
        <4>2. Cardinality(S \cap new) = 0 /\ Cardinality(S) \in Nat
          BY Zenon, <3>1, FS_EmptySet, FS_CardinalityType
        <4> QED
          BY <2>1, <4>1, <4>2
      <3> QED
        BY Zenon, <1>2, <2>5, <2>7, <3>1
    <2>9. \A w \in In(state, "task") : worker'[w] = state[w]
      BY <2>2, <2>3 DEF In
    <2>10. m_worker_count' <= n
      BY <2>1
    <2> QED
      BY Zenon, <2>1, <2>4, <2>5, <2>6, <2>7, <2>8, <2>9, <2>10 DEF AwakeIn
  <1>4. CASE ~(count <= n)
    <2>1. /\ m_worker_count' = count /\ m_active_worker_count' = active
          /\ worker' = notify_all(state) /\ m_target_worker_count' = n
      BY Zenon, <1>4 DEF Resized
    <2>2. \A w \in Worker : worker'[w] = IF state[w] = <<"waiting">> THEN <<"woken">> ELSE state[w]
      BY Zenon, <2>1 DEF notify_all
    <2>3. worker' \in [Worker -> States]
      BY Zenon, <1>1, <2>1 DEF States, notify_all
    <2>4. ExistingIn(worker') = ExistingIn(state)
      BY <1>1, <2>2 DEF ExistingIn
    <2>5. In(worker', "run") = In(state, "run") /\ In(worker', "task") = In(state, "task")
          /\ In(worker', "leaving") = In(state, "leaving")
      BY <1>1, <2>2 DEF In
    <2>6. In(worker', "waiting") = {}
      BY <1>1, <2>2 DEF In, States
    <2>7. \A w \in In(state, "task") : worker'[w] = state[w]
      BY <2>2 DEF In
    <2> QED
      BY Zenon, <2>1, <2>3, <2>4, <2>5, <2>6, <2>7 DEF ActiveIn
  <1> QED
    BY Zenon, <1>3, <1>4

LEMMA ResizeStep ==
    ASSUME IsFiniteSet(Worker), PoolInv, NEW n \in Int, resize(n)
    PROVE  PoolInv'
  <1>1. /\ m_scheduler' = m_scheduler /\ next' = next /\ done' = done /\ policy' = policy /\ owner' = owner
        /\ owner = "using" /\ Resized(n, m_worker_count, m_active_worker_count, worker)
    BY Zenon DEF resize, life
  <1>2. /\ \A x : At(x) = In(worker, x) /\ At(x)' = In(worker', x)
        /\ Existing = ExistingIn(worker) /\ Existing' = ExistingIn(worker')
        /\ Active = ActiveIn(worker) /\ Active' = ActiveIn(worker')
        /\ Awake = AwakeIn(worker) /\ Awake' = AwakeIn(worker')
    BY Zenon DEF At, Existing, Active, Awake, In, ExistingIn, ActiveIn, AwakeIn
  <1>3. /\ worker' \in [Worker -> States] /\ m_target_worker_count' = n
        /\ m_worker_count' = Cardinality(Existing')
        /\ m_active_worker_count' = Cardinality(Active')
        /\ At("task")' = At("task") /\ \A w \in At("task") : worker'[w] = worker[w]
        /\ At("waiting")' # {} =>
              m_worker_count' <= n /\ At("waiting") # {} /\ Awake \subseteq Awake'
    BY Zenon, <1>1, <1>2, ResizedCounts DEF PoolInv, Typed, Counted
  <1>4. Typed'
    <2>1. IsFiniteSet(Existing') /\ IsFiniteSet(Active')
      BY Zenon, FS_Subset DEF Existing, Active, At
    <2>2. m_worker_count' \in Int /\ m_active_worker_count' \in Int
      BY <1>3, <2>1, FS_CardinalityType
    <2> QED
      BY Zenon, <1>1, <1>3, <2>2, SameStates DEF PoolInv, Typed
  <1>5. SleepersCovered'
    <2>1. SUFFICES ASSUME At("waiting")' # {}
                   PROVE  m_worker_count' <= n /\ Len(m_scheduler) <= Cardinality(Awake')
      BY Zenon, <1>1, <1>3 DEF SleepersCovered
    <2>2. Awake \subseteq Awake' /\ IsFiniteSet(Awake')
      BY Zenon, <1>3, <2>1, FS_Subset DEF Awake, At
    <2>3. Cardinality(Awake) <= Cardinality(Awake') /\ Cardinality(Awake) \in Nat /\ Cardinality(Awake') \in Nat
      BY Zenon, <2>2, FS_Subset, FS_CardinalityType
    <2>4. Len(m_scheduler) <= Cardinality(Awake) /\ Len(m_scheduler) \in Nat
      BY <1>3, <2>1 DEF PoolInv, SleepersCovered, Typed
    <2> QED
      BY <1>3, <2>1, <2>3, <2>4
  <1> QED
    BY <1>1, <1>3, <1>4, <1>5 DEF PoolInv, Counted, TasksApart, Drained, InTurn

-----------------------------------------------------------------------------
(* A worker's actions keep the invariant. *)

LEMMA LeaveStep ==
    ASSUME IsFiniteSet(Worker), PoolInv, NEW w \in Worker, execute_task(w), worker' = [worker EXCEPT ![w] = <<"leaving">>],
           m_worker_count > m_target_worker_count, m_scheduler' = m_scheduler,
           m_active_worker_count' = IF worker[w] = <<"woken">> THEN m_active_worker_count + 1 ELSE m_active_worker_count
    PROVE  PoolInv'
  <1>1. /\ worker[w] \in {<<"run">>, <<"woken">>} /\ next' = next /\ done' = done /\ policy' = policy /\ owner' = owner
        /\ m_worker_count' = m_worker_count /\ m_target_worker_count' = m_target_worker_count
    BY Zenon DEF execute_task, life, bounds
  <1>2. <<"leaving">> \in States /\ <<"leaving">>[1] = "leaving" /\ Typed
    BY Zenon DEF States, PoolInv
  <1>3. /\ \A x : At(x)' = IF "leaving" = x THEN At(x) \cup {w} ELSE At(x) \ {w}
        /\ Existing' = Existing \cup {w} /\ worker' \in [Worker -> States]
    BY Zenon, <1>2, Moved
  <1>4. /\ w \notin At("task") /\ w \in Existing /\ (w \in Active <=> worker[w] = <<"run">>)
    BY <1>1 DEF At, Existing, Active
  <1>5. Existing' = Existing /\ At("task")' = At("task") /\ Active' = Active \cup {w}
    BY Zenon, <1>3, <1>4 DEF Active
  <1>6. \A v \in At("task") : worker'[v] = worker[v]
    BY Zenon, <1>2, <1>4 DEF Typed, At
  <1>7. m_active_worker_count' = Cardinality(Active')
    <2>1. IsFiniteSet(Active)
      BY Zenon, WorkersFinite
    <2>2. CASE worker[w] = <<"run">>
      <3>1. worker[w] # <<"woken">> /\ w \in Active
        BY <1>4, <2>2
      <3> QED
        BY Zenon, <1>5, <2>1, <3>1, Counting DEF PoolInv, Counted, Typed
    <2>3. CASE worker[w] = <<"woken">>
      BY <1>4, <1>5, <2>1, <2>3, Counting DEF PoolInv, Counted, Typed
    <2> QED
      BY Zenon, <1>1, <2>2, <2>3
  <1>8. At("waiting")' = {}
    <2>1. At("waiting") = {}
      BY <1>2 DEF PoolInv, SleepersCovered, Typed
    <2> QED
      BY Zenon, <1>3, <2>1
  <1>9. Typed'
    BY <1>1, <1>3, SameStates DEF PoolInv, Typed
  <1> QED
    BY <1>1, <1>5, <1>6, <1>7, <1>8, <1>9 DEF PoolInv, Counted, TasksApart, SleepersCovered, Drained, InTurn

LEMMA SleepStep ==
    ASSUME IsFiniteSet(Worker), PoolInv, NEW w \in Worker, execute_task(w), worker' = [worker EXCEPT ![w] = <<"waiting">>],
           m_worker_count <= m_target_worker_count, m_scheduler = <<>>, m_scheduler' = m_scheduler,
           m_active_worker_count' = IF worker[w] = <<"woken">> THEN m_active_worker_count ELSE m_active_worker_count - 1
    PROVE  PoolInv'
  <1>1. /\ worker[w] \in {<<"run">>, <<"woken">>} /\ next' = next /\ done' = done /\ policy' = policy /\ owner' = owner
        /\ m_worker_count' = m_worker_count /\ m_target_worker_count' = m_target_worker_count
    BY Zenon DEF execute_task, life, bounds
  <1>2. <<"waiting">> \in States /\ <<"waiting">>[1] = "waiting" /\ Typed
    BY Zenon DEF States, PoolInv
  <1>3. /\ \A x : At(x)' = IF "waiting" = x THEN At(x) \cup {w} ELSE At(x) \ {w}
        /\ Existing' = Existing \cup {w} /\ worker' \in [Worker -> States]
    BY Zenon, <1>2, Moved
  <1>4. /\ w \notin At("task") /\ w \in Existing /\ (w \in Active <=> worker[w] = <<"run">>)
    BY <1>1 DEF At, Existing, Active
  <1>5. Existing' = Existing /\ At("task")' = At("task") /\ Active' = Active \ {w}
    BY Zenon, <1>3, <1>4 DEF Active
  <1>6. \A v \in At("task") : worker'[v] = worker[v]
    BY Zenon, <1>2, <1>4 DEF Typed, At
  <1>7. m_active_worker_count' = Cardinality(Active') /\ m_active_worker_count' \in Int
    <2>1. IsFiniteSet(Active)
      BY Zenon, WorkersFinite
    <2>2. CASE worker[w] = <<"run">>
      <3>1. worker[w] # <<"woken">> /\ w \in Active
        BY <1>4, <2>2
      <3> QED
        BY <1>5, <2>1, <3>1, Counting DEF PoolInv, Counted, Typed
    <2>3. CASE worker[w] = <<"woken">>
      <3>1. worker[w] # <<"run">> /\ w \notin Active
        BY <1>4, <2>3
      <3>2. Active' = Active
        BY Zenon, <1>5, <3>1
      <3> QED
        BY Zenon, <2>3, <3>2 DEF PoolInv, Counted, Typed
    <2> QED
      BY Zenon, <1>1, <2>2, <2>3
  <1>8. Len(m_scheduler') <= Cardinality(Awake')
    <2>1. IsFiniteSet(Awake')
      BY Zenon, FS_Subset DEF Awake, At
    <2> QED
      BY <2>1, FS_CardinalityType
  <1>9. Typed'
    BY Zenon, <1>1, <1>3, <1>7, SameStates DEF PoolInv, Typed
  <1> QED
    BY <1>1, <1>5, <1>6, <1>7, <1>8, <1>9 DEF PoolInv, Counted, TasksApart, SleepersCovered, Drained, InTurn

LEMMA TakeStep ==
    ASSUME IsFiniteSet(Worker), PoolInv, NEW w \in Worker, execute_task(w), NEW i \in top,
           worker' = [worker EXCEPT ![w] = <<"task", m_scheduler[i]>>], m_scheduler' = pop(i),
           m_active_worker_count' = IF worker[w] = <<"woken">> THEN m_active_worker_count + 1 ELSE m_active_worker_count
    PROVE  PoolInv'
  <1> DEFINE t == m_scheduler[i]
             n == Len(m_scheduler)
  <1>1. /\ worker[w] \in {<<"run">>, <<"woken">>} /\ next' = next /\ done' = done /\ policy' = policy /\ owner' = owner
        /\ m_worker_count' = m_worker_count /\ m_target_worker_count' = m_target_worker_count
    BY Zenon DEF execute_task, life, bounds
  <1>2. /\ i \in 1..n /\ n \in Nat /\ n = Len(m_scheduler) /\ DOMAIN m_scheduler = 1..n /\ t \in 1..next /\ next \in Nat
        /\ policy = "fifo" => i = 1
        /\ \A k \in 1..n : m_scheduler[k] \in 1..next
    BY DEF top, prio_scheduler, PoolInv, Typed
  <1>3. /\ m_scheduler' \in Seq(1..next) /\ Len(m_scheduler') = n - 1 /\ DOMAIN m_scheduler' = 1..(n - 1)
        /\ \A k \in 1..(n - 1) : m_scheduler'[k] = IF k < i THEN m_scheduler[k] ELSE m_scheduler[k + 1]
    <2>1. i \in DOMAIN m_scheduler /\ Typed
      BY Zenon, <1>2 DEF PoolInv
    <2>2. /\ pop(i) \in Seq(1..next) /\ Len(pop(i)) = Len(m_scheduler) - 1
          /\ \A k \in 1..(Len(m_scheduler) - 1) : pop(i)[k] = IF k < i THEN m_scheduler[k] ELSE m_scheduler[k + 1]
      BY Zenon, <2>1, Popped
    <2> HIDE DEF n
    <2> QED
      BY <1>2, <2>2
  <1>4. <<"task", t>> \in States /\ <<"task", t>>[1] = "task" /\ <<"task", t>>[2] = t
        /\ <<"task", t>> \notin {<<"none">>, <<"gone">>} /\ Typed
    BY Zenon, <1>2 DEF States, PoolInv
  <1> HIDE DEF t, n
  <1>5. /\ \A x : At(x)' = IF "task" = x THEN At(x) \cup {w} ELSE At(x) \ {w}
        /\ Existing' = Existing \cup {w} /\ worker' \in [Worker -> States]
    BY Zenon, <1>4, Moved DEF t
  <1>6. /\ w \notin At("task") /\ w \notin At("waiting") /\ w \in Existing /\ (w \in Active <=> worker[w] = <<"run">>)
        /\ w \in Awake
    BY <1>1 DEF At, Existing, Active, Awake
  <1>7. /\ Existing' = Existing /\ At("task")' = At("task") \cup {w} /\ Active' = Active \cup {w}
        /\ Awake' = Awake \ {w} /\ At("waiting")' = At("waiting")
    BY Zenon, <1>5, <1>6 DEF Active, Awake
  <1>8. worker'[w] = <<"task", t>> /\ \A v \in At("task") : worker'[v] = worker[v]
    BY Zenon, <1>4, <1>6 DEF Typed, At, t
  <1>9. m_active_worker_count' = Cardinality(Active') /\ m_active_worker_count' \in Int
    <2>1. IsFiniteSet(Active)
      BY Zenon, WorkersFinite
    <2>2. CASE worker[w] = <<"run">>
      <3>1. worker[w] # <<"woken">> /\ w \in Active
        BY <1>6, <2>2
      <3> QED
        BY Zenon, <1>7, <2>1, <3>1, Counting DEF PoolInv, Counted, Typed
    <2>3. CASE worker[w] = <<"woken">>
      BY <1>6, <1>7, <2>1, <2>3, Counting DEF PoolInv, Counted
    <2> QED
      BY Zenon, <1>1, <2>2, <2>3
  <1>10. Typed'
    BY Zenon, <1>1, <1>3, <1>5, <1>9, SameStates DEF PoolInv, Typed
  <1>11. Counted'
    BY Zenon, <1>1, <1>7, <1>9 DEF PoolInv, Counted
  <1>12. \A k \in 1..(n - 1) : \E j \in 1..n : j # i /\ m_scheduler'[k] = m_scheduler[j] /\ j = IF k < i THEN k ELSE k + 1
    <2> SUFFICES ASSUME NEW k \in 1..(n - 1)
                 PROVE  \E j \in 1..n : j # i /\ m_scheduler'[k] = m_scheduler[j] /\ j = IF k < i THEN k ELSE k + 1
      BY Zenon
    <2>1. CASE k < i
      <3>1. k \in 1..n /\ k # i /\ m_scheduler'[k] = m_scheduler[k]
        BY SMTT(60), <1>2, <1>3, <2>1
      <3> QED
        BY Zenon, <2>1, <3>1
    <2>2. CASE ~(k < i)
      <3>1. k + 1 \in 1..n /\ k + 1 # i /\ m_scheduler'[k] = m_scheduler[k + 1]
        BY <1>2, <1>3, <2>2
      <3> QED
        BY Zenon, <2>2, <3>1
    <2> QED
      BY Zenon, <2>1, <2>2
  <1>13. TasksApart'
    <2>1. /\ \A k, j \in 1..n : m_scheduler[k] = m_scheduler[j] => k = j
          /\ \A v \in At("task") : worker[v][2] \notin done /\ \A k \in 1..n : m_scheduler[k] # worker[v][2]
          /\ \A k \in 1..n : m_scheduler[k] \notin done
          /\ \A u, v \in At("task") : worker[u] = worker[v] => u = v
      BY Zenon, <1>2 DEF PoolInv, TasksApart
    <2>2. \A k, j \in 1..(n - 1) : m_scheduler'[k] = m_scheduler'[j] => k = j
      <3> SUFFICES ASSUME NEW k \in 1..(n - 1), NEW j \in 1..(n - 1), m_scheduler'[k] = m_scheduler'[j]
                   PROVE  k = j
        BY Zenon
      <3>1. PICK k1 \in 1..n : m_scheduler'[k] = m_scheduler[k1] /\ k1 = IF k < i THEN k ELSE k + 1
        BY Zenon, <1>12
      <3>2. PICK j1 \in 1..n : m_scheduler'[j] = m_scheduler[j1] /\ j1 = IF j < i THEN j ELSE j + 1
        BY Zenon, <1>12
      <3>3. k1 = j1
        BY Zenon, <2>1, <3>1, <3>2
      <3>4. i \in Int /\ k \in Int /\ j \in Int
        BY <1>2
      <3>5. (IF k < i THEN k ELSE k + 1) = (IF j < i THEN j ELSE j + 1)
        BY Zenon, <3>1, <3>2, <3>3
      <3> QED
        BY <3>4, <3>5
    <2>3. \A k \in 1..(n - 1) : m_scheduler'[k] # t
      <3> SUFFICES ASSUME NEW k \in 1..(n - 1) PROVE m_scheduler'[k] # t
        BY Zenon
      <3>1. PICK j \in 1..n : j # i /\ m_scheduler'[k] = m_scheduler[j]
        BY Zenon, <1>12
      <3>2. i \in 1..n
        BY Zenon, <1>2
      <3> QED
        BY Zenon, <2>1, <3>1, <3>2 DEF t
    <2>4. \A k \in 1..(n - 1) : m_scheduler'[k] \notin done /\ \A v \in At("task") : m_scheduler'[k] # worker[v][2]
      BY <1>12, <2>1
    <2>5. t \notin done /\ \A v \in At("task") : worker[v][2] # t
      BY Zenon, <1>2, <2>1 DEF t
    <2>6. worker'[w][2] = t
      BY Zenon, <1>4, <1>8
    <2>7. \A v \in At("task")' : worker'[v][2] \notin done /\ \A k \in 1..(n - 1) : m_scheduler'[k] # worker'[v][2]
      BY SMTT(60), <1>7, <1>8, <2>1, <2>3, <2>4, <2>5, <2>6
    <2>8. \A u, v \in At("task")' : worker'[u] = worker'[v] => u = v
      BY <1>7, <1>8, <2>1, <2>5, <2>6
    <2> QED
      BY <1>1, <1>3, <2>2, <2>4, <2>7, <2>8 DEF TasksApart
  <1>14. SleepersCovered'
    <2>1. Cardinality(Awake') = Cardinality(Awake) - 1 /\ Cardinality(Awake) \in Nat
      BY Zenon, <1>6, <1>7, Counting, WorkersFinite
    <2> QED
      BY SMTT(60), <1>1, <1>2, <1>3, <1>7, <2>1 DEF PoolInv, SleepersCovered, n
  <1>15. Drained'
    BY <1>1, <1>2 DEF PoolInv, Drained
  <1>16. InTurn'
    <2>1. SUFFICES ASSUME policy = "fifo"
                   PROVE  /\ \A k, j \in 1..(n - 1) : k < j => m_scheduler'[k] < m_scheduler'[j]
                          /\ \A k \in 1..(n - 1) :
                                /\ \A v \in At("task")' : worker'[v][2] < m_scheduler'[k]
                                /\ \A d \in done : d < m_scheduler'[k]
      BY Zenon, <1>1, <1>3 DEF InTurn
    <2>2. /\ \A k, j \in 1..n : k < j => m_scheduler[k] < m_scheduler[j]
          /\ \A k \in 1..n : (\A v \in At("task") : worker[v][2] < m_scheduler[k]) /\ (\A d \in done : d < m_scheduler[k])
      BY Zenon, <1>2, <2>1 DEF PoolInv, InTurn
    <2>3. \A k \in 1..(n - 1) : k + 1 \in 1..n /\ m_scheduler'[k] = m_scheduler[k + 1] /\ t < m_scheduler'[k]
      <3>1. i = 1 /\ t = m_scheduler[1] /\ 1 \in 1..n
        BY Zenon, <1>2, <2>1 DEF t
      <3>2. \A k \in 1..(n - 1) : ~(k < 1) /\ k + 1 \in 1..n /\ 1 < k + 1
        BY <1>2
      <3>3. \A k \in 1..(n - 1) : m_scheduler'[k] = m_scheduler[k + 1]
        BY Zenon, <1>3, <3>1, <3>2
      <3> QED
        BY Zenon, <2>2, <3>1, <3>2, <3>3
    <2>4. \A k, j \in 1..(n - 1) : k < j => m_scheduler'[k] < m_scheduler'[j]
      <3>1. \A k, j \in 1..(n - 1) : k < j => k + 1 < j + 1
        BY <1>2
      <3> QED
        BY Zenon, <2>2, <2>3, <3>1
    <2>5. worker'[w][2] = t
      BY <1>4, <1>8
    <2> QED
      BY Zenon, <1>7, <1>8, <2>2, <2>3, <2>4, <2>5
  <1> QED
    BY Zenon, <1>10, <1>11, <1>13, <1>14, <1>15, <1>16 DEF PoolInv

LEMMA ExecuteStep ==
    ASSUME IsFiniteSet(Worker), PoolInv, NEW w \in Worker, execute_task(w)
    PROVE  PoolInv'
  <1> DEFINE active == IF worker[w] = <<"woken">> THEN m_active_worker_count + 1 ELSE m_active_worker_count
             many == m_worker_count > m_target_worker_count
  <1>1. m_worker_count \in Int /\ m_target_worker_count \in Int /\ m_active_worker_count \in Int
    BY Zenon DEF PoolInv, Typed
  <1>2. CASE many /\ (worker[w] = <<"run">> \/ m_scheduler = <<>>)
    BY Zenon, <1>2, LeaveStep DEF execute_task
  <1>3. CASE ~(many /\ (worker[w] = <<"run">> \/ m_scheduler = <<>>)) /\ m_scheduler = <<>>
    <2>1. /\ worker' = [worker EXCEPT ![w] = <<"waiting">>] /\ m_active_worker_count' = active - 1
          /\ m_scheduler' = m_scheduler /\ ~many
      BY Zenon, <1>3 DEF execute_task
    <2>2. m_worker_count <= m_target_worker_count
      BY <1>1, <2>1
    <2>3. active - 1 = IF worker[w] = <<"woken">> THEN m_active_worker_count ELSE m_active_worker_count - 1
      BY <1>1
    <2> QED
      BY Zenon, <1>3, <2>1, <2>2, <2>3, SleepStep
  <1>4. CASE ~(many /\ (worker[w] = <<"run">> \/ m_scheduler = <<>>)) /\ m_scheduler # <<>>
    <2>1. PICK i \in top : /\ worker' = [worker EXCEPT ![w] = <<"task", m_scheduler[i]>>]
                           /\ m_scheduler' = pop(i) /\ m_active_worker_count' = active
      BY Zenon, <1>4 DEF execute_task
    <2> QED
      BY Zenon, <2>1, TakeStep
  <1> QED
    BY Zenon, <1>2, <1>3, <1>4

LEMMA TaskStep ==
    ASSUME IsFiniteSet(Worker), PoolInv, NEW w \in Worker, task(w)
    PROVE  PoolInv'
  <1>1. /\ w \in At("task") /\ done' = done \cup {worker[w][2]} /\ worker' = [worker EXCEPT ![w] = <<"run">>]
        /\ m_scheduler' = m_scheduler /\ UNCHANGED counts /\ next' = next /\ policy' = policy /\ owner' = owner
    BY Zenon DEF task, life, bounds
  <1>2. <<"run">> \in States /\ <<"run">>[1] = "run" /\ Typed
    BY Zenon DEF States, PoolInv
  <1>3. /\ \A x : At(x)' = IF "run" = x THEN At(x) \cup {w} ELSE At(x) \ {w}
        /\ Existing' = Existing \cup {w} /\ worker' \in [Worker -> States]
    BY ZenonT(60), <1>1, <1>2, Moved
  <1>4. w \in Existing /\ w \in Active /\ w \notin At("waiting") /\ worker[w][2] \in 1..next
    BY Zenon, <1>1, <1>2, Labels DEF At, Existing, Active
  <1>5. /\ Existing' = Existing /\ Active' = Active /\ Awake' = Awake \cup {w}
        /\ At("task")' = At("task") \ {w} /\ At("waiting")' = At("waiting")
    BY ZenonT(60), <1>3, <1>4 DEF Active, Awake
  <1>6. \A v \in At("task")' : v \in At("task") /\ v # w /\ worker'[v] = worker[v]
    BY Zenon, <1>1, <1>2, <1>5 DEF Typed, At
  <1>7. Typed'
    BY Zenon, <1>1, <1>3, <1>4, SameStates DEF PoolInv, Typed, counts
  <1>8. Counted'
    BY Zenon, <1>1, <1>5 DEF PoolInv, Counted, counts
  <1>9. TasksApart'
    <2>1. \A v \in At("task") : v # w => worker[v][2] # worker[w][2]
      BY Zenon, <1>1, TasksDiffer DEF PoolInv
    <2>2. \A v \in At("task")' : worker'[v][2] \notin done' /\ \A i \in DOMAIN m_scheduler : m_scheduler[i] # worker'[v][2]
      BY <1>1, <1>6, <2>1 DEF PoolInv, TasksApart
    <2>3. \A i \in DOMAIN m_scheduler : m_scheduler[i] \notin done'
      BY Zenon, <1>1 DEF PoolInv, TasksApart
    <2>4. \A u, v \in At("task")' : worker'[u] = worker'[v] => u = v
      BY Zenon, <1>6 DEF PoolInv, TasksApart
    <2>5. \A i, j \in DOMAIN m_scheduler : m_scheduler[i] = m_scheduler[j] => i = j
      BY Zenon DEF PoolInv, TasksApart
    <2> QED
      BY Zenon, <1>1, <2>2, <2>3, <2>4, <2>5 DEF TasksApart
  <1>10. SleepersCovered'
    <2>1. Cardinality(Awake) <= Cardinality(Awake') /\ Cardinality(Awake) \in Nat /\ Cardinality(Awake') \in Nat
      <3>1. IsFiniteSet(Awake) /\ IsFiniteSet(Awake') /\ Awake \subseteq Awake'
        BY Zenon, <1>5, Counting, WorkersFinite
      <3> QED
        BY Zenon, <3>1, FS_Subset, FS_CardinalityType
    <2>2. Len(m_scheduler) \in Nat
      BY <1>2 DEF Typed
    <2> QED
      BY <1>1, <1>5, <2>1, <2>2 DEF PoolInv, SleepersCovered, counts
  <1>11. Drained' /\ InTurn'
    BY ZenonT(60), <1>1, <1>5, <1>6 DEF PoolInv, Drained, InTurn
  <1> QED
    BY Zenon, <1>7, <1>8, <1>9, <1>10, <1>11 DEF PoolInv

\* The sets of workers when one that is active is gone.
LEMMA Gone ==
    ASSUME IsFiniteSet(Worker), PoolInv, NEW w \in Worker, w \in At("task") \cup At("leaving"),
           NEW state, state = [worker EXCEPT ![w] = <<"gone">>]
    PROVE  /\ state \in [Worker -> States]
           /\ m_worker_count - 1 = Cardinality(ExistingIn(state))
           /\ m_active_worker_count - 1 = Cardinality(ActiveIn(state))
           /\ In(state, "task") = At("task") \ {w} /\ In(state, "waiting") = At("waiting") /\ AwakeIn(state) = Awake
           /\ \A v \in In(state, "task") : v \in At("task") /\ v # w /\ state[v] = worker[v]
  <1>1. <<"gone">> \in States /\ <<"gone">>[1] = "gone" /\ worker \in [Worker -> States]
    BY Zenon DEF States, PoolInv, Typed
  <1>2. \A v \in Worker : state[v] = IF v = w THEN <<"gone">> ELSE worker[v]
    BY Zenon, <1>1
  <1>3. state \in [Worker -> States]
    BY Zenon, <1>1
  <1>4. w \in Existing /\ w \in Active /\ w \notin At("waiting") /\ w \notin At("woken") /\ w \notin At("run")
    BY DEF At, Existing, Active
  <1>5. /\ In(state, "task") = At("task") \ {w} /\ In(state, "leaving") = At("leaving") \ {w}
        /\ In(state, "waiting") = At("waiting") /\ In(state, "woken") = At("woken") /\ In(state, "run") = At("run")
        /\ ExistingIn(state) = Existing \ {w}
    BY <1>2, <1>4 DEF In, At, ExistingIn, Existing
  <1>6. ActiveIn(state) = Active \ {w} /\ AwakeIn(state) = Awake
    BY ZenonT(60), <1>4, <1>5 DEF ActiveIn, AwakeIn, Active, Awake
  <1>7. /\ Cardinality(Existing \ {w}) = Cardinality(Existing) - 1
        /\ Cardinality(Active \ {w}) = Cardinality(Active) - 1
    BY ZenonT(60), <1>4, Counting, WorkersFinite
  <1> QED
    BY ZenonT(60), <1>2, <1>3, <1>5, <1>6, <1>7 DEF PoolInv, Counted, In

LEMMA DestructedStep ==
    ASSUME IsFiniteSet(Worker), PoolInv, NEW w \in Worker, worker_destructed(w)
    PROVE  PoolInv'
  <1>1. /\ w \in At("leaving") /\ worker' = [worker EXCEPT ![w] = <<"gone">>] /\ done' = done
        /\ m_worker_count' = m_worker_count - 1 /\ m_active_worker_count' = m_active_worker_count - 1
        /\ m_scheduler' = m_scheduler /\ next' = next /\ policy' = policy /\ owner' = owner
        /\ m_target_worker_count' = m_target_worker_count
    BY Zenon DEF worker_destructed, bounds
  <1> DEFINE state == [worker EXCEPT ![w] = <<"gone">>]
  <1>2. /\ state \in [Worker -> States]
        /\ m_worker_count - 1 = Cardinality(ExistingIn(state))
        /\ m_active_worker_count - 1 = Cardinality(ActiveIn(state))
        /\ In(state, "task") = At("task") \ {w} /\ In(state, "waiting") = At("waiting") /\ AwakeIn(state) = Awake
        /\ \A v \in In(state, "task") : v \in At("task") /\ v # w /\ state[v] = worker[v]
    <2>1. w \in At("task") \cup At("leaving")
      BY Zenon, <1>1
    <2> QED
      BY Zenon, <2>1, Gone
  <1>3. worker' = state
    BY Zenon, <1>1
  <1> HIDE DEF state
  <1>4. /\ \A x : At(x)' = In(worker', x)
        /\ Existing' = ExistingIn(worker') /\ Active' = ActiveIn(worker') /\ Awake' = AwakeIn(worker')
    BY Zenon DEF At, Existing, Active, Awake, In, ExistingIn, ActiveIn, AwakeIn
  <1>5. w \notin At("task")
    BY Zenon, <1>1 DEF At
  <1>6. /\ At("task")' = At("task") /\ At("waiting")' = At("waiting") /\ Awake' = Awake
        /\ \A v \in At("task") : worker'[v] = worker[v]
    <2>1. At("task")' = In(state, "task") /\ At("waiting")' = In(state, "waiting") /\ Awake' = AwakeIn(state)
      BY Zenon, <1>3, <1>4
    <2>2. In(state, "task") = At("task")
      BY Zenon, <1>2, <1>5
    <2>3. \A v \in At("task") : state[v] = worker[v]
      BY Zenon, <1>2, <2>2
    <2> QED
      BY Zenon, <1>2, <1>3, <2>1, <2>2, <2>3
  <1>7. Typed' /\ Counted'
    <2>1. States' = States /\ worker' \in [Worker -> States]
      BY Zenon, <1>1, <1>2, <1>3, SameStates
    <2>2. m_worker_count' = Cardinality(Existing') /\ m_active_worker_count' = Cardinality(Active')
      BY Zenon, <1>1, <1>2, <1>3, <1>4
    <2>3. m_worker_count' \in Int /\ m_active_worker_count' \in Int
      BY <1>1 DEF PoolInv, Typed
    <2> QED
      BY Zenon, <1>1, <2>1, <2>2, <2>3 DEF PoolInv, Typed, Counted
  <1>8. SleepersCovered'
    BY <1>1, <1>6 DEF PoolInv, Typed, SleepersCovered
  <1> QED
    BY <1>1, <1>6, <1>7, <1>8 DEF PoolInv, TasksApart, Drained, InTurn

LEMMA DiedStep ==
    ASSUME IsFiniteSet(Worker), PoolInv, NEW w \in Worker, worker_died_unexpectedly(w)
    PROVE  PoolInv'
  <1> DEFINE state == [worker EXCEPT ![w] = <<"gone">>]
  <1>1. /\ w \in At("task") /\ done' = done \cup {worker[w][2]}
        /\ m_scheduler' = m_scheduler /\ next' = next /\ policy' = policy /\ owner' = owner
    BY Zenon DEF worker_died_unexpectedly
  <1>2. /\ state \in [Worker -> States]
        /\ m_worker_count - 1 = Cardinality(ExistingIn(state))
        /\ m_active_worker_count - 1 = Cardinality(ActiveIn(state))
        /\ In(state, "task") = At("task") \ {w} /\ In(state, "waiting") = At("waiting") /\ AwakeIn(state) = Awake
        /\ \A v \in In(state, "task") : v \in At("task") /\ v # w /\ state[v] = worker[v]
    BY Zenon, <1>1, Gone
  <1>3. /\ \A x : At(x)' = In(worker', x)
        /\ Existing' = ExistingIn(worker') /\ Active' = ActiveIn(worker') /\ Awake' = AwakeIn(worker')
    BY DEF At, Existing, Active, Awake, In, ExistingIn, ActiveIn, AwakeIn
  <1>4. m_worker_count \in Int /\ m_active_worker_count \in Int /\ m_target_worker_count \in Int
    BY Zenon DEF PoolInv, Typed
  <1>5. /\ worker' \in [Worker -> States] /\ m_target_worker_count' \in Int
        /\ m_worker_count' = Cardinality(ExistingIn(worker'))
        /\ m_active_worker_count' = Cardinality(ActiveIn(worker'))
        /\ In(worker', "task") = In(state, "task") /\ \A v \in In(state, "task") : worker'[v] = state[v]
        /\ In(worker', "waiting") # {} =>
              /\ m_worker_count' <= m_target_worker_count'
              /\ In(state, "waiting") # {} /\ AwakeIn(state) \subseteq AwakeIn(worker')
    <2>1. CASE m_terminate_all_workers
      <3>1. /\ m_worker_count' = m_worker_count - 1 /\ m_active_worker_count' = m_active_worker_count - 1
            /\ worker' = state /\ m_target_worker_count' = m_target_worker_count
        BY Zenon, <2>1 DEF worker_died_unexpectedly
      <3>2. At("waiting") # {} => m_worker_count' <= m_target_worker_count'
        BY <1>4, <3>1 DEF PoolInv, SleepersCovered
      <3> HIDE DEF state
      <3> QED
        BY Zenon, <1>2, <1>4, <3>1, <3>2
    <2>2. CASE ~m_terminate_all_workers
      <3>1. Resized(static_size(m_worker_count - 1), m_worker_count - 1, m_active_worker_count - 1, state)
        BY Zenon, <2>2 DEF worker_died_unexpectedly
      <3>2. static_size(m_worker_count - 1) \in Int /\ m_worker_count - 1 \in Int /\ m_active_worker_count - 1 \in Int
        BY <1>4 DEF static_size
      <3> HIDE DEF state
      <3> QED
        BY Zenon, <1>2, <3>1, <3>2, ResizedCounts
    <2> QED
      BY Zenon, <2>1, <2>2
  <1> HIDE DEF state
  <1>6. /\ At("task")' = At("task") \ {w}
        /\ \A v \in At("task")' : v \in At("task") /\ v # w /\ worker'[v] = worker[v]
        /\ At("waiting")' # {} => m_worker_count' <= m_target_worker_count' /\ At("waiting") # {} /\ Awake \subseteq Awake'
    BY Zenon, <1>2, <1>3, <1>5
  <1>7. worker[w][2] \in 1..next
    BY Zenon, <1>1, Labels DEF PoolInv
  <1>8. Typed' /\ Counted'
    <2>1. IsFiniteSet(Existing') /\ IsFiniteSet(Active')
      BY Zenon, FS_Subset DEF Existing, Active, At
    <2>2. Cardinality(Existing') \in Nat /\ Cardinality(Active') \in Nat
      BY Zenon, <2>1, FS_CardinalityType
    <2>3. m_worker_count' \in Int /\ m_active_worker_count' \in Int
      BY <1>3, <1>5, <2>2
    <2> QED
      BY ZenonT(60), <1>1, <1>3, <1>5, <1>7, <2>3, SameStates DEF PoolInv, Typed, Counted
  <1>9. TasksApart'
    <2>1. \A v \in At("task") : v # w => worker[v][2] # worker[w][2]
      BY Zenon, <1>1, TasksDiffer DEF PoolInv
    <2>2. \A v \in At("task")' : worker'[v][2] \notin done' /\ \A i \in DOMAIN m_scheduler : m_scheduler[i] # worker'[v][2]
      BY ZenonT(60), <1>1, <1>6, <2>1 DEF PoolInv, TasksApart
    <2>3. \A i \in DOMAIN m_scheduler : m_scheduler[i] \notin done'
      BY Zenon, <1>1 DEF PoolInv, TasksApart
    <2>4. \A u, v \in At("task")' : worker'[u] = worker'[v] => u = v
      BY ZenonT(60), <1>6 DEF PoolInv, TasksApart
    <2>5. \A i, j \in DOMAIN m_scheduler : m_scheduler[i] = m_scheduler[j] => i = j
      BY DEF PoolInv, TasksApart
    <2> QED
      BY Zenon, <1>1, <2>2, <2>3, <2>4, <2>5 DEF TasksApart
  <1>10. SleepersCovered'
    <2>1. SUFFICES ASSUME At("waiting")' # {}
                   PROVE  m_worker_count' <= m_target_worker_count' /\ Len(m_scheduler) <= Cardinality(Awake')
      BY Zenon, <1>1 DEF SleepersCovered
    <2>2. Awake \subseteq Awake' /\ IsFiniteSet(Awake')
      BY Zenon, <1>6, <2>1, FS_Subset DEF Awake, At
    <2>3. Cardinality(Awake) <= Cardinality(Awake') /\ Cardinality(Awake) \in Nat /\ Cardinality(Awake') \in Nat
      BY Zenon, <2>2, FS_Subset, FS_CardinalityType
    <2>4. Len(m_scheduler) <= Cardinality(Awake) /\ Len(m_scheduler) \in Nat
      BY <1>6, <2>1 DEF PoolInv, SleepersCovered, Typed
    <2> QED
      BY <1>6, <2>1, <2>3, <2>4
  <1>11. Drained' /\ InTurn'
    BY Zenon, <1>1, <1>6 DEF PoolInv, Drained, InTurn
  <1> QED
    BY Zenon, <1>8, <1>9, <1>10, <1>11 DEF PoolInv

-----------------------------------------------------------------------------
LEMMA PoolInit == ASSUME IsFiniteSet(Worker), Init PROVE PoolInv
  <1>1. /\ \A w \in Worker : worker[w] = <<"none">>
        /\ worker = [w \in Worker |-> <<"none">>] /\ m_scheduler = <<>> /\ next = 0 /\ done = {}
        /\ m_worker_count = 0 /\ m_target_worker_count = 0 /\ m_active_worker_count = 0 /\ owner = "using"
    BY Zenon DEF Init
  <1>2. \A x : x # "none" => At(x) = {}
    BY Zenon, <1>1 DEF At
  <1>3. Existing = {} /\ Active = {} /\ Awake = {}
    BY <1>1, <1>2 DEF Existing, Active, Awake
  <1>4. Typed
    <2>1. m_scheduler \in Seq(1..next)
      BY <1>1
    <2>2. worker \in [Worker -> States]
      BY Zenon, <1>1 DEF States
    <2> QED
      BY <1>1, <2>1, <2>2 DEF Typed
  <1>5. Counted
    BY Zenon, <1>1, <1>3, FS_EmptySet DEF Counted
  <1>6. DOMAIN m_scheduler = {} /\ At("task") = {} /\ At("waiting") = {}
    BY <1>1, <1>2
  <1> QED
    BY Zenon, <1>1, <1>4, <1>5, <1>6 DEF PoolInv, TasksApart, SleepersCovered, Drained, InTurn

LEMMA PoolStep ==
    ASSUME IsFiniteSet(Worker), Sizes \subseteq Int, PoolInv, [Next]_vars
    PROVE  PoolInv'
  <1>1. CASE UNCHANGED vars
    <2>1. /\ worker' = worker /\ m_scheduler' = m_scheduler /\ next' = next /\ done' = done
          /\ policy' = policy /\ UNCHANGED counts /\ owner' = owner
      BY Zenon, <1>1 DEF vars, counts
    <2> QED
      BY Zenon, <2>1, SameStates DEF PoolInv, Typed, Counted, TasksApart, SleepersCovered, Drained, InTurn, counts,
                  At, Existing, Active, Awake
  <1>2. ASSUME NEW n \in Sizes, resize(n) PROVE PoolInv'
    BY Zenon, <1>2, ResizeStep
  <1> QED
    BY ZenonT(60), <1>1, <1>2, ScheduleStep, ClearStep, WaitStep, TerminateStep, JoinStep, ExecuteStep, TaskStep, DestructedStep, DiedStep
    DEF Next

LEMMA PoolConsequence ==
    ASSUME IsFiniteSet(Worker), PoolInv
    PROVE  PoolCounts
  <1>1. \A t \in 1..next : ~(Pending(t) /\ Running(t)) /\ (t \in done => ~Pending(t) /\ ~Running(t))
    BY Zenon DEF PoolInv, TasksApart, Pending, Running
  <1>2. m_scheduler # <<>> /\ At("waiting") # {} => At("woken") \cup At("run") \cup At("task") # {}
    <2>1. SUFFICES ASSUME m_scheduler # <<>>, At("waiting") # {}, Awake = {} PROVE FALSE
      BY Zenon DEF Awake
    <2>2. Len(m_scheduler) \in Nat \ {0}
      BY <2>1 DEF PoolInv, Typed
    <2>3. Cardinality(Awake) = 0
      BY Zenon, <2>1, FS_EmptySet
    <2> QED
      BY <2>1, <2>2, <2>3 DEF PoolInv, SleepersCovered
  <1>3. policy = "fifo" => \A i \in DOMAIN m_scheduler : \A t \in 1..next :
            Running(t) \/ t \in done => t < m_scheduler[i]
    BY Zenon DEF PoolInv, InTurn, Running
  <1> QED
    BY Zenon, <1>1, <1>2, <1>3 DEF PoolCounts, PoolInv, Counted, Drained, Existing, Active

(***************************************************************************)
(* For any finite set of workers and any sizes, with each of the three     *)
(* schedulers, whatever the order of resizes, deaths and wake-ups: the     *)
(* counts of the pool are what its workers do, no task is executed twice,  *)
(* nobody sleeps over a task, nothing is left when the pool is shut down   *)
(* and a fifo_scheduler serves in order (pool_core.hpp, worker_thread.hpp).*)
(***************************************************************************)
THEOREM PoolCountsKept ==
    ASSUME IsFiniteSet(Worker), Sizes \subseteq Int
    PROVE  Spec => []PoolCounts
  <1>1. Init => PoolInv
    BY Zenon, PoolInit
  <1>2. PoolInv /\ [Next]_vars => PoolInv'
    BY Zenon, PoolStep
  <1>3. PoolInv => PoolCounts
    BY Zenon, PoolConsequence
  <1> QED
    BY <1>1, <1>2, <1>3, PTL DEF Spec
=============================================================================
