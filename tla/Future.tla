-------------------------------- MODULE Future --------------------------------
(***************************************************************************)
(* src/lib/threadpool/boost/threadpool/detail/future.hpp: the result of a  *)
(* task.  The worker runs future_impl_task_func, one thread may cancel and *)
(* others wait.  Only set_value and the waits hold m_monitor; the other    *)
(* members are volatile flags, read and written one at a time.             *)
(***************************************************************************)
CONSTANTS Waiter

VARIABLES m_ready, m_result, m_is_cancelled, m_executing,
          task,             \* what the worker is at
          canceller,        \* what cancel() is at, and what it returned
          waiter,           \* what each waiting thread is at
          ran               \* m_function was called
vars == <<m_ready, m_result, m_is_cancelled, m_executing, task, canceller, waiter, ran>>

\* The constructor leaves m_executing as it is.
Init ==
    /\ m_ready = FALSE /\ m_result = "unset" /\ m_is_cancelled = FALSE /\ m_executing \in BOOLEAN
    /\ task = "queued" /\ canceller = "idle" /\ waiter = [w \in Waiter |-> "idle"] /\ ran = FALSE

\* future_impl_task_func::operator()
Begin ==
    /\ task = "queued" /\ m_executing' = TRUE /\ task' = "check"
    /\ UNCHANGED <<m_ready, m_result, m_is_cancelled, canceller, waiter, ran>>
is_cancelled ==
    /\ task = "check" /\ task' = (IF m_is_cancelled THEN "end" ELSE "call")
    /\ UNCHANGED <<m_ready, m_result, m_is_cancelled, m_executing, canceller, waiter, ran>>
\* The function returns, or throws: then neither set_value nor the second
\* set_execution_status is reached ("TODO consider exceptions"), and the
\* exception ends the worker, which is in module PoolCore.
Call ==
    /\ task = "call" /\ ran' = TRUE /\ task' \in {"set", "thrown"}
    /\ UNCHANGED <<m_ready, m_result, m_is_cancelled, m_executing, canceller, waiter>>

\* Mutant: the waiters are told before the result is there.
set_valueLate ==
    /\ task = "set" /\ IF m_ready THEN m_result' = "value" /\ task' = "end" /\ UNCHANGED m_ready
                       ELSE m_ready' = TRUE /\ UNCHANGED <<m_result, task>>
    /\ UNCHANGED <<m_is_cancelled, m_executing, canceller, waiter, ran>>

set_value ==
    /\ task = "set" /\ task' = "end"
    /\ IF ~m_ready /\ ~m_is_cancelled THEN m_result' = "value" /\ m_ready' = TRUE
       ELSE UNCHANGED <<m_result, m_ready>>
    /\ UNCHANGED <<m_is_cancelled, m_executing, canceller, waiter, ran>>
End ==
    /\ task = "end" /\ m_executing' = FALSE /\ task' = "done"
    /\ UNCHANGED <<m_ready, m_result, m_is_cancelled, canceller, waiter, ran>>

\* cancel(), without a lock.
cancel ==
    /\ \/ canceller = "idle" /\ canceller' = (IF m_ready THEN "executing" ELSE "write") /\ UNCHANGED m_is_cancelled
       \/ canceller = "executing" /\ canceller' = (IF m_executing THEN "write" ELSE "false") /\ UNCHANGED m_is_cancelled
       \/ canceller = "write" /\ m_is_cancelled' = TRUE /\ canceller' = "true"
    /\ UNCHANGED <<m_ready, m_result, m_executing, task, waiter, ran>>

\* wait() and timed_wait(), then the result.
Wait(w) ==
    /\ waiter[w] = "idle" /\ waiter' = [waiter EXCEPT ![w] = "waiting"]
    /\ UNCHANGED <<m_ready, m_result, m_is_cancelled, m_executing, task, canceller, ran>>
Return(w) ==
    /\ waiter[w] = "waiting" /\ m_ready /\ waiter' = [waiter EXCEPT ![w] = m_result]
    /\ UNCHANGED <<m_ready, m_result, m_is_cancelled, m_executing, task, canceller, ran>>
TimeOut(w) ==
    /\ waiter[w] = "waiting" /\ ~m_ready /\ waiter' = [waiter EXCEPT ![w] = "idle"]
    /\ UNCHANGED <<m_ready, m_result, m_is_cancelled, m_executing, task, canceller, ran>>

Next ==
    \/ Begin \/ is_cancelled \/ Call \/ set_value \/ End \/ cancel
    \/ \E w \in Waiter : Wait(w) \/ Return(w) \/ TimeOut(w)

Spec == Init /\ [][Next]_vars

-----------------------------------------------------------------------------
\* Who waits for a future gets the value its function returned, in whatever
\* order the flags are read and written: never the unset member, and no value
\* without the function having run.  A task that has returned set the value
\* or was cancelled, and cancel() says false only when the result is there.
\* A task whose function threw leaves a future that is never ready: no call
\* of wait() returns, and m_executing stays set, so that cancel() still says
\* true of a function that has run.
FutureValue ==
    /\ \A w \in Waiter : waiter[w] \in {"idle", "waiting", "value"}
    /\ m_ready => ran /\ m_result = "value"
    /\ task = "done" /\ ~m_ready => m_is_cancelled
    /\ task = "thrown" => ~m_ready /\ m_executing /\ \A w \in Waiter : waiter[w] # "value"
    /\ canceller = "false" => m_ready
=============================================================================
