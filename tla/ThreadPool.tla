----------------------------- MODULE ThreadPool -----------------------------
(***************************************************************************)
(* The analyzer's thread pool (TCP_C/thread.c): a task list guarded by the *)
(* mutex pool->lock, worker threads that sleep on the condition variable   *)
(* pool->ready, callers of pool_add_task, and callers of pool_destroy.     *)
(* One action is one stretch of code between two points where another      *)
(* thread can observe or change what it uses.  pool->shutdown is written   *)
(* without the lock, so it may change while a worker holds the lock.       *)
(***************************************************************************)
EXTENDS Naturals, Sequences, FiniteSets

CONSTANTS Workers,     \* the threads of pool->thread_id
          Adders,      \* the threads that call pool_add_task
          Destroyers,  \* the threads that call pool_destroy
          Tasks,       \* the (task, parms) pairs handed to pool_add_task
          NoTask,      \* "task" of a worker that runs nothing
          Unlocked     \* value of pool->lock when no thread owns it

ASSUME PoolAssumption ==
    /\ Workers # {}
    /\ NoTask \notin Tasks
    /\ Unlocked \notin Workers

VARIABLES lock,                \* owner of pool->lock between two worker steps
          head,                \* the list pool->head, first task first
          cur_task_list_size,  \* pool->cur_task_list_size
          shutdown,            \* pool->shutdown
          wpc, task,           \* worker control point; its local "task"
          apc, newtask,        \* caller of pool_add_task; its local "newtask"
          dpc,                 \* caller of pool_destroy
          frees,               \* how often wys_free(pool) has run
          added,               \* history: tasks in the order they were linked
          started,             \* history: tasks in the order they were taken
          dropped              \* history: tasks freed unrun by pool_destroy

poolVars == <<lock, head, cur_task_list_size, shutdown, frees>>
history  == <<added, started, dropped>>
vars == <<poolVars, wpc, task, apc, newtask, dpc, history>>

WorkerPC    == {"lock", "test", "wait", "blocked", "woken", "run", "exited"}
AdderPC     == {"idle", "append", "signal"}
DestroyerPC == {"idle", "set", "broadcast", "join", "returned"}

Elems(s) == {s[i] : i \in DOMAIN s}

\* thread_pool_init: an empty list and max_thread_num threads at the top of
\* thread_routine.
thread_pool_init ==
    /\ lock = Unlocked
    /\ head = <<>>
    /\ cur_task_list_size = 0
    /\ shutdown = 0
    /\ wpc = [w \in Workers |-> "lock"]
    /\ task = [w \in Workers |-> NoTask]
    /\ apc = [a \in Adders |-> "idle"]
    /\ newtask = [a \in Adders |-> NoTask]
    /\ dpc = [d \in Destroyers |-> "idle"]
    /\ frees = 0
    /\ added = <<>>
    /\ started = <<>>
    /\ dropped = <<>>

-----------------------------------------------------------------------------
(* pool_add_task                                                           *)

\* A caller builds newtask.  Each task is submitted once, and only to a pool
\* nobody has begun to destroy: the pool gives callers no way to tell.
pool_add_task(a, t) ==
    /\ apc[a] = "idle"
    /\ t \notin Elems(added) \cup {newtask[b] : b \in Adders}
    /\ \A d \in Destroyers : dpc[d] = "idle"
    /\ apc' = [apc EXCEPT ![a] = "append"]
    /\ newtask' = [newtask EXCEPT ![a] = t]
    /\ UNCHANGED <<poolVars, wpc, task, dpc, history>>

\* Mutant: the increment sits in the branch that walks a non-empty list.
AppendUncounted(a) ==
    /\ apc[a] = "append"
    /\ lock = Unlocked
    /\ head' = Append(head, newtask[a])
    /\ cur_task_list_size' = IF head = <<>> THEN cur_task_list_size ELSE cur_task_list_size + 1
    /\ added' = Append(added, newtask[a])
    /\ apc' = [apc EXCEPT ![a] = "signal"]
    /\ newtask' = [newtask EXCEPT ![a] = NoTask]
    /\ UNCHANGED <<lock, shutdown, frees, wpc, task, dpc, started, dropped>>

\* Mutant: newtask is linked in front of the list.
AppendInFront(a) ==
    /\ apc[a] = "append"
    /\ lock = Unlocked
    /\ head' = <<newtask[a]>> \o head
    /\ cur_task_list_size' = cur_task_list_size + 1
    /\ added' = Append(added, newtask[a])
    /\ apc' = [apc EXCEPT ![a] = "signal"]
    /\ newtask' = [newtask EXCEPT ![a] = NoTask]
    /\ UNCHANGED <<lock, shutdown, frees, wpc, task, dpc, started, dropped>>

\* The critical section of pool_add_task: link newtask at the end, count it.
pool_add_task_append(a) ==
    /\ apc[a] = "append"
    /\ lock = Unlocked
    /\ head' = Append(head, newtask[a])
    /\ cur_task_list_size' = cur_task_list_size + 1
    /\ added' = Append(added, newtask[a])
    /\ apc' = [apc EXCEPT ![a] = "signal"]
    /\ newtask' = [newtask EXCEPT ![a] = NoTask]
    /\ UNCHANGED <<lock, shutdown, frees, wpc, task, dpc, started, dropped>>

Blocked == {w \in Workers : wpc[w] = "blocked"}

\* Mutant: the signal is forgotten.
NoSignal(a) ==
    /\ apc[a] = "signal"
    /\ apc' = [apc EXCEPT ![a] = "idle"]
    /\ UNCHANGED <<poolVars, wpc, task, newtask, dpc, history>>

\* pthread_cond_signal, after the unlock: wakes one waiter if there is one.
pool_add_task_signal(a) ==
    /\ apc[a] = "signal"
    /\ IF Blocked = {}
       THEN UNCHANGED wpc
       ELSE \E w \in Blocked : wpc' = [wpc EXCEPT ![w] = "woken"]
    /\ apc' = [apc EXCEPT ![a] = "idle"]
    /\ UNCHANGED <<poolVars, task, newtask, dpc, history>>

-----------------------------------------------------------------------------
(* thread_routine                                                          *)

\* pthread_mutex_lock at the top of the loop, or on the way out of
\* pthread_cond_wait.
thread_routine_lock(w) ==
    /\ wpc[w] \in {"lock", "woken"}
    /\ lock = Unlocked
    /\ lock' = w
    /\ wpc' = [wpc EXCEPT ![w] = "test"]
    /\ UNCHANGED <<head, cur_task_list_size, shutdown, frees, task, apc,
                   newtask, dpc, history>>

\* The loop condition holds: the worker is about to call pthread_cond_wait,
\* still owning the lock.
thread_routine_sleep(w) ==
    /\ wpc[w] = "test"
    /\ cur_task_list_size = 0
    /\ shutdown = 0
    /\ wpc' = [wpc EXCEPT ![w] = "wait"]
    /\ UNCHANGED <<poolVars, task, apc, newtask, dpc, history>>

\* pthread_cond_wait: becomes a waiter and gives the lock up, atomically.
thread_routine_wait(w) ==
    /\ wpc[w] = "wait"
    /\ wpc' = [wpc EXCEPT ![w] = "blocked"]
    /\ lock' = Unlocked
    /\ UNCHANGED <<head, cur_task_list_size, shutdown, frees, task, apc,
                   newtask, dpc, history>>

\* POSIX lets pthread_cond_wait return without a signal.
thread_routine_spurious(w) ==
    /\ wpc[w] = "blocked"
    /\ wpc' = [wpc EXCEPT ![w] = "woken"]
    /\ UNCHANGED <<poolVars, task, apc, newtask, dpc, history>>

\* Mutant: the task is counted off before shutdown is tested.
ExitCountingOff(w) ==
    /\ wpc[w] = "test"
    /\ shutdown # 0
    /\ cur_task_list_size' = cur_task_list_size - 1
    /\ wpc' = [wpc EXCEPT ![w] = "exited"]
    /\ lock' = Unlocked
    /\ UNCHANGED <<head, shutdown, frees, task, apc, newtask, dpc, history>>

\* Past the loop with shutdown set: unlock and pthread_exit.
thread_routine_exit(w) ==
    /\ wpc[w] = "test"
    /\ shutdown # 0
    /\ wpc' = [wpc EXCEPT ![w] = "exited"]
    /\ lock' = Unlocked
    /\ UNCHANGED <<head, cur_task_list_size, shutdown, frees, task, apc,
                   newtask, dpc, history>>

\* Mutant: shutdown is not tested again after the loop.
TakeAfterShutdown(w) ==
    /\ wpc[w] = "test"
    /\ cur_task_list_size # 0
    /\ cur_task_list_size' = cur_task_list_size - 1
    /\ task' = [task EXCEPT ![w] = Head(head)]
    /\ head' = Tail(head)
    /\ started' = Append(started, Head(head))
    /\ wpc' = [wpc EXCEPT ![w] = "run"]
    /\ lock' = Unlocked
    /\ UNCHANGED <<shutdown, frees, apc, newtask, dpc, added, dropped>>

\* Past the loop with work to do: unlink the first task, unlock.
thread_routine_take(w) ==
    /\ wpc[w] = "test"
    /\ shutdown = 0
    /\ cur_task_list_size # 0
    /\ cur_task_list_size' = cur_task_list_size - 1
    /\ task' = [task EXCEPT ![w] = Head(head)]
    /\ head' = Tail(head)
    /\ started' = Append(started, Head(head))
    /\ wpc' = [wpc EXCEPT ![w] = "run"]
    /\ lock' = Unlocked
    /\ UNCHANGED <<shutdown, frees, apc, newtask, dpc, added, dropped>>

\* The task returns and is freed; back to the top of the loop.
thread_routine_run(w) ==
    /\ wpc[w] = "run"
    /\ task' = [task EXCEPT ![w] = NoTask]
    /\ wpc' = [wpc EXCEPT ![w] = "lock"]
    /\ UNCHANGED <<poolVars, apc, newtask, dpc, history>>

-----------------------------------------------------------------------------
(* pool_destroy                                                            *)

\* Called when no pool_add_task is in progress; a second call that finds
\* shutdown set returns at once.
pool_destroy(d) ==
    /\ dpc[d] = "idle"
    /\ frees = 0
    /\ \A a \in Adders : apc[a] = "idle"
    /\ dpc' = [dpc EXCEPT ![d] = IF shutdown # 0 THEN "returned" ELSE "set"]
    /\ UNCHANGED <<poolVars, wpc, task, apc, newtask, history>>

\* pool->shutdown = 1, without the lock.
pool_destroy_set(d) ==
    /\ dpc[d] = "set"
    /\ shutdown' = 1
    /\ dpc' = [dpc EXCEPT ![d] = "broadcast"]
    /\ UNCHANGED <<lock, head, cur_task_list_size, frees, wpc, task, apc,
                   newtask, history>>

\* pthread_cond_broadcast, without the lock: wakes whoever waits now.
pool_destroy_broadcast(d) ==
    /\ dpc[d] = "broadcast"
    /\ wpc' = [w \in Workers |-> IF w \in Blocked THEN "woken" ELSE wpc[w]]
    /\ dpc' = [dpc EXCEPT ![d] = "join"]
    /\ UNCHANGED <<poolVars, task, apc, newtask, history>>

\* Mutant: pool_destroy joins one thread instead of all.
FreeAfterOneJoin(d) ==
    /\ dpc[d] = "join"
    /\ \E w \in Workers : wpc[w] = "exited"
    /\ dropped' = dropped \o head
    /\ head' = <<>>
    /\ frees' = frees + 1
    /\ dpc' = [dpc EXCEPT ![d] = "returned"]
    /\ UNCHANGED <<lock, cur_task_list_size, shutdown, wpc, task, apc,
                   newtask, added, started>>

\* All threads joined: free the tasks still queued, then the pool.
pool_destroy_free(d) ==
    /\ dpc[d] = "join"
    /\ \A w \in Workers : wpc[w] = "exited"
    /\ dropped' = dropped \o head
    /\ head' = <<>>
    /\ frees' = frees + 1
    /\ dpc' = [dpc EXCEPT ![d] = "returned"]
    /\ UNCHANGED <<lock, cur_task_list_size, shutdown, wpc, task, apc,
                   newtask, added, started>>

-----------------------------------------------------------------------------
thread_routine(w) ==
    \/ thread_routine_lock(w)
    \/ thread_routine_sleep(w)
    \/ thread_routine_wait(w)
    \/ thread_routine_exit(w)
    \/ thread_routine_take(w)
    \/ thread_routine_run(w)

Init == thread_pool_init

Next ==
    \/ \E a \in Adders, t \in Tasks : pool_add_task(a, t)
    \/ \E a \in Adders : pool_add_task_append(a) \/ pool_add_task_signal(a)
    \/ \E w \in Workers : thread_routine(w) \/ thread_routine_spurious(w)
    \/ \E d \in Destroyers : \/ pool_destroy(d)
                             \/ pool_destroy_set(d)
                             \/ pool_destroy_broadcast(d)
                             \/ pool_destroy_free(d)

Spec == Init /\ [][Next]_vars

\* Every thread that can run does run.  The mutex is taken by whoever gets
\* there first, so taking it needs strong fairness; callers need not come.
Fairness ==
    /\ \A w \in Workers : /\ SF_vars(thread_routine_lock(w))
                          /\ WF_vars(thread_routine(w))
    /\ \A a \in Adders : /\ SF_vars(pool_add_task_append(a))
                         /\ WF_vars(pool_add_task_signal(a))
    /\ \A d \in Destroyers : /\ WF_vars(pool_destroy_set(d))
                             /\ WF_vars(pool_destroy_broadcast(d))
                             /\ WF_vars(pool_destroy_free(d))

FairSpec == Spec /\ Fairness

-----------------------------------------------------------------------------
(* Properties                                                              *)

\* Every variable keeps the shape of its C counterpart.
TypeOK ==
    /\ lock \in Workers \cup {Unlocked}
    /\ head \in Seq(Tasks)
    /\ cur_task_list_size \in Nat
    /\ shutdown \in {0, 1}
    /\ wpc \in [Workers -> WorkerPC]
    /\ task \in [Workers -> Tasks \cup {NoTask}]
    /\ apc \in [Adders -> AdderPC]
    /\ newtask \in [Adders -> Tasks \cup {NoTask}]
    /\ dpc \in [Destroyers -> DestroyerPC]
    /\ frees \in Nat
    /\ added \in Seq(Tasks)
    /\ started \in Seq(Tasks)
    /\ dropped \in Seq(Tasks)

\* cur_task_list_size counts the list until the pool is freed, so the
\* assertions of thread_routine on the size and on head agree and a worker
\* never takes a task from an empty list.
SizeCountsList == frees = 0 => cur_task_list_size = Len(head)

\* The list is a FIFO that loses and repeats nothing: what the workers took,
\* then what is still linked, then what pool_destroy freed, is what the
\* callers linked, in the same order.
FifoNoLoss == started \o head \o dropped = added

\* No signal is lost: while work is queued on a live pool, some worker is not
\* asleep in pthread_cond_wait, or a caller that linked a task is still to
\* signal.  (The signal of pool_add_task comes after the unlock.)
NoLostSignal ==
    head # <<>> /\ shutdown = 0 =>
        \/ \E w \in Workers : wpc[w] # "blocked"
        \/ \E a \in Adders : apc[a] = "signal"

\* A worker owns the mutex exactly while it is between its lock and its unlock
\* or wait, and goes to sleep only over an empty list.
LockOwned ==
    /\ \A w \in Workers : wpc[w] \in {"test", "wait"} <=> lock = w
    /\ \A w \in Workers : wpc[w] = "wait" => head = <<>>

\* Callers of pool_add_task and of pool_destroy do not overlap; shutdown is set
\* and the pool freed only by a caller of pool_destroy, in this order.
CallersApart ==
    /\ (\E a \in Adders : apc[a] # "idle") => \A d \in Destroyers : dpc[d] = "idle"
    /\ \A a \in Adders : apc[a] = "append" => newtask[a] \in Tasks
    /\ (frees > 0 \/ dropped # <<>>) =>
           /\ \E d \in Destroyers : dpc[d] # "idle"
           /\ head = <<>>
    /\ shutdown # 0 => \E d \in Destroyers : dpc[d] # "idle"
    /\ \A d \in Destroyers : dpc[d] \in {"broadcast", "join"} => shutdown = 1

\* The pool is freed only when no worker can touch it any more.
FreedAfterWorkers == frees > 0 => \A w \in Workers : wpc[w] = "exited"

\* The inductive invariant of the proofs.
IInv ==
    /\ TypeOK
    /\ SizeCountsList
    /\ FifoNoLoss
    /\ NoLostSignal
    /\ LockOwned
    /\ CallersApart
    /\ FreedAfterWorkers

\* The pool implements the task queue of TaskQueue: its list, its flag shutdown
\* and what became of its tasks change as the queue's do, and nothing else that
\* a worker, a caller of pool_add_task or of pool_destroy does can be seen from
\* outside.  In particular no worker that finds shutdown set takes a task,
\* though it is set without the lock, and what is left is freed once.
Queue == INSTANCE TaskQueue WITH queue <- head, closed <- shutdown,
                                 taken <- started, discarded <- dropped
ImplementsQueue == Queue!Spec

\* Every task that was linked is started, unless the pool is being destroyed.
TasksStart == \A t \in Tasks : t \in Elems(added) ~> (t \in Elems(started) \/ shutdown # 0)

\* "回收所有线程": pool_destroy wakes the waiting threads, reclaims all of
\* them and returns.
DestroyReturns == \A d \in Destroyers : dpc[d] = "set" ~> dpc[d] = "returned"
=============================================================================
