----------------------------- MODULE TaskQueue -----------------------------
(***************************************************************************)
(* What thread.c promises its callers, without locks, signals and threads: *)
(* a queue that hands out tasks in the order they came, each one once,     *)
(* until it is closed; what is left then is discarded, all at once.        *)
(***************************************************************************)
EXTENDS Naturals, Sequences

CONSTANT Tasks

VARIABLES queue,      \* tasks waiting, first one first
          closed,     \* 1 once the queue is closed
          taken,      \* history: tasks handed out
          discarded   \* history: tasks thrown away

vars == <<queue, closed, taken, discarded>>

Init == queue = <<>> /\ closed = 0 /\ taken = <<>> /\ discarded = <<>>

\* pool_add_task, for its caller.
Put(t) ==
    /\ closed = 0
    /\ queue' = Append(queue, t)
    /\ UNCHANGED <<closed, taken, discarded>>

\* A worker gets the oldest task.
Take ==
    /\ closed = 0 /\ queue # <<>>
    /\ taken' = Append(taken, Head(queue))
    /\ queue' = Tail(queue)
    /\ UNCHANGED <<closed, discarded>>

\* From here on pool_destroy is sure of its threads: none takes another task.
Close ==
    /\ closed = 0 /\ closed' = 1
    /\ UNCHANGED <<queue, taken, discarded>>

\* pool_destroy frees what nobody took.
Discard ==
    /\ closed = 1 /\ queue # <<>> /\ discarded = <<>>
    /\ discarded' = queue
    /\ queue' = <<>>
    /\ UNCHANGED <<closed, taken>>

Next == (\E t \in Tasks : Put(t)) \/ Take \/ Close \/ Discard

Spec == Init /\ [][Next]_vars
=============================================================================
