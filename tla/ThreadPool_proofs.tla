-------------------------- MODULE ThreadPool_proofs --------------------------
(***************************************************************************)
(* The safety invariants of ThreadPool hold for every number of workers,   *)
(* callers and tasks.                                                      *)
(***************************************************************************)
EXTENDS ThreadPool, SequenceTheorems, TLAPS

\* Linking an element at the end commutes with concatenation (pool_add_task).
LEMMA AppendAtEnd ==
  ASSUME NEW S, NEW s \in Seq(S), NEW t \in Seq(S), NEW e \in S
  PROVE  s \o Append(t, e) = Append(s \o t, e)
<1>1. s \o t \in Seq(S) /\ <<e>> \in Seq(S)
  BY ConcatProperties
<1> QED
  BY <1>1, AppendIsConcat, ConcatAssociative, SMTT(30)

\* Moving the first element of a list to the end of the sequence before it
\* leaves their concatenation alone (thread_routine).
LEMMA MoveHead ==
  ASSUME NEW S, NEW s \in Seq(S), NEW h \in Seq(S), h # <<>>
  PROVE  Append(s, Head(h)) \o Tail(h) = s \o h
<1>1. Head(h) \in S /\ Tail(h) \in Seq(S) /\ <<Head(h)>> \in Seq(S)
  BY HeadTailProperties
<1>2. <<Head(h)>> \o Tail(h) = h
  BY <1>1, HeadTailProperties, ConcatProperties, SeqEqual
<1>3. Append(s, Head(h)) \o Tail(h) = s \o (<<Head(h)>> \o Tail(h))
  BY <1>1, AppendIsConcat, ConcatAssociative, SMTT(30)
<1> QED
  BY <1>2, <1>3

\* thread_pool_init establishes the inductive invariant.
LEMMA InitIInv == Init => IInv
<1> SUFFICES ASSUME Init PROVE IInv
  OBVIOUS
<1> USE DEF Init, thread_pool_init
<1>1. TypeOK
  BY DEF TypeOK, WorkerPC, AdderPC, DestroyerPC
<1>2. FifoNoLoss
  BY DEF FifoNoLoss
<1> QED
  BY <1>1, <1>2, PoolAssumption DEF IInv, SizeCountsList, NoLostSignal, LockOwned,
     CallersApart, FreedAfterWorkers

\* Every step of every thread preserves the inductive invariant.
LEMMA NextIInv == IInv /\ [Next]_vars => IInv'
<1> SUFFICES ASSUME IInv, [Next]_vars PROVE IInv'
  OBVIOUS
<1> USE PoolAssumption DEF poolVars, history
<1>1. ASSUME NEW a \in Adders, NEW t \in Tasks, pool_add_task(a, t) PROVE IInv'
  <2>1. TypeOK'
    BY <1>1 DEF IInv, TypeOK, WorkerPC, AdderPC, DestroyerPC, SizeCountsList, FreedAfterWorkers, CallersApart, pool_add_task
  <2>2. SizeCountsList'
    BY <1>1 DEF IInv, TypeOK, SizeCountsList, CallersApart, FreedAfterWorkers, pool_add_task
  <2>3. FifoNoLoss'
    BY <1>1, ZenonT(30) DEF IInv, TypeOK, FifoNoLoss, CallersApart, SizeCountsList, FreedAfterWorkers, pool_add_task
  <2>4. NoLostSignal'
    BY <1>1 DEF IInv, TypeOK, NoLostSignal, LockOwned, pool_add_task
  <2>5. LockOwned'
    BY <1>1 DEF IInv, TypeOK, LockOwned, pool_add_task
  <2>6. CallersApart'
    BY <1>1 DEF IInv, TypeOK, CallersApart, FreedAfterWorkers, pool_add_task
  <2>7. FreedAfterWorkers'
    BY <1>1 DEF IInv, TypeOK, FreedAfterWorkers, WorkerPC, pool_add_task
  <2> QED BY <2>1, <2>2, <2>3, <2>4, <2>5, <2>6, <2>7 DEF IInv
<1>2. ASSUME NEW a \in Adders, pool_add_task_append(a) PROVE IInv'
  <2>1. TypeOK'
    BY <1>2, SMTT(30) DEF IInv, TypeOK, WorkerPC, AdderPC, DestroyerPC, SizeCountsList, FreedAfterWorkers, CallersApart, pool_add_task_append
  <2>2. SizeCountsList'
    BY <1>2, SMTT(30) DEF IInv, TypeOK, SizeCountsList, CallersApart, FreedAfterWorkers, pool_add_task_append
  <2>3. FifoNoLoss'
    <3>1. dropped = <<>> /\ newtask[a] \in Tasks
      BY <1>2 DEF IInv, TypeOK, CallersApart, pool_add_task_append
    <3>2. started \o Append(head, newtask[a]) = Append(started \o head, newtask[a])
      BY <3>1, AppendAtEnd DEF IInv, TypeOK
    <3>3. started \o head = added /\ Append(started \o head, newtask[a]) \in Seq(Tasks)
      BY <3>1, ConcatProperties, ConcatEmptySeq DEF IInv, TypeOK, FifoNoLoss
    <3> QED
      BY <1>2, <3>1, <3>2, <3>3, ConcatEmptySeq DEF FifoNoLoss, pool_add_task_append
  <2>4. NoLostSignal'
    BY <1>2 DEF IInv, TypeOK, NoLostSignal, LockOwned, pool_add_task_append
  <2>5. LockOwned'
    BY <1>2 DEF IInv, TypeOK, LockOwned, pool_add_task_append
  <2>6. CallersApart'
    BY <1>2, ZenonT(30) DEF IInv, TypeOK, CallersApart, FreedAfterWorkers, pool_add_task_append
  <2>7. FreedAfterWorkers'
    BY <1>2 DEF IInv, TypeOK, FreedAfterWorkers, WorkerPC, pool_add_task_append
  <2> QED BY <2>1, <2>2, <2>3, <2>4, <2>5, <2>6, <2>7 DEF IInv
<1>3. ASSUME NEW a \in Adders, pool_add_task_signal(a) PROVE IInv'
  <2>1. TypeOK'
    BY <1>3 DEF IInv, TypeOK, WorkerPC, AdderPC, DestroyerPC, SizeCountsList, FreedAfterWorkers, CallersApart, pool_add_task_signal, Blocked
  <2>2. SizeCountsList'
    BY <1>3 DEF IInv, TypeOK, SizeCountsList, CallersApart, FreedAfterWorkers, pool_add_task_signal, Blocked
  <2>3. FifoNoLoss'
    BY <1>3 DEF IInv, TypeOK, FifoNoLoss, CallersApart, SizeCountsList, FreedAfterWorkers, pool_add_task_signal, Blocked
  <2>4. NoLostSignal'
    BY <1>3 DEF IInv, TypeOK, NoLostSignal, LockOwned, pool_add_task_signal, Blocked
  <2>5. LockOwned'
    BY <1>3 DEF IInv, TypeOK, LockOwned, pool_add_task_signal, Blocked
  <2>6. CallersApart'
    BY <1>3 DEF IInv, TypeOK, CallersApart, FreedAfterWorkers, pool_add_task_signal, Blocked
  <2>7. FreedAfterWorkers'
    BY <1>3 DEF IInv, TypeOK, FreedAfterWorkers, WorkerPC, pool_add_task_signal, Blocked
  <2> QED BY <2>1, <2>2, <2>3, <2>4, <2>5, <2>6, <2>7 DEF IInv
<1>4. ASSUME NEW w \in Workers, thread_routine_lock(w) PROVE IInv'
  <2>1. TypeOK'
    BY <1>4 DEF IInv, TypeOK, WorkerPC, AdderPC, DestroyerPC, SizeCountsList, FreedAfterWorkers, CallersApart, thread_routine_lock
  <2>2. SizeCountsList'
    BY <1>4 DEF IInv, TypeOK, SizeCountsList, CallersApart, FreedAfterWorkers, thread_routine_lock
  <2>3. FifoNoLoss'
    BY <1>4 DEF IInv, TypeOK, FifoNoLoss, CallersApart, SizeCountsList, FreedAfterWorkers, thread_routine_lock
  <2>4. NoLostSignal'
    BY <1>4 DEF IInv, TypeOK, NoLostSignal, LockOwned, thread_routine_lock
  <2>5. LockOwned'
    BY <1>4 DEF IInv, TypeOK, LockOwned, thread_routine_lock
  <2>6. CallersApart'
    BY <1>4 DEF IInv, TypeOK, CallersApart, FreedAfterWorkers, thread_routine_lock
  <2>7. FreedAfterWorkers'
    BY <1>4 DEF IInv, TypeOK, FreedAfterWorkers, WorkerPC, thread_routine_lock
  <2> QED BY <2>1, <2>2, <2>3, <2>4, <2>5, <2>6, <2>7 DEF IInv
<1>5. ASSUME NEW w \in Workers, thread_routine_sleep(w) PROVE IInv'
  <2>1. TypeOK'
    BY <1>5 DEF IInv, TypeOK, WorkerPC, AdderPC, DestroyerPC, SizeCountsList, FreedAfterWorkers, CallersApart, thread_routine_sleep
  <2>2. SizeCountsList'
    BY <1>5 DEF IInv, TypeOK, SizeCountsList, CallersApart, FreedAfterWorkers, thread_routine_sleep
  <2>3. FifoNoLoss'
    BY <1>5, ZenonT(30) DEF IInv, TypeOK, FifoNoLoss, CallersApart, SizeCountsList, FreedAfterWorkers, thread_routine_sleep
  <2>4. NoLostSignal'
    BY <1>5 DEF IInv, TypeOK, NoLostSignal, LockOwned, thread_routine_sleep
  <2>5. LockOwned'
    BY <1>5 DEF IInv, TypeOK, LockOwned, SizeCountsList, FreedAfterWorkers, thread_routine_sleep
  <2>6. CallersApart'
    BY <1>5 DEF IInv, TypeOK, CallersApart, FreedAfterWorkers, thread_routine_sleep
  <2>7. FreedAfterWorkers'
    BY <1>5 DEF IInv, TypeOK, FreedAfterWorkers, WorkerPC, thread_routine_sleep
  <2> QED BY <2>1, <2>2, <2>3, <2>4, <2>5, <2>6, <2>7 DEF IInv
<1>6. ASSUME NEW w \in Workers, thread_routine_wait(w) PROVE IInv'
  <2>1. TypeOK'
    BY <1>6 DEF IInv, TypeOK, WorkerPC, AdderPC, DestroyerPC, SizeCountsList, FreedAfterWorkers, CallersApart, thread_routine_wait
  <2>2. SizeCountsList'
    BY <1>6 DEF IInv, TypeOK, SizeCountsList, CallersApart, FreedAfterWorkers, thread_routine_wait
  <2>3. FifoNoLoss'
    BY <1>6, ZenonT(30) DEF IInv, TypeOK, FifoNoLoss, CallersApart, SizeCountsList, FreedAfterWorkers, thread_routine_wait
  <2>4. NoLostSignal'
    BY <1>6 DEF IInv, TypeOK, NoLostSignal, LockOwned, thread_routine_wait
  <2>5. LockOwned'
    BY <1>6 DEF IInv, TypeOK, LockOwned, thread_routine_wait
  <2>6. CallersApart'
    BY <1>6 DEF IInv, TypeOK, CallersApart, FreedAfterWorkers, thread_routine_wait
  <2>7. FreedAfterWorkers'
    BY <1>6 DEF IInv, TypeOK, FreedAfterWorkers, WorkerPC, thread_routine_wait
  <2> QED BY <2>1, <2>2, <2>3, <2>4, <2>5, <2>6, <2>7 DEF IInv
<1>7. ASSUME NEW w \in Workers, thread_routine_exit(w) PROVE IInv'
  <2>1. TypeOK'
    BY <1>7 DEF IInv, TypeOK, WorkerPC, AdderPC, DestroyerPC, SizeCountsList, FreedAfterWorkers, CallersApart, thread_routine_exit
  <2>2. SizeCountsList'
    BY <1>7 DEF IInv, TypeOK, SizeCountsList, CallersApart, FreedAfterWorkers, thread_routine_exit
  <2>3. FifoNoLoss'
    BY <1>7, ZenonT(30) DEF IInv, TypeOK, FifoNoLoss, CallersApart, SizeCountsList, FreedAfterWorkers, thread_routine_exit
  <2>4. NoLostSignal'
    BY <1>7 DEF IInv, TypeOK, NoLostSignal, LockOwned, thread_routine_exit
  <2>5. LockOwned'
    BY <1>7 DEF IInv, TypeOK, LockOwned, thread_routine_exit
  <2>6. CallersApart'
    BY <1>7 DEF IInv, TypeOK, CallersApart, FreedAfterWorkers, thread_routine_exit
  <2>7. FreedAfterWorkers'
    BY <1>7 DEF IInv, TypeOK, FreedAfterWorkers, WorkerPC, thread_routine_exit
  <2> QED BY <2>1, <2>2, <2>3, <2>4, <2>5, <2>6, <2>7 DEF IInv
<1>8. ASSUME NEW w \in Workers, thread_routine_take(w) PROVE IInv'
  <2>1. TypeOK'
    BY <1>8, SMTT(30) DEF IInv, TypeOK, WorkerPC, AdderPC, DestroyerPC, SizeCountsList, FreedAfterWorkers, CallersApart, thread_routine_take
  <2>2. SizeCountsList'
    BY <1>8 DEF IInv, TypeOK, SizeCountsList, CallersApart, FreedAfterWorkers, thread_routine_take
  <2>3. FifoNoLoss'
    <3>1. head # <<>>
      BY <1>8 DEF IInv, TypeOK, SizeCountsList, FreedAfterWorkers, thread_routine_take
    <3>2. Append(started, Head(head)) \o Tail(head) = started \o head
      BY <3>1, MoveHead, ZenonT(30) DEF IInv, TypeOK
    <3> QED
      BY <1>8, <3>2, ZenonT(30) DEF IInv, FifoNoLoss, thread_routine_take
  <2>4. NoLostSignal'
    BY <1>8 DEF IInv, TypeOK, NoLostSignal, LockOwned, thread_routine_take
  <2>5. LockOwned'
    BY <1>8 DEF IInv, TypeOK, LockOwned, thread_routine_take
  <2>6. CallersApart'
    BY <1>8 DEF IInv, TypeOK, CallersApart, FreedAfterWorkers, thread_routine_take
  <2>7. FreedAfterWorkers'
    BY <1>8 DEF IInv, TypeOK, FreedAfterWorkers, WorkerPC, thread_routine_take
  <2> QED BY <2>1, <2>2, <2>3, <2>4, <2>5, <2>6, <2>7 DEF IInv
<1>9. ASSUME NEW w \in Workers, thread_routine_run(w) PROVE IInv'
  <2>1. TypeOK'
    BY <1>9 DEF IInv, TypeOK, WorkerPC, AdderPC, DestroyerPC, SizeCountsList, FreedAfterWorkers, CallersApart, thread_routine_run
  <2>2. SizeCountsList'
    BY <1>9 DEF IInv, TypeOK, SizeCountsList, CallersApart, FreedAfterWorkers, thread_routine_run
  <2>3. FifoNoLoss'
    BY <1>9, ZenonT(30) DEF IInv, TypeOK, FifoNoLoss, CallersApart, SizeCountsList, FreedAfterWorkers, thread_routine_run
  <2>4. NoLostSignal'
    BY <1>9 DEF IInv, TypeOK, NoLostSignal, LockOwned, thread_routine_run
  <2>5. LockOwned'
    BY <1>9 DEF IInv, TypeOK, LockOwned, thread_routine_run
  <2>6. CallersApart'
    BY <1>9 DEF IInv, TypeOK, CallersApart, FreedAfterWorkers, thread_routine_run
  <2>7. FreedAfterWorkers'
    BY <1>9 DEF IInv, TypeOK, FreedAfterWorkers, WorkerPC, thread_routine_run
  <2> QED BY <2>1, <2>2, <2>3, <2>4, <2>5, <2>6, <2>7 DEF IInv
<1>10. ASSUME NEW w \in Workers, thread_routine_spurious(w) PROVE IInv'
  <2>1. TypeOK'
    BY <1>10 DEF IInv, TypeOK, WorkerPC, AdderPC, DestroyerPC, SizeCountsList, FreedAfterWorkers, CallersApart, thread_routine_spurious
  <2>2. SizeCountsList'
    BY <1>10 DEF IInv, TypeOK, SizeCountsList, CallersApart, FreedAfterWorkers, thread_routine_spurious
  <2>3. FifoNoLoss'
    BY <1>10, ZenonT(30) DEF IInv, TypeOK, FifoNoLoss, CallersApart, SizeCountsList, FreedAfterWorkers, thread_routine_spurious
  <2>4. NoLostSignal'
    BY <1>10 DEF IInv, TypeOK, NoLostSignal, LockOwned, thread_routine_spurious
  <2>5. LockOwned'
    BY <1>10 DEF IInv, TypeOK, LockOwned, thread_routine_spurious
  <2>6. CallersApart'
    BY <1>10 DEF IInv, TypeOK, CallersApart, FreedAfterWorkers, thread_routine_spurious
  <2>7. FreedAfterWorkers'
    BY <1>10 DEF IInv, TypeOK, FreedAfterWorkers, WorkerPC, thread_routine_spurious
  <2> QED BY <2>1, <2>2, <2>3, <2>4, <2>5, <2>6, <2>7 DEF IInv
<1>11. ASSUME NEW d \in Destroyers, pool_destroy(d) PROVE IInv'
  <2>1. TypeOK'
    BY <1>11 DEF IInv, TypeOK, WorkerPC, AdderPC, DestroyerPC, SizeCountsList, FreedAfterWorkers, CallersApart, pool_destroy
  <2>2. SizeCountsList'
    BY <1>11 DEF IInv, TypeOK, SizeCountsList, CallersApart, FreedAfterWorkers, pool_destroy
  <2>3. FifoNoLoss'
    BY <1>11 DEF IInv, TypeOK, FifoNoLoss, CallersApart, SizeCountsList, FreedAfterWorkers, pool_destroy
  <2>4. NoLostSignal'
    BY <1>11 DEF IInv, TypeOK, NoLostSignal, LockOwned, pool_destroy
  <2>5. LockOwned'
    BY <1>11 DEF IInv, TypeOK, LockOwned, pool_destroy
  <2>6. CallersApart'
    BY <1>11 DEF IInv, TypeOK, CallersApart, FreedAfterWorkers, pool_destroy
  <2>7. FreedAfterWorkers'
    BY <1>11 DEF IInv, TypeOK, FreedAfterWorkers, WorkerPC, pool_destroy
  <2> QED BY <2>1, <2>2, <2>3, <2>4, <2>5, <2>6, <2>7 DEF IInv
<1>12. ASSUME NEW d \in Destroyers, pool_destroy_set(d) PROVE IInv'
  <2>1. TypeOK'
    BY <1>12 DEF IInv, TypeOK, WorkerPC, AdderPC, DestroyerPC, SizeCountsList, FreedAfterWorkers, CallersApart, pool_destroy_set
  <2>2. SizeCountsList'
    BY <1>12 DEF IInv, TypeOK, SizeCountsList, CallersApart, FreedAfterWorkers, pool_destroy_set
  <2>3. FifoNoLoss'
    BY <1>12 DEF IInv, TypeOK, FifoNoLoss, CallersApart, SizeCountsList, FreedAfterWorkers, pool_destroy_set
  <2>4. NoLostSignal'
    BY <1>12 DEF IInv, TypeOK, NoLostSignal, LockOwned, pool_destroy_set
  <2>5. LockOwned'
    BY <1>12 DEF IInv, TypeOK, LockOwned, pool_destroy_set
  <2>6. CallersApart'
    BY <1>12 DEF IInv, TypeOK, CallersApart, FreedAfterWorkers, pool_destroy_set
  <2>7. FreedAfterWorkers'
    BY <1>12 DEF IInv, TypeOK, FreedAfterWorkers, WorkerPC, pool_destroy_set
  <2> QED BY <2>1, <2>2, <2>3, <2>4, <2>5, <2>6, <2>7 DEF IInv
<1>13. ASSUME NEW d \in Destroyers, pool_destroy_broadcast(d) PROVE IInv'
  <2>1. TypeOK'
    BY <1>13 DEF IInv, TypeOK, WorkerPC, AdderPC, DestroyerPC, SizeCountsList, FreedAfterWorkers, CallersApart, pool_destroy_broadcast, Blocked
  <2>2. SizeCountsList'
    BY <1>13 DEF IInv, TypeOK, SizeCountsList, CallersApart, FreedAfterWorkers, pool_destroy_broadcast, Blocked
  <2>3. FifoNoLoss'
    BY <1>13, ZenonT(30) DEF IInv, TypeOK, FifoNoLoss, CallersApart, SizeCountsList, FreedAfterWorkers, pool_destroy_broadcast, Blocked
  <2>4. NoLostSignal'
    BY <1>13 DEF IInv, TypeOK, NoLostSignal, LockOwned, pool_destroy_broadcast, Blocked
  <2>5. LockOwned'
    BY <1>13 DEF IInv, TypeOK, LockOwned, pool_destroy_broadcast, Blocked
  <2>6. CallersApart'
    BY <1>13 DEF IInv, TypeOK, CallersApart, FreedAfterWorkers, pool_destroy_broadcast, Blocked
  <2>7. FreedAfterWorkers'
    BY <1>13 DEF IInv, TypeOK, FreedAfterWorkers, WorkerPC, pool_destroy_broadcast, Blocked
  <2> QED BY <2>1, <2>2, <2>3, <2>4, <2>5, <2>6, <2>7 DEF IInv
<1>14. ASSUME NEW d \in Destroyers, pool_destroy_free(d) PROVE IInv'
  <2>1. TypeOK'
    BY <1>14 DEF IInv, TypeOK, WorkerPC, AdderPC, DestroyerPC, SizeCountsList, FreedAfterWorkers, CallersApart, pool_destroy_free
  <2>2. SizeCountsList'
    BY <1>14 DEF IInv, TypeOK, SizeCountsList, CallersApart, FreedAfterWorkers, pool_destroy_free
  <2>3. FifoNoLoss'
    <3>1. CASE frees > 0 \/ dropped # <<>>
      <4>1. head = <<>> /\ dropped \o head = dropped
        BY <3>1, ConcatEmptySeq DEF IInv, TypeOK, CallersApart
      <4> QED
        BY <1>14, <4>1 DEF IInv, FifoNoLoss, pool_destroy_free
    <3>2. CASE dropped = <<>>
      <4>1. dropped \o head = head /\ started \o <<>> = started
        BY <3>2, ConcatEmptySeq DEF IInv, TypeOK
      <4>2. (started \o head) \o dropped = started \o head
        BY <3>2, ConcatProperties, ConcatEmptySeq DEF IInv, TypeOK
      <4> QED
        BY <1>14, <4>1, <4>2 DEF IInv, FifoNoLoss, pool_destroy_free
    <3> QED BY <3>1, <3>2
  <2>4. NoLostSignal'
    BY <1>14 DEF IInv, TypeOK, NoLostSignal, LockOwned, pool_destroy_free
  <2>5. LockOwned'
    BY <1>14 DEF IInv, TypeOK, LockOwned, pool_destroy_free
  <2>6. CallersApart'
    BY <1>14 DEF IInv, TypeOK, CallersApart, FreedAfterWorkers, pool_destroy_free
  <2>7. FreedAfterWorkers'
    BY <1>14 DEF IInv, TypeOK, FreedAfterWorkers, WorkerPC, pool_destroy_free
  <2> QED BY <2>1, <2>2, <2>3, <2>4, <2>5, <2>6, <2>7 DEF IInv
<1>15. CASE UNCHANGED vars
  BY <1>15 DEF IInv, vars, TypeOK, SizeCountsList, FifoNoLoss, NoLostSignal, LockOwned,
     CallersApart, FreedAfterWorkers
<1> QED
  BY <1>1, <1>2, <1>3, <1>4, <1>5, <1>6, <1>7, <1>8, <1>9, <1>10, <1>11, <1>12, <1>13, <1>14, <1>15 DEF Next, thread_routine

\* The invariant holds in every reachable state.
THEOREM IInvHolds == Spec => []IInv
  BY InitIInv, NextIInv, PTL DEF Spec

\* The list is a FIFO without loss: what the workers of thread_routine took,
\* what is linked and what pool_destroy freed is, in order, what
\* pool_add_task linked.
THEOREM FifoHolds == Spec => []FifoNoLoss
  BY IInvHolds, PTL DEF IInv

\* A signal of pool_add_task is never lost: queued work on a live pool always
\* has a worker awake or a caller about to signal.
THEOREM NoLostSignalHolds == Spec => []NoLostSignal
  BY IInvHolds, PTL DEF IInv

\* pool_destroy frees the pool only after every worker left it.
THEOREM FreedAfterWorkersHolds == Spec => []FreedAfterWorkers
  BY IInvHolds, PTL DEF IInv

\* The variables of the pool keep their types.
THEOREM TypeHolds == Spec => []TypeOK
  BY IInvHolds, PTL DEF IInv

\* cur_task_list_size counts the list, so thread_routine never takes a task
\* from an empty one.
THEOREM SizeHolds == Spec => []SizeCountsList
  BY IInvHolds, PTL DEF IInv

-----------------------------------------------------------------------------
\* A new pool is an empty, open queue.
LEMMA InitRefines == Init => Queue!Init
  BY DEF Init, thread_pool_init, Queue!Init

\* Every step of every thread is a step of the queue or invisible to it: the
\* critical section of pool_add_task puts, the one of thread_routine takes,
\* setting shutdown closes, freeing the list discards.
LEMMA NextRefines == IInv /\ [Next]_vars => [Queue!Next]_(Queue!vars)
<1> SUFFICES ASSUME IInv, [Next]_vars PROVE Queue!Next \/ UNCHANGED Queue!vars
  OBVIOUS
<1> USE PoolAssumption DEF poolVars, history
<1>1. ASSUME NEW a \in Adders, pool_add_task_append(a) PROVE Queue!Next
  <2>1. newtask[a] \in Tasks /\ shutdown = 0
    BY <1>1 DEF IInv, TypeOK, CallersApart, pool_add_task_append
  <2>2. Queue!Put(newtask[a])
    BY <1>1, <2>1 DEF Queue!Put, pool_add_task_append
  <2> QED
    BY <2>1, <2>2 DEF Queue!Next
<1>2. ASSUME NEW w \in Workers, thread_routine_take(w) PROVE Queue!Next
  <2>1. head # <<>>
    BY <1>2 DEF IInv, TypeOK, SizeCountsList, FreedAfterWorkers, thread_routine_take
  <2>2. Queue!Take
    BY <1>2, <2>1 DEF Queue!Take, thread_routine_take
  <2> QED
    BY <2>2 DEF Queue!Next
<1>3. ASSUME NEW d \in Destroyers, pool_destroy_set(d)
      PROVE  Queue!Next \/ UNCHANGED Queue!vars
  <2>1. CASE shutdown = 0
    BY <1>3, <2>1 DEF Queue!Next, Queue!Close, pool_destroy_set
  <2>2. CASE shutdown = 1
    BY <1>3, <2>2 DEF Queue!vars, pool_destroy_set
  <2> QED
    BY <2>1, <2>2 DEF IInv, TypeOK
<1>4. ASSUME NEW d \in Destroyers, pool_destroy_free(d)
      PROVE  Queue!Next \/ UNCHANGED Queue!vars
  <2>1. shutdown = 1
    BY <1>4 DEF IInv, CallersApart, pool_destroy_free
  <2>2. CASE head = <<>>
    <3>1. dropped \o head = dropped
      BY <2>2, ConcatEmptySeq DEF IInv, TypeOK
    <3> QED
      BY <1>4, <2>2, <3>1 DEF Queue!vars, pool_destroy_free
  <2>3. CASE head # <<>>
    <3>1. dropped = <<>> /\ dropped \o head = head
      BY <2>3, ConcatEmptySeq, ZenonT(30) DEF IInv, TypeOK, CallersApart
    <3>2. Queue!Discard
      BY <1>4, <2>1, <2>3, <3>1 DEF Queue!Discard, pool_destroy_free
    <3> QED
      BY <3>2 DEF Queue!Next
  <2> QED
    BY <2>2, <2>3
<1>5. ASSUME NEW a \in Adders, NEW t \in Tasks, pool_add_task(a, t)
      PROVE  UNCHANGED Queue!vars
  BY <1>5 DEF Queue!vars, pool_add_task
<1>6. ASSUME NEW a \in Adders, pool_add_task_signal(a) PROVE UNCHANGED Queue!vars
  BY <1>6 DEF Queue!vars, pool_add_task_signal
<1>7. ASSUME NEW w \in Workers,
             \/ thread_routine_lock(w) \/ thread_routine_sleep(w) \/ thread_routine_wait(w)
             \/ thread_routine_exit(w) \/ thread_routine_run(w) \/ thread_routine_spurious(w)
      PROVE  UNCHANGED Queue!vars
  BY <1>7 DEF Queue!vars, thread_routine_lock, thread_routine_sleep, thread_routine_wait,
     thread_routine_exit, thread_routine_run, thread_routine_spurious
<1>8. ASSUME NEW d \in Destroyers, pool_destroy(d) \/ pool_destroy_broadcast(d)
      PROVE  UNCHANGED Queue!vars
  BY <1>8 DEF Queue!vars, pool_destroy, pool_destroy_broadcast
<1>9. CASE UNCHANGED vars
  BY <1>9 DEF Queue!vars, vars
<1> QED
  BY <1>1, <1>2, <1>3, <1>4, <1>5, <1>6, <1>7, <1>8, <1>9 DEF Next, thread_routine

\* The pool of thread.c, with its lock, its condition variable and its
\* unlocked shutdown flag, implements the task queue.
THEOREM ImplementsQueueHolds == Spec => ImplementsQueue
  BY InitRefines, NextRefines, IInvHolds, PTL DEF Spec, ImplementsQueue, Queue!Spec
=============================================================================
