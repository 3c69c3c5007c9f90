---------------------------- MODULE TimerWheel ----------------------------
(***************************************************************************)
(* The timer wheel of TCP_C/timer.c and TCP_SERVER/src/x-timer.c (the same *)
(* code): five vectors of lists, of which __run_timers empties one list of *)
(* tv1 per jiffy and cascades a list of the higher vectors when the lower  *)
(* index wraps.  jiffies and expires are unsigned long values, so all      *)
(* arithmetic is modulo Word and "before" is a signed comparison.          *)
(* TVR_SIZE and TVN_SIZE are powers of two in the code; a shift by their   *)
(* bits is written as a division by the size, a mask as a remainder.       *)
(*                                                                         *)
(* A list is the set of timers that are on it: the order inside a list     *)
(* decides only the order of callbacks within one jiffy, so work_list may  *)
(* be served in any order.  jhl_timer_num is written and never read, and   *)
(* is left out.                                                            *)
(***************************************************************************)
EXTENDS Integers, FiniteSets

CONSTANTS Timers,
          TVR_SIZE, TVN_SIZE,   \* 256 and 64: lists of tv1, of tv2 to tv5
          Word,                 \* number of values of an unsigned long
          Delays,               \* expires - jiffies of the timers that are set
          MaxLag,               \* bound: how far jiffies runs ahead of the wheel
          NoTimer

\* The jiffies that one list of tv<v> spans; Span(6) is the whole wheel.
Span(v) == CASE v = 1 -> 1
             [] v = 2 -> TVR_SIZE
             [] v = 3 -> TVR_SIZE * TVN_SIZE
             [] v = 4 -> TVR_SIZE * TVN_SIZE * TVN_SIZE
             [] v = 5 -> TVR_SIZE * TVN_SIZE * TVN_SIZE * TVN_SIZE
             [] v = 6 -> TVR_SIZE * TVN_SIZE * TVN_SIZE * TVN_SIZE * TVN_SIZE
Lists(v) == IF v = 1 THEN TVR_SIZE ELSE TVN_SIZE

\* The wheel divides the range of jiffies: 2^(TVR_BITS + 4 * TVN_BITS) is 2^32.
ASSUME WheelAssumption ==
    /\ TVR_SIZE \in Nat \ {0} /\ TVN_SIZE \in Nat \ {0, 1}
    /\ Word \in Nat \ {0} /\ Word % Span(6) = 0
    /\ MaxLag \in Nat \ {0}
    /\ Delays \subseteq (-(Word \div 2) + MaxLag + 3)..((Word \div 2) - MaxLag - 1)
    /\ NoTimer \notin Timers

VARIABLES now,            \* jiffies
          timer_jiffies,  \* base->timer_jiffies
          expires,        \* timer->expires; 0 when the timer is not pending,
                          \* because it is then written before it is read
          where,          \* the list timer->entry is linked in, or Off
          pc,             \* "idle" outside __run_timers; in it "loop" at the
                          \* test of jiffies, "work" at the test of work_list,
                          \* "fn" in a callback
          running,        \* the timer whose callback runs
          due             \* history: the jiffy in which a set timer is to run

vars == <<now, timer_jiffies, expires, where, pc, running, due>>

Vectors == UNION {{v} \X (0..(Lists(v) - 1)) : v \in 1..5}
Off  == <<0, 0>>   \* timer->entry.next == NULL
Work == <<0, 1>>   \* work_list

\* (signed long)x >= 0
NotNegative(x) == x % Word < Word \div 2

timer_pending(t) == where[t] # Off

-----------------------------------------------------------------------------
\* The index of jiffy x in vector tv<v>; INDEX(v - 2) of timer_jiffies.
IndexUnmasked(v, x) == x \div Span(v)
IndexIn(v, x) == (x \div Span(v)) % Lists(v)

\* The vector for a timer idx jiffies ahead of the wheel.
VectorOf(idx) == CASE idx < Span(2) -> 1
                   [] idx >= Span(2) /\ idx < Span(3) -> 2
                   [] idx >= Span(3) /\ idx < Span(4) -> 3
                   [] idx >= Span(4) /\ idx < Span(5) -> 4
                   [] idx >= Span(5) -> 5

AddByRemainder(e, base) ==
    LET idx == (e - base) % Word
        v   == VectorOf(idx)
    IN  IF idx >= Word \div 2 THEN <<1, base % TVR_SIZE>> ELSE <<v, IndexIn(v, idx)>>

\* The list internal_add_timer picks for a timer that expires at e: the
\* vector by the distance to base, the index by e itself.  A distance that is
\* negative as a signed value is run at once, one beyond the wheel is capped.
internal_add_timer(e, base) ==
    LET idx == (e - base) % Word
        cap == Span(6) - 1
        v   == VectorOf(idx)
    IN  IF v < 5 THEN <<v, IndexIn(v, e)>>
        ELSE IF idx >= Word \div 2 THEN <<1, base % TVR_SIZE>>
        ELSE <<5, IndexIn(5, IF idx > cap THEN (cap + base) % Word ELSE e)>>

\* init_timers_cpu, and init_timer for every timer.
init_timers_cpu ==
    /\ now \in 0..(Word - 1)
    /\ timer_jiffies = now
    /\ expires = [t \in Timers |-> 0]
    /\ where = [t \in Timers |-> Off]
    /\ pc = "idle"
    /\ running = NoTimer
    /\ due = [t \in Timers |-> 0]

-----------------------------------------------------------------------------
(* What the program calls, outside __run_timers or in a callback. *)

Calling == pc \in {"idle", "fn"}

\* detach_timer
Detached(t) ==
    /\ where' = [where EXCEPT ![t] = Off]
    /\ expires' = [expires EXCEPT ![t] = 0]
    /\ due' = [due EXCEPT ![t] = 0]

\* __mod_timer: detach_timer if pending, then internal_add_timer.  A timer
\* set to go off in the past is due in the next jiffy the wheel runs.
__mod_timer(t, e) ==
    /\ expires' = [expires EXCEPT ![t] = e]
    /\ where' = [where EXCEPT ![t] = internal_add_timer(e, timer_jiffies)]
    /\ due' = [due EXCEPT ![t] =
                 IF NotNegative(e - timer_jiffies) THEN e ELSE timer_jiffies]

\* add_timer, with the expires its caller has put in the timer.
add_timer(t, d) ==
    /\ Calling
    /\ __mod_timer(t, (now + d) % Word)
    /\ UNCHANGED <<now, timer_jiffies, pc, running>>

\* mod_timer: nothing to do for a pending timer with the same expires.
mod_timer(t, d) ==
    /\ Calling
    /\ ~(timer_pending(t) /\ expires[t] = (now + d) % Word)
    /\ __mod_timer(t, (now + d) % Word)
    /\ UNCHANGED <<now, timer_jiffies, pc, running>>

del_timer(t) ==
    /\ Calling
    /\ timer_pending(t)
    /\ Detached(t)
    /\ UNCHANGED <<now, timer_jiffies, pc, running>>

-----------------------------------------------------------------------------
(* __run_timers. *)

run_timers ==
    /\ pc = "idle"
    /\ pc' = "loop"
    /\ UNCHANGED <<now, timer_jiffies, expires, where, running, due>>

\* cascade(base, tv<v>, index): every timer of the list is added again.
cascade(w, v) ==
    [t \in Timers |-> IF w[t] = <<v, IndexIn(v, timer_jiffies)>>
                      THEN internal_add_timer(expires[t], timer_jiffies) ELSE w[t]]

\* The cascades of one jiffy: tv2 when the index of tv1 is 0, tv3 when that of
\* tv2 is 0 as well, and so on.
Cascaded ==
    LET zero(v) == \A m \in 1..v : IndexIn(m, timer_jiffies) = 0
        w2 == IF zero(1) THEN cascade(where, 2) ELSE where
        w3 == IF zero(2) THEN cascade(w2, 3) ELSE w2
        w4 == IF zero(3) THEN cascade(w3, 4) ELSE w3
    IN  IF zero(4) THEN cascade(w4, 5) ELSE w4

RunsOneAhead ==
    /\ pc = "loop"
    /\ NotNegative(now + 1 - timer_jiffies)
    /\ LET w == Cascaded IN
       where' = [t \in Timers |->
                   IF w[t] = <<1, timer_jiffies % TVR_SIZE>> THEN Work ELSE w[t]]
    /\ timer_jiffies' = (timer_jiffies + 1) % Word
    /\ pc' = "work"
    /\ UNCHANGED <<now, expires, running, due>>

\* One jiffy: cascade, advance, and move the list of tv1 to work_list.
run_jiffy ==
    /\ pc = "loop"
    /\ NotNegative(now - timer_jiffies)
    /\ LET w == Cascaded IN
       where' = [t \in Timers |->
                   IF w[t] = <<1, timer_jiffies % TVR_SIZE>> THEN Work ELSE w[t]]
    /\ timer_jiffies' = (timer_jiffies + 1) % Word
    /\ pc' = "work"
    /\ UNCHANGED <<now, expires, running, due>>

\* The wheel has caught up with jiffies.
run_end ==
    /\ pc = "loop"
    /\ ~NotNegative(now - timer_jiffies)
    /\ pc' = "idle"
    /\ UNCHANGED <<now, timer_jiffies, expires, where, running, due>>

\* Detach a timer of work_list and call its function.
call_fn(t) ==
    /\ pc = "work"
    /\ where[t] = Work
    /\ Detached(t)
    /\ running' = t
    /\ pc' = "fn"
    /\ UNCHANGED <<now, timer_jiffies>>

fn_return ==
    /\ pc = "fn"
    /\ running' = NoTimer
    /\ pc' = "work"
    /\ UNCHANGED <<now, timer_jiffies, expires, where, due>>

WorkOnce ==
    /\ pc = "work"
    /\ pc' = "loop"
    /\ UNCHANGED <<now, timer_jiffies, expires, where, running, due>>

work_done ==
    /\ pc = "work"
    /\ \A t \in Timers : where[t] # Work
    /\ pc' = "loop"
    /\ UNCHANGED <<now, timer_jiffies, expires, where, running, due>>

\* jiffies advances, at most MaxLag ahead of the wheel.
Clock ==
    /\ NotNegative(timer_jiffies + MaxLag - 1 - now)
    /\ now' = (now + 1) % Word
    /\ UNCHANGED <<timer_jiffies, expires, where, pc, running, due>>

RunStep == \/ run_timers \/ run_jiffy \/ run_end \/ fn_return \/ work_done
           \/ \E t \in Timers : call_fn(t)

Next == \/ RunStep
        \/ Clock
        \/ \E t \in Timers : del_timer(t) \/
             \E d \in Delays : add_timer(t, d) \/ mod_timer(t, d)

Spec == init_timers_cpu /\ [][Next]_vars

-----------------------------------------------------------------------------
(* Properties. *)

\* Every variable keeps its type; a timer is on one list of the wheel, on
\* work_list, or on none.
TypeOK ==
    /\ now \in 0..(Word - 1)
    /\ timer_jiffies \in 0..(Word - 1)
    /\ expires \in [Timers -> 0..(Word - 1)]
    /\ where \in [Timers -> Vectors \cup {Off, Work}]
    /\ pc \in {"idle", "loop", "work", "fn"}
    /\ running \in Timers \cup {NoTimer}
    /\ due \in [Timers -> 0..(Word - 1)]

\* A pending timer is reached in the jiffy it is due, neither before nor
\* after, whatever vectors it has passed through: one still in the wheel is not
\* overdue, one on work_list is due in the jiffy being run; so no timer stays
\* in the wheel while the main loop goes on calling run_timers.  This is what the
\* index arithmetic of internal_add_timer and the order of the cascades of
\* __run_timers are for.
RunsInDueJiffy ==
    \A t \in Timers :
        /\ where[t] \in Vectors => NotNegative(due[t] - timer_jiffies)
        /\ where[t] = Work => due[t] = (timer_jiffies - 1) % Word

\* A callback is never called before the expires of its timer, as jiffies
\* stands when it is called.
NeverEarly ==
    [][\A t \in Timers : running # t /\ running' = t => NotNegative(now - expires[t])]_vars

\* Only a jiffy in progress has timers on work_list: none is left behind when
\* __run_timers returns, not even one that a callback has set again.
WorkListEmptied == \A t \in Timers : where[t] = Work => pc \in {"work", "fn"}

=============================================================================
