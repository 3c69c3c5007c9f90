---------------------------- MODULE MCTimerWheel ----------------------------
(* The wheel with short vectors, for TLC. *)
EXTENDS TimerWheel, TLC

CONSTANTS Past, MaxDelay

\* Every delay from Past jiffies ago to MaxDelay ahead, or only those next to
\* the distances at which internal_add_timer changes the vector.
AllDelays == (-Past)..MaxDelay
EdgeDelays ==
    AllDelays \cap ({-1, 0, MaxDelay} \cup
        UNION {{Span(v) - 1, Span(v)} : v \in 2..5})
Symmetry  == Permutations(Timers)
=============================================================================
