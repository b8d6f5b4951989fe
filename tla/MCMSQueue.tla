------------------------------- MODULE MCMSQueue -------------------------------
(* MSQueue for TLC: the uses of the queue.                                  *)
EXTENDS MSQueue

CONSTANTS p1, p2, c1, c2

\* One producer, which may stop anywhere, and one consumer that keeps calling.
Pair(n) ==
  [count |-> [p \in Producers |-> IF p = p1 THEN n ELSE 0], consumers |-> {c1},
   together |-> TRUE, running |-> {c1}]
\* Two producers at once, then two consumers at once.
Phases ==
  [count |-> [p \in Producers |-> 1], consumers |-> {c1, c2},
   together |-> FALSE, running |-> Callers]
TwoUses == {Pair(Count), Phases}
================================================================================
