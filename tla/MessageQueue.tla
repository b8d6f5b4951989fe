----------------------------- MODULE MessageQueue ------------------------------
(***************************************************************************)
(* A first-in first-out queue: what msg_enqueue and msg_dequeue promise.   *)
(* A message <<p, k>> is the k-th one of producer p.  MSQueue is proved to *)
(* implement it for one producer and one consumer, and for producers at    *)
(* once followed by consumers at once.                                     *)
(***************************************************************************)
EXTENDS Sequences, Naturals

CONSTANTS Producers, Consumers, Count

VARIABLES items,      \* the messages in the queue, oldest first
          got         \* what each consumer has been given, in order

queueVars == <<items, got>>

Elements(s) == {s[i] : i \in DOMAIN s}

Seen == Elements(items) \cup UNION {Elements(got[c]) : c \in Consumers}

Init ==
  /\ items = <<>>
  /\ got = [c \in Consumers |-> <<>>]

\* Each message enters once, those of one producer in the order of its calls.
Enqueue(p, k) ==
  /\ <<p, k>> \notin Seen
  /\ \A i \in 1 .. k - 1 : <<p, i>> \in Seen
  /\ items' = Append(items, <<p, k>>)
  /\ UNCHANGED got

Dequeue(c) ==
  /\ items # <<>>
  /\ got' = [got EXCEPT ![c] = Append(@, Head(items))]
  /\ items' = Tail(items)

Next ==
  \/ \E p \in Producers, k \in 1 .. Count : Enqueue(p, k)
  \/ \E c \in Consumers : Dequeue(c)

Spec == Init /\ [][Next]_queueVars
================================================================================
