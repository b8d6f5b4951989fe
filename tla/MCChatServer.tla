----------------------------- MODULE MCChatServer ------------------------------
(* ChatServer for TLC: alice's client writes to bob, on every other socket *)
(* bob logs in and listens.                                                *)
EXTENDS ChatServer, TLC

CONSTANTS c1, alice, bob

MCUser == [c \in Conns |-> IF c = c1 THEN alice ELSE bob]
MCPeer == [c \in Conns |-> IF c = c1 THEN bob ELSE alice]

\* Alice sends n messages, bob logs in on the connections of at.
Plan(n, at, sockets) ==
  [frames |-> [c \in Conns |-> IF c = c1 THEN n + 1 ELSE IF c \in at THEN 1 ELSE 0],
   sockets |-> sockets]
Others == Conns \ {c1}

\* Bob connects once, or twice, or finds no socket left.
Varied == {Plan(2, {c}, 2) : c \in Others} \cup {Plan(1, Others, 3), Plan(1, Others, 2)}
TwoToBob == {Plan(2, Others, 2)}
OneToBob == {Plan(1, Others, 2)}

Symmetry == Permutations(Workers) \cup Permutations(Others)
================================================================================
