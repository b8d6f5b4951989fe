------------------------------ MODULE MCHashTable ------------------------------
(* HashTable for TLC: names, how they hash, and who has two sockets.        *)
EXTENDS HashTable

\* Each doubling splits some names off and leaves three together to the end, so
\* that expansion is given up.
Hashes == <<0, 8, 16, 4, 1, 9>>
MCSockets == [u \in Users |-> IF u = 1 THEN {"s1", "s2"} ELSE {"s1"}]
================================================================================
