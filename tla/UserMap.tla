-------------------------------- MODULE UserMap --------------------------------
(***************************************************************************)
(* What the callers of online_user_manager count on: a map from names to   *)
(* sockets in which the first login of a name stays until it is removed.   *)
(* HashTable is proved to implement it, and ChatServer enters logins       *)
(* through it.                                                             *)
(***************************************************************************)
CONSTANTS Users, Sockets, NoSocket

VARIABLE socket   \* the socket of each name, or the -1 of a name not there

Init == socket = [u \in Users |-> NoSocket]

\* manager_add_user: a name that is there keeps its socket.
Enter(u, s) == socket' = [socket EXCEPT ![u] = IF @ = NoSocket THEN s ELSE @]

\* manager_remove_user
Leave(u) == socket' = [socket EXCEPT ![u] = NoSocket]

Next == \E u \in Users : Leave(u) \/ \E s \in Sockets : Enter(u, s)

Spec == Init /\ [][Next]_socket
================================================================================
