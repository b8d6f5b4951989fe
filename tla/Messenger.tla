------------------------------- MODULE Messenger -------------------------------
(***************************************************************************)
(* What a chat user may count on while the server is up, with no sockets,  *)
(* events, tasks, threads or mailboxes: a message is taken in once, is     *)
(* either given at once, to the home of its addressee, or kept and later   *)
(* given to any connection on which that addressee has logged in, and is   *)
(* never given twice.  ChatServer is proved to implement it.               *)
(***************************************************************************)
CONSTANTS Messages,   \* every message a client ever sends
          Conns,      \* the connections
          User,       \* the user who logs in on each connection
          Addressee,  \* the addressee of each message
          Users, NoConn

VARIABLES place,      \* where each message is
          present,    \* the connections whose login the server has read
          home        \* the connection of each user's first login, or NoConn

msgVars == <<place, present, home>>

Unsent == <<"unsent">>
Taken == <<"taken">>
Kept == <<"kept">>
Given(c) == <<"given", c>>

Init ==
  /\ place = [m \in Messages |-> Unsent]
  /\ present = {}
  /\ home = [u \in Users |-> NoConn]

LogIn(c) ==
  /\ present' = present \cup {c}
  /\ UNCHANGED <<place, home>>

Settle(c) ==
  /\ c \in present
  /\ home[User[c]] = NoConn
  /\ home' = [home EXCEPT ![User[c]] = c]
  /\ UNCHANGED <<place, present>>

TakeIn(m) ==
  /\ place[m] = Unsent
  /\ place' = [place EXCEPT ![m] = Taken]
  /\ UNCHANGED <<present, home>>

Keep(m) ==
  /\ place[m] = Taken
  /\ place' = [place EXCEPT ![m] = Kept]
  /\ UNCHANGED <<present, home>>

Give(m, c) ==
  /\ \/ place[m] = Taken /\ c = home[Addressee[m]]
     \/ place[m] = Kept /\ c \in present /\ User[c] = Addressee[m]
  /\ place' = [place EXCEPT ![m] = Given(c)]
  /\ UNCHANGED <<present, home>>

Next ==
  \/ \E c \in Conns : LogIn(c) \/ Settle(c)
  \/ \E m \in Messages : TakeIn(m) \/ Keep(m) \/ \E c \in Conns : Give(m, c)

Spec == Init /\ [][Next]_msgVars
================================================================================
