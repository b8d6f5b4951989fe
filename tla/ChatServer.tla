------------------------------- MODULE ChatServer ------------------------------
(***************************************************************************)
(* The running server: the event loop of gw_connection.c, the task handler *)
(* and the two managers of logic_service.c, on the job pool of thpool.c    *)
(* (its abstract specification, JobPool, which ThreadPool implements).     *)
(*                                                                         *)
(* The managers' rwlocks and the mailbox mutex are held for one short      *)
(* critical section each and are always taken in the same order, so each   *)
(* section is one step.  The socket calls between them are steps of their  *)
(* own.  Clients are cli_connection.c: connect, log in, chat with one      *)
(* peer, close.  A frame is a pair <<connection, number>>: number 0 is the *)
(* login, the others are chat messages.  A send of BUFFER_SIZE bytes       *)
(* arrives whole and is read by one recv.  What the clients will type and  *)
(* how many sockets the process may have are chosen in Init.               *)
(***************************************************************************)
EXTENDS Integers, Sequences, FiniteSets

CONSTANTS Conns,     \* sockets, one per run of the client
          Users,
          Workers,   \* the threads of logic_pool
          User,      \* the name typed at each client
          Peer,      \* the friend's name typed at each client
          Plans,     \* the frames of each client and the sockets Init may choose
          NoConn,    \* the -1 of manager_get_user_socket
          NoTask,    \* the NULL of jobqueue_pull
          Garbage    \* what is read from a stack frame that was reused

ASSUME ServerAssumption ==
  /\ IsFiniteSet(Conns) /\ IsFiniteSet(Users) /\ IsFiniteSet(Workers)
  /\ User \in [Conns -> Users] /\ Peer \in [Conns -> Users]
  /\ IsFiniteSet(Plans) /\ Plans \subseteq [frames : [Conns -> Nat], sockets : Nat]
  /\ NoConn \notin Conns
  /\ NoTask \notin Conns \X Nat
  /\ Garbage \notin Conns \X Nat

Frames == UNION {UNION {{c} \X (0 .. p.frames[c] - 1) : c \in Conns} : p \in Plans}
Messages == {f \in Frames : f[2] # 0}
To(f) == Peer[f[1]]
\* One task for every edge a connection can raise: its frames and its close.
Tasks == UNION {UNION {{c} \X (1 .. p.frames[c] + 1) : c \in Conns} : p \in Plans}
\* An offline_msg_node: a pointer into the stack of the worker `at`.
Nodes == [msg : Messages, at : Workers]
\* One send to a client: the message it is for, and what the bytes say.
Sends == [msg : Messages, says : Frames \cup {Garbage}]

VARIABLES
  conn,       \* each client's socket: "none", "open", "closed", "reset"
  accepted,   \* connections the event loop has accepted and registered
  left,       \* frames each client may still send
  sent,       \* frames the client has put on its connection
  spare,      \* sockets the process may still get
  read,       \* frames the server has taken off it
  ready,      \* connections with an event epoll has yet to report
  missed,     \* history: arrivals that raised no event of their own
  submitted, pending, running, done, closed,   \* the job pool (thpool_destroy is never called)
  pc,         \* where each worker is in handle_msg_task
  msg,        \* the message on each worker's stack; it outlives the call
  todo,       \* the queue each worker got from offline_msg_take_off
  target,     \* online_user_fd of each worker
  userMap,    \* online_user_manager.user_map
  boxes,      \* users with an entry in global_mail_manager.mail_hash
  mail,       \* the msg_queue of each entry, head first
  out,        \* everything handed to send for each connection
  up          \* the process is alive

netVars == <<conn, left, sent, missed>>
loopVars == <<accepted, spare, ready>>
poolVars == <<submitted, pending, running, done, closed>>
workVars == <<pc, msg, todo, target>>
mailVars == <<boxes, mail>>
vars == <<netVars, loopVars, read, poolVars, workVars, userMap, mailVars, out, up>>

Pool == INSTANCE JobPool WITH Slots <- Workers, Jobs <- Tasks, NoJob <- NoTask
Online == INSTANCE UserMap WITH socket <- userMap, Sockets <- Conns, NoSocket <- NoConn

Init ==
  /\ \E plan \in Plans : left = plan.frames /\ spare = plan.sockets
  /\ conn = [c \in Conns |-> "none"]
  /\ accepted = {}
  /\ sent = [c \in Conns |-> 0]
  /\ read = [c \in Conns |-> 0]
  /\ ready = {}
  /\ missed = [c \in Conns |-> 0]
  /\ submitted = {}
  /\ pending = <<>>
  /\ running = [w \in Workers |-> NoTask]
  /\ done = {}
  /\ closed = FALSE
  /\ pc = [w \in Workers |-> "idle"]
  /\ msg = [w \in Workers |-> Garbage]
  /\ todo = [w \in Workers |-> <<>>]
  /\ target = [w \in Workers |-> NoConn]
  /\ userMap = [u \in Users |-> NoConn]
  /\ boxes = {}
  /\ mail = [u \in Users |-> <<>>]
  /\ out = [c \in Conns |-> <<>>]
  /\ up = TRUE

--------------------------------------------------------------------------------
(* The clients                                                             *)

Connect(c) ==
  /\ up
  /\ conn[c] = "none"
  /\ left[c] > 0
  /\ conn' = [conn EXCEPT ![c] = "open"]
  /\ UNCHANGED <<left, sent, missed, loopVars, read, poolVars, workVars, userMap, mailVars, out, up>>

\* Data or end of file arrives: an edge, merged with one not yet reported.
Arrive(c) == ready' = ready \cup {c}

ClientSend(c) ==
  /\ up
  /\ conn[c] = "open"
  /\ left[c] > 0
  /\ left' = [left EXCEPT ![c] = @ - 1]
  /\ sent' = [sent EXCEPT ![c] = @ + 1]
  /\ missed' = [missed EXCEPT ![c] = IF c \in ready THEN @ + 1 ELSE @]
  /\ Arrive(c)
  /\ UNCHANGED <<conn, accepted, spare, read, poolVars, workVars, userMap, mailVars, out, up>>

\* "exit" at the prompt, or the client is killed.
ClientClose(c) ==
  /\ up
  /\ conn[c] = "open"
  /\ conn' = [conn EXCEPT ![c] = "closed"]
  /\ Arrive(c)
  /\ UNCHANGED <<left, sent, missed, accepted, spare, read, poolVars, workVars, userMap, mailVars, out, up>>

--------------------------------------------------------------------------------
(* The event loop.  epoll_wait is taken to report one event at a time: a   *)
(* batch of n is n such reports, since only this loop adds tasks.          *)

\* The server closes no socket; one more than it may have ends the process.
Accept(c) ==
  /\ up
  /\ conn[c] # "none"
  /\ c \notin accepted
  /\ \/ /\ spare > 0
        /\ accepted' = accepted \cup {c}
        /\ spare' = spare - 1
        /\ UNCHANGED up
     \/ /\ spare = 0
        /\ up' = FALSE
        /\ UNCHANGED <<accepted, spare>>
  /\ UNCHANGED <<netVars, ready, read, poolVars, workVars, userMap, mailVars, out>>

\* Faulty variant of AddTask: the event is consumed and no task is added.
AddNothing(c) == UNCHANGED poolVars

AddTask(c) == Pool!Submit(<<c, Cardinality({t \in submitted : t[1] = c}) + 1>>)

Dispatch(c) ==
  /\ up
  /\ c \in accepted \cap ready
  /\ ready' = ready \ {c}
  /\ AddTask(c)
  /\ UNCHANGED <<netVars, accepted, spare, read, workVars, userMap, mailVars, out, up>>

--------------------------------------------------------------------------------
(* handle_msg_task, by worker w                                            *)

Goto(w, step) == pc' = [pc EXCEPT ![w] = step]
Fd(w) == running[w][1]

Take(w) ==
  /\ up
  /\ pc[w] = "idle"
  /\ Pool!Begin(w)
  /\ Goto(w, "recv")
  /\ UNCHANGED <<netVars, loopVars, read, msg, todo, target, userMap, mailVars, out, up>>

\* Faulty variants of Case: the switch takes every frame for a chat message;
\* a login is not entered before its mail is taken off.
AlwaysChat(frame) == "lookup"
LoginNotEntered(frame) == IF frame[2] = 0 THEN "takeoff" ELSE "lookup"

\* The case of handle_msg_task's switch.
Case(frame) == IF frame[2] = 0 THEN "login" ELSE "lookup"

\* One non-blocking recv and the decoding of what it returned: a frame, or
\* on EAGAIN and on end of file a buffer of zeros, whose type is no case of
\* the switch and leaves msg uninitialised.
Recv(w) ==
  /\ up
  /\ pc[w] = "recv"
  /\ LET c == Fd(w)
         frame == <<c, read[c]>>
     IN \/ /\ read[c] < sent[c]
           /\ read' = [read EXCEPT ![c] = @ + 1]
           /\ msg' = [msg EXCEPT ![w] = frame]
           /\ Goto(w, Case(frame))
        \/ /\ read[c] = sent[c]
           /\ msg' = [msg EXCEPT ![w] = Garbage]
           /\ Goto(w, "return")
           /\ UNCHANGED read
  /\ UNCHANGED <<netVars, loopVars, poolVars, todo, target, userMap, mailVars, out, up>>

\* manager_add_user
Login(w) ==
  /\ up
  /\ pc[w] = "login"
  /\ Online!Enter(User[Fd(w)], Fd(w))
  /\ Goto(w, "takeoff")
  /\ UNCHANGED <<netVars, loopVars, read, poolVars, msg, todo, target, mailVars, out, up>>

\* Faulty variant of Emptied: the mailbox keeps the queue that was taken.
NotEmptied(u) == mail

\* The fresh, empty queue offline_msg_take_off leaves in u's mailbox.
Emptied(u) == [mail EXCEPT ![u] = <<>>]

\* offline_msg_take_off
TakeOff(w) ==
  /\ up
  /\ pc[w] = "takeoff"
  /\ LET u == User[Fd(w)]
     IN \/ /\ u \in boxes
           /\ todo' = [todo EXCEPT ![w] = mail[u]]
           /\ mail' = Emptied(u)
           /\ Goto(w, "sending")
        \/ /\ u \notin boxes
           /\ Goto(w, "return")
           /\ UNCHANGED <<todo, mail>>
  /\ UNCHANGED <<netVars, loopVars, read, poolVars, msg, target, userMap, boxes, out, up>>

\* send to c: into the socket, open or half closed; a peer that is gone may
\* answer with a reset, and a send after that raises SIGPIPE, which nothing
\* catches or ignores.
Send(c, s) ==
  \/ /\ conn[c] = "open"
     /\ out' = [out EXCEPT ![c] = Append(@, s)]
     /\ UNCHANGED <<conn, up>>
  \/ /\ conn[c] = "closed"
     /\ out' = [out EXCEPT ![c] = Append(@, s)]
     /\ conn' \in {conn, [conn EXCEPT ![c] = "reset"]}
     /\ UNCHANGED up
  \/ /\ conn[c] = "reset"
     /\ up' = FALSE
     /\ UNCHANGED <<conn, out>>

\* Faulty variant of More: the loop stops at the last node.
MoreThanOne(w) == Len(todo[w]) > 1

\* msg_node != NULL
More(w) == todo[w] # <<>>

\* One round of handle_offline_msg_send_task's loop.  The node's msg points
\* to the stack frame of the call that saved it: whatever is there is sent.
SendOffline(w) ==
  /\ up
  /\ pc[w] = "sending"
  /\ \/ /\ More(w)
        /\ LET node == Head(todo[w])
           IN Send(Fd(w), [msg |-> node.msg, says |-> msg[node.at]])
        /\ todo' = [todo EXCEPT ![w] = IF up' THEN Tail(@) ELSE @]
        /\ UNCHANGED pc
     \/ /\ ~More(w)
        /\ Goto(w, "return")
        /\ UNCHANGED <<todo, conn, out, up>>
  /\ UNCHANGED <<left, sent, missed, loopVars, read, poolVars, msg, target, userMap, mailVars>>

\* Faulty variant of Sought: the sender.
Sender(w) == User[Fd(w)]

\* The user who is looked up.
Sought(w) == To(msg[w])

\* Faulty variant of Route: every message is stored.
AlwaysSave(fd) == "save"

\* Where handle_msg_task goes with the answer.
Route(fd) == IF fd = NoConn THEN "save" ELSE "forward"

\* manager_get_user_socket; the answer is used after the lock is released.
Lookup(w) ==
  /\ up
  /\ pc[w] = "lookup"
  /\ LET fd == userMap[Sought(w)]
     IN /\ target' = [target EXCEPT ![w] = fd]
        /\ Goto(w, Route(fd))
  /\ UNCHANGED <<netVars, loopVars, read, poolVars, msg, todo, userMap, mailVars, out, up>>

\* handle_online_msg_task
Forward(w) ==
  /\ up
  /\ pc[w] = "forward"
  /\ Send(target[w], [msg |-> msg[w], says |-> msg[w]])
  /\ Goto(w, "return")
  /\ UNCHANGED <<left, sent, missed, loopVars, read, poolVars, msg, todo, target, userMap, mailVars>>

\* offline_msg_add.  A mailbox that was taken off has a NULL tail: writing
\* through it kills the process.
Save(w) ==
  /\ up
  /\ pc[w] = "save"
  /\ LET u == To(msg[w])
         node == [msg |-> msg[w], at |-> w]
     IN \/ /\ u \in boxes => mail[u] # <<>>
           /\ boxes' = boxes \cup {u}
           /\ mail' = [mail EXCEPT ![u] = Append(@, node)]
           /\ UNCHANGED up
        \/ /\ u \in boxes /\ mail[u] = <<>>
           /\ up' = FALSE
           /\ UNCHANGED mailVars
  /\ Goto(w, "return")
  /\ UNCHANGED <<netVars, loopVars, read, poolVars, msg, todo, target, userMap, out>>

\* The call returns: its frame is intact until something else is called.
Return(w) ==
  /\ up
  /\ pc[w] = "return"
  /\ Pool!Finish(w)
  /\ Goto(w, "idle")
  /\ msg' \in {msg, [msg EXCEPT ![w] = Garbage]}
  /\ target' = [target EXCEPT ![w] = NoConn]
  /\ UNCHANGED <<netVars, loopVars, read, todo, userMap, mailVars, out, up>>

Handle(w) ==
  \/ Take(w) \/ Recv(w) \/ Login(w) \/ TakeOff(w) \/ SendOffline(w)
  \/ Lookup(w) \/ Forward(w) \/ Save(w) \/ Return(w)

--------------------------------------------------------------------------------
Next ==
  \/ \E c \in Conns : Connect(c) \/ ClientSend(c) \/ ClientClose(c)
  \/ \E c \in Conns : Accept(c) \/ Dispatch(c)
  \/ \E w \in Workers : Handle(w)

Spec == Init /\ [][Next]_vars

\* The event loop and the workers are scheduled and no socket call blocks;
\* nothing is assumed of the clients.
FairSpec ==
  /\ Spec
  /\ \A c \in Conns : WF_vars(Accept(c)) /\ WF_vars(Dispatch(c))
  /\ \A w \in Workers : WF_vars(Handle(w))

--------------------------------------------------------------------------------
(* Properties                                                              *)

Steps == {"idle", "recv", "login", "takeoff", "sending", "lookup", "forward", "save", "return"}

\* Every variable stays in its type; in particular nothing but a chat message
\* is ever stored in a mailbox or handed to a client as one.
TypeOK ==
  /\ left \in [Conns -> Nat] /\ spare \in Nat
  /\ conn \in [Conns -> {"none", "open", "closed", "reset"}]
  /\ accepted \in SUBSET Conns
  /\ sent \in [Conns -> Nat] /\ read \in [Conns -> Nat] /\ missed \in [Conns -> Nat]
  /\ \A c \in Conns : read[c] <= sent[c] /\ (sent[c] > 0 => <<c, sent[c] - 1>> \in Frames)
  /\ ready \in SUBSET Conns
  /\ submitted \in SUBSET Tasks
  /\ pending \in Seq(Tasks)
  /\ running \in [Workers -> Tasks \cup {NoTask}]
  /\ done \in SUBSET Tasks /\ closed = FALSE
  /\ pc \in [Workers -> Steps]
  /\ msg \in [Workers -> Frames \cup {Garbage}]
  /\ todo \in [Workers -> Seq(Nodes)]
  /\ target \in [Workers -> Conns \cup {NoConn}]
  /\ userMap \in [Users -> Conns \cup {NoConn}]
  /\ boxes \in SUBSET Users
  /\ mail \in [Users -> Seq(Nodes)]
  /\ out \in [Conns -> Seq(Sends)]
  /\ up \in BOOLEAN

InHand(m) == {w \in Workers : pc[w] \in {"lookup", "forward", "save"} /\ msg[w] = m}
\* The places <<a, i>> of m in the sequences f[a] of nodes or sends.
Holding(f, m) == UNION {{a} \X {i \in DOMAIN f[a] : f[a][i].msg = m} : a \in DOMAIN f}
InMail(m) == Holding(mail, m)
InTodo(m) == Holding(todo, m)
InOut(m) == Holding(out, m)
Taken(m) == m[2] < read[m[1]]

\* While the server is up, a chat message it has read is in exactly one
\* place: with the worker that handles it, in a mailbox, in a queue taken
\* off a mailbox, or handed to one client.  Logins, saves and take-offs of
\* several workers neither lose one nor copy one (logic_service.c:270-359).
OnePlace ==
  up => \A m \in Messages :
          Cardinality(InHand(m)) + Cardinality(InMail(m)) + Cardinality(InTodo(m))
            + Cardinality(InOut(m)) = IF Taken(m) THEN 1 ELSE 0

\* Tasks that will still call recv on c.
Recvs(c) == {t \in submitted \ done : t[1] = c} \ {running[w] : w \in {v \in Workers : pc[v] # "recv"}}

\* One recv per edge-triggered event: a frame stays unread with no event and
\* no task to read it only if its arrival was merged with an event that had
\* not been reported yet (gw_connection.c:90, logic_service.c:375).
UnreadWasMerged ==
  up => \A c \in Conns :
          sent[c] - read[c] <= missed[c] + Cardinality(Recvs(c)) + IF c \in ready THEN 1 ELSE 0

\* The connection a message was handed to.
Receiver(m) == CHOOSE c \in Conns : \E i \in DOMAIN out[c] : out[c][i].msg = m

\* The server implements Messenger: a message goes to one connection only, on
\* which the server has read a login of the addressee; a message that was never
\* stored goes to the one whose login was entered first, however many there are.
Place(m) ==
  CASE ~Taken(m)                        -> <<"unsent">>
    [] InMail(m) # {} \/ InTodo(m) # {} -> <<"kept">>
    [] InOut(m) # {}                    -> <<"given", Receiver(m)>>
    [] OTHER         -> <<"taken">>
Chat == INSTANCE Messenger WITH
  Addressee <- [m \in Messages |-> To(m)],
  place <- [m \in Messages |-> Place(m)],
  present <- {c \in Conns : read[c] > 0},
  home <- userMap
MessengerSpec == Chat!Spec

\* With every socket working and sockets to spare, only one thing ends the
\* process: a save to a user who is online by now, whose login emptied the
\* mailbox.  A send ends it only on a connection that its client has left, an
\* accept only when every socket is taken, those of clients that have left
\* included (logic_service.c:281, 355, 362, gw_connection.c:83).
DeathHasCause ==
  ~up => \/ \E u \in boxes : mail[u] = <<>> /\ userMap[u] # NoConn
         \/ \E c \in Conns : conn[c] = "reset"
         \/ spare = 0 /\ \E c \in Conns \ accepted : conn[c] # "none"

\* A message that is read after the login of its addressee was entered is never
\* stored: it is the lookup under the lock that decides, and nothing undoes a
\* login (logic_service.c:388-391).
OnlineNotStored ==
  \A m \in Messages :
    [](~Taken(m) /\ userMap[To(m)] # NoConn => [](InMail(m) = {} /\ InTodo(m) = {}))

\* A reported edge always moves the connection's stream on: a frame that is
\* unread when an event is pending is read, unless the server dies.
EdgeServed ==
  \A c \in Conns : \A k \in {f[2] : f \in Frames} :
    read[c] = k /\ sent[c] > k /\ c \in ready ~> read[c] > k \/ ~up

\* Mail that is in the mailbox when its user logs in is handed to some client,
\* whichever worker's take-off gets it (logic_service.c:343-359).
LogsIn(u) == \E w \in Workers : pc[w] \in {"login", "takeoff"} /\ User[Fd(w)] = u
MailArrives ==
  \A m \in Messages :
    InMail(m) # {} /\ LogsIn(To(m)) ~> InOut(m) # {} \/ ~up

\* As logic_service.c:347 has it, login sends the offline messages that were
\* stored for the user: what is sent is what was stored.
MailIntact ==
  \A c \in Conns : \A i \in 1 .. Len(out[c]) : out[c][i].says = out[c][i].msg

\* As logic_service.c:275 has it, a user with a mailbox already has offline
\* messages in it, so there is a tail to append to.
BoxHasMail ==
  \A w \in Workers :
    up /\ pc[w] = "save" /\ To(msg[w]) \in boxes => mail[To(msg[w])] # <<>>
================================================================================
