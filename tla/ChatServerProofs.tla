---------------------------- MODULE ChatServerProofs ----------------------------
(* Theorems about ChatServer for all sets of connections, users and        *)
(* workers, whatever the clients type and however many sockets there are.  *)
EXTENDS ChatServer, TLAPS, FiniteSetTheorems, SequenceTheorems

--------------------------------------------------------------------------------
(* The inductive invariants                                                *)

\* What the clients have sent and may still send, and the events this raised:
\* each is with the pool, still to be reported, or was merged.
Gone(c) == conn[c] \in {"closed", "reset"}
Submitted(c) == {t \in submitted : t[1] = c}
Event(c) == IF c \in ready THEN 1 ELSE 0
Close(c) == IF Gone(c) THEN 1 ELSE 0
StreamInv ==
  /\ \E plan \in Plans : \A c \in Conns : sent[c] + left[c] = plan.frames[c]
  /\ IsFiniteSet(submitted)
  /\ \A c \in Conns : Cardinality(Submitted(c)) + Event(c) <= sent[c] + Close(c)

\* What a worker has in its hands at each step of handle_msg_task.
WorkOf(w) ==
  /\ running[w] = NoTask <=> pc[w] = "idle"
  /\ pc[w] \in {"login", "takeoff", "sending"} => read[Fd(w)] > 0
  /\ pc[w] \in {"takeoff", "sending"} => userMap[User[Fd(w)]] # NoConn
  /\ pc[w] \in {"lookup", "forward", "save"} => msg[w] \in Messages
  /\ pc[w] = "forward" => target[w] # NoConn /\ target[w] = userMap[To(msg[w])]
  /\ pc[w] # "sending" => todo[w] = <<>>
WorkInv == \A w \in Workers : WorkOf(w)

\* Tasks that are waited with, carried or done were submitted.
TaskInv ==
  /\ done \subseteq submitted
  /\ \A w \in Workers : running[w] \in submitted \cup {NoTask}
  /\ \A i \in 1 .. Len(pending) : pending[i] \in submitted

\* UnreadWasMerged of one connection
UnreadOf(c) == sent[c] - read[c] <= missed[c] + Cardinality(Recvs(c)) + Event(c)

--------------------------------------------------------------------------------
(* Types                                                                   *)

\* Every frame belongs to some plan, and with it the earlier ones.
LEMMA FrameFacts ==
  /\ \A c \in Conns, plan \in Plans, k \in Nat : k < plan.frames[c] => <<c, k>> \in Frames
  /\ \A f \in Frames : f[1] \in Conns /\ f[2] \in Nat /\ f = <<f[1], f[2]>>
  /\ Garbage \notin Frames
<1> USE ServerAssumption
<1>1. \A plan \in Plans, c \in Conns : plan.frames[c] \in Nat
  OBVIOUS
<1>2. \A f : f \in Frames <=> \E c \in Conns, plan \in Plans : f \in {c} \X (0 .. plan.frames[c] - 1)
  BY DEF Frames
<1>3. QED
  BY <1>1, <1>2

\* The same for tasks.
LEMMA TaskFacts ==
  /\ \A c \in Conns, plan \in Plans, k \in Nat \ {0} : k <= plan.frames[c] + 1 => <<c, k>> \in Tasks
  /\ \A t \in Tasks : t[1] \in Conns /\ t # NoTask
<1> USE ServerAssumption
<1>1. \A plan \in Plans, c \in Conns : plan.frames[c] \in Nat
  OBVIOUS
<1>2. \A t : t \in Tasks <=> \E c \in Conns, plan \in Plans : t \in {c} \X (1 .. plan.frames[c] + 1)
  BY DEF Tasks
<1>3. QED
  BY <1>1, <1>2

\* What Send leaves in the variables it may change.
SocketStates == {"none", "open", "closed", "reset"}
\* The sockets and the streams to the clients stay of their types, nobody comes
\* or goes, and either s is delivered or the process ends.
LEMMA SendFacts ==
  ASSUME conn \in [Conns -> SocketStates], out \in [Conns -> Seq(Sends)],
         up, NEW c \in Conns, NEW s \in Sends, Send(c, s)
  PROVE  /\ conn' \in [Conns -> SocketStates]
         /\ out' \in [Conns -> Seq(Sends)]
         /\ up' \in BOOLEAN
         /\ \A d \in Conns : Gone(d)' <=> Gone(d)
         /\ up' => out' = [out EXCEPT ![c] = Append(@, s)]
         /\ ~up' => out' = out /\ conn' = conn /\ conn[c] = "reset"
<1> USE DEF SocketStates
<1>1. Append(out[c], s) \in Seq(Sends)
  BY AppendProperties
<1>2. CASE conn[c] = "open"
  BY <1>1, <1>2 DEF Send, Gone
<1>3. CASE conn[c] = "closed"
  <2>1. out' = [out EXCEPT ![c] = Append(@, s)] /\ up'
    BY <1>3 DEF Send
  <2>2. conn' = conn \/ conn' = [conn EXCEPT ![c] = "reset"]
    BY <1>3 DEF Send
  <2>3. \A d \in Conns : Gone(d)' <=> Gone(d)
    BY <1>3, <2>2 DEF Gone
  <2>4. conn' \in [Conns -> SocketStates] /\ out' \in [Conns -> Seq(Sends)]
    BY <1>1, <2>1, <2>2
  <2>5. QED
    BY <2>1, <2>3, <2>4
<1>4. CASE conn[c] = "reset"
  BY <1>4 DEF Send, Gone
<1>5. QED
  BY <1>2, <1>3, <1>4 DEF Send

\* The type invariant by the parts of the state that change together.
NetOK ==
  /\ conn \in [Conns -> SocketStates]
  /\ left \in [Conns -> Nat] /\ sent \in [Conns -> Nat] /\ missed \in [Conns -> Nat]
ReadOK ==
  /\ read \in [Conns -> Nat]
  /\ \A c \in Conns : read[c] <= sent[c] /\ (sent[c] > 0 => <<c, sent[c] - 1>> \in Frames)
LoopOK == accepted \in SUBSET Conns /\ spare \in Nat /\ ready \in SUBSET Conns
PoolOK ==
  /\ submitted \in SUBSET Tasks /\ pending \in Seq(Tasks)
  /\ running \in [Workers -> Tasks \cup {NoTask}]
  /\ done \in SUBSET Tasks /\ closed = FALSE
WorkOK ==
  /\ pc \in [Workers -> Steps] /\ msg \in [Workers -> Frames \cup {Garbage}]
  /\ todo \in [Workers -> Seq(Nodes)] /\ target \in [Workers -> Conns \cup {NoConn}]
MapOK == userMap \in [Users -> Conns \cup {NoConn}]
MailOK == boxes \in SUBSET Users /\ mail \in [Users -> Seq(Nodes)]
OutOK == out \in [Conns -> Seq(Sends)]

\* The parts together are the type invariant.
LEMMA TypeParts ==
  TypeOK <=> NetOK /\ ReadOK /\ LoopOK /\ PoolOK /\ WorkOK /\ MapOK /\ MailOK /\ OutOK /\ up \in BOOLEAN
BY DEF TypeOK, NetOK, ReadOK, LoopOK, PoolOK, WorkOK, MapOK, MailOK, OutOK, SocketStates

\* The connection and the message of a worker that is in handle_msg_task.
LEMMA WorkerFacts ==
  ASSUME TypeOK, WorkInv
  PROVE  /\ \A c \in Conns : User[c] \in Users /\ Peer[c] \in Users
         /\ \A m \in Messages : m \in Frames /\ To(m) \in Users
         /\ \A w \in Workers : pc[w] # "idle" => running[w] \in Tasks /\ Fd(w) \in Conns
         /\ \A w \in Workers : pc[w] \in {"lookup", "forward", "save"} => To(msg[w]) \in Users
<1>1. \A c \in Conns : User[c] \in Users /\ Peer[c] \in Users
  BY ServerAssumption
<1>2. \A m \in Messages : m \in Frames /\ To(m) \in Users
  BY <1>1, FrameFacts DEF Messages, To
<1>3. \A w \in Workers : pc[w] # "idle" => running[w] \in Tasks /\ Fd(w) \in Conns
  BY TypeParts, TaskFacts DEF PoolOK, WorkInv, WorkOf, Fd
<1>4. QED
  BY <1>1, <1>2, <1>3 DEF WorkInv, WorkOf

\* The first node of a queue that was taken off, and what is sent for it.
LEMMA HeadSent ==
  ASSUME TypeOK, NEW w \in Workers, More(w)
  PROVE  /\ Head(todo[w]) \in Nodes /\ Head(todo[w]) = todo[w][1]
         /\ Tail(todo[w]) \in Seq(Nodes) /\ Len(todo[w]) \in Nat \ {0}
         /\ Len(Tail(todo[w])) = Len(todo[w]) - 1
         /\ \A i \in 1 .. Len(todo[w]) - 1 : Tail(todo[w])[i] = todo[w][i + 1]
         /\ [msg |-> Head(todo[w]).msg, says |-> msg[Head(todo[w]).at]] \in Sends
<1>1. todo[w] \in Seq(Nodes) /\ todo[w] # <<>> /\ \A v \in Workers : msg[v] \in Frames \cup {Garbage}
  BY TypeParts DEF WorkOK, More
<1>2. /\ Head(todo[w]) \in Nodes /\ Head(todo[w]) = todo[w][1]
      /\ Tail(todo[w]) \in Seq(Nodes) /\ Len(todo[w]) \in Nat \ {0}
      /\ Len(Tail(todo[w])) = Len(todo[w]) - 1
      /\ \A i \in 1 .. Len(todo[w]) - 1 : Tail(todo[w])[i] = todo[w][i + 1]
  BY <1>1, HeadTailProperties, EmptySeq
<1>3. Head(todo[w]).msg \in Messages /\ Head(todo[w]).at \in Workers
  BY <1>2 DEF Nodes
<1>4. QED
  BY <1>1, <1>2, <1>3 DEF Sends

\* Every step keeps the type invariant.
LEMMA TypeStep ==
  ASSUME TypeOK, StreamInv, WorkInv, [Next]_vars
  PROVE  TypeOK'
<1> USE DEF netVars, loopVars, poolVars, workVars, mailVars, Goto, Steps
<1>a. NetOK /\ ReadOK /\ LoopOK /\ PoolOK /\ WorkOK /\ MapOK /\ MailOK /\ OutOK /\ up \in BOOLEAN
  BY TypeParts
<1>b. /\ UNCHANGED netVars => NetOK'
      /\ UNCHANGED <<read, sent>> => ReadOK'
      /\ UNCHANGED loopVars => LoopOK'
      /\ UNCHANGED poolVars => PoolOK'
      /\ UNCHANGED workVars => WorkOK'
      /\ UNCHANGED userMap => MapOK'
      /\ UNCHANGED mailVars => MailOK'
      /\ UNCHANGED out => OutOK'
      /\ UNCHANGED up => up' \in BOOLEAN
  BY <1>a DEF NetOK, ReadOK, LoopOK, PoolOK, WorkOK, MapOK, MailOK, OutOK
<1>c. NetOK' /\ ReadOK' /\ LoopOK' /\ PoolOK' /\ WorkOK' /\ MapOK' /\ MailOK' /\ OutOK' /\ up' \in BOOLEAN
        => TypeOK'
  BY DEF TypeOK, NetOK, ReadOK, LoopOK, PoolOK, WorkOK, MapOK, MailOK, OutOK, SocketStates
<1>4. ASSUME NEW c \in Conns, Connect(c) PROVE TypeOK'
  <2>1. NetOK'
    BY <1>4, <1>a DEF Connect, NetOK, SocketStates
  <2>2. QED
    BY <1>4, <1>a, <1>b, <1>c, <2>1 DEF Connect
<1>5. ASSUME NEW c \in Conns, ClientSend(c) PROVE TypeOK'
  <2>1. <<c, sent[c]>> \in Frames
    <3>1. PICK plan \in Plans : sent[c] + left[c] = plan.frames[c]
      BY DEF StreamInv
    <3>2. sent[c] \in Nat /\ sent[c] < plan.frames[c]
      BY <1>5, <1>a, <3>1 DEF ClientSend, NetOK
    <3>3. QED
      BY <3>2, FrameFacts
  <2>2. NetOK'
    BY <1>5, <1>a DEF ClientSend, NetOK
  <2>3. ReadOK'
    <3>1. UNCHANGED read /\ sent' = [sent EXCEPT ![c] = sent[c] + 1] /\ sent[c] \in Nat
      BY <1>5, <1>a DEF ClientSend, NetOK
    <3>2. sent'[c] = sent[c] + 1 /\ \A d \in Conns \ {c} : sent'[d] = sent[d]
      BY <1>a, <3>1 DEF NetOK
    <3>3. read[c] \in Nat /\ read[c] <= sent[c]
      BY <1>a DEF ReadOK
    <3>4. read[c] <= sent'[c] /\ sent'[c] - 1 = sent[c]
      BY <3>1, <3>2, <3>3
    <3>5. QED
      BY <1>a, <2>1, <3>1, <3>2, <3>4 DEF ReadOK
  <2>4. LoopOK'
    BY <1>5, <1>a DEF ClientSend, Arrive, LoopOK
  <2>5. QED
    BY <1>5, <1>a, <1>b, <1>c, <2>2, <2>3, <2>4 DEF ClientSend
<1>6. ASSUME NEW c \in Conns, ClientClose(c) PROVE TypeOK'
  <2>1. NetOK' /\ LoopOK'
    BY <1>6, <1>a DEF ClientClose, Arrive, NetOK, LoopOK, SocketStates
  <2>2. QED
    BY <1>6, <1>a, <1>b, <1>c, <2>1 DEF ClientClose
<1>7. ASSUME NEW c \in Conns, Accept(c) PROVE TypeOK'
  <2>1. LoopOK' /\ up' \in BOOLEAN
    <3>1. CASE spare > 0
      <4>1. spare - 1 \in Nat /\ spare # 0
        BY <1>a, <3>1 DEF LoopOK
      <4>2. accepted' = accepted \cup {c} /\ spare' = spare - 1 /\ UNCHANGED <<ready, up>>
        BY <1>7, <4>1 DEF Accept
      <4>3. QED
        BY <1>a, <4>1, <4>2 DEF LoopOK
    <3>2. CASE spare = 0
      <4>1. accepted' = accepted /\ spare' = spare /\ ready' = ready
        BY <1>7, <3>2 DEF Accept
      <4>2. up' \in BOOLEAN
        BY <1>7, <3>2 DEF Accept
      <4>3. QED
        BY <1>a, <4>1, <4>2 DEF LoopOK
    <3>3. QED
      BY <1>7, <3>1, <3>2 DEF Accept
  <2>2. QED
    BY <1>7, <1>a, <1>b, <1>c, <2>1 DEF Accept
<1>8. ASSUME NEW c \in Conns, Dispatch(c) PROVE TypeOK'
  <2> DEFINE t == <<c, Cardinality(Submitted(c)) + 1>>
  <2>1. Cardinality(Submitted(c)) \in Nat
    BY FS_Subset, FS_CardinalityType DEF StreamInv, Submitted
  <2>2. Cardinality(Submitted(c)) + 1 <= sent[c] + 1
    BY <1>8, <1>a, <2>1 DEF Dispatch, StreamInv, Event, Close, NetOK
  <2>3. t \in Tasks
    <3>1. PICK plan \in Plans : sent[c] + left[c] = plan.frames[c]
      BY DEF StreamInv
    <3>2. Cardinality(Submitted(c)) + 1 <= plan.frames[c] + 1
      BY <1>a, <2>1, <2>2, <3>1 DEF NetOK
    <3>3. QED
      BY <2>1, <3>2, TaskFacts
  <2>4. Append(pending, t) \in Seq(Tasks)
    BY <1>a, <2>3, AppendProperties DEF PoolOK
  <2>5. Pool!Submit(t)
    BY <1>8 DEF Dispatch, AddTask, Submitted
  <2> HIDE DEF t
  <2>6. LoopOK' /\ PoolOK'
    BY <1>8, <1>a, <2>3, <2>4, <2>5 DEF Dispatch, Pool!Submit, LoopOK, PoolOK
  <2>7. QED
    BY <1>8, <1>a, <1>b, <1>c, <2>6 DEF Dispatch
<1>9. ASSUME NEW w \in Workers, Take(w) PROVE TypeOK'
  <2>1. Head(pending) \in Tasks /\ Tail(pending) \in Seq(Tasks)
    BY <1>9, <1>a, HeadTailProperties DEF Take, Pool!Begin, PoolOK
  <2>2. PoolOK' /\ WorkOK'
    BY <1>9, <1>a, <2>1 DEF Take, Pool!Begin, PoolOK, WorkOK
  <2>3. QED
    BY <1>9, <1>a, <1>b, <1>c, <2>2 DEF Take
<1>10. ASSUME NEW w \in Workers, Recv(w) PROVE TypeOK'
  <2>1. Fd(w) \in Conns
    BY <1>10, WorkerFacts DEF Recv
  <2>2. CASE read[Fd(w)] < sent[Fd(w)]
    <3>1. <<Fd(w), read[Fd(w)]>> \in Frames
      <4>1. PICK plan \in Plans : sent[Fd(w)] + left[Fd(w)] = plan.frames[Fd(w)]
        BY <2>1 DEF StreamInv
      <4>2. read[Fd(w)] \in Nat /\ read[Fd(w)] < plan.frames[Fd(w)]
        BY <1>a, <2>1, <2>2, <4>1 DEF NetOK, ReadOK
      <4>3. QED
        BY <2>1, <4>2, FrameFacts
    <3>2. /\ read' = [read EXCEPT ![Fd(w)] = @ + 1]
          /\ msg' = [msg EXCEPT ![w] = <<Fd(w), read[Fd(w)]>>]
      BY <1>10, <1>a, <2>1, <2>2 DEF Recv, NetOK, ReadOK
    <3>3. ReadOK'
      BY <1>10, <1>a, <2>1, <2>2, <3>2 DEF Recv, ReadOK, NetOK
    <3>4. WorkOK'
      BY <1>10, <1>a, <2>2, <3>1, <3>2 DEF Recv, Case, WorkOK
    <3>5. QED
      BY <1>10, <1>a, <1>b, <1>c, <3>3, <3>4 DEF Recv
  <2>3. CASE ~(read[Fd(w)] < sent[Fd(w)])
    <3>1. UNCHANGED read /\ WorkOK'
      BY <1>10, <1>a, <2>3 DEF Recv, WorkOK
    <3>2. QED
      BY <1>10, <1>a, <1>b, <1>c, <3>1 DEF Recv
  <2>4. QED
    BY <2>2, <2>3
<1>11. ASSUME NEW w \in Workers, Login(w) PROVE TypeOK'
  <2>1. MapOK' /\ WorkOK'
    BY <1>11, <1>a, WorkerFacts DEF Login, Online!Enter, MapOK, WorkOK
  <2>2. QED
    BY <1>11, <1>a, <1>b, <1>c, <2>1 DEF Login
<1>12. ASSUME NEW w \in Workers, TakeOff(w) PROVE TypeOK'
  <2>1. User[Fd(w)] \in Users
    BY <1>12, WorkerFacts DEF TakeOff
  <2>2. WorkOK' /\ MailOK'
    <3>1. CASE User[Fd(w)] \in boxes
      <4>1. /\ todo' = [todo EXCEPT ![w] = mail[User[Fd(w)]]]
            /\ mail' = [mail EXCEPT ![User[Fd(w)]] = <<>>]
            /\ pc' = [pc EXCEPT ![w] = "sending"]
            /\ UNCHANGED <<msg, target, boxes>>
        BY <1>12, <3>1 DEF TakeOff, Emptied
      <4>2. MailOK'
        BY <1>a, <2>1, <4>1, EmptySeq DEF MailOK
      <4>3. WorkOK'
        BY <1>a, <2>1, <4>1 DEF MailOK, WorkOK
      <4>4. QED
        BY <4>2, <4>3
    <3>2. CASE User[Fd(w)] \notin boxes
      BY <1>12, <1>a, <3>2 DEF TakeOff, WorkOK, MailOK
    <3>3. QED
      BY <3>1, <3>2
  <2>3. QED
    BY <1>12, <1>a, <1>b, <1>c, <2>2 DEF TakeOff
<1>13. ASSUME NEW w \in Workers, SendOffline(w) PROVE TypeOK'
  <2>1. CASE More(w)
    <3>1. Tail(todo[w]) \in Seq(Nodes)
      BY <2>1, HeadSent
    <3>2. [msg |-> Head(todo[w]).msg, says |-> msg[Head(todo[w]).at]] \in Sends
      BY <2>1, HeadSent
    <3>3. Fd(w) \in Conns
      BY <1>13, WorkerFacts DEF SendOffline
    <3>4. /\ Send(Fd(w), [msg |-> Head(todo[w]).msg, says |-> msg[Head(todo[w]).at]])
          /\ todo' = [todo EXCEPT ![w] = IF up' THEN Tail(@) ELSE @] /\ pc' = pc
      BY <1>13, <2>1 DEF SendOffline
    <3>5. conn' \in [Conns -> SocketStates] /\ OutOK' /\ up' \in BOOLEAN
      BY <1>13, <1>a, <3>2, <3>3, <3>4, SendFacts DEF SendOffline, NetOK, OutOK
    <3>6. NetOK' /\ ReadOK'
      BY <1>13, <1>a, <3>5 DEF SendOffline, NetOK, ReadOK
    <3>7. WorkOK'
      BY <1>13, <1>a, <3>1, <3>4 DEF SendOffline, WorkOK
    <3>8. QED
      BY <1>13, <1>a, <1>b, <1>c, <3>5, <3>6, <3>7 DEF SendOffline
  <2>2. CASE ~More(w)
    <3>1. WorkOK'
      BY <1>13, <1>a, <2>2 DEF SendOffline, WorkOK
    <3>2. QED
      BY <1>13, <1>a, <1>b, <1>c, <2>2, <3>1 DEF SendOffline
  <2>3. QED
    BY <2>1, <2>2
<1>14. ASSUME NEW w \in Workers, Lookup(w) PROVE TypeOK'
  <2>1. WorkOK'
    BY <1>14, <1>a, WorkerFacts DEF Lookup, Sought, Route, WorkOK, MapOK
  <2>2. QED
    BY <1>14, <1>a, <1>b, <1>c, <2>1 DEF Lookup
<1>15. ASSUME NEW w \in Workers, Forward(w) PROVE TypeOK'
  <2>1. target[w] \in Conns /\ [msg |-> msg[w], says |-> msg[w]] \in Sends
    BY <1>15, <1>a, WorkerFacts DEF Forward, WorkInv, WorkOf, WorkOK, Sends
  <2>2. conn' \in [Conns -> SocketStates] /\ OutOK' /\ up' \in BOOLEAN
    BY <1>15, <1>a, <2>1, SendFacts DEF Forward, NetOK, OutOK
  <2>3. NetOK' /\ ReadOK' /\ WorkOK'
    BY <1>15, <1>a, <2>2 DEF Forward, NetOK, ReadOK, WorkOK
  <2>4. QED
    BY <1>15, <1>a, <1>b, <1>c, <2>2, <2>3 DEF Forward
<1>16. ASSUME NEW w \in Workers, Save(w) PROVE TypeOK'
  <2>1. To(msg[w]) \in Users /\ [msg |-> msg[w], at |-> w] \in Nodes
    BY <1>16, WorkerFacts DEF Save, WorkInv, WorkOf, Nodes
  <2>2. Append(mail[To(msg[w])], [msg |-> msg[w], at |-> w]) \in Seq(Nodes)
    BY <1>a, <2>1, AppendProperties DEF MailOK
  <2>3. MailOK' /\ WorkOK' /\ up' \in BOOLEAN
    BY <1>16, <1>a, <2>1, <2>2 DEF Save, MailOK, WorkOK
  <2>4. QED
    BY <1>16, <1>a, <1>b, <1>c, <2>3 DEF Save
<1>17. ASSUME NEW w \in Workers, Return(w) PROVE TypeOK'
  <2>1. WorkOK' /\ PoolOK'
    BY <1>17, <1>a, WorkerFacts DEF Return, Pool!Finish, WorkOK, PoolOK
  <2>2. QED
    BY <1>17, <1>a, <1>b, <1>c, <2>1 DEF Return
<1>18. CASE UNCHANGED vars
  BY <1>18, <1>a, <1>b, <1>c DEF vars
<1>19. QED
  BY <1>4, <1>5, <1>6, <1>7, <1>8, <1>9, <1>10, <1>11, <1>12, <1>13, <1>14, <1>15, <1>16,
     <1>17, <1>18 DEF Next, Handle

\* Every step keeps the account of frames, events and reads of each connection.
LEMMA StreamStep ==
  ASSUME TypeOK, StreamInv, WorkInv, [Next]_vars
  PROVE  StreamInv'
<1> USE DEF netVars, loopVars, poolVars
<1>a. NetOK /\ ReadOK /\ LoopOK /\ PoolOK /\ WorkOK /\ OutOK
  BY TypeParts
<1>b. ASSUME UNCHANGED <<sent, left, submitted, ready>>,
             \A c \in Conns : Gone(c)' <=> Gone(c)
      PROVE  StreamInv'
  BY <1>b DEF StreamInv, Submitted, Event, Close
<1>c. \A c \in Conns : /\ IsFiniteSet(Submitted(c)) /\ Cardinality(Submitted(c)) \in Nat
                       /\ Event(c) \in {0, 1} /\ Close(c) \in {0, 1}
                       /\ sent[c] \in Nat /\ left[c] \in Nat
  BY <1>a, FS_Subset, FS_CardinalityType DEF StreamInv, Submitted, Event, Close, NetOK
<1>4. ASSUME NEW c \in Conns, Connect(c) PROVE StreamInv'
  <2>1. \A d \in Conns : Gone(d)' <=> Gone(d)
    BY <1>4, <1>a DEF Connect, Gone, NetOK
  <2>2. QED
    BY <1>4, <1>b, <2>1 DEF Connect
<1>5. ASSUME NEW c \in Conns, ClientSend(c) PROVE StreamInv'
  <2>1. /\ left' = [left EXCEPT ![c] = @ - 1] /\ sent' = [sent EXCEPT ![c] = @ + 1]
        /\ ready' = ready \cup {c} /\ UNCHANGED <<conn, submitted>>
    BY <1>5 DEF ClientSend, Arrive
  <2>2. \A d \in Conns : sent'[d] + left'[d] = sent[d] + left[d]
    BY <1>a, <1>c, <2>1 DEF NetOK
  <2>3. ASSUME NEW d \in Conns
        PROVE  Cardinality(Submitted(d))' + Event(d)' <= sent'[d] + Close(d)'
    <3>1. Submitted(d)' = Submitted(d) /\ Close(d)' = Close(d)
      BY <2>1 DEF Submitted, Close, Gone
    <3>2. CASE d = c
      <4>1. sent'[d] = sent[d] + 1 /\ Event(d)' \in {0, 1}
        BY <1>a, <2>1, <3>2 DEF NetOK, Event
      <4>2. QED
        BY <1>c, <3>1, <4>1 DEF StreamInv
    <3>3. CASE d # c
      <4>1. sent'[d] = sent[d] /\ Event(d)' = Event(d)
        BY <1>a, <2>1, <3>3 DEF NetOK, Event
      <4>2. QED
        BY <3>1, <4>1 DEF StreamInv
    <3>4. QED
      BY <3>2, <3>3
  <2>4. QED
    BY <2>1, <2>2, <2>3 DEF StreamInv
<1>6. ASSUME NEW c \in Conns, ClientClose(c) PROVE StreamInv'
  <2>1. /\ conn[c] = "open" /\ conn' = [conn EXCEPT ![c] = "closed"]
        /\ ready' = ready \cup {c} /\ UNCHANGED <<sent, left, submitted>>
    BY <1>6 DEF ClientClose, Arrive
  <2>2. ASSUME NEW d \in Conns
        PROVE  Cardinality(Submitted(d))' + Event(d)' <= sent'[d] + Close(d)'
    <3>1. Submitted(d)' = Submitted(d) /\ sent'[d] = sent[d]
      BY <2>1 DEF Submitted
    <3>2. CASE d = c
      <4>1. Close(d) = 0 /\ Close(d)' = 1
        BY <1>a, <2>1, <3>2 DEF Close, Gone, NetOK
      <4>2. Event(d)' \in {0, 1}
        BY DEF Event
      <4>3. QED
        BY <1>c, <3>1, <4>1, <4>2 DEF StreamInv
    <3>3. CASE d # c
      <4>1. Close(d)' = Close(d) /\ Event(d)' = Event(d)
        BY <1>a, <2>1, <3>3 DEF NetOK, Event, Close, Gone
      <4>2. QED
        BY <3>1, <4>1 DEF StreamInv
    <3>4. QED
      BY <3>2, <3>3
  <2>3. QED
    BY <2>1, <2>2 DEF StreamInv
<1>7. ASSUME NEW c \in Conns, Accept(c) PROVE StreamInv'
  BY <1>7, <1>b DEF Accept, Gone
<1>8. ASSUME NEW c \in Conns, Dispatch(c) PROVE StreamInv'
  <2> DEFINE t == <<c, Cardinality(Submitted(c)) + 1>>
  <2>1. /\ c \in ready /\ ready' = ready \ {c} /\ UNCHANGED <<conn, sent, left>>
        /\ t \notin submitted /\ submitted' = submitted \cup {t}
    BY <1>8 DEF Dispatch, AddTask, Submitted, Pool!Submit
  <2>2. t[1] = c
    OBVIOUS
  <2> HIDE DEF t
  <2>3. IsFiniteSet(submitted')
    BY <2>1, FS_AddElement DEF StreamInv
  <2>4. ASSUME NEW d \in Conns
        PROVE  Cardinality(Submitted(d))' + Event(d)' <= sent'[d] + Close(d)'
    <3>1. Close(d)' = Close(d) /\ sent'[d] = sent[d]
      BY <2>1 DEF Close, Gone
    <3>2. CASE d = c
      <4>1. Submitted(d)' = Submitted(d) \cup {t} /\ t \notin Submitted(d)
        BY <2>1, <2>2, <3>2 DEF Submitted
      <4>2. Cardinality(Submitted(d))' = Cardinality(Submitted(d)) + 1
        BY <1>c, <4>1, FS_AddElement
      <4>3. Event(d) = 1 /\ Event(d)' = 0
        BY <2>1, <3>2 DEF Event
      <4>4. QED
        BY <1>c, <3>1, <4>2, <4>3 DEF StreamInv
    <3>3. CASE d # c
      <4>1. Submitted(d)' = Submitted(d) /\ Event(d)' = Event(d)
        BY <2>1, <2>2, <3>3 DEF Submitted, Event
      <4>2. QED
        BY <3>1, <4>1 DEF StreamInv
    <3>4. QED
      BY <3>2, <3>3
  <2>5. QED
    BY <2>1, <2>3, <2>4 DEF StreamInv
<1>9. ASSUME NEW w \in Workers, Take(w) PROVE StreamInv'
  BY <1>9, <1>b DEF Take, Pool!Begin, Gone
<1>10. ASSUME NEW w \in Workers, Recv(w) \/ Login(w) \/ TakeOff(w) \/ Lookup(w) \/ Save(w)
       PROVE  StreamInv'
  BY <1>10, <1>b DEF Recv, Login, TakeOff, Lookup, Save, Gone
<1>11. ASSUME NEW w \in Workers, SendOffline(w) PROVE StreamInv'
  <2>1. CASE More(w)
    <3>1. [msg |-> Head(todo[w]).msg, says |-> msg[Head(todo[w]).at]] \in Sends
      BY <2>1, HeadSent
    <3>2. \A d \in Conns : Gone(d)' <=> Gone(d)
      BY <1>11, <1>a, <2>1, <3>1, WorkerFacts, SendFacts DEF SendOffline, NetOK, OutOK
    <3>3. QED
      BY <1>11, <1>b, <3>2 DEF SendOffline
  <2>2. CASE ~More(w)
    BY <1>11, <1>b, <2>2 DEF SendOffline, Gone
  <2>3. QED
    BY <2>1, <2>2
<1>12. ASSUME NEW w \in Workers, Forward(w) PROVE StreamInv'
  <2>1. target[w] \in Conns /\ [msg |-> msg[w], says |-> msg[w]] \in Sends
    BY <1>12, <1>a, WorkerFacts DEF Forward, WorkInv, WorkOf, WorkOK, Sends
  <2>2. \A d \in Conns : Gone(d)' <=> Gone(d)
    BY <1>12, <1>a, <2>1, SendFacts DEF Forward, NetOK, OutOK
  <2>3. QED
    BY <1>12, <1>b, <2>2 DEF Forward
<1>13. ASSUME NEW w \in Workers, Return(w) PROVE StreamInv'
  BY <1>13, <1>b DEF Return, Pool!Finish, Gone
<1>14. CASE UNCHANGED vars
  BY <1>14, <1>b DEF vars, Gone
<1>15. QED
  BY <1>4, <1>5, <1>6, <1>7, <1>8, <1>9, <1>10, <1>11, <1>12, <1>13, <1>14 DEF Next, Handle

\* The first login of a name stays: the user map only grows.
LEMMA MapGrows ==
  ASSUME TypeOK, WorkInv, [Next]_vars
  PROVE  \A u \in Users : userMap[u] # NoConn => userMap'[u] = userMap[u]
<1> USE DEF netVars, loopVars, poolVars, workVars, mailVars
<1>1. userMap \in [Users -> Conns \cup {NoConn}]
  BY TypeParts DEF MapOK
<1>2. ASSUME NEW w \in Workers, Login(w)
      PROVE  \A u \in Users : userMap[u] # NoConn => userMap'[u] = userMap[u]
  BY <1>1, <1>2 DEF Login, Online!Enter
<1>3. ASSUME \/ \E c \in Conns : Connect(c) \/ ClientSend(c) \/ ClientClose(c) \/ Accept(c) \/ Dispatch(c)
             \/ \E w \in Workers : \/ Take(w) \/ Recv(w) \/ TakeOff(w) \/ SendOffline(w)
                                  \/ Lookup(w) \/ Forward(w) \/ Save(w) \/ Return(w)
      PROVE  UNCHANGED userMap
  BY <1>3 DEF Connect, ClientSend, ClientClose, Accept, Dispatch, Take, Recv, TakeOff, SendOffline,
              Lookup, Forward, Save, Return
<1>4. CASE UNCHANGED vars
  BY <1>4 DEF vars
<1>5. QED
  BY <1>2, <1>3, <1>4 DEF Next, Handle

\* Nothing that was read is put back.
LEMMA ReadGrows ==
  ASSUME TypeOK, WorkInv, [Next]_vars
  PROVE  \A c \in Conns : read'[c] \in Nat /\ read[c] <= read'[c]
<1> USE DEF netVars, loopVars, poolVars, workVars, mailVars
<1>1. read \in [Conns -> Nat]
  BY TypeParts DEF ReadOK
<1>2. ASSUME NEW w \in Workers, Recv(w)
      PROVE  \A c \in Conns : read'[c] \in Nat /\ read[c] <= read'[c]
  BY <1>1, <1>2 DEF Recv
<1>3. ASSUME \/ \E c \in Conns : Connect(c) \/ ClientSend(c) \/ ClientClose(c) \/ Accept(c) \/ Dispatch(c)
             \/ \E w \in Workers : \/ Take(w) \/ Login(w) \/ TakeOff(w) \/ SendOffline(w)
                                  \/ Lookup(w) \/ Forward(w) \/ Save(w) \/ Return(w)
      PROVE  UNCHANGED read
  BY <1>3 DEF Connect, ClientSend, ClientClose, Accept, Dispatch, Take, Login, TakeOff, SendOffline,
              Lookup, Forward, Save, Return
<1>4. ASSUME UNCHANGED vars PROVE UNCHANGED read
  BY <1>4 DEF vars
<1>5. QED
  BY <1>1, <1>2, <1>3, <1>4 DEF Next, Handle

\* Every step leaves every worker with what its place in the handler says.
LEMMA WorkStep ==
  ASSUME TypeOK, TypeOK', WorkInv, [Next]_vars
  PROVE  WorkInv'
<1> USE DEF netVars, loopVars, poolVars, workVars, mailVars
<1>a. /\ ReadOK /\ PoolOK /\ WorkOK /\ MapOK
      /\ \A v \in Workers : WorkOf(v)
  BY TypeParts DEF WorkInv
<1>b. ASSUME NEW v \in Workers, pc'[v] = pc[v], running'[v] = running[v], msg'[v] = msg[v],
             target'[v] = target[v], todo'[v] = todo[v]
      PROVE  WorkOf(v)'
  <2>1. pc[v] # "idle" => read'[Fd(v)] \in Nat /\ read[Fd(v)] \in Nat /\ read[Fd(v)] <= read'[Fd(v)]
    BY <1>a, WorkerFacts, ReadGrows DEF ReadOK
  <2>2. \A u \in Users : userMap[u] # NoConn => userMap'[u] = userMap[u]
    BY MapGrows
  <2>3. pc[v] # "idle" => User[Fd(v)] \in Users
    BY WorkerFacts
  <2>4. pc[v] = "forward" => To(msg[v]) \in Users
    BY WorkerFacts
  <2>5. Fd(v)' = Fd(v)
    BY <1>b DEF Fd
  <2>6. QED
    BY <1>a, <1>b, <2>1, <2>2, <2>3, <2>4, <2>5 DEF WorkOf
<1>c. ASSUME UNCHANGED <<pc, running, msg, target, todo>> PROVE WorkInv'
  BY <1>b, <1>c DEF WorkInv
<1>4. ASSUME NEW c \in Conns, Connect(c) \/ ClientSend(c) \/ ClientClose(c) \/ Accept(c) \/ Dispatch(c)
      PROVE  WorkInv'
  BY <1>4, <1>c DEF Connect, ClientSend, ClientClose, Accept, Dispatch, AddTask, Pool!Submit
<1>5. ASSUME NEW w \in Workers, Handle(w),
             \A v \in Workers \ {w} : /\ pc'[v] = pc[v] /\ running'[v] = running[v] /\ msg'[v] = msg[v]
                                      /\ target'[v] = target[v] /\ todo'[v] = todo[v],
             WorkOf(w)'
      PROVE  WorkInv'
  BY <1>b, <1>5 DEF WorkInv
<1> DEFINE Others(w) ==
      \A v \in Workers \ {w} : /\ pc'[v] = pc[v] /\ running'[v] = running[v] /\ msg'[v] = msg[v]
                              /\ target'[v] = target[v] /\ todo'[v] = todo[v]
<1>6. ASSUME NEW w \in Workers, Take(w) PROVE Others(w) /\ WorkOf(w)'
  BY <1>6, <1>a, TaskFacts, HeadTailProperties DEF Take, Pool!Begin, Goto, WorkOf, PoolOK, WorkOK
<1>7. ASSUME NEW w \in Workers, Recv(w) PROVE Others(w) /\ WorkOf(w)'
  <2>1. Fd(w) \in Conns /\ read[Fd(w)] \in Nat /\ Fd(w)' = Fd(w)
    BY <1>7, <1>a, WorkerFacts DEF Recv, ReadOK, Fd
  <2>2. CASE read[Fd(w)] < sent[Fd(w)]
    <3>1. /\ read'[Fd(w)] = read[Fd(w)] + 1 /\ msg' = [msg EXCEPT ![w] = <<Fd(w), read[Fd(w)]>>]
          /\ pc' = [pc EXCEPT ![w] = IF read[Fd(w)] = 0 THEN "login" ELSE "lookup"]
          /\ UNCHANGED <<running, target, todo>>
      BY <1>7, <1>a, <2>1, <2>2 DEF Recv, ReadOK, Goto, Case
    <3>2. read[Fd(w)] # 0 => msg'[w] \in Messages
      <4>1. msg'[w] = <<Fd(w), read[Fd(w)]>> /\ msg'[w] # Garbage
        BY <1>a, <2>1, <3>1, ServerAssumption DEF WorkOK
      <4>2. msg'[w] \in Frames \cup {Garbage}
        BY DEF TypeOK
      <4>3. QED
        BY <4>1, <4>2 DEF Messages
    <3>3. QED
      BY <1>7, <1>a, <2>1, <3>1, <3>2 DEF Recv, WorkOf, WorkOK
  <2>3. CASE ~(read[Fd(w)] < sent[Fd(w)])
    BY <1>7, <1>a, <2>3 DEF Recv, Goto, WorkOf, WorkOK
  <2>4. QED
    BY <2>2, <2>3
<1>8. ASSUME NEW w \in Workers, Login(w) PROVE Others(w) /\ WorkOf(w)'
  BY <1>8, <1>a, WorkerFacts, ServerAssumption DEF Login, Online!Enter, Goto, WorkOf, WorkOK, MapOK, Fd
<1>9. ASSUME NEW w \in Workers, TakeOff(w) PROVE Others(w) /\ WorkOf(w)'
  BY <1>9, <1>a DEF TakeOff, Goto, WorkOf, WorkOK, Fd
<1>10. ASSUME NEW w \in Workers, SendOffline(w) PROVE Others(w) /\ WorkOf(w)'
  <2>1. CASE More(w)
    BY <1>10, <1>a, <2>1 DEF SendOffline, WorkOf, WorkOK, Fd
  <2>2. CASE ~More(w)
    BY <1>10, <1>a, <2>2 DEF SendOffline, More, Goto, WorkOf, WorkOK, Fd
  <2>3. QED
    BY <2>1, <2>2
<1>11. ASSUME NEW w \in Workers, Lookup(w) PROVE Others(w) /\ WorkOf(w)'
  BY <1>11, <1>a DEF Lookup, Sought, Route, Goto, WorkOf, WorkOK, Fd
<1>12. ASSUME NEW w \in Workers, Forward(w) \/ Save(w) PROVE Others(w) /\ WorkOf(w)'
  BY <1>12, <1>a DEF Forward, Save, Goto, WorkOf, WorkOK, Fd
<1>13. ASSUME NEW w \in Workers, Return(w) PROVE Others(w) /\ WorkOf(w)'
  BY <1>13, <1>a DEF Return, Pool!Finish, Goto, WorkOf, WorkOK, PoolOK
<1>14. CASE UNCHANGED vars
  BY <1>14, <1>c DEF vars
<1>15. QED
  BY <1>4, <1>5, <1>6, <1>7, <1>8, <1>9, <1>10, <1>11, <1>12, <1>13, <1>14 DEF Next, Handle

Core == TypeOK /\ StreamInv /\ WorkInv

\* The server starts with every invariant true, whatever the plan.
LEMMA CoreInit == Init => Core
<1> SUFFICES ASSUME Init PROVE Core
  OBVIOUS
<1>1. PICK plan \in Plans : left = plan.frames /\ spare = plan.sockets
  BY DEF Init
<1>2. left \in [Conns -> Nat] /\ spare \in Nat
  BY <1>1, ServerAssumption
<1>3. TypeOK
  BY <1>2, EmptySeq, ServerAssumption DEF Init, TypeOK, Steps
<1>4. StreamInv
  <2>1. \A c \in Conns : Submitted(c) = {} /\ Event(c) = 0 /\ Close(c) = 0 /\ sent[c] = 0
    BY DEF Init, Submitted, Event, Close, Gone
  <2>2. \A c \in Conns : sent[c] + left[c] = plan.frames[c]
    BY <1>1, <1>2, <2>1
  <2>3. \A c \in Conns : Cardinality(Submitted(c)) + Event(c) <= sent[c] + Close(c)
    BY <2>1, FS_EmptySet
  <2>4. IsFiniteSet(submitted)
    BY FS_EmptySet DEF Init
  <2>5. QED
    BY <2>2, <2>3, <2>4 DEF StreamInv
<1>5. WorkInv
  BY DEF Init, WorkInv, WorkOf
<1>6. QED
  BY <1>3, <1>4, <1>5 DEF Core

\* Every variable keeps its type, a worker's hands hold what its place in
\* handle_msg_task says, and an event is never dispatched more often than it
\* was raised, whatever is read, merged or cut short by a client that leaves.
THEOREM TypeCorrect == Spec => [](TypeOK /\ StreamInv /\ WorkInv)
<1>1. Init => Core
  BY CoreInit
<1>2. Core /\ [Next]_vars => Core'
  BY TypeStep, StreamStep, WorkStep DEF Core
<1>3. Core => TypeOK /\ StreamInv /\ WorkInv
  BY DEF Core
<1>4. QED
  BY <1>1, <1>2, <1>3, PTL DEF Spec

--------------------------------------------------------------------------------
(* Events and unread frames                                                *)

\* Every step keeps the account of the tasks that are waiting or being served.
LEMMA TaskStep ==
  ASSUME Core, TaskInv, [Next]_vars
  PROVE  TaskInv'
<1> USE DEF netVars, loopVars, poolVars, workVars, mailVars
<1>a. PoolOK
  BY TypeParts DEF Core
<1>b. ASSUME UNCHANGED poolVars PROVE TaskInv'
  BY <1>b DEF TaskInv
<1>1. ASSUME NEW c \in Conns, Dispatch(c) PROVE TaskInv'
  <2>1. PICK t : Pool!Submit(t)
    BY <1>1 DEF Dispatch, AddTask
  <2>2. t \in Tasks
    <3>1. submitted' \subseteq Tasks
      BY <1>1, TypeStep DEF Core, TypeOK
    <3>2. QED
      BY <2>1, <3>1 DEF Pool!Submit
  <2>3. \A i \in 1 .. Len(pending') : pending'[i] \in submitted'
    <3>1. /\ Len(pending) \in Nat /\ Len(pending') = Len(pending) + 1
          /\ pending'[Len(pending) + 1] = t
          /\ \A i \in 1 .. Len(pending) : pending'[i] = pending[i]
      BY <1>a, <2>1, <2>2, AppendProperties, LenProperties DEF Pool!Submit, PoolOK
    <3>2. QED
      BY <2>1, <3>1 DEF Pool!Submit, TaskInv
  <2>4. QED
    BY <2>1, <2>3 DEF Pool!Submit, TaskInv
<1>2. ASSUME NEW w \in Workers, Take(w) PROVE TaskInv'
  <2>1. /\ Head(pending) = pending[1] /\ Len(pending) \in Nat \ {0}
        /\ Len(Tail(pending)) = Len(pending) - 1
        /\ \A i \in 1 .. Len(pending) - 1 : Tail(pending)[i] = pending[i + 1]
    BY <1>2, <1>a, HeadTailProperties, EmptySeq DEF Take, Pool!Begin, PoolOK
  <2>2. QED
    BY <1>2, <1>a, <2>1 DEF Take, Pool!Begin, TaskInv, PoolOK
<1>3. ASSUME NEW w \in Workers, Return(w) PROVE TaskInv'
  BY <1>3, <1>a DEF Return, Pool!Finish, TaskInv, PoolOK
<1>4. ASSUME \/ \E c \in Conns : Connect(c) \/ ClientSend(c) \/ ClientClose(c) \/ Accept(c)
             \/ \E w \in Workers : \/ Recv(w) \/ Login(w) \/ TakeOff(w) \/ SendOffline(w)
                                  \/ Lookup(w) \/ Forward(w) \/ Save(w)
      PROVE  UNCHANGED poolVars
  BY <1>4 DEF Connect, ClientSend, ClientClose, Accept, Recv, Login, TakeOff, SendOffline, Lookup,
              Forward, Save
<1>5. ASSUME UNCHANGED vars PROVE UNCHANGED poolVars
  BY <1>5 DEF vars
<1>6. QED
  BY <1>b, <1>1, <1>2, <1>3, <1>4, <1>5 DEF Next, Handle

\* The tasks that will still call recv stay the same when nobody comes to its
\* recv or past it and no task is added or ends.
LEMMA RecvsSame ==
  ASSUME UNCHANGED <<submitted, done, running>>,
         \A w \in Workers : pc[w] = "recv" <=> pc'[w] = "recv"
  PROVE  \A c \in Conns : Recvs(c)' = Recvs(c)
BY DEF Recvs

\* Every step leaves for each unread frame an event, a task, a read under way
\* or a merged event.
LEMMA UnreadStep ==
  ASSUME Core, TaskInv, \A c \in Conns : UnreadOf(c), [Next]_vars
  PROVE  \A c \in Conns : UnreadOf(c)'
<1> USE DEF netVars, loopVars, poolVars, workVars, mailVars
<1>a. NetOK /\ ReadOK /\ PoolOK /\ WorkOK
  BY TypeParts DEF Core
<1>b. \A d \in Conns : /\ IsFiniteSet(Recvs(d)) /\ Cardinality(Recvs(d)) \in Nat
                       /\ Event(d) \in {0, 1} /\ sent[d] \in Nat /\ read[d] \in Nat /\ missed[d] \in Nat
                       /\ read[d] <= sent[d]
  BY <1>a, FS_Subset, FS_CardinalityType DEF Core, StreamInv, Recvs, Event, NetOK, ReadOK
<1>c. ASSUME UNCHANGED <<sent, read, missed, ready>>, \A c \in Conns : Recvs(c)' = Recvs(c)
      PROVE  \A c \in Conns : UnreadOf(c)'
  BY <1>c DEF UnreadOf, Event
<1>1. ASSUME NEW c \in Conns, Connect(c) \/ Accept(c) PROVE \A d \in Conns : UnreadOf(d)'
  BY <1>1, <1>c, RecvsSame DEF Connect, Accept
<1>2. ASSUME NEW c \in Conns, ClientSend(c) PROVE \A d \in Conns : UnreadOf(d)'
  <2>1. /\ sent' = [sent EXCEPT ![c] = @ + 1] /\ ready' = ready \cup {c}
        /\ missed' = [missed EXCEPT ![c] = IF c \in ready THEN @ + 1 ELSE @] /\ UNCHANGED read
    BY <1>2 DEF ClientSend, Arrive
  <2>2. \A d \in Conns : Recvs(d)' = Recvs(d)
    BY <1>2, RecvsSame DEF ClientSend
  <2>3. ASSUME NEW d \in Conns PROVE UnreadOf(d)'
    <3>1. CASE d = c
      <4>1. sent'[d] = sent[d] + 1 /\ missed'[d] + Event(d)' = missed[d] + Event(d) + 1
        BY <1>a, <1>b, <2>1, <3>1 DEF NetOK, Event
      <4>2. missed'[d] \in Nat /\ Event(d)' \in {0, 1}
        BY <1>b, <1>a, <2>1 DEF NetOK, Event
      <4>3. UnreadOf(d)
        OBVIOUS
      <4>4. QED
        BY <1>b, <2>1, <2>2, <4>1, <4>2, <4>3 DEF UnreadOf
    <3>2. CASE d # c
      <4>1. sent'[d] = sent[d] /\ missed'[d] = missed[d] /\ Event(d)' = Event(d)
        BY <1>a, <2>1, <3>2 DEF NetOK, Event
      <4>2. QED
        BY <2>1, <2>2, <4>1 DEF UnreadOf
    <3>3. QED
      BY <3>1, <3>2
  <2>4. QED
    BY <2>3
<1>3. ASSUME NEW c \in Conns, ClientClose(c) PROVE \A d \in Conns : UnreadOf(d)'
  <2>1. ready' = ready \cup {c} /\ UNCHANGED <<sent, missed, read>>
    BY <1>3 DEF ClientClose, Arrive
  <2>2. \A d \in Conns : Recvs(d)' = Recvs(d)
    BY <1>3, RecvsSame DEF ClientClose
  <2>3. \A d \in Conns : Event(d)' \in {0, 1} /\ Event(d) <= Event(d)'
    BY <2>1 DEF Event
  <2>4. QED
    BY <1>b, <2>1, <2>2, <2>3 DEF UnreadOf
<1>4. ASSUME NEW c \in Conns, Dispatch(c) PROVE \A d \in Conns : UnreadOf(d)'
  <2> DEFINE t == <<c, Cardinality(Submitted(c)) + 1>>
  <2>1. /\ c \in ready /\ ready' = ready \ {c} /\ UNCHANGED <<sent, missed, read, running, done, pc>>
        /\ t \notin submitted /\ submitted' = submitted \cup {t}
    BY <1>4 DEF Dispatch, AddTask, Submitted, Pool!Submit
  <2>2. t[1] = c /\ t # NoTask
    <3>1. submitted' \subseteq Tasks
      BY <1>4, TypeStep DEF Core, TypeOK
    <3>2. QED
      BY <2>1, <3>1, TaskFacts
  <2> HIDE DEF t
  <2>3. t \notin done /\ \A w \in Workers : running[w] # t
    BY <2>1, <2>2 DEF TaskInv
  <2>4. ASSUME NEW d \in Conns PROVE UnreadOf(d)'
    <3>1. CASE d = c
      <4>1. Recvs(d)' = Recvs(d) \cup {t} /\ t \notin Recvs(d)
        BY <2>1, <2>2, <2>3, <3>1 DEF Recvs
      <4>2. Cardinality(Recvs(d))' = Cardinality(Recvs(d)) + 1
        BY <1>b, <4>1, FS_AddElement
      <4>3. Event(d) = 1 /\ Event(d)' = 0
        BY <2>1, <3>1 DEF Event
      <4>4. UnreadOf(d)
        OBVIOUS
      <4>5. QED
        BY <1>b, <2>1, <4>2, <4>3, <4>4 DEF UnreadOf
    <3>2. CASE d # c
      <4>1. Recvs(d)' = Recvs(d) /\ Event(d)' = Event(d)
        BY <2>1, <2>2, <3>2 DEF Recvs, Event
      <4>2. QED
        BY <2>1, <4>1 DEF UnreadOf
    <3>3. QED
      BY <3>1, <3>2
  <2>5. QED
    BY <2>4
<1>5. ASSUME NEW w \in Workers, Take(w) PROVE \A d \in Conns : UnreadOf(d)'
  <2>1. /\ running[w] = NoTask /\ pc[w] = "idle" /\ pc' = [pc EXCEPT ![w] = "recv"]
        /\ \A v \in Workers \ {w} : running'[v] = running[v]
        /\ UNCHANGED <<submitted, done, sent, read, missed, ready>>
    BY <1>5, <1>a DEF Take, Pool!Begin, Goto, PoolOK
  <2>2. NoTask \notin submitted
    BY <1>a, TaskFacts DEF PoolOK
  <2>3. \A t \in submitted : (\E v \in Workers : pc[v] # "recv" /\ running[v] = t)
                            <=> (\E v \in Workers : pc'[v] # "recv" /\ running'[v] = t)
    <3>1. pc'[w] = "recv" /\ \A v \in Workers \ {w} : pc'[v] = pc[v]
      BY <1>a, <2>1 DEF WorkOK
    <3>2. QED
      BY <2>1, <2>2, <3>1
  <2>4. \A d \in Conns : Recvs(d)' = Recvs(d)
    <3> SUFFICES ASSUME NEW d \in Conns PROVE Recvs(d)' = Recvs(d)
      OBVIOUS
    <3>1. \A t : t \in Recvs(d) <=> /\ t \in submitted \ done /\ t[1] = d
                                   /\ ~ \E v \in Workers : pc[v] # "recv" /\ running[v] = t
      BY DEF Recvs
    <3>2. \A t : t \in Recvs(d)' <=> /\ t \in submitted \ done /\ t[1] = d
                                    /\ ~ \E v \in Workers : pc'[v] # "recv" /\ running'[v] = t
      BY <2>1 DEF Recvs
    <3>3. \A t : t \in Recvs(d)' <=> t \in Recvs(d)
      BY <2>3, <3>1, <3>2
    <3>4. QED
      BY <3>3
  <2>5. QED
    BY <1>c, <2>1, <2>4
<1>6. ASSUME NEW w \in Workers, Recv(w) PROVE \A d \in Conns : UnreadOf(d)'
  <2>1. /\ pc[w] = "recv" /\ pc'[w] # "recv" /\ \A v \in Workers \ {w} : pc'[v] = pc[v]
        /\ UNCHANGED <<submitted, done, running, sent, missed, ready>>
    BY <1>6, <1>a DEF Recv, Goto, Case, WorkOK
  <2>2. \A d \in Conns : Recvs(d)' = Recvs(d) \ {running[w]}
    BY <2>1 DEF Recvs
  <2>3. running[w] \in Tasks /\ running[w][1] = Fd(w) /\ Fd(w) \in Conns
    BY <2>1, WorkerFacts DEF Core, Fd
  <2>4. ASSUME NEW d \in Conns PROVE UnreadOf(d)'
    <3>1. CASE d = Fd(w)
      <4>1. Cardinality(Recvs(d))' \in Nat /\ Cardinality(Recvs(d))' + 1 >= Cardinality(Recvs(d))
        <5>1. Cardinality(Recvs(d))' = Cardinality(Recvs(d) \ {running[w]})
          BY <2>2
        <5>2. CASE running[w] \in Recvs(d)
          <6>1. Cardinality(Recvs(d) \ {running[w]}) = Cardinality(Recvs(d)) - 1
            BY <1>b, <5>2, FS_RemoveElement
          <6>2. Cardinality(Recvs(d) \ {running[w]}) \in Nat
            BY <1>b, FS_RemoveElement, FS_CardinalityType
          <6>3. QED
            BY <1>b, <5>1, <6>1, <6>2
        <5>3. CASE running[w] \notin Recvs(d)
          <6>1. Recvs(d) \ {running[w]} = Recvs(d)
            BY <5>3
          <6>2. QED
            BY <1>b, <5>1, <6>1
        <5>4. QED
          BY <5>2, <5>3
      <4>2. Event(d)' = Event(d)
        BY <2>1 DEF Event
      <4>3. CASE read[d] < sent[d]
        <5>1. read'[d] = read[d] + 1
          BY <1>6, <1>a, <1>b, <3>1, <4>3 DEF Recv, ReadOK
        <5>2. UnreadOf(d)
          OBVIOUS
        <5>3. QED
          BY <1>b, <2>1, <4>1, <4>2, <5>1, <5>2 DEF UnreadOf
      <4>4. CASE read[d] = sent[d]
        <5>1. read'[d] = read[d]
          BY <1>6, <1>a, <1>b, <3>1, <4>4 DEF Recv, ReadOK
        <5>2. QED
          BY <1>b, <2>1, <4>1, <4>2, <4>4, <5>1 DEF UnreadOf
      <4>5. QED
        BY <1>b, <4>3, <4>4
    <3>2. CASE d # Fd(w)
      <4>1. Recvs(d)' = Recvs(d) /\ Event(d)' = Event(d)
        BY <2>1, <2>2, <2>3, <3>2 DEF Recvs, Event
      <4>2. read'[d] = read[d]
        BY <1>6, <1>a, <3>2 DEF Recv, ReadOK
      <4>3. QED
        BY <2>1, <4>1, <4>2 DEF UnreadOf
    <3>3. QED
      BY <3>1, <3>2
  <2>5. QED
    BY <2>4
<1>7. ASSUME NEW w \in Workers, \/ Login(w) \/ TakeOff(w) \/ SendOffline(w) \/ Lookup(w)
                               \/ Forward(w) \/ Save(w)
      PROVE  \A d \in Conns : UnreadOf(d)'
  <2>1. /\ pc[w] # "recv" /\ pc'[w] # "recv" /\ \A v \in Workers \ {w} : pc'[v] = pc[v]
        /\ UNCHANGED <<submitted, done, running, sent, read, missed, ready>>
    BY <1>7, <1>a DEF Login, TakeOff, SendOffline, Lookup, Route, Forward, Save, Goto, WorkOK
  <2>2. QED
    BY <1>c, <2>1, RecvsSame
<1>8. ASSUME NEW w \in Workers, Return(w) PROVE \A d \in Conns : UnreadOf(d)'
  <2>1. /\ pc[w] = "return" /\ pc' = [pc EXCEPT ![w] = "idle"]
        /\ running' = [running EXCEPT ![w] = NoTask] /\ done' = done \cup {running[w]}
        /\ UNCHANGED <<submitted, sent, read, missed, ready>>
    BY <1>8 DEF Return, Pool!Finish, Goto
  <2>2. NoTask \notin submitted
    BY <1>a, TaskFacts DEF PoolOK
  <2>3. \A d \in Conns : Recvs(d)' = Recvs(d)
    BY <1>a, <2>1, <2>2 DEF Recvs, WorkOK, PoolOK
  <2>4. QED
    BY <1>c, <2>1, <2>3
<1>9. ASSUME UNCHANGED vars PROVE \A d \in Conns : UnreadOf(d)'
  BY <1>9, <1>c, RecvsSame DEF vars
<1>10. QED
  BY <1>1, <1>2, <1>3, <1>4, <1>5, <1>6, <1>7, <1>8, <1>9 DEF Next, Handle

\* A frame stays unread with no event and no task left for it only if its
\* arrival was merged with an event not yet reported (UnreadWasMerged,
\* gw_connection.c:90, logic_service.c:375).
THEOREM UnreadOnlyIfMerged == Spec => []UnreadWasMerged
<1> DEFINE Unread == \A c \in Conns : UnreadOf(c)
<1>1. Init => TaskInv /\ Unread
  <2> SUFFICES ASSUME Init PROVE TaskInv /\ Unread
    OBVIOUS
  <2>1. TaskInv
    BY DEF Init, TaskInv
  <2>2. \A c \in Conns : Recvs(c) = {} /\ Event(c) = 0 /\ sent[c] = 0 /\ read[c] = 0 /\ missed[c] = 0
    BY DEF Init, Recvs, Event
  <2>3. QED
    BY <2>1, <2>2, FS_EmptySet DEF UnreadOf
<1>2. Core /\ TaskInv /\ Unread /\ [Next]_vars => TaskInv' /\ Unread'
  BY TaskStep, UnreadStep
<1>3. Unread => UnreadWasMerged
  BY DEF UnreadOf, Event, UnreadWasMerged
<1>4. TypeOK /\ StreamInv /\ WorkInv => Core
  BY DEF Core
<1>5. QED
  BY <1>1, <1>2, <1>3, <1>4, TypeCorrect, PTL DEF Spec

================================================================================
