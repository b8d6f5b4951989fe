--------------------------- MODULE ChatDeliveryProofs --------------------------
(* Theorems about where a message is: with a worker, in a mailbox, in a    *)
(* queue taken off one, or handed to a client.                             *)
EXTENDS ChatServerProofs

--------------------------------------------------------------------------------
(* The inductive invariants                                                *)

\* Mail is filed under its addressee and taken off by one, and a mailbox that
\* was emptied belongs to somebody who is online.
MailInv ==
  /\ \A u \in Users : \A i \in DOMAIN mail[u] : To(mail[u][i].msg) = u
  /\ \A w \in Workers : \A i \in DOMAIN todo[w] : To(todo[w][i].msg) = User[Fd(w)]
  /\ \A u \in Users : u \notin boxes => mail[u] = <<>>
  /\ \A u \in boxes : mail[u] = <<>> => userMap[u] # NoConn

\* OnePlace of one message without cardinalities, and what of it outlives the
\* process.
Single(S) == \A x, y \in S : x = y
PlaceOf(m) ==
  /\ Single(InHand(m)) /\ Single(InMail(m)) /\ Single(InTodo(m)) /\ Single(InOut(m))
  /\ InHand(m) # {} => InMail(m) = {} /\ InTodo(m) = {} /\ InOut(m) = {}
  /\ InMail(m) # {} => InTodo(m) = {} /\ InOut(m) = {}
  /\ InTodo(m) # {} => InOut(m) = {}
  /\ ~Taken(m) => InHand(m) = {} /\ InMail(m) = {} /\ InTodo(m) = {} /\ InOut(m) = {}
  /\ up /\ Taken(m) =>
       ~ (InHand(m) = {} /\ InMail(m) = {} /\ InTodo(m) = {} /\ InOut(m) = {})
PlaceInv == \A m \in Messages : PlaceOf(m)

--------------------------------------------------------------------------------
(* The places of a message in the sequences of a function                  *)

\* The i-th of f[a] is for m.
At(f, m, a, i) == a \in DOMAIN f /\ i \in DOMAIN f[a] /\ f[a][i].msg = m

\* Holding by its elements.
LEMMA HoldingPlaces ==
  ASSUME NEW f, NEW m
  PROVE  /\ \A a, i : <<a, i>> \in Holding(f, m) <=> At(f, m, a, i)
         /\ \A x \in Holding(f, m) : x = <<x[1], x[2]>>
<1>1. \A x : x \in Holding(f, m) <=> \E a \in DOMAIN f : x \in {a} \X {i \in DOMAIN f[a] : f[a][i].msg = m}
  BY DEF Holding
<1>2. QED
  BY <1>1 DEF At

\* A set of pairs that has those elements is Holding.
LEMMA HoldingIs ==
  ASSUME NEW f, NEW m, NEW S, \A x \in S : x = <<x[1], x[2]>>,
         \A a, i : <<a, i>> \in S <=> At(f, m, a, i)
  PROVE  Holding(f, m) = S
<1>1. \A x \in S : x \in Holding(f, m)
  BY HoldingPlaces
<1>2. \A x \in Holding(f, m) : x \in S
  BY HoldingPlaces
<1>3. QED
  BY <1>1, <1>2

\* g is f with t appended to the sequence of a.
Appends(A, T, f, a, t, g) ==
  f \in [A -> Seq(T)] /\ a \in A /\ t \in T /\ g = [f EXCEPT ![a] = Append(@, t)]

\* Something appended is a place of its own message only.
LEMMA HoldingAppend ==
  ASSUME NEW A, NEW T, NEW f, NEW a, NEW t, NEW g, NEW m, Appends(A, T, f, a, t, g)
  PROVE  /\ t.msg # m => Holding(g, m) = Holding(f, m)
         /\ t.msg = m => Holding(g, m) = Holding(f, m) \cup {<<a, Len(f[a]) + 1>>}
<1>a. f \in [A -> Seq(T)] /\ a \in A /\ t \in T /\ g = [f EXCEPT ![a] = Append(@, t)]
  BY DEF Appends
<1>1. /\ Len(f[a]) \in Nat /\ DOMAIN f[a] = 1 .. Len(f[a])
      /\ DOMAIN g[a] = 1 .. Len(f[a]) + 1 /\ g[a][Len(f[a]) + 1] = t
      /\ \A i \in 1 .. Len(f[a]) : g[a][i] = f[a][i]
  BY <1>a, AppendProperties, LenProperties
<1>2. DOMAIN f = A /\ DOMAIN g = A /\ a \in A /\ \A b \in A \ {a} : g[b] = f[b]
  BY <1>a
<1>3. \A b, i : At(g, m, b, i) <=> At(f, m, b, i) \/ (t.msg = m /\ b = a /\ i = Len(f[a]) + 1)
  BY <1>1, <1>2 DEF At
<1> DEFINE new == IF t.msg = m THEN {<<a, Len(f[a]) + 1>>} ELSE {}
<1>4. \A b, i : <<b, i>> \in new <=> t.msg = m /\ b = a /\ i = Len(f[a]) + 1
  OBVIOUS
<1> HIDE DEF new
<1>5. \A b, i : <<b, i>> \in Holding(f, m) \cup new <=> At(g, m, b, i)
  BY <1>3, <1>4, HoldingPlaces
<1>6. \A x \in Holding(f, m) \cup new : x = <<x[1], x[2]>>
  BY HoldingPlaces DEF new
<1>7. Holding(g, m) = Holding(f, m) \cup new
  BY <1>5, <1>6, HoldingIs
<1>8. QED
  BY <1>7 DEF new

\* g is f with the sequence s for a, which had none.
Puts(f, a, s, g) == a \in DOMAIN f /\ f[a] = <<>> /\ g = [f EXCEPT ![a] = s]

\* Putting a sequence where there was none adds its places.
LEMMA HoldingPut ==
  ASSUME NEW f, NEW a, NEW s, NEW g, NEW m, Puts(f, a, s, g)
  PROVE  Holding(g, m) = Holding(f, m) \cup {<<a, i>> : i \in {j \in DOMAIN s : s[j].msg = m}}
<1>1. /\ a \in DOMAIN f /\ f[a] = <<>>
      /\ DOMAIN g = DOMAIN f /\ g[a] = s /\ \A b \in DOMAIN f \ {a} : g[b] = f[b]
  BY DEF Puts
<1>2. \A b, i : At(g, m, b, i) <=> At(f, m, b, i) \/ (b = a /\ i \in DOMAIN s /\ s[i].msg = m)
  BY <1>1 DEF At
<1> DEFINE new == {<<a, i>> : i \in {j \in DOMAIN s : s[j].msg = m}}
<1>3. \A b, i : <<b, i>> \in new <=> b = a /\ i \in DOMAIN s /\ s[i].msg = m
  OBVIOUS
<1>4. \A x \in Holding(f, m) \cup new : x = <<x[1], x[2]>>
  BY HoldingPlaces
<1> HIDE DEF new
<1>5. \A b, i : <<b, i>> \in Holding(f, m) \cup new <=> At(g, m, b, i)
  BY <1>2, <1>3, HoldingPlaces
<1>6. Holding(g, m) = Holding(f, m) \cup new
  BY <1>4, <1>5, HoldingIs
<1>7. QED
  BY <1>6 DEF new

\* g is f with nothing left for a.
Empties(f, a, g) == a \in DOMAIN f /\ g = [f EXCEPT ![a] = <<>>]

\* Emptying a sequence takes away its places.
LEMMA HoldingEmptied ==
  ASSUME NEW f, NEW a, NEW g, NEW m, Empties(f, a, g)
  PROVE  Holding(g, m) = {x \in Holding(f, m) : x[1] # a}
<1>1. DOMAIN g = DOMAIN f /\ g[a] = <<>> /\ \A b \in DOMAIN f \ {a} : g[b] = f[b]
  BY DEF Empties
<1>2. \A b, i : At(g, m, b, i) <=> At(f, m, b, i) /\ b # a
  BY <1>1 DEF At
<1> DEFINE S == {x \in Holding(f, m) : x[1] # a}
<1>3. \A x \in S : x = <<x[1], x[2]>>
  BY HoldingPlaces
<1>4. \A b, i : <<b, i>> \in S <=> At(f, m, b, i) /\ b # a
  BY HoldingPlaces
<1>5. QED
  <2> HIDE DEF S
  <2>1. Holding(g, m) = S
    BY <1>2, <1>3, <1>4, HoldingIs
  <2>2. QED
    BY <2>1 DEF S

\* g is f without the first for a.
Shortens(A, T, f, a, g) ==
  f \in [A -> Seq(T)] /\ a \in A /\ f[a] # <<>> /\ g = [f EXCEPT ![a] = Tail(@)]

\* Taking away the first of a sequence takes its place away and moves others.
LEMMA HoldingTail ==
  ASSUME NEW A, NEW T, NEW f, NEW a, NEW g, NEW m, Shortens(A, T, f, a, g), Single(Holding(f, m))
  PROVE  /\ Single(Holding(g, m))
         /\ Head(f[a]).msg = m => Holding(f, m) # {} /\ Holding(g, m) = {}
         /\ Head(f[a]).msg # m => (Holding(g, m) = {} <=> Holding(f, m) = {})
<1>a. f \in [A -> Seq(T)] /\ a \in A /\ f[a] # <<>> /\ g = [f EXCEPT ![a] = Tail(@)]
  BY DEF Shortens
<1>1. /\ Len(f[a]) \in Nat \ {0} /\ DOMAIN f[a] = 1 .. Len(f[a])
      /\ DOMAIN g[a] = 1 .. Len(f[a]) - 1 /\ Head(f[a]) = f[a][1]
      /\ \A i \in 1 .. Len(f[a]) - 1 : g[a][i] = f[a][i + 1]
  BY <1>a, HeadTailProperties, LenProperties, EmptySeq
<1>2. DOMAIN f = A /\ DOMAIN g = A /\ a \in A /\ \A b \in A \ {a} : g[b] = f[b]
  BY <1>a
<1> DEFINE old(b, i) == IF b = a THEN i + 1 ELSE i
<1>3. \A b, i : At(g, m, b, i) => At(f, m, b, old(b, i)) /\ (b = a => i \in Nat \ {0})
  BY <1>1, <1>2 DEF At
<1>4. \A b, i : At(f, m, b, i) /\ (b = a => i # 1) => \E j : At(g, m, b, j)
  <2> SUFFICES ASSUME NEW b, NEW i, At(f, m, b, i), b = a => i # 1
               PROVE  \E j : At(g, m, b, j)
    OBVIOUS
  <2>1. CASE b = a
    <3>1. i \in 1 .. Len(f[a]) /\ f[a][i].msg = m
      BY <1>1, <2>1 DEF At
    <3>2. i - 1 \in 1 .. Len(f[a]) - 1 /\ g[a][i - 1] = f[a][i]
      BY <1>1, <2>1, <3>1
    <3>3. At(g, m, b, i - 1)
      BY <1>1, <1>2, <2>1, <3>1, <3>2 DEF At
    <3>4. QED
      BY <3>3
  <2>2. CASE b # a
    BY <1>2, <2>2 DEF At
  <2>3. QED
    BY <2>1, <2>2
<1>5. Head(f[a]).msg = m <=> At(f, m, a, 1)
  BY <1>1, <1>2 DEF At
<1>6. Single(Holding(g, m))
  <2>1. ASSUME NEW x \in Holding(g, m), NEW y \in Holding(g, m) PROVE x = y
    <3>1. x = <<x[1], x[2]>> /\ y = <<y[1], y[2]>>
      BY HoldingPlaces
    <3>2. At(g, m, x[1], x[2]) /\ At(g, m, y[1], y[2])
      BY <3>1, HoldingPlaces
    <3>3. <<x[1], old(x[1], x[2])>> \in Holding(f, m) /\ <<y[1], old(y[1], y[2])>> \in Holding(f, m)
      BY <1>3, <3>2, HoldingPlaces
    <3>4. <<x[1], old(x[1], x[2])>> = <<y[1], old(y[1], y[2])>>
      BY <3>3 DEF Single
    <3>5. (x[1] = a => x[2] \in Nat) /\ (y[1] = a => y[2] \in Nat)
      BY <1>3, <3>2
    <3>6. x[1] = y[1] /\ x[2] = y[2]
      BY <3>4, <3>5
    <3>7. QED
      BY <3>1, <3>6
  <2>2. QED
    BY <2>1 DEF Single
<1>7. Head(f[a]).msg = m => Holding(f, m) # {} /\ Holding(g, m) = {}
  <2>1. Head(f[a]).msg = m => <<a, 1>> \in Holding(f, m)
    BY <1>5, HoldingPlaces
  <2> SUFFICES ASSUME Head(f[a]).msg = m, NEW x \in Holding(g, m) PROVE FALSE
    BY <2>1
  <2>2. At(g, m, x[1], x[2])
    BY HoldingPlaces
  <2>3. <<x[1], old(x[1], x[2])>> \in Holding(f, m) /\ (x[1] = a => x[2] \in Nat \ {0})
    BY <1>3, <2>2, HoldingPlaces
  <2>4. <<x[1], old(x[1], x[2])>> = <<a, 1>>
    BY <2>1, <2>3 DEF Single
  <2>5. QED
    BY <2>3, <2>4
<1>8. Head(f[a]).msg # m => (Holding(g, m) = {} <=> Holding(f, m) = {})
  <2>1. ASSUME NEW x \in Holding(g, m) PROVE Holding(f, m) # {}
    <3>1. At(g, m, x[1], x[2])
      BY HoldingPlaces
    <3>2. At(f, m, x[1], old(x[1], x[2]))
      BY <1>3, <3>1
    <3> HIDE DEF old
    <3>3. QED
      BY <3>2, HoldingPlaces
  <2>2. ASSUME Head(f[a]).msg # m, NEW x \in Holding(f, m) PROVE Holding(g, m) # {}
    <3>1. At(f, m, x[1], x[2])
      BY HoldingPlaces
    <3>2. x[1] = a => x[2] # 1
      BY <1>5, <2>2, <3>1
    <3>3. PICK j : At(g, m, x[1], j)
      BY <1>4, <3>1, <3>2
    <3>4. QED
      BY <3>3, HoldingPlaces
  <2>3. QED
    BY <2>1, <2>2
<1>9. QED
  BY <1>6, <1>7, <1>8

--------------------------------------------------------------------------------
(* What each step does to the places of each message                       *)

\* Nothing, but for moving it up in a queue that was taken off.
Stay(m) ==
  /\ InHand(m)' = InHand(m) /\ InMail(m)' = InMail(m) /\ InOut(m)' = InOut(m)
  /\ InTodo(m)' = {} <=> InTodo(m) = {}
  /\ Single(InTodo(m)) => Single(InTodo(m)')
  /\ Taken(m)' <=> Taken(m)

\* The steps at which a worker has a message to deliver.
Delivering == {"lookup", "forward", "save"}

\* A worker's message changes nothing while the worker is at no such step.
LEMMA HandSame ==
  ASSUME \A v \in Workers : pc[v] \in Delivering <=> pc'[v] \in Delivering,
         \A v \in Workers : pc[v] \in Delivering => msg'[v] = msg[v]
  PROVE  \A m : InHand(m)' = InHand(m)
BY DEF InHand, Delivering

\* The steps that neither deliver nor move mail leave every message where it is.
LEMMA QuietStep ==
  ASSUME Core, NEW m \in Messages,
         \/ \E c \in Conns : Connect(c) \/ ClientSend(c) \/ ClientClose(c) \/ Accept(c) \/ Dispatch(c)
         \/ \E w \in Workers : Take(w) \/ Login(w) \/ Lookup(w) \/ Return(w)
         \/ UNCHANGED vars
  PROVE  Stay(m)
<1> USE DEF netVars, loopVars, poolVars, workVars, mailVars
<1>a. WorkOK
  BY TypeParts DEF Core
<1>1. UNCHANGED <<mail, todo, out, read>>
  <2>1. ASSUME NEW c \in Conns, Connect(c) \/ ClientSend(c) \/ ClientClose(c) \/ Accept(c) \/ Dispatch(c)
        PROVE  UNCHANGED <<mail, todo, out, read>>
    BY <2>1 DEF Connect, ClientSend, ClientClose, Accept, Dispatch
  <2>2. ASSUME NEW w \in Workers, Take(w) \/ Login(w) \/ Lookup(w) \/ Return(w)
        PROVE  UNCHANGED <<mail, todo, out, read>>
    BY <2>2 DEF Take, Login, Lookup, Return
  <2>3. QED
    BY <2>1, <2>2 DEF vars
<1>2. InHand(m)' = InHand(m)
  <2>1. ASSUME NEW c \in Conns, Connect(c) \/ ClientSend(c) \/ ClientClose(c) \/ Accept(c) \/ Dispatch(c)
        PROVE  UNCHANGED <<pc, msg>>
    BY <2>1 DEF Connect, ClientSend, ClientClose, Accept, Dispatch
  <2>2. ASSUME NEW w \in Workers, Take(w) \/ Login(w) \/ Lookup(w)
        PROVE  InHand(m)' = InHand(m)
    <3>1. /\ \A v \in Workers \ {w} : pc'[v] = pc[v] /\ UNCHANGED msg
          /\ pc[w] \in Delivering <=> pc'[w] \in Delivering
      BY <1>a, <2>2 DEF Take, Login, Lookup, Route, Goto, WorkOK, Delivering
    <3>2. QED
      BY <2>2, <3>1, HandSame DEF Take, Login, Lookup
  <2>3. ASSUME NEW w \in Workers, Return(w) PROVE InHand(m)' = InHand(m)
    <3>1. \A v \in Workers \ {w} : pc'[v] = pc[v] /\ msg'[v] = msg[v]
      BY <1>a, <2>3 DEF Return, Goto, WorkOK
    <3>2. pc[w] \notin Delivering /\ pc'[w] \notin Delivering
      BY <1>a, <2>3 DEF Return, Goto, WorkOK, Delivering
    <3>3. QED
      BY <3>1, <3>2, HandSame
  <2>4. QED
    BY <2>1, <2>2, <2>3, HandSame DEF vars
<1>3. QED
  BY <1>1, <1>2 DEF Stay, InMail, InTodo, InOut, Taken

\* Recv puts the frame it reads into the worker's hands, if it is a message.
LEMMA RecvPlaces ==
  ASSUME Core, NEW w \in Workers, Recv(w), NEW m \in Messages
  PROVE  \/ Stay(m)
         \/ /\ m = <<Fd(w), read[Fd(w)]>> /\ ~Taken(m) /\ Taken(m)'
            /\ InHand(m)' = InHand(m) \cup {w}
            /\ InMail(m)' = InMail(m) /\ InTodo(m)' = InTodo(m) /\ InOut(m)' = InOut(m)
<1> DEFINE c == Fd(w)
           frame == <<c, read[c]>>
<1> USE DEF netVars, loopVars, poolVars, workVars, mailVars
<1>a. WorkOK /\ ReadOK /\ NetOK
  BY TypeParts DEF Core
<1>b. c \in Conns /\ read[c] \in Nat /\ sent[c] \in Nat
  BY <1>a, WorkerFacts DEF Recv, ReadOK, NetOK, Core
<1>c. m[1] \in Conns /\ m[2] \in Nat \ {0} /\ m = <<m[1], m[2]>>
  BY FrameFacts DEF Messages
<1>1. /\ UNCHANGED <<mail, todo, out>> /\ pc[w] = "recv"
      /\ \A v \in Workers \ {w} : pc'[v] = pc[v] /\ msg'[v] = msg[v]
  BY <1>a DEF Recv, Goto, WorkOK
<1>2. InMail(m)' = InMail(m) /\ InTodo(m)' = InTodo(m) /\ InOut(m)' = InOut(m)
  BY <1>1 DEF InMail, InTodo, InOut
<1>3. CASE read[c] < sent[c]
  <2>1. /\ read' = [read EXCEPT ![c] = @ + 1] /\ msg'[w] = frame
        /\ pc'[w] = IF read[c] = 0 THEN "login" ELSE "lookup"
    BY <1>a, <1>b, <1>3 DEF Recv, Goto, Case, WorkOK
  <2>2. CASE m = frame
    <3>1. ~Taken(m) /\ Taken(m)'
      BY <1>a, <1>b, <2>1, <2>2 DEF Taken, ReadOK
    <3>2. InHand(m)' = InHand(m) \cup {w}
      BY <1>1, <1>b, <1>c, <2>1, <2>2 DEF InHand
    <3>3. QED
      BY <1>2, <2>2, <3>1, <3>2
  <2>3. CASE m # frame
    <3>1. Taken(m)' <=> Taken(m)
      <4>1. CASE m[1] = c
        <5>1. m[2] # read[c] /\ read'[c] = read[c] + 1
          BY <1>a, <1>b, <1>c, <2>1, <2>3, <4>1 DEF ReadOK
        <5>2. m[2] < read[c] + 1 <=> m[2] < read[c]
          BY <1>b, <1>c, <5>1
        <5>3. QED
          BY <4>1, <5>1, <5>2 DEF Taken
      <4>2. CASE m[1] # c
        <5>1. read'[m[1]] = read[m[1]]
          BY <1>a, <1>c, <2>1, <4>2 DEF ReadOK
        <5>2. QED
          BY <5>1 DEF Taken
      <4>3. QED
        BY <4>1, <4>2
    <3>2. InHand(m)' = InHand(m)
      BY <1>1, <2>1, <2>3 DEF InHand
    <3>3. QED
      BY <1>2, <3>1, <3>2 DEF Stay
  <2>4. QED
    BY <2>2, <2>3
<1>4. CASE ~(read[c] < sent[c])
  <2>1. UNCHANGED read /\ pc'[w] = "return"
    BY <1>a, <1>4 DEF Recv, Goto, WorkOK
  <2>2. InHand(m)' = InHand(m)
    BY <1>1, <2>1 DEF InHand
  <2>3. QED
    BY <1>2, <2>1, <2>2 DEF Stay, Taken
<1>5. QED
  BY <1>3, <1>4

\* Save puts the message in its addressee's mailbox, unless the process dies.
LEMMA SavePlaces ==
  ASSUME Core, NEW w \in Workers, Save(w), NEW m \in Messages
  PROVE  /\ m # msg[w] => Stay(m)
         /\ m = msg[w] => /\ w \in InHand(m) /\ InHand(m)' = InHand(m) \ {w}
                          /\ InTodo(m)' = InTodo(m) /\ InOut(m)' = InOut(m) /\ (Taken(m)' <=> Taken(m))
                          /\ up' => \E x : InMail(m)' = InMail(m) \cup {x}
                          /\ ~up' => InMail(m)' = InMail(m)
<1> DEFINE u == To(msg[w])
           node == [msg |-> msg[w], at |-> w]
<1> USE DEF netVars, loopVars, poolVars, workVars, mailVars
<1>a. WorkOK /\ MailOK
  BY TypeParts DEF Core
<1>b. u \in Users /\ node \in Nodes /\ node.msg = msg[w]
  BY WorkerFacts DEF Save, Core, WorkInv, WorkOf, Nodes
<1>1. /\ UNCHANGED <<msg, todo, out, read>> /\ pc[w] = "save" /\ pc'[w] = "return"
      /\ \A v \in Workers \ {w} : pc'[v] = pc[v]
  BY <1>a DEF Save, Goto, WorkOK
<1>2. InTodo(m)' = InTodo(m) /\ InOut(m)' = InOut(m) /\ (Taken(m)' <=> Taken(m))
  BY <1>1 DEF InTodo, InOut, Taken
<1>3. /\ m # msg[w] => InHand(m)' = InHand(m)
      /\ m = msg[w] => w \in InHand(m) /\ InHand(m)' = InHand(m) \ {w}
  BY <1>1 DEF InHand
<1>4. /\ up' => mail' = [mail EXCEPT ![u] = Append(@, node)]
      /\ ~up' => mail' = mail
  BY DEF Save
<1>5. /\ m # msg[w] => InMail(m)' = InMail(m)
      /\ m = msg[w] /\ up' => \E x : InMail(m)' = InMail(m) \cup {x}
  <2>1. ASSUME up'
        PROVE  /\ node.msg # m => Holding(mail', m) = Holding(mail, m)
               /\ node.msg = m => Holding(mail', m) = Holding(mail, m) \cup {<<u, Len(mail[u]) + 1>>}
    <3> HIDE DEF u, node
    <3>1. mail \in [Users -> Seq(Nodes)] /\ mail' = [mail EXCEPT ![u] = Append(@, node)]
      BY <1>a, <1>4, <2>1 DEF MailOK
    <3>2. Appends(Users, Nodes, mail, u, node, mail')
      BY <1>b, <3>1 DEF Appends
    <3>3. QED
      BY <3>2, HoldingAppend
  <2>2. QED
    BY <1>4, <1>b, <2>1 DEF InMail
<1>6. ~up' => InMail(m)' = InMail(m)
  BY <1>4 DEF InMail
<1>7. QED
  BY <1>2, <1>3, <1>5, <1>6 DEF Stay

\* Forward hands the message to the connection that was looked up, unless the
\* process dies.
LEMMA ForwardPlaces ==
  ASSUME Core, NEW w \in Workers, Forward(w), NEW m \in Messages
  PROVE  /\ m # msg[w] => Stay(m)
         /\ m = msg[w] => /\ w \in InHand(m) /\ InHand(m)' = InHand(m) \ {w}
                          /\ InMail(m)' = InMail(m) /\ InTodo(m)' = InTodo(m) /\ (Taken(m)' <=> Taken(m))
                          /\ up' => \E i : InOut(m)' = InOut(m) \cup {<<target[w], i>>}
                          /\ ~up' => InOut(m)' = InOut(m)
<1> DEFINE c == target[w]
           s == [msg |-> msg[w], says |-> msg[w]]
<1> USE DEF netVars, loopVars, poolVars, workVars, mailVars
<1>a. WorkOK /\ NetOK /\ OutOK
  BY TypeParts DEF Core
<1>b. c \in Conns /\ s \in Sends /\ s.msg = msg[w]
  BY <1>a, WorkerFacts DEF Forward, Core, WorkInv, WorkOf, WorkOK, Sends
<1>1. /\ UNCHANGED <<msg, todo, mail, read>> /\ pc[w] = "forward" /\ pc'[w] = "return"
      /\ \A v \in Workers \ {w} : pc'[v] = pc[v]
  BY <1>a DEF Forward, Goto, WorkOK
<1>2. InTodo(m)' = InTodo(m) /\ InMail(m)' = InMail(m) /\ (Taken(m)' <=> Taken(m))
  BY <1>1 DEF InTodo, InMail, Taken
<1>3. /\ m # msg[w] => InHand(m)' = InHand(m)
      /\ m = msg[w] => w \in InHand(m) /\ InHand(m)' = InHand(m) \ {w}
  BY <1>1 DEF InHand
<1>4. up /\ Send(c, s)
  BY DEF Forward
<1> HIDE DEF c, s
<1>5. /\ up' => out' = [out EXCEPT ![c] = Append(@, s)]
      /\ ~up' => out' = out
  BY <1>a, <1>b, <1>4, SendFacts DEF NetOK, OutOK
<1>6. up' => /\ m # msg[w] => InOut(m)' = InOut(m)
             /\ m = msg[w] => \E i : InOut(m)' = InOut(m) \cup {<<c, i>>}
  <2> SUFFICES ASSUME up'
               PROVE  /\ m # msg[w] => InOut(m)' = InOut(m)
                      /\ m = msg[w] => \E i : InOut(m)' = InOut(m) \cup {<<c, i>>}
    OBVIOUS
  <2>1. Appends(Conns, Sends, out, c, s, out')
    BY <1>a, <1>b, <1>5 DEF Appends, OutOK
  <2>2. /\ s.msg # m => Holding(out', m) = Holding(out, m)
        /\ s.msg = m => Holding(out', m) = Holding(out, m) \cup {<<c, Len(out[c]) + 1>>}
    BY <2>1, HoldingAppend
  <2>3. QED
    BY <1>b, <2>2 DEF InOut
<1>7. ~up' => InOut(m)' = InOut(m)
  BY <1>5 DEF InOut
<1>8. QED
  BY <1>2, <1>3, <1>6, <1>7 DEF Stay, c

\* TakeOff takes a message out of the mailbox and into the worker's queue.
LEMMA TakeOffPlaces ==
  ASSUME Core, NEW w \in Workers, TakeOff(w), NEW m \in Messages, PlaceOf(m)
  PROVE  \/ Stay(m)
         \/ /\ InHand(m)' = InHand(m) /\ InOut(m)' = InOut(m) /\ (Taken(m)' <=> Taken(m))
            /\ InMail(m) # {} /\ InMail(m)' = {}
            /\ InTodo(m)' # {} /\ Single(InTodo(m)')
<1> DEFINE u == User[Fd(w)]
<1> USE DEF netVars, loopVars, poolVars, workVars, mailVars
<1>a. WorkOK /\ MailOK
  BY TypeParts DEF Core
<1>b. u \in Users /\ todo[w] = <<>>
  BY WorkerFacts DEF TakeOff, Core, WorkInv, WorkOf
<1>1. UNCHANGED <<msg, out, read>> /\ (UNCHANGED <<mail, todo>> \/ u \in boxes)
  BY DEF TakeOff
<1>2. InHand(m)' = InHand(m)
  <2>1. \A v \in Workers : pc[v] \in Delivering <=> pc'[v] \in Delivering
    BY <1>a DEF TakeOff, Goto, WorkOK, Delivering
  <2>2. QED
    BY <1>1, <2>1, HandSame
<1>3. InOut(m)' = InOut(m) /\ (Taken(m)' <=> Taken(m))
  BY <1>1 DEF InOut, Taken
<1>4. CASE UNCHANGED <<mail, todo>>
  BY <1>2, <1>3, <1>4 DEF Stay, InMail, InTodo
<1>5. CASE u \in boxes
  <2>1. Puts(todo, w, mail[u], todo') /\ Empties(mail, u, mail')
    BY <1>a, <1>b, <1>5 DEF TakeOff, Emptied, Puts, Empties, WorkOK, MailOK
  <2>2. /\ InTodo(m)' = InTodo(m) \cup {<<w, i>> : i \in {j \in DOMAIN mail[u] : mail[u][j].msg = m}}
        /\ InMail(m)' = {x \in InMail(m) : x[1] # u}
    <3> HIDE DEF u
    <3>1. QED
      BY <2>1, HoldingPut, HoldingEmptied DEF InTodo, InMail
  <2>3. \A j : j \in DOMAIN mail[u] /\ mail[u][j].msg = m <=> <<u, j>> \in InMail(m)
    BY <1>a, <1>b, HoldingPlaces DEF InMail, At, MailOK
  <2>4. \A x \in InMail(m) : x = <<x[1], x[2]>>
    BY HoldingPlaces DEF InMail
  <2> HIDE DEF u
  <2>5. CASE \E j : <<u, j>> \in InMail(m)
    <3>1. PICK j : <<u, j>> \in InMail(m)
      BY <2>5
    <3>2. \A x \in InMail(m) : x = <<u, j>>
      BY <3>1 DEF PlaceOf, Single
    <3>3. InMail(m) # {} /\ InMail(m)' = {} /\ InTodo(m) = {}
      BY <2>2, <3>1, <3>2 DEF PlaceOf
    <3>4. \A k : k \in DOMAIN mail[u] /\ mail[u][k].msg = m <=> k = j
      BY <2>3, <3>1, <3>2
    <3>5. InTodo(m)' = {<<w, j>>}
      BY <2>2, <3>3, <3>4
    <3>6. QED
      BY <1>2, <1>3, <3>3, <3>5 DEF Single
  <2>6. CASE ~ \E j : <<u, j>> \in InMail(m)
    <3>1. InTodo(m)' = InTodo(m)
      BY <2>2, <2>3, <2>6
    <3>2. InMail(m)' = InMail(m)
      BY <2>2, <2>4, <2>6
    <3>3. QED
      BY <1>2, <1>3, <3>1, <3>2 DEF Stay
  <2>7. QED
    BY <2>5, <2>6
<1>6. QED
  BY <1>1, <1>4, <1>5

\* SendOffline hands the first of the worker's queue to the worker's connection,
\* unless the process dies.
LEMMA SendOfflinePlaces ==
  ASSUME Core, NEW w \in Workers, SendOffline(w), NEW m \in Messages, PlaceOf(m)
  PROVE  \/ Stay(m)
         \/ /\ InHand(m)' = InHand(m) /\ InMail(m)' = InMail(m) /\ (Taken(m)' <=> Taken(m))
            /\ More(w) /\ m = Head(todo[w]).msg /\ up'
            /\ InTodo(m) # {} /\ InTodo(m)' = {}
            /\ \E i : InOut(m)' = InOut(m) \cup {<<Fd(w), i>>}
<1> DEFINE c == Fd(w)
           s == [msg |-> Head(todo[w]).msg, says |-> msg[Head(todo[w]).at]]
<1> USE DEF netVars, loopVars, poolVars, workVars, mailVars
<1>a. WorkOK /\ NetOK /\ OutOK
  BY TypeParts DEF Core
<1>b. c \in Conns
  BY WorkerFacts DEF SendOffline, Core
<1>1. UNCHANGED <<msg, mail, read>>
  BY DEF SendOffline
<1>2. InHand(m)' = InHand(m)
  <2>1. \A v \in Workers : pc[v] \in Delivering <=> pc'[v] \in Delivering
    BY <1>a DEF SendOffline, Goto, WorkOK, Delivering
  <2>2. QED
    BY <1>1, <2>1, HandSame
<1>3. InMail(m)' = InMail(m) /\ (Taken(m)' <=> Taken(m))
  BY <1>1 DEF InMail, Taken
<1>4. CASE ~More(w)
  <2>1. UNCHANGED <<todo, out>>
    BY <1>4 DEF SendOffline
  <2>2. QED
    BY <1>2, <1>3, <2>1 DEF Stay, InTodo, InOut
<1>5. CASE More(w)
  <2>1. up /\ Send(c, s) /\ todo' = [todo EXCEPT ![w] = IF up' THEN Tail(@) ELSE @]
    BY <1>5 DEF SendOffline
  <2>2. s \in Sends /\ s.msg = Head(todo[w]).msg
    BY <1>5, HeadSent DEF Core
  <2> HIDE DEF c, s
  <2>3. /\ up' => out' = [out EXCEPT ![c] = Append(@, s)]
        /\ ~up' => out' = out
    BY <1>a, <1>b, <2>1, <2>2, SendFacts DEF NetOK, OutOK
  <2>4. CASE ~up'
    <3>1. UNCHANGED <<todo, out>>
      BY <1>a, <2>1, <2>3, <2>4 DEF WorkOK
    <3>2. QED
      BY <1>2, <1>3, <3>1 DEF Stay, InTodo, InOut
  <2>5. CASE up'
    <3>1. Appends(Conns, Sends, out, c, s, out')
      BY <1>a, <1>b, <2>2, <2>3, <2>5 DEF Appends, OutOK
    <3>a. /\ s.msg # m => Holding(out', m) = Holding(out, m)
          /\ s.msg = m => Holding(out', m) = Holding(out, m) \cup {<<c, Len(out[c]) + 1>>}
      BY <3>1, HoldingAppend
    <3>2. /\ s.msg # m => InOut(m)' = InOut(m)
          /\ s.msg = m => \E i : InOut(m)' = InOut(m) \cup {<<c, i>>}
      BY <3>a DEF InOut
    <3>3. Shortens(Workers, Nodes, todo, w, todo')
      BY <1>a, <1>5, <2>1, <2>5 DEF Shortens, WorkOK, More
    <3>4. /\ Single(InTodo(m)')
          /\ s.msg = m => InTodo(m) # {} /\ InTodo(m)' = {}
          /\ s.msg # m => (InTodo(m)' = {} <=> InTodo(m) = {})
      BY <2>2, <3>3, HoldingTail DEF InTodo, PlaceOf
    <3>5. QED
      BY <1>2, <1>3, <1>5, <2>2, <2>5, <3>2, <3>4 DEF Stay, c
  <2>6. QED
    BY <2>4, <2>5
<1>6. QED
  BY <1>4, <1>5

--------------------------------------------------------------------------------
(* One place                                                               *)

\* A message that stays where it is, or goes on to the next place, is still in
\* one place; where its worker drops it the process has died.
LEMMA PlaceStep ==
  ASSUME Core, PlaceInv, [Next]_vars
  PROVE  PlaceInv'
<1> SUFFICES ASSUME NEW m \in Messages PROVE PlaceOf(m)'
  BY DEF PlaceInv
<1>a. PlaceOf(m)
  BY DEF PlaceInv
<1>b. up' => up
  BY DEF Next, Handle, Connect, ClientSend, ClientClose, Accept, Dispatch, Take, Recv, Login, TakeOff,
         SendOffline, Lookup, Forward, Save, Return, vars
<1>c. Stay(m) => PlaceOf(m)'
  BY <1>a, <1>b DEF PlaceOf, Stay
<1>1. ASSUME \/ \E c \in Conns : Connect(c) \/ ClientSend(c) \/ ClientClose(c) \/ Accept(c) \/ Dispatch(c)
             \/ \E w \in Workers : Take(w) \/ Login(w) \/ Lookup(w) \/ Return(w)
             \/ UNCHANGED vars
      PROVE  PlaceOf(m)'
  BY <1>c, <1>1, QuietStep
<1>2. ASSUME NEW w \in Workers, Recv(w) PROVE PlaceOf(m)'
  <2>1. CASE ~Taken(m) /\ Taken(m)' /\ InHand(m)' = InHand(m) \cup {w}
             /\ InMail(m)' = InMail(m) /\ InTodo(m)' = InTodo(m) /\ InOut(m)' = InOut(m)
    BY <1>a, <2>1 DEF PlaceOf, Single
  <2>2. QED
    BY <1>c, <1>2, <2>1, RecvPlaces
<1>3. ASSUME NEW w \in Workers, Save(w) PROVE PlaceOf(m)'
  <2>1. CASE m = msg[w]
    <3>1. /\ w \in InHand(m) /\ InHand(m)' = InHand(m) \ {w}
          /\ InTodo(m)' = InTodo(m) /\ InOut(m)' = InOut(m) /\ (Taken(m)' <=> Taken(m))
          /\ up' => \E x : InMail(m)' = InMail(m) \cup {x}
          /\ ~up' => InMail(m)' = InMail(m)
      BY <1>3, <2>1, SavePlaces
    <3>2. Taken(m) /\ InHand(m)' = {} /\ InMail(m) = {} /\ InTodo(m) = {} /\ InOut(m) = {}
      BY <1>a, <3>1 DEF PlaceOf, Single
    <3>3. CASE up'
      <4>1. PICK x : InMail(m)' = {x}
        BY <3>1, <3>2, <3>3
      <4>2. QED
        BY <3>1, <3>2, <4>1 DEF PlaceOf, Single
    <3>4. CASE ~up'
      BY <3>1, <3>2, <3>4 DEF PlaceOf, Single
    <3>5. QED
      BY <3>3, <3>4
  <2>2. QED
    BY <1>c, <1>3, <2>1, SavePlaces
<1>4. ASSUME NEW w \in Workers, Forward(w) PROVE PlaceOf(m)'
  <2>1. CASE m = msg[w]
    <3>1. /\ w \in InHand(m) /\ InHand(m)' = InHand(m) \ {w}
          /\ InMail(m)' = InMail(m) /\ InTodo(m)' = InTodo(m) /\ (Taken(m)' <=> Taken(m))
          /\ up' => \E i : InOut(m)' = InOut(m) \cup {<<target[w], i>>}
          /\ ~up' => InOut(m)' = InOut(m)
      BY <1>4, <2>1, ForwardPlaces
    <3>2. Taken(m) /\ InHand(m)' = {} /\ InMail(m) = {} /\ InTodo(m) = {} /\ InOut(m) = {}
      BY <1>a, <3>1 DEF PlaceOf, Single
    <3>3. CASE up'
      <4>1. PICK x : InOut(m)' = {x}
        BY <3>1, <3>2, <3>3
      <4>2. QED
        BY <3>1, <3>2, <4>1 DEF PlaceOf, Single
    <3>4. CASE ~up'
      BY <3>1, <3>2, <3>4 DEF PlaceOf, Single
    <3>5. QED
      BY <3>3, <3>4
  <2>2. QED
    BY <1>c, <1>4, <2>1, ForwardPlaces
<1>5. ASSUME NEW w \in Workers, TakeOff(w) PROVE PlaceOf(m)'
  <2>1. CASE /\ InHand(m)' = InHand(m) /\ InOut(m)' = InOut(m) /\ (Taken(m)' <=> Taken(m))
             /\ InMail(m) # {} /\ InMail(m)' = {}
             /\ InTodo(m)' # {} /\ Single(InTodo(m)')
    BY <1>a, <2>1 DEF PlaceOf, Single
  <2>2. QED
    BY <1>a, <1>c, <1>5, <2>1, TakeOffPlaces
<1>6. ASSUME NEW w \in Workers, SendOffline(w) PROVE PlaceOf(m)'
  <2>1. CASE /\ InHand(m)' = InHand(m) /\ InMail(m)' = InMail(m) /\ (Taken(m)' <=> Taken(m))
             /\ InTodo(m) # {} /\ InTodo(m)' = {}
             /\ \E i : InOut(m)' = InOut(m) \cup {<<Fd(w), i>>}
    <3>1. InOut(m) = {} /\ InHand(m) = {} /\ InMail(m) = {} /\ Taken(m)
      BY <1>a, <2>1 DEF PlaceOf
    <3>2. PICK x : InOut(m)' = {x}
      BY <2>1, <3>1
    <3>3. QED
      BY <2>1, <3>1, <3>2 DEF PlaceOf, Single
  <2>2. QED
    BY <1>a, <1>c, <1>6, <2>1, SendOfflinePlaces
<1>7. QED
  BY <1>1, <1>2, <1>3, <1>4, <1>5, <1>6 DEF Next, Handle

\* The cardinality of a set of at most one element.
LEMMA SingleCardinality ==
  ASSUME NEW S, Single(S)
  PROVE  Cardinality(S) = IF S = {} THEN 0 ELSE 1
<1>1. CASE S = {}
  BY <1>1, FS_EmptySet
<1>2. CASE S # {}
  <2>1. PICK x : S = {x}
    BY <1>2 DEF Single
  <2>2. QED
    BY <1>2, <2>1, FS_Singleton
<1>3. QED
  BY <1>1, <1>2

\* At the start no message has been read, and nothing holds one.
LEMMA InitPlaces == Init => PlaceInv
<1> SUFFICES ASSUME Init, NEW m \in Messages PROVE PlaceOf(m)
  BY DEF PlaceInv
<1>1. InHand(m) = {} /\ (m[1] \in Conns => ~Taken(m)) /\ m[1] \in Conns
  BY FrameFacts DEF Init, InHand, Taken, Messages
<1>2. (\A u, i : ~At(mail, m, u, i)) /\ (\A w, i : ~At(todo, m, w, i)) /\ (\A c, i : ~At(out, m, c, i))
  BY DEF Init, At
<1>3. InMail(m) = {} /\ InTodo(m) = {} /\ InOut(m) = {}
  BY <1>2, HoldingPlaces DEF InMail, InTodo, InOut
<1>4. QED
  BY <1>1, <1>3 DEF PlaceOf, Single

\* While the server is up, a chat message it has read is in exactly one place:
\* logins, saves and take-offs of any number of workers neither lose one nor
\* copy one (OnePlace, logic_service.c:270-359).
THEOREM EveryMessageInOnePlace == Spec => []OnePlace
<1>1. Init => PlaceInv
  BY InitPlaces
<1>2. Core /\ PlaceInv /\ [Next]_vars => PlaceInv'
  BY PlaceStep
<1>3. PlaceInv => OnePlace
  <2> SUFFICES ASSUME PlaceInv, up, NEW m \in Messages
               PROVE  Cardinality(InHand(m)) + Cardinality(InMail(m)) + Cardinality(InTodo(m))
                        + Cardinality(InOut(m)) = IF Taken(m) THEN 1 ELSE 0
    BY DEF OnePlace
  <2>1. PlaceOf(m)
    BY DEF PlaceInv
  <2>2. /\ Cardinality(InHand(m)) = IF InHand(m) = {} THEN 0 ELSE 1
        /\ Cardinality(InMail(m)) = IF InMail(m) = {} THEN 0 ELSE 1
        /\ Cardinality(InTodo(m)) = IF InTodo(m) = {} THEN 0 ELSE 1
        /\ Cardinality(InOut(m)) = IF InOut(m) = {} THEN 0 ELSE 1
    BY <2>1, SingleCardinality DEF PlaceOf
  <2>3. QED
    BY <2>1, <2>2 DEF PlaceOf
<1>4. TypeOK /\ StreamInv /\ WorkInv => Core
  BY DEF Core
<1>5. QED
  BY <1>1, <1>2, <1>3, <1>4, TypeCorrect, PTL DEF Spec

--------------------------------------------------------------------------------
(* Mail and the end of the process                                         *)

\* Mail stays with its addressee, in the mailbox and when it is taken off, and
\* the mailbox is emptied only after the login was entered.
LEMMA MailStep ==
  ASSUME Core, MailInv, [Next]_vars
  PROVE  MailInv'
<1> USE DEF netVars, loopVars, poolVars, workVars, mailVars
<1>a. /\ PoolOK /\ WorkOK /\ MapOK /\ MailOK
      /\ \A v \in Workers : WorkOf(v)
  BY TypeParts DEF Core, WorkInv
<1>b. \A u \in Users : userMap[u] # NoConn => userMap'[u] # NoConn
  BY MapGrows DEF Core
<1>c. ASSUME UNCHANGED <<mail, todo, boxes>>,
             \A v \in Workers : todo[v] # <<>> => running'[v] = running[v]
      PROVE  MailInv'
  <2>1. \A v \in Workers : \A i \in DOMAIN todo[v] : todo[v] # <<>>
    OBVIOUS
  <2>2. QED
    BY <1>a, <1>b, <1>c, <2>1 DEF MailInv, Fd, MailOK
<1>1. ASSUME NEW c \in Conns, Connect(c) \/ ClientSend(c) \/ ClientClose(c) \/ Accept(c) \/ Dispatch(c)
      PROVE  MailInv'
  BY <1>1, <1>c DEF Connect, ClientSend, ClientClose, Accept, Dispatch, AddTask, Pool!Submit
<1>2. ASSUME NEW w \in Workers, Take(w) \/ Return(w) PROVE MailInv'
  <2>1. UNCHANGED <<mail, todo, boxes>> /\ pc[w] # "sending" /\ \A v \in Workers \ {w} : running'[v] = running[v]
    BY <1>a, <1>2 DEF Take, Return, Pool!Begin, Pool!Finish, PoolOK
  <2>2. QED
    BY <1>a, <1>c, <2>1 DEF WorkOf
<1>3. ASSUME NEW w \in Workers, Recv(w) \/ Login(w) \/ Lookup(w) \/ Forward(w) PROVE MailInv'
  BY <1>3, <1>c DEF Recv, Login, Lookup, Forward
<1>4. ASSUME NEW w \in Workers, TakeOff(w) PROVE MailInv'
  <2> DEFINE u == User[Fd(w)]
  <2>1. u \in Users /\ userMap[u] # NoConn /\ UNCHANGED <<running, boxes>>
    BY <1>4, <1>a, WorkerFacts DEF TakeOff, Core, WorkOf
  <2>2. CASE u \in boxes
    <3>1. todo' = [todo EXCEPT ![w] = mail[u]] /\ mail' = [mail EXCEPT ![u] = <<>>]
      BY <1>4, <2>2 DEF TakeOff, Emptied
    <3>2. /\ todo'[w] = mail[u] /\ \A v \in Workers \ {w} : todo'[v] = todo[v]
          /\ mail'[u] = <<>> /\ \A t \in Users \ {u} : mail'[t] = mail[t]
      BY <1>a, <2>1, <3>1 DEF WorkOK, MailOK
    <3>3. \A t \in Users : \A i \in DOMAIN mail'[t] : To(mail'[t][i].msg) = t
      BY <3>2 DEF MailInv
    <3>4. \A v \in Workers : \A i \in DOMAIN todo'[v] : To(todo'[v][i].msg) = User[Fd(v)]
      BY <2>1, <3>2 DEF MailInv
    <3>5. \A t \in Users : t \notin boxes => mail'[t] = <<>>
      BY <3>2 DEF MailInv
    <3>6. \A t \in boxes : mail'[t] = <<>> => userMap'[t] # NoConn
      BY <1>a, <1>b, <2>1, <3>2 DEF MailInv, MailOK
    <3>7. QED
      BY <2>1, <3>3, <3>4, <3>5, <3>6 DEF MailInv, Fd
  <2>3. CASE u \notin boxes
    BY <1>4, <1>c, <2>3 DEF TakeOff
  <2>4. QED
    BY <2>2, <2>3
<1>5. ASSUME NEW w \in Workers, SendOffline(w) PROVE MailInv'
  <2>1. UNCHANGED <<mail, boxes, running>> /\ (todo' = todo \/ (More(w) /\ todo' = [todo EXCEPT ![w] = Tail(@)]))
    BY <1>5, <1>a DEF SendOffline, WorkOK
  <2>2. CASE todo' = todo
    BY <1>c, <2>1, <2>2
  <2>3. CASE More(w) /\ todo' = [todo EXCEPT ![w] = Tail(@)]
    <3>1. /\ Len(todo[w]) \in Nat \ {0} /\ DOMAIN todo[w] = 1 .. Len(todo[w])
          /\ DOMAIN Tail(todo[w]) = 1 .. Len(todo[w]) - 1
          /\ \A i \in 1 .. Len(todo[w]) - 1 : Tail(todo[w])[i] = todo[w][i + 1]
      BY <1>a, <2>3, HeadSent, LenProperties DEF Core, WorkOK
    <3>2. \A i \in DOMAIN Tail(todo[w]) : To(Tail(todo[w])[i].msg) = User[Fd(w)]
      BY <3>1 DEF MailInv
    <3>3. \A v \in Workers : \A i \in DOMAIN todo'[v] : To(todo'[v][i].msg) = User[Fd(v)]
      BY <1>a, <2>3, <3>2 DEF MailInv, WorkOK
    <3>4. QED
      BY <1>a, <1>b, <2>1, <3>3 DEF MailInv, Fd, MailOK
  <2>4. QED
    BY <2>1, <2>2, <2>3
<1>6. ASSUME NEW w \in Workers, Save(w) PROVE MailInv'
  <2> DEFINE u == To(msg[w])
             node == [msg |-> msg[w], at |-> w]
  <2>1. u \in Users /\ node \in Nodes /\ To(node.msg) = u /\ UNCHANGED <<todo, running>>
    BY <1>6, <1>a, WorkerFacts DEF Save, Core, WorkOf, Nodes
  <2>2. \/ mail' = [mail EXCEPT ![u] = Append(@, node)] /\ boxes' = boxes \cup {u}
        \/ UNCHANGED <<mail, boxes>>
    BY <1>6 DEF Save
  <2> HIDE DEF u, node
  <2>3. CASE mail' = [mail EXCEPT ![u] = Append(@, node)] /\ boxes' = boxes \cup {u}
    <3>1. /\ mail'[u] = Append(mail[u], node) /\ mail[u] \in Seq(Nodes)
          /\ \A t \in Users \ {u} : mail'[t] = mail[t]
      BY <1>a, <2>1, <2>3 DEF MailOK
    <3>2. /\ Len(mail[u]) \in Nat /\ DOMAIN mail[u] = 1 .. Len(mail[u])
          /\ DOMAIN mail'[u] = 1 .. Len(mail[u]) + 1 /\ mail'[u][Len(mail[u]) + 1] = node
          /\ \A i \in 1 .. Len(mail[u]) : mail'[u][i] = mail[u][i]
      BY <2>1, <3>1, AppendProperties, LenProperties
    <3>3. mail'[u] # <<>>
      BY <3>2
    <3>4. \A i \in DOMAIN mail'[u] : To(mail'[u][i].msg) = u
      BY <2>1, <3>2 DEF MailInv
    <3>5. \A t \in Users : \A i \in DOMAIN mail'[t] : To(mail'[t][i].msg) = t
      BY <3>1, <3>4 DEF MailInv
    <3>6. \A t \in Users : t \notin boxes' => mail'[t] = <<>>
      BY <2>3, <3>1 DEF MailInv
    <3>7. \A t \in boxes' : mail'[t] = <<>> => userMap'[t] # NoConn
      BY <1>a, <1>b, <2>3, <3>1, <3>3 DEF MailInv, MailOK
    <3>8. QED
      BY <2>1, <3>5, <3>6, <3>7 DEF MailInv, Fd
  <2>4. CASE UNCHANGED <<mail, boxes>>
    BY <1>c, <2>1, <2>4
  <2>5. QED
    BY <2>2, <2>3, <2>4
<1>7. CASE UNCHANGED vars
  BY <1>7, <1>c DEF vars
<1>8. QED
  BY <1>1, <1>2, <1>3, <1>4, <1>5, <1>6, <1>7 DEF Next, Handle

\* Mail lies in the box of the one it is for, and only there.
LEMMA MailFiled == Spec => [](Core /\ MailInv)
<1>1. Init => MailInv
  BY DEF Init, MailInv
<1>2. Core /\ MailInv /\ [Next]_vars => MailInv'
  BY MailStep
<1>3. TypeOK /\ StreamInv /\ WorkInv => Core
  BY DEF Core
<1>4. QED
  BY <1>1, <1>2, <1>3, TypeCorrect, PTL DEF Spec

\* A step that ends the process has one of the known causes.
LEMMA DeathStep ==
  ASSUME Core, MailInv, DeathHasCause, [Next]_vars
  PROVE  DeathHasCause'
<1> USE DEF netVars, loopVars, poolVars, workVars, mailVars
<1>a. WorkOK /\ NetOK /\ OutOK /\ MailOK
  BY TypeParts DEF Core
<1>b. ASSUME NEW c \in Conns, NEW s \in Sends, up, Send(c, s), ~up' PROVE DeathHasCause'
  BY <1>a, <1>b, SendFacts DEF NetOK, OutOK, DeathHasCause
<1>1. ASSUME NEW c \in Conns, Accept(c) PROVE DeathHasCause'
  BY <1>1 DEF Accept, DeathHasCause
<1>2. ASSUME NEW w \in Workers, SendOffline(w) PROVE DeathHasCause'
  <2>1. CASE More(w)
    <3>1. Fd(w) \in Conns
      BY <1>2, WorkerFacts DEF SendOffline, Core
    <3>2. [msg |-> Head(todo[w]).msg, says |-> msg[Head(todo[w]).at]] \in Sends
      BY <2>1, HeadSent DEF Core
    <3>3. up /\ Send(Fd(w), [msg |-> Head(todo[w]).msg, says |-> msg[Head(todo[w]).at]])
      BY <1>2, <2>1 DEF SendOffline
    <3>4. QED
      BY <1>b, <3>1, <3>2, <3>3 DEF DeathHasCause
  <2>2. CASE ~More(w)
    BY <1>2, <2>2 DEF SendOffline, DeathHasCause
  <2>3. QED
    BY <2>1, <2>2
<1>3. ASSUME NEW w \in Workers, Forward(w) PROVE DeathHasCause'
  <2>1. target[w] \in Conns /\ [msg |-> msg[w], says |-> msg[w]] \in Sends
    BY <1>3, <1>a, WorkerFacts DEF Forward, Core, WorkInv, WorkOf, WorkOK, Sends
  <2>2. up /\ Send(target[w], [msg |-> msg[w], says |-> msg[w]])
    BY <1>3 DEF Forward
  <2>3. QED
    BY <1>b, <2>1, <2>2 DEF DeathHasCause
<1>4. ASSUME NEW w \in Workers, Save(w) PROVE DeathHasCause'
  <2>1. CASE up'
    BY <2>1 DEF DeathHasCause
  <2>2. CASE ~up'
    <3>1. /\ To(msg[w]) \in boxes /\ mail[To(msg[w])] = <<>>
          /\ UNCHANGED <<boxes, mail, userMap>>
      BY <1>4, <2>2 DEF Save
    <3>2. userMap[To(msg[w])] # NoConn
      BY <3>1 DEF MailInv
    <3>3. QED
      BY <3>1, <3>2 DEF DeathHasCause
  <2>3. QED
    BY <2>1, <2>2
<1>5. ASSUME NEW c \in Conns, Connect(c) \/ ClientSend(c) \/ ClientClose(c) \/ Dispatch(c)
      PROVE  DeathHasCause'
  BY <1>5 DEF Connect, ClientSend, ClientClose, Dispatch, DeathHasCause
<1>6. ASSUME NEW w \in Workers, Take(w) \/ Recv(w) \/ Login(w) \/ TakeOff(w) \/ Lookup(w) \/ Return(w)
      PROVE  DeathHasCause'
  BY <1>6 DEF Take, Recv, Login, TakeOff, Lookup, Return, DeathHasCause
<1>7. CASE UNCHANGED vars
  BY <1>7 DEF vars, DeathHasCause
<1>8. QED
  BY <1>1, <1>2, <1>3, <1>4, <1>5, <1>6, <1>7 DEF Next, Handle

\* Only a save to a user who came online and whose mailbox was emptied, a send
\* to a client that has left, or an accept with no socket to spare ends the
\* process (DeathHasCause, logic_service.c:281, 355, 362, gw_connection.c:83).
THEOREM EveryDeathHasCause == Spec => []DeathHasCause
<1>1. Init => DeathHasCause
  BY DEF Init, DeathHasCause
<1>2. Core /\ MailInv /\ DeathHasCause /\ [Next]_vars => DeathHasCause'
  BY DeathStep
<1>3. QED
  BY <1>1, <1>2, MailFiled, PTL DEF Spec

--------------------------------------------------------------------------------
(* A login is not undone                                                   *)

\* Once the addressee of a message that was not read is online, the message is
\* in no mailbox and no worker goes to put it there.
NeverStored(m) ==
  /\ userMap[To(m)] # NoConn
  /\ InMail(m) = {} /\ InTodo(m) = {}
  /\ \A w \in Workers : ~ (pc[w] = "save" /\ msg[w] = m)

\* No step stores a message that was read after its addressee came online.
LEMMA NeverStoredStep ==
  ASSUME NEW m \in Messages, Core, PlaceInv, NeverStored(m), [Next]_vars
  PROVE  NeverStored(m)'
<1> USE DEF netVars, loopVars, poolVars, workVars, mailVars
<1>a. WorkOK /\ PlaceOf(m)
  BY TypeParts DEF Core, PlaceInv
<1>b. userMap'[To(m)] # NoConn
  BY MapGrows, WorkerFacts DEF Core, NeverStored
<1>c. Stay(m) => InMail(m)' = {} /\ InTodo(m)' = {}
  BY DEF Stay, NeverStored
<1>d. ASSUME NEW w \in Workers, \A v \in Workers \ {w} : pc'[v] = pc[v] /\ msg'[v] = msg[v],
             ~ (pc'[w] = "save" /\ msg'[w] = m), InMail(m)' = {} /\ InTodo(m)' = {}
      PROVE  NeverStored(m)'
  BY <1>b, <1>d DEF NeverStored
<1>1. ASSUME \/ \E c \in Conns : Connect(c) \/ ClientSend(c) \/ ClientClose(c) \/ Accept(c) \/ Dispatch(c)
             \/ UNCHANGED vars
      PROVE  NeverStored(m)'
  <2>1. UNCHANGED <<pc, msg>>
    BY <1>1 DEF Connect, ClientSend, ClientClose, Accept, Dispatch, vars
  <2>2. Stay(m)
    BY <1>1, QuietStep
  <2>3. QED
    BY <1>b, <1>c, <2>1, <2>2 DEF NeverStored
<1>2. ASSUME NEW w \in Workers, Take(w) \/ Login(w) \/ Return(w) PROVE NeverStored(m)'
  <2>1. Stay(m)
    BY <1>2, QuietStep
  <2>2. /\ \A v \in Workers \ {w} : pc'[v] = pc[v] /\ msg'[v] = msg[v]
        /\ pc'[w] # "save"
    BY <1>2, <1>a DEF Take, Login, Return, Goto, WorkOK
  <2>3. QED
    BY <1>c, <1>d, <2>1, <2>2
<1>3. ASSUME NEW w \in Workers, Lookup(w) PROVE NeverStored(m)'
  <2>1. Stay(m)
    BY <1>3, QuietStep
  <2>2. /\ \A v \in Workers \ {w} : pc'[v] = pc[v] /\ msg'[v] = msg[v]
        /\ msg'[w] = m => pc'[w] # "save"
    BY <1>3, <1>a DEF Lookup, Sought, Route, Goto, WorkOK, NeverStored
  <2>3. QED
    BY <1>c, <1>d, <2>1, <2>2
<1>4. ASSUME NEW w \in Workers, Recv(w) PROVE NeverStored(m)'
  <2>1. InMail(m)' = {} /\ InTodo(m)' = {}
    BY <1>4, <1>c, RecvPlaces DEF NeverStored
  <2>2. /\ \A v \in Workers \ {w} : pc'[v] = pc[v] /\ msg'[v] = msg[v]
        /\ pc'[w] # "save"
    BY <1>4, <1>a DEF Recv, Case, Goto, WorkOK
  <2>3. QED
    BY <1>d, <2>1, <2>2
<1>5. ASSUME NEW w \in Workers, TakeOff(w) \/ SendOffline(w) PROVE NeverStored(m)'
  <2>1. Stay(m)
    BY <1>5, <1>a, TakeOffPlaces, SendOfflinePlaces DEF NeverStored
  <2>2. /\ \A v \in Workers \ {w} : pc'[v] = pc[v] /\ msg'[v] = msg[v]
        /\ pc'[w] # "save"
    BY <1>5, <1>a DEF TakeOff, SendOffline, Goto, WorkOK
  <2>3. QED
    BY <1>c, <1>d, <2>1, <2>2
<1>6. ASSUME NEW w \in Workers, Forward(w) \/ Save(w) PROVE NeverStored(m)'
  <2>1. InMail(m)' = {} /\ InTodo(m)' = {}
    <3>1. CASE Forward(w)
      BY <3>1, <1>c, ForwardPlaces DEF NeverStored
    <3>2. CASE Save(w)
      <4>1. msg[w] # m
        BY <3>2 DEF Save, NeverStored
      <4>2. QED
        BY <3>2, <4>1, <1>c, SavePlaces
    <3>3. QED
      BY <1>6, <3>1, <3>2
  <2>2. /\ \A v \in Workers \ {w} : pc'[v] = pc[v] /\ msg'[v] = msg[v]
        /\ pc'[w] # "save"
    BY <1>6, <1>a DEF Forward, Save, Goto, WorkOK
  <2>3. QED
    BY <1>d, <2>1, <2>2
<1>7. QED
  BY <1>1, <1>2, <1>3, <1>4, <1>5, <1>6 DEF Next, Handle

\* What is needed to say of every message where it is.
LEMMA Placed == Spec => [](Core /\ MailInv /\ PlaceInv)
<1>1. Init => PlaceInv
  BY InitPlaces
<1>2. Core /\ PlaceInv /\ [Next]_vars => PlaceInv'
  BY PlaceStep
<1>3. QED
  BY <1>1, <1>2, MailFiled, PTL DEF Spec

\* A message that is read after the login of its addressee was entered is never
\* stored, whatever the workers do in between (OnlineNotStored,
\* logic_service.c:388-391).
THEOREM OnlineNeverStored == Spec => OnlineNotStored
<1> SUFFICES ASSUME NEW m \in Messages
             PROVE  Spec => [](~Taken(m) /\ userMap[To(m)] # NoConn => [](InMail(m) = {} /\ InTodo(m) = {}))
  BY DEF OnlineNotStored
<1>1. PlaceInv /\ ~Taken(m) /\ userMap[To(m)] # NoConn => NeverStored(m)
  BY DEF PlaceInv, PlaceOf, NeverStored, InHand
<1>2. Core /\ PlaceInv /\ NeverStored(m) /\ [Next]_vars => NeverStored(m)'
  BY NeverStoredStep
<1>3. NeverStored(m) => InMail(m) = {} /\ InTodo(m) = {}
  BY DEF NeverStored
<1>4. QED
  BY <1>1, <1>2, <1>3, Placed, PTL DEF Spec

--------------------------------------------------------------------------------
(* The refinement of Messenger                                             *)

\* The value of Place(m) is told by which of its sets is not empty.
PlaceOK(m) ==
  /\ ~Taken(m) => Place(m) = <<"unsent">>
  /\ Taken(m) /\ (InMail(m) # {} \/ InTodo(m) # {}) => Place(m) = <<"kept">>
  /\ Taken(m) /\ InMail(m) = {} /\ InTodo(m) = {} /\ InOut(m) = {} => Place(m) = <<"taken">>
  /\ Taken(m) /\ InMail(m) = {} /\ InTodo(m) = {} =>
       \A c, i : <<c, i>> \in InOut(m) => Place(m) = <<"given", c>>

\* The same of all messages.
PlacesOK == \A m \in Messages : PlaceOK(m)

\* The abstract place of a message from where the server has it.
LEMMA PlaceValues == TypeOK /\ PlaceInv => PlacesOK
<1> SUFFICES ASSUME TypeOK, PlaceInv, NEW m \in Messages PROVE PlaceOK(m)
  BY DEF PlacesOK
<1>a. PlaceOf(m)
  BY DEF PlaceInv
<1>1. ~Taken(m) => Place(m) = <<"unsent">>
  BY <1>a DEF Place, PlaceOf
<1>2. Taken(m) /\ (InMail(m) # {} \/ InTodo(m) # {}) => Place(m) = <<"kept">>
  BY <1>a DEF Place, PlaceOf
<1>3. Taken(m) /\ InMail(m) = {} /\ InTodo(m) = {} /\ InOut(m) = {} => Place(m) = <<"taken">>
  BY <1>a DEF Place, PlaceOf
<1>4. ASSUME Taken(m), InMail(m) = {}, InTodo(m) = {}, NEW c, NEW i, <<c, i>> \in InOut(m)
      PROVE  Place(m) = <<"given", c>>
  <2>1. DOMAIN out = Conns
    BY DEF TypeOK
  <2>2. \A d, k : <<d, k>> \in InOut(m) <=> d \in Conns /\ k \in DOMAIN out[d] /\ out[d][k].msg = m
    <3>1. \A d, k : <<d, k>> \in InOut(m) <=> At(out, m, d, k)
      BY HoldingPlaces DEF InOut
    <3>2. QED
      BY <2>1, <3>1 DEF At
  <2>3. c \in Conns /\ \E k \in DOMAIN out[c] : out[c][k].msg = m
    BY <1>4, <2>2
  <2>4. Receiver(m) \in Conns /\ \E k \in DOMAIN out[Receiver(m)] : out[Receiver(m)][k].msg = m
    BY <2>3 DEF Receiver
  <2>5. PICK k : <<Receiver(m), k>> \in InOut(m)
    BY <2>2, <2>4
  <2>6. <<Receiver(m), k>> = <<c, i>>
    BY <1>4, <2>5 DEF PlaceInv, PlaceOf, Single
  <2>7. Place(m) = <<"given", Receiver(m)>>
    BY <1>4 DEF Place
  <2>8. QED
    BY <2>6, <2>7
<1>5. QED
  BY <1>1, <1>2, <1>3, <1>4 DEF PlaceOK

\* The same after a step.
LEMMA NextPlaceValues == TypeOK' /\ PlaceInv' => PlacesOK'
BY PlaceValues, PTL

\* A message that stays where it is has the same abstract place.
LEMMA StayPlace ==
  ASSUME TypeOK, PlaceInv, TypeOK', PlaceInv', NEW m \in Messages, Stay(m)
  PROVE  Place(m)' = Place(m)
<1>1. PlaceOK(m) /\ PlaceOK(m)'
  BY PlaceValues, NextPlaceValues DEF PlacesOK
<1>2. CASE ~Taken(m)
  BY <1>1, <1>2 DEF PlaceOK, Stay
<1>3. CASE Taken(m) /\ (InMail(m) # {} \/ InTodo(m) # {})
  BY <1>1, <1>3 DEF PlaceOK, Stay
<1>4. CASE Taken(m) /\ InMail(m) = {} /\ InTodo(m) = {} /\ InOut(m) = {}
  BY <1>1, <1>4 DEF PlaceOK, Stay
<1>5. CASE Taken(m) /\ InMail(m) = {} /\ InTodo(m) = {} /\ InOut(m) # {}
  <2>1. PICK x : x \in InOut(m)
    BY <1>5
  <2>2. <<x[1], x[2]>> \in InOut(m)
    BY <2>1, HoldingPlaces DEF InOut
  <2>3. QED
    BY <1>1, <1>5, <2>2 DEF PlaceOK, Stay
<1>6. QED
  BY <1>2, <1>3, <1>4, <1>5

\* Messenger's variables as functions of the server's state.
Places == [m \in Messages |-> Place(m)]
Present == {c \in Conns : read[c] > 0}

\* Every step of the server is a step of Messenger or leaves its variables.
LEMMA ChatStep ==
  ASSUME Core, MailInv, PlaceInv, Core', PlaceInv', [Next]_vars
  PROVE  Chat!Next \/ UNCHANGED Chat!msgVars
<1> USE DEF netVars, loopVars, poolVars, workVars, mailVars
<1>a. /\ TypeOK /\ TypeOK' /\ ReadOK /\ PoolOK /\ WorkOK /\ MapOK
      /\ \A v \in Workers : WorkOf(v)
      /\ \A n \in Messages : PlaceOf(n) /\ PlaceOK(n) /\ PlaceOK(n)'
  BY TypeParts, PlaceValues, NextPlaceValues DEF Core, WorkInv, PlaceInv, PlacesOK
<1>b. ASSUME \A n \in Messages : Place(n)' = Place(n) PROVE Places' = Places
  BY <1>b DEF Places
<1>c. ASSUME NEW m \in Messages, NEW v, Place(m)' = v, \A n \in Messages \ {m} : Place(n)' = Place(n)
      PROVE  Places' = [Places EXCEPT ![m] = v]
  BY <1>c DEF Places
<1>d. ASSUME UNCHANGED <<Places, Present, userMap>> PROVE UNCHANGED Chat!msgVars
  BY <1>d DEF Chat!msgVars, Places, Present
<1>e. \A n \in Messages : Stay(n) => Place(n)' = Place(n)
  BY <1>a, StayPlace
<1>f. UNCHANGED read => UNCHANGED Present
  BY DEF Present
<1>1. ASSUME \/ \E c \in Conns : Connect(c) \/ ClientSend(c) \/ ClientClose(c) \/ Accept(c) \/ Dispatch(c)
             \/ \E w \in Workers : Take(w) \/ Lookup(w) \/ Return(w)
             \/ UNCHANGED vars
      PROVE  UNCHANGED Chat!msgVars
  <2>1. \A n \in Messages : Stay(n)
    BY <1>1, QuietStep
  <2>2. UNCHANGED <<read, userMap>>
    <3>1. ASSUME NEW c \in Conns, Connect(c) \/ ClientSend(c) \/ ClientClose(c) \/ Accept(c) \/ Dispatch(c)
          PROVE  UNCHANGED <<read, userMap>>
      BY <3>1 DEF Connect, ClientSend, ClientClose, Accept, Dispatch
    <3>2. ASSUME NEW w \in Workers, Take(w) \/ Lookup(w) \/ Return(w)
          PROVE  UNCHANGED <<read, userMap>>
      BY <3>2 DEF Take, Lookup, Return
    <3>3. QED
      BY <1>1, <3>1, <3>2 DEF vars
  <2>3. QED
    BY <1>b, <1>d, <1>e, <1>f, <2>1, <2>2
<1>2. ASSUME NEW w \in Workers, Login(w) PROVE Chat!Next \/ UNCHANGED Chat!msgVars
  <2>a. PICK c : c = Fd(w)
    OBVIOUS
  <2>1. Places' = Places /\ Present' = Present
    BY <1>2, <1>b, <1>e, <1>f, QuietStep DEF Login
  <2>2. c \in Conns /\ c \in Present /\ User[c] \in Users
    BY <1>2, <1>a, <2>a, WorkerFacts DEF Login, WorkOf, Present, Core, ReadOK
  <2>3. userMap' = [userMap EXCEPT ![User[c]] = IF @ = NoConn THEN c ELSE @]
    BY <1>2, <2>a DEF Login, Online!Enter
  <2>4. CASE userMap[User[c]] = NoConn
    <3>1. userMap' = [userMap EXCEPT ![User[c]] = c]
      BY <2>3, <2>4
    <3>2. Chat!Settle(c)
      BY <2>1, <2>2, <2>4, <3>1 DEF Chat!Settle, Places, Present
    <3>3. QED
      BY <2>2, <3>2 DEF Chat!Next
  <2>5. CASE userMap[User[c]] # NoConn
    <3>1. userMap' = userMap
      BY <1>a, <2>2, <2>3, <2>5 DEF MapOK
    <3>2. QED
      BY <1>d, <2>1, <3>1
  <2>6. QED
    BY <2>4, <2>5
<1>3. ASSUME NEW w \in Workers, Recv(w) PROVE Chat!Next \/ UNCHANGED Chat!msgVars
  <2>a. PICK c, m : c = Fd(w) /\ m = <<c, read[c]>>
    OBVIOUS
  <2>1. c \in Conns /\ read[c] \in Nat /\ sent[c] \in Nat /\ userMap' = userMap
    BY <1>3, <1>a, <2>a, WorkerFacts DEF Recv, Core, ReadOK, TypeOK
  <2>2. \A n \in Messages : \/ Stay(n)
                            \/ /\ n = m /\ ~Taken(n) /\ Taken(n)'
                               /\ InMail(n)' = InMail(n) /\ InTodo(n)' = InTodo(n) /\ InOut(n)' = InOut(n)
    BY <1>3, <2>a, RecvPlaces
  <2>d. m[1] = c /\ m[2] = read[c] /\ read \in [Conns -> Nat]
    BY <1>a, <2>a DEF ReadOK
  <2>b. read[c] < sent[c] => /\ read' = [read EXCEPT ![c] = read[c] + 1] /\ msg'[w] = m
                             /\ pc'[w] = IF read[c] = 0 THEN "login" ELSE "lookup"
    BY <1>3, <1>a, <2>a, <2>1 DEF Recv, Goto, Case, WorkOK
  <2>c. ~(read[c] < sent[c]) => read' = read
    BY <1>3, <2>a DEF Recv
  <2>3. CASE read[c] < sent[c] /\ read[c] = 0
    <3>1. Present' = Present \cup {c}
      BY <2>1, <2>3, <2>d, <2>b DEF Present
    <3>2. m \notin Messages
      BY <2>3, <2>d DEF Messages
    <3>3. Places' = Places
      BY <1>b, <1>e, <2>2, <3>2
    <3>4. Chat!LogIn(c)
      BY <2>1, <3>1, <3>3 DEF Chat!LogIn, Places, Present
    <3>5. c \in Conns
      BY <2>1
    <3>6. QED
      BY <3>4, <3>5 DEF Chat!Next
  <2>4. CASE read[c] < sent[c] /\ read[c] # 0
    <3>1. Present' = Present
      BY <2>1, <2>4, <2>d, <2>b DEF Present
    <3>2. m \in Messages
      BY <2>4, <2>b DEF Core, WorkInv, WorkOf
    <3>3. ~Taken(m) /\ Taken(m)'
      BY <2>1, <2>4, <2>d, <2>b DEF Taken
    <3>4. InMail(m)' = {} /\ InTodo(m)' = {} /\ InOut(m)' = {}
      <4>1. InMail(m) = {} /\ InTodo(m) = {} /\ InOut(m) = {}
        BY <1>a, <3>2, <3>3 DEF PlaceOf
      <4>2. ~Stay(m)
        BY <3>3 DEF Stay
      <4>3. QED
        BY <2>2, <3>2, <4>1, <4>2
    <3>5. Place(m) = <<"unsent">> /\ Place(m)' = <<"taken">>
      <4>1. PlaceOK(m) /\ PlaceOK(m)'
        BY <1>a, <3>2
      <4>2. QED
        BY <3>3, <3>4, <4>1 DEF PlaceOK
    <3>6. \A n \in Messages \ {m} : Place(n)' = Place(n)
      BY <1>e, <2>2
    <3>7. Places' = [Places EXCEPT ![m] = <<"taken">>]
      BY <1>c, <3>2, <3>5, <3>6
    <3>8. Places[m] = <<"unsent">>
      BY <3>2, <3>5 DEF Places
    <3>9. Chat!TakeIn(m)
      BY <2>1, <3>1, <3>7, <3>8 DEF Chat!TakeIn, Chat!Unsent, Chat!Taken, Places, Present
    <3>10. QED
      BY <3>2, <3>9 DEF Chat!Next
  <2>5. CASE ~(read[c] < sent[c])
    <3>1. read' = read
      BY <2>5, <2>c
    <3>2. \A n \in Messages : Stay(n)
      BY <2>2, <3>1 DEF Taken
    <3>3. QED
      BY <1>b, <1>d, <1>e, <1>f, <2>1, <3>1, <3>2
  <2>6. QED
    BY <2>3, <2>4, <2>5
<1>4. ASSUME NEW w \in Workers, Save(w) PROVE Chat!Next \/ UNCHANGED Chat!msgVars
  <2>1. PICK m : m = msg[w] /\ m \in Messages
    BY <1>4, <1>a DEF Save, WorkOf
  <2>2. UNCHANGED <<read, userMap>> /\ Present' = Present
    BY <1>4, <1>f DEF Save
  <2>3. /\ w \in InHand(m) /\ InTodo(m)' = InTodo(m) /\ InOut(m)' = InOut(m) /\ (Taken(m)' <=> Taken(m))
        /\ up' => \E x : InMail(m)' = InMail(m) \cup {x}
        /\ ~up' => InMail(m)' = InMail(m)
    BY <1>4, <2>1, SavePlaces
  <2>4. Taken(m) /\ InMail(m) = {} /\ InTodo(m) = {} /\ InOut(m) = {}
    BY <1>a, <2>1, <2>3 DEF PlaceOf
  <2>5. Place(m) = <<"taken">>
    BY <1>a, <2>1, <2>4 DEF PlaceOK
  <2>6. \A n \in Messages \ {m} : Place(n)' = Place(n)
    BY <1>4, <1>e, <2>1, SavePlaces
  <2>7. CASE up'
    <3>1. Place(m)' = <<"kept">>
      BY <1>a, <2>1, <2>3, <2>4, <2>7 DEF PlaceOK
    <3>2. Places' = [Places EXCEPT ![m] = <<"kept">>] /\ Places[m] = <<"taken">>
      BY <1>c, <2>1, <2>5, <2>6, <3>1 DEF Places
    <3>3. Chat!Keep(m)
      BY <2>2, <3>2 DEF Chat!Keep, Chat!Taken, Chat!Kept, Places, Present
    <3>4. QED
      BY <2>1, <3>3 DEF Chat!Next
  <2>8. CASE ~up'
    <3>1. Place(m)' = <<"taken">>
      BY <1>a, <2>1, <2>3, <2>4, <2>8 DEF PlaceOK
    <3>2. QED
      BY <1>b, <1>d, <2>2, <2>5, <2>6, <3>1
  <2>9. QED
    BY <2>7, <2>8
<1>5. ASSUME NEW w \in Workers, Forward(w) PROVE Chat!Next \/ UNCHANGED Chat!msgVars
  <2>1. PICK m : m = msg[w] /\ m \in Messages
    BY <1>5, <1>a DEF Forward, WorkOf
  <2>2. UNCHANGED <<read, userMap>> /\ Present' = Present
    BY <1>5, <1>f DEF Forward
  <2>3. /\ w \in InHand(m) /\ InMail(m)' = InMail(m) /\ InTodo(m)' = InTodo(m) /\ (Taken(m)' <=> Taken(m))
        /\ up' => \E i : InOut(m)' = InOut(m) \cup {<<target[w], i>>}
        /\ ~up' => InOut(m)' = InOut(m)
    BY <1>5, <2>1, ForwardPlaces
  <2>4. Taken(m) /\ InMail(m) = {} /\ InTodo(m) = {} /\ InOut(m) = {}
    BY <1>a, <2>1, <2>3 DEF PlaceOf
  <2>5. Place(m) = <<"taken">>
    BY <1>a, <2>1, <2>4 DEF PlaceOK
  <2>6. \A n \in Messages \ {m} : Place(n)' = Place(n)
    BY <1>5, <1>e, <2>1, ForwardPlaces
  <2>7. CASE up'
    <3>1. target[w] \in Conns /\ target[w] = userMap[To(m)]
      BY <1>5, <1>a, <2>1 DEF Forward, WorkOf, WorkOK
    <3>2. Place(m)' = <<"given", target[w]>>
      <4>1. PICK i : <<target[w], i>> \in InOut(m)'
        BY <2>3, <2>7
      <4>2. QED
        BY <1>a, <2>1, <2>3, <2>4, <4>1 DEF PlaceOK
    <3>3. Places' = [Places EXCEPT ![m] = <<"given", target[w]>>] /\ Places[m] = <<"taken">>
      BY <1>c, <2>1, <2>5, <2>6, <3>2 DEF Places
    <3>4. Chat!Give(m, target[w])
      BY <2>1, <2>2, <3>1, <3>3 DEF Chat!Give, Chat!Taken, Chat!Given, Places, Present
    <3>5. QED
      BY <2>1, <3>1, <3>4 DEF Chat!Next
  <2>8. CASE ~up'
    <3>1. Place(m)' = <<"taken">>
      BY <1>a, <2>1, <2>3, <2>4, <2>8 DEF PlaceOK
    <3>2. QED
      BY <1>b, <1>d, <2>2, <2>5, <2>6, <3>1
  <2>9. QED
    BY <2>7, <2>8
<1>6. ASSUME NEW w \in Workers, TakeOff(w) PROVE Chat!Next \/ UNCHANGED Chat!msgVars
  <2>1. UNCHANGED <<read, userMap>> /\ Present' = Present
    BY <1>6, <1>f DEF TakeOff
  <2>2. ASSUME NEW n \in Messages PROVE Place(n)' = Place(n)
    <3>1. CASE Stay(n)
      BY <1>e, <3>1
    <3>2. CASE ~Stay(n)
      <4>1. InMail(n) # {} /\ InTodo(n)' # {} /\ (Taken(n)' <=> Taken(n))
        BY <1>6, <1>a, <3>2, TakeOffPlaces
      <4>2. Taken(n)
        BY <1>a, <4>1 DEF PlaceOf
      <4>3. QED
        BY <1>a, <4>1, <4>2 DEF PlaceOK
    <3>3. QED
      BY <3>1, <3>2
  <2>3. QED
    BY <1>b, <1>d, <2>1, <2>2
<1>7. ASSUME NEW w \in Workers, SendOffline(w) PROVE Chat!Next \/ UNCHANGED Chat!msgVars
  <2>a. PICK c : c = Fd(w)
    OBVIOUS
  <2>1. UNCHANGED <<read, userMap>> /\ Present' = Present
    BY <1>7, <1>f DEF SendOffline
  <2>2. CASE \A n \in Messages : Stay(n)
    BY <1>b, <1>d, <1>e, <2>1, <2>2
  <2>3. ASSUME NEW m \in Messages, ~Stay(m) PROVE Chat!Next
    <3>1. /\ InMail(m)' = InMail(m) /\ (Taken(m)' <=> Taken(m))
          /\ More(w) /\ m = Head(todo[w]).msg
          /\ InTodo(m) # {} /\ InTodo(m)' = {}
          /\ \E i : InOut(m)' = InOut(m) \cup {<<c, i>>}
      BY <1>7, <1>a, <2>a, <2>3, SendOfflinePlaces
    <3>2. c \in Conns /\ c \in Present
      BY <1>7, <1>a, <2>a, WorkerFacts DEF SendOffline, WorkOf, Present, Core
    <3>3. User[c] = To(m)
      <4>1. 1 \in DOMAIN todo[w] /\ todo[w][1].msg = m
        <5>1. todo[w] \in Seq(Nodes)
          BY <1>a DEF WorkOK
        <5>2. Head(todo[w]) = todo[w][1] /\ Len(todo[w]) \in Nat \ {0}
          BY <1>a, <3>1, HeadSent
        <5>3. QED
          BY <3>1, <5>1, <5>2, LenProperties
      <4>2. QED
        BY <2>a, <4>1 DEF MailInv
    <3>4. Taken(m) /\ InMail(m) = {} /\ InOut(m) = {}
      BY <1>a, <3>1 DEF PlaceOf
    <3>5. Place(m) = <<"kept">>
      BY <1>a, <3>1, <3>4 DEF PlaceOK
    <3>6. Place(m)' = <<"given", c>>
      <4>1. PICK i : <<c, i>> \in InOut(m)'
        BY <3>1
      <4>2. QED
        BY <1>a, <3>1, <3>4, <4>1 DEF PlaceOK
    <3>7. \A n \in Messages \ {m} : Place(n)' = Place(n)
      BY <1>7, <1>a, <1>e, <3>1, SendOfflinePlaces
    <3>8. Places' = [Places EXCEPT ![m] = <<"given", c>>] /\ Places[m] = <<"kept">>
      BY <1>c, <3>5, <3>6, <3>7 DEF Places
    <3>9. Chat!Give(m, c)
      BY <2>1, <3>2, <3>3, <3>8 DEF Chat!Give, Chat!Kept, Chat!Given, Places, Present
    <3>10. QED
      BY <3>2, <3>9 DEF Chat!Next
  <2>4. QED
    BY <2>2, <2>3
<1>8. QED
  BY <1>1, <1>2, <1>3, <1>4, <1>5, <1>6, <1>7 DEF Next, Handle

\* The server implements Messenger for any number of clients and workers: a
\* message is given once, to the first login of its addressee or, when it was
\* stored, to a connection on which the addressee has logged in (MessengerSpec).
THEOREM ImplementsMessenger == Spec => MessengerSpec
<1>1. Init => Chat!Init
  <2> SUFFICES ASSUME Init PROVE Chat!Init
    OBVIOUS
  <2>1. \A m \in Messages : Place(m) = <<"unsent">>
    <3>1. \A m \in Messages : ~Taken(m)
      BY FrameFacts DEF Init, Taken, Messages
    <3>2. PlacesOK
      BY InitPlaces, PlaceValues, CoreInit DEF Core
    <3>3. QED
      BY <3>1, <3>2 DEF PlacesOK, PlaceOK
  <2>2. {c \in Conns : read[c] > 0} = {}
    BY DEF Init
  <2>3. QED
    BY <2>1, <2>2 DEF Init, Chat!Init, Chat!Unsent
<1>2. Core /\ MailInv /\ PlaceInv /\ Core' /\ PlaceInv' /\ [Next]_vars => [Chat!Next]_(Chat!msgVars)
  BY ChatStep
<1>3. QED
  BY <1>1, <1>2, Placed, PTL DEF Spec, MessengerSpec, Chat!Spec

================================================================================
