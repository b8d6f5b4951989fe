-------------------------------- MODULE MSQueue --------------------------------
(***************************************************************************)
(* The lock-free message queue of logic_service.c: msg_queue_init,         *)
(* msg_enqueue and msg_dequeue.  A linked list with a dummy node at its    *)
(* head; every read of shared memory and every compare-and-swap is a step. *)
(* Nodes come from malloc and go back to it, so an address may come round  *)
(* again.  Plain stores go only to nodes not yet linked and are followed   *)
(* by a compare-and-swap, which is a full barrier, and the build does not  *)
(* optimise, so every read happens where it is written and memory is       *)
(* taken as sequentially consistent.                                       *)
(***************************************************************************)
EXTENDS Naturals, Sequences, FiniteSets

CONSTANTS Producers,  \* threads that call msg_enqueue
          Consumers,  \* threads that call msg_dequeue
          Nodes,      \* the addresses malloc hands out: bounds the heap
          Count,      \* bound on the messages of one producer
          Uses,       \* how the queue may be used: see use
          Null

Callers == Producers \cup Consumers

ASSUME QueueAssumption ==
  /\ Producers \cap Consumers = {}
  /\ IsFiniteSet(Nodes) /\ Nodes # {} /\ Null \notin Nodes
  /\ Count \in Nat
  /\ Uses \subseteq [count : [Producers -> 0 .. Count], consumers : SUBSET Consumers,
                     together : BOOLEAN, running : SUBSET Callers]

VARIABLES use,        \* the messages each producer enqueues; the consumers that
                      \* call, again and again; whether they may while others
                      \* enqueue; the threads that are never stopped for ever
          live,       \* nodes allocated and not freed
          val,        \* msg of each node
          next,       \* next of each node
          head, tail, \* the two pointers of msg_queue
          pc,
          reg,        \* the locals of each thread, by name (nxt is next)
          sent,       \* calls of msg_enqueue begun, of a producer
          got,        \* history: messages taken, by each consumer, in order
          sawEmpty    \* history: the consumers whose present call has met an
                      \* empty queue at some moment

heapVars == <<live, val, next>>
listVars == <<heapVars, head, tail>>
callVars == <<sent, got>>
vars == <<use, listVars, pc, reg, callVars, sawEmpty>>

Messages == Producers \X (1 .. Count)
Pointers == Nodes \cup {Null}
NoLocals == [new |-> Null, first |-> Null, last |-> Null, nxt |-> Null, msg |-> Null]

\* s is the chain of nodes from n to Null along the link f.
IsChain(f, n, s) ==
  /\ s[1] = n /\ f[s[Len(s)]] = Null
  /\ \A i \in 1 .. Len(s) - 1 : f[s[i]] = s[i + 1]
Paths == UNION {[1 .. k -> Nodes] : k \in 1 .. Cardinality(Nodes)}
Chain(f, n) ==
  IF \E s \in Paths : IsChain(f, n, s) THEN CHOOSE s \in Paths : IsChain(f, n, s) ELSE <<>>

\* The nodes from head on, and the messages between the dummy and the end.
List == Chain(next, head)
Items == [i \in 1 .. Len(List) - 1 |-> val[List[i + 1]]]

Init ==
  /\ use \in Uses
  /\ \E dummy \in Nodes : live = {dummy} /\ head = dummy /\ tail = dummy
  /\ val = [n \in Nodes |-> Null]
  /\ next = [n \in Nodes |-> Null]
  /\ pc = [t \in Callers |-> "idle"]
  /\ reg = [t \in Callers |-> NoLocals]
  /\ sent = [p \in Producers |-> 0]
  /\ got = [c \in Consumers |-> <<>>]
  /\ sawEmpty = {}

\* t goes to a place; a call that returns leaves its locals.
Goto(t, place) == pc' = [pc EXCEPT ![t] = place]
Jump(t, place) ==
  /\ Goto(t, place)
  /\ reg' = IF place = "idle" THEN [reg EXCEPT ![t] = NoLocals] ELSE reg

\* At the place from, t reads one of values into a local and goes on.
Read(t, from, to, local, values) ==
  /\ pc[t] = from
  /\ \E x \in values : reg' = [reg EXCEPT ![t][local] = x]
  /\ Goto(t, to)
  /\ UNCHANGED <<listVars, callVars>>

\* __sync_bool_compare_and_swap(&q->tail, old, to), its result ignored.
SwingTail(old, to) == tail' = IF tail = old THEN to ELSE tail

\* What a read of n->next and of n->msg may return: anything once n is freed.
NextOf(n) == IF n \in live THEN {next[n]} ELSE Pointers
MsgOf(n) == IF n \in live THEN {val[n]} ELSE Messages \cup {Null}

--------------------------------------------------------------------------------
(* msg_enqueue                                                             *)

Allocate(p) ==
  /\ pc[p] = "idle" /\ sent[p] < use.count[p]
  /\ \E n \in Nodes \ live :
       /\ live' = live \cup {n}
       /\ val' = [val EXCEPT ![n] = <<p, sent[p] + 1>>]
       /\ next' = [next EXCEPT ![n] = Null]
       /\ reg' = [reg EXCEPT ![p].new = n]
  /\ sent' = [sent EXCEPT ![p] = @ + 1]
  /\ Goto(p, "tail")
  /\ UNCHANGED <<head, tail, got>>

ReadTail(p) == Read(p, "tail", "next", "last", {tail})

ReadNext(p) == Read(p, "next", "check", "nxt", NextOf(reg[p].last))

\* A tail that is unchanged and lags is not helped: the loop just goes round.
CheckTail(p) ==
  /\ pc[p] = "check"
  /\ \/ reg[p].last = tail /\ reg[p].nxt = Null /\ Goto(p, "link")
     \/ reg[p].last = tail /\ reg[p].nxt # Null /\ Goto(p, "tail")
     \/ reg[p].last # tail /\ Goto(p, "help")
  /\ UNCHANGED <<listVars, reg, callVars>>

\* Faulty variant of LinkSucceeds: a plain store for the compare-and-swap.
StoreLink(p) == TRUE

LinkSucceeds(p) == Null \in NextOf(reg[p].last)

Link(p) ==
  /\ pc[p] = "link"
  /\ \/ /\ LinkSucceeds(p)
        /\ next' = [next EXCEPT ![reg[p].last] = reg[p].new]
        /\ Goto(p, "swing")
     \/ /\ NextOf(reg[p].last) # {Null}
        /\ Goto(p, "tail")
        /\ UNCHANGED next
  /\ UNCHANGED <<live, val, head, tail, reg, callVars>>

\* Faulty variant of SwingToNew: the tail is left to others.
NoSwing(p) == UNCHANGED tail

SwingToNew(p) == SwingTail(reg[p].last, reg[p].new)

Swing(p) ==
  /\ pc[p] = "swing"
  /\ SwingToNew(p)
  /\ Jump(p, "idle")
  /\ UNCHANGED <<heapVars, head, callVars>>

\* Reached when tail has moved on from last, so the swap fails unless the
\* address has come round again.
EnqueueHelp(p) ==
  /\ pc[p] = "help"
  /\ SwingTail(reg[p].last, reg[p].nxt)
  /\ Goto(p, "tail")
  /\ UNCHANGED <<heapVars, head, reg, callVars>>

--------------------------------------------------------------------------------
(* msg_dequeue                                                             *)

\* Unless the use has calls together, nobody dequeues before every message has
\* been enqueued.
MayDequeue(c) ==
  /\ c \in use.consumers
  /\ use.together \/ \A p \in Producers : pc[p] = "idle" /\ sent[p] = use.count[p]

ReadHead(c) ==
  /\ pc[c] = "head" \/ (pc[c] = "idle" /\ MayDequeue(c))
  /\ Read(c, pc[c], "last", "first", {head})

ReadLast(c) == Read(c, "last", "first", "last", {tail})

ReadFirst(c) == Read(c, "first", "check", "nxt", NextOf(reg[c].first))

\* Faulty variants of AfterCheck: a lagging tail is taken for an empty queue,
\* is not looked at, or is helped when there is nothing to help with.
EmptyWhenTailLags(r) ==
  IF head # r.first THEN "head" ELSE IF r.first = r.last THEN "idle" ELSE "msg"
IgnoresTail(r) ==
  IF head # r.first THEN "head" ELSE IF r.nxt = Null THEN "idle" ELSE "msg"
AlwaysHelps(r) ==
  IF head # r.first THEN "head" ELSE IF r.first = r.last THEN "help" ELSE "msg"

\* Where the three tests lead with the locals r: round again, to a return of
\* NULL, to the tail that lags, or to the message.
AfterCheck(r) ==
  CASE head # r.first                       -> "head"
    [] head = r.first /\ r.first # r.last   -> "msg"
    [] OTHER                                -> IF r.nxt = Null THEN "idle" ELSE "help"

CheckHead(c) ==
  /\ pc[c] = "check"
  /\ Jump(c, AfterCheck(reg[c]))
  /\ UNCHANGED <<listVars, callVars>>

\* Faulty variant of HelpTail: the loop just goes round, as in msg_enqueue.
NoHelp(c) == UNCHANGED tail

HelpTail(c) == SwingTail(reg[c].last, reg[c].nxt)

DequeueHelp(c) ==
  /\ pc[c] = "help"
  /\ HelpTail(c)
  /\ Goto(c, "head")
  /\ UNCHANGED <<heapVars, head, reg, callVars>>

\* Faulty variant of ReadMsg: the dummy's message instead of its successor's.
ReadDummy(c) == Read(c, "msg", "take", "msg", MsgOf(reg[c].first))

ReadMsg(c) == Read(c, "msg", "take", "msg", MsgOf(reg[c].nxt))

\* Faulty variant of TakeSucceeds: a plain store for the compare-and-swap.
StoreHead(c) == TRUE

TakeSucceeds(c) == head = reg[c].first

Take(c) ==
  /\ pc[c] = "take"
  /\ \/ /\ TakeSucceeds(c)
        /\ head' = reg[c].nxt
        /\ got' = [got EXCEPT ![c] = Append(@, reg[c].msg)]
        /\ Goto(c, "free")
     \/ /\ ~TakeSucceeds(c)
        /\ Goto(c, "head")
        /\ UNCHANGED <<head, got>>
  /\ UNCHANGED <<heapVars, tail, reg, sent>>

\* Faulty variant of Freed: the node that is the dummy from now on.
FreesNew(c) == reg[c].nxt

Freed(c) == reg[c].first

Free(c) ==
  /\ pc[c] = "free"
  /\ live' = live \ {Freed(c)}
  /\ Jump(c, "idle")
  /\ UNCHANGED <<val, next, head, tail, callVars>>

--------------------------------------------------------------------------------
Enqueue(p) ==
  \/ Allocate(p) \/ ReadTail(p) \/ ReadNext(p) \/ CheckTail(p)
  \/ Link(p) \/ Swing(p) \/ EnqueueHelp(p)

Dequeue(c) ==
  \/ ReadHead(c) \/ ReadLast(c) \/ ReadFirst(c) \/ CheckHead(c)
  \/ DequeueHelp(c) \/ ReadMsg(c) \/ Take(c) \/ Free(c)

\* A call that has met an empty queue; a new call starts afresh.
WatchEmpty ==
  /\ sawEmpty' = {c \in Consumers : Items' = <<>> \/ (c \in sawEmpty /\ pc[c] # "idle")}
  /\ UNCHANGED use

EnqueueStep(p) == Enqueue(p) /\ WatchEmpty
DequeueStep(c) == Dequeue(c) /\ WatchEmpty

Next ==
  \/ \E p \in Producers : EnqueueStep(p)
  \/ \E c \in Consumers : DequeueStep(c)

Spec == Init /\ [][Next]_vars

\* Only the threads the use has running are scheduled for ever; every other one
\* may be stopped for good between any two steps.
FairSpec ==
  /\ Spec
  /\ \A p \in Producers : WF_vars(p \in use.running /\ EnqueueStep(p))
  /\ \A c \in Consumers : WF_vars(c \in use.running /\ DequeueStep(c))

--------------------------------------------------------------------------------
(* Properties                                                              *)

\* Every variable has its type; head and tail are never NULL.
TypeOK ==
  /\ use \in Uses
  /\ live \subseteq Nodes
  /\ val \in [Nodes -> Messages \cup {Null}] /\ next \in [Nodes -> Pointers]
  /\ head \in Nodes /\ tail \in Nodes
  /\ pc \in [Callers -> {"idle", "tail", "next", "check", "link", "swing", "help",
                         "head", "last", "first", "msg", "take", "free"}]
  /\ reg \in [Callers -> [new : Pointers, first : Pointers, last : Pointers, nxt : Pointers,
                          msg : Messages \cup {Null}]]
  /\ sent \in [Producers -> 0 .. Count]
  /\ got \in [Consumers -> Seq(Messages)]
  /\ sawEmpty \subseteq Consumers

\* One producer and one consumer at the most: what the queue is safe for while
\* its nodes are reused.
OneEach(u) ==
  /\ \A p, q \in Producers : u.count[p] > 0 /\ u.count[q] > 0 => p = q
  /\ \A c, d \in u.consumers : c = d

\* Or nobody dequeues before every message has been enqueued.
Orderly(u) == OneEach(u) \/ ~u.together

\* Between one producer and one consumer no thread is about to follow a pointer
\* to a node that has been freed or a NULL one: last->next at lines 224 and 227,
\* first->next at 247, next->msg at 255.  msg_dequeue frees its old head at once
\* (257), so this rests on what the other thread can still hold.
NoUseAfterFree ==
  OneEach(use) =>
    /\ \A p \in Producers : pc[p] \in {"next", "link"} => reg[p].last \in live
    /\ \A c \in Consumers : /\ pc[c] = "first" => reg[c].first \in live
                            /\ pc[c] = "msg" => reg[c].nxt \in live

\* tail is on the list that starts at head and at most one node from its end,
\* though enqueuer and dequeuer both move it and the dequeuer moves head
\* (lines 228, 253, 256).
TailNearEnd ==
  \E i \in {Len(List) - 1, Len(List)} : i > 0 /\ tail = List[i]

\* Between one producer and one consumer, and when the producers are done,
\* msg_dequeue returns NULL (line 251) only if the queue was empty at some moment
\* of the call.
NullMeansEmpty ==
  [][Orderly(use) => \A c \in Consumers : pc[c] = "check" /\ pc'[c] = "idle" => c \in sawEmpty]_vars

\* The queue is first-in first-out: the link swap (227) is the moment of an
\* enqueue, the head swap (256) that of a dequeue, and no message is lost,
\* doubled or overtaken.
Queue == INSTANCE MessageQueue WITH items <- Items
QueueSpec == Queue!Spec

\* A message that is linked is taken by a consumer that keeps calling, even if
\* its producer is stopped before it has swung the tail (between 227 and 228).
LinkedIsTaken ==
  \A m \in Messages :
    (\E i \in DOMAIN Items : Items[i] = m)
      ~> (\E c \in Consumers : \E i \in DOMAIN got[c] : got[c][i] = m)

\* With no thread stopped every call of msg_enqueue returns.  (A producer that
\* stops before line 228 makes every other one spin: see the README.)
EnqueueReturns ==
  \A p \in Producers : p \in use.running /\ pc[p] # "idle" ~> pc[p] = "idle"
================================================================================
