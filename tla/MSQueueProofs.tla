----------------------------- MODULE MSQueueProofs -----------------------------
(* Proofs about MSQueue in its two uses, for every number of messages and of  *)
(* addresses: one producer and one consumer, between whom malloc may hand an  *)
(* address out again as soon as it has been freed; and any number of          *)
(* producers, followed by any number of consumers.                            *)
EXTENDS MSQueue, FiniteSetTheorems, WellFoundedInduction, TLAPS

Size == Len(List)

\* The list is a chain of different nodes, all allocated, and what follows the
\* dummy holds messages.
ListInv ==
  /\ List \in Paths /\ IsChain(next, head, List)
  /\ \A i, j \in 1 .. Size : List[i] = List[j] => i = j
  /\ \A i \in 1 .. Size : List[i] \in live
  /\ \A i \in 2 .. Size : val[List[i]] \in Messages

\* Only a producer between its two swaps leaves tail behind.
TailInv ==
  \/ tail = List[Size]
  \/ /\ Size > 1 /\ tail = List[Size - 1]
     /\ \E p \in Producers : pc[p] = "swing" /\ reg[p].last = tail

\* What a producer holds: its own node, and the last one of the list.
Unlinked(p) == pc[p] \in {"tail", "next", "check", "link", "help"}
ProducerAt(p) ==
  /\ pc[p] \in {"idle", "tail", "next", "check", "link", "swing"}
  /\ pc[p] # "idle" => use.count[p] > 0 /\ sent[p] > 0
  /\ Unlinked(p) => /\ reg[p].new \in live /\ \A i \in 1 .. Size : List[i] # reg[p].new
                    /\ next[reg[p].new] = Null /\ val[reg[p].new] = <<p, sent[p]>>
  /\ pc[p] \in {"next", "check", "link"} => reg[p].last = List[Size]
  /\ pc[p] = "check" => reg[p].nxt = Null
  /\ pc[p] = "swing" => reg[p].new = List[Size] /\ reg[p].last # reg[p].new
ProducerInv == \A p \in Producers : ProducerAt(p)

\* What a consumer holds: the dummy, which only it moves, and what followed it.
ConsumerAt(c) ==
  /\ pc[c] \in {"idle", "head", "last", "first", "check", "help", "msg", "take", "free"}
  /\ pc[c] # "idle" => c \in use.consumers
  /\ pc[c] \in {"last", "first", "check", "help", "msg", "take"} => reg[c].first = head
  /\ pc[c] \in {"first", "check"} /\ reg[c].last # head => tail # head
  /\ pc[c] = "check" => \/ reg[c].nxt = next[head] /\ reg[c].nxt # Null
                        \/ reg[c].nxt = Null /\ reg[c].last = head /\ c \in sawEmpty
  /\ pc[c] \in {"help", "msg", "take"} => reg[c].nxt = next[head] /\ reg[c].nxt # Null
  /\ pc[c] = "help" => reg[c].last = head
  /\ pc[c] \in {"msg", "take"} => tail # head
  /\ pc[c] = "take" => reg[c].msg = val[reg[c].nxt]
  /\ pc[c] = "free" => /\ reg[c].first \in live /\ \A i \in 1 .. Size : List[i] # reg[c].first
                       /\ \A p \in Producers : Unlinked(p) => reg[p].new # reg[c].first
ConsumerInv == \A c \in Consumers : ConsumerAt(c)

QInv == TypeOK /\ ListInv /\ TailInv /\ ProducerInv /\ ConsumerInv

\* Every message whose node has been linked is in the queue or was taken.
Linked(p) == IF Unlinked(p) THEN sent[p] - 1 ELSE sent[p]
SeenInv == Queue!Seen = {m \in Messages : m[2] <= Linked(m[1])}

\* The other use: any number of producers, and when they have enqueued all they
\* have any number of consumers.
AllSent == \A p \in Producers : pc[p] = "idle" /\ sent[p] = use.count[p]
Off(n) == \A i \in 1 .. Size : List[i] # n

\* A producer holds its own node, which nobody else has, and a node of the list
\* no further on than tail; only one is between its two swaps.
ProducerTurn(p) ==
  /\ pc[p] \in {"idle", "tail", "next", "check", "link", "swing", "help"}
  /\ pc[p] # "idle" => sent[p] > 0
  /\ Unlinked(p) => /\ reg[p].new \in live /\ Off(reg[p].new)
                    /\ next[reg[p].new] = Null /\ val[reg[p].new] = <<p, sent[p]>>
                    /\ \A q \in Producers : Unlinked(q) /\ q # p => reg[q].new # reg[p].new
  /\ pc[p] \in {"next", "check", "link", "help"} =>
       \E i, k \in 1 .. Size : i <= k /\ reg[p].last = List[i] /\ tail = List[k]
  /\ pc[p] = "help" => reg[p].last # tail
  /\ pc[p] = "swing" => /\ Size > 1 /\ tail = List[Size - 1]
                        /\ reg[p].last = tail /\ reg[p].new = List[Size]
                        /\ \A q \in Producers : pc[q] = "swing" => q = p

\* A consumer holds the dummy and what follows it, or a node that has left the
\* list, with which none of its swaps succeeds; tail no longer moves.
ConsumerTurn(c) ==
  /\ pc[c] \in {"idle", "head", "last", "first", "check", "msg", "take", "free"}
  /\ pc[c] # "idle" => AllSent /\ (Items = <<>> => c \in sawEmpty)
  /\ pc[c] \in {"last", "first", "check", "msg", "take"} => reg[c].first = head \/ Off(reg[c].first)
  /\ pc[c] \in {"first", "check"} => reg[c].last = tail
  /\ pc[c] \in {"check", "msg", "take"} /\ reg[c].first = head => reg[c].nxt = next[head]
  /\ pc[c] \in {"msg", "take"} /\ reg[c].first = head => next[head] # Null
  /\ pc[c] = "take" /\ reg[c].first = head => reg[c].msg = val[next[head]]
  /\ pc[c] = "free" => Off(reg[c].first)

TurnInv ==
  /\ TypeOK /\ ListInv /\ TailInv
  /\ \A p \in Producers : ProducerTurn(p)
  /\ \A c \in Consumers : ConsumerTurn(c)

SafeInv ==
  /\ OneEach(use) => QInv /\ SeenInv
  /\ ~use.together => TurnInv /\ SeenInv

--------------------------------------------------------------------------------
(* Chains                                                                  *)

\* A set of numbers that is not empty has a least one.
LEMMA LeastNat ==
  ASSUME NEW T \in SUBSET Nat, T # {}
  PROVE  \E x \in T : \A y \in T : x <= y
<1>1. PICK x \in T : \A y \in T : ~ (<<y, x>> \in OpToRel(<, Nat))
  BY NatLessThanWellFounded, WFMin
<1>2. \A y \in T : ~(y < x)
  BY <1>1 DEF OpToRel
<1>3. QED
  BY <1>2

\* A chain without repetition is no longer than there are nodes.
LEMMA ChainBound ==
  ASSUME NEW s \in Seq(Nodes), Len(s) > 0, \A i, j \in 1 .. Len(s) : s[i] = s[j] => i = j
  PROVE  s \in Paths
<1>1. s \in [1 .. Len(s) -> Nodes] /\ Len(s) \in Nat /\ IsFiniteSet(Nodes)
  BY QueueAssumption
<1>2. s \in Injection(1 .. Len(s), Nodes)
  BY <1>1 DEF Injection, IsInjective
<1>3. Cardinality(1 .. Len(s)) <= Cardinality(Nodes)
  BY <1>1, <1>2, FS_Injection
<1>4. 1 \in Int /\ Len(s) \in Int /\ ~(1 > Len(s))
  BY <1>1
<1>5. Cardinality(1 .. Len(s)) = IF 1 > Len(s) THEN 0 ELSE Len(s) - 1 + 1
  BY <1>4, FS_Interval
<1>6. Cardinality(Nodes) \in Nat
  BY <1>1, FS_CardinalityType
<1>7. Len(s) \in 1 .. Cardinality(Nodes)
  BY <1>1, <1>3, <1>4, <1>5, <1>6
<1>8. QED
  BY <1>1, <1>7 DEF Paths

\* Two chains from one node are one.
LEMMA ChainUnique ==
  ASSUME NEW f, NEW n, NEW s \in Seq(Nodes), Len(s) > 0, IsChain(f, n, s),
         NEW r \in Seq(Nodes), Len(r) > 0, IsChain(f, n, r)
  PROVE  r = s
<1>1. /\ Len(s) \in Nat /\ Len(r) \in Nat /\ Null \notin Nodes
      /\ \A i \in 1 .. Len(s) : s[i] \in Nodes
      /\ \A i \in 1 .. Len(r) : r[i] \in Nodes
  BY QueueAssumption
<1>2. \A i \in 1 .. Len(s) : i <= Len(r) => r[i] = s[i]
  <2> DEFINE T == {i \in Nat : i \in 1 .. Len(s) /\ i <= Len(r) /\ r[i] # s[i]}
  <2> SUFFICES T = {}
    OBVIOUS
  <2>1. ASSUME T # {} PROVE FALSE
    <3>1. PICK x \in T : \A y \in T : x <= y
      BY <2>1, LeastNat
    <3>2. x # 1
      BY <3>1 DEF IsChain
    <3>3. x - 1 \in 1 .. Len(s) - 1 /\ x - 1 \in 1 .. Len(r) - 1 /\ x - 1 \notin T
      BY <1>1, <3>1, <3>2
    <3>4. r[x - 1] = s[x - 1]
      BY <3>3
    <3>5. r[x] = f[r[x - 1]] /\ s[x] = f[s[x - 1]]
      BY <3>1, <3>3 DEF IsChain
    <3>6. QED
      BY <3>1, <3>4, <3>5
  <2>2. QED
    BY <2>1
<1>3. ~(Len(r) < Len(s))
  <2>1. Len(r) < Len(s) => r[Len(r)] = s[Len(r)] /\ f[s[Len(r)]] = s[Len(r) + 1] /\ s[Len(r) + 1] \in Nodes
    BY <1>1, <1>2 DEF IsChain
  <2>2. QED
    BY <1>1, <2>1 DEF IsChain
<1>4. ~(Len(s) < Len(r))
  <2>1. Len(s) < Len(r) => r[Len(s)] = s[Len(s)] /\ f[r[Len(s)]] = r[Len(s) + 1] /\ r[Len(s) + 1] \in Nodes
    BY <1>1, <1>2 DEF IsChain
  <2>2. QED
    BY <1>1, <2>1 DEF IsChain
<1>5. Len(r) = Len(s)
  BY <1>1, <1>3, <1>4
<1>6. QED
  BY <1>2, <1>5

\* So a chain is what Chain chooses.
LEMMA ChainIs ==
  ASSUME NEW f, NEW n, NEW s \in Seq(Nodes), Len(s) > 0, IsChain(f, n, s),
         \A i, j \in 1 .. Len(s) : s[i] = s[j] => i = j
  PROVE  Chain(f, n) = s /\ s \in Paths
<1>1. s \in Paths
  BY ChainBound
<1>2. ASSUME NEW r \in Paths, IsChain(f, n, r) PROVE r = s
  <2>1. r \in Seq(Nodes) /\ Len(r) > 0
    <3>1. PICK k \in 1 .. Cardinality(Nodes) : r \in [1 .. k -> Nodes]
      BY DEF Paths
    <3>2. k \in Nat /\ k > 0
      <4>1. Cardinality(Nodes) \in Nat
        BY QueueAssumption, FS_CardinalityType
      <4>2. QED
        BY <4>1
    <3>3. QED
      BY <3>1, <3>2
  <2>2. QED
    BY <1>2, <2>1, ChainUnique
<1>3. QED
  BY <1>1, <1>2 DEF Chain

\* What ListInv says of single nodes.
LEMMA ListFacts ==
  ASSUME ListInv
  PROVE  /\ List \in Seq(Nodes) /\ Size \in Nat /\ Size > 0 /\ head = List[1]
         /\ \A i \in 1 .. Size : List[i] \in Nodes /\ i \in Nat
         /\ next[List[Size]] = Null
         /\ \A i \in 1 .. Size - 1 : next[List[i]] = List[i + 1] /\ i + 1 \in 1 .. Size
         /\ next[head] = IF Size > 1 THEN List[2] ELSE Null
<1>1. PICK k \in 1 .. Cardinality(Nodes) : List \in [1 .. k -> Nodes]
  BY DEF ListInv, Paths
<1>2. k \in Nat /\ k > 0
  <2>1. Cardinality(Nodes) \in Nat
    BY QueueAssumption, FS_CardinalityType
  <2>2. QED
    BY <2>1
<1>3. List \in Seq(Nodes) /\ Size = k
  BY <1>1, <1>2 DEF Size
<1> HIDE DEF List
<1>4. QED
  BY <1>1, <1>2, <1>3 DEF ListInv, IsChain, Size

\* A step that leaves the links of the list alone leaves the list alone.
LEMMA ListKept ==
  ASSUME ListInv, head' = head, \A i \in 1 .. Size : next'[List[i]] = next[List[i]]
  PROVE  List' = List /\ Size' = Size /\ IsChain(next', head', List)
<1>1. PICK s \in Seq(Nodes) : s = List
  BY ListFacts
<1>2. Len(s) > 0 /\ \A i, j \in 1 .. Len(s) : s[i] = s[j] => i = j
  BY <1>1, ListFacts DEF ListInv, Size
<1>3. IsChain(next', head', s)
  BY <1>1, ListFacts DEF ListInv, Size, IsChain
<1>4. Chain(next', head') = s
  BY <1>2, <1>3, ChainIs
<1>5. QED
  BY <1>1, <1>3, <1>4 DEF List, Size

\* A node linked behind the last one is appended.
LEMMA ListGrown ==
  ASSUME ListInv, NEW n \in Nodes, \A i \in 1 .. Size : List[i] # n, next[n] = Null,
         next \in [Nodes -> Pointers], head' = head, next' = [next EXCEPT ![List[Size]] = n]
  PROVE  /\ List' = Append(List, n) /\ Size' = Size + 1 /\ IsChain(next', head', List')
         /\ List'[Size'] = n /\ \A i \in 1 .. Size : List'[i] = List[i]
         /\ List' \in Paths /\ \A i, j \in 1 .. Size' : List'[i] = List'[j] => i = j
<1>1. PICK l \in Seq(Nodes) : l = List
  BY ListFacts
<1>2. PICK s \in Seq(Nodes) : s = Append(l, n)
  <2>1. Append(l, n) \in Seq(Nodes)
    OBVIOUS
  <2>2. QED
    BY <2>1
<1>3. /\ Len(l) \in Nat /\ Len(l) > 0 /\ Len(s) = Len(l) + 1 /\ Len(s) > 0 /\ s[Len(s)] = n
      /\ \A i \in 1 .. Len(l) : s[i] = l[i] /\ s[i] \in Nodes /\ s[i] # n
      /\ \A i, j \in 1 .. Len(l) : l[i] = l[j] => i = j
  BY <1>1, <1>2, ListFacts DEF ListInv, Size
<1>4. \A i, j \in 1 .. Len(s) : s[i] = s[j] => i = j
  BY <1>3
<1>5. next'[l[Len(l)]] = n /\ \A m \in Nodes : m # l[Len(l)] => next'[m] = next[m]
  BY <1>1, <1>3 DEF Size
<1>6. IsChain(next', head', s)
  <2>1. s[1] = head'
    BY <1>1, <1>3, ListFacts
  <2>2. next'[s[Len(s)]] = Null
    BY <1>1, <1>3, <1>5
  <2>3. ASSUME NEW i \in 1 .. Len(s) - 1 PROVE next'[s[i]] = s[i + 1]
    <3>1. CASE i = Len(l)
      BY <1>3, <1>5, <3>1
    <3>2. CASE i # Len(l)
      <4>1. i \in 1 .. Len(l) - 1 /\ i + 1 \in 1 .. Len(l) /\ s[i] = l[i] /\ s[i + 1] = l[i + 1] /\ l[i] # l[Len(l)]
        BY <1>3, <3>2
      <4>2. next[l[i]] = l[i + 1] /\ l[i] \in Nodes
        BY <1>1, <4>1, ListFacts DEF Size
      <4>3. QED
        BY <1>5, <4>1, <4>2
    <3>3. QED
      BY <3>1, <3>2
  <2>4. QED
    BY <2>1, <2>2, <2>3 DEF IsChain
<1>7. Chain(next', head') = s /\ s \in Paths
  BY <1>3, <1>4, <1>6, ChainIs
<1>8. List' = s
  BY <1>7 DEF List
<1>9. QED
  BY <1>1, <1>2, <1>3, <1>4, <1>6, <1>7, <1>8 DEF Size

\* When head moves on the first node is dropped.
LEMMA ListShrunk ==
  ASSUME ListInv, Size > 1, head' = List[2], next' = next
  PROVE  /\ List' = Tail(List) /\ Size' = Size - 1 /\ IsChain(next', head', List')
         /\ \A i \in 1 .. Size - 1 : List'[i] = List[i + 1]
         /\ List' \in Paths /\ \A i, j \in 1 .. Size' : List'[i] = List'[j] => i = j
<1>1. PICK l \in Seq(Nodes) : l = List
  BY ListFacts
<1>2. PICK s \in Seq(Nodes) : s = Tail(l)
  <2>1. Len(l) > 1
    BY <1>1 DEF Size
  <2>2. Tail(l) \in Seq(Nodes)
    BY <2>1
  <2>3. QED
    BY <2>2
<1>3. /\ Len(l) \in Nat /\ Len(l) > 1 /\ Len(s) = Len(l) - 1 /\ Len(s) > 0
      /\ \A i \in 1 .. Len(s) : s[i] = l[i + 1]
      /\ \A i, j \in 1 .. Len(l) : l[i] = l[j] => i = j
  BY <1>1, <1>2, ListFacts DEF ListInv, Size
<1>4. \A i, j \in 1 .. Len(s) : s[i] = s[j] => i = j
  BY <1>3
<1>5. IsChain(next', head', s)
  <2>1. s[1] = head' /\ next'[s[Len(s)]] = Null
    BY <1>1, <1>3, ListFacts DEF Size
  <2>2. ASSUME NEW i \in 1 .. Len(s) - 1 PROVE next'[s[i]] = s[i + 1]
    <3>1. i + 1 \in 1 .. Len(l) - 1 /\ s[i] = l[i + 1] /\ s[i + 1] = l[i + 1 + 1]
      BY <1>3
    <3>2. QED
      BY <1>1, <3>1, ListFacts DEF Size
  <2>3. QED
    BY <2>1, <2>2 DEF IsChain
<1>6. Chain(next', head') = s /\ s \in Paths
  BY <1>3, <1>4, <1>5, ChainIs
<1>7. List' = s
  BY <1>6 DEF List
<1>8. QED
  BY <1>1, <1>2, <1>3, <1>4, <1>5, <1>6, <1>7 DEF Size

--------------------------------------------------------------------------------
(* Threads                                                                 *)

Locals == [new : Pointers, first : Pointers, last : Pointers, nxt : Pointers, msg : Messages \cup {Null}]

\* Producers are no consumers, and counts are numbers.
LEMMA CallerFacts ==
  /\ \A p \in Producers : p \in Callers /\ p \notin Consumers
  /\ \A c \in Consumers : c \in Callers /\ c \notin Producers
  /\ Null \notin Nodes /\ Count \in Nat
  /\ use \in Uses => \A p \in Producers : use.count[p] \in 0 .. Count
BY QueueAssumption DEF Callers

\* tail is on the list; it is the last node unless a producer is at its swing.
LEMMA TailFacts ==
  ASSUME OneEach(use), QInv
  PROVE  /\ tail \in live
         /\ tail # head => Size > 1
         /\ \A p \in Producers : Unlinked(p) => tail = List[Size]
<1>1. /\ Size \in Nat /\ Size > 0 /\ head = List[1] /\ \A i \in 1 .. Size : List[i] \in live
  BY ListFacts DEF QInv, ListInv
<1>2. tail = List[Size] \/ (Size > 1 /\ tail = List[Size - 1])
  BY DEF QInv, TailInv
<1>3. tail \in live /\ (tail # head => Size > 1)
  BY <1>1, <1>2
<1>4. ASSUME NEW p \in Producers, Unlinked(p) PROVE tail = List[Size]
  <2>1. \A q \in Producers : pc[q] = "swing" => q = p
    BY <1>4 DEF QInv, ProducerInv, ProducerAt, OneEach, Unlinked
  <2>2. QED
    BY <1>4, <2>1 DEF QInv, TailInv, Unlinked
<1>5. QED
  BY <1>3, <1>4

\* The steps that only change what one thread knows.
Quiet(t) ==
  /\ UNCHANGED <<listVars, callVars>> /\ WatchEmpty
  /\ pc' \in [Callers -> {"idle", "tail", "next", "check", "link", "swing", "help",
                          "head", "last", "first", "msg", "take", "free"}]
  /\ reg' \in [Callers -> Locals]
  /\ \A u \in Callers \ {t} : pc'[u] = pc[u] /\ reg'[u] = reg[u]
  /\ t \in Producers => pc[t] # "swing" /\ Unlinked(t) /\ Unlinked(t)' /\ reg'[t].new = reg[t].new

\* What has met an empty queue keeps it in mind while the call goes on.
LEMMA SawFacts ==
  ASSUME WatchEmpty
  PROVE  /\ sawEmpty' \in SUBSET Consumers /\ use' = use
         /\ \A c \in Consumers : (c \in sawEmpty /\ pc[c] # "idle") \/ Items' = <<>> => c \in sawEmpty'
BY DEF WatchEmpty

\* They keep the invariant if they keep the part about that thread.
LEMMA QuietStep ==
  ASSUME QInv, SeenInv, NEW t \in Callers, Quiet(t),
         t \in Producers => ProducerAt(t)', t \in Consumers => ConsumerAt(t)'
  PROVE  QInv' /\ SeenInv'
<1>1. UNCHANGED <<use, live, val, next, head, tail, sent, got>> /\ sawEmpty' \in SUBSET Consumers
  BY SawFacts DEF Quiet, listVars, heapVars, callVars
<1>2. List' = List /\ Size' = Size /\ Items' = Items
  BY <1>1 DEF List, Size, Items
<1>3. TypeOK'
  BY <1>1 DEF QInv, TypeOK, Quiet, Locals
<1>4. ListInv'
  BY <1>1, <1>2 DEF QInv, ListInv
<1>5. \A p \in Producers : /\ Unlinked(p)' <=> Unlinked(p)
                           /\ reg'[p].new = reg[p].new
                           /\ pc[p] = "swing" => pc'[p] = "swing" /\ reg'[p] = reg[p]
  BY CallerFacts DEF Quiet, Unlinked
<1>6. TailInv'
  BY <1>1, <1>2, <1>5 DEF QInv, TailInv
<1>7. ASSUME NEW p \in Producers, p # t PROVE ProducerAt(p)'
  <2>1. pc'[p] = pc[p] /\ reg'[p] = reg[p] /\ ProducerAt(p)
    BY <1>7, CallerFacts DEF Quiet, QInv, ProducerInv
  <2>2. QED
    BY <1>1, <1>2, <2>1 DEF ProducerAt, Unlinked
<1>8. ASSUME NEW c \in Consumers, c # t PROVE ConsumerAt(c)'
  <2>1. pc'[c] = pc[c] /\ reg'[c] = reg[c] /\ ConsumerAt(c)
    BY <1>8, CallerFacts DEF Quiet, QInv, ConsumerInv
  <2>2. pc[c] # "idle" /\ c \in sawEmpty => c \in sawEmpty'
    BY SawFacts DEF Quiet
  <2>3. QED
    BY <1>1, <1>2, <1>5, <2>1, <2>2 DEF ConsumerAt
<1>9. SeenInv'
  BY <1>1, <1>2, <1>5 DEF SeenInv, Queue!Seen, Linked, Messages
<1>10. QED
  BY <1>3, <1>4, <1>6, <1>7, <1>8, <1>9 DEF QInv, ProducerInv, ConsumerInv

\* q->tail is read: it is the last node.
LEMMA ReadTailStep ==
  ASSUME OneEach(use), QInv, SeenInv, NEW p \in Producers, ReadTail(p), WatchEmpty
  PROVE  QInv' /\ SeenInv'
<1>1. p \in Callers /\ p \notin Consumers /\ ProducerAt(p) /\ TypeOK
  BY CallerFacts DEF QInv, ProducerInv
<1>2. /\ pc[p] = "tail" /\ pc' = [pc EXCEPT ![p] = "next"]
      /\ reg' = [reg EXCEPT ![p].last = tail] /\ UNCHANGED <<listVars, callVars>>
  BY DEF ReadTail, Read, Goto
<1>3. /\ pc'[p] = "next" /\ reg'[p].new = reg[p].new /\ reg'[p].last = List[Size]
      /\ reg' \in [Callers -> Locals] /\ \A u \in Callers \ {p} : reg'[u] = reg[u]
  <2>1. tail = List[Size]
    BY <1>2, TailFacts DEF Unlinked
  <2>2. reg \in [Callers -> Locals] /\ pc'[p] = "next" /\ tail \in Pointers
    BY <1>1, <1>2 DEF TypeOK, Locals, Pointers
  <2>3. QED
    BY <1>1, <1>2, <2>1, <2>2 DEF Locals
<1>4. Quiet(p)
  BY <1>1, <1>2, <1>3 DEF Quiet, TypeOK, Unlinked
<1>5. ProducerAt(p)'
  <2>1. UNCHANGED <<use, live, val, next, head, tail, sent>>
    BY <1>2 DEF WatchEmpty, listVars, heapVars, callVars
  <2>2. List' = List /\ Size' = Size
    BY <2>1 DEF List, Size
  <2>3. QED
    BY <1>1, <1>2, <1>3, <2>1, <2>2 DEF ProducerAt, Unlinked
<1>6. QED
  BY <1>1, <1>4, <1>5, QuietStep

\* last->next is read: it is NULL.
LEMMA ReadNextStep ==
  ASSUME OneEach(use), QInv, SeenInv, NEW p \in Producers, ReadNext(p), WatchEmpty
  PROVE  QInv' /\ SeenInv'
<1>1. p \in Callers /\ p \notin Consumers /\ ProducerAt(p) /\ TypeOK
  BY CallerFacts DEF QInv, ProducerInv
<1>2. pc[p] = "next" /\ NextOf(reg[p].last) = {Null}
  <2>1. pc[p] = "next"
    BY DEF ReadNext, Read
  <2>2. List[Size] \in live /\ next[List[Size]] = Null
    BY ListFacts DEF QInv, ListInv
  <2>3. QED
    BY <1>1, <2>1, <2>2 DEF ProducerAt, NextOf
<1>3. /\ pc' = [pc EXCEPT ![p] = "check"]
      /\ reg' = [reg EXCEPT ![p].nxt = Null] /\ UNCHANGED <<listVars, callVars>>
  BY <1>2 DEF ReadNext, Read, Goto
<1>4. /\ pc'[p] = "check" /\ reg'[p].new = reg[p].new /\ reg'[p].last = reg[p].last /\ reg'[p].nxt = Null
      /\ reg' \in [Callers -> Locals] /\ \A u \in Callers \ {p} : reg'[u] = reg[u]
  <2>1. reg \in [Callers -> Locals] /\ pc'[p] = "check" /\ Null \in Pointers
    BY <1>1, <1>3 DEF TypeOK, Locals, Pointers
  <2>2. QED
    BY <1>1, <1>3, <2>1 DEF Locals
<1>5. Quiet(p)
  BY <1>1, <1>2, <1>3, <1>4 DEF Quiet, TypeOK, Unlinked
<1>6. ProducerAt(p)'
  <2>1. UNCHANGED <<use, live, val, next, head, tail, sent>>
    BY <1>3 DEF WatchEmpty, listVars, heapVars, callVars
  <2>2. List' = List /\ Size' = Size
    BY <2>1 DEF List, Size
  <2>3. QED
    BY <1>1, <1>2, <1>4, <2>1, <2>2 DEF ProducerAt, Unlinked
<1>7. QED
  BY <1>1, <1>5, <1>6, QuietStep

\* The tests of msg_enqueue lead to the swap, as nobody else has moved tail.
LEMMA CheckTailStep ==
  ASSUME OneEach(use), QInv, SeenInv, NEW p \in Producers, CheckTail(p), WatchEmpty
  PROVE  QInv' /\ SeenInv'
<1>1. p \in Callers /\ p \notin Consumers /\ ProducerAt(p) /\ TypeOK
  BY CallerFacts DEF QInv, ProducerInv
<1>2. pc[p] = "check" /\ reg[p].last = tail /\ reg[p].nxt = Null
  BY <1>1, TailFacts DEF CheckTail, ProducerAt, Unlinked
<1>3. pc' = [pc EXCEPT ![p] = "link"] /\ UNCHANGED <<listVars, reg, callVars>>
  BY <1>2 DEF CheckTail, Goto
<1>4. pc'[p] = "link" /\ reg \in [Callers -> Locals]
  BY <1>1, <1>3 DEF TypeOK, Locals
<1>5. Quiet(p)
  BY <1>1, <1>2, <1>3, <1>4 DEF Quiet, TypeOK, Unlinked
<1>6. ProducerAt(p)'
  <2>1. UNCHANGED <<use, live, val, next, head, tail, sent>>
    BY <1>3 DEF WatchEmpty, listVars, heapVars, callVars
  <2>2. List' = List /\ Size' = Size
    BY <2>1 DEF List, Size
  <2>3. QED
    BY <1>1, <1>2, <1>3, <1>4, <2>1, <2>2 DEF ProducerAt, Unlinked
<1>7. QED
  BY <1>1, <1>5, <1>6, QuietStep

\* A step of a consumer that only changes what it knows.
LEMMA ConsumerQuiet ==
  ASSUME QInv, SeenInv, NEW c \in Consumers, WatchEmpty, UNCHANGED <<listVars, callVars>>,
         NEW to \in {"idle", "head", "last", "first", "check", "help", "msg", "take"},
         pc' = [pc EXCEPT ![c] = to], reg' \in [Callers -> Locals],
         \A u \in Callers \ {c} : reg'[u] = reg[u],
         to # "idle" => c \in use.consumers,
         to \in {"last", "first", "check", "help", "msg", "take"} => reg'[c].first = head,
         to \in {"first", "check"} /\ reg'[c].last # head => tail # head,
         to = "check" => \/ reg'[c].nxt = next[head] /\ reg'[c].nxt # Null
                         \/ reg'[c].nxt = Null /\ reg'[c].last = head /\ c \in sawEmpty',
         to \in {"help", "msg", "take"} => reg'[c].nxt = next[head] /\ reg'[c].nxt # Null,
         to = "help" => reg'[c].last = head,
         to \in {"msg", "take"} => tail # head,
         to = "take" => reg'[c].msg = val[reg'[c].nxt]
  PROVE  QInv' /\ SeenInv'
<1>1. c \in Callers /\ c \notin Producers /\ TypeOK
  BY CallerFacts DEF QInv
<1>2. pc'[c] = to /\ \A u \in Callers \ {c} : pc'[u] = pc[u]
  BY <1>1 DEF TypeOK
<1>3. pc' \in [Callers -> {"idle", "tail", "next", "check", "link", "swing", "help",
                           "head", "last", "first", "msg", "take", "free"}]
  BY <1>1 DEF TypeOK
<1>4. Quiet(c)
  BY <1>1, <1>2, <1>3 DEF Quiet
<1>5. UNCHANGED <<use, live, val, next, head, tail, sent>>
  BY DEF WatchEmpty, listVars, heapVars, callVars
<1>6. ConsumerAt(c)'
  BY <1>2, <1>5 DEF ConsumerAt
<1>7. QED
  BY <1>1, <1>4, <1>6, QuietStep

\* q->head is read.
LEMMA ReadHeadStep ==
  ASSUME QInv, SeenInv, NEW c \in Consumers, ReadHead(c), WatchEmpty
  PROVE  QInv' /\ SeenInv'
<1>1. c \in Callers /\ ConsumerAt(c) /\ TypeOK
  BY CallerFacts DEF QInv, ConsumerInv
<1>2. /\ pc' = [pc EXCEPT ![c] = "last"]
      /\ reg' = [reg EXCEPT ![c].first = head] /\ UNCHANGED <<listVars, callVars>>
  BY DEF ReadHead, Read, Goto
<1>3. reg' \in [Callers -> Locals] /\ reg'[c].first = head /\ \A u \in Callers \ {c} : reg'[u] = reg[u]
  <2>1. reg \in [Callers -> Locals] /\ head \in Pointers
    BY <1>1 DEF TypeOK, Locals, Pointers
  <2>2. QED
    BY <1>1, <1>2, <2>1 DEF Locals
<1>4. c \in use.consumers
  BY <1>1 DEF ReadHead, MayDequeue, ConsumerAt
<1>5. QED
  BY <1>2, <1>4, <1>3, ConsumerQuiet

\* q->tail is read.
LEMMA ReadLastStep ==
  ASSUME QInv, SeenInv, NEW c \in Consumers, ReadLast(c), WatchEmpty
  PROVE  QInv' /\ SeenInv'
<1>1. c \in Callers /\ ConsumerAt(c) /\ TypeOK
  BY CallerFacts DEF QInv, ConsumerInv
<1>2. /\ pc[c] = "last" /\ pc' = [pc EXCEPT ![c] = "first"]
      /\ reg' = [reg EXCEPT ![c].last = tail] /\ UNCHANGED <<listVars, callVars>>
  BY DEF ReadLast, Read, Goto
<1>3. c \in use.consumers /\ reg[c].first = head
  BY <1>1, <1>2 DEF ConsumerAt
<1>4. /\ reg' \in [Callers -> Locals] /\ reg'[c].first = head /\ reg'[c].last = tail
      /\ \A u \in Callers \ {c} : reg'[u] = reg[u]
  <2>1. reg \in [Callers -> Locals] /\ tail \in Pointers
    BY <1>1 DEF TypeOK, Locals, Pointers
  <2>2. QED
    BY <1>1, <1>2, <1>3, <2>1 DEF Locals
<1>5. QED
  BY <1>2, <1>3, <1>4, ConsumerQuiet

\* first->next is read: NULL only if the queue is empty.
LEMMA ReadFirstStep ==
  ASSUME OneEach(use), QInv, SeenInv, NEW c \in Consumers, ReadFirst(c), WatchEmpty
  PROVE  QInv' /\ SeenInv'
<1>1. c \in Callers /\ ConsumerAt(c) /\ TypeOK /\ ListInv
  BY CallerFacts DEF QInv, ConsumerInv
<1>2. pc[c] = "first" /\ reg[c].first = head /\ c \in use.consumers /\ (reg[c].last # head => tail # head)
  BY <1>1 DEF ReadFirst, Read, ConsumerAt
<1>3. NextOf(reg[c].first) = {next[head]} /\ next[head] \in Pointers
  <2>1. head \in live /\ head \in Nodes
    BY <1>1, ListFacts DEF ListInv
  <2>2. QED
    BY <1>1, <1>2, <2>1 DEF NextOf, TypeOK
<1>4. /\ pc' = [pc EXCEPT ![c] = "check"]
      /\ reg' = [reg EXCEPT ![c].nxt = next[head]] /\ UNCHANGED <<listVars, callVars>>
  BY <1>3 DEF ReadFirst, Read, Goto
<1>5. /\ reg' \in [Callers -> Locals] /\ reg'[c].nxt = next[head]
      /\ reg'[c].first = head /\ reg'[c].last = reg[c].last
      /\ \A u \in Callers \ {c} : reg'[u] = reg[u]
  <2>1. reg \in [Callers -> Locals]
    BY <1>1 DEF TypeOK, Locals
  <2>2. QED
    BY <1>1, <1>2, <1>3, <1>4, <2>1 DEF Locals
<1>6. next[head] = Null => Size = 1
  <2>1. Size > 1 => List[2] \in Nodes /\ next[head] = List[2]
    BY <1>1, ListFacts
  <2>2. QED
    BY <1>1, <2>1, ListFacts, CallerFacts
<1>7. next[head] = Null => reg[c].last = head
  BY <1>2, <1>6, TailFacts, ListFacts DEF QInv
<1>8. next[head] = Null => c \in sawEmpty'
  <2>1. ASSUME next[head] = Null PROVE Items' = <<>>
    <3>1. UNCHANGED <<val, next, head>>
      BY <1>4 DEF listVars, heapVars
    <3>2. List' = List /\ Len(List) = 1
      BY <1>6, <2>1, <3>1 DEF List, Size
    <3>3. Items' = [i \in 1 .. 1 - 1 |-> val'[List'[i + 1]]]
      BY <3>2 DEF Items
    <3>4. 1 .. 1 - 1 = {}
      OBVIOUS
    <3>5. QED
      BY <3>3, <3>4
  <2>2. QED
    BY <2>1, SawFacts
<1>9. QED
  BY <1>2, <1>4, <1>5, <1>7, <1>8, ConsumerQuiet

\* The tests of msg_dequeue.
LEMMA CheckHeadStep ==
  ASSUME QInv, SeenInv, NEW c \in Consumers, CheckHead(c), WatchEmpty
  PROVE  QInv' /\ SeenInv'
<1>1. c \in Callers /\ ConsumerAt(c) /\ TypeOK /\ reg \in [Callers -> Locals] /\ NoLocals \in Locals
  BY CallerFacts DEF QInv, ConsumerInv, TypeOK, Locals, NoLocals, Pointers
<1>2. pc[c] = "check" /\ Jump(c, AfterCheck(reg[c])) /\ UNCHANGED <<listVars, callVars>>
  BY DEF CheckHead
<1>3. /\ reg[c].first = head /\ c \in use.consumers /\ (reg[c].last # head => tail # head)
      /\ \/ reg[c].nxt = next[head] /\ reg[c].nxt # Null
         \/ reg[c].nxt = Null /\ reg[c].last = head /\ c \in sawEmpty
  BY <1>1, <1>2 DEF ConsumerAt
<1>4. PICK to \in {"idle", "help", "msg"} :
        /\ to = AfterCheck(reg[c])
        /\ to = "msg" => reg[c].last # head
        /\ to = "help" => reg[c].last = head /\ reg[c].nxt # Null
  BY <1>3 DEF AfterCheck
<1>5. /\ pc' = [pc EXCEPT ![c] = to] /\ reg' \in [Callers -> Locals]
      /\ \A u \in Callers \ {c} : reg'[u] = reg[u]
      /\ to # "idle" => reg' = reg
  <2>1. pc' = [pc EXCEPT ![c] = to] /\ reg' = IF to = "idle" THEN [reg EXCEPT ![c] = NoLocals] ELSE reg
    BY <1>2, <1>4 DEF Jump, Goto
  <2>2. QED
    BY <1>1, <2>1
<1>6. QED
  BY <1>2, <1>3, <1>4, <1>5, ConsumerQuiet

\* next->msg is read.
LEMMA ReadMsgStep ==
  ASSUME QInv, SeenInv, NEW c \in Consumers, ReadMsg(c), WatchEmpty
  PROVE  QInv' /\ SeenInv'
<1>1. c \in Callers /\ ConsumerAt(c) /\ TypeOK /\ ListInv
  BY CallerFacts DEF QInv, ConsumerInv
<1>2. /\ pc[c] = "msg" /\ reg[c].first = head /\ c \in use.consumers /\ tail # head
      /\ reg[c].nxt = next[head] /\ reg[c].nxt # Null
  BY <1>1 DEF ReadMsg, Read, ConsumerAt
<1>3. reg[c].nxt \in live /\ reg[c].nxt \in Nodes
  BY <1>1, <1>2, ListFacts DEF ListInv
<1>4. MsgOf(reg[c].nxt) = {val[reg[c].nxt]} /\ val[reg[c].nxt] \in Messages \cup {Null}
  BY <1>1, <1>3 DEF MsgOf, TypeOK
<1>5. /\ pc' = [pc EXCEPT ![c] = "take"]
      /\ reg' = [reg EXCEPT ![c].msg = val[reg[c].nxt]] /\ UNCHANGED <<listVars, callVars>>
  BY <1>4 DEF ReadMsg, Read, Goto
<1>6. /\ reg' \in [Callers -> Locals] /\ reg'[c].msg = val[reg[c].nxt]
      /\ reg'[c].first = head /\ reg'[c].nxt = reg[c].nxt
      /\ \A u \in Callers \ {c} : reg'[u] = reg[u]
  <2>1. reg \in [Callers -> Locals]
    BY <1>1 DEF TypeOK, Locals
  <2>2. QED
    BY <1>1, <1>2, <1>4, <1>5, <2>1 DEF Locals
<1>7. QED
  BY <1>2, <1>5, <1>6, ConsumerQuiet

--------------------------------------------------------------------------------
(* Steps that change the list                                              *)

\* Nobody else is in a call.
LEMMA OthersIdle ==
  ASSUME OneEach(use), QInv
  PROVE  /\ \A p, q \in Producers : use.count[p] > 0 /\ q # p => pc[q] = "idle"
         /\ \A c, d \in Consumers : c \in use.consumers /\ d # c => pc[d] = "idle"
BY DEF OneEach, QInv, ProducerInv, ProducerAt, ConsumerInv, ConsumerAt

\* A thread that is in no call holds nothing.
LEMMA IdleAt ==
  /\ \A p \in Producers : pc'[p] = "idle" => ProducerAt(p)'
  /\ \A c \in Consumers : pc'[c] = "idle" => ConsumerAt(c)'
BY DEF ProducerAt, ConsumerAt, Unlinked

\* What a step of a producer leaves to a consumer.
LEMMA ConsumerKept ==
  ASSUME NEW c \in Consumers, ConsumerAt(c), WatchEmpty,
         pc'[c] = pc[c], reg'[c] = reg[c], head' = head, live \subseteq live',
         next[head] # Null => next'[head] = next[head] /\ val'[next[head]] = val[next[head]],
         tail # head => tail' # head,
         pc[c] = "free" => /\ \A i \in 1 .. Size' : List'[i] # reg[c].first
                           /\ \A p \in Producers : Unlinked(p)' => reg'[p].new # reg[c].first
  PROVE  ConsumerAt(c)'
<1>1. use' = use /\ (pc[c] # "idle" /\ c \in sawEmpty => c \in sawEmpty')
  BY SawFacts
<1>2. QED
  BY <1>1 DEF ConsumerAt

\* The messages in the queue.
LEMMA ItemsFacts ==
  ListInv =>
    /\ Items \in Seq(Messages) /\ Len(Items) = Size - 1
    /\ \A i \in 1 .. Size - 1 : Items[i] = val[List[i + 1]] /\ i + 1 \in 2 .. Size
<1> SUFFICES ASSUME ListInv
             PROVE  /\ Items \in Seq(Messages) /\ Len(Items) = Size - 1
                    /\ \A i \in 1 .. Size - 1 : Items[i] = val[List[i + 1]] /\ i + 1 \in 2 .. Size
  OBVIOUS
<1>1. Size \in Nat /\ Size > 0 /\ Items = [i \in 1 .. Size - 1 |-> val[List[i + 1]]]
  BY ListFacts DEF Items, Size
<1>2. \A i \in 1 .. Size - 1 : val[List[i + 1]] \in Messages /\ i + 1 \in 2 .. Size
  BY <1>1 DEF ListInv
<1>3. Size - 1 \in Nat
  BY <1>1
<1>4. QED
  BY <1>1, <1>2, <1>3

\* They are the same while the nodes behind the dummy are.
LEMMA ItemsKept ==
  ASSUME ListInv, List' = List, \A i \in 2 .. Size : val'[List[i]] = val[List[i]]
  PROVE  Items' = Items
<1>1. Size \in Nat /\ Size > 0 /\ Items = [i \in 1 .. Size - 1 |-> val[List[i + 1]]]
  BY ListFacts DEF Items, Size
<1>2. Items' = [i \in 1 .. Size - 1 |-> val'[List[i + 1]]]
  BY DEF Items, Size
<1>3. \A i \in 1 .. Size - 1 : val'[List[i + 1]] = val[List[i + 1]]
  BY <1>1
<1>4. QED
  BY <1>1, <1>2, <1>3

\* The elements of a sequence with one more at its end.
LEMMA AppendElements ==
  ASSUME NEW S, NEW s \in Seq(S), NEW e \in S
  PROVE  Queue!Elements(Append(s, e)) = Queue!Elements(s) \cup {e}
<1>1. PICK r \in Seq(S) : r = Append(s, e)
  <2>1. Append(s, e) \in Seq(S)
    OBVIOUS
  <2>2. QED
    BY <2>1
<1>2. /\ Len(s) \in Nat /\ Len(r) = Len(s) + 1 /\ r[Len(s) + 1] = e
      /\ \A i \in 1 .. Len(s) : r[i] = s[i]
      /\ DOMAIN s = 1 .. Len(s) /\ DOMAIN r = 1 .. Len(r)
  BY <1>1
<1>3. /\ Len(s) + 1 \in 1 .. Len(s) + 1 /\ 1 .. Len(s) \subseteq 1 .. Len(s) + 1
      /\ \A i \in 1 .. Len(s) + 1 : i \in 1 .. Len(s) \/ i = Len(s) + 1
  BY <1>2
<1>4. {r[i] : i \in DOMAIN r} = {s[i] : i \in DOMAIN s} \cup {e}
  BY <1>2, <1>3
<1>5. Queue!Elements(r) = Queue!Elements(s) \cup {e}
  BY <1>4 DEF Queue!Elements
<1>6. QED
  BY <1>1, <1>5

\* The elements of a sequence by its first one and its rest.
LEMMA TailElements ==
  ASSUME NEW S, NEW s \in Seq(S), s # <<>>
  PROVE  Queue!Elements(s) = Queue!Elements(Tail(s)) \cup {Head(s)}
<1>1. PICK r \in Seq(S) : r = Tail(s)
  <2>1. Tail(s) \in Seq(S)
    OBVIOUS
  <2>2. QED
    BY <2>1
<1>2. /\ Len(s) \in Nat /\ Len(s) > 0 /\ Len(r) = Len(s) - 1 /\ s[1] = Head(s)
      /\ \A i \in 1 .. Len(r) : r[i] = s[i + 1]
      /\ DOMAIN s = 1 .. Len(s) /\ DOMAIN r = 1 .. Len(r)
  BY <1>1
<1>3. /\ 1 \in 1 .. Len(s)
      /\ \A i \in 1 .. Len(s) : i = 1 \/ (i - 1 \in 1 .. Len(r) /\ s[i] = r[i - 1])
      /\ \A i \in 1 .. Len(r) : i + 1 \in 1 .. Len(s)
  <2>1. \A i \in 1 .. Len(s) : i = 1 \/ (i - 1 \in 1 .. Len(r) /\ i - 1 + 1 = i)
    BY <1>2
  <2>2. QED
    BY <1>2, <2>1
<1>4. {s[i] : i \in DOMAIN s} = {r[i] : i \in DOMAIN r} \cup {Head(s)}
  <2>1. \A i \in DOMAIN s : s[i] \in {r[j] : j \in DOMAIN r} \cup {Head(s)}
    BY <1>2, <1>3
  <2>2. \A j \in DOMAIN r : r[j] \in {s[i] : i \in DOMAIN s}
    <3>1. \A j \in DOMAIN r : j + 1 \in DOMAIN s /\ r[j] = s[j + 1]
      BY <1>2, <1>3
    <3>2. QED
      BY <3>1
  <2>3. Head(s) \in {s[i] : i \in DOMAIN s}
    BY <1>2, <1>3
  <2>4. QED
    BY <2>1, <2>2, <2>3
<1>5. Queue!Elements(s) = Queue!Elements(r) \cup {Head(s)}
  BY <1>4 DEF Queue!Elements
<1>6. QED
  BY <1>1, <1>5

\* What has been seen is in the queue or was taken.
LEMMA SeenMeans ==
  \A x : x \in Queue!Seen <=> x \in Queue!Elements(Items)
                              \/ \E d \in Consumers : x \in Queue!Elements(got[d])
BY DEF Queue!Seen

\* A new node is one that nobody holds: the list and what has been seen stay.
LEMMA AllocateChanges ==
  ASSUME TypeOK, ListInv, SeenInv, NEW p \in Producers, Allocate(p), WatchEmpty
  PROVE  \E n \in Nodes \ live :
           /\ pc[p] = "idle" /\ sent[p] < use.count[p] /\ sent[p] \in Nat /\ use.count[p] \in Nat
           /\ UNCHANGED <<use, head, tail, got>>
           /\ live' = live \cup {n} /\ \A m \in live : val'[m] = val[m] /\ next'[m] = next[m]
           /\ val'[n] = <<p, sent'[p]>> /\ next'[n] = Null
           /\ pc'[p] = "tail" /\ reg'[p].new = n /\ sent'[p] = sent[p] + 1
           /\ \A u \in Callers \ {p} : pc'[u] = pc[u] /\ reg'[u] = reg[u]
           /\ \A q \in Producers \ {p} : sent'[q] = sent[q]
           /\ TypeOK' /\ ListInv' /\ SeenInv' /\ List' = List /\ Size' = Size /\ Items' = Items
<1>1. /\ p \in Callers /\ p \notin Consumers /\ TypeOK /\ ListInv
      /\ reg \in [Callers -> Locals] /\ use' = use /\ sawEmpty' \in SUBSET Consumers
  BY CallerFacts, SawFacts DEF TypeOK, Locals
<1>2. PICK n \in Nodes \ live :
        /\ live' = live \cup {n}
        /\ val' = [val EXCEPT ![n] = <<p, sent[p] + 1>>]
        /\ next' = [next EXCEPT ![n] = Null]
        /\ reg' = [reg EXCEPT ![p].new = n]
  BY DEF Allocate
<1>3. /\ pc[p] = "idle" /\ sent[p] < use.count[p] /\ UNCHANGED <<head, tail, got>>
      /\ sent' = [sent EXCEPT ![p] = @ + 1] /\ pc' = [pc EXCEPT ![p] = "tail"]
  BY DEF Allocate, Goto
<1>4. sent[p] \in Nat /\ use.count[p] \in 0 .. Count /\ Count \in Nat /\ sent[p] + 1 \in 1 .. Count
  BY <1>1, <1>3, CallerFacts DEF TypeOK
<1>5. /\ reg'[p].new = n /\ \A u \in Callers \ {p} : reg'[u] = reg[u]
      /\ reg' \in [Callers -> Locals]
  <2>1. n \in Pointers
    BY DEF Pointers
  <2>2. QED
    BY <1>1, <1>2, <2>1 DEF Locals
<1>6. pc'[p] = "tail" /\ \A u \in Callers \ {p} : pc'[u] = pc[u]
  BY <1>1, <1>3 DEF TypeOK
<1>7. sent'[p] = sent[p] + 1 /\ \A q \in Producers \ {p} : sent'[q] = sent[q]
  BY <1>1, <1>3 DEF TypeOK
<1>8. /\ val'[n] = <<p, sent[p] + 1>> /\ next'[n] = Null
      /\ \A m \in live : val'[m] = val[m] /\ next'[m] = next[m]
  BY <1>1, <1>2 DEF TypeOK
<1>9. <<p, sent[p] + 1>> \in Messages
  BY <1>4 DEF Messages
<1>10. TypeOK'
  <2>1. val' \in [Nodes -> Messages \cup {Null}]
    BY <1>1, <1>2, <1>9 DEF TypeOK
  <2>2. next' \in [Nodes -> Pointers]
    BY <1>1, <1>2 DEF TypeOK, Pointers
  <2>3. sent' \in [Producers -> 0 .. Count]
    BY <1>1, <1>3, <1>4 DEF TypeOK
  <2>4. pc' \in [Callers -> {"idle", "tail", "next", "check", "link", "swing", "help",
                             "head", "last", "first", "msg", "take", "free"}]
    BY <1>1, <1>3 DEF TypeOK
  <2>5. live' \subseteq Nodes /\ head' \in Nodes /\ tail' \in Nodes /\ use' \in Uses
        /\ got' \in [Consumers -> Seq(Messages)]
    BY <1>1, <1>2, <1>3 DEF TypeOK
  <2>6. QED
    BY <1>1, <1>5, <2>1, <2>2, <2>3, <2>4, <2>5 DEF TypeOK, Locals
<1>11. /\ List' = List /\ Size' = Size /\ IsChain(next', head', List)
       /\ \A i \in 1 .. Size : List[i] \in live /\ List[i] # n
  <2>1. \A i \in 1 .. Size : List[i] \in live
    BY <1>1 DEF ListInv
  <2>2. head' = head /\ \A i \in 1 .. Size : next'[List[i]] = next[List[i]]
    BY <1>3, <1>8, <2>1
  <2>3. QED
    BY <1>1, <2>1, <2>2, ListKept
<1>12. /\ \A i \in 2 .. Size : List[i] \in live /\ val'[List[i]] = val[List[i]]
       /\ Items' = Items
  <2>1. \A i \in 2 .. Size : i \in 1 .. Size
    BY <1>1, ListFacts
  <2>2. \A i \in 2 .. Size : List[i] \in live /\ val'[List[i]] = val[List[i]]
    BY <1>8, <1>11, <2>1
  <2>3. QED
    BY <1>1, <1>11, <2>2, ItemsKept
<1>13. ListInv'
  BY <1>1, <1>2, <1>11, <1>12 DEF ListInv
<1>14. SeenInv'
  <2>1. \A q \in Producers : Linked(q)' = Linked(q)
    <3>1. Linked(p)' = Linked(p)
      BY <1>3, <1>4, <1>6, <1>7 DEF Linked, Unlinked
    <3>2. \A q \in Producers \ {p} : pc'[q] = pc[q] /\ sent'[q] = sent[q]
      BY <1>6, <1>7, CallerFacts
    <3>3. QED
      BY <3>1, <3>2 DEF Linked, Unlinked
  <2>2. Queue!Seen' = Queue!Seen
    BY <1>3, <1>12 DEF Queue!Seen
  <2>3. QED
    BY <2>1, <2>2 DEF SeenInv, Messages
<1>15. use.count[p] \in Nat
  BY <1>4
<1>16. val'[n] = <<p, sent'[p]>>
  BY <1>7, <1>8
<1>17. QED
  BY <1>1, <1>2, <1>3, <1>4, <1>5, <1>6, <1>7, <1>8, <1>10, <1>11, <1>12, <1>13, <1>14, <1>15, <1>16

\* One producer and one consumer: nobody else is enqueuing.
LEMMA AllocateStep ==
  ASSUME OneEach(use), QInv, SeenInv, NEW p \in Producers, Allocate(p), WatchEmpty
  PROVE  QInv' /\ SeenInv' /\ Items' = Items /\ got' = got
<1>1. /\ p \in Callers /\ p \notin Consumers /\ TypeOK /\ ListInv /\ ProducerInv /\ ConsumerInv
      /\ \A i \in 1 .. Size : List[i] \in live
  BY CallerFacts DEF QInv, ListInv
<1>2. PICK n \in Nodes \ live :
        /\ pc[p] = "idle" /\ sent[p] < use.count[p] /\ sent[p] \in Nat /\ use.count[p] \in Nat
        /\ UNCHANGED <<use, head, tail, got>>
        /\ live' = live \cup {n} /\ \A m \in live : val'[m] = val[m] /\ next'[m] = next[m]
        /\ val'[n] = <<p, sent'[p]>> /\ next'[n] = Null
        /\ pc'[p] = "tail" /\ reg'[p].new = n /\ sent'[p] = sent[p] + 1
        /\ \A u \in Callers \ {p} : pc'[u] = pc[u] /\ reg'[u] = reg[u]
        /\ TypeOK' /\ ListInv' /\ SeenInv' /\ List' = List /\ Size' = Size /\ Items' = Items
  BY <1>1, AllocateChanges
<1>3. \A q \in Producers : q # p => pc[q] = "idle" /\ pc'[q] = "idle"
  BY <1>2, OthersIdle, CallerFacts
<1>4. TailInv'
  BY <1>2, <1>3 DEF QInv, TailInv
<1>5. ProducerAt(p)'
  BY <1>1, <1>2 DEF ProducerAt, Unlinked
<1>6. ASSUME NEW c \in Consumers PROVE ConsumerAt(c)'
  <2>1. c \in Callers /\ c # p /\ ConsumerAt(c) /\ pc'[c] = pc[c] /\ reg'[c] = reg[c]
    BY <1>1, <1>2, CallerFacts DEF ConsumerInv
  <2>2. next[head] # Null => next'[head] = next[head] /\ val'[next[head]] = val[next[head]]
    <3>1. head \in live
      BY <1>1, ListFacts
    <3>2. next[head] # Null => Size > 1 /\ next[head] = List[2] /\ 2 \in 1 .. Size
      BY <1>1, ListFacts
    <3>3. QED
      BY <1>1, <1>2, <3>1, <3>2
  <2>3. pc[c] = "free" => /\ \A i \in 1 .. Size' : List'[i] # reg[c].first
                          /\ \A q \in Producers : Unlinked(q)' => reg'[q].new # reg[c].first
    BY <1>2, <1>3, <2>1 DEF ConsumerAt, Unlinked
  <2>4. QED
    BY <1>2, <2>1, <2>2, <2>3, ConsumerKept
<1>7. QED
  BY <1>2, <1>3, <1>4, <1>5, <1>6, IdleAt DEF QInv, ProducerInv, ConsumerInv

\* A link swap at the last node succeeds, and with it the message is in the queue.
LEMMA LinkChanges ==
  ASSUME TypeOK, ListInv, SeenInv, NEW p \in Producers, Link(p), WatchEmpty,
         sent[p] > 0, reg[p].last = List[Size], NEW n \in live, reg[p].new = n,
         \A i \in 1 .. Size : List[i] # n, next[n] = Null, val[n] = <<p, sent[p]>>
  PROVE  /\ next' = [next EXCEPT ![List[Size]] = n] /\ List[Size] \in Nodes
         /\ UNCHANGED <<use, live, val, head, tail, reg, sent, got>>
         /\ pc'[p] = "swing" /\ \A u \in Callers \ {p} : pc'[u] = pc[u]
         /\ Size \in Nat /\ Size > 0 /\ Size' = Size + 1 /\ List'[Size'] = n
         /\ \A i \in 1 .. Size : List'[i] = List[i]
         /\ \A i \in 1 .. Size' : (i \in 1 .. Size /\ List'[i] = List[i]) \/ (i = Size + 1 /\ List'[i] = n)
         /\ TypeOK' /\ ListInv' /\ SeenInv' /\ Items' = Append(Items, <<p, sent[p]>>)
<1>1. /\ p \in Callers /\ p \notin Consumers /\ TypeOK /\ ListInv
      /\ reg \in [Callers -> Locals] /\ use' = use /\ sawEmpty' \in SUBSET Consumers
  BY CallerFacts, SawFacts DEF TypeOK, Locals
<1>2. n \in Nodes /\ n = reg[p].new
  BY DEF TypeOK
<1>3. /\ pc[p] = "link" /\ sent[p] > 0 /\ n \in live
      /\ \A i \in 1 .. Size : List[i] # n
      /\ next[n] = Null /\ val[n] = <<p, sent[p]>> /\ reg[p].last = List[Size]
  BY DEF Link
<1>4. Size \in Nat /\ Size > 0 /\ List[Size] \in live /\ next[List[Size]] = Null
  BY <1>1, ListFacts DEF ListInv
<1>5. /\ next' = [next EXCEPT ![List[Size]] = n] /\ pc' = [pc EXCEPT ![p] = "swing"]
      /\ UNCHANGED <<live, val, head, tail, reg, sent, got>>
  <2>1. NextOf(reg[p].last) = {Null}
    BY <1>3, <1>4 DEF NextOf
  <2>2. QED
    BY <1>2, <1>3, <2>1 DEF Link, Goto, callVars
<1>6. pc'[p] = "swing" /\ \A u \in Callers \ {p} : pc'[u] = pc[u]
  BY <1>1, <1>5 DEF TypeOK
<1>7. next \in [Nodes -> Pointers] /\ List[Size] \in Nodes
  BY <1>1, <1>4 DEF TypeOK
<1>8. /\ List' = Append(List, n) /\ Size' = Size + 1 /\ IsChain(next', head', List')
      /\ List'[Size'] = n /\ \A i \in 1 .. Size : List'[i] = List[i]
      /\ List' \in Paths /\ \A i, j \in 1 .. Size' : List'[i] = List'[j] => i = j
  BY <1>1, <1>2, <1>3, <1>5, <1>7, ListGrown
<1>9. \A i \in 1 .. Size' : (i \in 1 .. Size /\ List'[i] = List[i]) \/ (i = Size + 1 /\ List'[i] = n)
  <2>1. Size' = Size + 1 /\ List'[Size + 1] = n /\ \A i \in 1 .. Size : List'[i] = List[i]
    BY <1>8
  <2>2. \A i \in 1 .. Size + 1 : i \in 1 .. Size \/ i = Size + 1
    BY <1>4
  <2>3. QED
    BY <2>1, <2>2
<1>10. <<p, sent[p]>> \in Messages
  BY <1>1, <1>3, CallerFacts DEF Messages, TypeOK
<1>11. TypeOK'
  <2>1. next' \in [Nodes -> Pointers]
    BY <1>2, <1>5, <1>7 DEF Pointers
  <2>2. pc' \in [Callers -> {"idle", "tail", "next", "check", "link", "swing", "help",
                             "head", "last", "first", "msg", "take", "free"}]
    BY <1>1, <1>5 DEF TypeOK
  <2>3. QED
    BY <1>1, <1>5, <2>1, <2>2 DEF TypeOK
<1>12. ListInv'
  <2>1. \A i \in 1 .. Size' : List'[i] \in live
    BY <1>1, <1>3, <1>9 DEF ListInv
  <2>2. \A i \in 2 .. Size' : val[List'[i]] \in Messages
    <3>1. SUFFICES ASSUME NEW i \in 2 .. Size' PROVE val[List'[i]] \in Messages
      OBVIOUS
    <3>2. (i \in 2 .. Size /\ List'[i] = List[i]) \/ List'[i] = n
      <4>1. Size' = Size + 1
        BY <1>8
      <4>2. i \in 1 .. Size' /\ (i \in 1 .. Size => i \in 2 .. Size)
        BY <1>4, <4>1
      <4>3. QED
        BY <1>9, <4>2
    <3>3. QED
      BY <1>1, <1>3, <1>10, <3>2 DEF ListInv
  <2>3. QED
    BY <1>5, <1>8, <2>1, <2>2 DEF ListInv
<1>13. Items' = Append(Items, <<p, sent[p]>>)
  <2> /\ Items' \in Seq(Messages) /\ Len(Items') = Size' - 1
      /\ \A i \in 1 .. Size' - 1 : Items'[i] = val'[List'[i + 1]]
    <3>1. (ListInv => /\ Items \in Seq(Messages) /\ Len(Items) = Size - 1
                      /\ \A i \in 1 .. Size - 1 : Items[i] = val[List[i + 1]] /\ i + 1 \in 2 .. Size)'
      BY ItemsFacts, PTL
    <3>2. QED
      BY <1>12, <3>1
  <2>1. PICK s \in Seq(Messages) : s = Items
    BY <1>1, ItemsFacts
  <2>2. PICK r \in Seq(Messages) : r = Items'
    OBVIOUS
  <2> Size' = Size + 1 /\ Size' - 1 = Size
    BY <1>4, <1>8
  <2>3. /\ Len(s) = Size - 1 /\ Len(r) = Size
        /\ \A i \in 1 .. Size - 1 : s[i] = val[List[i + 1]] /\ i + 1 \in 2 .. Size
    BY <1>1, <1>4, <2>1, <2>2, ItemsFacts
  <2>4. \A i \in 1 .. Size : r[i] = val[List'[i + 1]]
    BY <1>5, <2>2
  <2>5. \A i \in 1 .. Size - 1 : r[i] = s[i]
    <3>1. \A i \in 1 .. Size - 1 : i \in 1 .. Size /\ i + 1 \in 1 .. Size
      BY <1>4
    <3>2. \A i \in 1 .. Size - 1 : List'[i + 1] = List[i + 1]
      BY <1>8, <3>1
    <3>3. QED
      BY <2>3, <2>4, <3>1, <3>2
  <2>6. r[Size] = <<p, sent[p]>>
    BY <1>3, <1>4, <1>8, <2>4
  <2>7. Append(s, <<p, sent[p]>>) \in Seq(Messages)
    BY <1>10
  <2>8. r = Append(s, <<p, sent[p]>>)
    BY <1>4, <1>10, <2>3, <2>5, <2>6, <2>7
  <2>9. QED
    BY <2>1, <2>2, <2>8
<1>14. SeenInv'
  <2>1. Linked(p) = sent[p] - 1 /\ Linked(p)' = sent[p]
    BY <1>3, <1>5, <1>6 DEF Linked, Unlinked
  <2>2. \A q \in Producers : q # p => Linked(q)' = Linked(q)
    BY <1>5, <1>6, CallerFacts DEF Linked, Unlinked
  <2>3. Queue!Seen' = Queue!Seen \cup {<<p, sent[p]>>}
    <3>1. PICK s \in Seq(Messages) : s = Items
      BY <1>1, ItemsFacts
    <3>2. Queue!Elements(Append(s, <<p, sent[p]>>)) = Queue!Elements(s) \cup {<<p, sent[p]>>}
      BY <1>10, AppendElements
    <3>3. Queue!Elements(Items') = Queue!Elements(Items) \cup {<<p, sent[p]>>}
      BY <1>13, <3>1, <3>2
    <3>4. got' = got
      BY <1>5
    <3>5. QED
      BY <3>3, <3>4 DEF Queue!Seen, Queue!Elements
  <2>4. \A m \in Messages : m[2] <= Linked(m[1])' <=> m[2] <= Linked(m[1]) \/ m = <<p, sent[p]>>
    <3>1. SUFFICES ASSUME NEW m \in Messages
                   PROVE  m[2] <= Linked(m[1])' <=> m[2] <= Linked(m[1]) \/ m = <<p, sent[p]>>
      OBVIOUS
    <3>2. m[1] \in Producers /\ m[2] \in Nat /\ m = <<m[1], m[2]>> /\ sent[p] \in Nat
      BY <1>1, CallerFacts DEF Messages, TypeOK
    <3>3. CASE m[1] = p
      BY <2>1, <3>2, <3>3
    <3>4. CASE m[1] # p
      BY <2>2, <3>2, <3>4
    <3>5. QED
      BY <3>3, <3>4
  <2>5. {m \in Messages : m[2] <= Linked(m[1])'}
          = {m \in Messages : m[2] <= Linked(m[1])} \cup {<<p, sent[p]>>}
    BY <1>10, <2>4
  <2>6. QED
    BY <2>3, <2>5 DEF SeenInv, Messages
<1>15. QED
  BY <1>1, <1>2, <1>4, <1>5, <1>6, <1>7, <1>8, <1>9, <1>11, <1>12, <1>13, <1>14

\* One producer and one consumer: the swap succeeds.
LEMMA LinkStep ==
  ASSUME OneEach(use), QInv, SeenInv, NEW p \in Producers, Link(p), WatchEmpty
  PROVE  QInv' /\ SeenInv' /\ Items' = Append(Items, <<p, sent[p]>>) /\ got' = got
<1>1. /\ p \in Callers /\ p \notin Consumers /\ TypeOK /\ ListInv /\ ProducerAt(p)
      /\ ProducerInv /\ ConsumerInv
  BY CallerFacts DEF QInv, ProducerInv
<1>2. PICK n \in live : n = reg[p].new
  BY <1>1 DEF Link, ProducerAt, Unlinked
<1>3. /\ pc[p] = "link" /\ use.count[p] > 0 /\ sent[p] > 0
      /\ \A i \in 1 .. Size : List[i] # n
      /\ next[n] = Null /\ val[n] = <<p, sent[p]>> /\ reg[p].last = List[Size]
  BY <1>1, <1>2 DEF Link, ProducerAt, Unlinked
<1>4. /\ next' = [next EXCEPT ![List[Size]] = n] /\ List[Size] \in Nodes
      /\ UNCHANGED <<use, live, val, head, tail, reg, sent, got>>
      /\ pc'[p] = "swing" /\ \A u \in Callers \ {p} : pc'[u] = pc[u]
      /\ Size \in Nat /\ Size > 0 /\ Size' = Size + 1 /\ List'[Size'] = n
      /\ \A i \in 1 .. Size : List'[i] = List[i]
      /\ \A i \in 1 .. Size' : (i \in 1 .. Size /\ List'[i] = List[i]) \/ (i = Size + 1 /\ List'[i] = n)
      /\ TypeOK' /\ ListInv' /\ SeenInv' /\ Items' = Append(Items, <<p, sent[p]>>)
  BY <1>1, <1>2, <1>3, LinkChanges
<1>5. \A q \in Producers : q # p => pc[q] = "idle" /\ pc'[q] = "idle"
  BY <1>3, <1>4, OthersIdle, CallerFacts
<1>6. TailInv'
  <2>1. tail = List[Size] /\ Size \in 1 .. Size
    BY <1>3, <1>4, TailFacts DEF Unlinked
  <2>2. Size' > 1 /\ Size' - 1 = Size /\ tail = List'[Size]
    BY <1>4, <2>1
  <2>3. QED
    BY <1>3, <1>4, <2>1, <2>2 DEF TailInv
<1>7. ProducerAt(p)'
  <2>1. List[Size] # n /\ Size \in 1 .. Size
    BY <1>3, <1>4
  <2>2. QED
    BY <1>2, <1>3, <1>4, <2>1 DEF ProducerAt, Unlinked
<1>8. ASSUME NEW c \in Consumers PROVE ConsumerAt(c)'
  <2>1. c \in Callers /\ c # p /\ ConsumerAt(c) /\ pc'[c] = pc[c] /\ reg'[c] = reg[c]
    BY <1>1, <1>4, CallerFacts DEF ConsumerInv
  <2>2. next[head] # Null => next'[head] = next[head] /\ val'[next[head]] = val[next[head]]
    <3>1. head \in Nodes /\ (next[head] # Null => head # List[Size]) /\ next \in [Nodes -> Pointers]
      BY <1>1, ListFacts DEF TypeOK
    <3>2. QED
      BY <1>4, <3>1
  <2>3. pc[c] = "free" => /\ \A i \in 1 .. Size' : List'[i] # reg[c].first
                          /\ \A q \in Producers : Unlinked(q)' => reg'[q].new # reg[c].first
    BY <1>2, <1>3, <1>4, <1>5, <2>1 DEF ConsumerAt, Unlinked
  <2>4. QED
    BY <1>4, <2>1, <2>2, <2>3, ConsumerKept
<1>9. QED
  BY <1>4, <1>5, <1>6, <1>7, <1>8, IdleAt DEF QInv, ProducerInv, ConsumerInv

\* The tail swap brings tail to the end, or finds it there.
LEMMA SwingStep ==
  ASSUME OneEach(use), QInv, SeenInv, NEW p \in Producers, Swing(p), WatchEmpty
  PROVE  QInv' /\ SeenInv' /\ Items' = Items /\ got' = got
<1>1. /\ p \in Callers /\ p \notin Consumers /\ TypeOK /\ ListInv /\ ProducerAt(p)
      /\ ProducerInv /\ ConsumerInv
      /\ reg \in [Callers -> Locals] /\ use' = use /\ sawEmpty' \in SUBSET Consumers
  BY CallerFacts, SawFacts DEF QInv, TypeOK, Locals, ProducerInv
<1>2. /\ pc[p] = "swing" /\ use.count[p] > 0
      /\ reg[p].new = List[Size] /\ reg[p].last # reg[p].new
  BY <1>1 DEF Swing, ProducerAt
<1>3. /\ pc' = [pc EXCEPT ![p] = "idle"] /\ reg' = [reg EXCEPT ![p] = NoLocals]
      /\ UNCHANGED <<live, val, next, head, sent, got>>
      /\ tail' = IF tail = reg[p].last THEN reg[p].new ELSE tail
  BY DEF Swing, SwingToNew, SwingTail, Jump, Goto, heapVars, callVars
<1>4. /\ \A q \in Producers : q # p => pc[q] = "idle"
  BY <1>2, OthersIdle
<1>5. /\ pc'[p] = "idle" /\ \A u \in Callers \ {p} : pc'[u] = pc[u] /\ reg'[u] = reg[u]
  BY <1>1, <1>3 DEF TypeOK
<1>6. Size \in Nat /\ Size > 0 /\ List[Size] \in Nodes /\ head = List[1]
      /\ \A i, j \in 1 .. Size : List[i] = List[j] => i = j
  BY <1>1, ListFacts DEF ListInv
<1>7. tail' = List[Size]
  BY <1>2, <1>3, <1>4 DEF QInv, TailInv
<1>8. List' = List /\ Size' = Size /\ Items' = Items
  BY <1>3 DEF List, Size, Items
<1>9. TypeOK'
  <2>1. NoLocals \in Locals
    BY DEF NoLocals, Locals, Pointers
  <2>2. reg' \in [Callers -> Locals]
    BY <1>1, <1>3, <2>1
  <2>3. pc' \in [Callers -> {"idle", "tail", "next", "check", "link", "swing", "help",
                             "head", "last", "first", "msg", "take", "free"}]
    BY <1>1, <1>3 DEF TypeOK
  <2>4. QED
    BY <1>1, <1>3, <1>6, <1>7, <2>2, <2>3 DEF TypeOK, Locals
<1>10. ListInv' /\ TailInv'
  BY <1>1, <1>3, <1>7, <1>8 DEF ListInv, TailInv
<1>11. \A q \in Producers : pc'[q] = "idle"
  BY <1>4, <1>5, CallerFacts
<1>12. ASSUME NEW c \in Consumers PROVE ConsumerAt(c)'
  <2>1. c \in Callers /\ c # p /\ ConsumerAt(c) /\ pc'[c] = pc[c] /\ reg'[c] = reg[c]
    BY <1>1, <1>5, CallerFacts DEF ConsumerInv
  <2>2. tail # head => tail' # head
    BY <1>6, <1>7, TailFacts
  <2>3. pc[c] = "free" => /\ \A i \in 1 .. Size' : List'[i] # reg[c].first
                          /\ \A q \in Producers : Unlinked(q)' => reg'[q].new # reg[c].first
    BY <1>8, <1>11, <2>1 DEF ConsumerAt, Unlinked
  <2>4. QED
    BY <1>3, <2>1, <2>2, <2>3, ConsumerKept
<1>13. SeenInv'
  <2>1. \A q \in Producers : Linked(q)' = Linked(q)
    BY <1>2, <1>3, <1>4, <1>11 DEF Linked, Unlinked
  <2>2. Queue!Seen' = Queue!Seen
    BY <1>3, <1>8 DEF Queue!Seen
  <2>3. QED
    BY <2>1, <2>2 DEF SeenInv, Messages
<1>14. QED
  BY <1>3, <1>8, <1>9, <1>10, <1>11, <1>12, <1>13, IdleAt DEF QInv, ProducerInv, ConsumerInv

\* A tail that lags is brought to the end by msg_dequeue.
LEMMA DequeueHelpStep ==
  ASSUME OneEach(use), QInv, SeenInv, NEW c \in Consumers, DequeueHelp(c), WatchEmpty
  PROVE  QInv' /\ SeenInv' /\ Items' = Items /\ got' = got
<1>1. /\ c \in Callers /\ c \notin Producers /\ TypeOK /\ ListInv /\ ConsumerAt(c)
      /\ ProducerInv /\ ConsumerInv /\ use' = use /\ sawEmpty' \in SUBSET Consumers
  BY CallerFacts, SawFacts DEF QInv, ConsumerInv
<1>2. /\ pc[c] = "help" /\ c \in use.consumers
      /\ reg[c].nxt = next[head] /\ next[head] # Null /\ reg[c].last = head
  BY <1>1 DEF DequeueHelp, ConsumerAt
<1>3. /\ pc' = [pc EXCEPT ![c] = "head"]
      /\ UNCHANGED <<live, val, next, head, reg, sent, got>>
      /\ tail' = IF tail = head THEN next[head] ELSE tail
  BY <1>2 DEF DequeueHelp, HelpTail, SwingTail, Goto, heapVars, callVars
<1>4. pc'[c] = "head" /\ \A u \in Callers \ {c} : pc'[u] = pc[u]
  BY <1>1, <1>3 DEF TypeOK
<1>5. List' = List /\ Size' = Size /\ Items' = Items
  BY <1>3 DEF List, Size, Items
<1>6. Size \in Nat /\ Size > 1 /\ head = List[1] /\ next[head] = List[2] /\ List[2] \in Nodes
      /\ \A i, j \in 1 .. Size : List[i] = List[j] => i = j
  <2>1. Size > 1
    BY <1>1, <1>2, ListFacts
  <2>2. 2 \in 1 .. Size
    BY <1>1, <2>1, ListFacts
  <2>3. QED
    BY <1>1, <2>1, <2>2, ListFacts DEF ListInv
<1>7. tail = head => tail' = List[Size]
  <2>1. ASSUME tail = head PROVE Size = 2
    <3>1. tail # List[Size]
      BY <1>6, <2>1
    <3>2. tail = List[Size - 1] /\ Size - 1 \in 1 .. Size
      BY <1>6, <3>1 DEF QInv, TailInv
    <3>3. 1 \in 1 .. Size /\ List[1] = List[Size - 1]
      BY <1>6, <2>1, <3>2
    <3>4. 1 = Size - 1
      BY <1>6, <3>2, <3>3
    <3>5. QED
      BY <1>6, <3>4
  <2>2. QED
    BY <1>3, <1>6, <2>1
<1>8. \A p \in Producers : pc'[p] = pc[p] /\ reg'[p] = reg[p]
  BY <1>1, <1>3, <1>4, CallerFacts
<1>9. TypeOK'
  <2>1. pc' \in [Callers -> {"idle", "tail", "next", "check", "link", "swing", "help",
                             "head", "last", "first", "msg", "take", "free"}]
    BY <1>1, <1>3 DEF TypeOK
  <2>2. QED
    BY <1>1, <1>3, <1>6, <2>1 DEF TypeOK
<1>10. ListInv' /\ TailInv'
  <2>1. ListInv'
    BY <1>1, <1>3, <1>5 DEF ListInv
  <2>2. TailInv'
    BY <1>3, <1>5, <1>7, <1>8 DEF QInv, TailInv
  <2>3. QED
    BY <2>1, <2>2
<1>11. ASSUME NEW p \in Producers PROVE ProducerAt(p)'
  BY <1>1, <1>3, <1>5, <1>8 DEF ProducerInv, ProducerAt, Unlinked
<1>12. ASSUME NEW d \in Consumers PROVE ConsumerAt(d)'
  <2>1. CASE d = c
    BY <1>1, <1>2, <1>4, <2>1 DEF ConsumerAt
  <2>2. CASE d # c
    BY <1>2, <1>4, <2>2, OthersIdle, IdleAt, CallerFacts
  <2>3. QED
    BY <2>1, <2>2
<1>13. SeenInv'
  BY <1>3, <1>5, <1>8 DEF SeenInv, Queue!Seen, Linked, Messages, Unlinked
<1>14. QED
  BY <1>3, <1>5, <1>9, <1>10, <1>11, <1>12, <1>13 DEF QInv, ProducerInv, ConsumerInv

\* The head swap succeeds: its node becomes the dummy, its message is taken.
LEMMA TakeChanges ==
  ASSUME TypeOK, ListInv, SeenInv, NEW c \in Consumers, Take(c), WatchEmpty,
         reg[c].first = head, reg[c].nxt = next[head], next[head] # Null, reg[c].msg = val[next[head]]
  PROVE  /\ Size \in Nat /\ Size > 1 /\ head = List[1] /\ head' = List[2] /\ head \in live
         /\ UNCHANGED <<use, live, val, next, tail, reg, sent>>
         /\ got' = [got EXCEPT ![c] = Append(@, Head(Items))]
         /\ pc'[c] = "free" /\ \A u \in Callers \ {c} : pc'[u] = pc[u]
         /\ Size' = Size - 1 /\ \A i \in 1 .. Size - 1 : List'[i] = List[i + 1] /\ i + 1 \in 2 .. Size
         /\ List'[Size'] = List[Size]
         /\ \A x : (\A i \in 1 .. Size : List[i] # x) => (\A i \in 1 .. Size' : List'[i] # x)
         /\ \A i \in 1 .. Size' : List'[i] # head
         /\ TypeOK' /\ ListInv' /\ SeenInv' /\ Items # <<>> /\ Items' = Tail(Items)
<1>1. /\ c \in Callers /\ c \notin Producers /\ TypeOK /\ ListInv
      /\ use' = use /\ sawEmpty' \in SUBSET Consumers
  BY CallerFacts, SawFacts
<1>2. /\ pc[c] = "take" /\ reg[c].first = head
      /\ reg[c].nxt = next[head] /\ next[head] # Null /\ reg[c].msg = val[next[head]]
  BY DEF Take
<1>3. Size \in Nat /\ Size > 1 /\ head = List[1] /\ next[head] = List[2] /\ List[2] \in Nodes
      /\ \A i, j \in 1 .. Size : List[i] = List[j] => i = j
      /\ head \in live /\ val[List[2]] \in Messages
  <2>1. Size > 1
    BY <1>1, <1>2, ListFacts
  <2>2. 2 \in 1 .. Size /\ 1 \in 1 .. Size /\ 2 \in 2 .. Size
    BY <1>1, <2>1, ListFacts
  <2>3. QED
    BY <1>1, <2>1, <2>2, ListFacts DEF ListInv
<1>4. /\ head' = List[2] /\ pc' = [pc EXCEPT ![c] = "free"]
      /\ got' = [got EXCEPT ![c] = Append(@, val[List[2]])]
      /\ UNCHANGED <<live, val, next, tail, reg, sent>>
  BY <1>2, <1>3 DEF Take, TakeSucceeds, Goto, heapVars
<1>5. pc'[c] = "free" /\ \A u \in Callers \ {c} : pc'[u] = pc[u]
  BY <1>1, <1>4 DEF TypeOK
<1>6. /\ Size' = Size - 1 /\ IsChain(next', head', List')
      /\ \A i \in 1 .. Size - 1 : List'[i] = List[i + 1] /\ i + 1 \in 2 .. Size
      /\ List' \in Paths /\ \A i, j \in 1 .. Size' : List'[i] = List'[j] => i = j
  <2>1. \A i \in 1 .. Size - 1 : i + 1 \in 2 .. Size
    BY <1>3
  <2>2. QED
    BY <1>1, <1>3, <1>4, <2>1, ListShrunk
<1>7. \A p \in Producers : pc'[p] = pc[p] /\ reg'[p] = reg[p]
  BY <1>1, <1>4, <1>5, CallerFacts
<1>8. TypeOK'
  <2>1. pc' \in [Callers -> {"idle", "tail", "next", "check", "link", "swing", "help",
                             "head", "last", "first", "msg", "take", "free"}]
    BY <1>1, <1>4 DEF TypeOK
  <2>2. got' \in [Consumers -> Seq(Messages)]
    <3>1. got \in [Consumers -> Seq(Messages)]
      BY <1>1 DEF TypeOK
    <3>2. Append(got[c], val[List[2]]) \in Seq(Messages)
      BY <1>3, <3>1
    <3>3. QED
      BY <1>4, <3>1, <3>2
  <2>3. QED
    BY <1>1, <1>3, <1>4, <2>1, <2>2 DEF TypeOK
<1>9. ListInv'
  <2>1. \A i \in 1 .. Size - 1 : List'[i] \in live
    <3>1. \A i \in 1 .. Size - 1 : i + 1 \in 1 .. Size
      BY <1>3
    <3>2. QED
      BY <1>1, <1>6, <3>1 DEF ListInv
  <2>2. \A i \in 2 .. Size - 1 : val[List'[i]] \in Messages
    <3>1. \A i \in 2 .. Size - 1 : i \in 1 .. Size - 1
      BY <1>3
    <3>2. QED
      BY <1>1, <1>6, <3>1 DEF ListInv
  <2>3. QED
    BY <1>4, <1>6, <2>1, <2>2 DEF ListInv
<1>10. List'[Size'] = List[Size]
  <2>1. Size - 1 \in 1 .. Size - 1 /\ Size - 1 + 1 = Size
    BY <1>3
  <2>2. List'[Size - 1] = List[Size]
    BY <1>6, <2>1
  <2>3. QED
    BY <1>6, <2>2
<1>11. \A x : (\A i \in 1 .. Size : List[i] # x) => (\A i \in 1 .. Size' : List'[i] # x)
  <2>1. \A i \in 1 .. Size - 1 : i + 1 \in 1 .. Size
    BY <1>3
  <2>2. QED
    BY <1>6, <2>1
<1>12. \A i \in 1 .. Size' : List'[i] # head
  <2>1. \A i \in 1 .. Size - 1 : i + 1 \in 1 .. Size /\ i + 1 # 1 /\ 1 \in 1 .. Size
    BY <1>3
  <2>2. QED
    BY <1>3, <1>6, <2>1
<1>13. Items \in Seq(Messages) /\ Items # <<>> /\ Items' = Tail(Items) /\ Head(Items) = val[List[2]]
  <2>1. /\ Items' \in Seq(Messages) /\ Len(Items') = Size' - 1
        /\ \A i \in 1 .. Size' - 1 : Items'[i] = val'[List'[i + 1]]
    <3>1. (ListInv => /\ Items \in Seq(Messages) /\ Len(Items) = Size - 1
                      /\ \A i \in 1 .. Size - 1 : Items[i] = val[List[i + 1]] /\ i + 1 \in 2 .. Size)'
      BY ItemsFacts, PTL
    <3>2. QED
      BY <1>9, <3>1
  <2>2. PICK s \in Seq(Messages) : s = Items
    BY <1>1, ItemsFacts
  <2>3. PICK r \in Seq(Messages) : r = Items'
    BY <2>1
  <2>4. /\ Len(s) = Size - 1 /\ Len(r) = Size - 2 /\ Len(s) > 0
        /\ \A i \in 1 .. Size - 1 : s[i] = val[List[i + 1]]
    BY <1>1, <1>3, <1>6, <2>1, <2>2, <2>3, ItemsFacts
  <2>5. \A i \in 1 .. Size - 2 : r[i] = s[i + 1]
    <3>1. \A i \in 1 .. Size - 2 : i \in 1 .. Size' - 1 /\ i + 1 \in 1 .. Size - 1
      BY <1>3, <1>6
    <3>2. \A i \in 1 .. Size - 2 : r[i] = val[List'[i + 1]] /\ List'[i + 1] = List[i + 1 + 1]
      BY <1>4, <1>6, <2>1, <2>3, <3>1
    <3>3. QED
      BY <2>4, <3>1, <3>2
  <2>6. PICK w \in Seq(Messages) : w = Tail(s)
    <3>1. Tail(s) \in Seq(Messages)
      BY <1>3, <2>4
    <3>2. QED
      BY <3>1
  <2>7. Len(w) = Size - 2 /\ \A i \in 1 .. Size - 2 : w[i] = s[i + 1]
    BY <1>3, <2>4, <2>6
  <2>8. r = w
    BY <1>3, <2>4, <2>5, <2>7
  <2>9. Head(s) = val[List[2]] /\ s # <<>>
    BY <1>3, <2>4
  <2>10. QED
    BY <2>2, <2>3, <2>6, <2>8, <2>9
<1>14. SeenInv'
  <2>1. Queue!Elements(Items) = Queue!Elements(Items') \cup {val[List[2]]}
    BY <1>13, TailElements
  <2>2. got \in [Consumers -> Seq(Messages)]
    BY <1>1 DEF TypeOK
  <2>3. Queue!Elements(got'[c]) = Queue!Elements(got[c]) \cup {val[List[2]]}
    <3>1. got[c] \in Seq(Messages) /\ got'[c] = Append(got[c], val[List[2]])
      BY <1>4, <2>2
    <3>2. QED
      BY <1>3, <3>1, AppendElements
  <2>4. \A d \in Consumers \ {c} : got'[d] = got[d]
    BY <1>4, <2>2
  <2>5. \A x : /\ x \in Queue!Seen <=> x \in Queue!Elements(Items)
                                       \/ \E d \in Consumers : x \in Queue!Elements(got[d])
               /\ x \in Queue!Seen' <=> x \in Queue!Elements(Items')
                                        \/ \E d \in Consumers : x \in Queue!Elements(got'[d])
    <3>1. (\A x : x \in Queue!Seen <=> x \in Queue!Elements(Items)
                                       \/ \E d \in Consumers : x \in Queue!Elements(got[d]))'
      BY SeenMeans, PTL
    <3>2. QED
      BY <3>1, SeenMeans
  <2>6. Queue!Seen' = Queue!Seen
    <3>1. \A x : x \in Queue!Seen' => x \in Queue!Seen
      BY <2>1, <2>3, <2>4, <2>5
    <3>2. \A x : x \in Queue!Seen => x \in Queue!Seen'
      BY <2>1, <2>3, <2>4, <2>5
    <3>3. QED
      BY <3>1, <3>2
  <2>7. \A p \in Producers : Linked(p)' = Linked(p)
    BY <1>4, <1>7 DEF Linked, Unlinked
  <2>8. QED
    BY <2>6, <2>7 DEF SeenInv, Messages
<1>15. got' = [got EXCEPT ![c] = Append(@, Head(Items))]
  BY <1>4, <1>13
<1>16. UNCHANGED <<use, live, val, next, tail, reg, sent>>
  BY <1>1, <1>4
<1>17. /\ Size \in Nat /\ Size > 1 /\ head = List[1] /\ head' = List[2] /\ head \in live
  BY <1>3, <1>4
<1>18. TypeOK' /\ ListInv' /\ SeenInv' /\ Items # <<>> /\ Items' = Tail(Items)
  BY <1>8, <1>9, <1>13, <1>14
<1>19. Size' = Size - 1 /\ \A i \in 1 .. Size - 1 : List'[i] = List[i + 1] /\ i + 1 \in 2 .. Size
  BY <1>6
<1>20. QED
  BY <1>5, <1>10, <1>11, <1>12, <1>15, <1>16, <1>17, <1>18, <1>19, Zenon

\* One producer and one consumer: the swap succeeds.
LEMMA TakeStep ==
  ASSUME OneEach(use), QInv, SeenInv, NEW c \in Consumers, Take(c), WatchEmpty
  PROVE  /\ QInv' /\ SeenInv' /\ Items # <<>> /\ Items' = Tail(Items)
         /\ got' = [got EXCEPT ![c] = Append(@, Head(Items))]
<1>1. /\ c \in Callers /\ c \notin Producers /\ TypeOK /\ ListInv /\ ConsumerAt(c)
      /\ ProducerInv /\ ConsumerInv
  BY CallerFacts DEF QInv, ConsumerInv
<1>2. /\ pc[c] = "take" /\ c \in use.consumers /\ reg[c].first = head
      /\ reg[c].nxt = next[head] /\ next[head] # Null
      /\ tail # head /\ reg[c].msg = val[next[head]]
  BY <1>1 DEF Take, ConsumerAt
<1>3. /\ Size \in Nat /\ Size > 1 /\ head = List[1] /\ head' = List[2] /\ head \in live
      /\ UNCHANGED <<use, live, val, next, tail, reg, sent>>
      /\ got' = [got EXCEPT ![c] = Append(@, Head(Items))]
      /\ pc'[c] = "free" /\ \A u \in Callers \ {c} : pc'[u] = pc[u]
      /\ Size' = Size - 1 /\ \A i \in 1 .. Size - 1 : List'[i] = List[i + 1] /\ i + 1 \in 2 .. Size
      /\ List'[Size'] = List[Size]
      /\ \A x : (\A i \in 1 .. Size : List[i] # x) => (\A i \in 1 .. Size' : List'[i] # x)
      /\ \A i \in 1 .. Size' : List'[i] # head
      /\ TypeOK' /\ ListInv' /\ SeenInv' /\ Items # <<>> /\ Items' = Tail(Items)
  BY <1>1, <1>2, TakeChanges
<1>4. \A p \in Producers : pc'[p] = pc[p] /\ reg'[p] = reg[p]
  BY <1>1, <1>3, CallerFacts
<1>5. TailInv'
  <2>1. CASE tail = List[Size]
    BY <1>3, <2>1 DEF TailInv
  <2>2. CASE tail # List[Size]
    <3>1. tail = List[Size - 1] /\ \E p \in Producers : pc[p] = "swing" /\ reg[p].last = tail
      BY <2>2 DEF QInv, TailInv
    <3>2. Size - 1 # 1
      BY <1>2, <1>3, <3>1
    <3>3. Size - 2 \in 1 .. Size - 1 /\ Size - 2 + 1 = Size - 1 /\ Size - 1 > 1 /\ Size - 1 - 1 = Size - 2
      BY <1>3, <3>2
    <3>4. List'[Size - 2] = List[Size - 1]
      BY <1>3, <3>3
    <3>5. Size' > 1 /\ tail' = List'[Size' - 1]
      <4>1. Size' = Size - 1 /\ tail' = tail
        BY <1>3
      <4>2. QED
        BY <3>1, <3>3, <3>4, <4>1
    <3>6. QED
      BY <1>3, <1>4, <3>1, <3>5 DEF TailInv
  <2>3. QED
    BY <2>1, <2>2
<1>6. ASSUME NEW p \in Producers PROVE ProducerAt(p)'
  <2>1. ProducerAt(p) /\ pc'[p] = pc[p] /\ reg'[p] = reg[p]
    BY <1>1, <1>4 DEF ProducerInv
  <2>2. QED
    BY <1>3, <2>1 DEF ProducerAt, Unlinked
<1>7. ASSUME NEW d \in Consumers PROVE ConsumerAt(d)'
  <2>1. CASE d # c
    BY <1>2, <1>3, <2>1, OthersIdle, IdleAt, CallerFacts
  <2>2. CASE d = c
    <3>1. \A p \in Producers : Unlinked(p)' => reg'[p].new # head
      <4>1. 1 \in 1 .. Size
        BY <1>3
      <4>2. QED
        BY <1>1, <1>3, <1>4, <4>1 DEF ProducerInv, ProducerAt, Unlinked
    <3>2. QED
      BY <1>1, <1>2, <1>3, <2>2, <3>1 DEF ConsumerAt
  <2>3. QED
    BY <2>1, <2>2
<1>8. QED
  BY <1>3, <1>5, <1>6, <1>7 DEF QInv, ProducerInv, ConsumerInv

\* The old dummy is freed: it is nobody else's.
LEMMA FreeStep ==
  ASSUME OneEach(use), QInv, SeenInv, NEW c \in Consumers, Free(c), WatchEmpty
  PROVE  QInv' /\ SeenInv' /\ Items' = Items /\ got' = got
<1>1. /\ c \in Callers /\ c \notin Producers /\ TypeOK /\ ListInv /\ ConsumerAt(c)
      /\ ProducerInv /\ ConsumerInv /\ reg \in [Callers -> Locals]
      /\ use' = use /\ sawEmpty' \in SUBSET Consumers
  BY CallerFacts, SawFacts DEF QInv, ConsumerInv, TypeOK, Locals
<1>2. /\ pc[c] = "free" /\ c \in use.consumers
      /\ \A i \in 1 .. Size : List[i] # reg[c].first
      /\ \A p \in Producers : Unlinked(p) => reg[p].new # reg[c].first
  BY <1>1 DEF Free, ConsumerAt
<1>3. /\ live' = live \ {reg[c].first} /\ pc' = [pc EXCEPT ![c] = "idle"]
      /\ reg' = [reg EXCEPT ![c] = NoLocals] /\ UNCHANGED <<val, next, head, tail, sent, got>>
  BY DEF Free, Freed, Jump, Goto, callVars
<1>4. pc'[c] = "idle" /\ \A u \in Callers \ {c} : pc'[u] = pc[u] /\ reg'[u] = reg[u]
  BY <1>1, <1>3 DEF TypeOK
<1>5. List' = List /\ Size' = Size /\ Items' = Items
  BY <1>3 DEF List, Size, Items
<1>6. \A p \in Producers : pc'[p] = pc[p] /\ reg'[p] = reg[p]
  BY <1>1, <1>4, CallerFacts
<1>7. TypeOK'
  <2>1. NoLocals \in Locals
    BY DEF NoLocals, Locals, Pointers
  <2>2. reg' \in [Callers -> Locals]
    BY <1>1, <1>3, <2>1
  <2>3. pc' \in [Callers -> {"idle", "tail", "next", "check", "link", "swing", "help",
                             "head", "last", "first", "msg", "take", "free"}]
    BY <1>1, <1>3 DEF TypeOK
  <2>4. QED
    BY <1>1, <1>3, <2>2, <2>3 DEF TypeOK, Locals
<1>8. ListInv'
  BY <1>1, <1>2, <1>3, <1>5 DEF ListInv
<1>9. TailInv'
  BY <1>3, <1>5, <1>6 DEF QInv, TailInv
<1>10. ASSUME NEW p \in Producers PROVE ProducerAt(p)'
  <2>1. ProducerAt(p) /\ pc'[p] = pc[p] /\ reg'[p] = reg[p]
    BY <1>1, <1>6 DEF ProducerInv
  <2>2. QED
    BY <1>1, <1>2, <1>3, <1>5, <2>1 DEF ProducerAt, Unlinked
<1>11. \A d \in Consumers : pc'[d] = "idle"
  BY <1>2, <1>4, OthersIdle, CallerFacts
<1>12. SeenInv'
  BY <1>3, <1>5, <1>6 DEF SeenInv, Queue!Seen, Linked, Messages, Unlinked
<1>13. QED
  BY <1>3, <1>5, <1>7, <1>8, <1>9, <1>10, <1>11, <1>12, IdleAt DEF QInv, ProducerInv, ConsumerInv

--------------------------------------------------------------------------------
(* Producers first, then consumers                                         *)

\* What the invariant says of tail, and of who is in a call.
LEMMA TurnFacts ==
  ASSUME TurnInv
  PROVE  /\ Size \in Nat /\ Size > 0 /\ head = List[1] /\ head \in live
         /\ \E k \in 1 .. Size : tail = List[k]
         /\ AllSent => tail = List[Size]
         /\ ~AllSent => \A c \in Consumers : pc[c] = "idle"
<1>1. Size \in Nat /\ Size > 0 /\ head = List[1] /\ \A i \in 1 .. Size : List[i] \in live
  BY ListFacts DEF TurnInv, ListInv
<1>2. tail = List[Size] \/ (Size > 1 /\ tail = List[Size - 1])
  BY DEF TurnInv, TailInv
<1>3. \E k \in 1 .. Size : tail = List[k]
  <2>1. Size \in 1 .. Size /\ (Size > 1 => Size - 1 \in 1 .. Size)
    BY <1>1
  <2>2. QED
    BY <1>2, <2>1
<1>4. AllSent => tail = List[Size]
  BY DEF TurnInv, TailInv, AllSent
<1>5. ~AllSent => \A c \in Consumers : pc[c] = "idle"
  BY DEF TurnInv, ConsumerTurn
<1>6. QED
  BY <1>1, <1>3, <1>4, <1>5

\* In these uses too a thread that is in no call holds nothing.
LEMMA IdleTurn ==
  /\ \A p \in Producers : pc'[p] = "idle" => ProducerTurn(p)'
  /\ \A c \in Consumers : pc'[c] = "idle" => ConsumerTurn(c)'
BY DEF ProducerTurn, ConsumerTurn, Unlinked

\* What is read of a node is a pointer or a message, be it freed or not.
LEMMA ReadTypes ==
  ASSUME TypeOK
  PROVE  \A n : NextOf(n) \subseteq Pointers /\ MsgOf(n) \subseteq Messages \cup {Null}
BY DEF TypeOK, NextOf, MsgOf

\* A quiet step keeps the invariant if it keeps the part about its thread.
LEMMA TurnQuiet ==
  ASSUME TurnInv, SeenInv, NEW t \in Callers, Quiet(t),
         t \in Producers => ProducerTurn(t)', t \in Consumers => ConsumerTurn(t)'
  PROVE  TurnInv' /\ SeenInv'
<1>1. UNCHANGED <<use, live, val, next, head, tail, sent, got>> /\ sawEmpty' \in SUBSET Consumers
  BY SawFacts DEF Quiet, listVars, heapVars, callVars
<1>2. List' = List /\ Size' = Size /\ Items' = Items
  BY <1>1 DEF List, Size, Items
<1>3. TypeOK'
  BY <1>1 DEF TurnInv, TypeOK, Quiet, Locals
<1>4. ListInv'
  BY <1>1, <1>2 DEF TurnInv, ListInv
<1>5. \A p \in Producers : /\ Unlinked(p)' <=> Unlinked(p)
                           /\ reg'[p].new = reg[p].new
                           /\ pc[p] = "swing" => pc'[p] = "swing" /\ reg'[p] = reg[p]
                           /\ pc'[p] = "swing" => pc[p] = "swing"
  BY CallerFacts DEF Quiet, Unlinked
<1>6. TailInv'
  BY <1>1, <1>2, <1>5 DEF TurnInv, TailInv
<1>7. ASSUME NEW p \in Producers, p # t PROVE ProducerTurn(p)'
  <2>1. pc'[p] = pc[p] /\ reg'[p] = reg[p] /\ ProducerTurn(p)
    BY <1>7, CallerFacts DEF Quiet, TurnInv
  <2>2. \A n : Off(n)' <=> Off(n)
    BY <1>2 DEF Off
  <2>3. Unlinked(p)' => \A q \in Producers : Unlinked(q)' /\ q # p => reg'[q].new # reg'[p].new
    BY <1>5, <2>1 DEF ProducerTurn
  <2>4. QED
    BY <1>1, <1>2, <1>5, <2>1, <2>2, <2>3 DEF ProducerTurn
<1>8. ASSUME NEW c \in Consumers, c # t PROVE ConsumerTurn(c)'
  <2>1. pc'[c] = pc[c] /\ reg'[c] = reg[c] /\ ConsumerTurn(c)
    BY <1>8, CallerFacts DEF Quiet, TurnInv
  <2>2. Items' = <<>> => c \in sawEmpty'
    BY SawFacts DEF Quiet
  <2>3. AllSent => AllSent'
    <3>1. ASSUME AllSent PROVE t \notin Producers
      BY <3>1 DEF Quiet, AllSent, Unlinked
    <3>2. t \notin Producers => \A p \in Producers : pc'[p] = pc[p]
      BY CallerFacts DEF Quiet
    <3>3. QED
      BY <1>1, <3>1, <3>2 DEF AllSent
  <2>4. QED
    BY <1>1, <1>2, <2>1, <2>2, <2>3 DEF ConsumerTurn, Off
<1>9. SeenInv'
  BY <1>1, <1>2, <1>5 DEF SeenInv, Queue!Seen, Linked, Messages
<1>10. QED
  BY <1>3, <1>4, <1>6, <1>7, <1>8, <1>9 DEF TurnInv

\* A step of a producer that only changes what it knows.
LEMMA ProducerQuiet ==
  ASSUME TurnInv, SeenInv, NEW p \in Producers, WatchEmpty, UNCHANGED <<listVars, callVars>>, Unlinked(p),
         NEW to \in {"tail", "next", "check", "link", "help"}, pc' = [pc EXCEPT ![p] = to],
         reg' \in [Callers -> Locals], \A u \in Callers \ {p} : reg'[u] = reg[u],
         reg'[p].new = reg[p].new,
         to # "tail" => \E i, k \in 1 .. Size : i <= k /\ reg'[p].last = List[i] /\ tail = List[k],
         to = "help" => reg'[p].last # tail
  PROVE  TurnInv' /\ SeenInv'
<1>1. p \in Callers /\ p \notin Consumers /\ TypeOK /\ ProducerTurn(p)
  BY CallerFacts DEF TurnInv
<1>2. pc'[p] = to /\ \A u \in Callers \ {p} : pc'[u] = pc[u]
  BY <1>1 DEF TypeOK
<1>3. pc' \in [Callers -> {"idle", "tail", "next", "check", "link", "swing", "help",
                           "head", "last", "first", "msg", "take", "free"}]
  BY <1>1 DEF TypeOK
<1>4. Unlinked(p)' /\ pc[p] # "swing" /\ pc[p] # "idle"
  BY <1>2 DEF Unlinked
<1>5. Quiet(p)
  BY <1>1, <1>2, <1>3, <1>4 DEF Quiet
<1>6. UNCHANGED <<use, live, val, next, head, tail, sent>>
  BY DEF WatchEmpty, listVars, heapVars, callVars
<1>7. List' = List /\ Size' = Size /\ \A n : Off(n)' <=> Off(n)
  BY <1>6 DEF List, Size, Off
<1>8. ProducerTurn(p)'
  <2>1. \A q \in Producers : q # p => (Unlinked(q)' <=> Unlinked(q)) /\ reg'[q].new = reg[q].new
    BY <1>2, CallerFacts DEF Unlinked
  <2>2. \A q \in Producers : Unlinked(q)' /\ q # p => reg'[q].new # reg'[p].new
    BY <1>1, <2>1 DEF ProducerTurn
  <2>3. pc'[p] # "swing" /\ sent'[p] > 0
    BY <1>1, <1>2, <1>4, <1>6 DEF ProducerTurn
  <2>4. QED
    BY <1>1, <1>2, <1>6, <1>7, <2>2, <2>3 DEF ProducerTurn
<1>9. QED
  BY <1>1, <1>5, <1>8, TurnQuiet

\* q->tail is read: it is on the list.
LEMMA TurnReadTail ==
  ASSUME TurnInv, SeenInv, NEW p \in Producers, ReadTail(p), WatchEmpty
  PROVE  TurnInv' /\ SeenInv'
<1>1. p \in Callers /\ TypeOK /\ reg \in [Callers -> Locals]
  BY CallerFacts DEF TurnInv, TypeOK, Locals
<1>2. /\ pc[p] = "tail" /\ pc' = [pc EXCEPT ![p] = "next"]
      /\ reg' = [reg EXCEPT ![p].last = tail] /\ UNCHANGED <<listVars, callVars>>
  BY DEF ReadTail, Read, Goto
<1>3. /\ reg'[p].new = reg[p].new /\ reg'[p].last = tail
      /\ reg' \in [Callers -> Locals] /\ \A u \in Callers \ {p} : reg'[u] = reg[u]
  <2>1. tail \in Pointers
    BY <1>1 DEF TypeOK, Pointers
  <2>2. QED
    BY <1>1, <1>2, <2>1 DEF Locals
<1>4. \E i, k \in 1 .. Size : i <= k /\ reg'[p].last = List[i] /\ tail = List[k]
  <2>1. PICK k \in 1 .. Size : tail = List[k]
    BY TurnFacts
  <2>2. k <= k
    BY TurnFacts
  <2>3. QED
    BY <1>3, <2>1, <2>2
<1>5. Unlinked(p)
  BY <1>2 DEF Unlinked
<1>6. QED
  BY <1>2, <1>3, <1>4, <1>5, ProducerQuiet

\* last->next is read: last is still on the list, as nobody dequeues.
LEMMA TurnReadNext ==
  ASSUME TurnInv, SeenInv, NEW p \in Producers, ReadNext(p), WatchEmpty
  PROVE  TurnInv' /\ SeenInv'
<1>1. p \in Callers /\ TypeOK /\ reg \in [Callers -> Locals] /\ ProducerTurn(p)
  BY CallerFacts DEF TurnInv, TypeOK, Locals
<1>2. PICK x \in Pointers :
        /\ pc[p] = "next" /\ pc' = [pc EXCEPT ![p] = "check"]
        /\ reg' = [reg EXCEPT ![p].nxt = x] /\ UNCHANGED <<listVars, callVars>>
  BY <1>1, ReadTypes DEF ReadNext, Read, Goto
<1>3. /\ reg'[p].new = reg[p].new /\ reg'[p].last = reg[p].last
      /\ reg' \in [Callers -> Locals] /\ \A u \in Callers \ {p} : reg'[u] = reg[u]
  BY <1>1, <1>2 DEF Locals
<1>4. \E i, k \in 1 .. Size : i <= k /\ reg'[p].last = List[i] /\ tail = List[k]
  BY <1>1, <1>2, <1>3 DEF ProducerTurn
<1>5. Unlinked(p)
  BY <1>2 DEF Unlinked
<1>6. QED
  BY <1>2, <1>3, <1>4, <1>5, ProducerQuiet

\* The tests of msg_enqueue; others may have moved tail on.
LEMMA TurnCheckTail ==
  ASSUME TurnInv, SeenInv, NEW p \in Producers, CheckTail(p), WatchEmpty
  PROVE  TurnInv' /\ SeenInv'
<1>1. p \in Callers /\ TypeOK /\ reg \in [Callers -> Locals] /\ ProducerTurn(p)
  BY CallerFacts DEF TurnInv, TypeOK, Locals
<1>2. PICK to \in {"link", "tail", "help"} :
        /\ pc[p] = "check" /\ pc' = [pc EXCEPT ![p] = to] /\ UNCHANGED <<listVars, reg, callVars>>
        /\ to = "help" => reg[p].last # tail
  BY DEF CheckTail, Goto
<1>3. \E i, k \in 1 .. Size : i <= k /\ reg'[p].last = List[i] /\ tail = List[k]
  BY <1>1, <1>2 DEF ProducerTurn
<1>4. Unlinked(p)
  BY <1>2 DEF Unlinked
<1>5. QED
  BY <1>1, <1>2, <1>3, <1>4, ProducerQuiet

\* The help of msg_enqueue never moves tail: it has moved on and does not return.
LEMMA TurnEnqueueHelp ==
  ASSUME TurnInv, SeenInv, NEW p \in Producers, EnqueueHelp(p), WatchEmpty
  PROVE  TurnInv' /\ SeenInv' /\ Items' = Items /\ got' = got
<1>1. p \in Callers /\ TypeOK /\ reg \in [Callers -> Locals] /\ ProducerTurn(p)
  BY CallerFacts DEF TurnInv, TypeOK, Locals
<1>2. pc[p] = "help" /\ reg[p].last # tail
  BY <1>1 DEF EnqueueHelp, ProducerTurn
<1>3. pc' = [pc EXCEPT ![p] = "tail"] /\ UNCHANGED <<listVars, reg, callVars>>
  BY <1>2 DEF EnqueueHelp, SwingTail, Goto, listVars
<1>4. Unlinked(p)
  BY <1>2 DEF Unlinked
<1>5. TurnInv' /\ SeenInv'
  BY <1>1, <1>3, <1>4, ProducerQuiet
<1>6. Items' = Items /\ got' = got
  BY <1>3 DEF listVars, heapVars, callVars, Items, List
<1>7. QED
  BY <1>5, <1>6

\* A new node is one that nobody holds.
LEMMA TurnAllocate ==
  ASSUME TurnInv, SeenInv, NEW p \in Producers, Allocate(p), WatchEmpty
  PROVE  TurnInv' /\ SeenInv' /\ Items' = Items /\ got' = got
<1>1. p \in Callers /\ p \notin Consumers /\ TypeOK /\ ListInv
  BY CallerFacts DEF TurnInv
<1>2. PICK n \in Nodes \ live :
        /\ pc[p] = "idle" /\ sent[p] < use.count[p] /\ sent[p] \in Nat /\ use.count[p] \in Nat
        /\ UNCHANGED <<use, head, tail, got>>
        /\ live' = live \cup {n} /\ \A m \in live : val'[m] = val[m] /\ next'[m] = next[m]
        /\ val'[n] = <<p, sent'[p]>> /\ next'[n] = Null
        /\ pc'[p] = "tail" /\ reg'[p].new = n /\ sent'[p] = sent[p] + 1
        /\ \A u \in Callers \ {p} : pc'[u] = pc[u] /\ reg'[u] = reg[u]
        /\ \A q \in Producers \ {p} : sent'[q] = sent[q]
        /\ TypeOK' /\ ListInv' /\ SeenInv' /\ List' = List /\ Size' = Size /\ Items' = Items
  BY <1>1, AllocateChanges
<1>3. /\ \A i \in 1 .. Size : List[i] \in live
      /\ \A m : Off(m)' <=> Off(m)
      /\ Off(n)
  BY <1>1, <1>2 DEF ListInv, Off
<1>4. \A q \in Producers : q # p => pc'[q] = pc[q] /\ reg'[q] = reg[q] /\ sent'[q] = sent[q]
  BY <1>2, CallerFacts
<1>5. TailInv'
  BY <1>2, <1>4 DEF TurnInv, TailInv
<1>6. \A q \in Producers : Unlinked(q)' /\ q # p => Unlinked(q) /\ reg[q].new \in live
  BY <1>4 DEF TurnInv, ProducerTurn, Unlinked
<1>7. ProducerTurn(p)'
  <2>1. \A q \in Producers : Unlinked(q)' /\ q # p => reg'[q].new # n
    BY <1>2, <1>4, <1>6
  <2>2. sent'[p] > 0 /\ n \in live'
    BY <1>2
  <2>3. QED
    BY <1>2, <1>3, <2>1, <2>2 DEF ProducerTurn
<1>8. ASSUME NEW q \in Producers, q # p PROVE ProducerTurn(q)'
  <2>1. ProducerTurn(q) /\ pc'[q] = pc[q] /\ reg'[q] = reg[q] /\ sent'[q] = sent[q]
    BY <1>4, <1>8 DEF TurnInv
  <2>2. Unlinked(q)' => /\ reg[q].new \in live /\ reg[q].new \in live' /\ reg[q].new # n
                        /\ next'[reg[q].new] = next[reg[q].new] /\ val'[reg[q].new] = val[reg[q].new]
    BY <1>2, <1>6, <1>8
  <2>3. Unlinked(q)' => \A r \in Producers : Unlinked(r)' /\ r # q => reg'[r].new # reg'[q].new
    BY <1>2, <1>4, <1>6, <2>1, <2>2 DEF ProducerTurn
  <2>4. Unlinked(q)' <=> Unlinked(q)
    BY <2>1 DEF Unlinked
  <2>5. pc[q] = "swing" => \A r \in Producers : pc'[r] = "swing" => r = q
    BY <1>2, <1>4, <2>1 DEF ProducerTurn
  <2>6. QED
    BY <1>2, <1>3, <2>1, <2>2, <2>3, <2>4, <2>5 DEF ProducerTurn
<1>9. \A c \in Consumers : pc'[c] = "idle"
  <2>1. ~AllSent
    BY <1>2 DEF AllSent
  <2>2. QED
    BY <1>1, <1>2, <2>1, TurnFacts, CallerFacts
<1>10. QED
  BY <1>2, <1>5, <1>7, <1>8, <1>9, IdleTurn DEF TurnInv

\* The link swap succeeds at the last node only; elsewhere the loop goes round.
LEMMA TurnLink ==
  ASSUME TurnInv, SeenInv, NEW p \in Producers, Link(p), WatchEmpty
  PROVE  /\ TurnInv' /\ SeenInv' /\ got' = got
         /\ Items' = Items \/ Items' = Append(Items, <<p, sent[p]>>)
<1>1. /\ p \in Callers /\ p \notin Consumers /\ TypeOK /\ ListInv /\ ProducerTurn(p) /\ pc[p] = "link"
      /\ reg \in [Callers -> Locals]
  BY CallerFacts DEF TurnInv, Link, TypeOK, Locals
<1>2. PICK n \in live : n = reg[p].new
  BY <1>1 DEF ProducerTurn, Unlinked
<1>3. /\ sent[p] > 0 /\ \A i \in 1 .. Size : List[i] # n
      /\ next[n] = Null /\ val[n] = <<p, sent[p]>>
      /\ \A q \in Producers : Unlinked(q) /\ q # p => reg[q].new # n
  BY <1>1, <1>2 DEF ProducerTurn, Unlinked, Off
<1>4. PICK i, k \in 1 .. Size : i <= k /\ reg[p].last = List[i] /\ tail = List[k]
  BY <1>1 DEF ProducerTurn
<1>5. /\ Size \in Nat /\ Size > 0 /\ i \in Nat /\ k \in Nat
      /\ List[i] \in live /\ \A j, m \in 1 .. Size : List[j] = List[m] => j = m
  BY <1>1, <1>4, ListFacts DEF ListInv
<1>6. CASE i # Size
  <2>1. next[List[i]] = List[i + 1] /\ List[i + 1] \in Nodes
    <3>1. i \in 1 .. Size - 1
      BY <1>4, <1>5, <1>6
    <3>2. QED
      BY <1>1, <3>1, ListFacts
  <2>2. Null \notin NextOf(reg[p].last)
    BY <1>4, <1>5, <2>1, CallerFacts DEF NextOf
  <2>3. pc' = [pc EXCEPT ![p] = "tail"] /\ UNCHANGED <<listVars, reg, callVars>>
    BY <2>2 DEF Link, LinkSucceeds, Goto, listVars, heapVars
  <2>4. TurnInv' /\ SeenInv'
    BY <1>1, <2>3, ProducerQuiet DEF Unlinked
  <2>5. Items' = Items /\ got' = got
    BY <2>3 DEF listVars, heapVars, callVars, Items, List
  <2>6. QED
    BY <2>4, <2>5
<1>7. CASE i = Size
  <2>1. tail = List[Size] /\ reg[p].last = List[Size]
    BY <1>4, <1>5, <1>7
  <2>2. /\ next' = [next EXCEPT ![List[Size]] = n] /\ List[Size] \in Nodes
        /\ UNCHANGED <<use, live, val, head, tail, reg, sent, got>>
        /\ pc'[p] = "swing" /\ \A u \in Callers \ {p} : pc'[u] = pc[u]
        /\ Size' = Size + 1 /\ List'[Size'] = n
        /\ \A j \in 1 .. Size : List'[j] = List[j]
        /\ \A j \in 1 .. Size' : (j \in 1 .. Size /\ List'[j] = List[j]) \/ (j = Size + 1 /\ List'[j] = n)
        /\ TypeOK' /\ ListInv' /\ SeenInv' /\ Items' = Append(Items, <<p, sent[p]>>)
    BY <1>1, <1>2, <1>3, <2>1, LinkChanges
  <2>3. \A q \in Producers : q # p => pc'[q] = pc[q] /\ pc[q] # "swing"
    <3>1. \A q \in Producers : pc[q] = "swing" => Size > 1 /\ List[Size] = List[Size - 1]
      BY <2>1 DEF TurnInv, ProducerTurn
    <3>2. Size > 1 => Size \in 1 .. Size /\ Size - 1 \in 1 .. Size /\ Size - 1 # Size
      BY <1>5
    <3>3. QED
      BY <1>5, <2>2, <3>1, <3>2, CallerFacts
  <2>4. /\ Size' > 1 /\ Size' - 1 = Size /\ tail = List'[Size' - 1] /\ List[Size] # n
        /\ \A j \in 1 .. Size : j \in 1 .. Size'
    <3>1. Size \in 1 .. Size /\ Size + 1 > 1 /\ Size + 1 - 1 = Size
          /\ \A j \in 1 .. Size : j \in 1 .. Size + 1
      BY <1>5
    <3>2. Size' = Size + 1 /\ List'[Size] = List[Size]
      BY <2>2, <3>1
    <3>3. QED
      BY <1>3, <2>1, <3>1, <3>2
  <2>5. TailInv'
    BY <1>1, <2>1, <2>2, <2>4 DEF TailInv
  <2>6. ProducerTurn(p)'
    BY <1>2, <1>3, <2>1, <2>2, <2>3, <2>4 DEF ProducerTurn, Unlinked
  <2>7. ASSUME NEW q \in Producers, q # p PROVE ProducerTurn(q)'
    <3>1. ProducerTurn(q) /\ pc'[q] = pc[q] /\ pc[q] # "swing" /\ reg'[q] = reg[q] /\ sent'[q] = sent[q]
      BY <2>2, <2>3, <2>7 DEF TurnInv
    <3>2. \A r \in Producers : Unlinked(r)' => Unlinked(r)
      BY <2>2, <2>3 DEF Unlinked
    <3>3. Unlinked(q) => reg[q].new # n /\ reg[q].new # List[Size] /\ reg[q].new \in Nodes
      <4>1. Unlinked(q) => Off(reg[q].new) /\ Size \in 1 .. Size /\ reg[q].new \in live
        BY <1>5, <3>1 DEF ProducerTurn
      <4>2. QED
        BY <1>1, <1>3, <2>7, <4>1 DEF Off, TypeOK
    <3>4. Unlinked(q) => Off(reg[q].new)' /\ next'[reg[q].new] = next[reg[q].new]
      <4>1. Unlinked(q) => Off(reg[q].new)
        BY <3>1 DEF ProducerTurn
      <4>2. next \in [Nodes -> Pointers]
        BY <1>1 DEF TypeOK
      <4>3. QED
        BY <2>2, <3>1, <3>3, <4>1, <4>2 DEF Off
    <3>5. pc[q] \in {"next", "check", "link", "help"} =>
            \E j, m \in 1 .. Size' : j <= m /\ reg'[q].last = List'[j] /\ tail' = List'[m]
      <4>1. SUFFICES ASSUME pc[q] \in {"next", "check", "link", "help"}
                     PROVE  \E j, m \in 1 .. Size' : j <= m /\ reg'[q].last = List'[j] /\ tail' = List'[m]
        OBVIOUS
      <4>2. PICK j, m \in 1 .. Size : j <= m /\ reg[q].last = List[j] /\ tail = List[m]
        BY <3>1, <4>1 DEF ProducerTurn
      <4>3. reg'[q].last = List'[j] /\ tail' = List'[m] /\ j \in 1 .. Size' /\ m \in 1 .. Size'
        <5>1. List'[j] = List[j] /\ List'[m] = List[m] /\ tail' = tail
          BY <2>2
        <5>2. QED
          BY <2>4, <3>1, <4>2, <5>1
      <4>4. QED
        BY <4>2, <4>3
    <3>6. Unlinked(q)' => \A r \in Producers : Unlinked(r)' /\ r # q => reg'[r].new # reg'[q].new
      BY <2>2, <3>1, <3>2 DEF ProducerTurn
    <3>7. /\ pc'[q] \in {"idle", "tail", "next", "check", "link", "swing", "help"}
          /\ pc'[q] # "idle" => sent'[q] > 0
          /\ pc'[q] = "help" => reg'[q].last # tail'
      BY <2>2, <3>1 DEF ProducerTurn
    <3>8. Unlinked(q)' => /\ reg'[q].new \in live' /\ Off(reg[q].new)'
                          /\ next'[reg'[q].new] = Null /\ val'[reg'[q].new] = <<q, sent'[q]>>
      BY <2>2, <3>1, <3>2, <3>4 DEF ProducerTurn
    <3>9. QED
      BY <3>1, <3>5, <3>6, <3>7, <3>8 DEF ProducerTurn
  <2>8. \A c \in Consumers : pc'[c] = "idle"
    <3>1. ~AllSent
      BY <1>1 DEF AllSent
    <3>2. QED
      BY <1>1, <2>2, <3>1, TurnFacts, CallerFacts
  <2>9. QED
    BY <2>2, <2>5, <2>6, <2>7, <2>8, IdleTurn DEF TurnInv
<1>8. QED
  BY <1>6, <1>7

\* The tail swap brings tail to the end.
LEMMA TurnSwing ==
  ASSUME TurnInv, SeenInv, NEW p \in Producers, Swing(p), WatchEmpty
  PROVE  TurnInv' /\ SeenInv' /\ Items' = Items /\ got' = got
<1>1. /\ p \in Callers /\ p \notin Consumers /\ TypeOK /\ ListInv /\ ProducerTurn(p)
      /\ reg \in [Callers -> Locals] /\ use' = use /\ sawEmpty' \in SUBSET Consumers
  BY CallerFacts, SawFacts DEF TurnInv, TypeOK, Locals
<1>2. /\ pc[p] = "swing" /\ Size > 1 /\ tail = List[Size - 1]
      /\ reg[p].last = tail /\ reg[p].new = List[Size]
      /\ \A q \in Producers : pc[q] = "swing" => q = p
  BY <1>1 DEF Swing, ProducerTurn
<1>3. /\ pc' = [pc EXCEPT ![p] = "idle"] /\ reg' = [reg EXCEPT ![p] = NoLocals]
      /\ UNCHANGED <<live, val, next, head, sent, got>> /\ tail' = List[Size]
  BY <1>2 DEF Swing, SwingToNew, SwingTail, Jump, Goto, heapVars, callVars
<1>4. /\ pc'[p] = "idle" /\ \A u \in Callers \ {p} : pc'[u] = pc[u] /\ reg'[u] = reg[u]
  BY <1>1, <1>3 DEF TypeOK
<1>5. Size \in Nat /\ Size \in 1 .. Size /\ Size - 1 \in 1 .. Size /\ List[Size] \in Nodes
      /\ \A i, j \in 1 .. Size : List[i] = List[j] => i = j
  BY <1>1, <1>2, ListFacts DEF ListInv
<1>6. List' = List /\ Size' = Size /\ Items' = Items /\ \A n : Off(n)' <=> Off(n)
  BY <1>3 DEF List, Size, Items, Off
<1>7. TypeOK'
  <2>1. NoLocals \in Locals
    BY DEF NoLocals, Locals, Pointers
  <2>2. reg' \in [Callers -> Locals]
    BY <1>1, <1>3, <2>1
  <2>3. pc' \in [Callers -> {"idle", "tail", "next", "check", "link", "swing", "help",
                             "head", "last", "first", "msg", "take", "free"}]
    BY <1>1, <1>3 DEF TypeOK
  <2>4. QED
    BY <1>1, <1>3, <1>5, <2>2, <2>3 DEF TypeOK, Locals
<1>8. ListInv' /\ TailInv'
  BY <1>1, <1>3, <1>6 DEF ListInv, TailInv
<1>9. \A q \in Producers : q # p => pc'[q] = pc[q] /\ reg'[q] = reg[q] /\ pc[q] # "swing"
  BY <1>2, <1>4, CallerFacts
<1>10. ASSUME NEW q \in Producers, q # p PROVE ProducerTurn(q)'
  <2>1. ProducerTurn(q) /\ pc'[q] = pc[q] /\ pc[q] # "swing" /\ reg'[q] = reg[q]
    BY <1>9, <1>10 DEF TurnInv
  <2>2. \A r \in Producers : Unlinked(r)' => Unlinked(r) /\ r # p
    BY <1>4, <1>9 DEF Unlinked
  <2>3. Unlinked(q)' => \A r \in Producers : Unlinked(r)' /\ r # q => reg'[r].new # reg'[q].new
    BY <1>9, <2>1, <2>2 DEF ProducerTurn
  <2>4. pc[q] \in {"next", "check", "link", "help"} =>
          \E j \in 1 .. Size : j <= Size - 1 /\ reg[q].last = List[j]
    <3>1. SUFFICES ASSUME pc[q] \in {"next", "check", "link", "help"}
                   PROVE  \E j \in 1 .. Size : j <= Size - 1 /\ reg[q].last = List[j]
      OBVIOUS
    <3>2. PICK j, m \in 1 .. Size : j <= m /\ reg[q].last = List[j] /\ tail = List[m]
      BY <2>1, <3>1 DEF ProducerTurn
    <3>3. m = Size - 1
      BY <1>2, <1>5, <3>2
    <3>4. QED
      BY <3>2, <3>3
  <2>5. pc[q] \in {"next", "check", "link", "help"} =>
          /\ \E j, m \in 1 .. Size : j <= m /\ reg[q].last = List[j] /\ tail' = List[m]
          /\ reg[q].last # tail'
    <3>1. \A j \in 1 .. Size : j <= Size - 1 => j <= Size /\ j # Size
      BY <1>5
    <3>2. QED
      BY <1>3, <1>5, <2>4, <3>1
  <2>6. QED
    BY <1>3, <1>6, <2>1, <2>2, <2>3, <2>5 DEF ProducerTurn
<1>11. \A c \in Consumers : pc'[c] = "idle"
  <2>1. ~AllSent
    BY <1>2 DEF AllSent
  <2>2. QED
    BY <1>1, <1>4, <2>1, TurnFacts, CallerFacts
<1>12. SeenInv'
  <2>1. \A q \in Producers : Linked(q)' = Linked(q)
    BY <1>2, <1>3, <1>4, <1>9 DEF Linked, Unlinked
  <2>2. Queue!Seen' = Queue!Seen
    BY <1>3, <1>6 DEF Queue!Seen
  <2>3. QED
    BY <2>1, <2>2 DEF SeenInv, Messages
<1>13. QED
  BY <1>3, <1>4, <1>6, <1>7, <1>8, <1>10, <1>11, <1>12, IdleTurn DEF TurnInv

\* A step of a consumer that only changes what it knows.
LEMMA TakerQuiet ==
  ASSUME TurnInv, SeenInv, AllSent, NEW c \in Consumers, WatchEmpty, UNCHANGED <<listVars, callVars>>,
         NEW to \in {"idle", "head", "last", "first", "check", "msg", "take"},
         pc' = [pc EXCEPT ![c] = to], reg' \in [Callers -> Locals],
         \A u \in Callers \ {c} : reg'[u] = reg[u],
         to \in {"last", "first", "check", "msg", "take"} => reg'[c].first = head \/ Off(reg'[c].first),
         to \in {"first", "check"} => reg'[c].last = tail,
         to \in {"check", "msg", "take"} /\ reg'[c].first = head => reg'[c].nxt = next[head],
         to \in {"msg", "take"} /\ reg'[c].first = head => next[head] # Null,
         to = "take" /\ reg'[c].first = head => reg'[c].msg = val[next[head]]
  PROVE  TurnInv' /\ SeenInv'
<1>1. c \in Callers /\ c \notin Producers /\ TypeOK
  BY CallerFacts DEF TurnInv
<1>2. pc'[c] = to /\ \A u \in Callers \ {c} : pc'[u] = pc[u]
  BY <1>1 DEF TypeOK
<1>3. pc' \in [Callers -> {"idle", "tail", "next", "check", "link", "swing", "help",
                           "head", "last", "first", "msg", "take", "free"}]
  BY <1>1 DEF TypeOK
<1>4. Quiet(c)
  BY <1>1, <1>2, <1>3 DEF Quiet
<1>5. UNCHANGED <<use, live, val, next, head, tail, sent>>
  BY DEF WatchEmpty, listVars, heapVars, callVars
<1>6. Size' = Size /\ List' = List
  BY <1>5 DEF List, Size
<1>7. AllSent' /\ (Items' = <<>> => c \in sawEmpty')
  BY <1>1, <1>2, <1>5, SawFacts, CallerFacts DEF AllSent
<1>8. ConsumerTurn(c)'
  BY <1>2, <1>5, <1>6, <1>7 DEF ConsumerTurn, Off
<1>9. QED
  BY <1>1, <1>4, <1>8, TurnQuiet

\* q->head is read.
LEMMA TurnReadHead ==
  ASSUME TurnInv, SeenInv, ~use.together, NEW c \in Consumers, ReadHead(c), WatchEmpty
  PROVE  TurnInv' /\ SeenInv'
<1>1. c \in Callers /\ ConsumerTurn(c) /\ TypeOK /\ reg \in [Callers -> Locals]
  BY CallerFacts DEF TurnInv, TypeOK, Locals
<1>2. /\ pc' = [pc EXCEPT ![c] = "last"]
      /\ reg' = [reg EXCEPT ![c].first = head] /\ UNCHANGED <<listVars, callVars>>
  BY DEF ReadHead, Read, Goto
<1>3. reg' \in [Callers -> Locals] /\ reg'[c].first = head /\ \A u \in Callers \ {c} : reg'[u] = reg[u]
  <2>1. head \in Pointers
    BY <1>1 DEF TypeOK, Pointers
  <2>2. QED
    BY <1>1, <1>2, <2>1 DEF Locals
<1>4. AllSent
  BY <1>1 DEF ReadHead, MayDequeue, ConsumerTurn, AllSent
<1>5. QED
  BY <1>2, <1>3, <1>4, TakerQuiet

\* q->tail is read: it no longer moves.
LEMMA TurnReadLast ==
  ASSUME TurnInv, SeenInv, NEW c \in Consumers, ReadLast(c), WatchEmpty
  PROVE  TurnInv' /\ SeenInv'
<1>1. c \in Callers /\ ConsumerTurn(c) /\ TypeOK /\ reg \in [Callers -> Locals]
  BY CallerFacts DEF TurnInv, TypeOK, Locals
<1>2. /\ pc[c] = "last" /\ pc' = [pc EXCEPT ![c] = "first"]
      /\ reg' = [reg EXCEPT ![c].last = tail] /\ UNCHANGED <<listVars, callVars>>
  BY DEF ReadLast, Read, Goto
<1>3. AllSent /\ (reg[c].first = head \/ Off(reg[c].first))
  BY <1>1, <1>2 DEF ConsumerTurn
<1>4. /\ reg' \in [Callers -> Locals] /\ reg'[c].first = reg[c].first /\ reg'[c].last = tail
      /\ \A u \in Callers \ {c} : reg'[u] = reg[u]
  <2>1. tail \in Pointers
    BY <1>1 DEF TypeOK, Pointers
  <2>2. QED
    BY <1>1, <1>2, <2>1 DEF Locals
<1>5. QED
  BY <1>2, <1>3, <1>4, TakerQuiet

\* first->next is read, of the dummy or of a node that may have been freed.
LEMMA TurnReadFirst ==
  ASSUME TurnInv, SeenInv, NEW c \in Consumers, ReadFirst(c), WatchEmpty
  PROVE  TurnInv' /\ SeenInv'
<1>1. c \in Callers /\ ConsumerTurn(c) /\ TypeOK /\ reg \in [Callers -> Locals]
  BY CallerFacts DEF TurnInv, TypeOK, Locals
<1>2. PICK x \in Pointers :
        /\ x \in NextOf(reg[c].first)
        /\ pc[c] = "first" /\ pc' = [pc EXCEPT ![c] = "check"]
        /\ reg' = [reg EXCEPT ![c].nxt = x] /\ UNCHANGED <<listVars, callVars>>
  BY <1>1, ReadTypes DEF ReadFirst, Read, Goto
<1>3. AllSent /\ reg[c].last = tail /\ (reg[c].first = head \/ Off(reg[c].first))
  BY <1>1, <1>2 DEF ConsumerTurn
<1>4. reg[c].first = head => x = next[head]
  BY <1>2, TurnFacts DEF NextOf
<1>5. /\ reg' \in [Callers -> Locals] /\ reg'[c].nxt = x
      /\ reg'[c].first = reg[c].first /\ reg'[c].last = reg[c].last
      /\ \A u \in Callers \ {c} : reg'[u] = reg[u]
  BY <1>1, <1>2 DEF Locals
<1>6. QED
  BY <1>2, <1>3, <1>4, <1>5, TakerQuiet

\* The tests never lead to a tail that lags: nobody is enqueuing any more.
LEMMA TurnCheckHead ==
  ASSUME TurnInv, SeenInv, NEW c \in Consumers, CheckHead(c), WatchEmpty
  PROVE  /\ TurnInv' /\ SeenInv'
         /\ AfterCheck(reg[c]) = "idle" => c \in sawEmpty
<1>1. /\ c \in Callers /\ ConsumerTurn(c) /\ TypeOK /\ ListInv
      /\ reg \in [Callers -> Locals] /\ NoLocals \in Locals
  BY CallerFacts DEF TurnInv, TypeOK, Locals, NoLocals, Pointers
<1>2. pc[c] = "check" /\ Jump(c, AfterCheck(reg[c])) /\ UNCHANGED <<listVars, callVars>>
  BY DEF CheckHead
<1>3. /\ AllSent /\ reg[c].last = tail /\ (reg[c].first = head \/ Off(reg[c].first))
      /\ reg[c].first = head => reg[c].nxt = next[head]
      /\ Items = <<>> => c \in sawEmpty
  BY <1>1, <1>2 DEF ConsumerTurn
<1>4. tail = List[Size] /\ Size \in Nat /\ Size > 0 /\ head = List[1]
  BY <1>3, TurnFacts
<1>5. tail # head => next[head] # Null
  <2>1. tail # head => Size > 1
    BY <1>4
  <2>2. Size > 1 => next[head] = List[2] /\ 2 \in 1 .. Size
    BY <1>1, <1>4, ListFacts
  <2>3. QED
    BY <1>1, <2>1, <2>2, ListFacts, CallerFacts
<1>6. tail = head => Size = 1 /\ next[head] = Null
  <2>1. tail = head => Size = 1
    <3>1. 1 \in 1 .. Size /\ Size \in 1 .. Size
      BY <1>4
    <3>2. QED
      BY <1>1, <1>4, <3>1 DEF ListInv
  <2>2. QED
    BY <1>1, <2>1, ListFacts
<1>7. PICK to \in {"idle", "head", "msg"} :
        /\ to = AfterCheck(reg[c])
        /\ to # "head" => reg[c].first = head
        /\ to = "msg" => next[head] # Null
        /\ to = "idle" => tail = head
  BY <1>3, <1>5, <1>6 DEF AfterCheck
<1>8. /\ pc' = [pc EXCEPT ![c] = to] /\ reg' \in [Callers -> Locals]
      /\ \A u \in Callers \ {c} : reg'[u] = reg[u]
      /\ to # "idle" => reg' = reg
  <2>1. pc' = [pc EXCEPT ![c] = to] /\ reg' = IF to = "idle" THEN [reg EXCEPT ![c] = NoLocals] ELSE reg
    BY <1>2, <1>7 DEF Jump, Goto
  <2>2. QED
    BY <1>1, <2>1
<1>9. to = "idle" => c \in sawEmpty
  <2>1. ASSUME Size = 1 PROVE Items = <<>>
    <3>1. Items = [i \in 1 .. 1 - 1 |-> val[List[i + 1]]]
      BY <2>1 DEF Items, Size
    <3>2. 1 .. 1 - 1 = {}
      OBVIOUS
    <3>3. QED
      BY <3>1, <3>2
  <2>2. QED
    BY <1>3, <1>6, <1>7, <2>1
<1>10. TurnInv' /\ SeenInv'
  BY <1>2, <1>3, <1>7, <1>8, TakerQuiet
<1>11. QED
  BY <1>7, <1>9, <1>10

\* next->msg is read; only under the dummy it has to be a message.
LEMMA TurnReadMsg ==
  ASSUME TurnInv, SeenInv, NEW c \in Consumers, ReadMsg(c), WatchEmpty
  PROVE  TurnInv' /\ SeenInv'
<1>1. c \in Callers /\ ConsumerTurn(c) /\ TypeOK /\ ListInv /\ reg \in [Callers -> Locals]
  BY CallerFacts DEF TurnInv, TypeOK, Locals
<1>2. PICK x \in Messages \cup {Null} :
        /\ x \in MsgOf(reg[c].nxt)
        /\ pc[c] = "msg" /\ pc' = [pc EXCEPT ![c] = "take"]
        /\ reg' = [reg EXCEPT ![c].msg = x] /\ UNCHANGED <<listVars, callVars>>
  BY <1>1, ReadTypes DEF ReadMsg, Read, Goto
<1>3. /\ AllSent /\ (reg[c].first = head \/ Off(reg[c].first))
      /\ reg[c].first = head => reg[c].nxt = next[head] /\ next[head] # Null
  BY <1>1, <1>2 DEF ConsumerTurn
<1>4. reg[c].first = head => x = val[next[head]]
  <2>1. next[head] # Null => next[head] \in live
    <3>1. Size > 1 => 2 \in 1 .. Size
      BY TurnFacts
    <3>2. QED
      BY <1>1, <3>1, ListFacts DEF ListInv
  <2>2. QED
    BY <1>2, <1>3, <2>1 DEF MsgOf
<1>5. /\ reg' \in [Callers -> Locals] /\ reg'[c].msg = x
      /\ reg'[c].first = reg[c].first /\ reg'[c].nxt = reg[c].nxt
      /\ \A u \in Callers \ {c} : reg'[u] = reg[u]
  BY <1>1, <1>2 DEF Locals
<1>6. QED
  BY <1>2, <1>3, <1>4, <1>5, TakerQuiet

\* The head swap succeeds only for who holds the dummy; for everyone else who
\* held it that node has then left the list.
LEMMA TurnTake ==
  ASSUME TurnInv, SeenInv, NEW c \in Consumers, Take(c), WatchEmpty
  PROVE  /\ TurnInv' /\ SeenInv'
         /\ \/ Items' = Items /\ got' = got
            \/ /\ Items # <<>> /\ Items' = Tail(Items)
               /\ got' = [got EXCEPT ![c] = Append(@, Head(Items))]
<1>1. /\ c \in Callers /\ c \notin Producers /\ TypeOK /\ ListInv /\ ConsumerTurn(c) /\ pc[c] = "take"
      /\ reg \in [Callers -> Locals]
  BY CallerFacts DEF TurnInv, Take, TypeOK, Locals
<1>2. /\ AllSent
      /\ reg[c].first = head => /\ reg[c].nxt = next[head] /\ next[head] # Null
                                /\ reg[c].msg = val[next[head]]
  BY <1>1 DEF ConsumerTurn
<1>3. CASE reg[c].first # head
  <2>1. pc' = [pc EXCEPT ![c] = "head"] /\ UNCHANGED <<listVars, reg, callVars>>
    BY <1>3 DEF Take, TakeSucceeds, Goto, listVars, heapVars, callVars
  <2>2. TurnInv' /\ SeenInv'
    BY <1>1, <1>2, <2>1, TakerQuiet
  <2>3. Items' = Items /\ got' = got
    BY <2>1 DEF listVars, heapVars, callVars, Items, List
  <2>4. QED
    BY <2>2, <2>3
<1>4. CASE reg[c].first = head
  <2>1. /\ Size \in Nat /\ Size > 1 /\ head = List[1] /\ head' = List[2] /\ head \in live
        /\ UNCHANGED <<use, live, val, next, tail, reg, sent>>
        /\ got' = [got EXCEPT ![c] = Append(@, Head(Items))]
        /\ pc'[c] = "free" /\ \A u \in Callers \ {c} : pc'[u] = pc[u]
        /\ List'[Size'] = List[Size]
        /\ \A x : (\A i \in 1 .. Size : List[i] # x) => (\A i \in 1 .. Size' : List'[i] # x)
        /\ \A i \in 1 .. Size' : List'[i] # head
        /\ TypeOK' /\ ListInv' /\ SeenInv' /\ Items # <<>> /\ Items' = Tail(Items)
    BY <1>1, <1>2, <1>4, TakeChanges
  <2>2. PICK old : old = head
    OBVIOUS
  <2>3. /\ \A i \in 1 .. Size' : List'[i] # old
        /\ \A x : Off(x) => \A i \in 1 .. Size' : List'[i] # x
    BY <2>1, <2>2 DEF Off
  <2>4. \A p \in Producers : pc[p] = "idle" /\ pc'[p] = "idle"
    BY <1>1, <1>2, <2>1, CallerFacts DEF AllSent
  <2>5. TailInv' /\ AllSent'
    <3>1. tail = List[Size]
      BY <1>2, TurnFacts
    <3>2. QED
      BY <1>2, <2>1, <2>4, <3>1 DEF TailInv, AllSent
  <2>6. ASSUME NEW d \in Consumers PROVE ConsumerTurn(d)'
    <3>1. CASE d = c
      BY <1>4, <2>1, <2>2, <2>3, <2>5, <3>1, SawFacts DEF ConsumerTurn, Off
    <3>2. CASE d # c
      <4>1. ConsumerTurn(d) /\ pc'[d] = pc[d] /\ reg'[d] = reg[d]
        BY <2>1, <3>2, CallerFacts DEF TurnInv
      <4>2. reg[d].first = old \/ Off(reg[d].first) =>
              /\ \A i \in 1 .. Size' : List'[i] # reg[d].first
              /\ reg[d].first # head'
        <5>1. old # List[2] /\ 2 \in 1 .. Size
          <6>1. 1 \in 1 .. Size /\ 2 \in 1 .. Size
            BY <2>1
          <6>2. QED
            BY <1>1, <2>1, <2>2, <6>1 DEF ListInv
        <5>2. QED
          BY <2>1, <2>3, <5>1 DEF Off
      <4>3. Items' = <<>> => d \in sawEmpty'
        BY SawFacts
      <4>4. QED
        BY <2>1, <2>2, <2>3, <2>5, <4>1, <4>2, <4>3 DEF ConsumerTurn, Off
    <3>3. QED
      BY <3>1, <3>2
  <2>7. QED
    BY <2>1, <2>4, <2>5, <2>6, IdleTurn DEF TurnInv
<1>5. QED
  BY <1>3, <1>4

\* A node that has left the list is freed: whoever still holds it may read
\* anything there, but will take none of it for a message.
LEMMA TurnFree ==
  ASSUME TurnInv, SeenInv, NEW c \in Consumers, Free(c), WatchEmpty
  PROVE  TurnInv' /\ SeenInv' /\ Items' = Items /\ got' = got
<1>1. /\ c \in Callers /\ c \notin Producers /\ TypeOK /\ ListInv /\ ConsumerTurn(c)
      /\ reg \in [Callers -> Locals] /\ use' = use /\ sawEmpty' \in SUBSET Consumers
  BY CallerFacts, SawFacts DEF TurnInv, TypeOK, Locals
<1>2. pc[c] = "free" /\ AllSent /\ Off(reg[c].first)
  BY <1>1 DEF Free, ConsumerTurn
<1>3. /\ live' = live \ {reg[c].first} /\ pc' = [pc EXCEPT ![c] = "idle"]
      /\ reg' = [reg EXCEPT ![c] = NoLocals] /\ UNCHANGED <<val, next, head, tail, sent, got>>
  BY DEF Free, Freed, Jump, Goto, callVars
<1>4. pc'[c] = "idle" /\ \A u \in Callers \ {c} : pc'[u] = pc[u] /\ reg'[u] = reg[u]
  BY <1>1, <1>3 DEF TypeOK
<1>5. List' = List /\ Size' = Size /\ Items' = Items
  BY <1>3 DEF List, Size, Items
<1>6. \A p \in Producers : pc'[p] = "idle" /\ pc[p] = "idle"
  BY <1>1, <1>2, <1>4, CallerFacts DEF AllSent
<1>7. TypeOK'
  <2>1. NoLocals \in Locals
    BY DEF NoLocals, Locals, Pointers
  <2>2. reg' \in [Callers -> Locals]
    BY <1>1, <1>3, <2>1
  <2>3. pc' \in [Callers -> {"idle", "tail", "next", "check", "link", "swing", "help",
                             "head", "last", "first", "msg", "take", "free"}]
    BY <1>1, <1>3 DEF TypeOK
  <2>4. QED
    BY <1>1, <1>3, <2>2, <2>3 DEF TypeOK, Locals
<1>8. ListInv'
  BY <1>1, <1>2, <1>3, <1>5 DEF ListInv, Off
<1>9. TailInv' /\ AllSent'
  <2>1. tail = List[Size]
    BY <1>2, TurnFacts
  <2>2. QED
    BY <1>1, <1>2, <1>3, <1>5, <1>6, <2>1 DEF TailInv, AllSent
<1>10. ASSUME NEW d \in Consumers, d # c PROVE ConsumerTurn(d)'
  <2>1. ConsumerTurn(d) /\ pc'[d] = pc[d] /\ reg'[d] = reg[d]
    BY <1>4, <1>10, CallerFacts DEF TurnInv
  <2>2. Items' = <<>> => d \in sawEmpty'
    BY SawFacts
  <2>3. QED
    BY <1>3, <1>5, <1>9, <2>1, <2>2 DEF ConsumerTurn, Off
<1>11. SeenInv'
  BY <1>3, <1>5, <1>6 DEF SeenInv, Queue!Seen, Linked, Messages, Unlinked
<1>12. QED
  BY <1>3, <1>4, <1>5, <1>6, <1>7, <1>8, <1>9, <1>10, <1>11, IdleTurn DEF TurnInv

--------------------------------------------------------------------------------
(* The queue                                                               *)

\* At first the list is the dummy and nothing has been linked.
LEMMA InitSafe ==
  ASSUME Init
  PROVE  SafeInv /\ Items = <<>> /\ got = [c \in Consumers |-> <<>>]
<1>1. PICK d \in Nodes : live = {d} /\ head = d /\ tail = d
  BY DEF Init
<1>2. /\ use \in Uses /\ val = [n \in Nodes |-> Null] /\ next = [n \in Nodes |-> Null]
      /\ pc = [t \in Callers |-> "idle"] /\ reg = [t \in Callers |-> NoLocals]
      /\ sent = [p \in Producers |-> 0] /\ got = [c \in Consumers |-> <<>>] /\ sawEmpty = {}
  BY DEF Init
<1>3. List = <<d>> /\ <<d>> \in Paths /\ IsChain(next, head, <<d>>) /\ Size = 1
  <2>1. PICK s \in Seq(Nodes) : s = <<d>>
    <3>1. <<d>> \in Seq(Nodes)
      OBVIOUS
    <3>2. QED
      BY <3>1
  <2>2. Len(s) = 1 /\ s[1] = d
    BY <2>1
  <2>3. IsChain(next, head, s)
    BY <1>1, <1>2, <2>2 DEF IsChain
  <2>4. \A i, j \in 1 .. Len(s) : s[i] = s[j] => i = j
    BY <2>2
  <2>5. Chain(next, head) = s /\ s \in Paths
    BY <2>2, <2>3, <2>4, ChainIs
  <2>6. QED
    BY <2>1, <2>2, <2>3, <2>5 DEF List, Size
<1>4. TypeOK
  <2>1. Null \in Pointers /\ 0 \in 0 .. Count
    BY CallerFacts DEF Pointers
  <2>2. got \in [Consumers -> Seq(Messages)]
    BY <1>2
  <2>3. NoLocals \in Locals
    BY <2>1 DEF NoLocals, Locals
  <2>4. reg \in [Callers -> Locals]
    BY <1>2, <2>3
  <2>5. pc \in [Callers -> {"idle", "tail", "next", "check", "link", "swing", "help",
                            "head", "last", "first", "msg", "take", "free"}]
    BY <1>2
  <2>6. QED
    BY <1>1, <1>2, <2>1, <2>2, <2>4, <2>5 DEF TypeOK, Locals
<1>5. ListInv
  BY <1>1, <1>3 DEF ListInv
<1>6. TailInv
  BY <1>1, <1>3 DEF TailInv
<1>7. (\A p \in Producers : pc[p] = "idle") /\ (\A c \in Consumers : pc[c] = "idle")
  BY <1>2, CallerFacts
<1>8. ProducerInv /\ ConsumerInv
  BY <1>7 DEF ProducerInv, ProducerAt, ConsumerInv, ConsumerAt, Unlinked
<1>9. Items = <<>>
  <2>1. Items = [i \in 1 .. 1 - 1 |-> val[List[i + 1]]]
    BY <1>3 DEF Items, Size
  <2>2. 1 .. 1 - 1 = {}
    OBVIOUS
  <2>3. QED
    BY <2>1, <2>2
<1>10. SeenInv
  <2>1. \A x : x \notin Queue!Elements(<<>>)
    BY DEF Queue!Elements
  <2>2. \A x : x \notin Queue!Seen
    BY <1>2, <1>9, <2>1, SeenMeans
  <2>3. \A m \in Messages : ~(m[2] <= Linked(m[1]))
    <3>1. \A m \in Messages : m[1] \in Producers /\ m[2] \in 1 .. Count
      BY DEF Messages
    <3>2. \A p \in Producers : Linked(p) = 0
      BY <1>2, <1>7 DEF Linked, Unlinked
    <3>3. QED
      BY <3>1, <3>2, CallerFacts
  <2>4. QED
    BY <2>2, <2>3 DEF SeenInv
<1>11. TurnInv
  BY <1>4, <1>5, <1>6, <1>7 DEF TurnInv, ProducerTurn, ConsumerTurn, Unlinked
<1>12. QED
  BY <1>2, <1>4, <1>5, <1>6, <1>8, <1>9, <1>10, <1>11 DEF SafeInv, QInv

\* A message that is appended by its producer's link swap is the producer's next.
LEMMA LinkIsEnqueue ==
  ASSUME SeenInv, NEW p \in Producers, pc[p] = "link", sent[p] \in 0 .. Count, sent[p] > 0,
         Items' = Append(Items, <<p, sent[p]>>), got' = got
  PROVE  Queue!Next
<1>1. sent[p] \in Nat /\ sent[p] <= Count /\ Linked(p) = sent[p] - 1
  BY CallerFacts DEF Linked, Unlinked
<1>2. \A k \in 1 .. Count : <<p, k>> \in Queue!Seen <=> k <= sent[p] - 1
  BY <1>1 DEF SeenInv, Messages
<1>3. sent[p] \in 1 .. Count /\ \A i \in 1 .. sent[p] - 1 : i \in 1 .. Count /\ i <= sent[p] - 1
  BY <1>1, CallerFacts
<1>4. <<p, sent[p]>> \notin Queue!Seen /\ \A i \in 1 .. sent[p] - 1 : <<p, i>> \in Queue!Seen
  BY <1>1, <1>2, <1>3
<1>5. Queue!Enqueue(p, sent[p])
  BY <1>4 DEF Queue!Enqueue
<1>6. QED
  BY <1>3, <1>5 DEF Queue!Next

\* Every step of msg_enqueue keeps the invariant; the link swap is the enqueue.
LEMMA EnqueueMaps ==
  ASSUME OneEach(use), QInv, SeenInv, NEW p \in Producers, EnqueueStep(p)
  PROVE  QInv' /\ SeenInv' /\ [Queue!Next]_(Queue!queueVars)
<1>1. WatchEmpty /\ Enqueue(p)
  BY DEF EnqueueStep
<1>2. CASE Allocate(p)
  BY <1>1, <1>2, AllocateStep DEF Queue!queueVars
<1>3. CASE ReadTail(p)
  <2>1. Items' = Items /\ got' = got
    BY <1>3 DEF ReadTail, Read, listVars, heapVars, callVars, Items, List
  <2>2. QED
    BY <1>1, <1>3, <2>1, ReadTailStep DEF Queue!queueVars
<1>4. CASE ReadNext(p)
  <2>1. Items' = Items /\ got' = got
    BY <1>4 DEF ReadNext, Read, listVars, heapVars, callVars, Items, List
  <2>2. QED
    BY <1>1, <1>4, <2>1, ReadNextStep DEF Queue!queueVars
<1>5. CASE CheckTail(p)
  <2>1. Items' = Items /\ got' = got
    BY <1>5 DEF CheckTail, listVars, heapVars, callVars, Items, List
  <2>2. QED
    BY <1>1, <1>5, <2>1, CheckTailStep DEF Queue!queueVars
<1>6. CASE Link(p)
  <2>1. QInv' /\ SeenInv' /\ Items' = Append(Items, <<p, sent[p]>>) /\ got' = got
    BY <1>1, <1>6, LinkStep
  <2>2. pc[p] = "link" /\ sent[p] \in 0 .. Count /\ sent[p] > 0
    BY <1>6 DEF Link, QInv, TypeOK, ProducerInv, ProducerAt
  <2>3. QED
    BY <2>1, <2>2, LinkIsEnqueue
<1>7. CASE Swing(p)
  BY <1>1, <1>7, SwingStep DEF Queue!queueVars
<1>8. ~EnqueueHelp(p)
  BY DEF EnqueueHelp, QInv, ProducerInv, ProducerAt
<1>9. QED
  BY <1>1, <1>2, <1>3, <1>4, <1>5, <1>6, <1>7, <1>8 DEF Enqueue

\* Every step of msg_dequeue keeps the invariant; the head swap is the dequeue.
LEMMA DequeueMaps ==
  ASSUME OneEach(use), QInv, SeenInv, NEW c \in Consumers, DequeueStep(c)
  PROVE  QInv' /\ SeenInv' /\ [Queue!Next]_(Queue!queueVars)
<1>1. WatchEmpty /\ Dequeue(c)
  BY DEF DequeueStep
<1>2. CASE ReadHead(c)
  <2>1. Items' = Items /\ got' = got
    BY <1>2 DEF ReadHead, Read, listVars, heapVars, callVars, Items, List
  <2>2. QED
    BY <1>1, <1>2, <2>1, ReadHeadStep DEF Queue!queueVars
<1>3. CASE ReadLast(c)
  <2>1. Items' = Items /\ got' = got
    BY <1>3 DEF ReadLast, Read, listVars, heapVars, callVars, Items, List
  <2>2. QED
    BY <1>1, <1>3, <2>1, ReadLastStep DEF Queue!queueVars
<1>4. CASE ReadFirst(c)
  <2>1. Items' = Items /\ got' = got
    BY <1>4 DEF ReadFirst, Read, listVars, heapVars, callVars, Items, List
  <2>2. QED
    BY <1>1, <1>4, <2>1, ReadFirstStep DEF Queue!queueVars
<1>5. CASE CheckHead(c)
  <2>1. Items' = Items /\ got' = got
    BY <1>5 DEF CheckHead, listVars, heapVars, callVars, Items, List
  <2>2. QED
    BY <1>1, <1>5, <2>1, CheckHeadStep DEF Queue!queueVars
<1>6. CASE DequeueHelp(c)
  BY <1>1, <1>6, DequeueHelpStep DEF Queue!queueVars
<1>7. CASE ReadMsg(c)
  <2>1. Items' = Items /\ got' = got
    BY <1>7 DEF ReadMsg, Read, listVars, heapVars, callVars, Items, List
  <2>2. QED
    BY <1>1, <1>7, <2>1, ReadMsgStep DEF Queue!queueVars
<1>8. CASE Take(c)
  <2>1. /\ QInv' /\ SeenInv' /\ Items # <<>> /\ Items' = Tail(Items)
        /\ got' = [got EXCEPT ![c] = Append(@, Head(Items))]
    BY <1>1, <1>8, TakeStep
  <2>2. Queue!Dequeue(c)
    BY <2>1 DEF Queue!Dequeue
  <2>3. QED
    BY <2>1, <2>2 DEF Queue!Next
<1>9. CASE Free(c)
  BY <1>1, <1>9, FreeStep DEF Queue!queueVars
<1>10. QED
  BY <1>1, <1>2, <1>3, <1>4, <1>5, <1>6, <1>7, <1>8, <1>9 DEF Dequeue

\* The same of the steps of many producers.
LEMMA EnqueueTurnMaps ==
  ASSUME TurnInv, SeenInv, NEW p \in Producers, EnqueueStep(p)
  PROVE  TurnInv' /\ SeenInv' /\ [Queue!Next]_(Queue!queueVars)
<1>1. WatchEmpty /\ Enqueue(p)
  BY DEF EnqueueStep
<1>2. CASE Allocate(p)
  BY <1>1, <1>2, TurnAllocate DEF Queue!queueVars
<1>3. CASE ReadTail(p)
  <2>1. Items' = Items /\ got' = got
    BY <1>3 DEF ReadTail, Read, listVars, heapVars, callVars, Items, List
  <2>2. QED
    BY <1>1, <1>3, <2>1, TurnReadTail DEF Queue!queueVars
<1>4. CASE ReadNext(p)
  <2>1. Items' = Items /\ got' = got
    BY <1>4 DEF ReadNext, Read, listVars, heapVars, callVars, Items, List
  <2>2. QED
    BY <1>1, <1>4, <2>1, TurnReadNext DEF Queue!queueVars
<1>5. CASE CheckTail(p)
  <2>1. Items' = Items /\ got' = got
    BY <1>5 DEF CheckTail, listVars, heapVars, callVars, Items, List
  <2>2. QED
    BY <1>1, <1>5, <2>1, TurnCheckTail DEF Queue!queueVars
<1>6. CASE Link(p)
  <2>1. /\ TurnInv' /\ SeenInv' /\ got' = got
        /\ Items' = Items \/ Items' = Append(Items, <<p, sent[p]>>)
    BY <1>1, <1>6, TurnLink
  <2>2. pc[p] = "link" /\ sent[p] \in 0 .. Count /\ sent[p] > 0
    BY <1>6 DEF Link, TurnInv, TypeOK, ProducerTurn
  <2>3. Items' = Append(Items, <<p, sent[p]>>) => Queue!Next
    BY <2>1, <2>2, LinkIsEnqueue
  <2>4. QED
    BY <2>1, <2>3 DEF Queue!queueVars
<1>7. CASE Swing(p)
  BY <1>1, <1>7, TurnSwing DEF Queue!queueVars
<1>8. CASE EnqueueHelp(p)
  BY <1>1, <1>8, TurnEnqueueHelp DEF Queue!queueVars
<1>9. QED
  BY <1>1, <1>2, <1>3, <1>4, <1>5, <1>6, <1>7, <1>8 DEF Enqueue

\* And of those of many consumers: help is never needed.
LEMMA DequeueTurnMaps ==
  ASSUME TurnInv, SeenInv, ~use.together, NEW c \in Consumers, DequeueStep(c)
  PROVE  TurnInv' /\ SeenInv' /\ [Queue!Next]_(Queue!queueVars)
<1>1. WatchEmpty /\ Dequeue(c)
  BY DEF DequeueStep
<1>2. CASE ReadHead(c)
  <2>1. Items' = Items /\ got' = got
    BY <1>2 DEF ReadHead, Read, listVars, heapVars, callVars, Items, List
  <2>2. QED
    BY <1>1, <1>2, <2>1, TurnReadHead DEF Queue!queueVars
<1>3. CASE ReadLast(c)
  <2>1. Items' = Items /\ got' = got
    BY <1>3 DEF ReadLast, Read, listVars, heapVars, callVars, Items, List
  <2>2. QED
    BY <1>1, <1>3, <2>1, TurnReadLast DEF Queue!queueVars
<1>4. CASE ReadFirst(c)
  <2>1. Items' = Items /\ got' = got
    BY <1>4 DEF ReadFirst, Read, listVars, heapVars, callVars, Items, List
  <2>2. QED
    BY <1>1, <1>4, <2>1, TurnReadFirst DEF Queue!queueVars
<1>5. CASE CheckHead(c)
  <2>1. Items' = Items /\ got' = got
    BY <1>5 DEF CheckHead, listVars, heapVars, callVars, Items, List
  <2>2. QED
    BY <1>1, <1>5, <2>1, TurnCheckHead DEF Queue!queueVars
<1>6. ~DequeueHelp(c)
  BY DEF DequeueHelp, TurnInv, ConsumerTurn
<1>7. CASE ReadMsg(c)
  <2>1. Items' = Items /\ got' = got
    BY <1>7 DEF ReadMsg, Read, listVars, heapVars, callVars, Items, List
  <2>2. QED
    BY <1>1, <1>7, <2>1, TurnReadMsg DEF Queue!queueVars
<1>8. CASE Take(c)
  <2>1. /\ TurnInv' /\ SeenInv'
        /\ \/ Items' = Items /\ got' = got
           \/ /\ Items # <<>> /\ Items' = Tail(Items)
              /\ got' = [got EXCEPT ![c] = Append(@, Head(Items))]
    BY <1>1, <1>8, TurnTake
  <2>2. Queue!Dequeue(c) \/ UNCHANGED <<Items, got>>
    BY <2>1 DEF Queue!Dequeue
  <2>3. QED
    BY <2>1, <2>2 DEF Queue!Next, Queue!queueVars
<1>9. CASE Free(c)
  BY <1>1, <1>9, TurnFree DEF Queue!queueVars
<1>10. QED
  BY <1>1, <1>2, <1>3, <1>4, <1>5, <1>6, <1>7, <1>8, <1>9 DEF Dequeue

\* A step of the queue keeps the invariant and is one of the abstract queue.
LEMMA StepMaps ==
  ASSUME OneEach(use), QInv, SeenInv, [Next]_vars
  PROVE  OneEach(use)' /\ QInv' /\ SeenInv' /\ [Queue!Next]_(Queue!queueVars)
<1>1. CASE UNCHANGED vars
  <2>1. UNCHANGED <<use, live, val, next, head, tail, pc, reg, sent, got, sawEmpty>>
    BY <1>1 DEF vars, listVars, heapVars, callVars
  <2>2. List' = List /\ Size' = Size /\ Items' = Items
    BY <2>1 DEF List, Size, Items
  <2>3. TypeOK' /\ ListInv' /\ TailInv'
    BY <2>1, <2>2 DEF QInv, TypeOK, ListInv, TailInv
  <2>4. ProducerInv' /\ ConsumerInv'
    BY <2>1, <2>2 DEF QInv, ProducerInv, ProducerAt, ConsumerInv, ConsumerAt, Unlinked
  <2>5. SeenInv'
    BY <2>1, <2>2 DEF SeenInv, Queue!Seen, Linked, Messages, Unlinked
  <2>6. QED
    BY <2>1, <2>2, <2>3, <2>4, <2>5 DEF QInv, OneEach, Queue!queueVars
<1>2. CASE Next
  <2>1. use' = use
    BY <1>2 DEF Next, EnqueueStep, DequeueStep, WatchEmpty
  <2>2. OneEach(use)'
    BY <2>1 DEF OneEach
  <2>3. QED
    BY <1>2, <2>2, EnqueueMaps, DequeueMaps DEF Next
<1>3. QED
  BY <1>1, <1>2

\* The same when consumers wait for the producers.
LEMMA StepTurnMaps ==
  ASSUME TurnInv, SeenInv, ~use.together, [Next]_vars
  PROVE  TurnInv' /\ SeenInv' /\ [Queue!Next]_(Queue!queueVars)
<1>1. CASE UNCHANGED vars
  <2>1. UNCHANGED <<use, live, val, next, head, tail, pc, reg, sent, got, sawEmpty>>
    BY <1>1 DEF vars, listVars, heapVars, callVars
  <2>2. List' = List /\ Size' = Size /\ Items' = Items
    BY <2>1 DEF List, Size, Items
  <2>3. TypeOK' /\ ListInv' /\ TailInv'
    BY <2>1, <2>2 DEF TurnInv, TypeOK, ListInv, TailInv
  <2>4. (\A p \in Producers : ProducerTurn(p)') /\ (\A c \in Consumers : ConsumerTurn(c)')
    BY <2>1, <2>2 DEF TurnInv, ProducerTurn, ConsumerTurn, Unlinked, Off, AllSent
  <2>5. SeenInv'
    BY <2>1, <2>2 DEF SeenInv, Queue!Seen, Linked, Messages, Unlinked
  <2>6. QED
    BY <2>1, <2>2, <2>3, <2>4, <2>5 DEF TurnInv, Queue!queueVars
<1>2. CASE Next
  BY <1>2, EnqueueTurnMaps, DequeueTurnMaps DEF Next
<1>3. QED
  BY <1>1, <1>2

\* The use does not change, so neither does whether it is one of each.
LEMMA UseKept ==
  ASSUME [Next]_vars
  PROVE  use' = use
BY DEF Next, EnqueueStep, DequeueStep, WatchEmpty, vars

\* The invariant holds in every use of the queue by one producer and one
\* consumer, and by producers first and consumers when these are done.
THEOREM QueueSafe == Spec => []SafeInv
<1>1. Init => SafeInv
  BY InitSafe
<1>2. SafeInv /\ [Next]_vars => SafeInv'
  <2>1. ASSUME SafeInv, [Next]_vars, OneEach(use)' PROVE QInv' /\ SeenInv'
    <3>1. OneEach(use)
      BY <2>1, UseKept DEF OneEach
    <3>2. QED
      BY <2>1, <3>1, StepMaps DEF SafeInv
  <2>2. ASSUME SafeInv, [Next]_vars, ~use'.together PROVE TurnInv' /\ SeenInv'
    <3>1. ~use.together
      BY <2>2, UseKept
    <3>2. QED
      BY <2>2, <3>1, StepTurnMaps DEF SafeInv
  <2>3. QED
    BY <2>1, <2>2 DEF SafeInv
<1>3. QED
  BY <1>1, <1>2, PTL DEF Spec

\* One producer and one consumer never touch a node that has been freed, though
\* msg_dequeue frees its old head at once and malloc reuses the address: for any
\* number of messages and of addresses.
THEOREM NodesSafe == Spec => []NoUseAfterFree
<1>1. SafeInv => NoUseAfterFree
  <2>1. SUFFICES ASSUME QInv, OneEach(use) PROVE NoUseAfterFree
    BY DEF SafeInv, NoUseAfterFree
  <2>2. ListInv /\ ProducerInv /\ ConsumerInv
    BY <2>1 DEF QInv
  <2>3. List[Size] \in live /\ head \in live /\ (next[head] # Null => next[head] \in live)
    <3>1. Size \in Nat /\ Size > 0 /\ head = List[1] /\ next[head] = IF Size > 1 THEN List[2] ELSE Null
      BY <2>2, ListFacts
    <3>2. \A i \in 1 .. Size : List[i] \in live
      BY <2>2 DEF ListInv
    <3>3. QED
      BY <3>1, <3>2
  <2>4. QED
    BY <2>2, <2>3 DEF NoUseAfterFree, ProducerInv, ProducerAt, ConsumerInv, ConsumerAt
<1>2. QED
  BY <1>1, QueueSafe, PTL

\* While the queue is used in one of the two ways every pointer is where it
\* belongs: head and tail are never NULL.
THEOREM QueueTyped == Spec /\ Orderly(use) => []TypeOK
<1>1. Orderly(use) /\ [Next]_vars => Orderly(use)'
  BY UseKept DEF Orderly, OneEach
<1>2. SafeInv /\ Orderly(use) => TypeOK
  BY DEF SafeInv, QInv, TurnInv, Orderly
<1>3. QED
  BY <1>1, <1>2, QueueSafe, PTL DEF Spec

\* In both uses tail is at the end of the list or one node before it, whoever has
\* moved it last.
THEOREM TailIsNear == Spec /\ Orderly(use) => []TailNearEnd
<1>1. Orderly(use) /\ [Next]_vars => Orderly(use)'
  BY UseKept DEF Orderly, OneEach
<1>2. SafeInv /\ Orderly(use) => TailNearEnd
  <2>1. SUFFICES ASSUME ListInv, TailInv PROVE TailNearEnd
    BY DEF SafeInv, QInv, TurnInv, Orderly
  <2>2. Size \in Nat /\ Size > 0
    BY <2>1, ListFacts
  <2>3. QED
    BY <2>1, <2>2 DEF TailInv, TailNearEnd, Size
<1>3. QED
  BY <1>1, <1>2, QueueSafe, PTL DEF Spec

\* Only its own tests end a call of msg_dequeue there.
LEMMA ReturnIsCheck ==
  ASSUME TypeOK, Next, NEW c \in Consumers, pc[c] = "check", pc'[c] = "idle"
  PROVE  CheckHead(c)
<1>1. c \in Callers /\ c \notin Producers /\ DOMAIN pc = Callers
  BY CallerFacts DEF TypeOK
<1>2. ASSUME NEW t \in Callers, NEW to, pc' = [pc EXCEPT ![t] = to] PROVE t = c
  BY <1>1, <1>2
<1>3. ASSUME NEW p \in Producers, EnqueueStep(p) PROVE FALSE
  <2>1. \E to : pc' = [pc EXCEPT ![p] = to]
    BY <1>3 DEF EnqueueStep, Enqueue, Allocate, ReadTail, ReadNext, CheckTail, Link, Swing,
                EnqueueHelp, Read, Jump, Goto
  <2>2. p \in Callers
    BY CallerFacts
  <2>3. QED
    BY <1>1, <1>2, <2>1, <2>2
<1>4. ASSUME NEW d \in Consumers, DequeueStep(d) PROVE CheckHead(c)
  <2>1. \E to : pc' = [pc EXCEPT ![d] = to]
    BY <1>4 DEF DequeueStep, Dequeue, ReadHead, ReadLast, ReadFirst, CheckHead, DequeueHelp,
                ReadMsg, Take, Free, Read, Jump, Goto
  <2>2. d = c
    BY <1>2, <2>1, CallerFacts
  <2>3. QED
    BY <1>4, <2>2 DEF DequeueStep, Dequeue, ReadHead, ReadLast, ReadFirst, DequeueHelp,
                      ReadMsg, Take, Free, Read
<1>5. QED
  BY <1>3, <1>4 DEF Next

\* When msg_dequeue returns NULL the queue was empty at some moment of the call,
\* in both uses.
THEOREM NullIsEmpty == Spec => NullMeansEmpty
<1>1. SafeInv /\ [Next]_vars =>
        [Orderly(use) => \A c \in Consumers : pc[c] = "check" /\ pc'[c] = "idle" => c \in sawEmpty]_vars
  <2>1. SUFFICES ASSUME SafeInv, Next, Orderly(use), NEW c \in Consumers, pc[c] = "check", pc'[c] = "idle"
                 PROVE  c \in sawEmpty
    OBVIOUS
  <2>2. TypeOK /\ c \in Callers
    BY <2>1, CallerFacts DEF SafeInv, QInv, TurnInv, Orderly
  <2>3. CheckHead(c) /\ WatchEmpty
    BY <2>1, <2>2, ReturnIsCheck DEF Next, EnqueueStep, DequeueStep
  <2>4. AfterCheck(reg[c]) = "idle"
    <3>1. pc' = [pc EXCEPT ![c] = AfterCheck(reg[c])]
      BY <2>3 DEF CheckHead, Jump, Goto
    <3>2. QED
      BY <2>1, <2>2, <3>1 DEF TypeOK
  <2>5. CASE OneEach(use)
    <3>1. reg[c].nxt = Null
      BY <2>4 DEF AfterCheck
    <3>2. ConsumerAt(c)
      BY <2>1, <2>5 DEF SafeInv, QInv, ConsumerInv
    <3>3. QED
      BY <2>1, <3>1, <3>2 DEF ConsumerAt
  <2>6. CASE ~use.together
    BY <2>1, <2>3, <2>4, <2>6, TurnCheckHead DEF SafeInv
  <2>7. QED
    BY <2>1, <2>5, <2>6 DEF Orderly
<1>2. QED
  BY <1>1, QueueSafe, PTL DEF Spec, NullMeansEmpty

\* One producer and one consumer, or any number of producers and after them any
\* number of consumers, make the list a first-in first-out queue: the link swap
\* is the enqueue, the head swap the dequeue, and no message is lost, doubled or
\* overtaken.
THEOREM FirstInFirstOut == Spec /\ Orderly(use) => QueueSpec
<1>1. Init => Queue!Init
  BY InitSafe DEF Queue!Init
<1>2. SafeInv /\ Orderly(use) /\ [Next]_vars => [Queue!Next]_(Queue!queueVars)
  BY StepMaps, StepTurnMaps DEF SafeInv, Orderly
<1>3. Orderly(use) /\ [Next]_vars => Orderly(use)'
  BY UseKept DEF Orderly, OneEach
<1>4. QED
  BY <1>1, <1>2, <1>3, QueueSafe, PTL DEF Spec, QueueSpec, Queue!Spec
================================================================================
