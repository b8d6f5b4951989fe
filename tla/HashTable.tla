------------------------------- MODULE HashTable -------------------------------
(***************************************************************************)
(* uthash.h as the managers of logic_service.c use it: one table of        *)
(* entries under HASH_ADD_STR, HASH_FIND_STR and HASH_DEL, here            *)
(* online_user_manager.user_map.  Every call is made under the manager's   *)
(* rwlock, a lookup under its read side, so a call is one step.            *)
(*                                                                         *)
(* An entry is in two doubly linked lists: the one of all entries in the   *)
(* order they were added (prev, next) and the one of its bucket (hh_prev,  *)
(* hh_next).  A table is a record; the four links of every entry are       *)
(* functions in it.  malloc is taken not to fail.  An entry is named by    *)
(* the name it was made for and a number, which tells two entries of one   *)
(* name apart: addresses are only ever compared.                           *)
(***************************************************************************)
EXTENDS Naturals, Sequences, FiniteSets, SequencesExt

CONSTANTS Users,           \* the keys
          Sockets,         \* Sockets[u]: the sockets u may log in on
          Hash,            \* HASH_JEN, of each key
          InitialBuckets,  \* HASH_INITIAL_NUM_BUCKETS
          Threshold,       \* HASH_BKT_CAPACITY_THRESH
          MaxBuckets,      \* bound: nothing is added to a bigger table
          Null,
          NoSocket         \* the -1 of manager_get_user_socket

ASSUME HashAssumption ==
  /\ IsFiniteSet(Users)
  /\ Hash \in [Users -> Nat]
  /\ InitialBuckets \in Nat \ {0} /\ Threshold \in Nat \ {0}
  /\ \A u \in Users : NoSocket \notin Sockets[u]
  /\ Null \notin Users \X {1, 2}

Entries == Users \X {1, 2}
Key(e) == e[1]
Pointers == Entries \cup {Null}
\* Bound on the steps along a list: enough to come round on one that has
\* become a cycle.
Hops == 0 .. Cardinality(Entries) + 1

--------------------------------------------------------------------------------
(* The macros                                                              *)

\* The entries from each pointer on along the link f, where rest has those from
\* the next one on.
Along(f, rest) == [x \in Pointers |-> IF x = Null THEN <<>> ELSE <<x>> \o rest[f[x]]]

\* The entries from e on along the link f.
Walk(f, e) ==
  LET from[left \in Hops] ==
        IF left = 0 THEN [x \in Pointers |-> <<>>] ELSE Along(f, from[left - 1])
  IN from[Cardinality(Entries) + 1][e]

\* p->field = to, unless p is NULL.
Patch(field, p, to) == IF p = Null THEN field ELSE [field EXCEPT ![p] = to]

EmptyBuckets(n) == [b \in 0 .. n - 1 |-> [hh_head |-> Null, count |-> 0, expand_mult |-> 0]]
BucketOf(u, n) == Hash[u] % n
Chain(table, b) == Walk(table.hh_next, table.buckets[b].hh_head)

NoTable == [head |-> Null]
NoLinks == [e \in Entries |-> Null]

\* HASH_MAKE_TABLE, with e as its head.
MakeTable(e) ==
  [head |-> e, tail |-> e, num_items |-> 0,
   num_buckets |-> InitialBuckets, buckets |-> EmptyBuckets(InitialBuckets),
   ideal_chain_maxlen |-> 0, nonideal_items |-> 0, ineff_expands |-> 0, noexpand |-> FALSE,
   prev |-> NoLinks, next |-> NoLinks, hh_prev |-> NoLinks, hh_next |-> NoLinks]

\* HASH_APPEND_LIST
AppendList(table, e) ==
  [table EXCEPT !.next = [@ EXCEPT ![e] = Null, ![table.tail] = e],
                !.prev[e] = table.tail, !.tail = e]

\* Faulty variant of PushLinks: the old first entry does not point back.
PushForward(table, e, first) == [table EXCEPT !.hh_next[e] = first, !.hh_prev[e] = Null]

\* e goes before the first entry of its bucket.
PushLinks(table, e, first) ==
  [table EXCEPT !.hh_next[e] = first, !.hh_prev = Patch([@ EXCEPT ![e] = Null], first, e)]

\* e goes to the front of bucket b, as in HASH_ADD_TO_BKT and in the loop of
\* HASH_EXPAND_BUCKETS.
Push(table, b, e) ==
  [PushLinks(table, e, table.buckets[b].hh_head)
     EXCEPT !.buckets[b].hh_head = e, !.buckets[b].count = @ + 1]

\* Faulty variant of NewBucket: the mask of the smaller table.
UnchangedBucket(u, n) == BucketOf(u, n \div 2)

\* The bucket of a key in the doubled table of n buckets.
NewBucket(u, n) == BucketOf(u, n)

\* The body of the loop of HASH_EXPAND_BUCKETS: e goes to its new bucket.  A
\* bucket with more than its share gets a multiplier that delays the next
\* expansion.
Move(table, e) ==
  LET b == NewBucket(Key(e), table.num_buckets)
      pushed == Push(table, b, e)
      bucket == pushed.buckets[b]
      ideal == table.ideal_chain_maxlen
  IN IF bucket.count <= ideal THEN pushed
     ELSE [pushed EXCEPT
             !.nonideal_items = @ + 1,
             !.buckets[b].expand_mult = IF bucket.count > @ * ideal THEN @ + 1 ELSE @]

\* Its inner loop, over the entries of one old bucket.
MoveChain(table, chain) ==
  LET moved[i \in 0 .. Len(chain)] ==
        IF i = 0 THEN table ELSE Move(moved[i - 1], chain[i])
  IN moved[Len(chain)]

\* Twice the buckets, all empty, and the chain length if all were used equally.
Doubled(table) ==
  LET n == 2 * table.num_buckets
  IN [table EXCEPT
        !.num_buckets = n, !.buckets = EmptyBuckets(n), !.nonideal_items = 0,
        !.ideal_chain_maxlen = table.num_items \div n + IF table.num_items % n # 0 THEN 1 ELSE 0]

\* Its outer loop, over the old buckets.
Redistribute(table) ==
  LET moved[b \in 0 .. table.num_buckets] ==
        IF b = 0 THEN Doubled(table) ELSE MoveChain(moved[b - 1], Chain(table, b - 1))
  IN moved[table.num_buckets]

\* HASH_EXPAND_BUCKETS: two expansions in a row that leave more than half of the
\* entries beyond the ideal chain length end expansion for good.
Expand(table) ==
  LET moved == Redistribute(table)
      ineff == IF moved.nonideal_items > table.num_items \div 2 THEN table.ineff_expands + 1 ELSE 0
  IN [moved EXCEPT !.ineff_expands = ineff, !.noexpand = @ \/ ineff > 1]

\* Faulty variant of IsFull: one entry too late.
IsOverfull(bucket) == bucket.count > (bucket.expand_mult + 1) * Threshold

IsFull(bucket) == bucket.count >= (bucket.expand_mult + 1) * Threshold

\* HASH_ADD_KEYPTR_BYHASHVALUE, HASH_ADD_TO_TABLE and HASH_ADD_TO_BKT
Add(table, e) ==
  LET listed == IF table.head = Null THEN MakeTable(e) ELSE AppendList(table, e)
      b == BucketOf(Key(e), listed.num_buckets)
      pushed == Push([listed EXCEPT !.num_items = @ + 1], b, e)
  IN IF IsFull(pushed.buckets[b]) /\ ~pushed.noexpand THEN Expand(pushed) ELSE pushed

\* Where a search for the key u comes to from each pointer on, where rest says so
\* of the next one: to the first entry with that key, or to NULL.
SeekAlong(f, u, rest) ==
  [x \in Pointers |-> IF x # Null /\ Key(x) # u THEN rest[f[x]] ELSE x]

\* HASH_FIND_IN_BKT
Seek(f, u, e) ==
  LET from[left \in Hops] ==
        IF left = 0 THEN [x \in Pointers |-> Null] ELSE SeekAlong(f, u, from[left - 1])
  IN from[Cardinality(Entries) + 1][e]

\* HASH_FIND_BYHASHVALUE: in the bucket of the key, if there is a table.
Find(table, u) ==
  IF table.head = Null THEN Null
  ELSE Seek(table.hh_next, u, table.buckets[BucketOf(u, table.num_buckets)].hh_head)

\* Faulty variant of TailWithout: the tail is moved forward.
TailForward(table, e) == IF table.tail = e THEN table.next[e] ELSE table.tail

TailWithout(table, e) == IF table.tail = e THEN table.prev[e] ELSE table.tail

\* HASH_DELETE_HH and HASH_DEL_IN_BKT; the last entry takes the table with it.
\* The links of e, which is freed next, are cleared.
Delete(table, e) ==
  LET b == BucketOf(Key(e), table.num_buckets)
      before == table.prev[e]
      after == table.next[e]
  IN IF before = Null /\ after = Null THEN NoTable
     ELSE [table EXCEPT
             !.tail = TailWithout(table, e),
             !.head = IF before = Null THEN after ELSE @,
             !.next = [Patch(@, before, after) EXCEPT ![e] = Null],
             !.prev = [Patch(@, after, before) EXCEPT ![e] = Null],
             !.buckets[b].count = @ - 1,
             !.buckets[b].hh_head = IF @ = e THEN table.hh_next[e] ELSE @,
             !.hh_next = [Patch(@, table.hh_prev[e], table.hh_next[e]) EXCEPT ![e] = Null],
             !.hh_prev = [Patch(@, table.hh_next[e], table.hh_prev[e]) EXCEPT ![e] = Null],
             !.num_items = @ - 1]

--------------------------------------------------------------------------------
(* The manager                                                             *)
VARIABLES user_map,   \* the table
          socket_fd   \* of each entry; NoSocket in one that is not allocated

vars == <<user_map, socket_fd>>

Init ==
  /\ user_map = NoTable
  /\ socket_fd = [e \in Entries |-> NoSocket]

\* manager_add_user of a name that is not found; of one that is, it changes
\* nothing.
AddUser(u, s) ==
  /\ Find(user_map, u) = Null
  /\ user_map # NoTable => user_map.num_buckets <= MaxBuckets
  /\ LET e == <<u, IF socket_fd[<<u, 1>>] = NoSocket THEN 1 ELSE 2>>
     IN /\ socket_fd' = [socket_fd EXCEPT ![e] = s]
        /\ user_map' = Add(user_map, e)

\* manager_remove_user of a name that is found
RemoveUser(u) ==
  LET e == Find(user_map, u)
  IN /\ e # Null
     /\ user_map' = Delete(user_map, e)
     /\ socket_fd' = [socket_fd EXCEPT ![e] = NoSocket]

\* manager_get_user_socket
GetUserSocket(u) ==
  LET e == Find(user_map, u) IN IF e = Null THEN NoSocket ELSE socket_fd[e]

Next == \E u \in Users : RemoveUser(u) \/ \E s \in Sockets[u] : AddUser(u, s)

Spec == Init /\ [][Next]_vars

--------------------------------------------------------------------------------
(* Properties                                                              *)

Allocated == {e \in Entries : socket_fd[e] # NoSocket}

\* The table is a table or was never made or freed; its pointers are to entries
\* that are allocated.
TypeOK ==
  /\ socket_fd \in [Entries -> (UNION {Sockets[u] : u \in Users}) \cup {NoSocket}]
  /\ user_map # NoTable =>
       /\ user_map.head \in Allocated /\ user_map.tail \in Allocated
       /\ user_map.num_items \in 1 .. Cardinality(Entries)
       /\ \A b \in DOMAIN user_map.buckets :
            user_map.buckets[b] \in [hh_head : Allocated \cup {Null}, count : Nat, expand_mult : Nat]
       /\ user_map.noexpand \in BOOLEAN

\* back leads from each entry of the list to the one before it.
Doubly(list, back) ==
  \A i \in DOMAIN list : back[list[i]] = IF i = 1 THEN Null ELSE list[i - 1]

\* What HASH_FSCK (uthash.h:516-563) tests, and that nothing is lost: each
\* bucket's list and the list of all entries are sound in both directions and as
\* long as their counts say, and each holds every allocated entry once, those of
\* a bucket by their hash.
Sound ==
  LET T == user_map
      order == Walk(T.next, T.head)
  IN IF T = NoTable THEN Allocated = {}
     ELSE /\ \A b \in DOMAIN T.buckets :
               LET chain == Chain(T, b)
               IN /\ Doubly(chain, T.hh_prev)
                  /\ T.buckets[b].count = Len(chain)
                  /\ ToSet(chain) = {e \in Allocated : BucketOf(Key(e), T.num_buckets) = b}
          /\ Doubly(order, T.prev)
          /\ order[Len(order)] = T.tail
          /\ T.num_items = Len(order)
          /\ ToSet(order) = Allocated

\* A chain stays below the multiple of the threshold at which its bucket is
\* expanded (uthash.h:1073-1083), or it is no longer than the last expansion, of
\* more entries, left it: that multiple of the ideal length (uthash.h:1100-1101).
\* So it is whatever is added and removed and however the names hash, until
\* expansion is given up.
ChainsBounded ==
  user_map # NoTable /\ ~user_map.noexpand =>
    \A b \in DOMAIN user_map.buckets :
      LET bucket == user_map.buckets[b]
      IN \/ bucket.count < (bucket.expand_mult + 1) * Threshold
         \/ bucket.count <= (bucket.expand_mult + 1) * user_map.ideal_chain_maxlen

\* The manager is a map from names to sockets: what was added is found, with the
\* socket of its first login, through collisions, expansions and removals, until
\* it is removed.
Map == INSTANCE UserMap WITH
  socket <- [u \in Users |-> GetUserSocket(u)],
  Sockets <- UNION {Sockets[u] : u \in Users}
MapSpec == Map!Spec
================================================================================
