---------------------------- MODULE HashTableProofs ----------------------------
(* Proofs about HashTable: for every number of names, however they hash, and  *)
(* for every size of the table.                                               *)
EXTENDS HashTable, FiniteSetTheorems, WellFoundedInduction, TLAPS

\* s is the doubly linked list that begins at first: next and prev lead from each
\* entry to its neighbours in s, and none is in it twice.
IsList(nxt, prv, first, s) ==
  /\ s \in Seq(Entries)
  /\ \A i, j \in 1 .. Len(s) : s[i] = s[j] => i = j
  /\ first = IF Len(s) = 0 THEN Null ELSE s[1]
  /\ \A i \in 1 .. Len(s) : nxt[s[i]] = IF i = Len(s) THEN Null ELSE s[i + 1]
  /\ \A i \in 1 .. Len(s) : prv[s[i]] = IF i = 1 THEN Null ELSE s[i - 1]

Links == [Entries -> Pointers]
BucketRecords == [hh_head : Pointers, count : Nat, expand_mult : Nat]
Tables ==
  [head : Pointers, tail : Pointers, num_items : Nat,
   num_buckets : Nat \ {0}, buckets : UNION {[0 .. n - 1 -> BucketRecords] : n \in Nat},
   ideal_chain_maxlen : Nat, nonideal_items : Nat, ineff_expands : Nat, noexpand : BOOLEAN,
   prev : Links, next : Links, hh_prev : Links, hh_next : Links]

IsTable(T) == T \in Tables /\ T.buckets \in [0 .. T.num_buckets - 1 -> BucketRecords]

Homes(T, b) == {e \in Entries : BucketOf(Key(e), T.num_buckets) = b}

\* The list of bucket b holds those of the entries in S that belong there.
BucketOK(T, S, b) ==
  LET s == Chain(T, b)
  IN /\ IsList(T.hh_next, T.hh_prev, T.buckets[b].hh_head, s)
     /\ T.buckets[b].count = Len(s)
     /\ \A e \in Entries : (\E i \in 1 .. Len(s) : s[i] = e) <=> e \in S /\ e \in Homes(T, b)
BucketsOK(T, S) == \A b \in 0 .. T.num_buckets - 1 : BucketOK(T, S, b)

\* The list of all entries holds those of S.
Order(T) == Walk(T.next, T.head)
OrderOK(T, S) ==
  LET s == Order(T)
  IN /\ IsList(T.next, T.prev, T.head, s)
     /\ Len(s) > 0 /\ T.tail = s[Len(s)]
     /\ \A e \in Entries : (\E i \in 1 .. Len(s) : s[i] = e) <=> e \in S

\* What an expansion leaves of each bucket: never more than one entry beyond the
\* multiple of the ideal length that it has counted.
Shared(bucket, ideal) ==
  bucket.count <= ideal \/ bucket.count <= bucket.expand_mult * ideal + 1

Short(bucket, ideal) ==
  \/ bucket.count < (bucket.expand_mult + 1) * Threshold
  \/ bucket.count <= (bucket.expand_mult + 1) * ideal
ShortChains(T) ==
  T.noexpand \/ \A b \in 0 .. T.num_buckets - 1 : Short(T.buckets[b], T.ideal_chain_maxlen)

TableOK(T, S) ==
  /\ IsTable(T) /\ BucketsOK(T, S) /\ OrderOK(T, S)
  /\ T.num_items = Len(Order(T))
  /\ ShortChains(T)

IInv ==
  /\ socket_fd \in [Entries -> (UNION {Sockets[u] : u \in Users}) \cup {NoSocket}]
  /\ \A d, e \in Allocated : Key(d) = Key(e) => d = e
  /\ \/ user_map = NoTable /\ Allocated = {}
     \/ TableOK(user_map, Allocated)

--------------------------------------------------------------------------------
(* Lists                                                                    *)

\* NULL is no entry, and there are finitely many entries.
LEMMA EntryFacts ==
  /\ Null \notin Entries /\ IsFiniteSet(Entries) /\ Cardinality(Entries) \in Nat
  /\ \A e \in Entries : Key(e) \in Users
<1>1. Null \notin Entries
  BY HashAssumption DEF Entries
<1>2. IsFiniteSet(Entries)
  <2>1. IsFiniteSet({1, 2})
    <3>1. IsFiniteSet(1 .. 2)
      <4>1. 1 \in Int /\ 2 \in Int
        OBVIOUS
      <4>2. QED
        BY <4>1, FS_Interval
    <3>2. {1, 2} = 1 .. 2
      OBVIOUS
    <3>3. QED
      BY <3>1, <3>2
  <2>2. QED
    BY <2>1, HashAssumption, FS_Product DEF Entries
<1>3. Cardinality(Entries) \in Nat
  BY <1>2, FS_CardinalityType
<1>4. \A e \in Entries : Key(e) \in Users
  BY DEF Entries, Key
<1>5. QED
  BY <1>1, <1>2, <1>3, <1>4

\* HASH_TO_BKT gives a bucket of the table, whatever the hash.
LEMMA BucketInRange ==
  ASSUME NEW e \in Entries, NEW n \in Nat \ {0}
  PROVE  BucketOf(Key(e), n) \in 0 .. n - 1
<1>1. Hash[Key(e)] \in Nat
  BY EntryFacts, HashAssumption
<1>2. \A h \in Nat : h % n \in 0 .. n - 1
  OBVIOUS
<1>3. QED
  BY <1>1, <1>2 DEF BucketOf

\* A set of numbers that is not empty has a least one.
LEMMA LeastNat ==
  ASSUME NEW T \in SUBSET Nat, T # {}
  PROVE  \E x \in T : \A y \in T : x <= y
<1>1. PICK x \in T : \A y \in T : ~ (<<y, x>> \in OpToRel(<, Nat))
  BY NatLessThanWellFounded, WFMin
<1>2. \A y \in T : ~(y < x)
  BY <1>1 DEF OpToRel
<1>3. QED
  BY <1>2

\* A list is no longer than there are entries.
LEMMA ListBound ==
  ASSUME NEW s \in Seq(Entries), \A i, j \in 1 .. Len(s) : s[i] = s[j] => i = j
  PROVE  Len(s) <= Cardinality(Entries)
<1>1. s \in [1 .. Len(s) -> Entries] /\ Len(s) \in Nat /\ IsFiniteSet(Entries)
  BY EntryFacts
<1>2. s \in Injection(1 .. Len(s), Entries)
  BY <1>1 DEF Injection, IsInjective
<1>3. Cardinality(1 .. Len(s)) <= Cardinality(Entries)
  BY <1>1, <1>2, FS_Injection
<1>4. 1 \in Int /\ Len(s) \in Int
  BY <1>1
<1>5. Cardinality(1 .. Len(s)) = IF 1 > Len(s) THEN 0 ELSE Len(s) - 1 + 1
  BY <1>4, FS_Interval
<1>6. QED
  BY <1>1, <1>3, <1>5

\* Links that agree on the entries of a list make the same list.
LEMMA ListKept ==
  ASSUME NEW nxt, NEW prv, NEW nxt2, NEW prv2, NEW first, NEW s,
         IsList(nxt, prv, first, s),
         \A i \in 1 .. Len(s) : nxt2[s[i]] = nxt[s[i]] /\ prv2[s[i]] = prv[s[i]]
  PROVE  IsList(nxt2, prv2, first, s)
BY DEF IsList

\* No entries make the empty list.
LEMMA ListEmpty ==
  ASSUME NEW nxt, NEW prv
  PROVE  IsList(nxt, prv, Null, <<>>)
BY DEF IsList

\* What <<e>> \o s holds and where.
LEMMA ConsElements ==
  ASSUME NEW s \in Seq(Entries), NEW e \in Entries
  PROVE  /\ <<e>> \o s \in Seq(Entries) /\ Len(<<e>> \o s) = Len(s) + 1
         /\ (<<e>> \o s)[1] = e
         /\ \A i \in 2 .. Len(s) + 1 : (<<e>> \o s)[i] = s[i - 1]
OBVIOUS

\* An entry that is not in a list may go to its front.
LEMMA ListPush ==
  ASSUME NEW nxt, NEW prv, NEW nxt2, NEW prv2, NEW first, NEW s, NEW e \in Entries,
         IsList(nxt, prv, first, s), \A i \in 1 .. Len(s) : s[i] # e,
         nxt2[e] = first, \A x \in Entries : x # e => nxt2[x] = nxt[x],
         prv2[e] = Null, first # Null => prv2[first] = e,
         \A x \in Entries : x # e /\ x # first => prv2[x] = prv[x]
  PROVE  IsList(nxt2, prv2, e, <<e>> \o s)
<1> DEFINE r == <<e>> \o s
<1>1. s \in Seq(Entries) /\ Len(s) \in Nat /\ \A i \in 1 .. Len(s) : s[i] \in Entries
  BY DEF IsList
<1>2. /\ r \in Seq(Entries) /\ Len(r) = Len(s) + 1 /\ r[1] = e
      /\ \A i \in 2 .. Len(s) + 1 : r[i] = s[i - 1]
  BY <1>1, ConsElements
<1> HIDE DEF r
<1>3. \A i \in 2 .. Len(s) + 1 : i - 1 \in 1 .. Len(s) /\ r[i] = s[i - 1]
  BY <1>1, <1>2
<1>4. \A i, j \in 1 .. Len(r) : r[i] = r[j] => i = j
  <2>1. \A i \in 2 .. Len(s) + 1 : r[i] # e
    BY <1>3
  <2>2. \A i, j \in 2 .. Len(s) + 1 : r[i] = r[j] => i = j
    BY <1>1, <1>3 DEF IsList
  <2>3. \A i \in 1 .. Len(r) : i = 1 \/ i \in 2 .. Len(s) + 1
    BY <1>1, <1>2
  <2>4. QED
    BY <1>2, <2>1, <2>2, <2>3
<1>5. first = IF Len(s) = 0 THEN Null ELSE s[1]
  BY DEF IsList
<1>6. \A i \in 1 .. Len(r) : nxt2[r[i]] = IF i = Len(r) THEN Null ELSE r[i + 1]
  <2>1. nxt2[r[1]] = IF 1 = Len(r) THEN Null ELSE r[2]
    BY <1>1, <1>2, <1>5
  <2>2. ASSUME NEW i \in 2 .. Len(s) + 1
        PROVE  nxt2[r[i]] = IF i = Len(r) THEN Null ELSE r[i + 1]
    <3>1. nxt2[r[i]] = nxt[s[i - 1]]
      BY <1>1, <1>3
    <3>2. nxt[s[i - 1]] = IF i - 1 = Len(s) THEN Null ELSE s[i]
      BY <1>1, <1>3 DEF IsList
    <3>3. i # Len(r) => i + 1 \in 2 .. Len(s) + 1 /\ r[i + 1] = s[i]
      BY <1>1, <1>2
    <3>4. QED
      BY <1>1, <1>2, <3>1, <3>2, <3>3
  <2>3. QED
    BY <1>1, <1>2, <2>1, <2>2
<1>7. \A i \in 1 .. Len(r) : prv2[r[i]] = IF i = 1 THEN Null ELSE r[i - 1]
  <2>1. ASSUME NEW i \in 2 .. Len(s) + 1
        PROVE  prv2[r[i]] = r[i - 1]
    <3>1. CASE i = 2
      BY <1>1, <1>2, <1>3, <1>5, <3>1, EntryFacts
    <3>2. CASE i # 2
      <4>1. i - 1 \in 2 .. Len(s) + 1 /\ 1 \in 1 .. Len(s) /\ i - 1 # 1 /\ Len(s) # 0
        BY <1>1, <3>2
      <4>2. s[i - 1] # first /\ s[i - 1] # e /\ s[i - 1] \in Entries
        BY <1>1, <1>3, <1>5, <4>1 DEF IsList
      <4>3. prv[s[i - 1]] = s[i - 1 - 1] /\ r[i - 1] = s[i - 1 - 1]
        BY <1>1, <1>3, <4>1 DEF IsList
      <4>4. QED
        BY <1>3, <4>2, <4>3
    <3>3. QED
      BY <3>1, <3>2
  <2>2. QED
    BY <1>1, <1>2, <2>1
<1>8. e = IF Len(r) = 0 THEN Null ELSE r[1]
  BY <1>1, <1>2
<1>9. IsList(nxt2, prv2, e, r)
  BY <1>2, <1>4, <1>6, <1>7, <1>8 DEF IsList
<1>10. QED
  BY <1>9 DEF r

\* What Append(s, e) holds and where.
LEMMA AppendElements ==
  ASSUME NEW s \in Seq(Entries), NEW e \in Entries
  PROVE  /\ Append(s, e) \in Seq(Entries) /\ Len(Append(s, e)) = Len(s) + 1
         /\ Append(s, e)[Len(s) + 1] = e
         /\ \A i \in 1 .. Len(s) : Append(s, e)[i] = s[i]
OBVIOUS

\* An entry that is not in a list may go to its end.
LEMMA ListAppend ==
  ASSUME NEW nxt, NEW prv, NEW nxt2, NEW prv2, NEW first, NEW s, NEW e \in Entries,
         IsList(nxt, prv, first, s), \A i \in 1 .. Len(s) : s[i] # e, Len(s) > 0,
         nxt2[e] = Null, nxt2[s[Len(s)]] = e,
         \A x \in Entries : x # e /\ x # s[Len(s)] => nxt2[x] = nxt[x],
         prv2[e] = s[Len(s)], \A x \in Entries : x # e => prv2[x] = prv[x]
  PROVE  IsList(nxt2, prv2, first, Append(s, e))
<1> DEFINE r == Append(s, e)
           n == Len(s)
<1>1. s \in Seq(Entries) /\ n \in Nat /\ \A i \in 1 .. n : s[i] \in Entries
  BY DEF IsList
<1>2. r \in Seq(Entries) /\ Len(r) = n + 1 /\ r[n + 1] = e /\ \A i \in 1 .. n : r[i] = s[i]
  BY <1>1, AppendElements
<1>3. \A i \in 1 .. Len(r) : i = n + 1 \/ i \in 1 .. n
  BY <1>1, <1>2
<1>4. n \in 1 .. n /\ 1 \in 1 .. n
  BY <1>1
<1> HIDE DEF r
<1>5. \A i, j \in 1 .. Len(r) : r[i] = r[j] => i = j
  BY <1>1, <1>2, <1>3 DEF IsList
<1>6. first = IF Len(r) = 0 THEN Null ELSE r[1]
  BY <1>1, <1>2, <1>4 DEF IsList
<1>7. \A i \in 1 .. Len(r) : nxt2[r[i]] = IF i = Len(r) THEN Null ELSE r[i + 1]
  <2>1. ASSUME NEW i \in 1 .. n, i # n
        PROVE  nxt2[r[i]] = r[i + 1]
    <3>1. s[i] # s[n] /\ s[i] # e /\ s[i] \in Entries
      BY <1>1, <1>4, <2>1 DEF IsList
    <3>2. nxt[s[i]] = s[i + 1] /\ i + 1 \in 1 .. n
      BY <1>1, <2>1 DEF IsList
    <3>3. QED
      BY <1>2, <3>1, <3>2
  <2>2. nxt2[r[n]] = r[n + 1]
    BY <1>2, <1>4
  <2>3. QED
    BY <1>1, <1>2, <1>3, <2>1, <2>2
<1>8. \A i \in 1 .. Len(r) : prv2[r[i]] = IF i = 1 THEN Null ELSE r[i - 1]
  <2>1. ASSUME NEW i \in 1 .. n
        PROVE  prv2[r[i]] = IF i = 1 THEN Null ELSE r[i - 1]
    <3>1. prv2[s[i]] = prv[s[i]]
      BY <1>1
    <3>2. prv[s[i]] = IF i = 1 THEN Null ELSE s[i - 1]
      BY DEF IsList
    <3>3. i # 1 => i - 1 \in 1 .. n
      BY <1>1
    <3>4. QED
      BY <1>2, <3>1, <3>2, <3>3
  <2>2. prv2[r[n + 1]] = r[n] /\ n + 1 # 1
    BY <1>1, <1>2, <1>4
  <2>3. QED
    BY <1>1, <1>3, <2>1, <2>2
<1>9. IsList(nxt2, prv2, first, r)
  BY <1>2, <1>5, <1>6, <1>7, <1>8 DEF IsList
<1>10. QED
  BY <1>9 DEF r

\* The list without its k-th entry.
Without(s, k) == [i \in 1 .. Len(s) - 1 |-> IF i < k THEN s[i] ELSE s[i + 1]]

\* What is left of a list without its k-th entry, and where.
LEMMA WithoutElements ==
  ASSUME NEW s \in Seq(Entries), NEW k \in 1 .. Len(s)
  PROVE  /\ Without(s, k) \in Seq(Entries) /\ Len(Without(s, k)) = Len(s) - 1
         /\ \A i \in 1 .. Len(s) - 1 : i < k => Without(s, k)[i] = s[i]
         /\ \A i \in 1 .. Len(s) - 1 : k <= i => Without(s, k)[i] = s[i + 1]
<1>1. Len(s) \in Nat /\ Len(s) - 1 \in Nat /\ k \in Nat
  OBVIOUS
<1>2. Without(s, k) \in [1 .. Len(s) - 1 -> Entries]
  BY <1>1 DEF Without
<1>3. Without(s, k) \in Seq(Entries) /\ Len(Without(s, k)) = Len(s) - 1
  BY <1>1, <1>2
<1>4. QED
  BY <1>1, <1>3 DEF Without

\* The neighbours of e are linked to each other, and what was first if e was it.
Unlinked(nxt, prv, nxt2, prv2, first, first2, e) ==
  /\ first2 = IF first = e THEN nxt[e] ELSE first
  /\ prv[e] # Null => nxt2[prv[e]] = nxt[e]
  /\ \A x \in Entries : x # e /\ x # prv[e] => nxt2[x] = nxt[x]
  /\ nxt[e] # Null => prv2[nxt[e]] = prv[e]
  /\ \A x \in Entries : x # e /\ x # nxt[e] => prv2[x] = prv[x]

\* A list from which its k-th entry is taken by linking its neighbours.
LEMMA ListRemove ==
  ASSUME NEW nxt, NEW prv, NEW nxt2, NEW prv2, NEW first, NEW first2, NEW s, NEW k \in 1 .. Len(s),
         IsList(nxt, prv, first, s),
         Unlinked(nxt, prv, nxt2, prv2, first, first2, s[k])
  PROVE  IsList(nxt2, prv2, first2, Without(s, k))
<1> DEFINE r == Without(s, k)
           n == Len(s)
           e == s[k]
<1> USE DEF Unlinked
<1>1. /\ s \in Seq(Entries) /\ n \in Nat /\ k \in Nat /\ k >= 1 /\ k <= n
      /\ \A i \in 1 .. n : s[i] \in Entries /\ s[i] # Null
  BY EntryFacts DEF IsList
<1>2. /\ r \in Seq(Entries) /\ Len(r) = n - 1
      /\ \A i \in 1 .. n - 1 : i < k => r[i] = s[i]
      /\ \A i \in 1 .. n - 1 : k <= i => r[i] = s[i + 1]
  BY <1>1, WithoutElements
<1> HIDE DEF r
<1>3. /\ nxt[e] = IF k = n THEN Null ELSE s[k + 1]
      /\ prv[e] = IF k = 1 THEN Null ELSE s[k - 1]
  BY DEF IsList
<1>4. \A i, j \in 1 .. n : s[i] = s[j] => i = j
  BY DEF IsList
<1>5. \A i, j \in 1 .. Len(r) : r[i] = r[j] => i = j
  <2>1. ASSUME NEW i \in 1 .. Len(r), NEW j \in 1 .. Len(r), r[i] = r[j]
        PROVE  i = j
    <3>1. i \in 1 .. n /\ i + 1 \in 1 .. n /\ j \in 1 .. n /\ j + 1 \in 1 .. n
      BY <1>1, <1>2, <2>1
    <3>2. (i < k /\ r[i] = s[i]) \/ (k <= i /\ r[i] = s[i + 1])
      BY <1>1, <1>2, <2>1
    <3>3. (j < k /\ r[j] = s[j]) \/ (k <= j /\ r[j] = s[j + 1])
      BY <1>1, <1>2, <2>1
    <3>4. QED
      BY <1>1, <1>4, <2>1, <3>1, <3>2, <3>3
  <2>2. QED
    BY <2>1
<1>6. first2 = IF Len(r) = 0 THEN Null ELSE r[1]
  <2>1. first = s[1] /\ 1 \in 1 .. n /\ n # 0
    BY <1>1 DEF IsList
  <2>2. first = e <=> k = 1
    BY <1>1, <1>4, <2>1
  <2>3. k = 1 /\ n # 1 => r[1] = s[2] /\ nxt[e] = s[2]
    BY <1>1, <1>2, <1>3
  <2>4. k # 1 => r[1] = s[1] /\ Len(r) # 0
    BY <1>1, <1>2
  <2>5. QED
    BY <1>1, <1>2, <1>3, <2>1, <2>2, <2>3, <2>4
<1>7. \A i \in 1 .. Len(r) : nxt2[r[i]] = IF i = Len(r) THEN Null ELSE r[i + 1]
  <2>1. ASSUME NEW i \in 1 .. n - 1, i < k - 1
        PROVE  nxt2[r[i]] = r[i + 1] /\ i # n - 1
    <3>1. i \in 1 .. n /\ i + 1 \in 1 .. n /\ i + 1 \in 1 .. n - 1 /\ i + 1 < k /\ i < k
      BY <1>1, <2>1
    <3>2. r[i] = s[i] /\ r[i + 1] = s[i + 1] /\ nxt[s[i]] = s[i + 1]
      <4>1. i # n
        BY <1>1, <2>1
      <4>2. nxt[s[i]] = s[i + 1]
        BY <3>1, <4>1 DEF IsList
      <4>3. QED
        BY <1>2, <3>1, <4>2
    <3>3. s[i] # e /\ s[i] # prv[e]
      <4>1. k - 1 \in 1 .. n /\ i # k - 1 /\ k # 1
        BY <1>1, <2>1
      <4>2. QED
        BY <1>3, <1>4, <3>1, <4>1
    <3>4. QED
      BY <1>1, <2>1, <3>1, <3>2, <3>3
  <2>2. ASSUME NEW i \in 1 .. n - 1, i = k - 1
        PROVE  nxt2[r[i]] = IF i = n - 1 THEN Null ELSE r[i + 1]
    <3>1. i \in 1 .. n /\ r[i] = s[i] /\ prv[e] = s[i]
      BY <1>1, <1>2, <1>3, <2>2
    <3>2. nxt2[r[i]] = nxt[e]
      <4>1. prv[e] # Null
        BY <1>1, <3>1
      <4>2. QED
        BY <3>1, <4>1
    <3>3. i # n - 1 => r[i + 1] = s[k + 1] /\ k # n
      BY <1>1, <1>2, <2>2
    <3>4. i = n - 1 => k = n
      BY <1>1, <2>2
    <3>5. QED
      BY <1>3, <3>2, <3>3, <3>4
  <2>3. ASSUME NEW i \in 1 .. n - 1, i >= k
        PROVE  nxt2[r[i]] = IF i = n - 1 THEN Null ELSE r[i + 1]
    <3>1. i + 1 \in 1 .. n /\ r[i] = s[i + 1]
      BY <1>1, <1>2, <2>3
    <3>2. s[i + 1] # e /\ s[i + 1] # prv[e]
      <4>1. k # 1 => k - 1 \in 1 .. n /\ i + 1 # k - 1
        BY <1>1, <2>3
      <4>2. QED
        BY <1>1, <1>3, <1>4, <2>3, <3>1, <4>1
    <3>3. nxt2[r[i]] = nxt[s[i + 1]]
      BY <1>1, <3>1, <3>2
    <3>4. nxt[s[i + 1]] = IF i + 1 = n THEN Null ELSE s[i + 1 + 1]
      BY <3>1 DEF IsList
    <3>5. i # n - 1 => i + 1 \in 1 .. n - 1 /\ k <= i + 1
      BY <1>1, <2>3
    <3>6. i # n - 1 => r[i + 1] = s[i + 1 + 1]
      BY <1>2, <3>5
    <3>7. i + 1 = n <=> i = n - 1
      BY <1>1
    <3>8. QED
      BY <3>3, <3>4, <3>6, <3>7
  <2>4. \A i \in 1 .. n - 1 : i < k - 1 \/ i = k - 1 \/ i >= k
    BY <1>1
  <2>5. QED
    BY <1>2, <2>1, <2>2, <2>3, <2>4
<1>8. \A i \in 1 .. Len(r) : prv2[r[i]] = IF i = 1 THEN Null ELSE r[i - 1]
  <2>1. ASSUME NEW i \in 1 .. n - 1, i < k
        PROVE  prv2[r[i]] = IF i = 1 THEN Null ELSE r[i - 1]
    <3>1. i \in 1 .. n /\ r[i] = s[i]
      BY <1>1, <1>2, <2>1
    <3>2. s[i] # e /\ s[i] # nxt[e]
      <4>1. k # n => k + 1 \in 1 .. n /\ i # k + 1
        BY <1>1, <2>1
      <4>2. QED
        BY <1>1, <1>3, <1>4, <2>1, <3>1, <4>1
    <3>3. prv2[r[i]] = prv[s[i]]
      BY <1>1, <3>1, <3>2
    <3>4. prv[s[i]] = IF i = 1 THEN Null ELSE s[i - 1]
      BY <3>1 DEF IsList
    <3>5. i # 1 => r[i - 1] = s[i - 1]
      BY <1>1, <1>2, <2>1
    <3>6. QED
      BY <3>3, <3>4, <3>5
  <2>2. ASSUME NEW i \in 1 .. n - 1, i = k
        PROVE  prv2[r[i]] = IF i = 1 THEN Null ELSE r[i - 1]
    <3>1. i + 1 \in 1 .. n /\ r[i] = s[i + 1] /\ nxt[e] = s[i + 1] /\ nxt[e] # Null
      BY <1>1, <1>2, <1>3, <2>2
    <3>2. prv2[r[i]] = prv[e]
      BY <3>1
    <3>3. i # 1 => r[i - 1] = s[k - 1]
      BY <1>1, <1>2, <2>2
    <3>4. QED
      BY <1>3, <2>2, <3>2, <3>3
  <2>3. ASSUME NEW i \in 1 .. n - 1, i > k
        PROVE  prv2[r[i]] = r[i - 1] /\ i # 1
    <3>1. i + 1 \in 1 .. n /\ r[i] = s[i + 1] /\ k # n /\ k + 1 \in 1 .. n /\ i + 1 # 1
      BY <1>1, <1>2, <2>3
    <3>2. s[i + 1] # e /\ s[i + 1] # nxt[e]
      BY <1>1, <1>3, <1>4, <2>3, <3>1
    <3>3. prv2[r[i]] = prv[s[i + 1]]
      BY <1>1, <3>1, <3>2
    <3>4. prv[s[i + 1]] = s[i + 1 - 1]
      BY <3>1 DEF IsList
    <3>5. i - 1 \in 1 .. n - 1 /\ k <= i - 1 /\ i # 1
      BY <1>1, <2>3
    <3>6. r[i - 1] = s[i - 1 + 1]
      BY <1>2, <3>5
    <3>7. i - 1 + 1 = i + 1 - 1
      BY <1>1
    <3>8. QED
      BY <3>3, <3>4, <3>5, <3>6, <3>7
  <2>4. \A i \in 1 .. n - 1 : i < k \/ i = k \/ i > k
    BY <1>1
  <2>5. QED
    BY <1>2, <2>1, <2>2, <2>3, <2>4
<1>9. IsList(nxt2, prv2, first2, r)
  BY <1>2, <1>5, <1>6, <1>7, <1>8 DEF IsList
<1>10. QED
  BY <1>9 DEF r

--------------------------------------------------------------------------------
(* Walk and Seek                                                            *)

\* w holds the stages of the loop of Walk, of Seek: z at first, then a step on.
WalkLoop(f, z, w, n) ==
  w = [left \in 0 .. n |-> IF left = 0 THEN z ELSE Along(f, w[left - 1])]
SeekLoop(f, u, z, w, n) ==
  w = [left \in 0 .. n |-> IF left = 0 THEN z ELSE SeekAlong(f, u, w[left - 1])]

\* The loop of Walk has its stages, for every number of steps.
LEMMA WalkLoopExists ==
  ASSUME NEW f, NEW z, NEW n \in Nat
  PROVE  \E w : WalkLoop(f, z, w, n)
<1> DEFINE T == {k \in Nat : ~ \E w : WalkLoop(f, z, w, k)}
<1> SUFFICES T = {}
  OBVIOUS
<1>1. ASSUME T # {} PROVE FALSE
  <2>1. PICK k \in T : \A j \in T : k <= j
    BY <1>1, LeastNat
  <2>2. CASE k = 0
    <3> DEFINE w == [left \in 0 .. 0 |-> z]
    <3>1. w = [left \in 0 .. 0 |-> IF left = 0 THEN z ELSE Along(f, w[left - 1])]
      OBVIOUS
    <3>2. WalkLoop(f, z, w, 0)
      BY <3>1 DEF WalkLoop
    <3>3. QED
      BY <2>1, <2>2, <3>2
  <2>3. CASE k # 0
    <3>1. k - 1 \in Nat /\ k - 1 \notin T
      BY <2>1, <2>3
    <3>2. PICK w : WalkLoop(f, z, w, k - 1)
      BY <3>1
    <3> DEFINE v == [left \in 0 .. k |-> IF left = 0 THEN z ELSE Along(f, w[left - 1])]
    <3>3. \A left \in 0 .. k - 1 : v[left] = w[left]
      BY <2>1, <3>2 DEF WalkLoop
    <3>4. \A left \in 0 .. k : left # 0 => v[left - 1] = w[left - 1]
      <4>1. \A left \in 0 .. k : left # 0 => left - 1 \in 0 .. k - 1
        BY <2>1
      <4> HIDE DEF v
      <4>2. QED
        BY <3>3, <4>1
    <3>5. v = [left \in 0 .. k |-> IF left = 0 THEN z ELSE Along(f, v[left - 1])]
      BY <3>4
    <3>6. WalkLoop(f, z, v, k)
      BY <3>5 DEF WalkLoop
    <3>7. QED
      BY <2>1, <3>6
  <2>4. QED
    BY <2>2, <2>3
<1>2. QED
  BY <1>1

\* The loop of Seek has its stages, for every number of steps.
LEMMA SeekLoopExists ==
  ASSUME NEW f, NEW u, NEW z, NEW n \in Nat
  PROVE  \E w : SeekLoop(f, u, z, w, n)
<1> DEFINE T == {k \in Nat : ~ \E w : SeekLoop(f, u, z, w, k)}
<1> SUFFICES T = {}
  OBVIOUS
<1>1. ASSUME T # {} PROVE FALSE
  <2>1. PICK k \in T : \A j \in T : k <= j
    BY <1>1, LeastNat
  <2>2. CASE k = 0
    <3> DEFINE w == [left \in 0 .. 0 |-> z]
    <3>1. w = [left \in 0 .. 0 |-> IF left = 0 THEN z ELSE SeekAlong(f, u, w[left - 1])]
      OBVIOUS
    <3>2. SeekLoop(f, u, z, w, 0)
      BY <3>1 DEF SeekLoop
    <3>3. QED
      BY <2>1, <2>2, <3>2
  <2>3. CASE k # 0
    <3>1. k - 1 \in Nat /\ k - 1 \notin T
      BY <2>1, <2>3
    <3>2. PICK w : SeekLoop(f, u, z, w, k - 1)
      BY <3>1
    <3> DEFINE v == [left \in 0 .. k |-> IF left = 0 THEN z ELSE SeekAlong(f, u, w[left - 1])]
    <3>3. \A left \in 0 .. k - 1 : v[left] = w[left]
      BY <2>1, <3>2 DEF SeekLoop
    <3>4. \A left \in 0 .. k : left # 0 => v[left - 1] = w[left - 1]
      <4>1. \A left \in 0 .. k : left # 0 => left - 1 \in 0 .. k - 1
        BY <2>1
      <4> HIDE DEF v
      <4>2. QED
        BY <3>3, <4>1
    <3>5. v = [left \in 0 .. k |-> IF left = 0 THEN z ELSE SeekAlong(f, u, v[left - 1])]
      BY <3>4
    <3>6. SeekLoop(f, u, z, v, k)
      BY <3>5 DEF SeekLoop
    <3>7. QED
      BY <2>1, <3>6
  <2>4. QED
    BY <2>2, <2>3
<1>2. QED
  BY <1>1

\* The steps of Walk.
LEMMA WalkSteps ==
  ASSUME NEW f, NEW e
  PROVE  \E w : /\ Walk(f, e) = w[Cardinality(Entries) + 1][e]
                /\ w[0] = [x \in Pointers |-> <<>>]
                /\ \A left \in 1 .. Cardinality(Entries) + 1 : w[left] = Along(f, w[left - 1])
<1> DEFINE n == Cardinality(Entries) + 1
           z == [x \in Pointers |-> <<>>]
           w == CHOOSE w : WalkLoop(f, z, w, n)
<1>1. n \in Nat
  BY EntryFacts
<1>2. WalkLoop(f, z, w, n)
  BY <1>1, WalkLoopExists
<1>3. Walk(f, e) = w[n][e]
  BY DEF Walk, WalkLoop, Hops
<1> HIDE DEF w, n, z
<1>4. w[0] = z /\ \A left \in 1 .. n : w[left] = Along(f, w[left - 1])
  BY <1>1, <1>2 DEF WalkLoop
<1>5. QED
  BY <1>3, <1>4 DEF n, z

\* The steps of Seek.
LEMMA SeekSteps ==
  ASSUME NEW f, NEW u, NEW e
  PROVE  \E w : /\ Seek(f, u, e) = w[Cardinality(Entries) + 1][e]
                /\ w[0] = [x \in Pointers |-> Null]
                /\ \A left \in 1 .. Cardinality(Entries) + 1 : w[left] = SeekAlong(f, u, w[left - 1])
<1> DEFINE n == Cardinality(Entries) + 1
           z == [x \in Pointers |-> Null]
           w == CHOOSE w : SeekLoop(f, u, z, w, n)
<1>1. n \in Nat
  BY EntryFacts
<1>2. SeekLoop(f, u, z, w, n)
  BY <1>1, SeekLoopExists
<1>3. Seek(f, u, e) = w[n][e]
  BY DEF Seek, SeekLoop, Hops
<1> HIDE DEF w, n, z
<1>4. w[0] = z /\ \A left \in 1 .. n : w[left] = SeekAlong(f, u, w[left - 1])
  BY <1>1, <1>2 DEF SeekLoop
<1>5. QED
  BY <1>3, <1>4 DEF n, z

\* The last k entries of a list, and where they begin.
Rest(s, k) == [i \in 1 .. k |-> s[Len(s) - k + i]]
Begin(s, k) == IF k = 0 THEN Null ELSE s[Len(s) - k + 1]

\* The last k entries are one and the last k - 1.
LEMMA RestElements ==
  ASSUME NEW s \in Seq(Entries)
  PROVE  /\ Rest(s, 0) = <<>> /\ Rest(s, Len(s)) = s
         /\ \A k \in 1 .. Len(s) : Rest(s, k) = <<Begin(s, k)>> \o Rest(s, k - 1)
<1>1. Len(s) \in Nat /\ \A i \in 1 .. Len(s) : s[i] \in Entries
  OBVIOUS
<1>2. \A k \in 0 .. Len(s) : Rest(s, k) \in Seq(Entries) /\ Len(Rest(s, k)) = k
  <2> TAKE k \in 0 .. Len(s)
  <2>1. \A i \in 1 .. k : Len(s) - k + i \in 1 .. Len(s)
    BY <1>1
  <2>2. Rest(s, k) \in [1 .. k -> Entries]
    BY <1>1, <2>1 DEF Rest
  <2>3. QED
    BY <1>1, <2>2
<1>3. \A k \in 0 .. Len(s) : \A i \in 1 .. k : Rest(s, k)[i] = s[Len(s) - k + i]
  BY DEF Rest
<1>4. Rest(s, 0) = <<>>
  BY <1>1, <1>2
<1>5. Rest(s, Len(s)) = s
  <2>1. Len(s) \in 0 .. Len(s) /\ \A i \in 1 .. Len(s) : Len(s) - Len(s) + i = i
    BY <1>1
  <2>2. \A i \in 1 .. Len(s) : Rest(s, Len(s))[i] = s[i]
    BY <1>3, <2>1
  <2>3. Rest(s, Len(s)) \in Seq(Entries) /\ Len(Rest(s, Len(s))) = Len(s)
    BY <1>2, <2>1
  <2>4. QED
    BY <1>1, <2>2, <2>3
<1>6. ASSUME NEW k \in 1 .. Len(s)
      PROVE  Rest(s, k) = <<Begin(s, k)>> \o Rest(s, k - 1)
  <2> DEFINE t == Rest(s, k - 1)
             r == <<Begin(s, k)>> \o t
  <2>1. k - 1 \in 0 .. Len(s) /\ k \in 0 .. Len(s) /\ Len(s) - k + 1 \in 1 .. Len(s) /\ k # 0
    BY <1>1
  <2>2. t \in Seq(Entries) /\ Len(t) = k - 1 /\ \A i \in 1 .. k - 1 : t[i] = s[Len(s) - (k - 1) + i]
    BY <1>2, <1>3, <2>1
  <2>3. Begin(s, k) = s[Len(s) - k + 1] /\ Begin(s, k) \in Entries
    BY <1>1, <2>1 DEF Begin
  <2> HIDE DEF t
  <2>4. /\ r \in Seq(Entries) /\ Len(r) = k - 1 + 1 /\ r[1] = Begin(s, k)
        /\ \A i \in 2 .. k - 1 + 1 : r[i] = t[i - 1]
    BY <2>2, <2>3, ConsElements
  <2> HIDE DEF r
  <2>5. ASSUME NEW i \in 1 .. k
        PROVE  Rest(s, k)[i] = r[i]
    <3>1. CASE i = 1
      BY <1>3, <2>1, <2>3, <2>4, <3>1
    <3>2. CASE i # 1
      <4>1. i \in 2 .. k - 1 + 1 /\ i - 1 \in 1 .. k - 1
        BY <2>1, <3>2
      <4>2. r[i] = s[Len(s) - (k - 1) + (i - 1)]
        BY <2>2, <2>4, <4>1
      <4>3. Len(s) - (k - 1) + (i - 1) = Len(s) - k + i
        BY <1>1, <2>1
      <4>4. QED
        BY <1>3, <2>1, <4>2, <4>3
    <3>3. QED
      BY <3>1, <3>2
  <2>6. Len(r) = k /\ Rest(s, k) \in Seq(Entries) /\ Len(Rest(s, k)) = k
    BY <1>1, <1>2, <2>1, <2>4
  <2>7. Rest(s, k) = r
    BY <2>4, <2>5, <2>6
  <2>8. QED
    BY <2>7 DEF r, t
<1>7. QED
  BY <1>4, <1>5, <1>6

\* The link of an entry leads to where one entry less begins.
LEMMA BeginNext ==
  ASSUME NEW nxt, NEW prv, NEW first, NEW s, IsList(nxt, prv, first, s)
  PROVE  /\ s \in Seq(Entries) /\ Len(s) \in Nat /\ Len(s) < Cardinality(Entries) + 1
         /\ Begin(s, Len(s)) = first
         /\ \A k \in 0 .. Len(s) : Begin(s, k) \in Pointers /\ (k = 0 <=> Begin(s, k) = Null)
         /\ \A k \in 1 .. Len(s) : nxt[Begin(s, k)] = Begin(s, k - 1)
<1>1. s \in Seq(Entries) /\ Len(s) \in Nat /\ \A i \in 1 .. Len(s) : s[i] \in Entries
  BY DEF IsList
<1>2. Len(s) < Cardinality(Entries) + 1
  BY <1>1, ListBound, EntryFacts DEF IsList
<1>3. Begin(s, Len(s)) = first
  BY <1>1 DEF Begin, IsList
<1>4. ASSUME NEW k \in 0 .. Len(s)
      PROVE  Begin(s, k) \in Pointers /\ (k = 0 <=> Begin(s, k) = Null)
  <2>1. k # 0 => Len(s) - k + 1 \in 1 .. Len(s)
    BY <1>1
  <2>2. QED
    BY <1>1, <2>1, EntryFacts DEF Begin, Pointers
<1>5. ASSUME NEW k \in 1 .. Len(s)
      PROVE  nxt[Begin(s, k)] = Begin(s, k - 1)
  <2>1. Len(s) - k + 1 \in 1 .. Len(s) /\ k # 0
    BY <1>1
  <2>2. nxt[s[Len(s) - k + 1]] = IF Len(s) - k + 1 = Len(s) THEN Null ELSE s[Len(s) - k + 1 + 1]
    BY <2>1 DEF IsList
  <2>3. Len(s) - k + 1 = Len(s) <=> k - 1 = 0
    BY <1>1
  <2>4. Len(s) - k + 1 + 1 = Len(s) - (k - 1) + 1
    BY <1>1
  <2>5. QED
    BY <2>1, <2>2, <2>3, <2>4 DEF Begin
<1>6. QED
  BY <1>1, <1>2, <1>3, <1>4, <1>5

\* One step of Walk, at one pointer.
LEMMA AlongAt ==
  ASSUME NEW f, NEW rest, NEW x \in Pointers
  PROVE  Along(f, rest)[x] = IF x = Null THEN <<>> ELSE <<x>> \o rest[f[x]]
BY DEF Along

\* One step of Seek, at one pointer.
LEMMA SeekAlongAt ==
  ASSUME NEW f, NEW u, NEW rest, NEW x \in Pointers
  PROVE  SeekAlong(f, u, rest)[x] = IF x # Null /\ Key(x) # u THEN rest[f[x]] ELSE x
BY DEF SeekAlong

\* Walk finds the whole list.
LEMMA WalkIs ==
  ASSUME NEW nxt, NEW prv, NEW first, NEW s, IsList(nxt, prv, first, s)
  PROVE  Walk(nxt, first) = s
<1> DEFINE n == Cardinality(Entries) + 1
<1>1. PICK w : /\ Walk(nxt, first) = w[n][first]
               /\ w[0] = [x \in Pointers |-> <<>>]
               /\ \A left \in 1 .. n : w[left] = Along(nxt, w[left - 1])
  BY WalkSteps
<1>2. /\ s \in Seq(Entries) /\ Len(s) \in Nat /\ Len(s) < n
      /\ Begin(s, Len(s)) = first
      /\ \A k \in 0 .. Len(s) : Begin(s, k) \in Pointers /\ (k = 0 <=> Begin(s, k) = Null)
      /\ \A k \in 1 .. Len(s) : nxt[Begin(s, k)] = Begin(s, k - 1)
  BY BeginNext
<1>3. n \in Nat
  BY EntryFacts
<1> HIDE DEF n
<1> DEFINE T == {left \in 0 .. n : \E k \in 0 .. Len(s) : k <= left /\ w[left][Begin(s, k)] # Rest(s, k)}
<1>4. ASSUME T # {} PROVE FALSE
  <2>1. T \in SUBSET Nat
    BY <1>3
  <2>2. PICK left \in T : \A j \in T : left <= j
    BY <1>4, <2>1, LeastNat
  <2>3. PICK k \in 0 .. Len(s) : k <= left /\ w[left][Begin(s, k)] # Rest(s, k)
    BY <2>2
  <2>4. left # 0
    BY <1>1, <1>2, <2>3, RestElements
  <2>5. left \in 1 .. n /\ left - 1 \in 0 .. n /\ left - 1 \notin T
    BY <1>3, <2>2, <2>4
  <2>6. w[left][Begin(s, k)] = IF Begin(s, k) = Null THEN <<>> ELSE <<Begin(s, k)>> \o w[left - 1][nxt[Begin(s, k)]]
    <3>1. w[left] = Along(nxt, w[left - 1]) /\ Begin(s, k) \in Pointers
      BY <1>1, <1>2, <2>5
    <3>2. QED
      BY <3>1, AlongAt
  <2>7. CASE k = 0
    BY <1>2, <2>3, <2>6, <2>7, RestElements
  <2>8. CASE k # 0
    <3>1. k \in 1 .. Len(s) /\ k - 1 \in 0 .. Len(s) /\ k - 1 <= left - 1
      BY <1>2, <2>3, <2>5, <2>8
    <3>2. w[left - 1][Begin(s, k - 1)] = Rest(s, k - 1)
      BY <2>5, <3>1
    <3>3. QED
      <4>1. Begin(s, k) # Null /\ w[left - 1][nxt[Begin(s, k)]] = Rest(s, k - 1)
        BY <1>2, <3>1, <3>2
      <4>2. w[left][Begin(s, k)] = <<Begin(s, k)>> \o Rest(s, k - 1)
        BY <2>6, <4>1
      <4>3. Rest(s, k) = <<Begin(s, k)>> \o Rest(s, k - 1)
        BY <1>2, <3>1, RestElements
      <4>4. QED
        BY <2>3, <4>2, <4>3
  <2>9. QED
    BY <2>7, <2>8
<1>5. n \in 0 .. n /\ Len(s) \in 0 .. Len(s) /\ Len(s) <= n
  BY <1>2, <1>3
<1>6. w[n][Begin(s, Len(s))] = Rest(s, Len(s))
  BY <1>4, <1>5
<1>7. QED
  BY <1>1, <1>2, <1>6, RestElements

\* Seek finds an entry of the list with the key, or NULL when there is none.
LEMMA SeekIs ==
  ASSUME NEW nxt, NEW prv, NEW first, NEW s, IsList(nxt, prv, first, s), NEW u
  PROVE  \/ Seek(nxt, u, first) = Null /\ \A i \in 1 .. Len(s) : Key(s[i]) # u
         \/ \E i \in 1 .. Len(s) : Seek(nxt, u, first) = s[i] /\ Key(s[i]) = u
<1> DEFINE n == Cardinality(Entries) + 1
           Found(x, k) ==
             \/ x = Null /\ \A i \in 1 .. k : Key(Begin(s, i)) # u
             \/ \E i \in 1 .. k : x = Begin(s, i) /\ Key(Begin(s, i)) = u
<1>1. PICK w : /\ Seek(nxt, u, first) = w[n][first]
               /\ w[0] = [x \in Pointers |-> Null]
               /\ \A left \in 1 .. n : w[left] = SeekAlong(nxt, u, w[left - 1])
  BY SeekSteps
<1>2. /\ s \in Seq(Entries) /\ Len(s) \in Nat /\ Len(s) < n
      /\ Begin(s, Len(s)) = first
      /\ \A k \in 0 .. Len(s) : Begin(s, k) \in Pointers /\ (k = 0 <=> Begin(s, k) = Null)
      /\ \A k \in 1 .. Len(s) : nxt[Begin(s, k)] = Begin(s, k - 1)
  BY BeginNext
<1>3. n \in Nat
  BY EntryFacts
<1> HIDE DEF n
<1> DEFINE T == {left \in 0 .. n : \E k \in 0 .. Len(s) : k <= left /\ ~Found(w[left][Begin(s, k)], k)}
<1>4. ASSUME T # {} PROVE FALSE
  <2>1. T \in SUBSET Nat
    BY <1>3
  <2>2. PICK left \in T : \A j \in T : left <= j
    BY <1>4, <2>1, LeastNat
  <2>3. PICK k \in 0 .. Len(s) : k <= left /\ ~Found(w[left][Begin(s, k)], k)
    BY <2>2
  <2>4. CASE left = 0
    <3>1. k = 0 /\ w[left][Begin(s, k)] = Null
      BY <1>1, <1>2, <2>3, <2>4
    <3>2. QED
      BY <2>3, <3>1
  <2>5. CASE left # 0
    <3>1. left \in 1 .. n /\ left - 1 \in 0 .. n /\ left - 1 \notin T
      BY <1>3, <2>2, <2>5
    <3> DEFINE x == Begin(s, k)
    <3>2. w[left][x] = IF x # Null /\ Key(x) # u THEN w[left - 1][nxt[x]] ELSE x
      <4>1. w[left] = SeekAlong(nxt, u, w[left - 1]) /\ x \in Pointers
        BY <1>1, <1>2, <3>1
      <4> HIDE DEF x
      <4>2. QED
        BY <4>1, SeekAlongAt
    <3>3. CASE k = 0
      <4>1. x = Null
        BY <1>2, <3>3
      <4> HIDE DEF x
      <4>2. w[left][x] = Null
        BY <3>2, <4>1
      <4>3. QED
        BY <2>3, <3>3, <4>2 DEF x
    <3>4. CASE k # 0
      <4>1. k \in 1 .. Len(s) /\ k - 1 \in 0 .. Len(s) /\ k - 1 <= left - 1 /\ k \in 1 .. k
        BY <1>2, <2>3, <3>1, <3>4
      <4>2. Found(w[left - 1][Begin(s, k - 1)], k - 1)
        BY <3>1, <4>1
      <4>3. x # Null /\ nxt[x] = Begin(s, k - 1)
        BY <1>2, <4>1
      <4>4. CASE Key(x) = u
        <5>1. w[left][x] = x
          BY <3>2, <4>4
        <5>2. QED
          BY <2>3, <4>1, <4>4, <5>1
      <4>5. CASE Key(x) # u
        <5>1. w[left][x] = w[left - 1][Begin(s, k - 1)]
          BY <3>2, <4>3, <4>5
        <5>2. \A i \in 1 .. k : i = k \/ i \in 1 .. k - 1
          BY <4>1
        <5>3. \A i \in 1 .. k - 1 : i \in 1 .. k
          BY <4>1
        <5> DEFINE y == w[left - 1][Begin(s, k - 1)]
        <5>4. Found(y, k - 1)
          BY <4>2
        <5>5. Key(Begin(s, k)) # u
          BY <4>5
        <5> HIDE DEF y
        <5>6. Found(y, k)
          BY <5>2, <5>3, <5>4, <5>5
        <5>7. QED
          BY <2>3, <5>1, <5>6 DEF y
      <4>6. QED
        BY <4>4, <4>5
    <3>5. QED
      BY <3>3, <3>4
  <2>6. QED
    BY <2>4, <2>5
<1>5. n \in 0 .. n /\ Len(s) \in 0 .. Len(s) /\ Len(s) <= n
  BY <1>2, <1>3
<1>6. Found(w[n][Begin(s, Len(s))], Len(s))
  BY <1>4, <1>5
<1>7. Found(Seek(nxt, u, first), Len(s))
  BY <1>1, <1>2, <1>6
<1>8. \A i \in 1 .. Len(s) : Len(s) - i + 1 \in 1 .. Len(s) /\ Begin(s, i) = s[Len(s) - i + 1]
  BY <1>2 DEF Begin
<1>9. \A i \in 1 .. Len(s) : Begin(s, Len(s) - i + 1) = s[i]
  <2> TAKE i \in 1 .. Len(s)
  <2>1. Len(s) - i + 1 \in 1 .. Len(s) /\ Len(s) - (Len(s) - i + 1) + 1 = i
    BY <1>2
  <2>2. QED
    BY <1>8, <2>1
<1>10. QED
  BY <1>7, <1>8, <1>9

--------------------------------------------------------------------------------
(* The macros                                                               *)

\* What moving an entry to a bucket leaves alone.
OthersSame(R, T) ==
  /\ R.head = T.head /\ R.tail = T.tail /\ R.num_items = T.num_items
  /\ R.num_buckets = T.num_buckets /\ R.ideal_chain_maxlen = T.ideal_chain_maxlen
  /\ R.ineff_expands = T.ineff_expands /\ R.noexpand = T.noexpand
  /\ R.prev = T.prev /\ R.next = T.next

\* The types of what a table holds.
LEMMA TableTypes ==
  ASSUME NEW T, IsTable(T)
  PROVE  /\ T.num_buckets \in Nat \ {0} /\ T.num_items \in Nat
         /\ T.ideal_chain_maxlen \in Nat /\ T.nonideal_items \in Nat /\ T.ineff_expands \in Nat
         /\ T.noexpand \in BOOLEAN /\ T.head \in Pointers /\ T.tail \in Pointers
         /\ T.prev \in Links /\ T.next \in Links /\ T.hh_prev \in Links /\ T.hh_next \in Links
         /\ T.buckets \in [0 .. T.num_buckets - 1 -> BucketRecords]
         /\ \A b \in 0 .. T.num_buckets - 1 :
              /\ T.buckets[b] \in BucketRecords
              /\ T.buckets[b].hh_head \in Pointers /\ T.buckets[b].count \in Nat
              /\ T.buckets[b].expand_mult \in Nat
BY DEF IsTable, Tables, BucketRecords

\* What PushLinks does to the links.
LEMMA PushLinksFields ==
  ASSUME NEW T, IsTable(T), NEW e \in Entries, NEW first \in Pointers, first # e
  PROVE  LET R == PushLinks(T, e, first)
         IN /\ R \in Tables /\ OthersSame(R, T)
            /\ R.buckets = T.buckets /\ R.nonideal_items = T.nonideal_items
            /\ R.hh_next[e] = first /\ R.hh_prev[e] = Null
            /\ \A x \in Entries : x # e => R.hh_next[x] = T.hh_next[x]
            /\ first # Null => R.hh_prev[first] = e
            /\ \A x \in Entries : x # e /\ x # first => R.hh_prev[x] = T.hh_prev[x]
<1> DEFINE R == PushLinks(T, e, first)
           p == [T.hh_prev EXCEPT ![e] = Null]
           q == Patch(p, first, e)
           h == [T.hh_next EXCEPT ![e] = first]
<1>1. T \in Tables /\ T.hh_prev \in Links /\ T.hh_next \in Links
  BY TableTypes DEF IsTable
<1>2. p \in Links /\ p[e] = Null /\ \A x \in Entries : x # e => p[x] = T.hh_prev[x]
  BY <1>1 DEF Links, Pointers
<1>3. h \in Links /\ h[e] = first /\ \A x \in Entries : x # e => h[x] = T.hh_next[x]
  BY <1>1 DEF Links
<1> HIDE DEF p
<1>4. /\ q \in Links /\ q[e] = Null
      /\ first # Null => q[first] = e
      /\ \A x \in Entries : x # e /\ x # first => q[x] = T.hh_prev[x]
  <2>1. CASE first = Null
    BY <1>2, <2>1 DEF Patch
  <2>2. CASE first # Null
    <3>1. q = [p EXCEPT ![first] = e] /\ first \in Entries /\ e \in Pointers
      BY <2>2 DEF Patch, Pointers
    <3> HIDE DEF q
    <3>2. QED
      BY <1>2, <3>1, <2>2 DEF Links
  <2>3. QED
    BY <2>1, <2>2
<1>5. R = [T EXCEPT !.hh_next = h, !.hh_prev = q]
  BY DEF PushLinks, p
<1> HIDE DEF q, h, R
<1>6. R.hh_next = h /\ R.hh_prev = q
  BY <1>1, <1>5 DEF Tables
<1>7. OthersSame(R, T) /\ R.buckets = T.buckets /\ R.nonideal_items = T.nonideal_items
  BY <1>1, <1>5 DEF Tables, OthersSame
<1>8. R \in Tables
  BY <1>1, <1>3, <1>4, <1>5 DEF Tables
<1>9. QED
  BY <1>3, <1>4, <1>6, <1>7, <1>8 DEF R

\* What Push does to a table.
LEMMA PushFields ==
  ASSUME NEW T, IsTable(T), NEW b \in 0 .. T.num_buckets - 1, NEW e \in Entries,
         T.buckets[b].hh_head # e
  PROVE  LET R == Push(T, b, e)
             first == T.buckets[b].hh_head
         IN /\ IsTable(R) /\ OthersSame(R, T) /\ R.nonideal_items = T.nonideal_items
            /\ R.hh_next[e] = first /\ R.hh_prev[e] = Null
            /\ \A x \in Entries : x # e => R.hh_next[x] = T.hh_next[x]
            /\ first # Null => R.hh_prev[first] = e
            /\ \A x \in Entries : x # e /\ x # first => R.hh_prev[x] = T.hh_prev[x]
            /\ R.buckets[b].hh_head = e /\ R.buckets[b].count = T.buckets[b].count + 1
            /\ R.buckets[b].expand_mult = T.buckets[b].expand_mult
            /\ \A c \in 0 .. T.num_buckets - 1 : c # b => R.buckets[c] = T.buckets[c]
<1> DEFINE R == Push(T, b, e)
           first == T.buckets[b].hh_head
           Q == PushLinks(T, e, first)
           B == [T.buckets EXCEPT ![b].hh_head = e, ![b].count = @ + 1]
<1>1. /\ T.buckets \in [0 .. T.num_buckets - 1 -> BucketRecords] /\ first \in Pointers
      /\ e \in Pointers /\ T.num_buckets \in Nat
  BY TableTypes DEF Pointers
<1>2. /\ Q \in Tables /\ OthersSame(Q, T)
      /\ Q.buckets = T.buckets /\ Q.nonideal_items = T.nonideal_items
      /\ Q.hh_next[e] = first /\ Q.hh_prev[e] = Null
      /\ \A x \in Entries : x # e => Q.hh_next[x] = T.hh_next[x]
      /\ first # Null => Q.hh_prev[first] = e
      /\ \A x \in Entries : x # e /\ x # first => Q.hh_prev[x] = T.hh_prev[x]
  BY <1>1, PushLinksFields
<1>3. /\ B \in [0 .. T.num_buckets - 1 -> BucketRecords]
      /\ B[b].hh_head = e /\ B[b].count = T.buckets[b].count + 1
      /\ B[b].expand_mult = T.buckets[b].expand_mult
      /\ \A c \in 0 .. T.num_buckets - 1 : c # b => B[c] = T.buckets[c]
  <2> DEFINE A == [T.buckets EXCEPT ![b].hh_head = e]
  <2>1. /\ A \in [0 .. T.num_buckets - 1 -> BucketRecords]
        /\ A[b].hh_head = e /\ A[b].count = T.buckets[b].count
        /\ A[b].expand_mult = T.buckets[b].expand_mult
        /\ \A c \in 0 .. T.num_buckets - 1 : c # b => A[c] = T.buckets[c]
    BY <1>1 DEF BucketRecords
  <2>2. B = [A EXCEPT ![b].count = @ + 1]
    OBVIOUS
  <2> HIDE DEF A, B
  <2>3. QED
    BY <2>1, <2>2 DEF BucketRecords
<1>4. R = [Q EXCEPT !.buckets = B]
  <2>1. R = [Q EXCEPT !.buckets[b].hh_head = e, !.buckets[b].count = @ + 1]
    BY DEF Push
  <2> HIDE DEF Q, R
  <2>2. QED
    BY <1>2, <2>1 DEF Tables
<1> HIDE DEF B, Q, R
<1>5. B \in UNION {[0 .. n - 1 -> BucketRecords] : n \in Nat}
  BY <1>1, <1>3
<1>6. R \in Tables /\ R.buckets = B
  BY <1>2, <1>4, <1>5 DEF Tables
<1>7. /\ OthersSame(R, T) /\ R.nonideal_items = T.nonideal_items
      /\ R.hh_next = Q.hh_next /\ R.hh_prev = Q.hh_prev
  BY <1>2, <1>4 DEF Tables, OthersSame
<1>8. IsTable(R)
  BY <1>3, <1>6, <1>7 DEF IsTable, OthersSame
<1>9. QED
  BY <1>2, <1>3, <1>6, <1>7, <1>8 DEF R

\* Buckets are told by their links, first entries and counts.
LEMMA BucketsKept ==
  ASSUME NEW T, NEW R, NEW S, BucketsOK(T, S),
         R.hh_next = T.hh_next, R.hh_prev = T.hh_prev, R.num_buckets = T.num_buckets,
         \A b \in 0 .. T.num_buckets - 1 :
           R.buckets[b].hh_head = T.buckets[b].hh_head /\ R.buckets[b].count = T.buckets[b].count
  PROVE  BucketsOK(R, S)
<1>1. ASSUME NEW b \in 0 .. T.num_buckets - 1
      PROVE  BucketOK(R, S, b)
  <2>1. BucketOK(T, S, b)
    BY DEF BucketsOK
  <2>2. Chain(R, b) = Chain(T, b) /\ Homes(R, b) = Homes(T, b)
    BY DEF Chain, Homes
  <2>3. QED
    BY <2>1, <2>2 DEF BucketOK
<1>2. QED
  BY <1>1 DEF BucketsOK

\* An entry that is not in any bucket may be pushed to its own.
LEMMA PushBuckets ==
  ASSUME NEW T, NEW S, IsTable(T), BucketsOK(T, S), NEW e \in Entries, e \notin S
  PROVE  LET b == BucketOf(Key(e), T.num_buckets)
         IN /\ b \in 0 .. T.num_buckets - 1 /\ T.buckets[b].hh_head # e
            /\ BucketsOK(Push(T, b, e), S \cup {e})
<1> DEFINE b == BucketOf(Key(e), T.num_buckets)
           R == Push(T, b, e)
           first == T.buckets[b].hh_head
           t == Chain(T, b)
<1>1. T.num_buckets \in Nat \ {0}
  BY TableTypes
<1>2. b \in 0 .. T.num_buckets - 1
  BY <1>1, BucketInRange
<1>3. BucketOK(T, S, b)
  BY <1>2 DEF BucketsOK
<1>4. IsList(T.hh_next, T.hh_prev, first, t)
  BY <1>3 DEF BucketOK
<1>5. first = IF Len(t) = 0 THEN Null ELSE t[1]
  BY <1>4 DEF IsList
<1>6. Len(t) \in Nat /\ \A i \in 1 .. Len(t) : t[i] \in Entries /\ t[i] \in S /\ t[i] \in Homes(T, b)
  <2>1. t \in Seq(Entries)
    BY <1>4 DEF IsList
  <2>2. Len(t) \in Nat /\ \A i \in 1 .. Len(t) : t[i] \in Entries
    BY <2>1
  <2>3. QED
    BY <1>3, <2>2 DEF BucketOK
<1>7. \A i \in 1 .. Len(t) : t[i] # e
  BY <1>6
<1>8. first # e /\ (first # Null => first \in Homes(T, b))
  BY <1>5, <1>6, <1>7, EntryFacts
<1>9. /\ IsTable(R) /\ OthersSame(R, T)
      /\ R.hh_next[e] = first /\ R.hh_prev[e] = Null
      /\ \A x \in Entries : x # e => R.hh_next[x] = T.hh_next[x]
      /\ first # Null => R.hh_prev[first] = e
      /\ \A x \in Entries : x # e /\ x # first => R.hh_prev[x] = T.hh_prev[x]
      /\ R.buckets[b].hh_head = e /\ R.buckets[b].count = T.buckets[b].count + 1
      /\ \A c \in 0 .. T.num_buckets - 1 : c # b => R.buckets[c] = T.buckets[c]
  BY <1>2, <1>8, PushFields
<1> HIDE DEF R
<1>10. R.num_buckets = T.num_buckets /\ \A c : Homes(R, c) = Homes(T, c)
  BY <1>9 DEF OthersSame, Homes
<1>11. BucketOK(R, S \cup {e}, b)
  <2> DEFINE r == <<e>> \o t
  <2>1. IsList(R.hh_next, R.hh_prev, e, r)
    <3> DEFINE nxt2 == R.hh_next
               prv2 == R.hh_prev
    <3>1. /\ nxt2[e] = first /\ prv2[e] = Null
          /\ \A x \in Entries : x # e => nxt2[x] = T.hh_next[x]
          /\ first # Null => prv2[first] = e
          /\ \A x \in Entries : x # e /\ x # first => prv2[x] = T.hh_prev[x]
      BY <1>9
    <3> HIDE DEF nxt2, prv2, first, t
    <3>2. IsList(nxt2, prv2, e, r)
      BY <1>4, <1>7, <3>1, ListPush
    <3>3. QED
      BY <3>2 DEF nxt2, prv2
  <2>2. Chain(R, b) = r
    <3> HIDE DEF r
    <3>1. Walk(R.hh_next, e) = r
      BY <2>1, WalkIs
    <3>2. QED
      BY <1>9, <3>1 DEF Chain
  <2>3. t \in Seq(Entries)
    BY <1>4 DEF IsList
  <2>4. /\ Len(r) = Len(t) + 1 /\ r[1] = e
        /\ \A i \in 2 .. Len(t) + 1 : r[i] = t[i - 1]
    BY <2>3, ConsElements
  <2>5. T.buckets[b].count = Len(t)
    BY <1>3 DEF BucketOK
  <2>6. \A x \in Entries : (\E i \in 1 .. Len(t) : t[i] = x) <=> x \in S /\ x \in Homes(T, b)
    BY <1>3 DEF BucketOK
  <2>7. e \in Homes(T, b)
    BY DEF Homes
  <2> HIDE DEF r, t, b
  <2>8. ASSUME NEW x \in Entries
        PROVE  (\E i \in 1 .. Len(r) : r[i] = x) <=> x \in S \cup {e} /\ x \in Homes(T, b)
    <3>1. ASSUME NEW i \in 1 .. Len(r), r[i] = x
          PROVE  x \in S \cup {e} /\ x \in Homes(T, b)
      <4>1. CASE i = 1
        BY <2>4, <2>7, <3>1, <4>1
      <4>2. CASE i # 1
        <5>1. i \in 2 .. Len(t) + 1 /\ i - 1 \in 1 .. Len(t)
          BY <1>6, <2>4, <4>2
        <5>2. QED
          BY <2>4, <2>6, <3>1, <5>1
      <4>3. QED
        BY <4>1, <4>2
    <3>2. ASSUME x \in S, x \in Homes(T, b)
          PROVE  \E i \in 1 .. Len(r) : r[i] = x
      <4>1. PICK i \in 1 .. Len(t) : t[i] = x
        BY <2>6, <3>2
      <4>2. i + 1 \in 1 .. Len(r) /\ i + 1 \in 2 .. Len(t) + 1 /\ i + 1 - 1 = i
        BY <1>6, <2>4
      <4>3. r[i + 1] = t[i + 1 - 1]
        BY <2>4, <4>2
      <4>4. r[i + 1] = x
        BY <4>1, <4>2, <4>3
      <4>5. QED
        BY <4>2, <4>4
    <3>3. 1 \in 1 .. Len(r)
      BY <1>6, <2>4
    <3>4. QED
      BY <2>4, <3>1, <3>2, <3>3
  <2>9. QED
    BY <1>9, <1>10, <2>1, <2>2, <2>4, <2>5, <2>8 DEF BucketOK
<1>12. ASSUME NEW c \in 0 .. T.num_buckets - 1, c # b
       PROVE  BucketOK(R, S \cup {e}, c)
  <2> DEFINE s == Chain(T, c)
  <2>1. BucketOK(T, S, c)
    BY DEF BucketsOK
  <2>2. IsList(T.hh_next, T.hh_prev, T.buckets[c].hh_head, s)
    BY <2>1 DEF BucketOK
  <2>3. \A i \in 1 .. Len(s) : s[i] \in Entries
    BY <2>2 DEF IsList
  <2>4. \A i \in 1 .. Len(s) : s[i] \in S /\ s[i] \in Homes(T, c)
    BY <2>1, <2>3 DEF BucketOK
  <2>5. \A x \in Homes(T, c) : x # e /\ x \notin Homes(T, b)
    BY <1>12 DEF Homes
  <2>6. \A i \in 1 .. Len(s) : s[i] # e /\ s[i] # first
    BY <1>8, <2>3, <2>4, <2>5, EntryFacts
  <2> HIDE DEF s, b, first
  <2>7. \A i \in 1 .. Len(s) : R.hh_next[s[i]] = T.hh_next[s[i]] /\ R.hh_prev[s[i]] = T.hh_prev[s[i]]
    BY <1>9, <2>3, <2>6
  <2>8. R.buckets[c] = T.buckets[c]
    BY <1>9, <1>12
  <2>9. IsList(R.hh_next, R.hh_prev, R.buckets[c].hh_head, s)
    BY <2>2, <2>7, <2>8, ListKept
  <2>10. Chain(R, c) = s
    BY <2>9, WalkIs DEF Chain
  <2>11. \A x \in Entries : (\E i \in 1 .. Len(s) : s[i] = x) <=> x \in S /\ x \in Homes(T, c)
    BY <2>1 DEF BucketOK, s
  <2>12. T.buckets[c].count = Len(s)
    BY <2>1 DEF BucketOK, s
  <2>13. QED
    BY <1>10, <2>5, <2>8, <2>9, <2>10, <2>11, <2>12 DEF BucketOK
<1>13. BucketsOK(R, S \cup {e})
  BY <1>10, <1>11, <1>12 DEF BucketsOK
<1>14. QED
  BY <1>2, <1>8, <1>13 DEF R

--------------------------------------------------------------------------------
(* Expansion                                                                *)

\* One entry more in a bucket, as Move counts it.
LEMMA SharedStep ==
  ASSUME NEW count \in Nat, NEW mult \in Nat, NEW ideal \in Nat, ideal >= 1,
         count <= ideal \/ count <= mult * ideal + 1
  PROVE  /\ count + 1 > ideal /\ count + 1 > mult * ideal => count + 1 <= (mult + 1) * ideal + 1
         /\ ~(count + 1 > mult * ideal) => count + 1 <= mult * ideal + 1
<1>1. mult * ideal \in Nat /\ (mult + 1) * ideal = mult * ideal + ideal
  OBVIOUS
<1> DEFINE p == mult * ideal
           q == (mult + 1) * ideal
<1>2. p \in Nat /\ q = p + ideal
  BY <1>1
<1> HIDE DEF p, q
<1>3. count <= ideal \/ count <= p + 1
  BY DEF p
<1>4. /\ count + 1 > ideal /\ count + 1 > p => count + 1 <= q + 1
      /\ ~(count + 1 > p) => count + 1 <= p + 1
  BY <1>2, <1>3
<1>5. QED
  BY <1>4 DEF p, q

\* What an expansion leaves of a bucket is within the multiple of the ideal length.
LEMMA SharedIsShort ==
  ASSUME NEW bucket \in BucketRecords, NEW ideal \in Nat, ideal >= 1, Shared(bucket, ideal)
  PROVE  Short(bucket, ideal)
<1> DEFINE c == bucket.count
           m == bucket.expand_mult
           p == m * ideal
           q == (m + 1) * ideal
<1>1. c \in Nat /\ m \in Nat
  BY DEF BucketRecords
<1>2. p \in Nat /\ q = p + ideal
  BY <1>1
<1>3. c <= ideal \/ c <= p + 1
  BY DEF Shared
<1> HIDE DEF c, m, p, q
<1>4. c <= q
  BY <1>1, <1>2, <1>3
<1>5. QED
  BY <1>4 DEF Short, c, m, q

\* R is T after the entries of S have gone to its buckets.
Moved(R, T, S) ==
  /\ IsTable(R) /\ OthersSame(R, T) /\ BucketsOK(R, S)
  /\ \A b \in 0 .. R.num_buckets - 1 : Shared(R.buckets[b], R.ideal_chain_maxlen)

\* Moving one entry keeps the buckets in order and their counts shared.
LEMMA MoveOK ==
  ASSUME NEW R, NEW T, NEW S, Moved(R, T, S), R.ideal_chain_maxlen >= 1,
         NEW e \in Entries, e \notin S
  PROVE  Moved(Move(R, e), T, S \cup {e})
<1> DEFINE b == BucketOf(Key(e), R.num_buckets)
           P == Push(R, b, e)
           ideal == R.ideal_chain_maxlen
           bucket == P.buckets[b]
           M == Move(R, e)
<1>1. /\ b \in 0 .. R.num_buckets - 1 /\ R.buckets[b].hh_head # e
      /\ BucketsOK(P, S \cup {e})
  BY PushBuckets DEF Moved
<1>2. /\ IsTable(P) /\ OthersSame(P, R)
      /\ P.buckets[b].count = R.buckets[b].count + 1
      /\ P.buckets[b].expand_mult = R.buckets[b].expand_mult
      /\ \A c \in 0 .. R.num_buckets - 1 : c # b => P.buckets[c] = R.buckets[c]
  BY <1>1, PushFields DEF Moved
<1>3. /\ ideal \in Nat /\ R.buckets[b].count \in Nat /\ R.buckets[b].expand_mult \in Nat
      /\ R.num_buckets \in Nat
  BY <1>1, TableTypes DEF Moved
<1>4. P.num_buckets = R.num_buckets /\ P.ideal_chain_maxlen = ideal
  BY <1>2 DEF OthersSame
<1>5. /\ P \in Tables /\ P.buckets \in [0 .. R.num_buckets - 1 -> BucketRecords]
      /\ P.nonideal_items \in Nat /\ bucket \in BucketRecords
  BY <1>1, <1>2, <1>4, TableTypes DEF IsTable
<1>6. OthersSame(P, T)
  BY <1>2 DEF Moved, OthersSame
<1>7. Shared(R.buckets[b], ideal) /\ \A c \in 0 .. R.num_buckets - 1 : Shared(R.buckets[c], ideal)
  BY <1>1 DEF Moved
<1>8. M = IF bucket.count <= ideal THEN P
          ELSE [P EXCEPT !.nonideal_items = @ + 1,
                         !.buckets[b].expand_mult = IF bucket.count > @ * ideal THEN @ + 1 ELSE @]
  BY <1>4 DEF Move, NewBucket
<1> HIDE DEF b, P, ideal, M
<1>9. CASE bucket.count <= ideal
  <2>1. M = P
    BY <1>8, <1>9
  <2>2. Shared(P.buckets[b], ideal)
    BY <1>9 DEF Shared
  <2>3. \A c \in 0 .. P.num_buckets - 1 : Shared(P.buckets[c], P.ideal_chain_maxlen)
    BY <1>2, <1>4, <1>7, <2>2
  <2>4. QED
    BY <1>1, <1>2, <1>6, <2>1, <2>3 DEF Moved, M
<1>10. CASE ~(bucket.count <= ideal)
  <2> DEFINE mult == IF bucket.count > bucket.expand_mult * ideal THEN bucket.expand_mult + 1
                     ELSE bucket.expand_mult
             B == [P.buckets EXCEPT ![b].expand_mult = mult]
  <2>1. mult \in Nat
    BY <1>5 DEF BucketRecords
  <2>2. M = [P EXCEPT !.nonideal_items = @ + 1, !.buckets = B]
    BY <1>5, <1>8, <1>10 DEF Tables
  <2>3. bucket.count <= mult * ideal + 1
    <3> DEFINE count == R.buckets[b].count
               was == R.buckets[b].expand_mult
    <3>1. bucket.count = count + 1 /\ bucket.expand_mult = was
      BY <1>2
    <3>2. count <= ideal \/ count <= was * ideal + 1
      BY <1>7 DEF Shared
    <3>3. count \in Nat /\ was \in Nat /\ ideal >= 1
      BY <1>3 DEF ideal
    <3> HIDE DEF count, was, bucket
    <3>4. /\ count + 1 > ideal /\ count + 1 > was * ideal => count + 1 <= (was + 1) * ideal + 1
          /\ ~(count + 1 > was * ideal) => count + 1 <= was * ideal + 1
      BY <1>3, <3>2, <3>3, SharedStep
    <3>5. count + 1 > ideal
      BY <1>3, <1>10, <3>1, <3>3
    <3>6. QED
      BY <3>1, <3>4, <3>5
  <2> HIDE DEF mult
  <2>4. /\ B \in [0 .. R.num_buckets - 1 -> BucketRecords]
        /\ B[b].hh_head = bucket.hh_head /\ B[b].count = bucket.count /\ B[b].expand_mult = mult
        /\ \A c \in 0 .. R.num_buckets - 1 : c # b => B[c] = P.buckets[c]
    BY <1>1, <1>5, <2>1 DEF BucketRecords, b
  <2> HIDE DEF B
  <2>5. B \in UNION {[0 .. n - 1 -> BucketRecords] : n \in Nat}
    BY <1>3, <2>4
  <2>6. M \in Tables /\ M.buckets = B
    <3>1. M.buckets = B
      BY <1>5, <2>2 DEF Tables
    <3> DEFINE k == P.nonideal_items + 1
    <3>2. k \in Nat /\ P \in Tables
      BY <1>5
    <3>3. M = [P EXCEPT !.nonideal_items = k, !.buckets = B]
      BY <2>2
    <3> HIDE DEF k
    <3>4. M \in Tables
      BY <2>5, <3>2, <3>3 DEF Tables
    <3>5. QED
      BY <3>1, <3>4
  <2>7. OthersSame(M, P) /\ M.hh_next = P.hh_next /\ M.hh_prev = P.hh_prev
    BY <1>5, <2>2 DEF Tables, OthersSame
  <2>8. M.num_buckets = R.num_buckets /\ M.ideal_chain_maxlen = ideal /\ OthersSame(M, T)
    BY <1>4, <1>6, <2>7 DEF OthersSame
  <2>9. IsTable(M)
    BY <2>4, <2>6, <2>8 DEF IsTable
  <2>10. \A c \in 0 .. R.num_buckets - 1 : B[c].hh_head = P.buckets[c].hh_head /\ B[c].count = P.buckets[c].count
    BY <2>4
  <2>11. BucketsOK(M, S \cup {e})
    <3>1. \A c \in 0 .. P.num_buckets - 1 :
            M.buckets[c].hh_head = P.buckets[c].hh_head /\ M.buckets[c].count = P.buckets[c].count
      BY <1>4, <2>6, <2>10
    <3>2. QED
      BY <1>1, <1>4, <2>7, <2>8, <3>1, BucketsKept DEF P, b
  <2>12. Shared(B[b], ideal)
    BY <2>3, <2>4 DEF Shared
  <2>13. \A c \in 0 .. M.num_buckets - 1 : Shared(M.buckets[c], M.ideal_chain_maxlen)
    BY <1>2, <1>7, <2>4, <2>6, <2>8, <2>12
  <2>14. QED
    BY <2>8, <2>9, <2>11, <2>13 DEF Moved, M
<1>11. QED
  BY <1>9, <1>10

\* A function that satisfies the equation of the inner loop, and of the outer one.
ChainLoop(T, s, m, n) ==
  m = [i \in 0 .. n |-> IF i = 0 THEN T ELSE Move(m[i - 1], s[i])]
TableLoop(T, m, n) ==
  m = [b \in 0 .. n |-> IF b = 0 THEN Doubled(T) ELSE MoveChain(m[b - 1], Chain(T, b - 1))]

\* The loop of Walk has its stages, for every number of steps.
LEMMA ChainLoopExists ==
  ASSUME NEW T, NEW s, NEW n \in Nat
  PROVE  \E m : ChainLoop(T, s, m, n)
<1> DEFINE D == {k \in Nat : ~ \E m : ChainLoop(T, s, m, k)}
<1> SUFFICES D = {}
  OBVIOUS
<1>1. ASSUME D # {} PROVE FALSE
  <2>1. PICK k \in D : \A j \in D : k <= j
    BY <1>1, LeastNat
  <2>2. CASE k = 0
    <3> DEFINE m == [i \in 0 .. 0 |-> T]
    <3>1. m = [i \in 0 .. 0 |-> IF i = 0 THEN T ELSE Move(m[i - 1], s[i])]
      OBVIOUS
    <3>2. ChainLoop(T, s, m, 0)
      BY <3>1 DEF ChainLoop
    <3>3. QED
      BY <2>1, <2>2, <3>2
  <2>3. CASE k # 0
    <3>1. k - 1 \in Nat /\ k - 1 \notin D
      BY <2>1, <2>3
    <3>2. PICK m : ChainLoop(T, s, m, k - 1)
      BY <3>1
    <3> DEFINE v == [i \in 0 .. k |-> IF i = 0 THEN T ELSE Move(m[i - 1], s[i])]
    <3>3. \A i \in 0 .. k - 1 : v[i] = m[i]
      BY <2>1, <3>2 DEF ChainLoop
    <3>4. \A i \in 0 .. k : i # 0 => v[i - 1] = m[i - 1]
      <4>1. \A i \in 0 .. k : i # 0 => i - 1 \in 0 .. k - 1
        BY <2>1
      <4> HIDE DEF v
      <4>2. QED
        BY <3>3, <4>1
    <3>5. v = [i \in 0 .. k |-> IF i = 0 THEN T ELSE Move(v[i - 1], s[i])]
      BY <3>4
    <3>6. ChainLoop(T, s, v, k)
      BY <3>5 DEF ChainLoop
    <3>7. QED
      BY <2>1, <3>6
  <2>4. QED
    BY <2>2, <2>3
<1>2. QED
  BY <1>1

\* The same for the outer loop.
LEMMA TableLoopExists ==
  ASSUME NEW T, NEW n \in Nat
  PROVE  \E m : TableLoop(T, m, n)
<1> DEFINE D == {k \in Nat : ~ \E m : TableLoop(T, m, k)}
<1> SUFFICES D = {}
  OBVIOUS
<1>1. ASSUME D # {} PROVE FALSE
  <2>1. PICK k \in D : \A j \in D : k <= j
    BY <1>1, LeastNat
  <2>2. CASE k = 0
    <3> DEFINE m == [b \in 0 .. 0 |-> Doubled(T)]
    <3>1. m = [b \in 0 .. 0 |-> IF b = 0 THEN Doubled(T) ELSE MoveChain(m[b - 1], Chain(T, b - 1))]
      OBVIOUS
    <3>2. TableLoop(T, m, 0)
      BY <3>1 DEF TableLoop
    <3>3. QED
      BY <2>1, <2>2, <3>2
  <2>3. CASE k # 0
    <3>1. k - 1 \in Nat /\ k - 1 \notin D
      BY <2>1, <2>3
    <3>2. PICK m : TableLoop(T, m, k - 1)
      BY <3>1
    <3> DEFINE v == [b \in 0 .. k |-> IF b = 0 THEN Doubled(T) ELSE MoveChain(m[b - 1], Chain(T, b - 1))]
    <3>3. \A b \in 0 .. k - 1 : v[b] = m[b]
      BY <2>1, <3>2 DEF TableLoop
    <3>4. \A b \in 0 .. k : b # 0 => v[b - 1] = m[b - 1]
      <4>1. \A b \in 0 .. k : b # 0 => b - 1 \in 0 .. k - 1
        BY <2>1
      <4> HIDE DEF v
      <4>2. QED
        BY <3>3, <4>1
    <3>5. v = [b \in 0 .. k |-> IF b = 0 THEN Doubled(T) ELSE MoveChain(v[b - 1], Chain(T, b - 1))]
      BY <3>4
    <3>6. TableLoop(T, v, k)
      BY <3>5 DEF TableLoop
    <3>7. QED
      BY <2>1, <3>6
  <2>4. QED
    BY <2>2, <2>3
<1>2. QED
  BY <1>1

\* The entries at the first k places of s.
FirstOf(s, k) == {x \in Entries : \E i \in 1 .. k : s[i] = x}

\* The inner loop moves every entry of a chain.
LEMMA MoveChainOK ==
  ASSUME NEW R, NEW T, NEW S, Moved(R, T, S), T.ideal_chain_maxlen >= 1,
         NEW s \in Seq(Entries), \A i, j \in 1 .. Len(s) : s[i] = s[j] => i = j,
         \A i \in 1 .. Len(s) : s[i] \notin S
  PROVE  Moved(MoveChain(R, s), T, S \cup FirstOf(s, Len(s)))
<1> DEFINE n == Len(s)
           m == CHOOSE m : ChainLoop(R, s, m, n)
           D == {i \in 0 .. n : ~Moved(m[i], T, S \cup FirstOf(s, i))}
<1>1. n \in Nat /\ \A i \in 1 .. n : s[i] \in Entries
  OBVIOUS
<1>2. ChainLoop(R, s, m, n)
  BY <1>1, ChainLoopExists
<1>3. MoveChain(R, s) = m[n]
  BY DEF MoveChain, ChainLoop
<1> HIDE DEF m, n
<1>4. m[0] = R /\ \A i \in 1 .. n : m[i] = Move(m[i - 1], s[i])
  BY <1>1, <1>2 DEF ChainLoop
<1>5. ASSUME D # {} PROVE FALSE
  <2>1. D \in SUBSET Nat
    BY <1>1
  <2>2. PICK k \in D : \A j \in D : k <= j
    BY <1>5, <2>1, LeastNat
  <2>3. ~Moved(m[k], T, S \cup FirstOf(s, k)) /\ k \in 0 .. n
    BY <2>2
  <2>4. CASE k = 0
    <3>1. S \cup FirstOf(s, 0) = S
      BY DEF FirstOf
    <3>2. QED
      BY <1>4, <2>3, <2>4, <3>1
  <2>5. CASE k # 0
    <3>1. k \in 1 .. n /\ k - 1 \in 0 .. n /\ k - 1 \notin D
      <4>1. k \in 1 .. n /\ k - 1 \in 0 .. n /\ ~(k <= k - 1)
        BY <1>1, <2>3, <2>5
      <4> HIDE DEF D
      <4>2. QED
        BY <2>2, <4>1
    <3>2. Moved(m[k - 1], T, S \cup FirstOf(s, k - 1))
      BY <3>1
    <3>3. m[k - 1].ideal_chain_maxlen >= 1
      BY <3>2 DEF Moved, OthersSame
    <3>4. \A i \in 1 .. k - 1 : i \in 1 .. n /\ i # k
      BY <1>1, <3>1
    <3>5. s[k] \in Entries /\ s[k] \notin S \cup FirstOf(s, k - 1)
      BY <1>1, <3>1, <3>4 DEF FirstOf, n
    <3>6. Moved(Move(m[k - 1], s[k]), T, (S \cup FirstOf(s, k - 1)) \cup {s[k]})
      BY <3>2, <3>3, <3>5, MoveOK
    <3>7. (S \cup FirstOf(s, k - 1)) \cup {s[k]} = S \cup FirstOf(s, k)
      <4>1. \A i \in 1 .. k : i = k \/ i \in 1 .. k - 1
        BY <1>1, <3>1
      <4>2. k \in 1 .. k /\ \A i \in 1 .. k - 1 : i \in 1 .. k
        BY <1>1, <3>1
      <4>3. FirstOf(s, k) = FirstOf(s, k - 1) \cup {s[k]}
        BY <3>5, <4>1, <4>2 DEF FirstOf
      <4>4. QED
        BY <4>3
    <3>8. QED
      BY <1>4, <2>3, <3>1, <3>6, <3>7
  <2>6. QED
    BY <2>4, <2>5
<1>6. n \in 0 .. n
  BY <1>1
<1>7. Moved(m[n], T, S \cup FirstOf(s, n))
  BY <1>5, <1>6
<1>8. QED
  BY <1>3, <1>7 DEF n

\* The doubled table has no entry in its buckets, and an ideal length of at least 1.
LEMMA DoubledOK ==
  ASSUME NEW T, IsTable(T), T.num_items >= 1
  PROVE  LET R == Doubled(T)
         IN /\ Moved(R, R, {}) /\ R.ideal_chain_maxlen >= 1
            /\ R.head = T.head /\ R.tail = T.tail /\ R.num_items = T.num_items
            /\ R.prev = T.prev /\ R.next = T.next
            /\ R.noexpand = T.noexpand /\ R.ineff_expands = T.ineff_expands
<1> DEFINE n == 2 * T.num_buckets
           ideal == T.num_items \div n + IF T.num_items % n # 0 THEN 1 ELSE 0
           B == EmptyBuckets(n)
           R == Doubled(T)
<1>1. T \in Tables /\ T.num_buckets \in Nat \ {0} /\ T.num_items \in Nat
  BY TableTypes DEF IsTable
<1>2. n \in Nat \ {0}
  BY <1>1
<1>3. ideal \in Nat /\ ideal >= 1
  <2> DEFINE x == T.num_items
  <2>1. x \in Nat /\ x >= 1
    BY <1>1
  <2> HIDE DEF x, n
  <2>2. x \div n \in Nat
    BY <1>2, <2>1
  <2>3. x % n = 0 => x \div n # 0
    BY <1>2, <2>1
  <2>4. QED
    BY <2>2, <2>3 DEF x
<1>4. R = [T EXCEPT !.num_buckets = n, !.buckets = B, !.nonideal_items = 0, !.ideal_chain_maxlen = ideal]
  BY DEF Doubled
<1>5. /\ B \in [0 .. n - 1 -> BucketRecords]
      /\ \A b \in 0 .. n - 1 : B[b].hh_head = Null /\ B[b].count = 0 /\ B[b].expand_mult = 0
  BY DEF EmptyBuckets, BucketRecords, Pointers
<1> HIDE DEF n, ideal, B, R
<1>6. B \in UNION {[0 .. k - 1 -> BucketRecords] : k \in Nat}
  BY <1>2, <1>5
<1>7. R.num_buckets = n /\ R.buckets = B /\ R.ideal_chain_maxlen = ideal
  BY <1>1, <1>4 DEF Tables
<1>8. /\ R.head = T.head /\ R.tail = T.tail /\ R.num_items = T.num_items
      /\ R.prev = T.prev /\ R.next = T.next
      /\ R.noexpand = T.noexpand /\ R.ineff_expands = T.ineff_expands
  BY <1>1, <1>4 DEF Tables
<1>9. R \in Tables
  BY <1>1, <1>2, <1>3, <1>4, <1>6 DEF Tables
<1>10. IsTable(R)
  BY <1>5, <1>7, <1>9 DEF IsTable
<1>11. ASSUME NEW b \in 0 .. n - 1
       PROVE  BucketOK(R, {}, b)
  <2>1. R.buckets[b].hh_head = Null /\ R.buckets[b].count = 0
    BY <1>5, <1>7
  <2>2. IsList(R.hh_next, R.hh_prev, R.buckets[b].hh_head, <<>>)
    BY <2>1, ListEmpty
  <2>3. Chain(R, b) = <<>>
    BY <2>2, WalkIs DEF Chain
  <2>4. QED
    BY <2>1, <2>2, <2>3 DEF BucketOK
<1>12. BucketsOK(R, {})
  BY <1>7, <1>11 DEF BucketsOK
<1>13. \A b \in 0 .. R.num_buckets - 1 : Shared(R.buckets[b], R.ideal_chain_maxlen)
  BY <1>3, <1>5, <1>7 DEF Shared
<1>14. Moved(R, R, {})
  BY <1>10, <1>12, <1>13 DEF Moved, OthersSame
<1>15. QED
  BY <1>3, <1>7, <1>8, <1>14 DEF R

\* Whoever is in the buckets is in those of the doubled table after the outer loop.
LEMMA RedistributeOK ==
  ASSUME NEW T, NEW S \in SUBSET Entries, IsTable(T), BucketsOK(T, S), T.num_items >= 1
  PROVE  Moved(Redistribute(T), Doubled(T), S)
<1> DEFINE n == T.num_buckets
           m == CHOOSE m : TableLoop(T, m, n)
           In(b) == {e \in S : BucketOf(Key(e), n) < b}
           D == {b \in 0 .. n : ~Moved(m[b], Doubled(T), In(b))}
<1>1. n \in Nat \ {0} /\ \A e \in S : e \in Entries /\ BucketOf(Key(e), n) \in 0 .. n - 1
  BY TableTypes, BucketInRange
<1>2. TableLoop(T, m, n)
  BY <1>1, TableLoopExists
<1>3. Redistribute(T) = m[n]
  BY DEF Redistribute, TableLoop
<1> HIDE DEF m
<1>4. m[0] = Doubled(T) /\ \A b \in 1 .. n : m[b] = MoveChain(m[b - 1], Chain(T, b - 1))
  BY <1>1, <1>2 DEF TableLoop
<1>5. Moved(Doubled(T), Doubled(T), {}) /\ Doubled(T).ideal_chain_maxlen >= 1
  BY DoubledOK
<1>6. ASSUME D # {} PROVE FALSE
  <2>1. D \in SUBSET Nat
    BY <1>1
  <2>2. PICK k \in D : \A j \in D : k <= j
    BY <1>6, <2>1, LeastNat
  <2>3. ~Moved(m[k], Doubled(T), In(k)) /\ k \in 0 .. n
    BY <2>2
  <2>4. CASE k = 0
    <3>1. In(0) = {}
      BY <1>1
    <3>2. QED
      BY <1>4, <1>5, <2>3, <2>4, <3>1
  <2>5. CASE k # 0
    <3>1. k \in 1 .. n /\ k - 1 \in 0 .. n /\ k - 1 \notin D /\ k - 1 \in 0 .. n - 1
      <4>1. k \in 1 .. n /\ k - 1 \in 0 .. n /\ ~(k <= k - 1) /\ k - 1 \in 0 .. n - 1
        BY <1>1, <2>3, <2>5
      <4> HIDE DEF D
      <4>2. QED
        BY <2>2, <4>1
    <3>2. Moved(m[k - 1], Doubled(T), In(k - 1))
      BY <3>1
    <3> DEFINE s == Chain(T, k - 1)
    <3>3. BucketOK(T, S, k - 1)
      BY <3>1 DEF BucketsOK
    <3>4. s \in Seq(Entries) /\ \A i, j \in 1 .. Len(s) : s[i] = s[j] => i = j
      BY <3>3 DEF BucketOK, IsList
    <3>5. \A e \in Entries : (\E i \in 1 .. Len(s) : s[i] = e) <=> e \in S /\ e \in Homes(T, k - 1)
      BY <3>3 DEF BucketOK
    <3> HIDE DEF s
    <3>6. \A e \in Entries : e \in Homes(T, k - 1) <=> BucketOf(Key(e), n) = k - 1
      BY DEF Homes
    <3>7. \A i \in 1 .. Len(s) : s[i] \notin In(k - 1)
      <4>1. \A i \in 1 .. Len(s) : s[i] \in Entries
        BY <3>4
      <4>2. \A i \in 1 .. Len(s) : BucketOf(Key(s[i]), n) = k - 1
        BY <3>5, <3>6, <4>1
      <4>3. ~(k - 1 < k - 1)
        BY <3>1
      <4>4. QED
        BY <4>2, <4>3
    <3>8. Moved(MoveChain(m[k - 1], s), Doubled(T), In(k - 1) \cup FirstOf(s, Len(s)))
      BY <1>5, <3>2, <3>4, <3>7, MoveChainOK
    <3>9. In(k - 1) \cup FirstOf(s, Len(s)) = In(k)
      <4>1. \A e \in S : BucketOf(Key(e), n) < k <=> BucketOf(Key(e), n) < k - 1 \/ BucketOf(Key(e), n) = k - 1
        BY <1>1, <3>1
      <4>2. \A e \in Entries : e \in FirstOf(s, Len(s)) <=> e \in S /\ BucketOf(Key(e), n) = k - 1
        BY <3>5, <3>6 DEF FirstOf
      <4>3. FirstOf(s, Len(s)) \subseteq Entries
        BY DEF FirstOf
      <4>4. QED
        BY <1>1, <4>1, <4>2, <4>3
    <3>10. QED
      BY <1>4, <2>3, <3>1, <3>8, <3>9 DEF s
  <2>6. QED
    BY <2>4, <2>5
<1>7. Moved(m[n], Doubled(T), In(n))
  <2>1. n \in 0 .. n
    BY <1>1
  <2>2. QED
    BY <1>6, <2>1
<1>8. In(n) = S
  BY <1>1
<1>9. QED
  BY <1>3, <1>7, <1>8

\* The list of all entries is told by its links and its ends.
LEMMA OrderKept ==
  ASSUME NEW T, NEW R, NEW S, OrderOK(T, S),
         R.next = T.next, R.prev = T.prev, R.head = T.head, R.tail = T.tail
  PROVE  OrderOK(R, S) /\ Order(R) = Order(T)
BY DEF OrderOK, Order

\* An expansion leaves a sound table a sound one, with chains that are short.
LEMMA ExpandOK ==
  ASSUME NEW T, NEW S \in SUBSET Entries, IsTable(T), BucketsOK(T, S), OrderOK(T, S),
         T.num_items = Len(Order(T))
  PROVE  TableOK(Expand(T), S)
<1> DEFINE Q == Redistribute(T)
           R == Expand(T)
           ineff == IF Q.nonideal_items > T.num_items \div 2 THEN T.ineff_expands + 1 ELSE 0
           stop == Q.noexpand \/ ineff > 1
<1>1. T.num_items >= 1 /\ T.ineff_expands \in Nat
  <2>1. Order(T) \in Seq(Entries) /\ Len(Order(T)) > 0
    BY DEF OrderOK, IsList
  <2>2. QED
    BY <2>1, TableTypes
<1>2. /\ Moved(Q, Doubled(T), S) /\ Doubled(T).ideal_chain_maxlen >= 1
      /\ Doubled(T).head = T.head /\ Doubled(T).tail = T.tail /\ Doubled(T).num_items = T.num_items
      /\ Doubled(T).prev = T.prev /\ Doubled(T).next = T.next
  BY <1>1, RedistributeOK, DoubledOK
<1>3. /\ IsTable(Q) /\ BucketsOK(Q, S) /\ Q.ideal_chain_maxlen >= 1
      /\ Q.head = T.head /\ Q.tail = T.tail /\ Q.num_items = T.num_items
      /\ Q.prev = T.prev /\ Q.next = T.next
      /\ \A b \in 0 .. Q.num_buckets - 1 : Shared(Q.buckets[b], Q.ideal_chain_maxlen)
  BY <1>2 DEF Moved, OthersSame
<1>4. Q \in Tables /\ ineff \in Nat /\ stop \in BOOLEAN
  BY <1>1, <1>3 DEF IsTable
<1>5. R = [Q EXCEPT !.ineff_expands = ineff, !.noexpand = stop]
  BY <1>4 DEF Expand, Tables
<1> HIDE DEF Q, ineff, stop, R
<1>6. R \in Tables
  BY <1>4, <1>5 DEF Tables
<1>7. /\ R.head = Q.head /\ R.tail = Q.tail /\ R.num_items = Q.num_items
      /\ R.prev = Q.prev /\ R.next = Q.next /\ R.buckets = Q.buckets /\ R.num_buckets = Q.num_buckets
      /\ R.hh_next = Q.hh_next /\ R.hh_prev = Q.hh_prev /\ R.ideal_chain_maxlen = Q.ideal_chain_maxlen
  BY <1>4, <1>5 DEF Tables
<1>8. IsTable(R)
  BY <1>3, <1>6, <1>7 DEF IsTable
<1>9. BucketsOK(R, S)
  BY <1>3, <1>7, BucketsKept
<1>10. OrderOK(R, S) /\ Order(R) = Order(T)
  BY <1>3, <1>7, OrderKept
<1>11. ShortChains(R)
  <2>1. ASSUME NEW b \in 0 .. R.num_buckets - 1
        PROVE  Short(R.buckets[b], R.ideal_chain_maxlen)
    BY <1>3, <1>7, TableTypes, SharedIsShort
  <2>2. QED
    BY <2>1 DEF ShortChains
<1>12. TableOK(R, S)
  BY <1>3, <1>7, <1>8, <1>9, <1>10, <1>11 DEF TableOK
<1>13. QED
  BY <1>12 DEF R

--------------------------------------------------------------------------------
(* HASH_ADD_STR and HASH_DEL                                                *)

\* A new table is sound but for the first entry, which is in no bucket yet.
LEMMA MakeTableOK ==
  ASSUME NEW e \in Entries
  PROVE  LET R == MakeTable(e)
         IN /\ IsTable(R) /\ BucketsOK(R, {}) /\ OrderOK(R, {e}) /\ ShortChains(R)
            /\ R.num_items + 1 = Len(Order(R))
<1> DEFINE R == MakeTable(e)
           B == EmptyBuckets(InitialBuckets)
<1>1. InitialBuckets \in Nat \ {0} /\ Threshold \in Nat \ {0} /\ e \in Pointers /\ Null \in Pointers
  BY HashAssumption DEF Pointers
<1>2. /\ B \in [0 .. InitialBuckets - 1 -> BucketRecords]
      /\ \A b \in 0 .. InitialBuckets - 1 : B[b].hh_head = Null /\ B[b].count = 0 /\ B[b].expand_mult = 0
  BY <1>1 DEF EmptyBuckets, BucketRecords
<1>3. NoLinks \in Links /\ \A x \in Entries : NoLinks[x] = Null
  BY <1>1 DEF NoLinks, Links
<1>4. /\ R.head = e /\ R.tail = e /\ R.num_items = 0 /\ R.num_buckets = InitialBuckets
      /\ R.buckets = B /\ R.ideal_chain_maxlen = 0 /\ R.noexpand = FALSE
      /\ R.prev = NoLinks /\ R.next = NoLinks /\ R.hh_prev = NoLinks /\ R.hh_next = NoLinks
  BY DEF MakeTable
<1>5. IsTable(R)
  <2> HIDE DEF B
  <2>1. B \in UNION {[0 .. n - 1 -> BucketRecords] : n \in Nat}
    BY <1>1, <1>2
  <2>2. R \in Tables
    BY <1>1, <1>3, <2>1 DEF MakeTable, Tables, B
  <2>3. QED
    BY <1>2, <1>4, <2>2 DEF IsTable
<1> HIDE DEF R, B
<1>6. ASSUME NEW b \in 0 .. R.num_buckets - 1
      PROVE  BucketOK(R, {}, b)
  <2>1. R.buckets[b].hh_head = Null /\ R.buckets[b].count = 0
    BY <1>2, <1>4
  <2>2. IsList(R.hh_next, R.hh_prev, R.buckets[b].hh_head, <<>>)
    BY <2>1, ListEmpty
  <2>3. Chain(R, b) = <<>>
    BY <2>2, WalkIs DEF Chain
  <2>4. QED
    BY <2>1, <2>2, <2>3 DEF BucketOK
<1>7. OrderOK(R, {e}) /\ Len(Order(R)) = 1
  <2> DEFINE s == <<e>>
  <2>1. s \in Seq(Entries) /\ Len(s) = 1 /\ s[1] = e
    OBVIOUS
  <2> HIDE DEF s
  <2>2. \A i \in 1 .. Len(s) : i = 1
    BY <2>1
  <2>3. IsList(R.next, R.prev, R.head, s)
    BY <1>3, <1>4, <2>1, <2>2 DEF IsList
  <2>4. Order(R) = s
    BY <2>3, WalkIs DEF Order
  <2>5. \A x \in Entries : (\E i \in 1 .. Len(s) : s[i] = x) <=> x \in {e}
    BY <2>1, <2>2
  <2>6. QED
    <3>1. R.tail = s[Len(s)] /\ Len(s) > 0
      BY <1>4, <2>1
    <3>2. QED
      BY <2>1, <2>3, <2>4, <2>5, <3>1 DEF OrderOK
<1>8. ShortChains(R)
  <2>1. 0 < (0 + 1) * Threshold
    BY <1>1
  <2>2. QED
    BY <1>2, <1>4, <2>1 DEF ShortChains, Short
<1>9. BucketsOK(R, {})
  BY <1>6 DEF BucketsOK
<1>10. QED
  BY <1>4, <1>5, <1>7, <1>8, <1>9 DEF R

\* An entry that is in no list is appended to the one of all entries.
LEMMA AppendListOK ==
  ASSUME NEW T, NEW S, TableOK(T, S), NEW e \in Entries, e \notin S
  PROVE  LET R == AppendList(T, e)
         IN /\ IsTable(R) /\ BucketsOK(R, S) /\ OrderOK(R, S \cup {e}) /\ ShortChains(R)
            /\ R.num_items + 1 = Len(Order(R))
<1> DEFINE R == AppendList(T, e)
           s == Order(T)
           last == s[Len(s)]
           nxt2 == [T.next EXCEPT ![e] = Null, ![T.tail] = e]
           prv2 == [T.prev EXCEPT ![e] = T.tail]
<1>1. /\ T \in Tables /\ T.next \in Links /\ T.prev \in Links /\ T.tail \in Pointers
      /\ T.num_items = Len(s)
  BY TableTypes DEF TableOK, IsTable
<1>2. /\ IsList(T.next, T.prev, T.head, s) /\ Len(s) > 0 /\ T.tail = last
      /\ \A x \in Entries : (\E i \in 1 .. Len(s) : s[i] = x) <=> x \in S
  BY DEF TableOK, OrderOK
<1>3. s \in Seq(Entries) /\ Len(s) \in Nat /\ \A i \in 1 .. Len(s) : s[i] \in Entries
  BY <1>2 DEF IsList
<1>4. \A i \in 1 .. Len(s) : s[i] # e
  BY <1>2
<1>5. Len(s) \in 1 .. Len(s) /\ last \in Entries /\ last # e
  BY <1>2, <1>3, <1>4
<1> HIDE DEF s, last
<1>6. /\ nxt2 \in Links /\ nxt2[e] = Null /\ nxt2[last] = e
      /\ \A x \in Entries : x # e /\ x # last => nxt2[x] = T.next[x]
  <2> DEFINE f == [T.next EXCEPT ![e] = Null]
  <2>1. f \in Links /\ f[e] = Null /\ \A x \in Entries : x # e => f[x] = T.next[x]
    BY <1>1 DEF Links, Pointers
  <2>2. nxt2 = [f EXCEPT ![last] = e]
    BY <1>2
  <2> HIDE DEF f, nxt2
  <2>3. QED
    BY <1>5, <2>1, <2>2 DEF Links, Pointers
<1>7. prv2 \in Links /\ prv2[e] = last /\ \A x \in Entries : x # e => prv2[x] = T.prev[x]
  BY <1>1, <1>2 DEF Links
<1>8. R = [T EXCEPT !.next = nxt2, !.prev = prv2, !.tail = e]
  <2>1. R = [T EXCEPT !.next = [@ EXCEPT ![e] = Null, ![T.tail] = e], !.prev[e] = T.tail, !.tail = e]
    BY DEF AppendList
  <2> HIDE DEF R
  <2>2. QED
    BY <1>1, <2>1 DEF Tables
<1> HIDE DEF nxt2, prv2, R
<1>9. e \in Pointers
  BY DEF Pointers
<1>10. R \in Tables
  BY <1>1, <1>6, <1>7, <1>8, <1>9 DEF Tables
<1>11. /\ R.next = nxt2 /\ R.prev = prv2 /\ R.tail = e /\ R.head = T.head
       /\ R.num_items = T.num_items /\ R.buckets = T.buckets /\ R.num_buckets = T.num_buckets
       /\ R.hh_next = T.hh_next /\ R.hh_prev = T.hh_prev
       /\ R.ideal_chain_maxlen = T.ideal_chain_maxlen /\ R.noexpand = T.noexpand
  BY <1>1, <1>8 DEF Tables
<1>12. IsTable(R)
  BY <1>10, <1>11 DEF TableOK, IsTable
<1>13. BucketsOK(R, S)
  BY <1>11, BucketsKept DEF TableOK
<1>14. ShortChains(R)
  BY <1>11 DEF TableOK, ShortChains
<1> DEFINE r == Append(s, e)
<1>15. IsList(nxt2, prv2, T.head, r)
  <2>1. last = s[Len(s)]
    BY DEF last
  <2>2. /\ nxt2[e] = Null /\ nxt2[s[Len(s)]] = e /\ prv2[e] = s[Len(s)]
        /\ \A x \in Entries : x # e /\ x # s[Len(s)] => nxt2[x] = T.next[x]
        /\ \A x \in Entries : x # e => prv2[x] = T.prev[x]
    BY <1>6, <1>7, <2>1
  <2> DEFINE nxt == T.next
             prv == T.prev
             first == T.head
  <2>3. IsList(nxt, prv, first, s) /\ Len(s) > 0
    BY <1>2
  <2>4. /\ \A x \in Entries : x # e /\ x # s[Len(s)] => nxt2[x] = nxt[x]
        /\ \A x \in Entries : x # e => prv2[x] = prv[x]
    BY <2>2
  <2> HIDE DEF nxt, prv, first
  <2>5. IsList(nxt2, prv2, first, r)
    BY <1>4, <2>2, <2>3, <2>4, ListAppend
  <2>6. QED
    BY <2>5 DEF first
<1>16. /\ r \in Seq(Entries) /\ Len(r) = Len(s) + 1 /\ r[Len(s) + 1] = e
       /\ \A i \in 1 .. Len(s) : r[i] = s[i]
  BY <1>3, AppendElements
<1> HIDE DEF r
<1>17. Order(R) = r
  <2>1. Walk(nxt2, T.head) = r
    BY <1>15, WalkIs
  <2>2. QED
    BY <1>11, <2>1 DEF Order
<1>18. \A x \in Entries : (\E i \in 1 .. Len(r) : r[i] = x) <=> x \in S \cup {e}
  <2>1. \A i \in 1 .. Len(r) : i = Len(s) + 1 \/ i \in 1 .. Len(s)
    BY <1>3, <1>16
  <2>2. Len(s) + 1 \in 1 .. Len(r) /\ \A i \in 1 .. Len(s) : i \in 1 .. Len(r)
    BY <1>3, <1>16
  <2>3. QED
    BY <1>2, <1>16, <2>1, <2>2
<1>19. OrderOK(R, S \cup {e})
  BY <1>3, <1>11, <1>15, <1>16, <1>17, <1>18 DEF OrderOK
<1>20. QED
  BY <1>1, <1>11, <1>12, <1>13, <1>14, <1>16, <1>17, <1>19 DEF R

\* Adding an entry that is not there gives a sound table with it.
LEMMA AddOK ==
  ASSUME NEW T, NEW S \in SUBSET Entries, (T = NoTable /\ S = {}) \/ TableOK(T, S),
         NEW e \in Entries, e \notin S
  PROVE  TableOK(Add(T, e), S \cup {e})
<1> DEFINE L == IF T.head = Null THEN MakeTable(e) ELSE AppendList(T, e)
           N == [L EXCEPT !.num_items = @ + 1]
           b == BucketOf(Key(e), L.num_buckets)
           P == Push(N, b, e)
           U == S \cup {e}
<1>1. /\ IsTable(L) /\ BucketsOK(L, S) /\ OrderOK(L, U) /\ ShortChains(L)
      /\ L.num_items + 1 = Len(Order(L))
  <2>1. CASE T = NoTable /\ S = {}
    <3>1. L = MakeTable(e) /\ U = {e}
      BY <2>1 DEF NoTable
    <3>2. QED
      BY <2>1, <3>1, MakeTableOK
  <2>2. CASE TableOK(T, S)
    <3>1. T.head # Null
      <4>1. OrderOK(T, S)
        BY <2>2 DEF TableOK
      <4>2. Order(T) \in Seq(Entries) /\ T.head = Order(T)[1] /\ Len(Order(T)) > 0
        BY <4>1 DEF OrderOK, IsList
      <4>3. T.head \in Entries
        BY <4>2
      <4>4. QED
        BY <4>3, EntryFacts
    <3>2. QED
      BY <2>2, <3>1, AppendListOK
  <2>3. QED
    BY <2>1, <2>2
<1>2. Add(T, e) = IF IsFull(P.buckets[b]) /\ ~P.noexpand THEN Expand(P) ELSE P
  BY DEF Add
<1> HIDE DEF L
<1>3. L \in Tables /\ L.num_items \in Nat
  BY <1>1, TableTypes DEF IsTable
<1>4. N \in Tables /\ N.num_items = L.num_items + 1
  BY <1>3 DEF Tables
<1>5. /\ N.head = L.head /\ N.tail = L.tail /\ N.next = L.next /\ N.prev = L.prev
      /\ N.buckets = L.buckets /\ N.num_buckets = L.num_buckets
      /\ N.hh_next = L.hh_next /\ N.hh_prev = L.hh_prev
      /\ N.ideal_chain_maxlen = L.ideal_chain_maxlen /\ N.noexpand = L.noexpand
  BY <1>3 DEF Tables
<1> HIDE DEF N
<1>6. IsTable(N)
  BY <1>1, <1>4, <1>5 DEF IsTable
<1>7. BucketsOK(N, S)
  BY <1>1, <1>5, BucketsKept
<1>8. OrderOK(N, U) /\ Order(N) = Order(L)
  BY <1>1, <1>5, OrderKept
<1>9. /\ b \in 0 .. N.num_buckets - 1 /\ N.buckets[b].hh_head # e
      /\ BucketsOK(P, U)
  BY <1>5, <1>6, <1>7, PushBuckets
<1>10. /\ IsTable(P) /\ OthersSame(P, N)
       /\ \A c \in 0 .. N.num_buckets - 1 : c # b => P.buckets[c] = N.buckets[c]
  BY <1>6, <1>9, PushFields
<1> HIDE DEF b, P, U
<1>11. OrderOK(P, U) /\ Order(P) = Order(N)
  BY <1>8, <1>10, OrderKept DEF OthersSame
<1>12. P.num_items = Len(Order(P))
  BY <1>1, <1>4, <1>8, <1>10, <1>11 DEF OthersSame
<1>13. U \in SUBSET Entries
  BY DEF U
<1>14. CASE IsFull(P.buckets[b]) /\ ~P.noexpand
  <2>1. TableOK(Expand(P), U)
    BY <1>9, <1>10, <1>11, <1>12, <1>13, ExpandOK
  <2>2. QED
    BY <1>2, <1>14, <2>1 DEF U
<1>15. CASE ~(IsFull(P.buckets[b]) /\ ~P.noexpand)
  <2>1. /\ P.num_buckets = N.num_buckets /\ P.ideal_chain_maxlen = N.ideal_chain_maxlen
        /\ P.noexpand = N.noexpand
    BY <1>10 DEF OthersSame
  <2>2. ASSUME ~P.noexpand, NEW c \in 0 .. P.num_buckets - 1
        PROVE  Short(P.buckets[c], P.ideal_chain_maxlen)
    <3>1. CASE c = b
      <4>1. ~IsFull(P.buckets[c])
        BY <1>15, <2>2, <3>1
      <4>2. P.buckets[c].count \in Nat /\ P.buckets[c].expand_mult \in Nat /\ Threshold \in Nat
        BY <1>10, TableTypes, HashAssumption
      <4>3. (P.buckets[c].expand_mult + 1) * Threshold \in Nat
        BY <4>2
      <4>4. P.buckets[c].count < (P.buckets[c].expand_mult + 1) * Threshold
        BY <4>1, <4>2, <4>3 DEF IsFull
      <4>5. QED
        BY <4>4 DEF Short
    <3>2. CASE c # b
      <4>1. Short(L.buckets[c], L.ideal_chain_maxlen)
        BY <1>1, <1>5, <2>1, <2>2 DEF ShortChains
      <4>2. QED
        BY <1>5, <1>10, <2>1, <3>2, <4>1
    <3>3. QED
      BY <3>1, <3>2
  <2>3. ShortChains(P)
    BY <2>2 DEF ShortChains
  <2>4. TableOK(P, U)
    BY <1>9, <1>10, <1>11, <1>12, <2>3 DEF TableOK
  <2>5. QED
    BY <1>2, <1>15, <2>4 DEF U
<1>16. QED
  BY <1>14, <1>15

\* A link of one entry and then that of the freed one are set.
LEMMA PatchOut ==
  ASSUME NEW f \in Links, NEW e \in Entries, NEW p \in Pointers, NEW to \in Pointers, p # e
  PROVE  LET g == [Patch(f, p, to) EXCEPT ![e] = Null]
         IN /\ g \in Links
            /\ p # Null => g[p] = to
            /\ \A x \in Entries : x # e /\ x # p => g[x] = f[x]
<1> DEFINE q == Patch(f, p, to)
<1>1. /\ q \in Links
      /\ p # Null => q[p] = to
      /\ \A x \in Entries : x # p => q[x] = f[x]
  <2>1. CASE p = Null
    BY <2>1 DEF Patch
  <2>2. CASE p # Null
    <3>1. q = [f EXCEPT ![p] = to] /\ p \in Entries
      BY <2>2 DEF Patch, Pointers
    <3> HIDE DEF q
    <3>2. QED
      BY <3>1 DEF Links
  <2>3. QED
    BY <2>1, <2>2
<1> HIDE DEF q
<1>2. p # Null => p \in Entries
  BY DEF Pointers
<1>3. Null \in Pointers
  BY DEF Pointers
<1> DEFINE g == [q EXCEPT ![e] = Null]
<1>4. g \in Links /\ \A x \in Entries : x # e => g[x] = q[x]
  BY <1>1, <1>3 DEF Links
<1> HIDE DEF g
<1>5. /\ g \in Links
      /\ p # Null => g[p] = to
      /\ \A x \in Entries : x # e /\ x # p => g[x] = f[x]
  BY <1>1, <1>2, <1>4
<1>6. QED
  BY <1>5 DEF g, q

\* The neighbours of an entry of a list are entries of the list, or NULL, and not
\* the entry itself.
LEMMA Neighbours ==
  ASSUME NEW nxt, NEW prv, NEW first, NEW s, IsList(nxt, prv, first, s), NEW k \in 1 .. Len(s)
  PROVE  /\ nxt[s[k]] = Null <=> k = Len(s)
         /\ prv[s[k]] = Null <=> k = 1
         /\ first = s[k] <=> k = 1
         /\ first = s[1]
         /\ nxt[s[k]] # Null => \E i \in 1 .. Len(s) : i # k /\ nxt[s[k]] = s[i]
         /\ prv[s[k]] # Null => \E i \in 1 .. Len(s) : i # k /\ prv[s[k]] = s[i]
         /\ k # 1 => prv[s[k]] = s[k - 1]
         /\ k # Len(s) => nxt[s[k]] = s[k + 1]
<1>1. /\ Len(s) \in Nat /\ \A i \in 1 .. Len(s) : s[i] \in Entries /\ s[i] # Null
      /\ \A i, j \in 1 .. Len(s) : s[i] = s[j] => i = j
  BY EntryFacts DEF IsList
<1>2. k # Len(s) => k + 1 \in 1 .. Len(s) /\ k + 1 # k
  BY <1>1
<1>3. k # 1 => k - 1 \in 1 .. Len(s) /\ k - 1 # k
  BY <1>1
<1>4. nxt[s[k]] = IF k = Len(s) THEN Null ELSE s[k + 1]
  BY DEF IsList
<1>5. prv[s[k]] = IF k = 1 THEN Null ELSE s[k - 1]
  BY DEF IsList
<1>6. 1 \in 1 .. Len(s) /\ first = s[1]
  BY <1>1 DEF IsList
<1>7. first = s[k] <=> k = 1
  BY <1>1, <1>6
<1>8. nxt[s[k]] = Null <=> k = Len(s)
  BY <1>1, <1>2, <1>4
<1>9. prv[s[k]] = Null <=> k = 1
  BY <1>1, <1>3, <1>5
<1>10. QED
  BY <1>2, <1>3, <1>4, <1>5, <1>6, <1>7, <1>8, <1>9

\* What is in a list without its k-th entry.
LEMMA WithoutHolds ==
  ASSUME NEW s \in Seq(Entries), \A i, j \in 1 .. Len(s) : s[i] = s[j] => i = j,
         NEW k \in 1 .. Len(s), NEW x
  PROVE  (\E i \in 1 .. Len(Without(s, k)) : Without(s, k)[i] = x) <=> x # s[k] /\ \E i \in 1 .. Len(s) : s[i] = x
<1> DEFINE r == Without(s, k)
           n == Len(s)
<1>1. /\ Len(r) = n - 1 /\ n \in Nat
      /\ \A i \in 1 .. n - 1 : i < k => r[i] = s[i]
      /\ \A i \in 1 .. n - 1 : k <= i => r[i] = s[i + 1]
  BY WithoutElements
<1> HIDE DEF r
<1>2. ASSUME NEW i \in 1 .. Len(r), r[i] = x
      PROVE  x # s[k] /\ \E j \in 1 .. n : s[j] = x
  <2>1. CASE i < k
    <3>1. i \in 1 .. n /\ i # k /\ s[i] = x
      BY <1>1, <1>2, <2>1
    <3>2. QED
      BY <3>1
  <2>2. CASE k <= i
    <3>1. i + 1 \in 1 .. n /\ i + 1 # k /\ s[i + 1] = x
      BY <1>1, <1>2, <2>2
    <3>2. QED
      BY <3>1
  <2>3. QED
    BY <1>1, <2>1, <2>2
<1>3. ASSUME x # s[k], NEW j \in 1 .. n, s[j] = x
      PROVE  \E i \in 1 .. Len(r) : r[i] = x
  <2>1. CASE j < k
    <3>1. j \in 1 .. n - 1 /\ r[j] = x
      BY <1>1, <1>3, <2>1
    <3>2. QED
      BY <1>1, <3>1
  <2>2. CASE j > k
    <3>1. j - 1 \in 1 .. n - 1 /\ k <= j - 1 /\ j - 1 + 1 = j
      BY <1>1, <2>2
    <3>2. r[j - 1] = x
      BY <1>1, <1>3, <3>1
    <3>3. QED
      BY <1>1, <3>1, <3>2
  <2>3. j # k
    BY <1>3
  <2>4. QED
    BY <1>1, <2>1, <2>2, <2>3
<1>4. QED
  BY <1>2, <1>3 DEF r

\* What Delete does to a table of more than one entry.
LEMMA DeleteFields ==
  ASSUME NEW T, IsTable(T), NEW e \in Entries,
         T.next[e] # e, T.prev[e] # e, T.hh_next[e] # e, T.hh_prev[e] # e,
         T.prev[e] # Null \/ T.next[e] # Null, T.num_items >= 1,
         T.buckets[BucketOf(Key(e), T.num_buckets)].count >= 1
  PROVE  LET R == Delete(T, e)
             b == BucketOf(Key(e), T.num_buckets)
         IN /\ IsTable(R)
            /\ R.tail = IF T.tail = e THEN T.prev[e] ELSE T.tail
            /\ R.head = IF T.prev[e] = Null THEN T.next[e] ELSE T.head
            /\ T.prev[e] # Null => R.next[T.prev[e]] = T.next[e]
            /\ \A x \in Entries : x # e /\ x # T.prev[e] => R.next[x] = T.next[x]
            /\ T.next[e] # Null => R.prev[T.next[e]] = T.prev[e]
            /\ \A x \in Entries : x # e /\ x # T.next[e] => R.prev[x] = T.prev[x]
            /\ T.hh_prev[e] # Null => R.hh_next[T.hh_prev[e]] = T.hh_next[e]
            /\ \A x \in Entries : x # e /\ x # T.hh_prev[e] => R.hh_next[x] = T.hh_next[x]
            /\ T.hh_next[e] # Null => R.hh_prev[T.hh_next[e]] = T.hh_prev[e]
            /\ \A x \in Entries : x # e /\ x # T.hh_next[e] => R.hh_prev[x] = T.hh_prev[x]
            /\ R.num_items = T.num_items - 1 /\ R.num_buckets = T.num_buckets
            /\ R.ideal_chain_maxlen = T.ideal_chain_maxlen /\ R.noexpand = T.noexpand
            /\ R.buckets[b].count = T.buckets[b].count - 1
            /\ R.buckets[b].expand_mult = T.buckets[b].expand_mult
            /\ R.buckets[b].hh_head = IF T.buckets[b].hh_head = e THEN T.hh_next[e] ELSE T.buckets[b].hh_head
            /\ \A c \in 0 .. T.num_buckets - 1 : c # b => R.buckets[c] = T.buckets[c]
<1> DEFINE R == Delete(T, e)
           b == BucketOf(Key(e), T.num_buckets)
           before == T.prev[e]
           after == T.next[e]
           hh_before == T.hh_prev[e]
           hh_after == T.hh_next[e]
           nxt == [Patch(T.next, before, after) EXCEPT ![e] = Null]
           prv == [Patch(T.prev, after, before) EXCEPT ![e] = Null]
           hh_nxt == [Patch(T.hh_next, hh_before, hh_after) EXCEPT ![e] = Null]
           hh_prv == [Patch(T.hh_prev, hh_after, hh_before) EXCEPT ![e] = Null]
           tail == IF T.tail = e THEN before ELSE T.tail
           head == IF before = Null THEN after ELSE T.head
           B == [T.buckets EXCEPT ![b].count = @ - 1, ![b].hh_head = IF @ = e THEN hh_after ELSE @]
           items == T.num_items - 1
<1>1. /\ T \in Tables /\ T.num_buckets \in Nat \ {0} /\ T.num_items \in Nat
      /\ T.head \in Pointers /\ T.tail \in Pointers
      /\ T.prev \in Links /\ T.next \in Links /\ T.hh_prev \in Links /\ T.hh_next \in Links
      /\ T.buckets \in [0 .. T.num_buckets - 1 -> BucketRecords]
  BY TableTypes DEF IsTable
<1>2. before \in Pointers /\ after \in Pointers /\ hh_before \in Pointers /\ hh_after \in Pointers
  BY <1>1 DEF Links
<1>3. /\ nxt \in Links
      /\ before # Null => nxt[before] = after
      /\ \A x \in Entries : x # e /\ x # before => nxt[x] = T.next[x]
  BY <1>1, <1>2, PatchOut
<1>4. /\ prv \in Links
      /\ after # Null => prv[after] = before
      /\ \A x \in Entries : x # e /\ x # after => prv[x] = T.prev[x]
  BY <1>1, <1>2, PatchOut
<1>5. /\ hh_nxt \in Links
      /\ hh_before # Null => hh_nxt[hh_before] = hh_after
      /\ \A x \in Entries : x # e /\ x # hh_before => hh_nxt[x] = T.hh_next[x]
  BY <1>1, <1>2, PatchOut
<1>6. /\ hh_prv \in Links
      /\ hh_after # Null => hh_prv[hh_after] = hh_before
      /\ \A x \in Entries : x # e /\ x # hh_after => hh_prv[x] = T.hh_prev[x]
  BY <1>1, <1>2, PatchOut
<1>7. tail \in Pointers /\ head \in Pointers /\ items \in Nat
  BY <1>1, <1>2
<1>8. b \in 0 .. T.num_buckets - 1 /\ T.buckets[b].count \in Nat /\ T.buckets[b].count >= 1
  BY <1>1, BucketInRange, TableTypes
<1> HIDE DEF b
<1>9. /\ B \in [0 .. T.num_buckets - 1 -> BucketRecords]
      /\ B[b].count = T.buckets[b].count - 1 /\ B[b].expand_mult = T.buckets[b].expand_mult
      /\ B[b].hh_head = IF T.buckets[b].hh_head = e THEN hh_after ELSE T.buckets[b].hh_head
      /\ \A c \in 0 .. T.num_buckets - 1 : c # b => B[c] = T.buckets[c]
  <2> DEFINE count == T.buckets[b].count - 1
             first == IF T.buckets[b].hh_head = e THEN hh_after ELSE T.buckets[b].hh_head
             A == [T.buckets EXCEPT ![b].count = count]
  <2>1. count \in Nat /\ first \in Pointers
    BY <1>1, <1>2, <1>8, TableTypes
  <2>2. /\ A \in [0 .. T.num_buckets - 1 -> BucketRecords]
        /\ A[b].hh_head = T.buckets[b].hh_head /\ A[b].count = count
        /\ A[b].expand_mult = T.buckets[b].expand_mult
        /\ \A c \in 0 .. T.num_buckets - 1 : c # b => A[c] = T.buckets[c]
    <3> HIDE DEF count, first
    <3>1. QED
      BY <1>1, <1>8, <2>1 DEF BucketRecords
  <2>3. B = [A EXCEPT ![b].hh_head = first]
    <3>1. B = [A EXCEPT ![b].hh_head = IF @ = e THEN hh_after ELSE @]
      OBVIOUS
    <3> HIDE DEF A, B
    <3>2. QED
      BY <1>8, <2>2, <3>1
  <2> HIDE DEF A, B, first
  <2>4. /\ B \in [0 .. T.num_buckets - 1 -> BucketRecords]
        /\ B[b].hh_head = first /\ B[b].count = A[b].count
        /\ B[b].expand_mult = A[b].expand_mult
        /\ \A c \in 0 .. T.num_buckets - 1 : c # b => B[c] = A[c]
    BY <1>8, <2>1, <2>2, <2>3 DEF BucketRecords
  <2>5. QED
    BY <2>2, <2>4 DEF first
<1>10. R = [T EXCEPT !.tail = tail, !.head = head, !.next = nxt, !.prev = prv, !.buckets = B,
                     !.hh_next = hh_nxt, !.hh_prev = hh_prv, !.num_items = items]
  <2>1. R = [T EXCEPT
               !.tail = tail, !.head = IF before = Null THEN after ELSE @,
               !.next = [Patch(@, before, after) EXCEPT ![e] = Null],
               !.prev = [Patch(@, after, before) EXCEPT ![e] = Null],
               !.buckets[b].count = @ - 1,
               !.buckets[b].hh_head = IF @ = e THEN hh_after ELSE @,
               !.hh_next = [Patch(@, hh_before, hh_after) EXCEPT ![e] = Null],
               !.hh_prev = [Patch(@, hh_after, hh_before) EXCEPT ![e] = Null],
               !.num_items = @ - 1]
    BY DEF Delete, TailWithout, b
  <2> DEFINE Q == [T EXCEPT
                     !.tail = tail, !.head = IF before = Null THEN after ELSE @,
                     !.next = [Patch(@, before, after) EXCEPT ![e] = Null],
                     !.prev = [Patch(@, after, before) EXCEPT ![e] = Null]]
             O == [Q EXCEPT
                     !.buckets[b].count = @ - 1,
                     !.buckets[b].hh_head = IF @ = e THEN hh_after ELSE @]
             D == [T EXCEPT !.tail = tail, !.head = head, !.next = nxt, !.prev = prv]
  <2>2. R = [O EXCEPT
               !.hh_next = [Patch(@, hh_before, hh_after) EXCEPT ![e] = Null],
               !.hh_prev = [Patch(@, hh_after, hh_before) EXCEPT ![e] = Null],
               !.num_items = @ - 1]
    BY <2>1
  <2>3. Q = D
    <3> HIDE DEF tail
    <3>1. QED
      BY <1>1 DEF Tables
  <2>4. D \in Tables /\ D.buckets = T.buckets
    <3> HIDE DEF tail, head, nxt, prv
    <3>1. QED
      BY <1>1, <1>3, <1>4, <1>7 DEF Tables
  <2>5. O = [D EXCEPT !.buckets[b].count = @ - 1,
                      !.buckets[b].hh_head = IF @ = e THEN hh_after ELSE @]
    BY <2>3
  <2> HIDE DEF Q, O, D, R
  <2>6. O = [D EXCEPT !.buckets = B]
    BY <2>4, <2>5 DEF Tables
  <2>7. D.hh_next = T.hh_next /\ D.hh_prev = T.hh_prev /\ D.num_items = T.num_items
    <3> HIDE DEF tail, head, nxt, prv
    <3>1. QED
      BY <1>1 DEF D, Tables
  <2>8. R = [D EXCEPT !.buckets = B, !.hh_next = hh_nxt, !.hh_prev = hh_prv, !.num_items = items]
    <3> HIDE DEF B
    <3>1. QED
      BY <2>2, <2>4, <2>6, <2>7 DEF Tables
  <2>9. QED
    <3> HIDE DEF tail, head, nxt, prv, hh_nxt, hh_prv, B, items
    <3>1. QED
      BY <1>1, <2>8 DEF D, Tables
<1> HIDE DEF R, nxt, prv, hh_nxt, hh_prv, tail, head, B, items
<1>11. R.num_buckets = T.num_buckets /\ R.buckets = B
  BY <1>1, <1>10 DEF Tables
<1>12. B \in UNION {[0 .. n - 1 -> BucketRecords] : n \in Nat}
  BY <1>1, <1>9
<1>13. R \in Tables
  BY <1>1, <1>3, <1>4, <1>5, <1>6, <1>7, <1>10, <1>12 DEF Tables
<1>14. IsTable(R)
  BY <1>9, <1>11, <1>13 DEF IsTable
<1>15. /\ R.tail = tail /\ R.head = head /\ R.num_items = items /\ R.next = nxt /\ R.prev = prv
       /\ R.hh_next = hh_nxt /\ R.hh_prev = hh_prv
       /\ R.ideal_chain_maxlen = T.ideal_chain_maxlen /\ R.noexpand = T.noexpand
  BY <1>1, <1>10 DEF Tables
<1>16. /\ R.tail = (IF T.tail = e THEN T.prev[e] ELSE T.tail)
       /\ R.head = (IF T.prev[e] = Null THEN T.next[e] ELSE T.head)
       /\ R.num_items = T.num_items - 1
  BY <1>15 DEF tail, head, items
<1>17. QED
  BY <1>3, <1>4, <1>5, <1>6, <1>9, <1>11, <1>14, <1>15, <1>16 DEF R, b

\* Deleting an entry leaves the others; the last one takes the table with it.
LEMMA DeleteOK ==
  ASSUME NEW T, NEW S \in SUBSET Entries, TableOK(T, S), NEW e \in S
  PROVE  \/ Delete(T, e) = NoTable /\ S = {e}
         \/ TableOK(Delete(T, e), S \ {e})
<1> DEFINE R == Delete(T, e)
           b == BucketOf(Key(e), T.num_buckets)
           order == Order(T)
           chain == Chain(T, b)
           U == S \ {e}
<1>1. IsTable(T) /\ BucketsOK(T, S) /\ OrderOK(T, S) /\ T.num_items = Len(order) /\ ShortChains(T)
  BY DEF TableOK
<1>2. e \in Entries /\ T.num_buckets \in Nat \ {0} /\ b \in 0 .. T.num_buckets - 1
  BY <1>1, TableTypes, BucketInRange
<1>3. BucketOK(T, S, b)
  BY <1>1, <1>2 DEF BucketsOK
<1>4. /\ IsList(T.next, T.prev, T.head, order)
      /\ Len(order) > 0 /\ T.tail = order[Len(order)]
      /\ \A x \in Entries : (\E i \in 1 .. Len(order) : order[i] = x) <=> x \in S
  BY <1>1 DEF OrderOK
<1>5. /\ IsList(T.hh_next, T.hh_prev, T.buckets[b].hh_head, chain)
      /\ T.buckets[b].count = Len(chain)
      /\ \A x \in Entries : (\E i \in 1 .. Len(chain) : chain[i] = x) <=> x \in S /\ x \in Homes(T, b)
  BY <1>3 DEF BucketOK
<1>6. e \in Homes(T, b)
  BY <1>2 DEF Homes
<1> HIDE DEF order, chain
<1>7. /\ order \in Seq(Entries) /\ Len(order) \in Nat /\ \A i \in 1 .. Len(order) : order[i] \in Entries
      /\ \A i, j \in 1 .. Len(order) : order[i] = order[j] => i = j
  BY <1>4 DEF IsList
<1>8. /\ chain \in Seq(Entries) /\ Len(chain) \in Nat
      /\ \A i \in 1 .. Len(chain) : chain[i] \in Entries /\ chain[i] \in Homes(T, b)
      /\ \A i, j \in 1 .. Len(chain) : chain[i] = chain[j] => i = j
  <2>1. /\ chain \in Seq(Entries) /\ \A i, j \in 1 .. Len(chain) : chain[i] = chain[j] => i = j
    BY <1>5 DEF IsList
  <2>2. Len(chain) \in Nat /\ \A i \in 1 .. Len(chain) : chain[i] \in Entries
    BY <2>1
  <2>3. QED
    BY <1>5, <2>1, <2>2
<1>9. PICK k \in 1 .. Len(order) : order[k] = e
  BY <1>2, <1>4
<1>10. PICK j \in 1 .. Len(chain) : chain[j] = e
  BY <1>2, <1>5, <1>6
<1>11. /\ T.next[e] = Null <=> k = Len(order)
       /\ T.prev[e] = Null <=> k = 1
       /\ T.head = e <=> k = 1
       /\ T.next[e] # Null => \E i \in 1 .. Len(order) : i # k /\ T.next[e] = order[i]
       /\ T.prev[e] # Null => \E i \in 1 .. Len(order) : i # k /\ T.prev[e] = order[i]
       /\ k # 1 => T.prev[e] = order[k - 1]
  BY <1>4, <1>9, Neighbours
<1>12. /\ T.hh_next[e] # Null => \E i \in 1 .. Len(chain) : i # j /\ T.hh_next[e] = chain[i]
       /\ T.hh_prev[e] # Null => \E i \in 1 .. Len(chain) : i # j /\ T.hh_prev[e] = chain[i]
  BY <1>5, <1>10, Neighbours
<1>13. CASE T.prev[e] = Null /\ T.next[e] = Null
  <2>1. R = NoTable
    BY <1>13 DEF Delete
  <2>2. \A i \in 1 .. Len(order) : order[i] = e
    <3>1. k = Len(order) /\ k = 1
      BY <1>11, <1>13
    <3>2. QED
      BY <1>7, <1>9, <3>1
  <2>3. S = {e}
    BY <1>4, <2>2
  <2>4. QED
    BY <2>1, <2>3
<1>14. CASE ~(T.prev[e] = Null /\ T.next[e] = Null)
  <2>1. T.next[e] # e /\ T.prev[e] # e
    BY <1>2, <1>7, <1>9, <1>11, EntryFacts
  <2>2. T.hh_next[e] # e /\ T.hh_prev[e] # e
    BY <1>2, <1>8, <1>10, <1>12, EntryFacts
  <2>3. T.num_items >= 1 /\ T.buckets[b].count >= 1
    BY <1>1, <1>5, <1>7, <1>8, <1>9, <1>10
  <2>4. /\ IsTable(R)
        /\ R.tail = IF T.tail = e THEN T.prev[e] ELSE T.tail
        /\ R.head = IF T.prev[e] = Null THEN T.next[e] ELSE T.head
        /\ T.prev[e] # Null => R.next[T.prev[e]] = T.next[e]
        /\ \A x \in Entries : x # e /\ x # T.prev[e] => R.next[x] = T.next[x]
        /\ T.next[e] # Null => R.prev[T.next[e]] = T.prev[e]
        /\ \A x \in Entries : x # e /\ x # T.next[e] => R.prev[x] = T.prev[x]
    BY <1>1, <1>2, <1>14, <2>1, <2>2, <2>3, DeleteFields
  <2>5. /\ T.hh_prev[e] # Null => R.hh_next[T.hh_prev[e]] = T.hh_next[e]
        /\ \A x \in Entries : x # e /\ x # T.hh_prev[e] => R.hh_next[x] = T.hh_next[x]
        /\ T.hh_next[e] # Null => R.hh_prev[T.hh_next[e]] = T.hh_prev[e]
        /\ \A x \in Entries : x # e /\ x # T.hh_next[e] => R.hh_prev[x] = T.hh_prev[x]
    BY <1>1, <1>2, <1>14, <2>1, <2>2, <2>3, DeleteFields
  <2>6. /\ R.num_items = T.num_items - 1 /\ R.num_buckets = T.num_buckets
        /\ R.ideal_chain_maxlen = T.ideal_chain_maxlen /\ R.noexpand = T.noexpand
        /\ R.buckets[b].count = T.buckets[b].count - 1
        /\ R.buckets[b].expand_mult = T.buckets[b].expand_mult
        /\ R.buckets[b].hh_head = IF T.buckets[b].hh_head = e THEN T.hh_next[e] ELSE T.buckets[b].hh_head
        /\ \A c \in 0 .. T.num_buckets - 1 : c # b => R.buckets[c] = T.buckets[c]
    BY <1>1, <1>2, <1>14, <2>1, <2>2, <2>3, DeleteFields
  <2> HIDE DEF R, b
  <2>7. \A c : Homes(R, c) = Homes(T, c)
    BY <2>6 DEF Homes
  <2>8. OrderOK(R, U) /\ Len(Order(R)) = Len(order) - 1
    <3> DEFINE r == Without(order, k)
               nxt == T.next
               prv == T.prev
               first == T.head
               nxt2 == R.next
               prv2 == R.prev
               first2 == R.head
    <3>1. IsList(nxt, prv, first, order)
      BY <1>4
    <3>2. Unlinked(nxt, prv, nxt2, prv2, first, first2, order[k])
      BY <1>4, <1>9, <1>11, <2>4 DEF Unlinked
    <3> HIDE DEF nxt, prv, first, nxt2, prv2, first2
    <3>3. IsList(nxt2, prv2, first2, r)
      BY <3>1, <3>2, ListRemove
    <3>4. IsList(R.next, R.prev, R.head, r)
      BY <3>3 DEF nxt2, prv2, first2
    <3> HIDE DEF r
    <3>5. Order(R) = r
      BY <3>4, WalkIs DEF Order
    <3>6. /\ Len(r) = Len(order) - 1
          /\ \A i \in 1 .. Len(order) - 1 : i < k => r[i] = order[i]
          /\ \A i \in 1 .. Len(order) - 1 : k <= i => r[i] = order[i + 1]
      BY <1>7, WithoutElements DEF r
    <3>7. Len(order) > 1
      BY <1>7, <1>11, <1>14
    <3>8. R.tail = r[Len(r)]
      <4>1. Len(order) \in 1 .. Len(order) /\ (T.tail = e <=> k = Len(order))
        BY <1>4, <1>7, <1>9
      <4>2. CASE k = Len(order)
        <5>1. Len(order) - 1 \in 1 .. Len(order) - 1 /\ Len(order) - 1 < k /\ k # 1
          BY <1>7, <3>7, <4>2
        <5>2. r[Len(order) - 1] = order[k - 1]
          BY <3>6, <4>2, <5>1
        <5>3. QED
          BY <1>11, <2>4, <3>6, <4>1, <4>2, <5>1, <5>2
      <4>3. CASE k # Len(order)
        <5>1. Len(order) - 1 \in 1 .. Len(order) - 1 /\ k <= Len(order) - 1
          BY <1>7, <3>7, <4>3
        <5>2. r[Len(order) - 1] = order[Len(order) - 1 + 1]
          BY <3>6, <5>1
        <5>3. Len(order) - 1 + 1 = Len(order)
          BY <1>7
        <5>4. QED
          BY <1>4, <2>4, <3>6, <4>1, <4>3, <5>2, <5>3
      <4>4. QED
        BY <4>2, <4>3
    <3>9. \A x \in Entries : (\E i \in 1 .. Len(r) : r[i] = x) <=> x \in U
      <4>1. \A x : (\E i \in 1 .. Len(r) : r[i] = x) <=> x # order[k] /\ \E i \in 1 .. Len(order) : order[i] = x
        BY <1>7, WithoutHolds DEF r
      <4>2. QED
        BY <1>4, <1>9, <4>1
    <3>10. QED
      BY <1>7, <3>4, <3>5, <3>6, <3>7, <3>8, <3>9 DEF OrderOK
  <2>9. BucketOK(R, U, b)
    <3> DEFINE r == Without(chain, j)
               nxt == T.hh_next
               prv == T.hh_prev
               first == T.buckets[b].hh_head
               nxt2 == R.hh_next
               prv2 == R.hh_prev
               first2 == R.buckets[b].hh_head
    <3>1. IsList(nxt, prv, first, chain)
      BY <1>5
    <3>2. Unlinked(nxt, prv, nxt2, prv2, first, first2, chain[j])
      BY <1>5, <1>10, <2>5, <2>6 DEF Unlinked
    <3> HIDE DEF nxt, prv, first, nxt2, prv2, first2
    <3>3. IsList(nxt2, prv2, first2, r)
      BY <3>1, <3>2, ListRemove
    <3>4. IsList(R.hh_next, R.hh_prev, R.buckets[b].hh_head, r)
      BY <3>3 DEF nxt2, prv2, first2
    <3> HIDE DEF r
    <3>5. Chain(R, b) = r
      BY <3>4, WalkIs DEF Chain
    <3>6. Len(r) = Len(chain) - 1
      BY <1>8, WithoutElements DEF r
    <3>7. \A x : (\E i \in 1 .. Len(r) : r[i] = x) <=> x # chain[j] /\ \E i \in 1 .. Len(chain) : chain[i] = x
      BY <1>8, WithoutHolds DEF r
    <3>8. \A x \in Entries : (\E i \in 1 .. Len(r) : r[i] = x) <=> x \in U /\ x \in Homes(R, b)
      BY <1>5, <1>10, <2>7, <3>7
    <3>9. QED
      BY <1>5, <2>6, <3>4, <3>5, <3>6, <3>8 DEF BucketOK
  <2>10. ASSUME NEW c \in 0 .. T.num_buckets - 1, c # b
         PROVE  BucketOK(R, U, c)
    <3> DEFINE s == Chain(T, c)
    <3>1. BucketOK(T, S, c)
      BY <1>1 DEF BucketsOK
    <3>2. /\ IsList(T.hh_next, T.hh_prev, T.buckets[c].hh_head, s)
          /\ T.buckets[c].count = Len(s)
          /\ \A x \in Entries : (\E i \in 1 .. Len(s) : s[i] = x) <=> x \in S /\ x \in Homes(T, c)
      BY <3>1 DEF BucketOK
    <3> HIDE DEF s
    <3>3. \A i \in 1 .. Len(s) : s[i] \in Entries
      BY <3>2 DEF IsList
    <3>4. \A x \in Homes(T, c) : x \notin Homes(T, b)
      BY <2>10 DEF Homes
    <3>5. \A i \in 1 .. Len(s) : s[i] \notin Homes(T, b)
      BY <3>2, <3>3, <3>4
    <3>6. \A i \in 1 .. Len(s) : s[i] # e /\ s[i] # T.hh_next[e] /\ s[i] # T.hh_prev[e]
      BY <1>6, <1>8, <1>12, <3>3, <3>5, EntryFacts
    <3>7. \A i \in 1 .. Len(s) : R.hh_next[s[i]] = T.hh_next[s[i]] /\ R.hh_prev[s[i]] = T.hh_prev[s[i]]
      BY <2>5, <3>3, <3>6
    <3>8. R.buckets[c] = T.buckets[c]
      BY <2>6, <2>10
    <3>9. IsList(R.hh_next, R.hh_prev, R.buckets[c].hh_head, s)
      BY <3>2, <3>7, <3>8, ListKept
    <3>10. Chain(R, c) = s
      BY <3>9, WalkIs DEF Chain
    <3>11. \A x \in Entries : (\E i \in 1 .. Len(s) : s[i] = x) <=> x \in U /\ x \in Homes(R, c)
      BY <1>6, <2>7, <3>2, <3>4
    <3>12. QED
      BY <3>2, <3>8, <3>9, <3>10, <3>11 DEF BucketOK
  <2>11. BucketsOK(R, U)
    BY <2>6, <2>9, <2>10 DEF BucketsOK
  <2>12. ShortChains(R)
    <3>1. ASSUME NEW c \in 0 .. R.num_buckets - 1, ~R.noexpand
          PROVE  Short(R.buckets[c], R.ideal_chain_maxlen)
      <4>1. Short(T.buckets[c], T.ideal_chain_maxlen)
        BY <1>1, <2>6, <3>1 DEF ShortChains
      <4>2. CASE c # b
        BY <2>6, <3>1, <4>1, <4>2
      <4>3. CASE c = b
        <5> DEFINE count == T.buckets[b].count
                   most == (T.buckets[b].expand_mult + 1) * Threshold
                   ideal == (T.buckets[b].expand_mult + 1) * T.ideal_chain_maxlen
        <5>1. T.buckets[b].expand_mult \in Nat /\ Threshold \in Nat /\ T.ideal_chain_maxlen \in Nat /\ count \in Nat
          BY <1>1, <1>2, TableTypes, HashAssumption
        <5>2. most \in Nat /\ ideal \in Nat
          <6>1. \A x, y \in Nat : (x + 1) * y \in Nat
            OBVIOUS
          <6>2. QED
            BY <5>1, <6>1
        <5>3. count < most \/ count <= ideal
          BY <4>1, <4>3 DEF Short
        <5> HIDE DEF count, most, ideal
        <5>4. count - 1 < most \/ count - 1 <= ideal
          BY <5>1, <5>2, <5>3
        <5>5. QED
          BY <2>6, <4>3, <5>4 DEF Short, count, most, ideal
      <4>4. QED
        BY <4>2, <4>3
    <3>2. QED
      BY <3>1 DEF ShortChains
  <2>13. R.num_items = Len(Order(R))
    BY <1>1, <2>6, <2>8
  <2>14. TableOK(R, U)
    BY <2>4, <2>8, <2>11, <2>12, <2>13 DEF TableOK
  <2>15. QED
    BY <2>14 DEF R
<1>15. QED
  BY <1>13, <1>14

--------------------------------------------------------------------------------
(* The manager                                                              *)

\* What a sound table says of its ends and of its size.
LEMMA EndsOK ==
  ASSUME NEW T, NEW S \in SUBSET Entries, TableOK(T, S)
  PROVE  /\ T # NoTable /\ T.head \in S /\ T.tail \in S
         /\ T.num_items \in 1 .. Cardinality(Entries)
<1> DEFINE s == Order(T)
<1>1. /\ IsList(T.next, T.prev, T.head, s)
      /\ Len(s) > 0 /\ T.tail = s[Len(s)]
      /\ \A e \in Entries : (\E i \in 1 .. Len(s) : s[i] = e) <=> e \in S
      /\ T.num_items = Len(s)
  BY DEF TableOK, OrderOK
<1> HIDE DEF s
<1>2. /\ s \in Seq(Entries) /\ T.head = IF Len(s) = 0 THEN Null ELSE s[1]
      /\ \A i, j \in 1 .. Len(s) : s[i] = s[j] => i = j
  BY <1>1 DEF IsList
<1>3. Len(s) \in Nat /\ 1 \in 1 .. Len(s) /\ Len(s) \in 1 .. Len(s)
  BY <1>1, <1>2
<1>4. s[1] \in Entries /\ s[Len(s)] \in Entries
  BY <1>2, <1>3
<1>5. T.head = s[1] /\ T.head \in S /\ T.tail \in S
  BY <1>1, <1>2, <1>3, <1>4
<1>6. T # NoTable
  BY <1>4, <1>5, EntryFacts DEF NoTable
<1>7. Len(s) <= Cardinality(Entries) /\ Cardinality(Entries) \in Nat
  BY <1>2, ListBound, EntryFacts
<1>8. QED
  BY <1>1, <1>3, <1>5, <1>6, <1>7

\* A lookup finds the entry with the key, wherever expansions have put it.
LEMMA FindIs ==
  ASSUME NEW T, NEW S \in SUBSET Entries, TableOK(T, S), NEW u \in Users
  PROVE  \/ Find(T, u) = Null /\ \A e \in S : Key(e) # u
         \/ Find(T, u) \in S /\ Key(Find(T, u)) = u
<1> DEFINE b == BucketOf(u, T.num_buckets)
           s == Chain(T, b)
           nxt == T.hh_next
           prv == T.hh_prev
           first == T.buckets[b].hh_head
<1>1. IsTable(T) /\ BucketsOK(T, S) /\ T.num_buckets \in Nat \ {0}
  BY TableTypes DEF TableOK
<1>2. b \in 0 .. T.num_buckets - 1
  <2>1. <<u, 1>> \in Entries /\ Key(<<u, 1>>) = u
    BY DEF Entries, Key
  <2>2. QED
    BY <1>1, <2>1, BucketInRange
<1>3. BucketOK(T, S, b)
  BY <1>1, <1>2 DEF BucketsOK
<1>4. /\ IsList(nxt, prv, first, s)
      /\ \A e \in Entries : (\E i \in 1 .. Len(s) : s[i] = e) <=> e \in S /\ e \in Homes(T, b)
  BY <1>3 DEF BucketOK
<1>5. Find(T, u) = Seek(nxt, u, first)
  <2>1. T.head # Null
    BY EndsOK, EntryFacts
  <2>2. QED
    BY <2>1 DEF Find
<1>6. \A e \in S : Key(e) = u => e \in Homes(T, b)
  BY DEF Homes
<1> HIDE DEF s, b, nxt, prv, first
<1>7. \A i \in 1 .. Len(s) : s[i] \in S
  BY <1>4 DEF IsList
<1>8. \/ Seek(nxt, u, first) = Null /\ \A i \in 1 .. Len(s) : Key(s[i]) # u
      \/ \E i \in 1 .. Len(s) : Seek(nxt, u, first) = s[i] /\ Key(s[i]) = u
  BY <1>4, SeekIs
<1>9. CASE Seek(nxt, u, first) = Null /\ \A i \in 1 .. Len(s) : Key(s[i]) # u
  BY <1>4, <1>5, <1>6, <1>9
<1>10. CASE \E i \in 1 .. Len(s) : Seek(nxt, u, first) = s[i] /\ Key(s[i]) = u
  BY <1>5, <1>7, <1>10
<1>11. QED
  BY <1>8, <1>9, <1>10

\* Under the invariant a lookup tells the one entry of a name, or that there is
\* none.
LEMMA FindInMap ==
  ASSUME IInv, NEW u \in Users
  PROVE  \/ Find(user_map, u) = Null /\ \A e \in Allocated : Key(e) # u
         \/ /\ Find(user_map, u) \in Allocated /\ Key(Find(user_map, u)) = u
            /\ user_map # NoTable /\ TableOK(user_map, Allocated)
            /\ \A e \in Allocated : Key(e) = u => e = Find(user_map, u)
<1>1. Allocated \in SUBSET Entries
  BY DEF Allocated
<1>2. CASE user_map = NoTable /\ Allocated = {}
  BY <1>2 DEF Find, NoTable
<1>3. CASE TableOK(user_map, Allocated)
  <2>1. user_map # NoTable
    BY <1>1, <1>3, EndsOK
  <2>2. \/ Find(user_map, u) = Null /\ \A e \in Allocated : Key(e) # u
        \/ Find(user_map, u) \in Allocated /\ Key(Find(user_map, u)) = u
    BY <1>1, <1>3, FindIs
  <2>3. \A d, e \in Allocated : Key(d) = Key(e) => d = e
    BY DEF IInv
  <2>4. QED
    BY <1>3, <2>1, <2>2, <2>3
<1>4. QED
  BY <1>2, <1>3 DEF IInv

\* What a login of a name that is not there changes.
LEMMA AddUserStep ==
  ASSUME IInv, NEW u \in Users, NEW s \in Sockets[u], AddUser(u, s)
  PROVE  \E e \in Entries :
           /\ Key(e) = u /\ e \notin Allocated /\ \A d \in Allocated : Key(d) # u
           /\ socket_fd' = [socket_fd EXCEPT ![e] = s]
           /\ Allocated' = Allocated \cup {e}
           /\ TableOK(user_map', Allocated')
<1> DEFINE e == <<u, IF socket_fd[<<u, 1>>] = NoSocket THEN 1 ELSE 2>>
<1>1. /\ Find(user_map, u) = Null /\ socket_fd' = [socket_fd EXCEPT ![e] = s]
      /\ user_map' = Add(user_map, e)
  BY DEF AddUser
<1>2. e \in Entries /\ Key(e) = u
  BY DEF Entries, Key
<1> HIDE DEF e
<1>3. Null \notin Allocated
  BY EntryFacts DEF Allocated
<1>4. \A d \in Allocated : Key(d) # u
  BY <1>1, <1>3, FindInMap
<1>5. e \notin Allocated
  BY <1>2, <1>4
<1>6. s # NoSocket /\ DOMAIN socket_fd = Entries
  BY HashAssumption DEF IInv
<1>7. Allocated' = Allocated \cup {e}
  BY <1>1, <1>2, <1>6 DEF Allocated
<1>8. (user_map = NoTable /\ Allocated = {}) \/ TableOK(user_map, Allocated)
  BY DEF IInv
<1>9. Allocated \in SUBSET Entries
  BY DEF Allocated
<1>10. TableOK(Add(user_map, e), Allocated \cup {e})
  BY <1>2, <1>5, <1>8, <1>9, AddOK
<1>11. QED
  BY <1>1, <1>2, <1>4, <1>5, <1>7, <1>10

\* What the removal of a name that is there changes.
LEMMA RemoveUserStep ==
  ASSUME IInv, NEW u \in Users, RemoveUser(u)
  PROVE  \E e \in Allocated :
           /\ Key(e) = u /\ \A d \in Allocated : Key(d) = u => d = e
           /\ socket_fd' = [socket_fd EXCEPT ![e] = NoSocket]
           /\ Allocated' = Allocated \ {e}
           /\ (user_map' = NoTable /\ Allocated' = {}) \/ TableOK(user_map', Allocated')
<1> DEFINE e == Find(user_map, u)
<1>1. /\ e # Null /\ socket_fd' = [socket_fd EXCEPT ![e] = NoSocket]
      /\ user_map' = Delete(user_map, e)
  BY DEF RemoveUser
<1>2. /\ e \in Allocated /\ Key(e) = u /\ TableOK(user_map, Allocated)
      /\ \A d \in Allocated : Key(d) = u => d = e
  BY <1>1, FindInMap
<1> HIDE DEF e
<1>3. Allocated \in SUBSET Entries
  BY DEF Allocated
<1>4. Allocated' = Allocated \ {e}
  <2>1. DOMAIN socket_fd = Entries
    BY DEF IInv
  <2>2. QED
    BY <1>1, <1>2, <2>1 DEF Allocated
<1>5. \/ Delete(user_map, e) = NoTable /\ Allocated = {e}
      \/ TableOK(Delete(user_map, e), Allocated \ {e})
  BY <1>2, <1>3, DeleteOK
<1>6. QED
  BY <1>1, <1>2, <1>4, <1>5

\* A login keeps the invariant.
LEMMA AddUserKeeps ==
  ASSUME IInv, NEW u \in Users, NEW s \in Sockets[u], AddUser(u, s)
  PROVE  IInv'
<1>1. PICK e \in Entries :
        /\ Key(e) = u /\ e \notin Allocated /\ \A d \in Allocated : Key(d) # u
        /\ socket_fd' = [socket_fd EXCEPT ![e] = s]
        /\ Allocated' = Allocated \cup {e}
        /\ TableOK(user_map', Allocated')
  BY AddUserStep
<1>2. socket_fd' \in [Entries -> (UNION {Sockets[v] : v \in Users}) \cup {NoSocket}]
  <2>1. s \in UNION {Sockets[v] : v \in Users}
    OBVIOUS
  <2>2. QED
    BY <1>1, <2>1 DEF IInv
<1>3. \A c, d \in Allocated' : Key(c) = Key(d) => c = d
  BY <1>1 DEF IInv
<1>4. QED
  BY <1>1, <1>2, <1>3 DEF IInv

\* The end of a session keeps the invariant.
LEMMA RemoveUserKeeps ==
  ASSUME IInv, NEW u \in Users, RemoveUser(u)
  PROVE  IInv'
<1>1. PICK e \in Allocated :
        /\ Key(e) = u /\ \A d \in Allocated : Key(d) = u => d = e
        /\ socket_fd' = [socket_fd EXCEPT ![e] = NoSocket]
        /\ Allocated' = Allocated \ {e}
        /\ (user_map' = NoTable /\ Allocated' = {}) \/ TableOK(user_map', Allocated')
  BY RemoveUserStep
<1>2. socket_fd' \in [Entries -> (UNION {Sockets[v] : v \in Users}) \cup {NoSocket}]
  BY <1>1 DEF IInv
<1>3. \A c, d \in Allocated' : Key(c) = Key(d) => c = d
  BY <1>1 DEF IInv
<1>4. QED
  BY <1>1, <1>2, <1>3 DEF IInv

\* Whatever is added and removed, and however the names hash, every list of the
\* table is sound and the table holds just the entries that are allocated, one
\* for a name.
THEOREM TableInvariant == Spec => []IInv
<1>1. Init => IInv
  BY DEF Init, IInv, Allocated
<1>2. IInv /\ [Next]_vars => IInv'
  <2>1. ASSUME IInv, UNCHANGED vars
        PROVE  IInv'
    <3>1. user_map' = user_map /\ socket_fd' = socket_fd
      BY <2>1 DEF vars
    <3>2. Allocated' = Allocated
      BY <3>1 DEF Allocated
    <3>3. QED
      BY <2>1, <3>1, <3>2 DEF IInv
  <2>2. ASSUME IInv, Next
        PROVE  IInv'
    BY <2>2, AddUserKeeps, RemoveUserKeeps DEF Next
  <2>3. QED
    BY <2>1, <2>2
<1>3. QED
  BY <1>1, <1>2, PTL DEF Spec

\* The invariant keeps the pointers of the table to entries that are allocated.
LEMMA InvTypeOK == IInv => TypeOK
<1> SUFFICES ASSUME IInv
             PROVE  TypeOK
  OBVIOUS
<1> DEFINE T == user_map
           S == Allocated
<1>1. S \in SUBSET Entries /\ (T = NoTable \/ TableOK(T, S))
  BY DEF IInv, Allocated
<1> HIDE DEF S
<1>2. ASSUME T # NoTable
      PROVE  /\ T.head \in S /\ T.tail \in S /\ T.num_items \in 1 .. Cardinality(Entries)
             /\ \A b \in DOMAIN T.buckets :
                  T.buckets[b] \in [hh_head : S \cup {Null}, count : Nat, expand_mult : Nat]
             /\ T.noexpand \in BOOLEAN
  <2>1. TableOK(T, S) /\ IsTable(T)
    BY <1>1, <1>2 DEF TableOK
  <2>2. T.head \in S /\ T.tail \in S /\ T.num_items \in 1 .. Cardinality(Entries)
    BY <1>1, <2>1, EndsOK
  <2>3. DOMAIN T.buckets = 0 .. T.num_buckets - 1 /\ T.noexpand \in BOOLEAN
    BY <2>1, TableTypes
  <2>4. ASSUME NEW b \in 0 .. T.num_buckets - 1
        PROVE  T.buckets[b] \in [hh_head : S \cup {Null}, count : Nat, expand_mult : Nat]
    <3> DEFINE s == Chain(T, b)
    <3>1. BucketOK(T, S, b)
      BY <2>1, <2>4 DEF TableOK, BucketsOK
    <3>2. /\ IsList(T.hh_next, T.hh_prev, T.buckets[b].hh_head, s)
          /\ \A e \in Entries : (\E i \in 1 .. Len(s) : s[i] = e) <=> e \in S /\ e \in Homes(T, b)
      BY <3>1 DEF BucketOK
    <3> HIDE DEF s
    <3>3. s \in Seq(Entries) /\ T.buckets[b].hh_head = IF Len(s) = 0 THEN Null ELSE s[1]
      BY <3>2 DEF IsList
    <3>4. Len(s) # 0 => 1 \in 1 .. Len(s) /\ s[1] \in Entries
      BY <3>3
    <3>5. T.buckets[b].hh_head \in S \cup {Null}
      BY <3>2, <3>3, <3>4
    <3>6. T.buckets[b] \in BucketRecords
      BY <2>1, <2>4, TableTypes
    <3>7. QED
      BY <3>5, <3>6 DEF BucketRecords
  <2>5. QED
    BY <2>2, <2>3, <2>4
<1>3. socket_fd \in [Entries -> (UNION {Sockets[u] : u \in Users}) \cup {NoSocket}]
  BY DEF IInv
<1>4. QED
  BY <1>2, <1>3 DEF TypeOK, S

\* The table is a table, or there is none, and its pointers are to entries that
\* are allocated: none dangles after a removal.
THEOREM TypeSafe == Spec => []TypeOK
BY TableInvariant, InvTypeOK, PTL

\* A list of the invariant is one in the terms of the property.
LEMMA ListIsDoubly ==
  ASSUME NEW nxt, NEW prv, NEW first, NEW s, IsList(nxt, prv, first, s)
  PROVE  /\ Doubly(s, prv) /\ DOMAIN s = 1 .. Len(s)
         /\ \A x : x \in ToSet(s) <=> x \in Entries /\ \E i \in 1 .. Len(s) : s[i] = x
<1>1. s \in Seq(Entries)
  BY DEF IsList
<1>2. DOMAIN s = 1 .. Len(s) /\ \A i \in 1 .. Len(s) : s[i] \in Entries
  BY <1>1
<1>3. Doubly(s, prv)
  BY <1>2 DEF IsList, Doubly
<1>4. \A x : x \in ToSet(s) <=> x \in Entries /\ \E i \in 1 .. Len(s) : s[i] = x
  BY <1>2 DEF ToSet
<1>5. QED
  BY <1>2, <1>3, <1>4

\* The invariant makes every list sound.
LEMMA InvSound == IInv => Sound
<1> SUFFICES ASSUME IInv
             PROVE  Sound
  OBVIOUS
<1> DEFINE T == user_map
           S == Allocated
           order == Walk(T.next, T.head)
<1>1. S \in SUBSET Entries /\ ((T = NoTable /\ S = {}) \/ TableOK(T, S))
  BY DEF IInv, Allocated
<1>2. CASE T = NoTable /\ S = {}
  BY <1>2 DEF Sound
<1>3. CASE TableOK(T, S)
  <2>1. T # NoTable /\ IsTable(T) /\ BucketsOK(T, S)
    BY <1>1, <1>3, EndsOK DEF TableOK
  <2>2. /\ IsList(T.next, T.prev, T.head, order)
        /\ T.tail = order[Len(order)]
        /\ \A e \in Entries : (\E i \in 1 .. Len(order) : order[i] = e) <=> e \in S
        /\ T.num_items = Len(order)
    BY <1>3 DEF TableOK, OrderOK, Order
  <2> HIDE DEF S, order
  <2>3. Doubly(order, T.prev) /\ ToSet(order) = S
    <3>1. /\ Doubly(order, T.prev)
          /\ \A x : x \in ToSet(order) <=> x \in Entries /\ \E i \in 1 .. Len(order) : order[i] = x
      BY <2>2, ListIsDoubly
    <3>2. \A x : x \in ToSet(order) <=> x \in S
      BY <1>1, <2>2, <3>1
    <3>3. QED
      BY <3>1, <3>2
  <2>4. ASSUME NEW b \in DOMAIN T.buckets
        PROVE  LET chain == Chain(T, b)
               IN /\ Doubly(chain, T.hh_prev)
                  /\ T.buckets[b].count = Len(chain)
                  /\ ToSet(chain) = {e \in S : BucketOf(Key(e), T.num_buckets) = b}
    <3> DEFINE s == Chain(T, b)
    <3>1. b \in 0 .. T.num_buckets - 1
      BY <2>1, <2>4, TableTypes
    <3>2. BucketOK(T, S, b)
      BY <2>1, <3>1 DEF BucketsOK
    <3>3. /\ IsList(T.hh_next, T.hh_prev, T.buckets[b].hh_head, s)
          /\ T.buckets[b].count = Len(s)
          /\ \A e \in Entries : (\E i \in 1 .. Len(s) : s[i] = e) <=> e \in S /\ e \in Homes(T, b)
      BY <3>2 DEF BucketOK
    <3> HIDE DEF s
    <3>4. /\ Doubly(s, T.hh_prev)
          /\ \A x : x \in ToSet(s) <=> x \in Entries /\ \E i \in 1 .. Len(s) : s[i] = x
      BY <3>3, ListIsDoubly
    <3>5. \A x : x \in ToSet(s) <=> x \in S /\ BucketOf(Key(x), T.num_buckets) = b
      BY <1>1, <3>3, <3>4 DEF Homes
    <3>6. ToSet(s) = {e \in S : BucketOf(Key(e), T.num_buckets) = b}
      BY <3>5
    <3>7. QED
      BY <3>3, <3>4, <3>6 DEF s
  <2>5. QED
    BY <2>1, <2>2, <2>3, <2>4 DEF Sound, S, order
<1>4. QED
  BY <1>1, <1>2, <1>3

\* Everything HASH_FSCK tests is always so, and nothing is lost or left behind:
\* each list is sound both ways, as long as it says, and holds every allocated
\* entry that belongs there.
THEOREM TableSound == Spec => []Sound
BY TableInvariant, InvSound, PTL

\* The invariant keeps the chains short.
LEMMA InvChainsBounded == IInv => ChainsBounded
<1> SUFFICES ASSUME IInv, user_map # NoTable, ~user_map.noexpand
             PROVE  \A b \in DOMAIN user_map.buckets :
                      Short(user_map.buckets[b], user_map.ideal_chain_maxlen)
  BY DEF ChainsBounded, Short
<1>1. TableOK(user_map, Allocated)
  BY DEF IInv
<1>2. DOMAIN user_map.buckets = 0 .. user_map.num_buckets - 1
  BY <1>1, TableTypes DEF TableOK
<1>3. QED
  BY <1>1, <1>2 DEF TableOK, ShortChains

\* Until expansion is given up no chain reaches the multiple of the threshold at
\* which its bucket is expanded, unless the last expansion left it that long; and
\* that it did by the same multiple of the ideal length.
THEOREM ShortSearches == Spec => []ChainsBounded
BY TableInvariant, InvChainsBounded, PTL

\* What the callers see: the socket of the entry of a name, or the -1.
Lookups ==
  \A u \in Users :
    /\ (\A e \in Allocated : Key(e) # u) => GetUserSocket(u) = NoSocket
    /\ \A e \in Allocated : Key(e) = u => GetUserSocket(u) = socket_fd[e]

\* The invariant makes every lookup right.
LEMMA InvLookups == IInv => Lookups
<1> SUFFICES ASSUME IInv, NEW u \in Users
             PROVE  /\ (\A e \in Allocated : Key(e) # u) => GetUserSocket(u) = NoSocket
                    /\ \A e \in Allocated : Key(e) = u => GetUserSocket(u) = socket_fd[e]
  BY DEF Lookups
<1> DEFINE found == Find(user_map, u)
<1>1. GetUserSocket(u) = IF found = Null THEN NoSocket ELSE socket_fd[found]
  BY DEF GetUserSocket
<1>2. \/ found = Null /\ \A e \in Allocated : Key(e) # u
      \/ /\ found \in Allocated /\ Key(found) = u
         /\ \A e \in Allocated : Key(e) = u => e = found
  BY FindInMap
<1> HIDE DEF found
<1>3. Null \notin Allocated
  BY EntryFacts DEF Allocated
<1>4. QED
  BY <1>1, <1>2, <1>3

\* A login of a name that is not there is an Enter of the map.
LEMMA AddUserMaps ==
  ASSUME IInv, IInv', NEW u \in Users, NEW s \in Sockets[u], AddUser(u, s)
  PROVE  Map!Enter(u, s)
<1>1. PICK e \in Entries :
        /\ Key(e) = u /\ e \notin Allocated /\ \A d \in Allocated : Key(d) # u
        /\ socket_fd' = [socket_fd EXCEPT ![e] = s]
        /\ Allocated' = Allocated \cup {e}
        /\ TableOK(user_map', Allocated')
  BY AddUserStep
<1>2. Lookups /\ Lookups'
  <2>1. Lookups'
    BY InvLookups, PTL
  <2>2. QED
    BY <2>1, InvLookups
<1>3. socket_fd'[e] = s /\ \A d \in Entries : d # e => socket_fd'[d] = socket_fd[d]
  BY <1>1 DEF IInv
<1>4. GetUserSocket(u) = NoSocket /\ GetUserSocket(u)' = s
  BY <1>1, <1>2, <1>3 DEF Lookups
<1>5. ASSUME NEW v \in Users, v # u
      PROVE  GetUserSocket(v)' = GetUserSocket(v)
  <2>1. CASE \A d \in Allocated : Key(d) # v
    <3>1. \A d \in Allocated' : Key(d) # v
      BY <1>1, <1>5, <2>1
    <3>2. GetUserSocket(v) = NoSocket
      BY <1>2, <2>1 DEF Lookups
    <3>3. GetUserSocket(v)' = NoSocket
      BY <1>2, <3>1 DEF Lookups
    <3>4. QED
      BY <3>2, <3>3
  <2>2. CASE \E d \in Allocated : Key(d) = v
    <3>1. PICK d \in Allocated : Key(d) = v
      BY <2>2
    <3>2. d \in Allocated' /\ d \in Entries /\ d # e
      BY <1>1, <1>5, <3>1 DEF Allocated
    <3>3. GetUserSocket(v) = socket_fd[d]
      BY <1>2, <3>1 DEF Lookups
    <3>4. GetUserSocket(v)' = socket_fd'[d]
      BY <1>2, <3>1, <3>2 DEF Lookups
    <3>5. QED
      BY <1>3, <3>2, <3>3, <3>4
  <2>3. QED
    BY <2>1, <2>2
<1>6. [v \in Users |-> GetUserSocket(v)'] =
        [[v \in Users |-> GetUserSocket(v)] EXCEPT ![u] = IF @ = NoSocket THEN s ELSE @]
  BY <1>4, <1>5
<1>7. QED
  BY <1>6 DEF Map!Enter

\* The removal of a name that is there is a Leave of the map.
LEMMA RemoveUserMaps ==
  ASSUME IInv, IInv', NEW u \in Users, RemoveUser(u)
  PROVE  Map!Leave(u)
<1>1. PICK e \in Allocated :
        /\ Key(e) = u /\ \A d \in Allocated : Key(d) = u => d = e
        /\ socket_fd' = [socket_fd EXCEPT ![e] = NoSocket]
        /\ Allocated' = Allocated \ {e}
        /\ (user_map' = NoTable /\ Allocated' = {}) \/ TableOK(user_map', Allocated')
  BY RemoveUserStep
<1>2. Lookups /\ Lookups'
  <2>1. Lookups'
    BY InvLookups, PTL
  <2>2. QED
    BY <2>1, InvLookups
<1>3. \A d \in Entries : d # e => socket_fd'[d] = socket_fd[d]
  BY <1>1 DEF IInv
<1>4. GetUserSocket(u)' = NoSocket
  <2>1. \A d \in Allocated' : Key(d) # u
    BY <1>1
  <2>2. QED
    BY <1>2, <2>1 DEF Lookups
<1>5. ASSUME NEW v \in Users, v # u
      PROVE  GetUserSocket(v)' = GetUserSocket(v)
  <2>1. CASE \A d \in Allocated : Key(d) # v
    <3>1. \A d \in Allocated' : Key(d) # v
      BY <1>1, <2>1
    <3>2. GetUserSocket(v) = NoSocket
      BY <1>2, <2>1 DEF Lookups
    <3>3. GetUserSocket(v)' = NoSocket
      BY <1>2, <3>1 DEF Lookups
    <3>4. QED
      BY <3>2, <3>3
  <2>2. CASE \E d \in Allocated : Key(d) = v
    <3>1. PICK d \in Allocated : Key(d) = v
      BY <2>2
    <3>2. d \in Allocated' /\ d \in Entries /\ d # e
      BY <1>1, <1>5, <3>1 DEF Allocated
    <3>3. GetUserSocket(v) = socket_fd[d]
      BY <1>2, <3>1 DEF Lookups
    <3>4. GetUserSocket(v)' = socket_fd'[d]
      BY <1>2, <3>1, <3>2 DEF Lookups
    <3>5. QED
      BY <1>3, <3>2, <3>3, <3>4
  <2>3. QED
    BY <2>1, <2>2
<1>6. [v \in Users |-> GetUserSocket(v)'] =
        [[v \in Users |-> GetUserSocket(v)] EXCEPT ![u] = NoSocket]
  BY <1>4, <1>5
<1>7. QED
  BY <1>6 DEF Map!Leave

\* The table is a map from names to sockets: the first login of a name is what
\* every lookup returns, through collisions, expansions and the removal of
\* others, until the name itself is removed.
THEOREM TableIsMap == Spec => MapSpec
<1>1. Init => Map!Init
  <2>1. ASSUME Init, NEW u \in Users
        PROVE  GetUserSocket(u) = NoSocket
    BY <2>1 DEF Init, GetUserSocket, Find, NoTable
  <2>2. QED
    BY <2>1 DEF Map!Init
<1>2. IInv /\ IInv' /\ [Next]_vars => [Map!Next]_([u \in Users |-> GetUserSocket(u)])
  <2>1. ASSUME IInv, IInv', Next
        PROVE  Map!Next
    <3>1. ASSUME NEW u \in Users, RemoveUser(u)
          PROVE  Map!Next
      BY <2>1, <3>1, RemoveUserMaps DEF Map!Next
    <3>2. ASSUME NEW u \in Users, NEW s \in Sockets[u], AddUser(u, s)
          PROVE  Map!Next
      <4>1. s \in UNION {Sockets[v] : v \in Users}
        OBVIOUS
      <4>2. Map!Enter(u, s)
        BY <2>1, <3>2, AddUserMaps
      <4>3. QED
        BY <4>1, <4>2 DEF Map!Next
    <3>3. QED
      BY <2>1, <3>1, <3>2 DEF Next
  <2>2. ASSUME UNCHANGED vars
        PROVE  UNCHANGED [u \in Users |-> GetUserSocket(u)]
    BY <2>2 DEF vars, GetUserSocket
  <2>3. QED
    BY <2>1, <2>2
<1>3. QED
  BY <1>1, <1>2, TableInvariant, PTL DEF Spec, MapSpec, Map!Spec
================================================================================
