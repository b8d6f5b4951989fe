------------------------------ MODULE PoolsProofs ------------------------------
(* Proofs about Pools, for every set of pools and every set of scripts that   *)
(* use them as thpool.h says.                                                 *)
EXTENDS Pools, FiniteSetTheorems, TLAPS

Locks == DOMAIN Inside

\* p has been asked for, has been returned, has been freed.
Made(p) ==
  \E i \in DOMAIN script : /\ script[i][1] = "init" /\ script[i][2] = p
                           /\ i < at \/ (i = at /\ phase = "spinning")
Over(p) == \E i \in DOMAIN script : script[i][1] = "destroy" /\ script[i][2] = p /\ i < at

\* What the caller is doing is what its script says.
ScriptInv ==
  /\ phase # "call" => at \in DOMAIN script
  /\ phase = "spinning" => script[at][1] = "init"
  /\ phase = "posting" => script[at][1] = "add"
  /\ phase = "signalling" => script[at][1] = "pause"
  /\ phase = "ending" => script[at][1] = "destroy" /\ ~keepalive

\* A worker is inside a section exactly if it has the lock, and so is the caller.
LockInv ==
  /\ \A t \in Threads, name \in Locks : pc[t] \in Inside[name] <=> lock[<<Owner(t), name>>] = t
  /\ \A p \in Pools, name \in Locks : lock[<<p, name>>] \in Threads => Owner(lock[<<p, name>>]) = p
  /\ \A p \in Pools, name \in Locks :
       lock[<<p, name>>] = Caller <=> name = "rw" /\ phase = "posting" /\ This = p

\* num_threads_alive counts the workers between its increment and its decrement.
Alive(p) == {t \in Threads : Owner(t) = p /\ pc[t] \notin {"none", "start", "starting", "gone"}}
AliveInv == \A p \in Pools : alive[p] = Cardinality(Alive(p))

\* A worker that goes to run a job has one.
JobInv == \A t \in Threads : pc[t] \in {"repost", "reposting", "run"} => job[t] \in Places

\* A pool that has not been made has no workers, no jobs and no token, and one
\* that has been made has the workers that were asked for and no other.
MadeInv ==
  /\ \A p \in Pools : ~Made(p) => queue[p] = <<>> /\ v[p] = 0 /\ \A t \in Threads : Owner(t) = p => pc[t] = "none"
  /\ \A i \in DOMAIN script : script[i][1] = "init" /\ (i < at \/ (i = at /\ phase = "spinning")) =>
       \A t \in Threads : Owner(t) = script[i][2] =>
         /\ t[2] > script[i][3] => pc[t] = "none"
         /\ i < at /\ t[2] <= script[i][3] => pc[t] \notin {"none", "start", "starting"}

\* The types, of what the caller and the handlers change and of the pools.
CallOK ==
  /\ script \in Scripts /\ keepalive \in BOOLEAN /\ onHold \in BOOLEAN
  /\ at \in 1 .. Len(script) + 1
  /\ phase \in {"call", "spinning", "posting", "signalling", "ending"}
  /\ signalled \in 0 .. MaxThreads /\ pending \in SUBSET Threads
  /\ handler \in [Threads -> {"out", "entered", "holding"}]
PoolOK ==
  /\ queue \in [Pools -> Seq(Places)] /\ v \in [Pools -> {0, 1}] /\ alive \in [Pools -> Nat]
  /\ lock \in [Pools \X Locks -> Threads \cup {Caller, Nobody}]
  /\ pc \in [Threads -> Steps]
  /\ job \in [Threads -> {0} \cup Places] /\ done \in SUBSET Places

PoolsInv == CallOK /\ PoolOK /\ ScriptInv /\ LockInv /\ AliveInv /\ JobInv /\ MadeInv

--------------------------------------------------------------------------------
(* Scripts and threads                                                     *)

\* The parts of a call.
LEMMA CallFacts ==
  \A c \in Calls :
    /\ c[1] \in {"init", "add", "pause", "settle", "resume", "destroy"}
    /\ c[2] \in Pools
    /\ c[1] = "init" => c[3] \in 1 .. MaxThreads
BY DEF Calls

\* A script and its calls.
LEMMA ScriptFacts ==
  ASSUME script \in Scripts
  PROVE  /\ Proper(script) /\ Len(script) \in Nat /\ DOMAIN script = 1 .. Len(script)
         /\ DOMAIN script \subseteq Places
         /\ \A i \in DOMAIN script : script[i] \in Calls
<1>1. script \in Seq(Calls) /\ Proper(script)
  BY PoolsAssumption
<1>2. QED
  BY <1>1 DEF Places

\* A thread is its pool and a number.
LEMMA ThreadFacts ==
  /\ \A t \in Threads : Owner(t) \in Pools /\ t[2] \in 1 .. MaxThreads /\ t = <<Owner(t), t[2]>>
  /\ \A p \in Pools, n \in 1 .. MaxThreads : <<p, n>> \in Threads /\ Owner(<<p, n>>) = p
  /\ MaxThreads \in Nat /\ Caller \notin Threads /\ Nobody \notin Threads /\ Nobody # Caller
BY PoolsAssumption DEF Threads, Owner

\* The names of the locks and where each is held.
LEMMA LockNames ==
  /\ Locks = {"rw", "bsem", "count"}
  /\ Inside["rw"] = {"pulling", "repost", "reposting"}
  /\ Inside["bsem"] = {"token", "reposting"}
  /\ Inside["count"] = {"starting", "counting", "uncounting", "leaving"}
BY DEF Locks, Inside

\* Where a worker asks for which lock.
LEMMA SectionFacts ==
  /\ DOMAIN Section = {"start", "wait", "count", "pull", "repost", "uncount", "leave"}
  /\ Section["start"] = <<"count", "starting">> /\ Section["wait"] = <<"bsem", "token">>
  /\ Section["count"] = <<"count", "counting">> /\ Section["pull"] = <<"rw", "pulling">>
  /\ Section["repost"] = <<"bsem", "reposting">> /\ Section["uncount"] = <<"count", "uncounting">>
  /\ Section["leave"] = <<"count", "leaving">>
  /\ DOMAIN AfterCount = {"starting", "counting", "uncounting", "leaving"}
  /\ AfterCount["starting"] = "loop" /\ AfterCount["counting"] = "pull"
  /\ AfterCount["uncounting"] = "loop" /\ AfterCount["leaving"] = "gone"
BY DEF Section, AfterCount

\* No pool has more workers alive than it may have threads.
LEMMA AliveBound ==
  ASSUME NEW p \in Pools
  PROVE  IsFiniteSet(Alive(p)) /\ Cardinality(Alive(p)) <= MaxThreads /\ Cardinality(Alive(p)) \in Nat
<1> DEFINE all == {p} \X (1 .. MaxThreads)
<1>1. IsFiniteSet({p}) /\ Cardinality({p}) = 1
  BY FS_Singleton
<1>2. MaxThreads \in Nat /\ 1 \in Int /\ MaxThreads \in Int
  BY ThreadFacts
<1>3. IsFiniteSet(1 .. MaxThreads) /\ Cardinality(1 .. MaxThreads) = IF 1 > MaxThreads THEN 0 ELSE MaxThreads - 1 + 1
  BY <1>2, FS_Interval
<1>4. IsFiniteSet(all) /\ Cardinality(all) = 1 * Cardinality(1 .. MaxThreads)
  BY <1>1, <1>3, FS_Product
<1>5. Cardinality(all) = MaxThreads
  BY <1>2, <1>3, <1>4
<1>6. Alive(p) \subseteq all
  BY ThreadFacts DEF Alive
<1>7. IsFiniteSet(Alive(p)) /\ Cardinality(Alive(p)) <= Cardinality(all)
  BY <1>4, <1>6, FS_Subset
<1>8. Cardinality(Alive(p)) \in Nat
  BY <1>7, FS_CardinalityType
<1>9. QED
  BY <1>5, <1>7, <1>8

\* What a return and the begin of a call make of the pools there are.
LEMMA ReturnFacts ==
  ASSUME CallOK, ScriptInv, Return, at \in DOMAIN script, script[at][1] = "init" => phase = "spinning"
  PROVE  /\ \A p : Made(p)' <=> Made(p)
         /\ \A p : Over(p)' <=> Over(p) \/ (script[at][1] = "destroy" /\ This = p)
         /\ ScriptInv' /\ at' \in 1 .. Len(script) + 1
<1>1. /\ at' = at + 1 /\ phase' = "call" /\ script' = script /\ at \in Nat
      /\ \A i \in DOMAIN script : i \in Nat /\ (i < at' <=> i < at \/ i = at)
      /\ at' \in 1 .. Len(script) + 1
  BY ScriptFacts DEF Return, CallOK
<1>2. \A p : Made(p)' <=> Made(p)
  BY <1>1 DEF Made
<1>3. \A p : Over(p)' <=> Over(p) \/ (script[at][1] = "destroy" /\ This = p)
  BY <1>1 DEF Over, This
<1>4. QED
  BY <1>1, <1>2, <1>3 DEF ScriptInv

\* A call in progress is on a pool that was made before and has not been freed.
LEMMA UseFacts ==
  ASSUME CallOK, at \in DOMAIN script
  PROVE  /\ This \in Pools /\ ~Over(This)
         /\ script[at][1] = "init" =>
              /\ script[at][3] \in 1 .. MaxThreads
              /\ \A i \in DOMAIN script : i < at => script[i][2] # This
         /\ script[at][1] # "init" =>
              \E i \in DOMAIN script : i < at /\ script[i][1] = "init" /\ script[i][2] = This
<1>1. Proper(script) /\ script[at] \in Calls /\ at \in Nat /\ \A i \in DOMAIN script : i \in Nat
  BY ScriptFacts DEF CallOK
<1>2. QED
  BY <1>1, CallFacts DEF Proper, This, Over

--------------------------------------------------------------------------------
(* Steps of workers                                                        *)

Away == {"none", "start", "starting", "gone"}

\* The caller is where it was.
Waits == UNCHANGED <<script, at, phase>>

\* While the caller waits, no pool comes or goes.
LEMMA WaitsFacts ==
  ASSUME Waits
  PROVE  /\ \A p : (Made(p)' <=> Made(p)) /\ (Over(p)' <=> Over(p))
         /\ This' = This
BY DEF Waits, Made, Over, This

\* Apart from t, workers stay where they are or wake up.
Others(t) == \A u \in Threads \ {t} : pc'[u] = pc[u] \/ (pc[u] = "asleep" /\ pc'[u] = "wait")

\* What a post does: one sleeper of the pool wakes if there is one.
LEMMA PostFacts ==
  ASSUME PoolOK, NEW p \in Pools, NEW f \in [Threads -> Steps], Post(p, f)
  PROVE  /\ v' = [v EXCEPT ![p] = 1] /\ v' \in [Pools -> {0, 1}]
         /\ pc' \in [Threads -> Steps]
         /\ \A u \in Threads : pc'[u] = f[u] \/ (f[u] = "asleep" /\ pc'[u] = "wait")
         /\ (\E u \in Threads : Owner(u) = p /\ f[u] = "asleep")
              => \E u \in Threads : Owner(u) = p /\ pc'[u] = "wait"
<1>1. v' = [v EXCEPT ![p] = 1] /\ v' \in [Pools -> {0, 1}]
  BY DEF Post, Posted, PoolOK
<1>2. CASE Asleep(f, p) = {}
  <2>1. pc' = f
    BY <1>2 DEF Post
  <2>2. QED
    BY <1>1, <1>2, <2>1 DEF Asleep
<1>3. CASE Asleep(f, p) # {}
  <2>1. PICK u \in Asleep(f, p) : pc' = [f EXCEPT ![u] = "wait"]
    BY <1>3 DEF Post
  <2>2. u \in Threads /\ Owner(u) = p /\ f[u] = "asleep" /\ pc'[u] = "wait"
    BY <2>1 DEF Asleep
  <2>3. pc' \in [Threads -> Steps]
    BY <2>1 DEF Steps
  <2>4. QED
    BY <1>1, <2>1, <2>2, <2>3
<1>4. QED
  BY <1>2, <1>3

\* Workers that stay alive are counted as before.
LEMMA AliveSame ==
  ASSUME AliveInv, alive' = alive, \A u \in Threads : pc'[u] \in Away <=> pc[u] \in Away
  PROVE  AliveInv'
<1>1. \A p \in Pools : Alive(p)' = Alive(p)
  BY DEF Alive, Away
<1>2. QED
  BY <1>1 DEF AliveInv

\* A worker of a pool that was made disturbs no pool that was not.
LEMMA MadeSame ==
  ASSUME MadeInv, Waits, NEW t \in Threads, pc[t] # "none", Others(t),
         \A p \in Pools : p # Owner(t) => queue'[p] = queue[p] /\ v'[p] = v[p],
         pc'[t] \notin {"none", "start"}, pc'[t] = "starting" => pc[t] = "start"
  PROVE  MadeInv'
<1>1. \A u \in Threads : /\ pc'[u] = "none" <=> pc[u] = "none"
                         /\ pc'[u] \in {"none", "start", "starting"} => pc[u] \in {"none", "start", "starting"}
  BY DEF Others
<1>2. Made(Owner(t))
  BY ThreadFacts DEF MadeInv
<1>3. ASSUME NEW p \in Pools, ~Made(p)
      PROVE  queue'[p] = <<>> /\ v'[p] = 0 /\ \A u \in Threads : Owner(u) = p => pc'[u] = "none"
  BY <1>1, <1>2, <1>3 DEF MadeInv
<1>4. QED
  BY <1>1, <1>3, WaitsFacts DEF MadeInv, Waits

\* t takes the locks of the sections it enters and gives back those of the
\* sections it leaves.
Locking(t) ==
  /\ lock' \in [Pools \X Locks -> Threads \cup {Caller, Nobody}]
  /\ \A p \in Pools, name \in Locks : p # Owner(t) => lock'[<<p, name>>] = lock[<<p, name>>]
  /\ \A name \in Locks :
       /\ lock'[<<Owner(t), name>>] = IF pc'[t] \in Inside[name] THEN t
                                      ELSE IF pc[t] \in Inside[name] THEN Nobody
                                      ELSE lock[<<Owner(t), name>>]
       /\ pc'[t] \in Inside[name] => pc[t] \in Inside[name] \/ lock[<<Owner(t), name>>] = Nobody

\* A worker's step that does so keeps the account of the locks.
LEMMA LockSame ==
  ASSUME LockInv, Waits, NEW t \in Threads, Others(t), Locking(t)
  PROVE  LockInv'
<1>1. \A u \in Threads \ {t}, name \in Locks : pc'[u] \in Inside[name] <=> pc[u] \in Inside[name]
  BY LockNames DEF Others
<1>2. phase' = phase /\ This' = This
  BY WaitsFacts DEF Waits
<1>3. ASSUME NEW u \in Threads, NEW name \in Locks
      PROVE  pc'[u] \in Inside[name] <=> lock'[<<Owner(u), name>>] = u
  <2>1. CASE u = t
    BY <2>1, ThreadFacts DEF LockInv, Locking
  <2>2. CASE u # t /\ Owner(u) # Owner(t)
    BY <1>1, <2>2, ThreadFacts DEF LockInv, Locking
  <2>3. CASE u # t /\ Owner(u) = Owner(t)
    BY <1>1, <2>3, ThreadFacts DEF LockInv, Locking
  <2>4. QED
    BY <2>1, <2>2, <2>3
<1>4. ASSUME NEW p \in Pools, NEW name \in Locks
      PROVE  /\ lock'[<<p, name>>] \in Threads => Owner(lock'[<<p, name>>]) = p
             /\ lock'[<<p, name>>] = Caller <=> lock[<<p, name>>] = Caller
  <2>1. CASE p # Owner(t)
    BY <2>1 DEF LockInv, Locking
  <2>2. CASE p = Owner(t)
    BY <2>2, ThreadFacts DEF LockInv, Locking
  <2>3. QED
    BY <2>1, <2>2
<1>5. QED
  BY <1>2, <1>3, <1>4 DEF LockInv

\* What every step of a worker gives; its own moves are what remains to be seen.
Moved(t) ==
  /\ pc[t] # "none" /\ Others(t) /\ Locking(t)
  /\ pc'[t] \notin {"none", "start"}
  /\ pc'[t] = "starting" => pc[t] = "start"
  /\ \A p \in Pools : p # Owner(t) => queue'[p] = queue[p] /\ v'[p] = v[p]
  /\ PoolOK' /\ AliveInv' /\ JobInv'

\* pthread_mutex_lock.
LEMMA LockMoved ==
  ASSUME PoolsInv, NEW t \in Threads, Lock(t)
  PROVE  Moved(t)
<1> DEFINE name == Section[pc[t]][1]
           to == Section[pc[t]][2]
<1>1. /\ pc[t] \in {"start", "wait", "count", "pull", "repost", "uncount", "leave"}
      /\ lock[<<Owner(t), name>>] = Nobody
      /\ lock' = [lock EXCEPT ![<<Owner(t), name>>] = t]
      /\ pc' = [pc EXCEPT ![t] = to]
      /\ UNCHANGED <<queue, v, alive, job, done>>
  BY SectionFacts DEF Lock, Mutex, Goto
<1>2. /\ name \in Locks /\ to \in Steps /\ to \notin {"none", "start"}
      /\ to = "starting" => pc[t] = "start"
      /\ to \in Away <=> pc[t] \in Away
      /\ \A x \in Locks : to \in Inside[x] <=> pc[t] \in Inside[x] \/ x = name
      /\ to \in {"repost", "reposting", "run"} => pc[t] \in {"repost", "reposting", "run"}
      /\ pc[t] # "none"
  BY <1>1, SectionFacts, LockNames DEF Steps, Away
<1> HIDE DEF name, to
<1>3. PoolOK /\ Owner(t) \in Pools
  BY ThreadFacts DEF PoolsInv
<1>a. pc' = [pc EXCEPT ![t] = to] /\ to \in Steps
  BY <1>1, <1>2
<1>b. lock' = [lock EXCEPT ![<<Owner(t), name>>] = t]
  BY <1>1
<1>4. /\ pc'[t] = to /\ \A u \in Threads \ {t} : pc'[u] = pc[u]
      /\ pc' \in [Threads -> Steps]
  BY <1>3, <1>a DEF PoolOK
<1>5. Others(t)
  BY <1>4 DEF Others
<1>6. lock' \in [Pools \X Locks -> Threads \cup {Caller, Nobody}]
  BY <1>b, <1>3 DEF PoolOK
<1>7. /\ lock'[<<Owner(t), name>>] = t
      /\ \A p \in Pools, x \in Locks : p # Owner(t) \/ x # name => lock'[<<p, x>>] = lock[<<p, x>>]
  <2>1. lock \in [Pools \X Locks -> Threads \cup {Caller, Nobody}] /\ <<Owner(t), name>> \in Pools \X Locks
    BY <1>2, <1>3 DEF PoolOK
  <2>2. QED
    BY <1>b, <2>1
<1>8. \A x \in Locks : pc[t] \in Inside[x] <=> lock[<<Owner(t), x>>] = t
  BY DEF PoolsInv, LockInv
<1>9. Locking(t)
  BY <1>1, <1>2, <1>3, <1>4, <1>6, <1>7, <1>8 DEF Locking
<1>10. PoolOK'
  BY <1>1, <1>3, <1>4, <1>6 DEF PoolOK
<1>11. AliveInv'
  BY <1>1, <1>2, <1>4, AliveSame DEF PoolsInv
<1>12. JobInv'
  BY <1>1, <1>2, <1>4 DEF PoolsInv, JobInv
<1>13. \A p \in Pools : queue'[p] = queue[p] /\ v'[p] = v[p]
  BY <1>1
<1>14. QED
  BY <1>2, <1>4, <1>5, <1>9, <1>10, <1>11, <1>12, <1>13 DEF Moved

\* A step of a worker that takes no lock and gives none back, and after which it
\* is alive as before and has the job it needs.
LEMMA PlainMoved ==
  ASSUME PoolsInv, NEW t \in Threads, PoolOK', Others(t), UNCHANGED <<lock, alive>>,
         \A p \in Pools : p # Owner(t) => queue'[p] = queue[p] /\ v'[p] = v[p],
         \A u \in Threads \ {t} : job'[u] = job[u],
         pc[t] \notin {"none", "start", "starting"}, pc'[t] \notin {"none", "start", "starting"},
         pc'[t] \in Away <=> pc[t] \in Away,
         \A name \in Locks : pc'[t] \in Inside[name] <=> pc[t] \in Inside[name],
         pc'[t] \in {"repost", "reposting", "run"} => job'[t] \in Places
  PROVE  Moved(t)
<1>1. \A u \in Threads : pc'[u] \in Away <=> pc[u] \in Away
  BY DEF Others, Away
<1>2. AliveInv'
  BY <1>1, AliveSame DEF PoolsInv
<1>3. JobInv'
  BY DEF PoolsInv, JobInv, Others
<1>4. Locking(t)
  BY ThreadFacts DEF PoolsInv, PoolOK, LockInv, Locking
<1>5. QED
  BY <1>2, <1>3, <1>4 DEF Moved

\* The tests of threads_keepalive.
LEMMA TestMoved ==
  ASSUME PoolsInv, NEW t \in Threads, Test(t)
  PROVE  Moved(t)
<1>1. /\ pc[t] \in {"loop", "check"} /\ UNCHANGED <<queue, v, alive, lock, job, done>>
      /\ \E to \in {"wait", "leave", "count", "loop"} : pc' = [pc EXCEPT ![t] = to]
  BY DEF Test, Goto
<1>2. PICK to \in {"wait", "leave", "count", "loop"} : pc' = [pc EXCEPT ![t] = to]
  BY <1>1
<1>3. PoolOK
  BY DEF PoolsInv
<1>4. /\ pc' \in [Threads -> Steps] /\ pc'[t] = to
      /\ \A u \in Threads \ {t} : pc'[u] = pc[u]
  BY <1>2, <1>3 DEF PoolOK, Steps
<1>5. PoolOK' /\ Others(t)
  BY <1>1, <1>3, <1>4 DEF PoolOK, Others
<1>6. /\ pc[t] \notin Away /\ to \notin Away /\ to \notin {"none", "start", "starting"}
      /\ to \notin {"repost", "reposting", "run"}
      /\ \A name \in Locks : pc[t] \notin Inside[name] /\ to \notin Inside[name]
  BY <1>1, <1>2, LockNames DEF Away
<1>7. pc[t] \notin {"none", "start", "starting"}
  BY <1>1
<1>8. QED
  BY <1>1, <1>4, <1>5, <1>6, <1>7, PlainMoved

\* A job is run.
LEMMA RunMoved ==
  ASSUME PoolsInv, NEW t \in Threads, Run(t)
  PROVE  Moved(t)
<1>1. /\ pc[t] = "run" /\ UNCHANGED <<queue, v, alive, lock>> /\ job' = [job EXCEPT ![t] = 0]
      /\ pc' = [pc EXCEPT ![t] = "uncount"] /\ done' = done \cup {job[t]}
  BY DEF Run, Goto
<1>2. PoolOK /\ job[t] \in Places
  BY <1>1 DEF PoolsInv, JobInv
<1>3. /\ pc' \in [Threads -> Steps] /\ pc'[t] = "uncount"
      /\ \A u \in Threads \ {t} : pc'[u] = pc[u] /\ job'[u] = job[u]
  BY <1>1, <1>2 DEF PoolOK, Steps
<1>4. job' \in [Threads -> {0} \cup Places] /\ done' \in SUBSET Places
  BY <1>1, <1>2 DEF PoolOK
<1>5. PoolOK' /\ Others(t)
  BY <1>1, <1>2, <1>3, <1>4 DEF PoolOK, Others
<1>6. /\ pc[t] \notin Away /\ pc'[t] \notin Away
      /\ \A name \in Locks : pc[t] \notin Inside[name] /\ pc'[t] \notin Inside[name]
  BY <1>1, <1>3, LockNames DEF Away
<1>7. QED
  BY <1>1, <1>3, <1>5, <1>6, PlainMoved

\* pthread_cond_wait returns unasked.
LEMMA SpuriousMoved ==
  ASSUME PoolsInv, NEW t \in Threads, SpuriousWake(t)
  PROVE  Moved(t)
<1>1. /\ pc[t] = "asleep" /\ UNCHANGED <<queue, v, alive, lock, job, done>>
      /\ pc' = [pc EXCEPT ![t] = "wait"]
  BY DEF SpuriousWake, Goto
<1>2. PoolOK
  BY DEF PoolsInv
<1>3. /\ pc' \in [Threads -> Steps] /\ pc'[t] = "wait"
      /\ \A u \in Threads \ {t} : pc'[u] = pc[u]
  BY <1>1, <1>2 DEF PoolOK, Steps
<1>4. PoolOK' /\ Others(t)
  BY <1>1, <1>2, <1>3 DEF PoolOK, Others
<1>5. /\ pc[t] \notin Away /\ pc'[t] \notin Away
      /\ \A name \in Locks : pc[t] \notin Inside[name] /\ pc'[t] \notin Inside[name]
  BY <1>1, <1>3, LockNames DEF Away
<1>6. QED
  BY <1>1, <1>3, <1>4, <1>5, PlainMoved

\* Leaving a section with one lock gives that lock back.
LEMMA ReleaseLocking ==
  ASSUME PoolsInv, NEW t \in Threads, NEW name \in Locks, Release(t, name), pc[t] \in Inside[name],
         \A x \in Locks : pc'[t] \in Inside[x] <=> pc[t] \in Inside[x] /\ x # name
  PROVE  Locking(t)
<1>1. /\ lock' = [lock EXCEPT ![<<Owner(t), name>>] = Nobody]
      /\ lock \in [Pools \X Locks -> Threads \cup {Caller, Nobody}]
      /\ <<Owner(t), name>> \in Pools \X Locks /\ Owner(t) \in Pools
  BY ThreadFacts DEF Release, Mutex, PoolsInv, PoolOK
<1>2. /\ lock' \in [Pools \X Locks -> Threads \cup {Caller, Nobody}]
      /\ lock'[<<Owner(t), name>>] = Nobody
      /\ \A p \in Pools, x \in Locks : p # Owner(t) \/ x # name => lock'[<<p, x>>] = lock[<<p, x>>]
  BY <1>1
<1>3. \A x \in Locks : pc[t] \in Inside[x] <=> lock[<<Owner(t), x>>] = t
  BY DEF PoolsInv, LockInv
<1>4. QED
  BY <1>1, <1>2, <1>3 DEF Locking

\* bsem_wait takes the token or goes to sleep.
LEMMA TokenMoved ==
  ASSUME PoolsInv, NEW t \in Threads, Token(t)
  PROVE  Moved(t)
<1>1. /\ pc[t] = "token" /\ UNCHANGED <<queue, alive, job, done>> /\ Release(t, "bsem")
      /\ v' = [v EXCEPT ![Owner(t)] = 0]
      /\ \E to \in {"check", "asleep"} : pc' = [pc EXCEPT ![t] = to]
  BY DEF Token, Goto
<1>2. PICK to \in {"check", "asleep"} : pc' = [pc EXCEPT ![t] = to]
  BY <1>1
<1>3. PoolOK /\ Owner(t) \in Pools
  BY ThreadFacts DEF PoolsInv
<1>4. /\ pc' \in [Threads -> Steps] /\ pc'[t] = to
      /\ \A u \in Threads \ {t} : pc'[u] = pc[u]
  BY <1>2, <1>3 DEF PoolOK, Steps
<1>5. v' \in [Pools -> {0, 1}] /\ \A p \in Pools : p # Owner(t) => v'[p] = v[p]
  BY <1>1, <1>3 DEF PoolOK
<1>6. /\ pc[t] \notin Away /\ to \notin Away
      /\ \A x \in Locks : to \notin Inside[x] /\ (pc[t] \in Inside[x] <=> x = "bsem")
      /\ "bsem" \in Locks
  BY <1>1, <1>2, LockNames DEF Away
<1>7. Locking(t)
  BY <1>1, <1>4, <1>6, ReleaseLocking
<1>8. PoolOK' /\ Others(t)
  BY <1>1, <1>3, <1>4, <1>5, <1>7 DEF PoolOK, Others, Locking
<1>9. \A u \in Threads : pc'[u] \in Away <=> pc[u] \in Away
  BY <1>4, <1>6
<1>10. AliveInv'
  BY <1>1, <1>9, AliveSame DEF PoolsInv
<1>11. JobInv'
  BY <1>1, <1>2, <1>4 DEF PoolsInv, JobInv
<1>12. QED
  BY <1>1, <1>4, <1>5, <1>6, <1>7, <1>8, <1>10, <1>11 DEF Moved, Away

\* num_threads_alive follows the workers that start and leave.
LEMMA CountedMoved ==
  ASSUME PoolsInv, NEW t \in Threads, Counted(t)
  PROVE  Moved(t)
<1> DEFINE to == AfterCount[pc[t]]
           n == IF pc[t] = "starting" THEN alive[Owner(t)] + 1
                ELSE IF pc[t] = "leaving" THEN alive[Owner(t)] - 1 ELSE alive[Owner(t)]
<1>1. /\ pc[t] \in {"starting", "counting", "uncounting", "leaving"}
      /\ UNCHANGED <<queue, v, job, done>> /\ Release(t, "count")
      /\ pc' = [pc EXCEPT ![t] = to] /\ alive' = [alive EXCEPT ![Owner(t)] = n]
  BY SectionFacts DEF Counted, Goto
<1>2. /\ to \in Steps /\ to \in {"loop", "pull", "gone"}
      /\ to = "gone" <=> pc[t] = "leaving"
      /\ \A x \in Locks : to \notin Inside[x] /\ (pc[t] \in Inside[x] <=> x = "count")
      /\ "count" \in Locks
  BY <1>1, SectionFacts, LockNames DEF Steps
<1> HIDE DEF to
<1>3. PoolOK /\ Owner(t) \in Pools
  BY ThreadFacts DEF PoolsInv
<1>4. /\ pc' \in [Threads -> Steps] /\ pc'[t] = to
      /\ \A u \in Threads \ {t} : pc'[u] = pc[u]
  <2>1. pc' = [pc EXCEPT ![t] = to]
    BY <1>1
  <2>2. QED
    BY <1>2, <1>3, <2>1 DEF PoolOK
<1>5. Locking(t)
  BY <1>1, <1>2, <1>4, ReleaseLocking
<1>6. /\ IsFiniteSet(Alive(Owner(t))) /\ Cardinality(Alive(Owner(t))) \in Nat
      /\ alive[Owner(t)] = Cardinality(Alive(Owner(t)))
  BY <1>3, AliveBound DEF PoolsInv, AliveInv
<1>7. n \in Nat /\ n = Cardinality(Alive(Owner(t))')
  <2>1. CASE pc[t] = "starting"
    <3>1. Alive(Owner(t))' = Alive(Owner(t)) \cup {t} /\ t \notin Alive(Owner(t))
      BY <1>2, <1>4, <2>1 DEF Alive
    <3>2. Cardinality(Alive(Owner(t)) \cup {t}) = Cardinality(Alive(Owner(t))) + 1
      BY <1>6, <3>1, FS_AddElement
    <3>3. QED
      BY <1>6, <2>1, <3>1, <3>2
  <2>2. CASE pc[t] = "leaving"
    <3>1. Alive(Owner(t))' = Alive(Owner(t)) \ {t} /\ t \in Alive(Owner(t))
      BY <1>2, <1>4, <2>2 DEF Alive
    <3>2. Cardinality(Alive(Owner(t)) \ {t}) = Cardinality(Alive(Owner(t))) - 1
          /\ Cardinality(Alive(Owner(t)) \ {t}) \in Nat
      BY <1>6, <3>1, FS_RemoveElement, FS_CardinalityType
    <3>3. QED
      BY <1>6, <2>2, <3>1, <3>2
  <2>3. CASE pc[t] \in {"counting", "uncounting"}
    <3>1. Alive(Owner(t))' = Alive(Owner(t))
      BY <1>2, <1>4, <2>3 DEF Alive
    <3>2. QED
      BY <1>6, <2>3, <3>1
  <2>4. QED
    BY <1>1, <2>1, <2>2, <2>3
<1> HIDE DEF n
<1>8. /\ alive' \in [Pools -> Nat] /\ alive'[Owner(t)] = n
      /\ \A p \in Pools : p # Owner(t) => alive'[p] = alive[p]
  BY <1>1, <1>3, <1>7 DEF PoolOK
<1>9. AliveInv'
  <2>1. ASSUME NEW p \in Pools, p # Owner(t) PROVE Alive(p)' = Alive(p)
    BY <1>4, <2>1 DEF Alive
  <2>2. QED
    BY <1>7, <1>8, <2>1 DEF PoolsInv, AliveInv
<1>10. PoolOK' /\ Others(t)
  BY <1>1, <1>3, <1>4, <1>5, <1>8 DEF PoolOK, Others, Locking
<1>11. JobInv'
  BY <1>1, <1>2, <1>4 DEF PoolsInv, JobInv
<1>12. QED
  BY <1>1, <1>2, <1>4, <1>5, <1>9, <1>10, <1>11 DEF Moved

\* jobqueue_pull, with rwmutex kept for the post or given back.
LEMMA PullMoved ==
  ASSUME PoolsInv, NEW t \in Threads, Pull(t)
  PROVE  Moved(t)
<1> DEFINE jobs == queue[Owner(t)]
           rest == IF jobs = <<>> THEN jobs ELSE Tail(jobs)
           first == IF jobs = <<>> THEN 0 ELSE Head(jobs)
<1>1. /\ pc[t] = "pulling" /\ UNCHANGED <<v, alive, done>>
      /\ queue' = [queue EXCEPT ![Owner(t)] = rest] /\ job' = [job EXCEPT ![t] = first]
  BY DEF Pull
<1>2. \/ /\ pc' = [pc EXCEPT ![t] = "repost"] /\ lock' = lock /\ jobs # <<>>
      \/ /\ pc' = [pc EXCEPT ![t] = IF jobs = <<>> THEN "uncount" ELSE "run"] /\ Release(t, "rw")
  <2>1. jobs \in Seq(Places)
    BY ThreadFacts DEF PoolsInv, PoolOK
  <2>2. More(jobs) => jobs # <<>>
    BY <2>1 DEF More
  <2>3. QED
    BY <2>2 DEF Pull, Goto
<1>3. PoolOK /\ Owner(t) \in Pools
  BY ThreadFacts DEF PoolsInv
<1>4. /\ rest \in Seq(Places) /\ first \in {0} \cup Places
      /\ jobs # <<>> => first \in Places
  BY <1>3 DEF PoolOK
<1> HIDE DEF rest, first
<1>5. /\ queue' \in [Pools -> Seq(Places)] /\ \A p \in Pools : p # Owner(t) => queue'[p] = queue[p]
  BY <1>1, <1>3, <1>4 DEF PoolOK
<1>6. /\ job' \in [Threads -> {0} \cup Places] /\ job'[t] = first
      /\ \A u \in Threads \ {t} : job'[u] = job[u]
  BY <1>1, <1>3, <1>4 DEF PoolOK
<1>7. CASE pc' = [pc EXCEPT ![t] = "repost"] /\ lock' = lock /\ jobs # <<>>
  <2>1. /\ pc' \in [Threads -> Steps] /\ pc'[t] = "repost"
        /\ \A u \in Threads \ {t} : pc'[u] = pc[u]
    BY <1>3, <1>7 DEF PoolOK, Steps
  <2>2. PoolOK' /\ Others(t)
    BY <1>1, <1>3, <1>5, <1>6, <1>7, <2>1 DEF PoolOK, Others
  <2>3. \A name \in Locks : pc'[t] \in Inside[name] <=> pc[t] \in Inside[name]
    BY <1>1, <2>1, LockNames
  <2>4. pc[t] \notin Away /\ pc'[t] \notin Away /\ pc[t] \notin {"none", "start", "starting"}
    BY <1>1, <2>1 DEF Away
  <2>5. QED
    BY <1>1, <1>4, <1>5, <1>6, <1>7, <2>1, <2>2, <2>3, <2>4, PlainMoved
<1>8. CASE pc' = [pc EXCEPT ![t] = IF jobs = <<>> THEN "uncount" ELSE "run"] /\ Release(t, "rw")
  <2>1. /\ pc' \in [Threads -> Steps] /\ pc'[t] = IF jobs = <<>> THEN "uncount" ELSE "run"
        /\ \A u \in Threads \ {t} : pc'[u] = pc[u]
    BY <1>3, <1>8 DEF PoolOK, Steps
  <2>2. /\ "rw" \in Locks /\ pc[t] \in Inside["rw"]
        /\ \A x \in Locks : pc'[t] \in Inside[x] <=> pc[t] \in Inside[x] /\ x # "rw"
    BY <1>1, <2>1, LockNames
  <2>3. Locking(t)
    BY <1>8, <2>2, ReleaseLocking
  <2>4. PoolOK' /\ Others(t)
    BY <1>1, <1>3, <1>5, <1>6, <2>1, <2>3 DEF PoolOK, Others, Locking
  <2>5. \A u \in Threads : pc'[u] \in Away <=> pc[u] \in Away
    BY <1>1, <2>1 DEF Away
  <2>6. AliveInv'
    BY <1>1, <2>5, AliveSame DEF PoolsInv
  <2>7. JobInv'
    BY <1>4, <1>6, <2>1 DEF PoolsInv, JobInv
  <2>8. QED
    BY <1>1, <1>5, <2>1, <2>3, <2>4, <2>6, <2>7 DEF Moved
<1>9. QED
  BY <1>2, <1>7, <1>8

\* The post for the jobs that remain, and the release of both locks.
LEMMA RepostMoved ==
  ASSUME PoolsInv, NEW t \in Threads, Repost(t)
  PROVE  Moved(t)
<1> DEFINE f == [pc EXCEPT ![t] = "run"]
<1>1. /\ pc[t] = "reposting" /\ UNCHANGED <<queue, alive, job, done>> /\ Post(Owner(t), f)
      /\ lock' = [lock EXCEPT ![<<Owner(t), "bsem">>] = Nobody, ![<<Owner(t), "rw">>] = Nobody]
  BY DEF Repost, Mutex
<1>2. PoolOK /\ Owner(t) \in Pools
  BY ThreadFacts DEF PoolsInv
<1>3. /\ f \in [Threads -> Steps] /\ f[t] = "run"
      /\ \A u \in Threads \ {t} : f[u] = pc[u]
  BY <1>2 DEF PoolOK, Steps
<1> HIDE DEF f
<1>4. /\ v' = [v EXCEPT ![Owner(t)] = 1] /\ v' \in [Pools -> {0, 1}]
      /\ pc' \in [Threads -> Steps]
      /\ \A u \in Threads : pc'[u] = f[u] \/ (f[u] = "asleep" /\ pc'[u] = "wait")
  BY <1>1, <1>2, <1>3, PostFacts
<1>5. Others(t) /\ pc'[t] = "run"
  BY <1>3, <1>4 DEF Others
<1>6. \A p \in Pools : p # Owner(t) => queue'[p] = queue[p] /\ v'[p] = v[p]
  BY <1>1, <1>2, <1>4 DEF PoolOK
<1>7. "bsem" \in Locks /\ "rw" \in Locks /\ "bsem" # "rw" /\ <<Owner(t), "bsem">> # <<Owner(t), "rw">>
  BY LockNames
<1>8. /\ lock' \in [Pools \X Locks -> Threads \cup {Caller, Nobody}]
      /\ lock'[<<Owner(t), "bsem">>] = Nobody /\ lock'[<<Owner(t), "rw">>] = Nobody
      /\ \A p \in Pools, x \in Locks : p # Owner(t) \/ x \notin {"bsem", "rw"} => lock'[<<p, x>>] = lock[<<p, x>>]
  <2>1. /\ lock \in [Pools \X Locks -> Threads \cup {Caller, Nobody}]
        /\ <<Owner(t), "bsem">> \in Pools \X Locks /\ <<Owner(t), "rw">> \in Pools \X Locks
    BY <1>2, <1>7 DEF PoolOK
  <2>2. QED
    BY <1>1, <1>7, <2>1
<1>9. \A x \in Locks : pc[t] \in Inside[x] <=> x \in {"bsem", "rw"}
  BY <1>1, LockNames
<1>10. \A x \in Locks : pc'[t] \notin Inside[x]
  BY <1>5, LockNames
<1>11. Locking(t)
  BY <1>2, <1>8, <1>9, <1>10 DEF Locking
<1>12. PoolOK'
  BY <1>1, <1>2, <1>4, <1>11 DEF PoolOK, Locking
<1>13. \A u \in Threads : pc'[u] \in Away <=> pc[u] \in Away
  BY <1>1, <1>5 DEF Away, Others
<1>14. AliveInv'
  BY <1>1, <1>13, AliveSame DEF PoolsInv
<1>15. JobInv'
  BY <1>1, <1>5 DEF PoolsInv, JobInv, Others
<1>16. QED
  BY <1>1, <1>5, <1>6, <1>11, <1>12, <1>14, <1>15 DEF Moved

\* Every step of a worker keeps the invariant.
LEMMA WorkerStep ==
  ASSUME PoolsInv, NEW t \in Threads, Work(t) \/ SpuriousWake(t)
  PROVE  PoolsInv' /\ Moved(t)
<1>1. Moved(t)
  BY LockMoved, TestMoved, TokenMoved, CountedMoved, PullMoved, RepostMoved, RunMoved, SpuriousMoved DEF Work
<1>2. UNCHANGED <<callVars, holdVars>>
  BY DEF Work, SpuriousWake
<1>3. Waits /\ CallOK' /\ ScriptInv'
  BY <1>2 DEF callVars, holdVars, Waits, PoolsInv, CallOK, ScriptInv
<1>4. LockInv' /\ MadeInv'
  BY <1>1, <1>3, LockSame, MadeSame DEF PoolsInv, Moved
<1>5. QED
  BY <1>1, <1>3, <1>4 DEF PoolsInv, Moved

--------------------------------------------------------------------------------
(* Steps of the caller                                                     *)

\* Workers stay where they are or wake up.
Calm == \A u \in Threads : pc'[u] = pc[u] \/ (pc[u] = "asleep" /\ pc'[u] = "wait")

\* No pool is made or finished by the step.
Settled ==
  /\ script' = script
  /\ \A p \in Pools : Made(p)' <=> Made(p)
  /\ \A i \in DOMAIN script : script[i][1] = "init" =>
       /\ i < at' <=> i < at
       /\ i = at' /\ phase' = "spinning" => i = at /\ phase = "spinning"

\* Pools that have not been made are left alone.
LEMMA MadeSettled ==
  ASSUME MadeInv, Settled, Calm,
         \A p \in Pools : ~Made(p) => queue'[p] = <<>> /\ v'[p] = 0
  PROVE  MadeInv'
<1>1. \A u \in Threads : /\ pc'[u] = "none" <=> pc[u] = "none"
                         /\ pc'[u] \in {"none", "start", "starting"} => pc[u] \in {"none", "start", "starting"}
  BY DEF Calm
<1>2. QED
  BY <1>1 DEF MadeInv, Settled

\* A return of a call other than thpool_init.
LEMMA ReturnSettled ==
  ASSUME CallOK, ScriptInv, Return, at \in DOMAIN script, script[at][1] # "init"
  PROVE  Settled
<1>1. /\ at' = at + 1 /\ phase' = "call" /\ script' = script /\ at \in Nat
      /\ \A i \in DOMAIN script : i \in Nat /\ (i < at' <=> i < at \/ i = at)
  BY ScriptFacts DEF Return, CallOK
<1>2. \A p \in Pools : Made(p)' <=> Made(p)
  BY ReturnFacts
<1>3. QED
  BY <1>1, <1>2 DEF Settled

\* The begin of a call other than thpool_init.
LEMMA EnterSettled ==
  ASSUME phase # "spinning", NEW step, step # "spinning", Enter(step)
  PROVE  Settled /\ (\A p : Over(p)' <=> Over(p)) /\ This' = This
BY DEF Enter, Settled, Made, Over, This

\* A caller that waits makes and finishes no pool.
LEMMA WaitsSettled ==
  ASSUME Waits
  PROVE  Settled
BY WaitsFacts DEF Waits, Settled

\* Locks that nobody takes or gives back.
LEMMA LockCalm ==
  ASSUME LockInv, Calm, lock' = lock, phase # "posting", phase' # "posting"
  PROVE  LockInv'
<1>1. \A u \in Threads, name \in Locks : pc'[u] \in Inside[name] <=> pc[u] \in Inside[name]
  BY LockNames DEF Calm
<1>2. QED
  BY <1>1 DEF LockInv

\* Workers that stay or wake are counted as before and have the jobs they had.
LEMMA CalmFacts ==
  ASSUME AliveInv, JobInv, Calm, alive' = alive, job' = job
  PROVE  AliveInv' /\ JobInv'
<1>1. \A u \in Threads : pc'[u] \in Away <=> pc[u] \in Away
  BY DEF Calm, Away
<1>2. QED
  BY <1>1, AliveSame DEF Calm, JobInv

\* thpool_init makes the workers of a pool that had none.
LEMMA InitCallStep ==
  ASSUME PoolsInv, InitCall
  PROVE  PoolsInv'
<1>1. /\ phase = "call" /\ at \in DOMAIN script /\ script[at][1] = "init"
      /\ phase' = "spinning" /\ UNCHANGED <<script, at, queue, v, alive, lock, job, done, signalled, pending, handler>>
      /\ keepalive' = TRUE /\ onHold' = FALSE
  BY DEF InitCall, Calling, Enter
<1>2. PICK made \in SUBSET Asked : pc' = [t \in Threads |-> IF t \in made THEN "start" ELSE pc[t]]
  BY DEF InitCall
<1>3. /\ This \in Pools /\ \A i \in DOMAIN script : i < at => script[i][2] # This
      /\ script[at][3] \in 1 .. MaxThreads
  BY <1>1, UseFacts DEF PoolsInv
<1>4. ~Made(This) /\ \A t \in Threads : Owner(t) = This => pc[t] = "none"
  BY <1>1, <1>3 DEF PoolsInv, MadeInv, Made
<1>5. \A t \in made : Owner(t) = This /\ t[2] \in 1 .. script[at][3]
  BY DEF Asked, Owner
<1>6. \A t \in Threads : /\ pc'[t] = IF t \in made THEN "start" ELSE pc[t]
                         /\ t \in made => pc[t] = "none" /\ Owner(t) = This
  BY <1>2, <1>4, <1>5
<1>7. PoolOK'
  BY <1>1, <1>2 DEF PoolsInv, PoolOK, Steps
<1>8. CallOK' /\ ScriptInv'
  BY <1>1 DEF PoolsInv, CallOK, ScriptInv
<1>9. LockInv'
  <2>1. \A u \in Threads, name \in Locks : pc'[u] \in Inside[name] <=> pc[u] \in Inside[name]
    BY <1>6, LockNames
  <2>2. QED
    BY <1>1, <2>1 DEF PoolsInv, LockInv
<1>10. AliveInv'
  BY <1>1, <1>6, AliveSame DEF PoolsInv, Away
<1>11. JobInv'
  BY <1>1, <1>6 DEF PoolsInv, JobInv
<1>12. MadeInv'
  <2>1. \A p : Made(p)' <=> Made(p) \/ p = This
    BY <1>1 DEF Made, This
  <2>2. ASSUME NEW p \in Pools, ~Made(p)' PROVE queue'[p] = <<>> /\ v'[p] = 0 /\ \A t \in Threads : Owner(t) = p => pc'[t] = "none"
    BY <1>1, <1>6, <2>1, <2>2 DEF PoolsInv, MadeInv
  <2>3. ASSUME NEW i \in DOMAIN script, script[i][1] = "init", i < at \/ i = at,
               NEW t \in Threads, Owner(t) = script[i][2]
        PROVE  /\ t[2] > script[i][3] => pc'[t] = "none"
               /\ i < at /\ t[2] <= script[i][3] => pc'[t] \notin {"none", "start", "starting"}
    <3>1. CASE i < at
      <4>1. Owner(t) # This
        BY <1>3, <2>3, <3>1
      <4>2. pc'[t] = pc[t]
        BY <1>6, <4>1
      <4>3. QED
        BY <2>3, <3>1, <4>2 DEF PoolsInv, MadeInv
    <3>2. CASE i = at
      <4>1. Owner(t) = This /\ pc[t] = "none" /\ at \in Nat
        BY <1>4, <2>3, <3>2 DEF This, PoolsInv, CallOK
      <4>2. ASSUME t[2] > script[i][3] PROVE t \notin made
        BY <1>3, <1>5, <3>2, <4>2, ThreadFacts
      <4>3. QED
        BY <1>6, <3>2, <4>1, <4>2
    <3>3. QED
      BY <2>3, <3>1, <3>2
  <2>4. QED
    BY <1>1, <2>2, <2>3 DEF MadeInv
<1>13. QED
  BY <1>7, <1>8, <1>9, <1>10, <1>11, <1>12 DEF PoolsInv

\* When the counts agree, every thread that was asked for is alive.
LEMMA AllAlive ==
  ASSUME PoolsInv, phase = "spinning", Initialised
  PROVE  Alive(This) = Asked
<1>1. at \in DOMAIN script /\ script[at][1] = "init"
  BY DEF PoolsInv, ScriptInv
<1>2. This \in Pools /\ script[at][3] \in 1 .. MaxThreads
  BY <1>1, UseFacts DEF PoolsInv
<1>3. Alive(This) \subseteq Asked
  <2> SUFFICES ASSUME NEW t \in Alive(This) PROVE t \in Asked
    OBVIOUS
  <2>1. t \in Threads /\ Owner(t) = This /\ pc[t] # "none"
    BY DEF Alive
  <2>2. t = <<This, t[2]>> /\ t[2] \in 1 .. MaxThreads
    BY <2>1, ThreadFacts
  <2>3. ~(t[2] > script[at][3])
    BY <1>1, <2>1 DEF PoolsInv, MadeInv, This
  <2>4. QED
    BY <1>2, <2>2, <2>3, ThreadFacts DEF Asked
<1>4. IsFiniteSet(Asked)
  <2>1. IsFiniteSet({This})
    BY FS_Singleton
  <2>2. IsFiniteSet(1 .. script[at][3])
    BY <1>2, FS_Interval
  <2>3. QED
    BY <2>1, <2>2, FS_Product DEF Asked
<1>5. Cardinality(Alive(This)) = Cardinality(Asked)
  BY <1>2 DEF PoolsInv, AliveInv, Initialised
<1>6. QED
  BY <1>3, <1>4, <1>5, FS_Subset

\* thpool_init returns with all its workers alive.
LEMMA InitReturnStep ==
  ASSUME PoolsInv, InitReturn
  PROVE  PoolsInv'
<1>1. phase = "spinning" /\ Return /\ UNCHANGED <<poolVars, keepalive, signalled, holdVars>>
  BY DEF InitReturn
<1>2. at \in DOMAIN script /\ script[at][1] = "init" /\ at \in Nat /\ \A i \in DOMAIN script : i \in Nat
  BY <1>1, ScriptFacts DEF PoolsInv, ScriptInv, CallOK
<1>3. at' = at + 1 /\ phase' = "call" /\ script' = script
  BY <1>1 DEF Return
<1>4. (\A p : Made(p)' <=> Made(p)) /\ ScriptInv' /\ at' \in 1 .. Len(script) + 1
  BY <1>1, <1>2, ReturnFacts DEF PoolsInv
<1>5. CallOK' /\ PoolOK'
  BY <1>1, <1>3, <1>4 DEF PoolsInv, CallOK, PoolOK, poolVars, holdVars
<1>6. Calm
  BY <1>1 DEF poolVars, Calm
<1>7. LockInv' /\ AliveInv' /\ JobInv'
  BY <1>1, <1>3, <1>6, LockCalm, CalmFacts DEF PoolsInv, poolVars
<1>8. Alive(This) = Asked
  BY <1>1, AllAlive DEF InitReturn
<1>9. ASSUME NEW i \in DOMAIN script, script[i][1] = "init", i < at', NEW t \in Threads, Owner(t) = script[i][2]
      PROVE  /\ t[2] > script[i][3] => pc[t] = "none"
             /\ t[2] <= script[i][3] => pc[t] \notin {"none", "start", "starting"}
  <2>1. CASE i < at
    BY <1>9, <2>1 DEF PoolsInv, MadeInv
  <2>2. CASE i = at
    <3>1. t = <<This, t[2]>> /\ t[2] \in 1 .. MaxThreads /\ script[at][3] \in 1 .. MaxThreads
      BY <1>2, <1>9, <2>2, ThreadFacts, UseFacts DEF This, PoolsInv
    <3>2. t[2] <= script[i][3] => t \in Asked
      BY <2>2, <3>1 DEF Asked
    <3>3. t[2] > script[i][3] => pc[t] = "none"
      BY <1>1, <1>9, <2>2 DEF PoolsInv, MadeInv
    <3>4. QED
      BY <1>8, <3>2, <3>3 DEF Alive
  <2>3. i < at \/ i = at
    BY <1>2, <1>3, <1>9
  <2>4. QED
    BY <2>1, <2>2, <2>3
<1>10. MadeInv'
  BY <1>1, <1>3, <1>4, <1>9 DEF PoolsInv, MadeInv, poolVars
<1>11. QED
  BY <1>4, <1>5, <1>7, <1>10 DEF PoolsInv

\* jobqueue_push takes rwmutex for the caller.
LEMMA AddPushStep ==
  ASSUME PoolsInv, AddPush
  PROVE  PoolsInv'
<1>1. /\ phase = "call" /\ at \in DOMAIN script /\ script[at][1] = "add"
      /\ lock[<<This, "rw">>] = Nobody
      /\ lock' = [lock EXCEPT ![<<This, "rw">>] = Caller]
      /\ queue' = [queue EXCEPT ![This] = Append(queue[This], at)]
      /\ phase' = "posting" /\ script' = script /\ at' = at
      /\ UNCHANGED <<v, alive, pc, job, done, keepalive, signalled, holdVars>>
  BY DEF AddPush, Calling, Enter
<1>2. /\ This \in Pools /\ Made(This) /\ at \in Places
      /\ CallOK /\ PoolOK /\ LockInv
  BY <1>1, UseFacts, ScriptFacts DEF PoolsInv, Made, CallOK
<1>3. Settled /\ This' = This
  BY <1>1, EnterSettled DEF Enter
<1>4. Calm
  BY <1>1 DEF Calm
<1>5. queue' \in [Pools -> Seq(Places)] /\ \A p \in Pools : p # This => queue'[p] = queue[p]
  <2>1. Append(queue[This], at) \in Seq(Places)
    BY <1>2 DEF PoolOK
  <2>2. QED
    BY <1>1, <1>2, <2>1 DEF PoolOK
<1>6. /\ lock' \in [Pools \X Locks -> Threads \cup {Caller, Nobody}]
      /\ lock'[<<This, "rw">>] = Caller
      /\ \A p \in Pools, x \in Locks : p # This \/ x # "rw" => lock'[<<p, x>>] = lock[<<p, x>>]
  <2>1. /\ lock \in [Pools \X Locks -> Threads \cup {Caller, Nobody}]
        /\ <<This, "rw">> \in Pools \X Locks
    BY <1>2, LockNames DEF PoolOK
  <2>2. QED
    BY <1>1, <2>1
<1>7. CallOK' /\ PoolOK' /\ ScriptInv'
  BY <1>1, <1>2, <1>5, <1>6 DEF PoolsInv, CallOK, PoolOK, ScriptInv, holdVars
<1>8. LockInv'
  BY <1>1, <1>2, <1>3, <1>6, ThreadFacts, LockNames DEF LockInv
<1>9. AliveInv' /\ JobInv'
  BY <1>1, <1>4, CalmFacts DEF PoolsInv
<1>10. MadeInv'
  BY <1>1, <1>2, <1>3, <1>4, <1>5, MadeSettled DEF PoolsInv, MadeInv
<1>11. QED
  BY <1>7, <1>8, <1>9, <1>10 DEF PoolsInv

\* jobqueue_push posts and gives rwmutex back.
LEMMA AddPostStep ==
  ASSUME PoolsInv, AddPost
  PROVE  PoolsInv' /\ Calm
<1>1. /\ phase = "posting" /\ lock[<<This, "bsem">>] = Nobody /\ Post(This, pc)
      /\ lock' = [lock EXCEPT ![<<This, "rw">>] = Nobody] /\ Return
      /\ UNCHANGED <<queue, alive, job, done, keepalive, signalled, holdVars>>
  BY DEF AddPost, Unlocked
<1>2. at \in DOMAIN script /\ script[at][1] = "add" /\ CallOK /\ PoolOK /\ LockInv /\ ScriptInv
  BY <1>1 DEF PoolsInv, ScriptInv
<1>3. This \in Pools /\ Made(This)
  BY <1>2, UseFacts DEF Made
<1>4. at' = at + 1 /\ phase' = "call" /\ script' = script
  BY <1>1 DEF Return
<1>5. Settled /\ ScriptInv' /\ at' \in 1 .. Len(script) + 1
  BY <1>1, <1>2, ReturnFacts, ReturnSettled
<1>6. /\ v' = [v EXCEPT ![This] = 1] /\ v' \in [Pools -> {0, 1}]
      /\ pc' \in [Threads -> Steps] /\ Calm
  BY <1>1, <1>2, <1>3, PostFacts DEF PoolOK, Calm
<1>7. /\ lock' \in [Pools \X Locks -> Threads \cup {Caller, Nobody}]
      /\ lock'[<<This, "rw">>] = Nobody
      /\ \A p \in Pools, x \in Locks : p # This \/ x # "rw" => lock'[<<p, x>>] = lock[<<p, x>>]
  <2>1. /\ lock \in [Pools \X Locks -> Threads \cup {Caller, Nobody}]
        /\ <<This, "rw">> \in Pools \X Locks
    BY <1>2, <1>3, LockNames DEF PoolOK
  <2>2. QED
    BY <1>1, <2>1
<1>8. CallOK' /\ PoolOK'
  BY <1>1, <1>2, <1>4, <1>5, <1>6, <1>7 DEF CallOK, PoolOK, holdVars
<1>9. LockInv'
  <2>1. \A u \in Threads, name \in Locks : pc'[u] \in Inside[name] <=> pc[u] \in Inside[name]
    BY <1>6, LockNames DEF Calm
  <2>2. lock[<<This, "rw">>] = Caller
    BY <1>1, <1>2, <1>3, LockNames DEF LockInv
  <2>3. QED
    BY <1>1, <1>2, <1>3, <1>4, <1>7, <2>1, <2>2, ThreadFacts, LockNames DEF LockInv
<1>10. AliveInv' /\ JobInv'
  BY <1>1, <1>6, CalmFacts DEF PoolsInv
<1>11. \A p \in Pools : p # This => v'[p] = v[p]
  BY <1>2, <1>6 DEF PoolOK
<1>12. MadeInv'
  BY <1>1, <1>3, <1>5, <1>6, <1>11, MadeSettled DEF PoolsInv, MadeInv
<1>13. QED
  BY <1>5, <1>6, <1>8, <1>9, <1>10, <1>12 DEF PoolsInv

\* A step of the caller that leaves the pools alone.
LEMMA QuietStep ==
  ASSUME PoolsInv, UNCHANGED poolVars, Settled, CallOK', ScriptInv', phase # "posting", phase' # "posting"
  PROVE  PoolsInv'
<1>1. UNCHANGED <<queue, v, alive, lock, pc, job, done>>
  BY DEF poolVars
<1>2. Calm
  BY <1>1 DEF Calm
<1>3. PoolOK'
  BY <1>1 DEF PoolsInv, PoolOK
<1>4. LockInv' /\ AliveInv' /\ JobInv'
  BY <1>1, <1>2, LockCalm, CalmFacts DEF PoolsInv
<1>5. MadeInv'
  BY <1>1, <1>2, MadeSettled DEF PoolsInv, MadeInv
<1>6. QED
  BY <1>3, <1>4, <1>5 DEF PoolsInv

\* The calls that only begin, or begin and return at once.
LEMMA PlainCallStep ==
  ASSUME PoolsInv, PauseCall \/ Settle \/ Resume \/ DestroyCall
  PROVE  PoolsInv'
<1>1. /\ phase = "call" /\ at \in DOMAIN script /\ UNCHANGED <<poolVars, signalled, pending, handler>>
      /\ keepalive' \in BOOLEAN /\ onHold' \in BOOLEAN /\ CallOK /\ ScriptInv
      /\ \/ Enter("signalling") /\ script[at][1] = "pause"
         \/ Return /\ script[at][1] \in {"settle", "resume"}
         \/ Enter("ending") /\ script[at][1] = "destroy" /\ keepalive' = FALSE
  BY DEF PauseCall, Settle, Resume, DestroyCall, Calling, PoolsInv, CallOK, holdVars
<1>2. CASE Return /\ script[at][1] \in {"settle", "resume"}
  <2>1. Settled /\ ScriptInv' /\ at' \in 1 .. Len(script) + 1
    BY <1>1, <1>2, ReturnFacts, ReturnSettled
  <2>2. CallOK' /\ phase' = "call"
    BY <1>1, <1>2, <2>1 DEF CallOK, Return
  <2>3. QED
    BY <1>1, <2>1, <2>2, QuietStep
<1>3. CASE Enter("signalling") /\ script[at][1] = "pause"
  <2>1. Settled
    BY <1>1, <1>3, EnterSettled
  <2>2. CallOK' /\ ScriptInv' /\ phase' = "signalling"
    BY <1>1, <1>3 DEF CallOK, ScriptInv, Enter
  <2>3. QED
    BY <1>1, <2>1, <2>2, QuietStep
<1>4. CASE Enter("ending") /\ script[at][1] = "destroy" /\ keepalive' = FALSE
  <2>1. Settled
    BY <1>1, <1>4, EnterSettled
  <2>2. CallOK' /\ ScriptInv' /\ phase' = "ending"
    BY <1>1, <1>4 DEF CallOK, ScriptInv, Enter
  <2>3. QED
    BY <1>1, <2>1, <2>2, QuietStep
<1>5. QED
  BY <1>1, <1>2, <1>3, <1>4

\* thpool_pause never signals a thread that was not asked for.
LEMMA KillStep ==
  ASSUME PoolsInv, Kill
  PROVE  PoolsInv'
<1>1. /\ phase = "signalling" /\ signalled < alive[This]
      /\ pending' = pending \cup {<<This, signalled + 1>>}
      /\ signalled' = signalled + 1
      /\ UNCHANGED <<poolVars, script, keepalive, at, phase, onHold, handler>>
  BY DEF Kill
<1>2. at \in DOMAIN script /\ This \in Pools /\ CallOK /\ ScriptInv
  BY <1>1, UseFacts DEF PoolsInv, ScriptInv
<1>3. alive[This] \in Nat /\ alive[This] <= MaxThreads /\ MaxThreads \in Nat /\ signalled \in Nat
  BY <1>2, AliveBound, ThreadFacts DEF PoolsInv, AliveInv, CallOK
<1>4. signalled + 1 \in 1 .. MaxThreads
  BY <1>1, <1>3
<1>5. <<This, signalled + 1>> \in Threads
  BY <1>2, <1>4, ThreadFacts
<1>6. pending' \in SUBSET Threads /\ signalled' \in 0 .. MaxThreads
  BY <1>1, <1>2, <1>3, <1>4, <1>5 DEF CallOK
<1>7. CallOK' /\ ScriptInv'
  BY <1>1, <1>2, <1>6 DEF CallOK, ScriptInv
<1>8. Settled
  BY <1>1, WaitsSettled DEF Waits
<1>9. QED
  BY <1>1, <1>7, <1>8, QuietStep

\* The end of thpool_pause.
LEMMA PauseReturnStep ==
  ASSUME PoolsInv, PauseReturn
  PROVE  PoolsInv'
<1>1. phase = "signalling" /\ signalled' = 0 /\ Return /\ UNCHANGED <<poolVars, keepalive, holdVars>>
  BY DEF PauseReturn
<1>2. at \in DOMAIN script /\ script[at][1] = "pause" /\ CallOK /\ ScriptInv
  BY <1>1 DEF PoolsInv, ScriptInv
<1>3. Settled /\ ScriptInv' /\ at' \in 1 .. Len(script) + 1
  BY <1>2, <1>1, ReturnFacts, ReturnSettled
<1>4. 0 \in 0 .. MaxThreads
  BY ThreadFacts
<1>5. CallOK' /\ phase' = "call"
  BY <1>1, <1>2, <1>3, <1>4 DEF CallOK, Return, holdVars
<1>6. QED
  BY <1>1, <1>3, <1>5, QuietStep

\* bsem_post_all on the way out.
LEMMA DestroyPostStep ==
  ASSUME PoolsInv, DestroyPost
  PROVE  PoolsInv' /\ Calm
<1>1. /\ phase = "ending" /\ v' = [v EXCEPT ![This] = 1]
      /\ pc' = [t \in Threads |-> IF t \in Asleep(pc, This) THEN "wait" ELSE pc[t]]
      /\ UNCHANGED <<queue, alive, lock, job, done, callVars, holdVars>>
  BY DEF DestroyPost
<1>2. /\ at \in DOMAIN script /\ script[at][1] = "destroy" /\ This \in Pools /\ Made(This) /\ PoolOK
  BY <1>1, UseFacts DEF PoolsInv, ScriptInv, Made
<1>3. Waits /\ CallOK' /\ ScriptInv'
  BY <1>1 DEF callVars, holdVars, Waits, PoolsInv, CallOK, ScriptInv
<1>4. Calm /\ pc' \in [Threads -> Steps]
  BY <1>1, <1>2 DEF Calm, Asleep, PoolOK, Steps
<1>5. v' \in [Pools -> {0, 1}] /\ \A p \in Pools : p # This => v'[p] = v[p]
  BY <1>1, <1>2 DEF PoolOK
<1>6. PoolOK'
  BY <1>1, <1>2, <1>4, <1>5 DEF PoolOK
<1>7. LockInv' /\ AliveInv' /\ JobInv'
  BY <1>1, <1>3, <1>4, LockCalm, CalmFacts DEF PoolsInv, Waits
<1>8. MadeInv'
  BY <1>1, <1>2, <1>3, <1>4, <1>5, WaitsSettled, MadeSettled DEF PoolsInv, MadeInv
<1>9. QED
  BY <1>3, <1>4, <1>6, <1>7, <1>8 DEF PoolsInv

\* The last step of thpool_destroy.
LEMMA DestroyFreeStep ==
  ASSUME PoolsInv, DestroyFree
  PROVE  PoolsInv'
<1>1. /\ phase = "ending" /\ Return
      /\ queue' = [queue EXCEPT ![This] = <<>>] /\ v' = [v EXCEPT ![This] = 0]
      /\ UNCHANGED <<alive, lock, pc, job, done, keepalive, signalled, holdVars>>
  BY DEF DestroyFree
<1>2. /\ at \in DOMAIN script /\ script[at][1] = "destroy" /\ This \in Pools
      /\ PoolOK /\ CallOK /\ ScriptInv
  BY <1>1, UseFacts DEF PoolsInv, ScriptInv
<1>3. Settled /\ ScriptInv' /\ at' \in 1 .. Len(script) + 1
  BY <1>2, <1>1, ReturnFacts, ReturnSettled
<1>4. CallOK' /\ phase' = "call"
  BY <1>1, <1>2, <1>3 DEF CallOK, Return, holdVars
<1>5. /\ v' \in [Pools -> {0, 1}] /\ v'[This] = 0
      /\ \A p \in Pools : p # This => v'[p] = v[p]
  BY <1>1, <1>2 DEF PoolOK
<1>6. /\ queue' \in [Pools -> Seq(Places)] /\ queue'[This] = <<>>
      /\ \A p \in Pools : p # This => queue'[p] = queue[p]
  <2>1. <<>> \in Seq(Places)
    OBVIOUS
  <2>2. QED
    BY <1>1, <1>2, <2>1 DEF PoolOK
<1>7. PoolOK'
  BY <1>1, <1>2, <1>5, <1>6 DEF PoolOK
<1>8. Calm
  BY <1>1 DEF Calm
<1>9. LockInv' /\ AliveInv' /\ JobInv'
  BY <1>1, <1>4, <1>8, LockCalm, CalmFacts DEF PoolsInv
<1>10. MadeInv'
  BY <1>2, <1>3, <1>5, <1>6, <1>8, MadeSettled DEF PoolsInv, MadeInv
<1>11. QED
  BY <1>3, <1>4, <1>7, <1>9, <1>10 DEF PoolsInv

--------------------------------------------------------------------------------
(* The invariant                                                           *)

\* Signals change nothing but their own bookkeeping.
LEMMA SignalStep ==
  ASSUME PoolsInv, (\E t \in Threads : Signal(t)) \/ UNCHANGED vars
  PROVE  PoolsInv' /\ UNCHANGED <<poolVars, callVars>>
<1>1. UNCHANGED <<poolVars, callVars>>
  BY DEF Signal, Deliver, Hold, EndHold, vars
<1>2. CallOK'
  BY <1>1 DEF Signal, Deliver, Hold, EndHold, NextRound, vars, callVars, holdVars, PoolsInv, CallOK
<1>3. UNCHANGED <<queue, v, alive, lock, pc, job, done>> /\ UNCHANGED <<script, keepalive, at, phase>>
  BY <1>1 DEF poolVars, callVars
<1>4. PoolOK' /\ ScriptInv' /\ LockInv' /\ AliveInv' /\ JobInv'
  BY <1>3 DEF PoolsInv, PoolOK, ScriptInv, LockInv, AliveInv, Alive, JobInv, This
<1>5. MadeInv'
  BY <1>3 DEF PoolsInv, MadeInv, Made
<1>6. QED
  BY <1>1, <1>2, <1>4, <1>5 DEF PoolsInv

\* Before the first call.
LEMMA PoolsInit ==
  ASSUME Init
  PROVE  PoolsInv
<1>1. CallOK
  <2>1. script \in Scripts /\ Len(script) \in Nat /\ MaxThreads \in Nat
    BY ScriptFacts, ThreadFacts DEF Init
  <2>2. at \in 1 .. Len(script) + 1 /\ signalled \in 0 .. MaxThreads
    BY <2>1 DEF Init
  <2>3. handler \in [Threads -> {"out", "entered", "holding"}] /\ pending \in SUBSET Threads
    BY DEF Init
  <2>4. QED
    BY <2>1, <2>2, <2>3 DEF Init, CallOK
<1>2. PoolOK
  <2>1. <<>> \in Seq(Places)
    OBVIOUS
  <2>2. QED
    BY <2>1, LockNames DEF Init, PoolOK, Steps
<1>3. LockInv
  <2>1. \A t \in Threads : pc[t] = "none"
    BY DEF Init
  <2>2. \A p \in Pools, name \in Locks : lock[<<p, name>>] = Nobody
    BY LockNames DEF Init
  <2>3. \A t \in Threads, name \in Locks : pc[t] \notin Inside[name]
    BY <2>1, LockNames
  <2>4. \A t \in Threads : Owner(t) \in Pools /\ t # Nobody
    BY ThreadFacts
  <2>5. \A t \in Threads, name \in Locks : lock[<<Owner(t), name>>] # t
    BY <2>2, <2>4
  <2>6. phase = "call"
    BY DEF Init
  <2>7. QED
    BY <2>2, <2>3, <2>6, <2>5, ThreadFacts DEF LockInv
<1>4. AliveInv
  <2>1. \A p \in Pools : Alive(p) = {}
    BY DEF Init, Alive
  <2>2. QED
    BY <2>1, FS_EmptySet DEF Init, AliveInv
<1>5. ScriptInv /\ JobInv
  BY DEF Init, ScriptInv, JobInv
<1>6. MadeInv
  <2>1. \A i \in DOMAIN script : i \in 1 .. Len(script) /\ Len(script) \in Nat
    BY ScriptFacts DEF Init
  <2>2. \A i \in DOMAIN script : ~(i < at)
    BY <2>1 DEF Init
  <2>3. \A p \in Pools : queue[p] = <<>> /\ v[p] = 0 /\ \A t \in Threads : pc[t] = "none"
    BY DEF Init
  <2>4. phase # "spinning"
    BY DEF Init
  <2>5. QED
    BY <2>2, <2>3, <2>4 DEF MadeInv
<1>7. QED
  BY <1>1, <1>2, <1>3, <1>4, <1>5, <1>6 DEF PoolsInv

\* Every step of the caller keeps the invariant.
LEMMA CallStep ==
  ASSUME PoolsInv, Call
  PROVE  PoolsInv'
BY InitCallStep, InitReturnStep, AddPushStep, AddPostStep, PlainCallStep, KillStep, PauseReturnStep,
   DestroyPostStep, DestroyFreeStep DEF Call

\* So does every step.
LEMMA PoolsStep == PoolsInv /\ [Next]_vars => PoolsInv'
BY WorkerStep, SignalStep, CallStep DEF Next

\* A lock is held exactly by who is inside a section of it.
LEMMA HoldersFacts ==
  ASSUME PoolsInv, NEW p \in Pools, NEW name \in Locks
  PROVE  Holders(p, name) = {lock[<<p, name>>]} \ {Nobody}
<1>1. lock[<<p, name>>] \in Threads \cup {Caller, Nobody}
  BY DEF PoolsInv, PoolOK
<1>2. \A t \in Threads : Owner(t) = p /\ pc[t] \in Inside[name] <=> lock[<<p, name>>] = t
  BY DEF PoolsInv, LockInv
<1>3. lock[<<p, name>>] = Caller <=> name = "rw" /\ phase = "posting" /\ This = p
  BY DEF PoolsInv, LockInv
<1>4. QED
  BY <1>1, <1>2, <1>3, ThreadFacts DEF Holders

\* The invariant gives the types and the owners of the locks.
LEMMA PoolsTyped == PoolsInv => TypeOK
<1> SUFFICES ASSUME PoolsInv PROVE TypeOK
  OBVIOUS
<1>1. \A p \in Pools : alive[p] \in 0 .. MaxThreads
  BY AliveBound, ThreadFacts DEF PoolsInv, AliveInv
<1>2. alive \in [Pools -> 0 .. MaxThreads]
  BY <1>1 DEF PoolsInv, PoolOK
<1>3. \A p \in Pools, name \in DOMAIN Inside : Holders(p, name) = {lock[<<p, name>>]} \ {Nobody}
  BY HoldersFacts DEF Locks
<1>4. QED
  BY <1>2, <1>3 DEF PoolsInv, CallOK, PoolOK, TypeOK, Locks

\* Every variable keeps its type and the locks their owners, for every set of
\* pools and of scripts: at every step, wherever a signal catches the workers, a
\* worker or the caller has a lock exactly while it is in a section of it, and
\* num_threads_alive is the number of workers between its increment and its
\* decrement.
THEOREM TypeCorrect == Spec => [](TypeOK /\ PoolsInv)
<1>1. Init => PoolsInv
  BY PoolsInit
<1>2. QED
  BY <1>1, PoolsStep, PoolsTyped, PTL DEF Spec
================================================================================
