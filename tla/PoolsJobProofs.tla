---------------------------- MODULE PoolsJobProofs ----------------------------
(* Why no job of Pools is stranded and no pool loses a worker, where the       *)
(* pools of a script are kept apart.  They have to be: a thpool_init after     *)
(* thpool_destroy sets threads_keepalive again for all pools, also for one     *)
(* whose workers the thpool_destroy of another has sent away.                  *)
EXTENDS PoolsProofs

\* After a thpool_destroy a pool is made only once all earlier ones are freed.
Separate(s) ==
  \A i, j, k \in DOMAIN s :
    /\ s[i][1] = "destroy" /\ i < k /\ s[k][1] = "init" /\ s[j][1] = "init" /\ j < k
      => \E l \in DOMAIN s : l < k /\ s[l][1] = "destroy" /\ s[l][2] = s[j][2]
KeptApart == \A s \in Scripts : Separate(s)

\* threads_keepalive is cleared only by a thpool_destroy.
ClearedInv ==
  ~keepalive => \/ \A p \in Pools : ~Made(p)
                \/ \E i \in DOMAIN script : script[i][1] = "destroy" /\ (i < at \/ (i = at /\ phase = "ending"))

\* While it is set, only workers of pools that are gone leave.
LeaveInv ==
  /\ keepalive => \A t \in Threads : pc[t] \in {"leave", "leaving", "gone"} => Over(Owner(t))
  /\ \A p \in Pools : Over(p) => queue[p] = <<>>

\* While it is set, a queued job has the token, a post on its way or a worker
\* on its way to the queue, and a token has a worker that is awake.
Committed(t) == pc[t] \in {"check", "count", "counting", "pull", "pulling", "repost", "reposting"}
Awake(t) == pc[t] \notin {"none", "asleep", "gone"}
TokenAt(p) ==
  /\ queue[p] # <<>> =>
       \/ v[p] = 1
       \/ phase = "posting" /\ This = p
       \/ \E t \in Threads : Owner(t) = p /\ Committed(t)
  /\ v[p] = 1 /\ ~Over(p) => \E t \in Threads : Owner(t) = p /\ Awake(t)
TokenInv == keepalive => \A p \in Pools : TokenAt(p)

JobsInv == ClearedInv /\ LeaveInv /\ TokenInv

--------------------------------------------------------------------------------
(* Steps of workers                                                        *)

\* What a step of worker t has to keep of TokenAt(Owner(t)).
KeepsToken(t) ==
  /\ \/ queue'[Owner(t)] = <<>> \/ v'[Owner(t)] = 1 \/ Committed(t)'
     \/ queue'[Owner(t)] = queue[Owner(t)] /\ v'[Owner(t)] = v[Owner(t)] /\ ~Committed(t)
  /\ Awake(t)' \/ v'[Owner(t)] = 0 \/ Over(Owner(t))

\* If it keeps that, it keeps TokenInv.
LEMMA TokenSame ==
  ASSUME TokenInv, Waits, NEW t \in Threads, Moved(t), keepalive' = keepalive,
         keepalive => KeepsToken(t)
  PROVE  TokenInv'
<1> SUFFICES ASSUME keepalive, NEW p \in Pools PROVE TokenAt(p)'
  BY DEF TokenInv
<1>1. /\ phase' = phase /\ This' = This /\ (Over(p)' <=> Over(p)) /\ TokenAt(p) /\ KeepsToken(t)
  BY WaitsFacts DEF Waits, TokenInv
<1>2. \A u \in Threads \ {t} : (Committed(u) => Committed(u)') /\ (Awake(u) => Awake(u)')
  BY DEF Moved, Others, Committed, Awake
<1>3. CASE p # Owner(t)
  <2>1. queue'[p] = queue[p] /\ v'[p] = v[p]
    BY <1>3 DEF Moved
  <2>2. \A u \in Threads : Owner(u) = p => u # t
    BY <1>3
  <2>3. QED
    BY <1>1, <1>2, <2>1, <2>2 DEF TokenAt
<1>4. CASE p = Owner(t)
  <2>1. queue'[p] # <<>> => v'[p] = 1 \/ (phase = "posting" /\ This = p)
                            \/ \E u \in Threads : Owner(u) = p /\ Committed(u)'
    BY <1>1, <1>2, <1>4 DEF KeepsToken, TokenAt
  <2>2. v'[p] = 1 /\ ~Over(p) => \E u \in Threads : Owner(u) = p /\ Awake(u)'
    BY <1>1, <1>4 DEF KeepsToken
  <2>3. QED
    BY <1>1, <2>1, <2>2 DEF TokenAt
<1>5. QED
  BY <1>3, <1>4

\* Where the steps of a worker lead, what they take from the queue and what they
\* make of the token.
LEMMA WorkerToken ==
  ASSUME PoolsInv, LeaveInv, NEW t \in Threads, Work(t) \/ SpuriousWake(t)
  PROVE  /\ keepalive /\ pc'[t] \in {"leave", "leaving", "gone"} => pc[t] \in {"leave", "leaving"}
         /\ queue[Owner(t)] = <<>> => queue'[Owner(t)] = <<>>
         /\ keepalive => KeepsToken(t)
<1>1. /\ pc \in [Threads -> Steps] /\ Owner(t) \in Pools /\ v \in [Pools -> {0, 1}]
      /\ queue \in [Pools -> Seq(Places)]
  BY ThreadFacts DEF PoolsInv, PoolOK
<1>2. CASE Lock(t)
  <2>1. /\ pc[t] \in DOMAIN Section /\ pc'[t] = Section[pc[t]][2] /\ UNCHANGED <<queue, v>>
    BY <1>1, <1>2 DEF Lock, Goto
  <2>2. /\ pc'[t] \in {"leave", "leaving", "gone"} => pc[t] = "leave"
        /\ Committed(t) => Committed(t)'
        /\ Awake(t)'
    BY <2>1, SectionFacts DEF Committed, Awake
  <2>3. QED
    BY <2>1, <2>2 DEF KeepsToken
<1>3. CASE Test(t)
  <2>1. /\ UNCHANGED <<queue, v>>
        /\ \/ pc[t] = "loop" /\ pc'[t] = IF keepalive THEN "wait" ELSE "leave"
           \/ pc[t] = "check" /\ pc'[t] = IF keepalive THEN "count" ELSE "loop"
    BY <1>1, <1>3 DEF Test, Goto
  <2>2. QED
    BY <2>1 DEF KeepsToken, Committed, Awake
<1>4. CASE Token(t)
  <2>1. /\ UNCHANGED queue /\ pc[t] = "token" /\ v'[Owner(t)] = 0 /\ v[Owner(t)] \in {0, 1}
        /\ pc'[t] = IF v[Owner(t)] = 1 THEN "check" ELSE "asleep"
    BY <1>1, <1>4 DEF Token, Goto
  <2>2. QED
    BY <2>1 DEF KeepsToken, Committed, Awake
<1>5. CASE Counted(t)
  <2>1. /\ UNCHANGED <<queue, v>> /\ pc[t] \in DOMAIN AfterCount /\ pc'[t] = AfterCount[pc[t]]
    BY <1>1, <1>5 DEF Counted, Goto
  <2>2. /\ pc'[t] \in {"leave", "leaving", "gone"} => pc[t] = "leaving"
        /\ Committed(t) => Committed(t)'
        /\ Awake(t)' \/ pc[t] = "leaving"
    BY <2>1, SectionFacts DEF Committed, Awake
  <2>3. keepalive => Awake(t)' \/ Over(Owner(t))
    BY <2>2 DEF LeaveInv
  <2>4. QED
    BY <2>1, <2>2, <2>3 DEF KeepsToken
<1>6. CASE Pull(t)
  <2>1. queue[Owner(t)] \in Seq(Places)
    BY <1>1
  <2>2. PICK jobs \in Seq(Places) : jobs = queue[Owner(t)]
    BY <2>1
  <2>3. /\ pc[t] = "pulling" /\ queue'[Owner(t)] = IF jobs = <<>> THEN jobs ELSE Tail(jobs)
        /\ \/ Len(jobs) > 1 /\ pc'[t] = "repost"
           \/ ~(Len(jobs) > 1) /\ pc'[t] \in {"run", "uncount"}
    BY <1>1, <1>6, <2>2 DEF Pull, Goto, More
  <2>4. ~(Len(jobs) > 1) => queue'[Owner(t)] = <<>>
    BY <2>2, <2>3
  <2>5. Awake(t)' /\ (Len(jobs) > 1 => Committed(t)') /\ pc'[t] \notin {"leave", "leaving", "gone"}
    BY <2>3 DEF Awake, Committed
  <2>6. QED
    BY <2>2, <2>3, <2>4, <2>5 DEF KeepsToken
<1>7. CASE Repost(t)
  <2> DEFINE f == [pc EXCEPT ![t] = "run"]
  <2>1. Post(Owner(t), f) /\ UNCHANGED queue
    BY <1>7 DEF Repost
  <2>2. f \in [Threads -> Steps] /\ f[t] = "run"
    BY <1>1 DEF Steps
  <2> HIDE DEF f
  <2>3. v' = [v EXCEPT ![Owner(t)] = 1] /\ pc'[t] = "run"
    BY <1>1, <2>1, <2>2, PostFacts DEF PoolsInv
  <2>4. QED
    BY <1>1, <2>1, <2>3 DEF KeepsToken, Awake
<1>8. CASE Run(t)
  <2>1. UNCHANGED <<queue, v>> /\ pc[t] = "run" /\ pc'[t] = "uncount"
    BY <1>1, <1>8 DEF Run, Goto
  <2>2. QED
    BY <2>1 DEF KeepsToken, Committed, Awake
<1>9. CASE SpuriousWake(t)
  <2>1. UNCHANGED <<queue, v>> /\ pc[t] = "asleep" /\ pc'[t] = "wait"
    BY <1>1, <1>9 DEF SpuriousWake, Goto
  <2>2. QED
    BY <2>1 DEF KeepsToken, Committed, Awake
<1>10. QED
  BY <1>2, <1>3, <1>4, <1>5, <1>6, <1>7, <1>8, <1>9 DEF Work

\* While the caller waits, threads_keepalive keeps its reason.
LEMMA ClearedSame ==
  ASSUME ClearedInv, Waits, keepalive' = keepalive
  PROVE  ClearedInv'
BY WaitsFacts DEF ClearedInv, Waits

\* Every step of a worker keeps the invariant.
LEMMA WorkerJobs ==
  ASSUME PoolsInv, JobsInv, NEW t \in Threads, Work(t) \/ SpuriousWake(t)
  PROVE  JobsInv'
<1>1. Moved(t)
  BY WorkerStep
<1>2. UNCHANGED <<script, keepalive, at, phase>>
  BY DEF Work, SpuriousWake, callVars
<1>3. Waits /\ keepalive' = keepalive
  BY <1>2 DEF Waits
<1>4. ClearedInv' /\ TokenInv'
  BY <1>1, <1>3, ClearedSame, TokenSame, WorkerToken DEF JobsInv
<1>5. \A u \in Threads : pc'[u] \in {"leave", "leaving", "gone"} /\ keepalive => Over(Owner(u))
  BY <1>1, WorkerToken DEF Moved, Others, JobsInv, LeaveInv
<1>6. \A p \in Pools : Over(p) => queue'[p] = <<>>
  BY <1>1, WorkerToken DEF Moved, JobsInv, LeaveInv
<1>7. LeaveInv'
  BY <1>3, <1>5, <1>6, WaitsFacts DEF LeaveInv
<1>8. QED
  BY <1>4, <1>7 DEF JobsInv

--------------------------------------------------------------------------------
(* Steps of the caller                                                     *)

\* A step of the caller outside thpool_add_work that leaves the pools and
\* threads_keepalive alone.
LEMMA QuietJobs ==
  ASSUME JobsInv, UNCHANGED poolVars, keepalive' = keepalive, phase # "posting",
         \A p : Over(p)' <=> Over(p), ClearedInv'
  PROVE  JobsInv'
<1>1. UNCHANGED <<queue, v, pc>>
  BY DEF poolVars
<1>2. LeaveInv'
  BY <1>1 DEF JobsInv, LeaveInv
<1>3. TokenInv'
  BY <1>1 DEF JobsInv, TokenInv, TokenAt, Awake, Committed
<1>4. QED
  BY <1>2, <1>3 DEF JobsInv

\* The return of a call other than thpool_destroy.
LEMMA ReturnJobs ==
  ASSUME PoolsInv, ClearedInv, Return, keepalive' = keepalive, at \in DOMAIN script,
         script[at][1] # "destroy", script[at][1] = "init" => phase = "spinning"
  PROVE  ClearedInv' /\ (\A p : Over(p)' <=> Over(p))
<1>1. (\A p : Made(p)' <=> Made(p)) /\ (\A p : Over(p)' <=> Over(p))
  BY ReturnFacts DEF PoolsInv
<1>2. /\ at' = at + 1 /\ phase' = "call" /\ script' = script /\ at \in Nat
      /\ \A i \in DOMAIN script : i < at => i < at'
  BY ScriptFacts DEF Return, PoolsInv, CallOK
<1>3. phase # "ending"
  BY DEF PoolsInv, ScriptInv
<1>4. QED
  BY <1>1, <1>2, <1>3 DEF ClearedInv

\* The steps of the caller that leave the pools alone.
LEMMA PlainJobs ==
  ASSUME PoolsInv, JobsInv, InitReturn \/ PauseCall \/ Kill \/ PauseReturn \/ Settle \/ Resume
  PROVE  JobsInv'
<1>1. UNCHANGED poolVars /\ keepalive' = keepalive /\ phase # "posting" /\ ClearedInv
  BY DEF InitReturn, PauseCall, Kill, PauseReturn, Settle, Resume, Calling, JobsInv
<1>2. CASE InitReturn \/ PauseReturn \/ Settle \/ Resume
  <2>1. /\ Return /\ at \in DOMAIN script /\ script[at][1] # "destroy"
        /\ script[at][1] = "init" => phase = "spinning"
    BY <1>2 DEF InitReturn, PauseReturn, Settle, Resume, Calling, PoolsInv, ScriptInv
  <2>2. QED
    BY <1>1, <2>1, ReturnJobs, QuietJobs
<1>3. CASE Kill
  <2>1. Waits
    BY <1>3 DEF Kill, Waits
  <2>2. QED
    BY <1>1, <2>1, ClearedSame, WaitsFacts, QuietJobs
<1>4. CASE PauseCall
  <2>1. phase = "call" /\ Enter("signalling")
    BY <1>4 DEF PauseCall, Calling
  <2>2. Settled /\ (\A p : Over(p)' <=> Over(p)) /\ script' = script /\ at' = at
    BY <2>1, EnterSettled DEF Enter
  <2>3. ClearedInv'
    BY <1>1, <2>1, <2>2 DEF ClearedInv, Settled
  <2>4. QED
    BY <1>1, <2>2, <2>3, QuietJobs
<1>5. QED
  BY <1>2, <1>3, <1>4

\* When threads_keepalive is set again, every pool made earlier has been freed.
LEMMA AllOver ==
  ASSUME PoolsInv, ClearedInv, KeptApart, InitCall, ~keepalive
  PROVE  \A p \in Pools : Made(p) => Over(p)
<1> SUFFICES ASSUME NEW p \in Pools, Made(p) PROVE Over(p)
  OBVIOUS
<1>1. phase = "call" /\ at \in DOMAIN script /\ script[at][1] = "init" /\ Separate(script)
  BY DEF InitCall, Calling, KeptApart, PoolsInv, CallOK
<1>2. PICK i \in DOMAIN script : script[i][1] = "destroy" /\ i < at
  BY <1>1 DEF ClearedInv
<1>3. PICK j \in DOMAIN script : script[j][1] = "init" /\ script[j][2] = p /\ j < at
  BY <1>1 DEF Made
<1>4. QED
  BY <1>1, <1>2, <1>3 DEF Separate, Over

\* thpool_init.
LEMMA InitJobs ==
  ASSUME PoolsInv, JobsInv, KeptApart, InitCall
  PROVE  JobsInv'
<1>1. /\ phase = "call" /\ at \in DOMAIN script /\ phase' = "spinning" /\ keepalive'
      /\ UNCHANGED <<script, at, queue, v>>
  BY DEF InitCall, Calling, Enter
<1>2. PICK made \in SUBSET Asked : pc' = [t \in Threads |-> IF t \in made THEN "start" ELSE pc[t]]
  BY DEF InitCall
<1>3. This \in Pools /\ ~Made(This)
  BY <1>1, UseFacts DEF PoolsInv, InitCall, Calling, Made
<1>4. \A t \in made : Owner(t) = This
  BY DEF Asked, Owner
<1>5. \A t \in Threads : /\ t \in made => pc[t] = "none" /\ pc'[t] = "start"
                         /\ t \notin made => pc'[t] = pc[t]
  BY <1>2, <1>3, <1>4 DEF PoolsInv, MadeInv
<1>6. (\A p : Over(p)' <=> Over(p)) /\ This' = This
  BY <1>1 DEF Over, This
<1>7. CASE keepalive
  <2>1. LeaveInv'
    BY <1>1, <1>5, <1>6, <1>7 DEF JobsInv, LeaveInv
  <2>2. \A u \in Threads : (Committed(u) => Committed(u)') /\ (Awake(u) => Awake(u)')
    BY <1>5 DEF Committed, Awake
  <2>3. TokenInv'
    BY <1>1, <1>6, <1>7, <2>2 DEF JobsInv, TokenInv, TokenAt
  <2>4. QED
    BY <1>1, <2>1, <2>3 DEF JobsInv, ClearedInv
<1>8. CASE ~keepalive
  <2>1. \A p \in Pools : Made(p) => Over(p)
    BY <1>8, AllOver DEF JobsInv
  <2>2. \A t \in Threads : pc[t] # "none" => Over(Owner(t))
    BY <2>1, ThreadFacts DEF PoolsInv, MadeInv
  <2>3. LeaveInv'
    BY <1>1, <1>5, <1>6, <2>2 DEF JobsInv, LeaveInv
  <2>4. \A p \in Pools : queue[p] = <<>> /\ (v[p] = 1 => Over(p))
    BY <2>1 DEF PoolsInv, MadeInv, JobsInv, LeaveInv
  <2>5. TokenInv'
    BY <1>1, <1>6, <2>4 DEF TokenInv, TokenAt
  <2>6. QED
    BY <1>1, <2>3, <2>5 DEF JobsInv, ClearedInv
<1>9. QED
  BY <1>7, <1>8

\* jobqueue_push.
LEMMA PushJobs ==
  ASSUME PoolsInv, JobsInv, AddPush
  PROVE  JobsInv'
<1>1. /\ phase = "call" /\ at \in DOMAIN script /\ Enter("posting") /\ phase' = "posting"
      /\ queue' = [queue EXCEPT ![This] = Append(queue[This], at)]
      /\ UNCHANGED <<script, at, v, pc, keepalive>>
  BY DEF AddPush, Calling, Enter
<1>2. This \in Pools /\ ~Over(This)
  BY <1>1, UseFacts DEF PoolsInv
<1>3. \A p \in Pools : p # This => queue'[p] = queue[p]
  BY <1>1 DEF PoolsInv, PoolOK
<1>4. Settled /\ (\A p : Over(p)' <=> Over(p)) /\ This' = This
  BY <1>1, EnterSettled
<1>5. ClearedInv'
  BY <1>1, <1>4 DEF JobsInv, ClearedInv, Settled
<1>6. LeaveInv'
  BY <1>1, <1>2, <1>3, <1>4 DEF JobsInv, LeaveInv
<1>7. TokenInv'
  BY <1>1, <1>3, <1>4 DEF JobsInv, TokenInv, TokenAt, Awake, Committed
<1>8. QED
  BY <1>5, <1>6, <1>7 DEF JobsInv

\* A pool in use has a worker that is awake once a job has been posted to it.
LEMMA PostWakes ==
  ASSUME PoolsInv, LeaveInv, AddPost, keepalive
  PROVE  \E t \in Threads : Owner(t) = This /\ Awake(t)'
<1>1. phase = "posting" /\ at \in DOMAIN script /\ script[at][1] = "add" /\ Post(This, pc)
  BY DEF AddPost, PoolsInv, ScriptInv
<1>2. PICK i \in DOMAIN script : i < at /\ script[i][1] = "init" /\ script[i][2] = This
  BY <1>1, UseFacts DEF PoolsInv
<1>3. This \in Pools /\ ~Over(This) /\ script[i][3] \in 1 .. MaxThreads
  BY <1>1, <1>2, UseFacts, ScriptFacts, CallFacts DEF PoolsInv, CallOK
<1>4. /\ \A u \in Threads : pc'[u] = pc[u] \/ (pc[u] = "asleep" /\ pc'[u] = "wait")
      /\ (\E u \in Threads : Owner(u) = This /\ pc[u] = "asleep")
           => \E u \in Threads : Owner(u) = This /\ pc'[u] = "wait"
  BY <1>1, <1>3, PostFacts DEF PoolsInv, PoolOK
<1>5. CASE \E u \in Threads : Owner(u) = This /\ pc[u] = "asleep"
  BY <1>4, <1>5 DEF Awake
<1>6. CASE ~\E u \in Threads : Owner(u) = This /\ pc[u] = "asleep"
  <2> DEFINE t == <<This, 1>>
  <2>1. t \in Threads /\ Owner(t) = This /\ t[2] = 1 /\ 1 <= script[i][3]
    BY <1>3, ThreadFacts
  <2> HIDE DEF t
  <2>2. pc[t] # "none"
    BY <1>2, <2>1 DEF PoolsInv, MadeInv
  <2>3. pc[t] # "gone"
    BY <1>3, <2>1 DEF LeaveInv
  <2>4. pc'[t] = pc[t] /\ pc[t] # "asleep"
    BY <1>4, <1>6, <2>1
  <2>5. QED
    BY <2>1, <2>2, <2>3, <2>4 DEF Awake
<1>7. QED
  BY <1>5, <1>6

\* The rest of thpool_add_work.
LEMMA PostJobs ==
  ASSUME PoolsInv, JobsInv, AddPost
  PROVE  JobsInv'
<1>1. /\ phase = "posting" /\ Post(This, pc) /\ Return /\ UNCHANGED <<queue, keepalive>>
      /\ at \in DOMAIN script /\ script[at][1] = "add" /\ phase' = "call" /\ script' = script
  BY DEF AddPost, PoolsInv, ScriptInv, Return
<1>2. ClearedInv' /\ (\A p : Over(p)' <=> Over(p))
  BY <1>1, ReturnJobs DEF JobsInv
<1>3. This \in Pools /\ v' = [v EXCEPT ![This] = 1] /\ v \in [Pools -> {0, 1}]
  BY <1>1, UseFacts, PostFacts DEF PoolsInv, PoolOK
<1>4. v'[This] = 1 /\ \A p \in Pools : p # This => v'[p] = v[p]
  BY <1>3
<1>5. Calm
  BY AddPostStep
<1>6. LeaveInv'
  BY <1>1, <1>2, <1>5 DEF JobsInv, LeaveInv, Calm
<1>7. \A u \in Threads : (Committed(u) => Committed(u)') /\ (Awake(u) => Awake(u)')
  BY <1>5 DEF Calm, Committed, Awake
<1>8. ASSUME keepalive, NEW p \in Pools PROVE TokenAt(p)'
  <2>1. CASE p = This
    BY <1>4, <1>8, <2>1, PostWakes DEF JobsInv, TokenAt
  <2>2. CASE p # This
    BY <1>1, <1>2, <1>4, <1>7, <1>8, <2>2 DEF JobsInv, TokenInv, TokenAt
  <2>3. QED
    BY <2>1, <2>2
<1>9. TokenInv'
  BY <1>1, <1>8 DEF TokenInv
<1>10. QED
  BY <1>2, <1>6, <1>9 DEF JobsInv

\* The three steps of thpool_destroy.
LEMMA DestroyJobs ==
  ASSUME PoolsInv, JobsInv, DestroyCall \/ DestroyPost \/ DestroyFree
  PROVE  JobsInv'
<1>1. CASE DestroyCall
  <2>1. /\ phase = "call" /\ at \in DOMAIN script /\ script[at][1] = "destroy" /\ Enter("ending")
        /\ UNCHANGED queue /\ ~keepalive' /\ script' = script /\ at' = at /\ phase' = "ending"
    BY <1>1 DEF DestroyCall, Calling, poolVars, Enter
  <2>2. \A p : Over(p)' <=> Over(p)
    BY <2>1, EnterSettled
  <2>3. QED
    BY <2>1, <2>2 DEF JobsInv, ClearedInv, LeaveInv, TokenInv
<1>2. CASE DestroyPost
  <2>1. phase = "ending" /\ UNCHANGED <<queue, script, at, phase, keepalive>> /\ ~keepalive
    BY <1>2 DEF DestroyPost, callVars, PoolsInv, ScriptInv
  <2>2. Waits
    BY <2>1 DEF Waits
  <2>3. QED
    BY <2>1, <2>2, WaitsFacts, ClearedSame DEF JobsInv, LeaveInv, TokenInv
<1>3. CASE DestroyFree
  <2>1. /\ phase = "ending" /\ at \in DOMAIN script /\ script[at][1] = "destroy" /\ ~keepalive
        /\ Return /\ keepalive' = keepalive /\ queue' = [queue EXCEPT ![This] = <<>>]
    BY <1>3 DEF DestroyFree, PoolsInv, ScriptInv
  <2>2. \A p : Over(p)' <=> Over(p) \/ This = p
    BY <2>1, ReturnFacts DEF PoolsInv
  <2>3. at \in Nat /\ at' = at + 1 /\ script' = script
    BY <2>1 DEF Return, PoolsInv, CallOK
  <2>4. ClearedInv'
    BY <2>1, <2>3 DEF ClearedInv
  <2>5. \A p \in Pools : queue'[p] = IF p = This THEN <<>> ELSE queue[p]
    BY <2>1 DEF PoolsInv, PoolOK
  <2>6. LeaveInv' /\ TokenInv'
    BY <2>1, <2>2, <2>5 DEF JobsInv, LeaveInv, TokenInv
  <2>7. QED
    BY <2>4, <2>6 DEF JobsInv
<1>4. QED
  BY <1>1, <1>2, <1>3

--------------------------------------------------------------------------------
(* The results                                                             *)

\* Before the first call.
LEMMA JobsInit ==
  ASSUME Init
  PROVE  JobsInv
<1>1. /\ \A i \in DOMAIN script : i \in 1 .. Len(script) /\ Len(script) \in Nat
      /\ at = 1 /\ phase = "call" /\ ~keepalive
  BY ScriptFacts DEF Init
<1>2. /\ \A i \in DOMAIN script : ~(i < at)
      /\ \A p \in Pools : queue[p] = <<>>
  BY <1>1 DEF Init
<1>3. QED
  BY <1>1, <1>2 DEF JobsInv, ClearedInv, LeaveInv, TokenInv, Made

\* Every step keeps the invariant.
LEMMA JobsStep ==
  ASSUME PoolsInv, JobsInv, KeptApart, [Next]_vars
  PROVE  JobsInv'
<1>1. ASSUME NEW t \in Threads, Signal(t) PROVE JobsInv'
  <2>1. UNCHANGED <<poolVars, callVars>>
    BY <1>1, SignalStep
  <2>2. QED
    BY <2>1 DEF poolVars, callVars, JobsInv, ClearedInv, LeaveInv, TokenInv, TokenAt, Awake, Committed,
                Made, Over, This
<1>2. CASE UNCHANGED vars
  <2>1. UNCHANGED <<poolVars, callVars>>
    BY <1>2 DEF vars
  <2>2. QED
    BY <2>1 DEF poolVars, callVars, JobsInv, ClearedInv, LeaveInv, TokenInv, TokenAt, Awake, Committed,
                Made, Over, This
<1>3. QED
  BY <1>1, <1>2, WorkerJobs, InitJobs, PlainJobs, PushJobs, PostJobs, DestroyJobs DEF Next, Call

\* Both invariants together.
LEMMA JobsAlways ==
  ASSUME KeptApart
  PROVE  Spec => [](PoolsInv /\ JobsInv)
<1>1. Init => PoolsInv /\ JobsInv
  BY PoolsInit, JobsInit
<1>2. (PoolsInv /\ JobsInv) /\ [Next]_vars => (PoolsInv /\ JobsInv)'
  BY PoolsStep, JobsStep
<1>3. QED
  BY <1>1, <1>2, PTL DEF Spec

\* A token or a worker on its way to the queue is a worker that is awake.
LEMMA NotStranded ==
  ASSUME PoolsInv, JobsInv
  PROVE  NoStrandedJob
<1> SUFFICES ASSUME NEW p \in Pools, keepalive, queue[p] # <<>>, phase # "posting"
             PROVE  Working(p) # {}
  BY DEF NoStrandedJob
<1>1. ~Over(p) /\ TokenAt(p)
  BY DEF JobsInv, LeaveInv, TokenInv
<1>2. \A t \in Threads : Committed(t) => Awake(t)
  BY DEF Committed, Awake
<1>3. \E t \in Threads : Owner(t) = p /\ Awake(t)
  BY <1>1, <1>2 DEF TokenAt
<1>4. QED
  BY <1>3 DEF Working, Awake

\* The workers of a pool in use are those that were asked for.
LEMMA Whole ==
  ASSUME PoolsInv, JobsInv
  PROVE  PoolsAreWhole
<1> SUFFICES ASSUME NEW i \in DOMAIN script, i < at, script[i][1] = "init", keepalive,
                    ~Destroyed(script[i][2])
             PROVE  alive[script[i][2]] = script[i][3]
  BY DEF PoolsAreWhole
<1> DEFINE p == script[i][2]
           n == script[i][3]
<1>1. /\ p \in Pools /\ n \in 1 .. MaxThreads /\ MaxThreads \in Nat
      /\ \A k \in DOMAIN script : script[k] \in Calls /\ k \in Nat
      /\ at \in Nat
  BY ScriptFacts, CallFacts, ThreadFacts DEF PoolsInv, CallOK
<1>2. ~Over(p)
  <2>1. \A k \in DOMAIN script : script[k][1] = "destroy" => script[k] = <<"destroy", script[k][2]>>
    BY <1>1 DEF Calls
  <2>2. \A k \in DOMAIN script : k < at => k <= at
    BY <1>1
  <2>3. QED
    BY <2>1, <2>2 DEF Over, Destroyed
<1> HIDE DEF p, n
<1>3. \A t \in Threads : Owner(t) = p => /\ t[2] > n => pc[t] = "none"
                                         /\ t[2] <= n => pc[t] \notin {"none", "start", "starting", "gone"}
  BY <1>2 DEF PoolsInv, MadeInv, JobsInv, LeaveInv, p, n
<1>4. Alive(p) = {p} \X (1 .. n)
  <2>1. ASSUME NEW t \in Alive(p) PROVE t \in {p} \X (1 .. n)
    <3>1. t \in Threads /\ Owner(t) = p /\ pc[t] # "none"
      BY DEF Alive
    <3>2. t = <<p, t[2]>> /\ t[2] \in 1 .. MaxThreads
      BY <3>1, ThreadFacts
    <3>3. ~(t[2] > n)
      BY <1>3, <3>1
    <3>4. t[2] \in 1 .. n
      BY <1>1, <3>2, <3>3
    <3>5. QED
      BY <3>2, <3>4
  <2>2. ASSUME NEW m \in 1 .. n PROVE <<p, m>> \in Alive(p)
    <3>1. m \in 1 .. MaxThreads /\ m <= n
      BY <1>1
    <3>2. <<p, m>> \in Threads /\ Owner(<<p, m>>) = p /\ <<p, m>>[2] <= n
      BY <1>1, <3>1, ThreadFacts
    <3>3. QED
      BY <1>3, <3>2 DEF Alive
  <2>3. QED
    BY <2>1, <2>2
<1>5. Cardinality(Alive(p)) = n
  <2>1. IsFiniteSet({p}) /\ Cardinality({p}) = 1
    BY FS_Singleton
  <2>2. 1 \in Int /\ n \in Int /\ ~(1 > n)
    BY <1>1
  <2>3. IsFiniteSet(1 .. n) /\ Cardinality(1 .. n) = IF 1 > n THEN 0 ELSE n - 1 + 1
    BY <2>2, FS_Interval
  <2>4. Cardinality({p} \X (1 .. n)) = 1 * Cardinality(1 .. n)
    BY <2>1, <2>3, FS_Product
  <2>5. QED
    BY <1>4, <2>2, <2>3, <2>4
<1>6. QED
  BY <1>1, <1>5 DEF PoolsInv, AliveInv, p, n

\* Where pools are kept apart, no job is ever left in a queue with every worker
\* of the pool asleep or gone: for any number of pools, of threads and of jobs,
\* whatever bsem_post drops and wherever thpool_pause catches the workers.
THEOREM JobsNotStranded ==
  ASSUME KeptApart
  PROVE  Spec => []NoStrandedJob
BY JobsAlways, NotStranded, PTL

\* And a pool that thpool_init has returned has all its threads until it is
\* destroyed.
THEOREM PoolsStayWhole ==
  ASSUME KeptApart
  PROVE  Spec => []PoolsAreWhole
BY JobsAlways, Whole, PTL
===============================================================================
