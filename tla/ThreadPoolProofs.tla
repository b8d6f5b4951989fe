--------------------------- MODULE ThreadPoolProofs ----------------------------
(* Theorems about ThreadPool for every set of workers, waiters and jobs.   *)
EXTENDS ThreadPool, TLAPS, FiniteSetTheorems, SequenceTheorems

--------------------------------------------------------------------------------
(* Lemmas about the operators                                              *)

\* A post sets the semaphore, moves at most one worker, from its sleep to
\* the head of bsem_wait's loop, and leaves some worker awake.
LEMMA PostMoves ==
  ASSUME NEW f \in [Threads -> WorkerSteps], BsemPost(f)
  PROVE  /\ bsem' = 1
         /\ pc' \in [Threads -> WorkerSteps]
         /\ \A t \in Threads : pc'[t] = f[t] \/ (f[t] = "asleep" /\ pc'[t] = "wait")
         /\ \E t \in Threads : pc'[t] # "asleep"
<1>1. CASE Asleep(f) = {}
  BY <1>1, PoolAssumption DEF BsemPost, WakeOne, Asleep
<1>2. CASE Asleep(f) # {}
  <2>1. PICK x \in Asleep(f) : pc' = [f EXCEPT ![x] = "wait"]
    BY <1>2 DEF BsemPost, WakeOne
  <2>2. x \in Threads /\ f[x] = "asleep"
    BY DEF Asleep
  <2>3. QED
    BY <2>1, <2>2 DEF BsemPost, WorkerSteps
<1>3. QED
  BY <1>1, <1>2

\* Signalling the waiters moves at most one of them, out of its sleep.
LEMMA WaiterSignalled ==
  ASSUME NEW f \in [Waiters -> WaiterSteps], NEW g \in WakeOne(f, "woken")
  PROVE  /\ g \in [Waiters -> WaiterSteps]
         /\ \A w \in Waiters : g[w] = f[w] \/ (f[w] = "asleep" /\ g[w] = "woken")
<1>1. CASE Asleep(f) = {}
  BY <1>1 DEF WakeOne
<1>2. CASE Asleep(f) # {}
  <2>1. PICK x \in Asleep(f) : g = [f EXCEPT ![x] = "woken"]
    BY <1>2 DEF WakeOne
  <2>2. x \in Waiters /\ f[x] = "asleep"
    BY DEF Asleep
  <2>3. QED
    BY <2>1, <2>2 DEF WaiterSteps
<1>3. QED
  BY <1>1, <1>2

\* A broadcast leaves nobody asleep and moves nobody else.
LEMMA WakeAllMoves ==
  ASSUME NEW f \in [Threads -> WorkerSteps]
  PROVE  /\ WakeAll(f) \in [Threads -> WorkerSteps]
         /\ \A t \in Threads : /\ WakeAll(f)[t] # "asleep"
                               /\ \/ WakeAll(f)[t] = f[t]
                                  \/ f[t] = "asleep" /\ WakeAll(f)[t] = "wait"
BY DEF WakeAll, WorkerSteps

\* What a pull takes and what it leaves, for an empty and a non-empty queue.
LEMMA PullQueue ==
  ASSUME queue \in Seq(Jobs)
  PROVE  /\ AfterPull(queue) \in Seq(Jobs)
         /\ queue # <<>> => /\ Head(queue) \in Jobs
                            /\ Head(queue) = queue[1]
                            /\ Len(queue) \in Nat \ {0}
                            /\ Len(AfterPull(queue)) = Len(queue) - 1
                            /\ \A i \in 1 .. Len(queue) - 1 : AfterPull(queue)[i] = queue[i + 1]
         /\ AfterPull(queue) # <<>> => MoreJobs(queue)
         /\ MoreJobs(queue) => queue # <<>>
<1>1. CASE queue = <<>>
  BY <1>1 DEF AfterPull, MoreJobs
<1>2. CASE queue # <<>>
  <2>1. /\ Head(queue) \in Jobs /\ Tail(queue) \in Seq(Jobs)
        /\ Len(Tail(queue)) = Len(queue) - 1
        /\ \A i \in 1 .. Len(Tail(queue)) : Tail(queue)[i] = queue[i + 1]
    BY <1>2, HeadTailProperties
  <2>2. Len(queue) \in Nat \ {0}
    BY <1>2, EmptySeq
  <2>3. Tail(queue) # <<>> => Len(Tail(queue)) \in Nat \ {0}
    BY <2>1, EmptySeq
  <2>4. QED
    BY <1>2, <2>1, <2>2, <2>3 DEF AfterPull, MoreJobs
<1>3. QED
  BY <1>1, <1>2

\* A worker's pull, seen from the workers and the semaphore: jobs left behind
\* are announced by a post, and a worker that finds no job skips the run.
LEMMA PullMoves ==
  ASSUME TypeOK, NEW t \in Threads, Pull(t)
  PROVE  /\ pc' \in [Threads -> WorkerSteps]
         /\ pc'[t] = IF queue = <<>> THEN "uncount" ELSE "run"
         /\ \A x \in Threads \ {t} : pc'[x] = pc[x] \/ (pc[x] = "asleep" /\ pc'[x] = "wait")
         /\ bsem' \in {bsem, 1}
         /\ queue' # <<>> => bsem' = 1
<1> DEFINE moved == [pc EXCEPT ![t] = IF queue = <<>> THEN "uncount" ELSE "run"]
<1>1. /\ moved \in [Threads -> WorkerSteps]
      /\ moved[t] = IF queue = <<>> THEN "uncount" ELSE "run"
      /\ \A x \in Threads \ {t} : moved[x] = pc[x]
  BY DEF TypeOK, WorkerSteps
<1>2. queue' # <<>> => MoreJobs(queue)
  BY PullQueue DEF Pull, TypeOK
<1>3. CASE MoreJobs(queue)
  <2>1. BsemPost(moved)
    BY <1>3 DEF Pull
  <2> HIDE DEF moved
  <2>2. QED
    BY <1>1, <2>1, PostMoves
<1>4. CASE ~MoreJobs(queue)
  BY <1>1, <1>2, <1>4 DEF Pull
<1>5. QED
  BY <1>3, <1>4

--------------------------------------------------------------------------------
(* Types                                                                   *)

Typing == TypeOK /\ HeldInv

\* What a step changes keeps its type, and a worker takes a job only as it
\* goes to run it.
LEMMA TypedThroughout == Spec => []Typing
<1>1. Init => Typing
  BY PoolAssumption, EmptySeq DEF Init, EmptyQueue, Typing, TypeOK, HeldInv, WorkerSteps, WaiterSteps
<1>2. Typing /\ [Next]_vars => Typing'
  <2> SUFFICES ASSUME Typing, [Next]_vars PROVE Typing'
    OBVIOUS
  <2> USE PoolAssumption DEF Typing, TypeOK, HeldInv, WorkerSteps, WaiterSteps, Goto,
          queueVars, countVars, waitVars, mainVars
  <2>1. ASSUME NEW t \in Threads, Start(t) PROVE Typing'
    BY <2>1 DEF Start
  <2>2. ASSUME NEW t \in Threads, Loop(t) PROVE Typing'
    BY <2>2 DEF Loop
  <2>3. ASSUME NEW t \in Threads, BsemWait(t) PROVE Typing'
    BY <2>3 DEF BsemWait
  <2>4. ASSUME NEW t \in Threads, SpuriousWake(t) PROVE Typing'
    BY <2>4 DEF SpuriousWake
  <2>5. ASSUME NEW t \in Threads, Check(t) PROVE Typing'
    BY <2>5 DEF Check
  <2>6. ASSUME NEW t \in Threads, Count(t) PROVE Typing'
    BY <2>6 DEF Count
  <2>7. ASSUME NEW t \in Threads, Pull(t) PROVE Typing'
    <3>1. queue' \in Seq(Jobs) /\ (queue # <<>> => Head(queue) \in Jobs)
      BY <2>7, PullQueue DEF Pull
    <3> HIDE DEF WorkerSteps, WaiterSteps
    <3>2. /\ pc' \in [Threads -> WorkerSteps]
          /\ bsem' \in {0, 1}
          /\ pc'[t] = "run" <=> queue # <<>>
          /\ \A x \in Threads \ {t} : pc'[x] = "run" <=> pc[x] = "run"
      BY <2>7, PullMoves
    <3>3. /\ held' \in [Threads -> Jobs \cup {NoJob}]
          /\ held'[t] # NoJob <=> queue # <<>>
          /\ \A x \in Threads \ {t} : held'[x] = held[x]
      BY <2>7, <3>1 DEF Pull
    <3>4. HeldInv'
      BY <3>2, <3>3
    <3>5. QED
      BY <2>7, <3>1, <3>2, <3>3, <3>4 DEF Pull
  <2>8. ASSUME NEW t \in Threads, Run(t) PROVE Typing'
    BY <2>8 DEF Run
  <2>9. ASSUME NEW t \in Threads, Uncount(t) PROVE Typing'
    <3>1. wpc' \in [Waiters -> WaiterSteps]
      <4>1. CASE working' = 0
        BY <2>9, <4>1, WaiterSignalled DEF Uncount
      <4>2. CASE working' # 0
        BY <2>9, <4>2 DEF Uncount
      <4>3. QED
        BY <4>1, <4>2
    <3>2. QED
      BY <2>9, <3>1 DEF Uncount
  <2>10. ASSUME NEW t \in Threads, Leave(t) PROVE Typing'
    BY <2>10 DEF Leave
  <2>11. ASSUME NEW t \in Threads, Unlock(t) PROVE Typing'
    BY <2>11 DEF Unlock
  <2>12. ASSUME NEW w \in Waiters, WaitEnter(w) PROVE Typing'
    BY <2>12 DEF WaitEnter
  <2>13. ASSUME NEW w \in Waiters, WaitLen(w) PROVE Typing'
    BY <2>13 DEF WaitLen
  <2>14. ASSUME NEW w \in Waiters, WaitWorking(w) PROVE Typing'
    BY <2>14 DEF WaitWorking
  <2>15. ASSUME NEW w \in Waiters, WaitSleep(w) PROVE Typing'
    BY <2>15 DEF WaitSleep
  <2>16. ASSUME NEW w \in Waiters, WaitRelock(w) PROVE Typing'
    BY <2>16 DEF WaitRelock
  <2>17. ASSUME NEW w \in Waiters, SpuriousWaiter(w) PROVE Typing'
    BY <2>17 DEF SpuriousWaiter
  <2>18. ASSUME NEW j \in Jobs, AddWork(j) PROVE Typing'
    <3>1. queue' \in Seq(Jobs)
      BY <2>18, AppendProperties DEF AddWork
    <3>2. /\ pc' \in [Threads -> WorkerSteps]
          /\ \A x \in Threads : pc'[x] = pc[x] \/ (pc[x] = "asleep" /\ pc'[x] = "wait")
      BY <2>18, PostMoves DEF AddWork
    <3>3. QED
      BY <2>18, <3>1, <3>2, PostMoves DEF AddWork
  <2>19. ASSUME InitDone PROVE Typing'
    BY <2>19 DEF InitDone
  <2>20. ASSUME DestroyCall PROVE Typing'
    BY <2>20 DEF DestroyCall
  <2>21. ASSUME DestroyPost PROVE Typing'
    BY <2>21, WakeAllMoves DEF DestroyPost
  <2>22. ASSUME DestroyFree PROVE Typing'
    BY <2>22, EmptySeq DEF DestroyFree, ClearQueue
  <2>23. CASE UNCHANGED vars
    BY <2>23 DEF vars
  <2>24. QED
    BY <2>1, <2>2, <2>3, <2>4, <2>5, <2>6, <2>7, <2>8, <2>9, <2>10, <2>11, <2>12, <2>13,
       <2>14, <2>15, <2>16, <2>17, <2>18, <2>19, <2>20, <2>21, <2>22, <2>23
       DEF Next, Work, Waiting, Owner
<1>3. QED
  BY <1>1, <1>2, PTL DEF Spec

\* The type invariant, with the fact it needs: a worker holds a job exactly
\* while it runs one.
THEOREM TypeCorrect == Spec => [](TypeOK /\ HeldInv)
<1>1. Typing => TypeOK /\ HeldInv
  BY DEF Typing
<1>2. QED
  BY <1>1, TypedThroughout, PTL

--------------------------------------------------------------------------------
(* The counters                                                            *)

\* The two counters are the numbers of threads between their increments and
\* their decrements, whatever is read of them meanwhile (CountInv).
THEOREM CountsAreExact == Spec => []CountInv
<1>1. Init => CountInv
  <2> SUFFICES ASSUME Init PROVE CountInv
    OBVIOUS
  <2>1. AliveThreads = {} /\ BusyThreads = {}
    BY DEF Init, AliveThreads, BusyThreads, Busy
  <2>2. QED
    BY <2>1, FS_EmptySet DEF Init, CountInv
<1>2. Typing /\ CountInv /\ [Next]_vars => CountInv'
  <2> SUFFICES ASSUME Typing, CountInv, [Next]_vars PROVE CountInv'
    OBVIOUS
  <2> DEFINE Same == /\ AliveThreads' = AliveThreads /\ BusyThreads' = BusyThreads
                     /\ alive' = alive /\ working' = working
  <2>a. Same => CountInv'
    BY DEF CountInv
  <2>b. /\ IsFiniteSet(AliveThreads) /\ IsFiniteSet(BusyThreads)
        /\ alive \in Nat /\ working \in Nat
    <3>1. AliveThreads \subseteq Threads /\ BusyThreads \subseteq Threads
      BY DEF AliveThreads, BusyThreads
    <3>2. QED
      BY <3>1, PoolAssumption, FS_Subset, FS_CardinalityType DEF CountInv
  <2> USE DEF Typing, TypeOK, AliveThreads, BusyThreads, Busy, Goto, countVars
  <2>1. ASSUME NEW t \in Threads, Start(t) PROVE CountInv'
    <3>1. AliveThreads' = AliveThreads \cup {t} /\ t \notin AliveThreads
      BY <2>1 DEF Start
    <3>2. BusyThreads' = BusyThreads
      BY <2>1 DEF Start
    <3> HIDE DEF AliveThreads, BusyThreads
    <3>3. Cardinality(AliveThreads \cup {t}) = Cardinality(AliveThreads) + 1
      BY <2>b, <3>1, FS_AddElement
    <3>4. QED
      BY <2>1, <3>1, <3>2, <3>3 DEF Start, CountInv
  <2>2. ASSUME NEW t \in Threads, Loop(t) PROVE Same
    BY <2>2 DEF Loop
  <2>3. ASSUME NEW t \in Threads, BsemWait(t) PROVE Same
    BY <2>3 DEF BsemWait
  <2>4. ASSUME NEW t \in Threads, SpuriousWake(t) PROVE Same
    BY <2>4 DEF SpuriousWake
  <2>5. ASSUME NEW t \in Threads, Check(t) PROVE Same
    BY <2>5 DEF Check
  <2>6. ASSUME NEW t \in Threads, Count(t) PROVE CountInv'
    <3>1. BusyThreads' = BusyThreads \cup {t} /\ t \notin BusyThreads
      BY <2>6 DEF Count
    <3>2. AliveThreads' = AliveThreads
      BY <2>6 DEF Count
    <3> HIDE DEF AliveThreads, BusyThreads
    <3>3. Cardinality(BusyThreads \cup {t}) = Cardinality(BusyThreads) + 1
      BY <2>b, <3>1, FS_AddElement
    <3>4. QED
      BY <2>6, <3>1, <3>2, <3>3 DEF Count, CountInv
  <2>7. ASSUME NEW t \in Threads, Pull(t) PROVE Same
    <3>1. pc[t] = "pull" /\ alive' = alive /\ working' = working
      BY <2>7 DEF Pull
    <3>2. QED
      BY <2>7, <3>1, PullMoves
  <2>8. ASSUME NEW t \in Threads, Run(t) PROVE Same
    BY <2>8 DEF Run
  <2>9. ASSUME NEW t \in Threads, Uncount(t) PROVE CountInv'
    <3>1. BusyThreads' = BusyThreads \ {t} /\ t \in BusyThreads
      BY <2>9 DEF Uncount
    <3>2. AliveThreads' = AliveThreads
      BY <2>9 DEF Uncount
    <3> HIDE DEF AliveThreads, BusyThreads
    <3>3. Cardinality(BusyThreads \ {t}) = Cardinality(BusyThreads) - 1
      BY <2>b, <3>1, FS_RemoveElement
    <3>4. QED
      BY <2>9, <3>1, <3>2, <3>3 DEF Uncount, CountInv
  <2>10. ASSUME NEW t \in Threads, Leave(t) PROVE CountInv'
    <3>1. AliveThreads' = AliveThreads \ {t} /\ t \in AliveThreads
      BY <2>10 DEF Leave
    <3>2. BusyThreads' = BusyThreads
      BY <2>10 DEF Leave
    <3> HIDE DEF AliveThreads, BusyThreads
    <3>3. Cardinality(AliveThreads \ {t}) = Cardinality(AliveThreads) - 1
      BY <2>b, <3>1, FS_RemoveElement
    <3>4. QED
      BY <2>10, <3>1, <3>2, <3>3 DEF Leave, CountInv
  <2>11. ASSUME NEW t \in Threads, Unlock(t) PROVE Same
    BY <2>11 DEF Unlock
  <2>12. ASSUME NEW w \in Waiters, WaitEnter(w) \/ Waiting(w) \/ SpuriousWaiter(w)
         PROVE  Same
    BY <2>12 DEF WaitEnter, Waiting, WaitLen, WaitWorking, WaitSleep, WaitRelock, SpuriousWaiter
  <2>13. ASSUME NEW j \in Jobs, AddWork(j) PROVE Same
    BY <2>13, PostMoves DEF AddWork
  <2>14. ASSUME InitDone \/ DestroyCall \/ DestroyFree PROVE Same
    BY <2>14 DEF InitDone, DestroyCall, DestroyFree
  <2>15. ASSUME DestroyPost PROVE Same
    BY <2>15, WakeAllMoves DEF DestroyPost
  <2>16. ASSUME UNCHANGED vars PROVE Same
    BY <2>16 DEF vars
  <2> HIDE DEF Same, Typing, TypeOK, AliveThreads, BusyThreads, Busy, Goto, countVars
  <2>17. QED
    BY <2>a, <2>1, <2>2, <2>3, <2>4, <2>5, <2>6, <2>7, <2>8, <2>9, <2>10, <2>11, <2>12,
       <2>13, <2>14, <2>15, <2>16 DEF Next, Work, Owner
<1>3. QED
  BY <1>1, <1>2, TypedThroughout, PTL DEF Spec

--------------------------------------------------------------------------------
(* The life cycle                                                          *)

\* When every thread is counted as alive none is still starting, and when
\* none is counted as alive none is still in its loop.
LEMMA AliveReads ==
  ASSUME Typing, CountInv
  PROVE  /\ alive = Cardinality(Threads) => \A t \in Threads : pc[t] # "start"
         /\ alive = 0 => \A t \in Threads : pc[t] \in {"start", "unlock", "gone"}
<1>1. AliveThreads \in SUBSET Threads
  BY DEF AliveThreads
<1>2. IsFiniteSet(AliveThreads)
  BY <1>1, PoolAssumption, FS_Subset
<1>3. alive = Cardinality(Threads) => AliveThreads = Threads
  BY <1>1, PoolAssumption, FS_Subset DEF CountInv
<1>4. alive = 0 => AliveThreads = {}
  BY <1>2, FS_EmptySet DEF CountInv
<1>5. QED
  BY <1>3, <1>4 DEF AliveThreads

\* The owner's phase bounds what the workers and the waiters can be doing,
\* and a pool is freed only with every worker out of its loop
\* (FreedWhenDrained, thpool.c:240-260).
THEOREM FreedOnlyWhenDrained == Spec => [](MainInv /\ FreedWhenDrained)
<1> DEFINE Phases == MainInv /\ FreedWhenDrained
<1>1. Init => Phases
  BY DEF Init, MainInv, FreedWhenDrained
<1>2. Typing /\ CountInv /\ Phases /\ [Next]_vars => Phases'
  <2> SUFFICES ASSUME Typing, CountInv, Phases, [Next]_vars PROVE Phases'
    OBVIOUS
  <2> USE DEF Typing, TypeOK, HeldInv, MainInv, FreedWhenDrained, Goto, WorkerSteps,
              mainVars, waitVars
  <2>1. ASSUME NEW t \in Threads, Start(t) PROVE Phases'
    BY <2>1 DEF Start
  <2>2. ASSUME NEW t \in Threads, Loop(t) PROVE Phases'
    BY <2>2 DEF Loop
  <2>3. ASSUME NEW t \in Threads, BsemWait(t) PROVE Phases'
    BY <2>3 DEF BsemWait
  <2>4. ASSUME NEW t \in Threads, SpuriousWake(t) PROVE Phases'
    BY <2>4 DEF SpuriousWake
  <2>5. ASSUME NEW t \in Threads, Check(t) PROVE Phases'
    BY <2>5 DEF Check
  <2>6. ASSUME NEW t \in Threads, Count(t) PROVE Phases'
    BY <2>6 DEF Count
  <2>7. ASSUME NEW t \in Threads, Pull(t) PROVE Phases'
    <3>1. pc[t] = "pull" /\ main # "freed" /\ UNCHANGED <<mainVars, waitVars>>
      BY <2>7 DEF Pull
    <3>2. QED
      BY <2>7, <3>1, PullMoves
  <2>8. ASSUME NEW t \in Threads, Run(t) PROVE Phases'
    BY <2>8 DEF Run
  <2>9. ASSUME NEW t \in Threads, Uncount(t) PROVE Phases'
    <3>1. /\ \A w \in Waiters : wpc'[w] = wpc[w] \/ (wpc[w] = "asleep" /\ wpc'[w] = "woken")
          /\ pc[t] = "uncount" /\ pc' = [pc EXCEPT ![t] = "loop"]
          /\ UNCHANGED <<held, mainVars>>
      BY <2>9, WaiterSignalled DEF Uncount
    <3>2. QED
      BY <3>1
  <2>10. ASSUME NEW t \in Threads, Leave(t) PROVE Phases'
    BY <2>10 DEF Leave
  <2>11. ASSUME NEW t \in Threads, Unlock(t) PROVE Phases'
    BY <2>11 DEF Unlock
  <2>12. ASSUME NEW w \in Waiters, WaitEnter(w) \/ Waiting(w) \/ SpuriousWaiter(w)
         PROVE  Phases'
    BY <2>12 DEF WaitEnter, Waiting, WaitLen, WaitWorking, WaitSleep, WaitRelock, SpuriousWaiter
  <2>13. ASSUME NEW j \in Jobs, AddWork(j) PROVE Phases'
    BY <2>13, PostMoves DEF AddWork
  <2>14. ASSUME InitDone PROVE Phases'
    BY <2>14, AliveReads DEF InitDone
  <2>15. ASSUME DestroyCall PROVE Phases'
    BY <2>15 DEF DestroyCall
  <2>16. ASSUME DestroyPost PROVE Phases'
    BY <2>16, WakeAllMoves DEF DestroyPost
  <2>17. ASSUME DestroyFree PROVE Phases'
    BY <2>17, AliveReads DEF DestroyFree
  <2>18. CASE UNCHANGED vars
    BY <2>18 DEF vars
  <2> HIDE DEF Phases, Typing, TypeOK, HeldInv, MainInv, FreedWhenDrained, Goto, WorkerSteps,
               mainVars, waitVars
  <2>19. QED
    BY <2>1, <2>2, <2>3, <2>4, <2>5, <2>6, <2>7, <2>8, <2>9, <2>10, <2>11, <2>12,
       <2>13, <2>14, <2>15, <2>16, <2>17, <2>18 DEF Next, Work, Owner
<1>3. QED
  BY <1>1, <1>2, TypedThroughout, CountsAreExact, PTL DEF Spec

--------------------------------------------------------------------------------
(* Wake-ups                                                                *)

\* A queued job always has a worker that is awake and heading for the queue,
\* although posts to the binary semaphore are lost when it is already set
\* (NoStrandedJob, thpool.c:546-569).
THEOREM JobNeverStranded == Spec => []NoStrandedJob
<1>1. Init => TokenInv
  BY PoolAssumption DEF Init, EmptyQueue, TokenInv
<1>2. Typing /\ MainInv /\ TokenInv /\ [Next]_vars => TokenInv'
  <2> SUFFICES ASSUME Typing, MainInv, TokenInv, [Next]_vars PROVE TokenInv'
    OBVIOUS
  <2> USE DEF Typing, TypeOK, MainInv, TokenInv, Goto, WorkerSteps, mainVars, queueVars
  <2>1. ASSUME NEW t \in Threads, Start(t) PROVE TokenInv'
    BY <2>1 DEF Start
  <2>2. ASSUME NEW t \in Threads, Loop(t) PROVE TokenInv'
    BY <2>2 DEF Loop
  <2>3. ASSUME NEW t \in Threads, BsemWait(t) PROVE TokenInv'
    BY <2>3 DEF BsemWait
  <2>4. ASSUME NEW t \in Threads, SpuriousWake(t) PROVE TokenInv'
    BY <2>4 DEF SpuriousWake
  <2>5. ASSUME NEW t \in Threads, Check(t) PROVE TokenInv'
    BY <2>5 DEF Check
  <2>6. ASSUME NEW t \in Threads, Count(t) PROVE TokenInv'
    BY <2>6 DEF Count
  <2>7. ASSUME NEW t \in Threads, Pull(t) PROVE TokenInv'
    BY <2>7, PullMoves DEF Pull
  <2>8. ASSUME NEW t \in Threads, Run(t) PROVE TokenInv'
    BY <2>8 DEF Run
  <2>9. ASSUME NEW t \in Threads, Uncount(t) PROVE TokenInv'
    BY <2>9 DEF Uncount
  <2>10. ASSUME NEW t \in Threads, Leave(t) PROVE TokenInv'
    BY <2>10 DEF Leave
  <2>11. ASSUME NEW t \in Threads, Unlock(t) PROVE TokenInv'
    BY <2>11 DEF Unlock
  <2>12. ASSUME NEW w \in Waiters, WaitEnter(w) \/ Waiting(w) \/ SpuriousWaiter(w)
         PROVE  TokenInv'
    BY <2>12 DEF WaitEnter, Waiting, WaitLen, WaitWorking, WaitSleep, WaitRelock, SpuriousWaiter
  <2>13. ASSUME NEW j \in Jobs, AddWork(j) PROVE TokenInv'
    BY <2>13, PostMoves DEF AddWork
  <2>14. ASSUME InitDone \/ DestroyCall PROVE TokenInv'
    BY <2>14 DEF InitDone, DestroyCall
  <2>15. ASSUME DestroyPost PROVE TokenInv'
    BY <2>15, WakeAllMoves, PoolAssumption DEF DestroyPost
  <2>16. ASSUME DestroyFree PROVE TokenInv'
    BY <2>16 DEF DestroyFree, ClearQueue
  <2>17. CASE UNCHANGED vars
    BY <2>17 DEF vars
  <2> HIDE DEF Typing, TypeOK, MainInv, TokenInv, Goto, WorkerSteps, mainVars, queueVars
  <2>18. QED
    BY <2>1, <2>2, <2>3, <2>4, <2>5, <2>6, <2>7, <2>8, <2>9, <2>10, <2>11, <2>12,
       <2>13, <2>14, <2>15, <2>16, <2>17 DEF Next, Work, Owner
<1>3. Typing /\ MainInv /\ TokenInv => NoStrandedJob
  BY DEF Typing, TypeOK, MainInv, TokenInv, NoStrandedJob, InLoop, WorkerSteps
<1>4. QED
  BY <1>1, <1>2, <1>3, TypedThroughout, FreedOnlyWhenDrained, PTL DEF Spec

--------------------------------------------------------------------------------
(* thpool_wait                                                             *)

\* What a pull does to the jobs: the one it takes moves from the queue to
\* the worker's hands, and every other stays where it was.
LEMMA PullKeepsJobs ==
  ASSUME Typing, NEW t \in Threads, Pull(t)
  PROVE  Held \cup Queued \subseteq Held' \cup Queued' \cup {NoJob} /\ Held \subseteq Held' \cup {NoJob}
<1> USE DEF Typing, TypeOK, HeldInv, Held
<1>1. Held \subseteq Held' \cup {NoJob}
  BY DEF Pull
<1>2. CASE queue = <<>>
  <2>1. Queued = {}
    BY <1>2 DEF Queued
  <2>2. QED
    BY <1>1, <2>1
<1>3. CASE queue # <<>>
  <2>1. /\ held'[t] = queue[1] /\ queue' = AfterPull(queue)
        /\ Len(queue) \in Nat \ {0} /\ Len(queue') = Len(queue) - 1
        /\ \A i \in 1 .. Len(queue) - 1 : queue'[i] = queue[i + 1]
    BY <1>3, PullQueue DEF Pull
  <2>2. ASSUME NEW i \in 1 .. Len(queue) PROVE queue[i] \in Held' \cup Queued'
    <3>1. CASE i = 1
      BY <2>1, <3>1
    <3>2. CASE i # 1
      <4>1. i - 1 \in 1 .. Len(queue') /\ queue'[i - 1] = queue[i]
        BY <2>1, <3>2
      <4>2. QED
        BY <4>1 DEF Queued
    <3>3. QED
      BY <3>1, <3>2
  <2>3. QED
    BY <1>1, <2>2 DEF Queued
<1>4. QED
  BY <1>2, <1>3

\* An append adds one job to the queue and loses none.
LEMMA AddKeepsJobs ==
  ASSUME Typing, NEW j \in Jobs, AddWork(j)
  PROVE  Queued' = Queued \cup {j} /\ Held' = Held
<1> USE DEF Typing, TypeOK
<1>1. /\ Len(queue) \in Nat /\ Len(queue') = Len(queue) + 1
      /\ queue'[Len(queue) + 1] = j
      /\ \A i \in 1 .. Len(queue) : queue'[i] = queue[i]
  BY AppendProperties, LenProperties DEF AddWork
<1>2. 1 .. Len(queue') = (1 .. Len(queue)) \cup {Len(queue) + 1}
  BY <1>1
<1>3. QED
  BY <1>1, <1>2 DEF AddWork, Queued, Held

\* Until the pool is freed every added job is finished, in a worker's hands
\* or queued; and a waiter that has seen the queue empty is owed only jobs
\* that are finished or in a worker's hands (JobInv).
THEOREM JobsAccountedFor == Spec => []JobInv
<1>1. Init => JobInv
  BY DEF Init, EmptyQueue, JobInv
<1>2. Typing /\ Typing' /\ MainInv /\ JobInv /\ [Next]_vars => JobInv'
  <2> SUFFICES ASSUME Typing, Typing', MainInv, JobInv, [Next]_vars PROVE JobInv'
    OBVIOUS
  <2> DEFINE Same == /\ Held' = Held /\ Queued' = Queued
                     /\ UNCHANGED <<added, finished, owed, main>>
                     /\ \A w \in Waiters : wpc'[w] = "working" => wpc[w] = "working"
  <2>a. Same => JobInv'
    BY DEF JobInv
  <2>b. NoJob \notin added /\ \A w \in Waiters : NoJob \notin owed[w]
    BY PoolAssumption DEF Typing, TypeOK
  <2> USE DEF Typing, TypeOK, Held, Queued, Goto, waitVars, mainVars, queueVars
  <2>1. ASSUME NEW t \in Threads,
               \/ Start(t) \/ Loop(t) \/ BsemWait(t) \/ Check(t) \/ Count(t)
               \/ Leave(t) \/ Unlock(t) \/ SpuriousWake(t)
        PROVE  Same
    BY <2>1 DEF Start, Loop, BsemWait, SpuriousWake, Check, Count, Leave, Unlock
  <2>2. ASSUME NEW t \in Threads, Pull(t) PROVE JobInv'
    <3>1. UNCHANGED <<added, finished, owed, wpc, main>>
      BY <2>2 DEF Pull
    <3> HIDE DEF Held, Queued, Typing, TypeOK
    <3>2. /\ Held \cup Queued \subseteq Held' \cup Queued' \cup {NoJob}
          /\ Held \subseteq Held' \cup {NoJob}
      BY <2>2, PullKeepsJobs
    <3>3. QED
      BY <2>b, <3>1, <3>2 DEF JobInv
  <2>3. ASSUME NEW t \in Threads, Run(t) PROVE JobInv'
    <3>1. Held \subseteq Held' \cup {held[t]} /\ Queued' = Queued
      BY <2>3 DEF Run
    <3>2. UNCHANGED <<added, owed, wpc, main>> /\ finished' = finished \cup {held[t]}
      BY <2>3 DEF Run
    <3> HIDE DEF Held, Queued
    <3>3. QED
      BY <2>3, <3>1, <3>2 DEF JobInv
  <2>4. ASSUME NEW t \in Threads, Uncount(t) PROVE Same
    BY <2>4, WaiterSignalled DEF Uncount
  <2>5. ASSUME NEW w \in Waiters, WaitEnter(w) PROVE JobInv'
    <3>1. Held' = Held /\ Queued' = Queued
      BY <2>5 DEF WaitEnter
    <3> HIDE DEF Held, Queued
    <3>2. QED
      BY <2>5, <3>1 DEF WaitEnter, JobInv
  <2>6. ASSUME NEW w \in Waiters, WaitLen(w) PROVE JobInv'
    <3>1. Held' = Held /\ Queued' = Queued /\ (queue = <<>> => Queued = {})
      BY <2>6 DEF WaitLen
    <3>2. main = "ready"
      BY <2>6 DEF WaitLen, MainInv
    <3> HIDE DEF Held, Queued
    <3>3. QED
      BY <2>6, <3>1, <3>2 DEF WaitLen, JobInv
  <2>7. ASSUME NEW w \in Waiters,
               WaitWorking(w) \/ WaitSleep(w) \/ WaitRelock(w) \/ SpuriousWaiter(w)
        PROVE  Same
    BY <2>7 DEF WaitWorking, WaitSleep, WaitRelock, SpuriousWaiter
  <2>8. ASSUME NEW j \in Jobs, AddWork(j) PROVE JobInv'
    <3>1. UNCHANGED <<finished, owed, wpc, main>> /\ added' = added \cup {j}
      BY <2>8 DEF AddWork
    <3> HIDE DEF Held, Queued, Typing, TypeOK
    <3>2. Queued' = Queued \cup {j} /\ Held' = Held
      BY <2>8, AddKeepsJobs
    <3>3. main' # "freed" => added' \subseteq finished' \cup Held' \cup Queued'
      BY <3>1, <3>2 DEF JobInv
    <3>4. ASSUME NEW w \in Waiters
          PROVE  /\ owed'[w] \subseteq added'
                 /\ wpc'[w] = "working" => owed'[w] \subseteq finished' \cup Held'
      BY <3>1, <3>2 DEF JobInv
    <3>5. QED
      BY <3>3, <3>4 DEF JobInv
  <2>9. ASSUME InitDone \/ DestroyCall \/ DestroyPost PROVE JobInv'
    <3>1. /\ Held' = Held /\ Queued' = Queued /\ UNCHANGED <<added, finished, owed, wpc>>
          /\ main # "freed" /\ main' # "freed"
      BY <2>9 DEF InitDone, DestroyCall, DestroyPost
    <3> HIDE DEF Held, Queued
    <3>2. QED
      BY <3>1 DEF JobInv
  <2>10. ASSUME DestroyFree PROVE JobInv'
    <3>1. Held' = Held /\ UNCHANGED <<added, finished, owed, wpc>> /\ main' = "freed"
      BY <2>10 DEF DestroyFree, ClearQueue
    <3> HIDE DEF Held
    <3>2. QED
      BY <3>1 DEF JobInv
  <2>11. ASSUME UNCHANGED vars PROVE Same
    BY <2>11 DEF vars
  <2> HIDE DEF Same
  <2>12. QED
    BY <2>a, <2>1, <2>2, <2>3, <2>4, <2>5, <2>6, <2>7, <2>8, <2>9, <2>10, <2>11
       DEF Next, Work, Waiting, Owner
<1>3. QED
  BY <1>1, <1>2, TypedThroughout, FreedOnlyWhenDrained, PTL DEF Spec

\* thpool_wait returns only when every job that was unfinished when it was
\* called has finished, although it reads the queue's length without the
\* queue's lock and the counter after it (WaitReturnsDone, thpool.c:218).
THEOREM WaitIsABarrier == Spec => WaitReturnsDone
<1> DEFINE Barrier == \A w \in Waiters : wpc[w] = "working" /\ wpc'[w] = "out"
                                          => owed[w] \subseteq finished
<1>1. Typing /\ CountInv /\ JobInv /\ [Next]_vars => [Barrier]_vars
  <2> SUFFICES ASSUME Typing, CountInv, JobInv, Next,
                      NEW w \in Waiters, wpc[w] = "working", wpc'[w] = "out"
               PROVE  owed[w] \subseteq finished
    OBVIOUS
  <2>1. working = 0
    <3> USE DEF Typing, TypeOK
    <3>1. ASSUME NEW t \in Threads, Work(t) \/ SpuriousWake(t) PROVE wpc'[w] = wpc[w]
      BY <3>1, WaiterSignalled DEF Work, SpuriousWake, Start, Loop, BsemWait, Check, Count, Pull,
           Run, Uncount, Leave, Unlock, waitVars
    <3>2. ASSUME NEW v \in Waiters, WaitEnter(v) \/ Waiting(v) \/ SpuriousWaiter(v)
          PROVE  WaitWorking(w) \/ wpc'[w] = wpc[w] \/ wpc'[w] # "out"
      BY <3>2 DEF WaitEnter, Waiting, WaitLen, WaitWorking, WaitSleep, WaitRelock, SpuriousWaiter
    <3>3. ASSUME NEW j \in Jobs, AddWork(j) PROVE wpc'[w] = wpc[w]
      BY <3>3 DEF AddWork, waitVars
    <3>4. ASSUME Owner \/ DestroyCall PROVE wpc'[w] = wpc[w]
      BY <3>4 DEF Owner, DestroyCall, InitDone, DestroyPost, DestroyFree, waitVars
    <3>5. WaitWorking(w)
      BY <3>1, <3>2, <3>3, <3>4 DEF Next
    <3>6. QED
      BY <3>5 DEF WaitWorking
  <2>2. BusyThreads = {}
    <3>1. IsFiniteSet(BusyThreads)
      BY PoolAssumption, FS_Subset DEF BusyThreads
    <3>2. QED
      BY <2>1, <3>1, FS_EmptySet DEF CountInv
  <2>3. Held \subseteq {NoJob}
    BY <2>2 DEF Held, BusyThreads, Busy, Typing, HeldInv
  <2>4. NoJob \notin owed[w]
    BY PoolAssumption DEF Typing, TypeOK
  <2>5. QED
    BY <2>3, <2>4 DEF JobInv
<1>2. QED
  BY <1>1, TypedThroughout, CountsAreExact, JobsAccountedFor, PTL DEF Spec, WaitReturnsDone

--------------------------------------------------------------------------------
(* thcount_lock and the sleeping waiter                                    *)

\* A waiter holds thcount_lock exactly between its lock and its unlock or
\* sleep, a leaving worker until it has unlocked (LockInv).
THEOREM LockIsHeldByOne == Spec => []LockInv
<1>1. Init => LockInv
  BY PoolAssumption DEF Init, LockInv
<1>2. Typing /\ MainInv /\ LockInv /\ [Next]_vars => LockInv'
  <2> SUFFICES ASSUME Typing, MainInv, LockInv, [Next]_vars PROVE LockInv'
    OBVIOUS
  <2> USE PoolAssumption DEF Typing, TypeOK, LockInv, Goto, waitVars, WorkerSteps, WaiterSteps
  <2>1. ASSUME NEW t \in Threads,
               \/ Start(t) \/ Loop(t) \/ BsemWait(t) \/ Check(t) \/ Count(t)
               \/ Run(t) \/ SpuriousWake(t)
        PROVE  LockInv'
    BY <2>1 DEF Start, Loop, BsemWait, SpuriousWake, Check, Count, Run
  <2>2. ASSUME NEW t \in Threads, Pull(t) PROVE LockInv'
    <3>1. pc[t] = "pull" /\ UNCHANGED <<thcount, wpc>>
      BY <2>2 DEF Pull
    <3>2. QED
      BY <2>2, <3>1, PullMoves
  <2>3. ASSUME NEW t \in Threads, Uncount(t) PROVE LockInv'
    <3>1. /\ \A w \in Waiters : wpc'[w] = wpc[w] \/ (wpc[w] = "asleep" /\ wpc'[w] = "woken")
          /\ pc[t] = "uncount" /\ pc' = [pc EXCEPT ![t] = "loop"] /\ UNCHANGED thcount
      BY <2>3, WaiterSignalled DEF Uncount
    <3>2. QED
      BY <3>1
  <2>4. ASSUME NEW t \in Threads, Leave(t) PROVE LockInv'
    BY <2>4 DEF Leave
  <2>5. ASSUME NEW t \in Threads, Unlock(t) PROVE LockInv'
    BY <2>5 DEF Unlock
  <2>6. ASSUME NEW w \in Waiters, WaitEnter(w) \/ WaitRelock(w) PROVE LockInv'
    BY <2>6 DEF WaitEnter, WaitRelock
  <2>7. ASSUME NEW w \in Waiters, WaitLen(w) \/ SpuriousWaiter(w) PROVE LockInv'
    BY <2>7 DEF WaitLen, SpuriousWaiter
  <2>8. ASSUME NEW w \in Waiters, WaitWorking(w) \/ WaitSleep(w) PROVE LockInv'
    BY <2>8 DEF WaitWorking, WaitSleep
  <2>9. ASSUME NEW j \in Jobs, AddWork(j) PROVE LockInv'
    BY <2>9, PostMoves DEF AddWork
  <2>10. ASSUME InitDone \/ DestroyCall \/ DestroyFree PROVE LockInv'
    BY <2>10 DEF InitDone, DestroyCall, DestroyFree
  <2>11. ASSUME DestroyPost PROVE LockInv'
    BY <2>11, WakeAllMoves DEF DestroyPost
  <2>12. CASE UNCHANGED vars
    BY <2>12 DEF vars
  <2> HIDE DEF Typing, TypeOK, LockInv, Goto, waitVars, WorkerSteps, WaiterSteps
  <2>13. QED
    BY <2>1, <2>2, <2>3, <2>4, <2>5, <2>6, <2>7, <2>8, <2>9, <2>10, <2>11, <2>12
       DEF Next, Work, Waiting, Owner
<1>3. QED
  BY <1>1, <1>2, TypedThroughout, FreedOnlyWhenDrained, PTL DEF Spec

\* With at most one thread in thpool_wait, a waiter asleep on
\* threads_all_idle has a queued job or a working thread left to wake it
\* (NoStrandedWaiter, thpool.c:394): the one signal of the last worker
\* cannot reach somebody else.
THEOREM LoneWaiterNotStranded ==
  ASSUME AtMostOneWaiter PROVE Spec => []NoStrandedWaiter
<1>1. Init => SleepInv
  BY DEF Init, SleepInv
<1>2. Typing /\ CountInv /\ MainInv /\ LockInv /\ SleepInv /\ [Next]_vars => SleepInv'
  <2> SUFFICES ASSUME Typing, CountInv, MainInv, LockInv, SleepInv, [Next]_vars
               PROVE  SleepInv'
    OBVIOUS
  <2> USE DEF Typing, TypeOK, SleepInv, BusyThreads, Busy, Goto, waitVars, queueVars,
              WorkerSteps, WaiterSteps
  <2>1. ASSUME NEW t \in Threads,
               \/ Start(t) \/ Loop(t) \/ BsemWait(t) \/ Check(t) \/ Count(t)
               \/ Run(t) \/ Leave(t) \/ Unlock(t) \/ SpuriousWake(t)
        PROVE  SleepInv'
    <3>1. /\ UNCHANGED <<queue, wpc>>
          /\ \A x \in Threads : pc[x] \in Busy => pc'[x] \in Busy
      BY <2>1 DEF Start, Loop, BsemWait, SpuriousWake, Check, Count, Run, Leave, Unlock
    <3>2. QED
      BY <3>1
  <2>2. ASSUME NEW t \in Threads, Pull(t) PROVE SleepInv'
    <3>1. pc'[t] \in Busy /\ UNCHANGED wpc
      BY <2>2, PullMoves DEF Pull
    <3>2. QED
      BY <3>1
  <2>3. ASSUME NEW t \in Threads, Uncount(t) PROVE SleepInv'
    <3>1. thcount = Nobody /\ UNCHANGED queue
      BY <2>3 DEF Uncount
    <3>2. \A w \in Waiters : wpc[w] # "sleep"
      BY <3>1, PoolAssumption DEF LockInv
    <3>3. \A w \in Waiters : wpc'[w] = wpc[w] \/ (wpc[w] = "asleep" /\ wpc'[w] = "woken")
      BY <2>3, WaiterSignalled DEF Uncount
    <3>4. CASE working' = 0
      <4>1. wpc' \in WakeOne(wpc, "woken")
        BY <2>3, <3>4 DEF Uncount
      <4>2. \A w \in Waiters : wpc'[w] # "asleep"
        <5>1. CASE Asleep(wpc) = {}
          BY <4>1, <5>1 DEF WakeOne, Asleep
        <5>2. CASE Asleep(wpc) # {}
          BY <4>1, <5>2 DEF WakeOne, Asleep, AtMostOneWaiter
        <5>3. QED
          BY <5>1, <5>2
      <4>3. QED
        BY <3>2, <3>3, <4>2
    <3>5. CASE working' # 0
      <4>1. Cardinality(BusyThreads) # 1
        BY <2>3, <3>5 DEF Uncount, CountInv
      <4>2. BusyThreads # {t}
        <5> HIDE DEF BusyThreads
        <5>1. QED
          BY <4>1, FS_Singleton
      <4>3. t \in BusyThreads
        BY <2>3 DEF Uncount
      <4>4. PICK x \in Threads : x # t /\ pc[x] \in Busy
        BY <4>2, <4>3
      <4>5. pc'[x] \in Busy
        BY <2>3, <4>4 DEF Uncount
      <4>6. QED
        BY <4>5
    <3>6. QED
      BY <3>4, <3>5
  <2>4. ASSUME NEW w \in Waiters, WaitWorking(w) PROVE SleepInv'
    <3>1. working # 0 => BusyThreads # {}
      <4> HIDE DEF BusyThreads
      <4>1. QED
        BY FS_EmptySet DEF CountInv
    <3>2. QED
      BY <2>4, <3>1 DEF WaitWorking
  <2>5. ASSUME NEW w \in Waiters, WaitEnter(w) \/ WaitRelock(w) PROVE SleepInv'
    BY <2>5 DEF WaitEnter, WaitRelock
  <2>6. ASSUME NEW w \in Waiters, WaitLen(w) \/ WaitSleep(w) \/ SpuriousWaiter(w)
        PROVE  SleepInv'
    BY <2>6 DEF WaitLen, WaitSleep, SpuriousWaiter
  <2>7. ASSUME NEW j \in Jobs, AddWork(j) PROVE SleepInv'
    <3>1. queue' # <<>> /\ UNCHANGED wpc
      BY <2>7, AppendProperties DEF AddWork
    <3>2. QED
      BY <3>1
  <2>8. ASSUME InitDone \/ DestroyCall PROVE SleepInv'
    BY <2>8 DEF InitDone, DestroyCall
  <2>9. ASSUME DestroyPost \/ DestroyFree PROVE SleepInv'
    <3>1. main # "ready" /\ UNCHANGED wpc
      BY <2>9 DEF DestroyPost, DestroyFree
    <3>2. QED
      BY <3>1 DEF MainInv
  <2>10. CASE UNCHANGED vars
    BY <2>10 DEF vars
  <2> HIDE DEF Typing, TypeOK, SleepInv, BusyThreads, Busy, Goto, waitVars, queueVars,
               WorkerSteps, WaiterSteps
  <2>11. QED
    BY <2>1, <2>2, <2>3, <2>4, <2>5, <2>6, <2>7, <2>8, <2>9, <2>10
       DEF Next, Work, Waiting, Owner
<1>3. SleepInv => NoStrandedWaiter
  BY DEF SleepInv, NoStrandedWaiter, BusyThreads
<1>4. QED
  BY <1>1, <1>2, <1>3, TypedThroughout, CountsAreExact, FreedOnlyWhenDrained, LockIsHeldByOne,
     PTL DEF Spec

--------------------------------------------------------------------------------
(* Refinement                                                              *)

\* The pool implements JobPool: every step of thpool.c is one of an abstract
\* pool that starts jobs in order, each at most once, and throws jobs away
\* only when it is closed and idle, or changes nothing it can see (PoolSpec).
THEOREM ImplementsJobPool == Spec => PoolSpec
<1>1. Init => Pool!Init
  BY DEF Init, EmptyQueue, Pool!Init
<1>2. Typing /\ CountInv /\ MainInv /\ [Next]_vars => [Pool!Next]_(Pool!jobVars)
  <2> SUFFICES ASSUME Typing, CountInv, MainInv, [Next]_vars
               PROVE  Pool!Next \/ UNCHANGED Pool!jobVars
    OBVIOUS
  <2> USE DEF Pool!jobVars, queueVars, mainVars
  <2>1. ASSUME NEW t \in Threads,
               \/ Start(t) \/ Loop(t) \/ BsemWait(t) \/ Check(t) \/ Count(t)
               \/ Uncount(t) \/ Leave(t) \/ Unlock(t) \/ SpuriousWake(t)
        PROVE  UNCHANGED Pool!jobVars
    BY <2>1 DEF Start, Loop, BsemWait, SpuriousWake, Check, Count, Uncount, Leave, Unlock
  <2>2. ASSUME NEW t \in Threads, Pull(t) PROVE Pool!Next \/ UNCHANGED Pool!jobVars
    <3>1. held[t] = NoJob /\ held \in [Threads -> Jobs \cup {NoJob}]
      BY <2>2 DEF Pull, Typing, TypeOK, HeldInv
    <3>2. CASE queue = <<>>
      BY <2>2, <3>1, <3>2 DEF Pull, AfterPull
    <3>3. CASE queue # <<>>
      <4>1. Pool!Begin(t)
        BY <2>2, <3>1, <3>3 DEF Pull, AfterPull, Pool!Begin
      <4>2. QED
        BY <4>1 DEF Pool!Next
    <3>4. QED
      BY <3>2, <3>3
  <2>3. ASSUME NEW t \in Threads, Run(t) PROVE Pool!Next
    <3>1. held[t] # NoJob
      BY <2>3 DEF Run, Typing, HeldInv
    <3>2. Pool!Finish(t)
      BY <2>3, <3>1 DEF Run, Pool!Finish
    <3>3. QED
      BY <3>2 DEF Pool!Next
  <2>4. ASSUME NEW w \in Waiters, WaitEnter(w) \/ Waiting(w) \/ SpuriousWaiter(w)
        PROVE  UNCHANGED Pool!jobVars
    BY <2>4 DEF WaitEnter, Waiting, WaitLen, WaitWorking, WaitSleep, WaitRelock, SpuriousWaiter
  <2>5. ASSUME NEW j \in Jobs, AddWork(j) PROVE Pool!Next
    <3>1. keepalive
      BY <2>5 DEF AddWork, MainInv
    <3>2. Pool!Submit(j)
      BY <2>5, <3>1 DEF AddWork, Pool!Submit
    <3>3. QED
      BY <3>2 DEF Pool!Next
  <2>6. ASSUME InitDone \/ DestroyPost PROVE UNCHANGED Pool!jobVars
    BY <2>6 DEF InitDone, DestroyPost
  <2>7. ASSUME DestroyCall PROVE Pool!Next
    BY <2>7 DEF DestroyCall, Pool!Close, Pool!Next
  <2>8. ASSUME DestroyFree PROVE Pool!Next
    <3>1. ~keepalive /\ \A t \in Threads : held[t] = NoJob
      BY <2>8, AliveReads DEF DestroyFree, ClearQueue, MainInv, Typing, HeldInv
    <3>2. Pool!Discard
      BY <2>8, <3>1 DEF DestroyFree, ClearQueue, Pool!Discard
    <3>3. QED
      BY <3>2 DEF Pool!Next
  <2>9. CASE UNCHANGED vars
    BY <2>9 DEF vars
  <2> HIDE DEF Pool!jobVars, queueVars, mainVars
  <2>10. QED
    BY <2>1, <2>2, <2>3, <2>4, <2>5, <2>6, <2>7, <2>8, <2>9 DEF Next, Work, Owner
<1>3. QED
  BY <1>1, <1>2, TypedThroughout, CountsAreExact, FreedOnlyWhenDrained, PTL
     DEF Spec, PoolSpec, Pool!Spec
================================================================================
