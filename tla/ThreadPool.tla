------------------------------ MODULE ThreadPool -------------------------------
(***************************************************************************)
(* src/server/core/thpool.c: one pool from thpool_init to thpool_destroy.  *)
(*                                                                         *)
(* A critical section of jobqueue.rwmutex or bsem.mutex is one step: it is *)
(* short, never waits inside, and rwmutex is always taken before the       *)
(* semaphore's mutex.  thcount_lock is modelled as a lock, because         *)
(* thpool_wait reads jobqueue.len and num_threads_working one after the    *)
(* other while holding it, and because a leaving thread still has to       *)
(* release it after it has been counted out.                               *)
(***************************************************************************)
EXTENDS Integers, Sequences, FiniteSets

CONSTANTS Threads,   \* the workers, thpool_init's num_threads of them
          Waiters,   \* threads that call thpool_wait
          Jobs,      \* every job that is ever added, each added once
          NoJob,     \* the NULL of jobqueue_pull
          Nobody     \* the owner of a free lock

ASSUME PoolAssumption ==
  /\ Threads # {} /\ IsFiniteSet(Threads)
  /\ Threads \cap Waiters = {}
  /\ Nobody \notin Threads \cup Waiters
  /\ NoJob \notin Jobs

VARIABLES
  queue,      \* jobqueue: front .. rear; jobqueue.len is its length
  bsem,       \* has_jobs->v
  pc,         \* where each worker is in thread_do
  held,       \* job_p of each worker while its function runs
  alive,      \* num_threads_alive
  working,    \* num_threads_working
  thcount,    \* who holds thcount_lock
  wpc,        \* where each waiter is in thpool_wait
  main,       \* thpool_init .. thpool_destroy, run by the pool's owner
  keepalive,  \* threads_keepalive
  added,      \* history: jobs given to thpool_add_work
  finished,   \* history: jobs whose function returned
  owed        \* history: jobs unfinished when a waiter entered thpool_wait

queueVars == <<queue, bsem>>
countVars == <<alive, working>>
waitVars  == <<wpc, owed>>
mainVars  == <<main, keepalive>>
vars == <<queueVars, pc, held, countVars, thcount, waitVars, mainVars, added, finished>>

WorkerSteps == {"start", "loop", "wait", "asleep", "check", "count", "pull",
                "run", "uncount", "leave", "unlock", "gone"}
WaiterSteps == {"out", "len", "working", "sleep", "asleep", "woken"}

\* jobqueue_init: an empty queue and no token.
EmptyQueue == queue = <<>> /\ bsem = 0

Init ==
  /\ EmptyQueue
  /\ pc = [t \in Threads |-> "start"]
  /\ held = [t \in Threads |-> NoJob]
  /\ alive = 0
  /\ working = 0
  /\ thcount = Nobody
  /\ wpc = [w \in Waiters |-> "out"]
  /\ main = "init"
  /\ keepalive = TRUE
  /\ added = {}
  /\ finished = {}
  /\ owed = [w \in Waiters |-> {}]

--------------------------------------------------------------------------------
(* The binary semaphore and the queue.                                     *)

Asleep(f) == {x \in DOMAIN f : f[x] = "asleep"}

\* pthread_cond_signal: one sleeper, if there is one, is moved to `to`.
WakeOne(f, to) ==
  IF Asleep(f) = {} THEN {f} ELSE {[f EXCEPT ![x] = to] : x \in Asleep(f)}

\* Faulty variant of BsemPost: posts are counted.
CountingPost(f) ==
  /\ bsem' = bsem + 1
  /\ pc' \in WakeOne(f, "wait")

\* bsem_post, by a step after which the workers are at f.
BsemPost(f) ==
  /\ bsem' = 1
  /\ pc' \in WakeOne(f, "wait")

\* Faulty variant of WakeAll: the broadcast reaches no sleeper.
WakeNobody(f) == f

\* pthread_cond_broadcast on the semaphore.
WakeAll(f) == [t \in DOMAIN f |-> IF f[t] = "asleep" THEN "wait" ELSE f[t]]

\* Faulty variant of MoreJobs: the pull never posts again.
NoMoreJobs(q) == FALSE

\* jobqueue_pull posts again when it leaves a job behind.
MoreJobs(q) == Len(q) > 1

\* Faulty variant of AfterPull: the last job stays at the front.
KeepsLast(q) == IF Len(q) > 1 THEN Tail(q) ELSE q

\* What jobqueue_pull leaves in the queue.
AfterPull(q) == IF q = <<>> THEN q ELSE Tail(q)

Goto(t, step) == pc' = [pc EXCEPT ![t] = step]

--------------------------------------------------------------------------------
(* thread_do                                                               *)

Start(t) ==
  /\ pc[t] = "start"
  /\ thcount = Nobody
  /\ alive' = alive + 1
  /\ Goto(t, "loop")
  /\ UNCHANGED <<queueVars, held, working, thcount, waitVars, mainVars, added, finished>>

Loop(t) ==
  /\ pc[t] = "loop"
  /\ Goto(t, IF keepalive THEN "wait" ELSE "leave")
  /\ UNCHANGED <<queueVars, held, countVars, thcount, waitVars, mainVars, added, finished>>

\* bsem_wait: take the token, or sleep on the condition variable.
BsemWait(t) ==
  /\ pc[t] = "wait"
  /\ \/ bsem = 1 /\ bsem' = 0 /\ Goto(t, "check")
     \/ bsem # 1 /\ UNCHANGED bsem /\ Goto(t, "asleep")
  /\ UNCHANGED <<queue, held, countVars, thcount, waitVars, mainVars, added, finished>>

\* pthread_cond_wait may return without a signal; the loop tests v again.
SpuriousWake(t) ==
  /\ pc[t] = "asleep"
  /\ Goto(t, "wait")
  /\ UNCHANGED <<queueVars, held, countVars, thcount, waitVars, mainVars, added, finished>>

Check(t) ==
  /\ pc[t] = "check"
  /\ Goto(t, IF keepalive THEN "count" ELSE "loop")
  /\ UNCHANGED <<queueVars, held, countVars, thcount, waitVars, mainVars, added, finished>>

\* Faulty variant of Count: the worker is not counted until it has a job.
CountLate(t) ==
  /\ pc[t] = "count"
  /\ Goto(t, "pull")
  /\ UNCHANGED <<queueVars, held, countVars, thcount, waitVars, mainVars, added, finished>>

Count(t) ==
  /\ pc[t] = "count"
  /\ thcount = Nobody
  /\ working' = working + 1
  /\ Goto(t, "pull")
  /\ UNCHANGED <<queueVars, held, alive, thcount, waitVars, mainVars, added, finished>>

Pull(t) ==
  /\ pc[t] = "pull"
  /\ queue' = AfterPull(queue)
  /\ held' = [held EXCEPT ![t] = IF queue = <<>> THEN NoJob ELSE Head(queue)]
  /\ LET moved == [pc EXCEPT ![t] = IF queue = <<>> THEN "uncount" ELSE "run"]
     IN \/ MoreJobs(queue) /\ BsemPost(moved)
        \/ ~MoreJobs(queue) /\ pc' = moved /\ UNCHANGED bsem
  /\ UNCHANGED <<countVars, thcount, waitVars, mainVars, added, finished>>

\* The job's function returns.
Run(t) ==
  /\ pc[t] = "run"
  /\ finished' = finished \cup {held[t]}
  /\ held' = [held EXCEPT ![t] = NoJob]
  /\ Goto(t, "uncount")
  /\ UNCHANGED <<queueVars, countVars, thcount, waitVars, mainVars, added>>

\* Faulty variant of Uncount: the counter is changed without thcount_lock.
UncountUnlocked(t) ==
  /\ pc[t] = "uncount"
  /\ working' = working - 1
  /\ \/ working' = 0 /\ wpc' \in WakeOne(wpc, "woken")
     \/ working' # 0 /\ UNCHANGED wpc
  /\ Goto(t, "loop")
  /\ UNCHANGED <<queueVars, held, alive, thcount, owed, mainVars, added, finished>>

Uncount(t) ==
  /\ pc[t] = "uncount"
  /\ thcount = Nobody
  /\ working' = working - 1
  /\ \/ working' = 0 /\ wpc' \in WakeOne(wpc, "woken")
     \/ working' # 0 /\ UNCHANGED wpc
  /\ Goto(t, "loop")
  /\ UNCHANGED <<queueVars, held, alive, thcount, owed, mainVars, added, finished>>

Leave(t) ==
  /\ pc[t] = "leave"
  /\ thcount = Nobody
  /\ thcount' = t
  /\ alive' = alive - 1
  /\ Goto(t, "unlock")
  /\ UNCHANGED <<queueVars, held, working, waitVars, mainVars, added, finished>>

Unlock(t) ==
  /\ pc[t] = "unlock"
  /\ thcount' = Nobody
  /\ Goto(t, "gone")
  /\ UNCHANGED <<queueVars, held, countVars, waitVars, mainVars, added, finished>>

Work(t) ==
  \/ Start(t) \/ Loop(t) \/ BsemWait(t) \/ Check(t) \/ Count(t) \/ Pull(t)
  \/ Run(t) \/ Uncount(t) \/ Leave(t) \/ Unlock(t)

--------------------------------------------------------------------------------
(* thpool_add_work: thpool_init has returned and thpool_destroy has not    *)
(* been called, as every caller of the library has to arrange.             *)

AddWork(j) ==
  /\ main = "ready"
  /\ j \notin added
  /\ added' = added \cup {j}
  /\ queue' = Append(queue, j)
  /\ BsemPost(pc)
  /\ UNCHANGED <<held, countVars, thcount, waitVars, mainVars, finished>>

--------------------------------------------------------------------------------
(* thpool_wait                                                             *)

WaitEnter(w) ==
  /\ main = "ready"
  /\ wpc[w] = "out"
  /\ thcount = Nobody
  /\ thcount' = w
  /\ wpc' = [wpc EXCEPT ![w] = "len"]
  /\ owed' = [owed EXCEPT ![w] = added \ finished]
  /\ UNCHANGED <<queueVars, pc, held, countVars, mainVars, added, finished>>

\* The loop's first operand, jobqueue.len, read without rwmutex.
WaitLen(w) ==
  /\ wpc[w] = "len"
  /\ wpc' = [wpc EXCEPT ![w] = IF queue # <<>> THEN "sleep" ELSE "working"]
  /\ UNCHANGED <<queueVars, pc, held, countVars, thcount, owed, mainVars, added, finished>>

\* The second operand; when it is zero thpool_wait unlocks and returns.
WaitWorking(w) ==
  /\ wpc[w] = "working"
  /\ \/ working # 0 /\ wpc' = [wpc EXCEPT ![w] = "sleep"] /\ UNCHANGED thcount
     \/ working = 0 /\ wpc' = [wpc EXCEPT ![w] = "out"] /\ thcount' = Nobody
  /\ UNCHANGED <<queueVars, pc, held, countVars, owed, mainVars, added, finished>>

\* pthread_cond_wait gives up thcount_lock and sleeps in one step.
WaitSleep(w) ==
  /\ wpc[w] = "sleep"
  /\ thcount' = Nobody
  /\ wpc' = [wpc EXCEPT ![w] = "asleep"]
  /\ UNCHANGED <<queueVars, pc, held, countVars, owed, mainVars, added, finished>>

SpuriousWaiter(w) ==
  /\ wpc[w] = "asleep"
  /\ wpc' = [wpc EXCEPT ![w] = "woken"]
  /\ UNCHANGED <<queueVars, pc, held, countVars, thcount, owed, mainVars, added, finished>>

\* pthread_cond_wait takes thcount_lock again before it returns.
WaitRelock(w) ==
  /\ wpc[w] = "woken"
  /\ thcount = Nobody
  /\ thcount' = w
  /\ wpc' = [wpc EXCEPT ![w] = "len"]
  /\ UNCHANGED <<queueVars, pc, held, countVars, owed, mainVars, added, finished>>

Waiting(w) == WaitLen(w) \/ WaitWorking(w) \/ WaitSleep(w) \/ WaitRelock(w)

--------------------------------------------------------------------------------
(* thpool_init and thpool_destroy                                          *)

\* The busy loop at the end of thpool_init.
InitDone ==
  /\ main = "init"
  /\ alive = Cardinality(Threads)
  /\ main' = "ready"
  /\ UNCHANGED <<queueVars, pc, held, countVars, thcount, waitVars, keepalive, added, finished>>

\* Nobody is inside thpool_wait: its lock and condition are about to go.
DestroyCall ==
  /\ main = "ready"
  /\ \A w \in Waiters : wpc[w] = "out"
  /\ main' = "destroying"
  /\ keepalive' = FALSE
  /\ UNCHANGED <<queueVars, pc, held, countVars, thcount, waitVars, added, finished>>

\* bsem_post_all, in either polling loop.
DestroyPost ==
  /\ main = "destroying"
  /\ alive # 0
  /\ bsem' = 1
  /\ pc' = WakeAll(pc)
  /\ UNCHANGED <<queue, held, countVars, thcount, waitVars, mainVars, added, finished>>

\* jobqueue_clear: what is still queued is thrown away, the semaphore reset.
ClearQueue == queue' = <<>> /\ bsem' = 0

\* Faulty variant of DestroyFree: free after the first timeout, whoever is still alive.
FreeAfterTimeout ==
  /\ main = "destroying"
  /\ main' = "freed"
  /\ ClearQueue
  /\ UNCHANGED <<pc, held, countVars, thcount, waitVars, keepalive, added, finished>>

\* jobqueue_destroy, then all is freed.
DestroyFree ==
  /\ main = "destroying"
  /\ alive = 0
  /\ main' = "freed"
  /\ ClearQueue
  /\ UNCHANGED <<pc, held, countVars, thcount, waitVars, keepalive, added, finished>>

Owner == InitDone \/ DestroyPost \/ DestroyFree

--------------------------------------------------------------------------------
Next ==
  \/ \E t \in Threads : Work(t) \/ SpuriousWake(t)
  \/ \E w \in Waiters : WaitEnter(w) \/ Waiting(w) \/ SpuriousWaiter(w)
  \/ \E j \in Jobs : AddWork(j)
  \/ Owner
  \/ DestroyCall

Spec == Init /\ [][Next]_vars

\* A thread that can run is scheduled, one that asks for thcount_lock again
\* and again while it is free gets it (hence strong fairness), a job's
\* function returns, and the owner keeps polling.  Nothing is assumed of
\* callers, nor that a condition variable ever wakes without a signal.
FairSpec ==
  /\ Spec
  /\ \A t \in Threads : SF_vars(Work(t))
  /\ \A w \in Waiters : SF_vars(Waiting(w))
  /\ WF_vars(Owner)

--------------------------------------------------------------------------------
(* Properties                                                              *)

\* Every variable stays in its type; jobs in the queue or in a worker's
\* hands are jobs somebody added.
TypeOK ==
  /\ queue \in Seq(Jobs)
  /\ bsem \in {0, 1}
  /\ pc \in [Threads -> WorkerSteps]
  /\ held \in [Threads -> Jobs \cup {NoJob}]
  /\ alive \in Int
  /\ working \in Int
  /\ thcount \in Threads \cup Waiters \cup {Nobody}
  /\ wpc \in [Waiters -> WaiterSteps]
  /\ main \in {"init", "ready", "destroying", "freed"}
  /\ keepalive \in BOOLEAN
  /\ added \in SUBSET Jobs
  /\ finished \in SUBSET Jobs
  /\ owed \in [Waiters -> SUBSET Jobs]

InLoop == {"start", "loop", "wait", "check", "count", "pull", "run", "uncount"}
Busy == {"pull", "run", "uncount"}

\* The semaphore is binary and posts to it are lost when it is already 1,
\* so several pushes may leave a single token.  Even so a queued job is
\* never left with every worker asleep (jobqueue_push, jobqueue_pull,
\* bsem_wait): somebody is awake and on the way to the queue.
NoStrandedJob ==
  keepalive /\ queue # <<>> => \E t \in Threads : pc[t] \in InLoop

\* thpool_wait returns only when every job that was unfinished at the call
\* has finished, although it reads the queue's length without the queue's
\* lock and the two counters are read one after the other (thpool.c:218).
WaitReturnsDone ==
  [][\A w \in Waiters : wpc[w] = "working" /\ wpc'[w] = "out"
                          => owed[w] \subseteq finished]_vars

\* A thread asleep in thpool_wait is not forgotten: there is still a job
\* queued or a worker counted as working, whose last one signals (thpool.c:394).
NoStrandedWaiter ==
  \A w \in Waiters : wpc[w] = "asleep"
                       => queue # <<>> \/ \E t \in Threads : pc[t] \in Busy

\* thpool_destroy frees the pool only after every worker has left its loop,
\* so no job is cut short and none starts afterwards (thpool.c:240-260).
FreedWhenDrained ==
  main = "freed" => \A t \in Threads : pc[t] \in {"unlock", "gone"} /\ held[t] = NoJob

\* As thpool.h:143 has it, destroy waits for the active threads to finish
\* and then frees: no thread still has a step to take on freed memory.
FinishedBeforeFree ==
  main = "freed" => \A t \in Threads : pc[t] = "gone"

\* A job that was added is eventually executed unless the pool is destroyed.
JobsRun ==
  \A j \in Jobs : j \in added ~> j \in finished \/ ~keepalive

\* As thpool.h:73-75 has it: a caller of thpool_wait continues once the
\* queue is empty and all work has completed.
WaiterContinues ==
  \A w \in Waiters : wpc[w] # "out" ~> wpc[w] = "out"

\* thpool_destroy terminates: repeated bsem_post_all brings every worker
\* out of bsem_wait although one token frees only one of them.
DestroyTerminates ==
  main = "destroying" ~> main = "freed"

\* The pool implements JobPool.
Pool == INSTANCE JobPool WITH
  Slots <- Threads, submitted <- added, pending <- queue,
  running <- held, done <- finished, closed <- ~keepalive
PoolSpec == Pool!Spec

--------------------------------------------------------------------------------
(* The inductive invariant behind the theorems of ThreadPoolProofs.        *)

Held == {held[t] : t \in Threads}
Queued == {queue[i] : i \in 1 .. Len(queue)}
BusyThreads == {t \in Threads : pc[t] \in Busy}
AliveThreads == {t \in Threads : pc[t] \notin {"start", "unlock", "gone"}}

HeldInv == \A t \in Threads : held[t] # NoJob <=> pc[t] = "run"

MainInv ==
  /\ keepalive <=> main \in {"init", "ready"}
  /\ keepalive => \A t \in Threads : pc[t] \notin {"leave", "unlock", "gone"}
  /\ main # "init" => \A t \in Threads : pc[t] # "start"
  /\ \A w \in Waiters : wpc[w] # "out" => main = "ready"

TokenInv ==
  /\ keepalive /\ queue # <<>>
       => bsem = 1 \/ \E t \in Threads : pc[t] \in {"check", "count", "pull"}
  /\ bsem = 1 => \E t \in Threads : pc[t] # "asleep"

CountInv ==
  /\ alive = Cardinality(AliveThreads)
  /\ working = Cardinality(BusyThreads)

JobInv ==
  /\ main # "freed" => added \subseteq finished \cup Held \cup Queued
  /\ \A w \in Waiters : /\ owed[w] \subseteq added
                        /\ wpc[w] = "working" => owed[w] \subseteq finished \cup Held

LockInv ==
  /\ \A w \in Waiters : wpc[w] \in {"len", "working", "sleep"} <=> thcount = w
  /\ \A t \in Threads : pc[t] = "unlock" <=> thcount = t

SleepInv ==
  \A w \in Waiters : wpc[w] \in {"sleep", "asleep"} => queue # <<>> \/ BusyThreads # {}

AtMostOneWaiter == \A v, w \in Waiters : v = w

IInv ==
  /\ TypeOK /\ HeldInv /\ MainInv /\ TokenInv /\ CountInv /\ JobInv
  /\ FreedWhenDrained /\ LockInv /\ (AtMostOneWaiter => SleepInv)
================================================================================
