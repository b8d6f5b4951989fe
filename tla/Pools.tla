--------------------------------- MODULE Pools ---------------------------------
(***************************************************************************)
(* What ThreadPool leaves out of thpool.c: several pools, which share      *)
(* threads_keepalive and threads_on_hold, threads that cannot be made, and *)
(* thpool_pause and thpool_resume.  A signal may reach a worker anywhere,  *)
(* so a critical section is two steps, taking the lock and the rest, and a *)
(* worker can be put on hold in between.  One caller runs a script of      *)
(* calls; it gets no signals itself.  num_threads_working, which only      *)
(* thpool_wait reads, is left out, but not the lock around it.             *)
(***************************************************************************)
EXTENDS Naturals, Sequences, FiniteSets

CONSTANTS Pools,
          MaxThreads,  \* bound on the threads of a pool
          Scripts,     \* the programs the caller may run
          Caller,
          Nobody       \* the owner of a free lock

\* A call of a script: its name, its pool and, for thpool_init, the number of
\* threads.  "settle" is a sleep long enough for a pause to be taken.
Calls ==
  ({"init"} \X Pools \X (1 .. MaxThreads))
    \cup ({"add", "pause", "settle", "resume", "destroy"} \X Pools)
Threads == Pools \X (1 .. MaxThreads)
Owner(t) == t[1]
Places == UNION {DOMAIN s : s \in Scripts}

\* thpool_init returns a new pool, the other calls take one it returned, and
\* thpool_destroy frees it.
Proper(s) ==
  \A i, j \in DOMAIN s : s[i][2] = s[j][2] =>
    /\ s[j][1] # "init" => \E k \in DOMAIN s : k < j /\ s[k][1] = "init" /\ s[k][2] = s[j][2]
    /\ i < j => s[j][1] # "init" /\ s[i][1] # "destroy"

ASSUME PoolsAssumption ==
  /\ IsFiniteSet(Pools) /\ MaxThreads \in Nat
  /\ IsFiniteSet(Scripts) /\ Scripts \subseteq Seq(Calls) /\ \A s \in Scripts : Proper(s)
  /\ Caller \notin Threads /\ Nobody \notin Threads \cup {Caller}

VARIABLES script,
          keepalive,   \* threads_keepalive
          onHold,      \* threads_on_hold
          queue,       \* jobs of each pool, named by the place in the script
          v,           \* has_jobs->v of each pool
          alive,       \* num_threads_alive of each pool
          lock,        \* owners of each pool's rwmutex, bsem.mutex, thcount_lock
          pc,          \* where each worker is in thread_do
          job,         \* job_p of each worker, 0 when it has none
          done,        \* history: jobs whose function has returned
          at,          \* the caller's place in the script
          phase,       \* and in the call there
          signalled,   \* n of thpool_pause: the threads it has signalled
          pending,     \* threads with a SIGUSR1 not yet delivered
          handler      \* each thread: "out" of thread_hold, "entered", "holding"

poolVars == <<queue, v, alive, lock, pc, job, done>>
callVars == <<script, keepalive, at, phase, signalled>>
holdVars == <<onHold, pending, handler>>
vars == <<poolVars, callVars, holdVars>>

Init ==
  /\ script \in Scripts
  /\ keepalive = FALSE /\ onHold = FALSE
  /\ queue = [p \in Pools |-> <<>>]
  /\ v = [p \in Pools |-> 0]
  /\ alive = [p \in Pools |-> 0]
  /\ lock = [l \in Pools \X {"rw", "bsem", "count"} |-> Nobody]
  /\ pc = [t \in Threads |-> "none"]
  /\ job = [t \in Threads |-> 0]
  /\ done = {}
  /\ at = 1 /\ phase = "call"
  /\ signalled = 0 /\ pending = {}
  /\ handler = [t \in Threads |-> "out"]

--------------------------------------------------------------------------------
(* thread_do, while the worker is not in thread_hold                       *)

Goto(t, step) == pc' = [pc EXCEPT ![t] = step]

\* Where a worker asks for a lock, for which one, and where it then is.
Section ==
  [start |-> <<"count", "starting">>, wait |-> <<"bsem", "token">>,
   count |-> <<"count", "counting">>, pull |-> <<"rw", "pulling">>,
   repost |-> <<"bsem", "reposting">>, uncount |-> <<"count", "uncounting">>,
   leave |-> <<"count", "leaving">>]

Mutex(t, name) == <<Owner(t), name>>
Release(t, name) == lock' = [lock EXCEPT ![Mutex(t, name)] = Nobody]

Lock(t) ==
  /\ pc[t] \in DOMAIN Section
  /\ LET l == Mutex(t, Section[pc[t]][1])
     IN /\ lock[l] = Nobody
        /\ lock' = [lock EXCEPT ![l] = t]
  /\ Goto(t, Section[pc[t]][2])
  /\ UNCHANGED <<queue, v, alive, job, done>>

\* The loop's condition, and the test after bsem_wait.
Test(t) ==
  /\ \/ pc[t] = "loop" /\ Goto(t, IF keepalive THEN "wait" ELSE "leave")
     \/ pc[t] = "check" /\ Goto(t, IF keepalive THEN "count" ELSE "loop")
  /\ UNCHANGED <<queue, v, alive, lock, job, done>>

\* The rest of bsem_wait: the token, or pthread_cond_wait.
Token(t) ==
  /\ pc[t] = "token"
  /\ v' = [v EXCEPT ![Owner(t)] = 0]
  /\ Goto(t, IF v[Owner(t)] = 1 THEN "check" ELSE "asleep")
  /\ Release(t, "bsem")
  /\ UNCHANGED <<queue, alive, job, done>>

\* Under thcount_lock: where the worker goes from there, and what it adds to
\* num_threads_alive.
AfterCount == [starting |-> "loop", counting |-> "pull", uncounting |-> "loop", leaving |-> "gone"]
Counted(t) ==
  /\ pc[t] \in DOMAIN AfterCount
  /\ alive' = [alive EXCEPT ![Owner(t)] =
       IF pc[t] = "starting" THEN @ + 1 ELSE IF pc[t] = "leaving" THEN @ - 1 ELSE @]
  /\ Goto(t, AfterCount[pc[t]])
  /\ Release(t, "count")
  /\ UNCHANGED <<queue, v, job, done>>

\* Faulty variant of More: nothing is posted for the jobs that remain.
NoMore(jobs) == FALSE

More(jobs) == Len(jobs) > 1

\* jobqueue_pull keeps rwmutex while it posts for the jobs that remain.
Pull(t) ==
  LET jobs == queue[Owner(t)]
  IN /\ pc[t] = "pulling"
     /\ queue' = [queue EXCEPT ![Owner(t)] = IF jobs = <<>> THEN jobs ELSE Tail(jobs)]
     /\ job' = [job EXCEPT ![t] = IF jobs = <<>> THEN 0 ELSE Head(jobs)]
     /\ \/ More(jobs) /\ Goto(t, "repost") /\ UNCHANGED lock
        \/ /\ ~More(jobs)
           /\ Goto(t, IF jobs = <<>> THEN "uncount" ELSE "run")
           /\ Release(t, "rw")
     /\ UNCHANGED <<v, alive, done>>

Asleep(f, p) == {t \in Threads : Owner(t) = p /\ f[t] = "asleep"}

\* Faulty variant of Posted: posts are counted.
CountedPost(n) == n + 1

Posted(n) == 1

\* bsem_post, by a step after which the workers are at f: one sleeper wakes.
Post(p, f) ==
  /\ v' = [v EXCEPT ![p] = Posted(@)]
  /\ pc' \in IF Asleep(f, p) = {} THEN {f} ELSE {[f EXCEPT ![t] = "wait"] : t \in Asleep(f, p)}

\* The post and the release of both locks.
Repost(t) ==
  /\ pc[t] = "reposting"
  /\ Post(Owner(t), [pc EXCEPT ![t] = "run"])
  /\ lock' = [lock EXCEPT ![Mutex(t, "bsem")] = Nobody, ![Mutex(t, "rw")] = Nobody]
  /\ UNCHANGED <<queue, alive, job, done>>

Run(t) ==
  /\ pc[t] = "run"
  /\ done' = done \cup {job[t]}
  /\ job' = [job EXCEPT ![t] = 0]
  /\ Goto(t, "uncount")
  /\ UNCHANGED <<queue, v, alive, lock>>

SpuriousWake(t) ==
  /\ handler[t] = "out"
  /\ pc[t] = "asleep"
  /\ Goto(t, "wait")
  /\ UNCHANGED <<queue, v, alive, lock, job, done, callVars, holdVars>>

Work(t) ==
  /\ handler[t] = "out"
  /\ Lock(t) \/ Test(t) \/ Token(t) \/ Counted(t) \/ Pull(t) \/ Repost(t) \/ Run(t)
  /\ UNCHANGED <<callVars, holdVars>>

--------------------------------------------------------------------------------
(* SIGUSR1 and thread_hold.  The signal is blocked in its own handler, and *)
(* one that is pending is not queued twice; one for a thread that exits    *)
(* may be lost with it.                                                    *)

Deliver(t) ==
  /\ t \in pending
  /\ handler[t] = "out"
  /\ pending' = pending \ {t}
  /\ \/ handler' = [handler EXCEPT ![t] = "entered"]
     \/ pc[t] = "gone" /\ UNCHANGED handler
  /\ UNCHANGED <<poolVars, callVars, onHold>>

Hold(t) ==
  /\ handler[t] = "entered"
  /\ onHold' = TRUE
  /\ handler' = [handler EXCEPT ![t] = "holding"]
  /\ UNCHANGED <<poolVars, callVars, pending>>

\* Faulty variant of NextRound: the flag is set again in every round.
SetsFlagAgain == "entered"

\* What follows a round of thread_hold's loop that finds the flag cleared.
NextRound == "out"

EndHold(t) ==
  /\ handler[t] = "holding"
  /\ ~onHold
  /\ handler' = [handler EXCEPT ![t] = NextRound]
  /\ UNCHANGED <<poolVars, callVars, pending, onHold>>

Signal(t) == Deliver(t) \/ Hold(t) \/ EndHold(t)

--------------------------------------------------------------------------------
(* The caller                                                              *)

Calling(call) == phase = "call" /\ at \in DOMAIN script /\ script[at][1] = call
This == script[at][2]
Asked == {This} \X (1 .. script[at][3])
Return == at' = at + 1 /\ phase' = "call" /\ UNCHANGED script
Enter(step) == phase' = step /\ UNCHANGED <<script, at>>

\* thpool_init: both flags are set for every pool there is.  Some of the threads
\* may not be made; that thread_init says so is ignored.
InitCall ==
  /\ Calling("init")
  /\ keepalive' = TRUE
  /\ onHold' = FALSE
  /\ \E made \in SUBSET Asked :
       pc' = [t \in Threads |-> IF t \in made THEN "start" ELSE pc[t]]
  /\ Enter("spinning")
  /\ UNCHANGED <<queue, v, alive, lock, job, done, signalled, pending, handler>>

\* Faulty variant of Initialised: the threads that were made are enough.
MadeIsEnough == alive[This] = Cardinality({t \in Asked : pc[t] # "none"})

\* The condition that ends the spinning in thpool_init.
Initialised == alive[This] = Cardinality(Asked)

InitReturn ==
  /\ phase = "spinning"
  /\ Initialised
  /\ Return
  /\ UNCHANGED <<poolVars, keepalive, signalled, holdVars>>

\* thpool_add_work: jobqueue_push takes rwmutex and then posts.
AddPush ==
  /\ Calling("add")
  /\ lock[<<This, "rw">>] = Nobody
  /\ lock' = [lock EXCEPT ![<<This, "rw">>] = Caller]
  /\ queue' = [queue EXCEPT ![This] = Append(@, at)]
  /\ Enter("posting")
  /\ UNCHANGED <<v, alive, pc, job, done, keepalive, signalled, holdVars>>

\* Faulty variant of Unlocked: jobqueue_push forgets its last line.
StillLocked(p) == lock

Unlocked(p) == [lock EXCEPT ![<<p, "rw">>] = Nobody]

AddPost ==
  /\ phase = "posting"
  /\ lock[<<This, "bsem">>] = Nobody
  /\ Post(This, pc)
  /\ lock' = Unlocked(This)
  /\ Return
  /\ UNCHANGED <<queue, alive, job, done, keepalive, signalled, holdVars>>

\* thpool_pause signals threads as long as n is below num_threads_alive, which
\* it reads in every round.
PauseCall ==
  /\ Calling("pause")
  /\ Enter("signalling")
  /\ UNCHANGED <<poolVars, keepalive, signalled, holdVars>>

Kill ==
  /\ phase = "signalling"
  /\ signalled < alive[This]
  /\ pending' = pending \cup {<<This, signalled + 1>>}
  /\ signalled' = signalled + 1
  /\ UNCHANGED <<poolVars, script, keepalive, at, phase, onHold, handler>>

PauseReturn ==
  /\ phase = "signalling"
  /\ ~(signalled < alive[This])
  /\ signalled' = 0
  /\ Return
  /\ UNCHANGED <<poolVars, keepalive, holdVars>>

\* As in the sleep(10) of thpool.h's example.
Settle ==
  /\ Calling("settle")
  /\ \A t \in Threads : Owner(t) = This /\ pc[t] # "none" => handler[t] = "holding"
  /\ Return
  /\ UNCHANGED <<poolVars, keepalive, signalled, holdVars>>

\* thpool_resume does not look at its argument.
Resume ==
  /\ Calling("resume")
  /\ onHold' = FALSE
  /\ Return
  /\ UNCHANGED <<poolVars, keepalive, signalled, pending, handler>>

DestroyCall ==
  /\ Calling("destroy")
  /\ keepalive' = FALSE
  /\ Enter("ending")
  /\ UNCHANGED <<poolVars, signalled, holdVars>>

\* bsem_post_all, as often as it takes.
DestroyPost ==
  /\ phase = "ending"
  /\ alive[This] > 0
  /\ lock[<<This, "bsem">>] = Nobody
  /\ v' = [v EXCEPT ![This] = 1]
  /\ pc' = [t \in Threads |-> IF t \in Asleep(pc, This) THEN "wait" ELSE pc[t]]
  /\ UNCHANGED <<queue, alive, lock, job, done, callVars, holdVars>>

\* The queue is cleared and everything freed.
DestroyFree ==
  /\ phase = "ending"
  /\ alive[This] = 0
  /\ queue' = [queue EXCEPT ![This] = <<>>]
  /\ v' = [v EXCEPT ![This] = 0]
  /\ Return
  /\ UNCHANGED <<alive, lock, pc, job, done, keepalive, signalled, holdVars>>

Call ==
  \/ InitCall \/ InitReturn \/ AddPush \/ AddPost \/ DestroyCall \/ DestroyPost \/ DestroyFree
  \/ PauseCall \/ Kill \/ PauseReturn \/ Settle \/ Resume

--------------------------------------------------------------------------------
Next ==
  \/ \E t \in Threads : Work(t) \/ SpuriousWake(t) \/ Signal(t)
  \/ Call

Spec == Init /\ [][Next]_vars

\* As in ThreadPool, and a signal that is pending is delivered.
FairSpec ==
  /\ Spec
  /\ \A t \in Threads : SF_vars(Work(t)) /\ WF_vars(Signal(t))
  /\ SF_vars(Call)

--------------------------------------------------------------------------------
(* Properties                                                              *)

\* The places in a worker's code at which it holds each lock.
Inside ==
  [rw |-> {"pulling", "repost", "reposting"}, bsem |-> {"token", "reposting"},
   count |-> {"starting", "counting", "uncounting", "leaving"}]
Steps ==
  {"none", "start", "starting", "loop", "wait", "token", "asleep", "check", "count", "counting",
   "pull", "pulling", "repost", "reposting", "run", "uncount", "uncounting", "leave", "leaving", "gone"}

\* Who has to hold a lock of p: the workers inside it, and a caller that pushes.
Holders(p, name) ==
  {t \in Threads : Owner(t) = p /\ pc[t] \in Inside[name]}
    \cup {c \in {Caller} : name = "rw" /\ phase = "posting" /\ This = p}

\* Every variable has its type, and a lock is held exactly by who is inside a
\* section of it.
TypeOK ==
  /\ script \in Scripts /\ keepalive \in BOOLEAN /\ onHold \in BOOLEAN
  /\ queue \in [Pools -> Seq(Places)] /\ v \in [Pools -> {0, 1}] /\ alive \in [Pools -> 0 .. MaxThreads]
  /\ lock \in [Pools \X DOMAIN Inside -> Threads \cup {Caller, Nobody}]
  /\ \A p \in Pools, name \in DOMAIN Inside : Holders(p, name) = {lock[<<p, name>>]} \ {Nobody}
  /\ pc \in [Threads -> Steps]
  /\ job \in [Threads -> {0} \cup Places] /\ done \subseteq Places
  /\ at \in 1 .. Len(script) + 1
  /\ phase \in {"call", "spinning", "posting", "signalling", "ending"}
  /\ signalled \in 0 .. MaxThreads /\ pending \subseteq Threads
  /\ handler \in [Threads -> {"out", "entered", "holding"}]

Working(p) == {t \in Threads : Owner(t) = p /\ pc[t] \notin {"none", "asleep", "gone"}}

\* With the locks taken and released step by step, workers put on hold inside
\* them and a binary semaphore that drops posts, a queued job is never left with
\* every worker of its pool asleep or gone, until some pool is destroyed.
NoStrandedJob ==
  \A p \in Pools : keepalive /\ queue[p] # <<>> => phase = "posting" \/ Working(p) # {}

\* thpool_destroy has been called for p.
Destroyed(p) == \E k \in DOMAIN script : k <= at /\ script[k] = <<"destroy", p>>

\* As thpool.h:23-24 has it, thpool_init does not return until all threads have
\* initialised: a pool that lacks one is never used, and the pools that are used
\* keep all theirs until threads_keepalive is cleared.
PoolsAreWhole ==
  \A i \in DOMAIN script :
    i < at /\ script[i][1] = "init" /\ keepalive
      /\ ~Destroyed(script[i][2])
      => alive[script[i][2]] = script[i][3]

\* Every pause is given time, and nothing is called before what ends it.
Unhurried ==
  \A i \in DOMAIN script : script[i][1] = "pause" =>
    /\ i + 2 \in DOMAIN script
    /\ script[i + 1] = <<"settle", script[i][2]>> /\ script[i + 2][1] \in {"resume", "init"}

\* Every call of an unhurried script returns, thpool_init where all threads could
\* be made (otherwise it spins, thpool.c:188), although a pause may have caught
\* workers with locks in their hands.
Missing == phase = "spinning" /\ \E t \in Asked : pc[t] = "none"
CallsReturn == Unhurried => <>(at > Len(script) \/ Missing)

\* Calls during a pause, which thpool.h:107 allows, and a resume in a hurry: the
\* one thing that may keep the caller for ever is a thread on hold, which has a
\* lock of the pool in its hands or which thpool_destroy waits for.
HeldUp ==
  /\ at \in DOMAIN script
  /\ \E t \in Threads : /\ Owner(t) = This /\ handler[t] = "holding"
                       /\ (phase = "ending" \/ \E l \in DOMAIN lock : lock[l] = t)
OnlyHoldBlocks == <>[](at > Len(script) \/ Missing \/ HeldUp)

\* As thpool.h:104-105 has it, the threads return to what they were doing once
\* thpool_resume is called: after a resume that no pause follows, no thread
\* stays in thread_hold or falls into it again.
AllOut == \A t \in Threads : handler[t] = "out" /\ t \notin pending
ResumedForGood ==
  \E i \in DOMAIN script :
    /\ at > i /\ script[i][1] = "resume"
    /\ \A k \in DOMAIN script : k > i => script[k][1] # "pause"
ResumeReleases == ResumedForGood ~> []AllOut

\* A resume in a hurry: only a signal on its way at the time keeps anybody on hold
\* after it.  A resume that finds every signal taken, the flag set by each
\* handler (thpool.c:321), lets all go for good, those included that were late
\* for an earlier resume.
NoneOnTheWay == pending = {} /\ \A t \in Threads : handler[t] # "entered"
OnlyLateStay == (ResumedForGood /\ NoneOnTheWay /\ ~onHold) ~> []AllOut

\* Every job of an unhurried script is run unless its pool is destroyed, although
\* a pause may catch a worker with the token, a lock or a job in its hands.
JobsRun ==
  Unhurried =>
    <>[](\A i \in DOMAIN script :
           at > i /\ script[i][1] = "add" => i \in done \/ Destroyed(script[i][2]))

\* Jobs added at any time, during a pause or before a late signal: one is never
\* run only if a worker of its pool is on hold for good, perhaps with the only
\* token or a lock.
OnlyHoldDelays ==
  <>[](\A i \in DOMAIN script :
         at > i /\ script[i][1] = "add" =>
           \/ i \in done \/ Destroyed(script[i][2])
           \/ \E t \in Threads : Owner(t) = script[i][2] /\ handler[t] = "holding")
================================================================================
