-------------------------------- MODULE JobPool --------------------------------
(***************************************************************************)
(* What a user of the thread pool may count on, with no threads' program   *)
(* counters, semaphores or locks: jobs wait in one line, each worker slot  *)
(* carries at most one job, a job is started at most once and in the order *)
(* of submission, and jobs are thrown away only after the pool was closed  *)
(* and every slot is empty.  ThreadPool is shown to implement it.          *)
(***************************************************************************)
EXTENDS Sequences

CONSTANTS Slots, Jobs, NoJob

VARIABLES submitted,  \* jobs handed to the pool so far
          pending,    \* jobs accepted and not started, oldest first
          running,    \* the job each slot carries, or NoJob
          done,       \* jobs whose function has returned
          closed      \* no further job may be submitted

jobVars == <<submitted, pending, running, done, closed>>

Init ==
  /\ submitted = {}
  /\ pending = <<>>
  /\ running = [s \in Slots |-> NoJob]
  /\ done = {}
  /\ closed = FALSE

Submit(j) ==
  /\ ~closed
  /\ j \notin submitted
  /\ submitted' = submitted \cup {j}
  /\ pending' = Append(pending, j)
  /\ UNCHANGED <<running, done, closed>>

Begin(s) ==
  /\ pending # <<>>
  /\ running[s] = NoJob
  /\ running' = [running EXCEPT ![s] = Head(pending)]
  /\ pending' = Tail(pending)
  /\ UNCHANGED <<submitted, done, closed>>

Finish(s) ==
  /\ running[s] # NoJob
  /\ done' = done \cup {running[s]}
  /\ running' = [running EXCEPT ![s] = NoJob]
  /\ UNCHANGED <<submitted, pending, closed>>

Close ==
  /\ closed' = TRUE
  /\ UNCHANGED <<submitted, pending, running, done>>

Discard ==
  /\ closed
  /\ \A s \in Slots : running[s] = NoJob
  /\ pending' = <<>>
  /\ UNCHANGED <<submitted, running, done, closed>>

Next ==
  \/ \E j \in Jobs : Submit(j)
  \/ \E s \in Slots : Begin(s) \/ Finish(s)
  \/ Close
  \/ Discard

Spec == Init /\ [][Next]_jobVars
================================================================================
