----------------------------- MODULE MCThreadPool ------------------------------
(* ThreadPool for TLC: workers, waiters and jobs are interchangeable.      *)
EXTENDS ThreadPool, TLC

Symmetry == Permutations(Threads) \cup Permutations(Waiters) \cup Permutations(Jobs)
================================================================================
