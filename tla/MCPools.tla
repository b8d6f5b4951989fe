-------------------------------- MODULE MCPools --------------------------------
(* Pools for TLC: the programs its caller runs.                             *)
EXTENDS Pools

CONSTANTS A, B

\* Jobs before and after a pause that is given time, as in thpool.h's example
\* of thpool_resume.
Patient ==
  << <<"init", A, 2>>, <<"add", A>>, <<"add", A>>,
     <<"pause", A>>, <<"settle", A>>, <<"resume", A>>, <<"add", A>> >>

\* One pool after the other.
InTurn ==
  << <<"init", A, 2>>, <<"add", A>>, <<"destroy", A>>,
     <<"init", B, 1>>, <<"add", B>>, <<"add", B>> >>

\* Two pools at once, to the end of both.
AtOnce ==
  << <<"init", A, 2>>, <<"add", A>>, <<"init", B, 1>>, <<"add", B>>, <<"add", A>>,
     <<"destroy", A>>, <<"destroy", B>> >>

\* A pause of one pool that is ended through the other, or by making it.
ByOther ==
  << <<"init", A, 1>>, <<"init", B, 1>>, <<"add", A>>,
     <<"pause", A>>, <<"settle", A>>, <<"resume", B>>, <<"add", A>>, <<"add", B>> >>
ByInit ==
  << <<"init", A, 2>>, <<"add", A>>, <<"pause", A>>, <<"settle", A>>, <<"init", B, 1>>, <<"add", A>> >>

\* As in thpool.h's example of thpool_destroy: two pools, one of them destroyed.
OneOfTwo == << <<"init", A, 1>>, <<"init", B, 1>>, <<"destroy", A>>, <<"add", B>> >>

\* thpool.h's example of thpool_pause, work between pause and resume and no
\* sleep, as it stands; with more work and a second resume, or to the end of
\* the pool.
Example == << <<"init", A, 1>>, <<"pause", A>>, <<"add", A>>, <<"resume", A>> >>
Twice ==
  << <<"init", A, 2>>, <<"add", A>>, <<"pause", A>>, <<"add", A>>, <<"resume", A>>,
     <<"resume", A>> >>
ToTheEnd ==
  << <<"init", A, 1>>, <<"add", A>>, <<"pause", A>>, <<"resume", A>>, <<"add", A>>,
     <<"pause", A>>, <<"resume", A>>, <<"destroy", A>> >>

\* Work added while the threads are on hold for certain.
Meanwhile ==
  << <<"init", A, 1>>, <<"add", A>>, <<"pause", A>>, <<"settle", A>>, <<"add", A>>, <<"resume", A>> >>

Slept == {Patient, InTurn, AtOnce, ByOther, ByInit}
Hurried == {Example, Twice, ToTheEnd, Meanwhile}
Programs == Slept \cup Hurried
Shared == {OneOfTwo}
Documented == {Example}
================================================================================
