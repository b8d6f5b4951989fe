# chat_pro: a TLA+ model of the chat server

`chat_pro` is a chat system in C: clients log in with a name over TCP and send
messages to a friend's name; a server with an epoll event loop and a pool of
worker threads forwards each message, or keeps it until the addressee logs in.
This directory holds TLA+ modules of the parts that carry its logic, the TLC
configurations that check them, and TLAPS proofs about every part.
`PROJECT.json` ties definitions to source lines, properties to runs and
faulty variants, and hazards to properties. Paths below are relative to the
repository.

## Inventory

| component | source | state | operations |
|---|---|---|---|
| thread pool | `src/server/core/thpool.c` | job queue with `len`, binary semaphore `has_jobs`, `num_threads_alive`, `num_threads_working`, the global `threads_keepalive` and `threads_on_hold` | `thpool_init`, `thread_do`, `thpool_add_work`, `thpool_wait`, `thpool_destroy`, `thpool_pause`, `thpool_resume` |
| gateway event loop | `src/server/gateway/gw_connection.c` | the epoll interest set; the listening socket (level-triggered), client sockets (edge-triggered, non-blocking) | accept and register; one task per reported event |
| task handler | `src/logic/logic_service.c` | the `message` on the handler's stack | `handle_msg_task`: one `recv`, then login, forward or save |
| online user manager | same | `user_map`: name to socket, under a rwlock | `manager_add_user`, `manager_get_user_socket`, `manager_remove_user` (not called yet), `manager_destroy` (only unlocks, never called) |
| offline mail manager | same | `mail_hash`: name to mailbox, under a rwlock; each mailbox a queue of pointers to messages, under a mutex | `offline_msg_add`, `offline_msg_take_off` |
| lock-free message queue | same | a Michael-Scott queue | `msg_enqueue`, `msg_dequeue` (not called yet) |
| wire format | same, `include/model/model.h` | none | `serialization`, `deserialization` |
| client | `src/client/cli_connection.c` | socket, receive thread | connect, log in, chat, exit |
| hash table | `include/server/storage/uthash.h` (vendored) | buckets with counts and multipliers, a list of all entries, a list per bucket, the `noexpand` latch | `HASH_ADD_STR`, `HASH_FIND_STR`, `HASH_DEL` as the managers use them |
| stubs | the other files of `src/` | mains of one call, empty files | |

How they interact. The event loop turns each event of a client socket into a
job of the pool (`gw_connection.c:104`). A worker runs `handle_msg_task`, which
reads one frame from that socket. A login enters the socket in the user map,
takes the user's mail queue off the mailbox and sends it. A chat message is
looked up in the user map and sent to the socket found there, or stored in the
addressee's mailbox. The managers' locks are held inside one manager call, never
across two, so everything between the calls can interleave with the other seven
workers.

What is hard here: a binary semaphore that drops posts; two reads of two
counters under a lock that protects only one of them; one signal for possibly
several waiters; freeing memory that threads leave last; check-then-act
over two managers; signals that stop a thread inside a lock; a lock-free list
whose nodes are freed; frames longer than their buffers; pointers to a stack
frame that outlives its call only by luck; edge-triggered events with one read
each; peers that are gone; one keep-alive flag for all pools; a hash table
that moves its entries while it grows.
`PROJECT.json` lists these hazards with their lines.

What makes each component correct:

- thread pool: no job is lost, duplicated or reordered, no queued job is left
  with every worker asleep, `thpool_wait` is a barrier and returns, destroy
  terminates and frees only a drained pool;
- gateway: every event leads to a read; a frame is left unread only where the
  event was merged;
- handler and managers: a message that was read is in one place and goes once,
  unchanged, to its addressee, or waits; mail present at a login is delivered;
- hash table: through any adds, expansions and removals it is a map from names;
- message queue: first-in first-out for its concurrent callers, no node used
  after it is freed, NULL only when it was empty, calls that return;
- wire format: a message is routed by the names typed and shown as typed, as far
  as it fits.

## Modules

| module | models | refers to |
|---|---|---|
| `JobPool` | what users of the pool rely on: a line of jobs, slots, no threads | |
| `ThreadPool` | `thpool.c`, one pool from init to destroy | implements `JobPool` (`PoolSpec`) |
| `ThreadPoolProofs`, `PoolsProofs`, `PoolsJobProofs`, `ChatServerProofs`, `ChatDeliveryProofs`, `HashTableProofs`, `MSQueueProofs`, `CodecProofs` | theorems about the module they are named for; `ChatDeliveryProofs` those about `ChatServer` that say where a message is | |
| `Messenger` | what a chat user relies on while the server is up | |
| `Pools` | several pools under one `threads_keepalive` and one `threads_on_hold`: `thpool_init` with a thread that cannot be made, `thpool_add_work`, `thpool_pause`, `thpool_resume`, `thread_hold`, `thpool_destroy`, lock by lock | |
| `ChatServer` | event loop, handler, both managers, clients, TCP as environment | takes its steps with tasks from `JobPool` and those with logins from `UserMap`; implements `Messenger` (`MessengerSpec`) |
| `UserMap` | what users of the online user manager rely on: a map in which the first login of a name stays | |
| `HashTable` | the uthash macros and the online user manager on them | implements `UserMap` (`MapSpec`) |
| `MessageQueue` | a first-in first-out queue | |
| `MSQueue` | `msg_queue_init`, `msg_enqueue`, `msg_dequeue` | implements `MessageQueue` (`QueueSpec`) |
| `Codec` | `serialization`, `deserialization` and the buffers around them | |
| `MCThreadPool`, `MCPools`, `MCChatServer`, `MCHashTable`, `MCMSQueue`, `MCCodec` | values of constants and symmetry for TLC | |

### ThreadPool

Each worker has a program counter `pc` through `thread_do`: `start` (369 not
reached), `loop` (371), `wait`/`asleep` (`bsem_wait`), `check` (375), `count`
(377), `pull` (384), `run` (388), `uncount` (392), `leave` (401), `unlock` (403),
`gone`. `wpc` is the same for callers of `thpool_wait`, with the two operands of
the loop condition at line 218 as two steps. `main` is the owner's phase.

A critical section of `rwmutex` or of the semaphore's mutex is one step. It is
short, waits for nothing inside, and `rwmutex` is always taken before the
semaphore's mutex, so other orders are not observable. `thcount_lock` is
explicit: `thpool_wait` reads both counters while holding it, and a leaving
worker is counted out before it releases it. Both condition variables may wake
spuriously. A signal moves one sleeper, of any.

Callers follow the library's contract: work is added and waited for after init
has returned and before destroy is called, and nobody is inside `thpool_wait`
when it is. `thpool_add_work` returns -1 on a failed `malloc` and changes
nothing, which is a stuttering step. `added`, `finished` and `owed` are history
variables.

### Pools

The two globals of `thpool.c:56-57` belong to all pools, so here there are several,
each with its queue, semaphore, `num_threads_alive` and threads; a thread is a pair
of its pool and a number. A signal can stop a worker anywhere, so `rwmutex`,
`bsem.mutex` and `thcount_lock` are locks (`lock`), and a critical section is two
steps: `Lock`, then the rest (`Section` says who asks for which). `jobqueue_pull`
keeps `rwmutex` while it asks for `bsem.mutex` (`Repost`), `jobqueue_push` too
(`AddPush`, `AddPost`). `handler` says whether a thread is in `thread_hold` and
whether it has set `threads_on_hold` yet; its own steps need it `out`. A pending
SIGUSR1 is not queued twice and is blocked in its handler.

One caller runs a script of calls, chosen in `Init` from `Scripts`. `PoolsAssumption`
asks of a script what any user of the library does (`Proper`): a pool is used after its
`thpool_init` and not after its `thpool_destroy`. `settle` is the
`sleep(10)` of one example in `thpool.h`, long enough for every thread to be on
hold. A script may do without, as the other example does; then a resume may come before a
signal is delivered or between the handler's entry and its `threads_on_hold = 1` (`Deliver`,
`Hold`). `InitCall` sets both globals, as `thpool_init` does whatever other pools there
are, and makes any of the threads, since a `thread_init` that returns -1
goes unnoticed (181); then the caller spins (188). `Resume` does not look at
its pool. `Kill` is one round of `thpool_pause`'s loop, `signalled` its `n`; the loop
reads `num_threads_alive` again each time (`PauseReturn` is its end). `DestroyCall` clears the global, `DestroyPost` broadcasts until the pool's
threads are gone. `num_threads_working` is left out (only `thpool_wait` reads it),
the sections around it are not. A leaving worker's `num_threads_alive--` and its unlock are one
step, which `ThreadPool` keeps apart because of what `thpool_destroy` does in between.

### HashTable

A table is a record of the fields of `UT_hash_table`, its buckets and the four links of
every entry; the macros are operators from table to table, in the order in which the C
code assigns. A loop is a recursive function, of the stages it goes through: `Walk` and
`Seek` take a step along a link in each (`Hops` bounds them, so that both end even on a
list that a faulty macro has made a cycle), `MoveChain` moves an entry, `Redistribute`
empties an old bucket. An entry is a name and a number: a second entry of a name would
appear if the first could no longer be found. `Hash` is a constant,
any function of the names (`HASH_JEN` is not looked into). Expansion runs through the old
buckets in order and pushes each entry to the front of its new bucket, which
reverses chains, counts entries beyond the ideal length, raises multipliers and
sets `noexpand` after two ineffective rounds. Removing the last entry frees the
table. A manager call holds the rwlock throughout, so each is one step.

### MSQueue

`live`, `val` and `next` are the heap, `head` and `tail` the queue; each thread has a
program counter and the locals of its function (`reg`). Every read of a shared
pointer (`Read`) and every compare-and-swap is one step. The Makefile builds without
optimisation, so each read happens where it is written; the only plain stores are to
a node not yet linked, before a compare-and-swap. `Allocate` takes any free address,
so a freed node may come back; reading a freed node yields any value (`NextOf`,
`MsgOf`). `List` is the chain of nodes along `next` from `head` (chosen among the sequences of
nodes, not computed by recursion, so that proofs can speak of it) and `Items`, its
messages behind the dummy, is what `MessageQueue` sees. A
call's dead locals are reset to `Null` on return, which only merges states. `use`,
chosen in `Init`, says who calls what, whether consumers call while producers do, and
which threads have fairness: the others may stop between any two steps.

### Codec

One login or chat message on its way: `ClientSend`, `ServerReceive`, then `Forward` or
`SendOffline`, then `ClientShow`. A cell is one byte of text; each header word is one
cell. A chat frame is 2 words, two names and the text, 1072 bytes, and every
buffer is 1024: the model keeps `Header + 2 * NameLen <= BufferSize` and lets the frame
be longer than the buffer. Cells read behind a buffer are arbitrary; the 0 that
the client writes at `buffer[read_size]` is the first of them when the buffer is full,
and is what ends a long text. Cells written behind a buffer are not followed:
which variables they hit depends on the layout of the stack, so the model is of
one message from a client that has sent nothing else.

### ChatServer

A frame is a pair `<<connection, k>>`: `k = 0` is the login the client sends first,
`k > 0` its k-th chat message, to the one peer typed at its prompt. `sent[c]` and
`read[c]` are positions in that stream, so `sent[c] - read[c]` frames wait in the
socket. `ready` is epoll's set of edges not yet reported: an arrival on a
connection that is already in it raises no second event (`missed` counts them).
`Dispatch` is one reported event and its `thpool_add_work`; a batch of `n` events
is `n` reports, because only this loop adds tasks and workers may be slow
anyhow. The pool is not modelled again: `Dispatch`, `Take` and `Return` conjoin
`JobPool`'s `Submit`, `Begin` and `Finish`, which `ThreadPool` is proved to
implement. In the same way `Login` is `UserMap`'s `Enter`, which `HashTable` is proved
to implement. A worker's `pc` goes from `recv` to `login`, `takeoff`, `sending`, or to
`lookup` and then `forward` or `save`, and to `return`; each manager call is one
step, since its lock covers all of it, and each `recv` and `send` is one.

`msg[w]` is the content of worker `w`'s stack frame. It survives the call: after
`Return` it is intact or `Garbage`, and the next call of the same worker
overwrites it. A mail node carries the identity of the message it was stored for
and the worker whose frame it points to; what is sent is `msg` of that worker at
that time (`says`), next to what should have been sent (`msg`).

`boxes` tells a missing mailbox from an empty one: after a take-off the mailbox
stays, with a queue whose tail is NULL, and appending to it kills the process
(`up`). So does a send on a socket that was reset (SIGPIPE is neither caught nor
ignored): `Send` lets a closed peer answer a send with a reset at any time. So does
an `accept` with no socket to spare: `spare` counts down, since the server closes
none. What the clients send (`left`) and `spare` are chosen in `Init`.

`Messenger` tells a message that is given at once, which goes to the `home` of its
addressee, the connection of the first login, from one that was kept, which goes
to whichever of the addressee's connections took it off.

`global_mail_manager.mail_hash` is not initialised (`gw_connection.c:32`); the
allocation is the second of the process and comes from fresh, zeroed heap, so
the model starts with no mailbox.

Abstracted: a send of `BUFFER_SIZE` bytes arrives whole and one `recv` reads it;
a client's login names one user of `Users`; `printf` is left out; memory
never runs out. The client's close is its `exit` or a kill at any moment.

## Runs

| run | instance | shows |
|---|---|---|
| `pool` | 2 workers, 1 waiter, 3 jobs, fair | `NoStrandedJob`, `NoStrandedWaiter`, `FreedWhenDrained`, `WaitReturnsDone`, refinement of `JobPool`; every job runs unless the pool is destroyed, the waiter continues, destroy terminates |
| `pool_free` | 2 workers, 1 job | **violation**: freed before the last worker has unlocked |
| `pools` | 1 or 2 threads; add, add, pause, settle, resume, add; two pools in turn; two at once to the end of both; a pause ended through another pool, or by making one; the example of `thpool_pause`; add, pause, add, resume, resume; two pauses and destroy; work added during a pause that has settled; fair | `NoStrandedJob`, `PoolsAreWhole`, `CallsReturn`, `OnlyHoldBlocks`, `OnlyLateStay`, `JobsRun`, `OnlyHoldDelays` |
| `pools_resume` | 1 thread; the example of `thpool_pause`: pause, add, resume; fair | **violation**: a thread on hold for ever after the resume |
| `pools_shared` | 2 pools of 1 thread, one destroyed, fair | **violation**: a job of the other pool is never run |
| `server_safety` | 2 workers; alice sends bob 2 messages and he connects once, or 1 and he connects twice, with and without a socket for each | `OnePlace`, `UnreadWasMerged`, `DeathHasCause`, refinement of `Messenger` |
| `server_liveness` | 2 workers, 1 message, fair | `EdgeServed`, `MailArrives`, `OnlineNotStored` |
| `server_mail_intact` | 1 worker, 1 message | **violation**: a stored message is not what is delivered |
| `server_box_empty` | 2 workers, 2 messages | **violation**: an existing mailbox may be empty, and its tail NULL |
| `queue` | 3 addresses; 1 producer that may stop, 5 messages, 1 fair consumer; or 2 producers at once, then 2 consumers at once, all fair | `NoUseAfterFree`, `TailNearEnd`, `NullMeansEmpty`, refinement of `MessageQueue`, `LinkedIsTaken`, `EnqueueReturns` |
| `codec` | names of 1 letter, texts of up to 4, 2 letters, frame 11, buffer 8 | `RoutedAsTyped`, `ShownAsTyped` |
| `user_map` | 6 names, one with two sockets; 1 bucket at first, threshold 2, no additions beyond 4 buckets | `Sound`, `ChainsBounded`, refinement of `UserMap` |

Bounds. Three jobs give the queue its three cases of `jobqueue_pull` (none, one,
more) with a lost post; two workers are one to pull or run and one to sleep, and
the theorems cover more. Two messages of one sender give merged events, two
tasks of one connection on two workers, and a mailbox that is filled, taken off
and saved into again; two connections of the addressee give competing
take-offs and a home that is not the only login; a socket too few gives the failing
accept. Counters are bounded by `Plans`: a client sends its login and its messages,
and its close is one event more.

Six names with the hashes of `MCHashTable` are all in the one bucket at
first; each doubling splits some off and leaves three together to the end, so that the runs
have expansions that help, multipliers of 2, chains that an expansion leaves longer than
the threshold allows, two expansions in a row that do not help, and `noexpand`.
`MaxBuckets` stops additions to a table of 8 buckets.
`pools` has two threads where a lost post or a stranded job needs a second, one
elsewhere. `CallsReturn` and `JobsRun` are about its `Unhurried` scripts, where nothing is
called during a pause and what ends it comes after `settle`: there everything works. In the
others a call may block and a thread may stay on hold, against what `thpool.h:104-107` says,
and the run shows that nothing else goes wrong: whenever a call does not return or a job
is not run there is a thread on hold to blame (`OnlyHoldBlocks`, `OnlyHoldDelays`), and a
resume that finds every signal taken lets all threads go, also those that were late
for an earlier one (`OnlyLateStay`). A second resume and a second pause meet threads in
every state of the handler; a destroy may wait for a thread on hold.

`server_liveness` has one login of bob; with two connections the graph, without
symmetry, is too large for TLC's liveness check. Competing take-offs are in `server_safety`.

Three addresses for five messages and a dummy make every address come round
again. The use with two producers allocates no address twice, because beyond that the
queue is not correct (below). Texts of every length around the two cells that fit cover a text
that is whole, one that just fills the frame and one that is cut.

The five violations are disagreements between the code and what a comment of the
repository says of it; the findings in `PROJECT.json` quote both. Their
counterexamples, in short:

- *free*: the last worker lowers `num_threads_alive` (402); destroy sees 0 and
  frees (259-260); the worker's unlock (403) is of freed memory.
- *shared*: pools 1 and 2 are made, pool 1 is destroyed (233); pool 2's worker reads
  the same `threads_keepalive` at 371 and leaves; a job added to pool 2 waits for ever.
- *resume*: the signal has reached the thread, `thpool_resume` sets the flag to 0, and
  the handler sets it to 1 (321) and waits for a resume that has been.
- *mail*: `&msg` is stored (390), the handler returns, bob's login on the same
  worker is decoded into the same frame, and is what bob is sent.
- *box*: alice's second message looks bob up (offline), bob logs in and takes the
  first one off, the second is saved into the emptied mailbox.

### Beyond the runs

The same modules with other constants show where the passing runs end:

- `ThreadPool` with two waiters (1 worker, 1 job): `WaiterContinues` fails. Both sleep while
  the job runs, the worker's one signal wakes the first, no job follows, nothing
  signals the second (`thpool.c:395`). `thpool.h:73-75` says of a caller of
  `thpool_wait` that it will continue once all work has completed.
- `Pools` with `Meanwhile` alone: that every call returns, `CallsReturn` without its
  hypothesis, fails. A worker is put on hold with `bsem.mutex` in its hands (565); the
  caller pushes a job and waits for that mutex before it can come to the resume.
  `thpool.h:107` says "While the thread is being paused, new work can be added."
- `Pools` where a thread cannot be made: `thpool_init` never returns, which is why
  `CallsReturn` exempts it (`Missing`).
- `MSQueue` with two producers of which one may stop: `EnqueueReturns` fails. It has
  linked its node and stops before line 228; the other reads a tail whose `next` is
  not NULL and goes round the loop without moving it, since the branch that would
  (235) belongs to the outer `if`. `model.h:39` calls the queue lock-free.
- `MSQueue` with `together` and either two consumers and two messages, or two producers,
  a consumer and a reused address: `NoUseAfterFree` and `QueueSpec` fail.
  `msg_dequeue` frees a node that other threads may hold (`first->next` at 247,
  `last->next` at 224). The queue as it is suits one producer and one consumer.
- `HashTable`: that a chain always stays below `expand_mult + 1` times the threshold
  (`uthash.h:1072-1083`) is not so. In the instance of `user_map`, the fifth name expands two
  buckets to four and leaves two names in one whose multiplier is 0: its chain is at the
  threshold of 2, and it is not expanded before the next name that is added to it. What holds, for all
  sizes, is `ChainsBounded`: a chain that is not below that bound is within the same multiple of
  `ideal_chain_maxlen`. So the bound itself holds as long as the ideal length is below the
  threshold.
- `ChatServer`: a user found online may have left, because nothing removes users
  from the map; the message is sent to a dead socket. `Messenger` therefore
  promises delivery to a socket the user once logged in on, no more.
- `Codec`: up to 976 bytes of the 1023 that can be typed arrive, which is what
  `ShownAsTyped` states.

Two comments that contradict the code in a way no run is needed for: `logic_service.c:368`
says offline messages are not yet sent at login, and line 383 sends them;
`thpool.c:482` says the caller of `jobqueue_pull` must hold a mutex, and the
function takes it itself.

## Fairness

`ThreadPool.FairSpec` assumes strong fairness of each worker's and each waiter's
own steps and weak fairness of the owner. Strong, because a thread that asks for
`thcount_lock` finds it taken again and again by others, and the scheduler and
the mutex are assumed not to pass it over for ever. No fairness is
assumed of spurious wake-ups, so no property rests on them, nor of callers. That
a job's function returns is part of the assumption.
`Pools.FairSpec` is the same, strong for the caller too, with the signal's delivery and handler weakly fair.
`MSQueue.FairSpec` gives weak fairness to the threads that the use has running only:
the consumer where the producer may stop anywhere, and everyone in the use with two
producers, where `EnqueueReturns` needs it (above). A thread's steps take no lock, so
weak fairness is what a scheduler gives; the compare-and-swaps that a spinning
producer waits for come from the other's own steps.
`ChatServer.FairSpec` assumes weak fairness of the event loop's and each worker's
steps; none of them waits for another once enabled, and nothing is assumed of
clients.

## Proofs

TLC checks instances; the theorems hold for all values of the constants that satisfy
the `ASSUME` of the module they are about, and TLC evaluates each `ASSUME` on its runs.
The assumptions say what the code or its callers give: sets that do not overlap, finitely
many threads and addresses, positive sizes, names that fit the buffer. Where a property
is not inductive the invariant that is, given below, was first checked by TLC.

### ThreadPoolProofs

For every set of workers, waiters and jobs (there is a worker and finitely many of them):

- `TypeCorrect`, with `HeldInv`: a worker holds a job exactly while it runs one.
- `CountsAreExact` (`CountInv`): the counters equal the cardinalities of the sets
  of threads between increment and decrement. Needed wherever the code compares a
  counter with a number: init's busy loop, wait's condition, destroy's polling.
- `FreedOnlyWhenDrained`: `FreedWhenDrained` with `MainInv`, which bounds what
  workers and waiters may be doing in each phase of the owner.
- `JobNeverStranded`: `NoStrandedJob` is not inductive; `TokenInv` is: while a job
  is queued either the token is there or some worker has taken it and is on its way to the
  queue, and while the token is there somebody is awake to take it.
- `WaitIsABarrier`: `WaitReturnsDone` from `JobInv` (`JobsAccountedFor`): a job that was added
  is finished, held or queued, so a waiter that read an empty queue is owed only
  finished and held jobs, and when it reads `working = 0` none is held.
- `LockIsHeldByOne` (`LockInv`): who holds `thcount_lock`, from the program counters.
- `LoneWaiterNotStranded`: `NoStrandedWaiter` when at most one thread waits; the
  assumption is needed (see *Beyond the runs*).
- `ImplementsJobPool`: `Pull` of a job is `Begin`, `Run` is `Finish`, `AddWork` is
  `Submit`, `DestroyCall` is `Close`, `DestroyFree` is `Discard`, every other step
  stutters.

### PoolsProofs and PoolsJobProofs

For any finite set of pools, any number of threads and any finite set of proper scripts:

- `TypeCorrect`: `TypeOK` with `PoolsInv`. The caller is where its script says
  (`CallOK`, `ScriptInv`); each lock is held exactly by who is inside a section of it,
  wherever a signal stops that worker (`LockInv`, from the program counters); `num_threads_alive` is the
  number of workers between its increment and its decrement (`AliveInv`); a worker's job
  was added (`JobInv`); a returned pool has had its threads made (`MadeInv`).
- `JobsNotStranded` and `PoolsStayWhole`: `NoStrandedJob` and `PoolsAreWhole`, where the
  scripts are `KeptApart`: once a pool has been destroyed, another is made only after all
  earlier ones have been freed. The invariant is `JobsInv`: the global flag is cleared
  only by a destroy (`ClearedInv`), while it is set nobody but the workers of freed pools
  leaves (`LeaveInv`), and `TokenAt` of every pool, as in `ThreadPool` but with the locks taken
  one by one and a post that is still to come. Without the hypothesis both are false, because the
  flag is one for all: with A and B made, A destroyed and C made, C's `thpool_init` sets the
  flag that A's `thpool_destroy` had cleared (143, 233), but B's workers have left. The hypothesis
  allows any pools made before the first destroy, and any pool after all are freed; every
  script of run `pools` satisfies it.

### ChatServerProofs and ChatDeliveryProofs

For any connections, users, workers, plans of what clients send, and any number of sockets to spare:

- `TypeCorrect`: `TypeOK` with `StreamInv` and `WorkInv`. `StreamInv` bounds events: of each
  connection the tasks submitted and the event not yet reported are together no more than
  the frames sent and its close, and no more is sent than was planned. `WorkInv` says what a worker holds at each place of
  `handle_msg_task`: a frame of its connection that was read, a target that is the user map's.
- `UnreadOnlyIfMerged`: `UnreadWasMerged`, by counting: each `recv` ends one task,
  and no task is run that was not submitted (`TaskInv`).
- `EveryMessageInOnePlace`: `OnePlace`. `PlaceInv` says of a message without counting that
  at most one hand, mailbox, taken-off queue or socket has it, in one position, that no
  two of these kinds do, and that none does before it is read; while the server is up one does
  afterwards. `MailInv` says that mail is filed under its addressee.
- `EveryDeathHasCause`: `DeathHasCause`, from the part of `MailInv` that makes an emptied mailbox
  that of somebody online.
- `OnlineNeverStored`: `OnlineNotStored`.
- `ImplementsMessenger`: `MessengerSpec`, step by step: a `recv` of a chat frame hands a
  message in, a `forward` gives it to the addressee's `home`, a `save` keeps it,
  a send of mail gives it to the connection that took it off; the rest stutters.

### HashTableProofs

For any finite set of names, any hashes of them, any initial number of buckets and any
threshold, and without a bound on the size of the table (the theorems need no assumption on `MaxBuckets`):

- `TableInvariant`: the invariant `IInv`. A table that holds the set S of entries (`TableOK`) has every list
  sound both ways and without repetition (`IsList`): that of all entries has exactly those
  of S (`OrderOK`), that of each bucket exactly those of S that hash to it, as many as its
  count says (`BucketsOK`). No two allocated entries have one name. None of the
  properties is inductive without the rest: a deletion relies on `prev`, an expansion on
  where each entry was, a lookup on each name being in its bucket.
- `TypeSafe`, `TableSound`: `TypeOK`, `Sound`.
- `ShortSearches`: `ChainsBounded`. The reason is in the loop of an expansion: a bucket that
  it fills never has more than one entry beyond `expand_mult` times the ideal length (`Shared`),
  which is within the next multiple of it (`SharedIsShort`); an addition that reaches the multiple of the
  threshold expands, a removal only shortens.
- `TableIsMap`: `MapSpec`. `Find` is the one entry of a name, or NULL when it has none (`FindIs`, `FindInMap`),
  so a login changes what is found of its own name only, whatever it moves, and a removal likewise.

The lemmas are about the data and follow the macros. `ListPush`, `ListAppend`, `ListRemove`: what a change of links
makes of a list. `WalkIs`, `SeekIs`: following the links of a list finds the whole of it, and the first
entry with a key. `MoveOK`, `MoveChainOK`, `RedistributeOK`: while an expansion runs, the new buckets
hold the entries moved so far, and the links of the old chains that are still to be moved
are untouched; that is the invariant of both loops. `AddOK`, `DeleteOK`: one call of the macro keeps a table sound. A loop is a
recursive function, of which the provers know nothing until it is shown to exist (`WalkLoopExists` and its like,
by a least counterexample); its stages are then followed one by one.

### MSQueueProofs

For any number of messages and of addresses, and for both uses in which the queue is correct
(`Orderly`; for the others see *Beyond the runs*): at most one producer and one consumer
(`OneEach`), between whom `malloc` may hand out an address again as soon as it is freed; and any
number of producers at once, then, when every message is in, any number of consumers at once
(`~use.together`).

- `QueueSafe`: the invariant `SafeInv`. `ListInv`: the nodes from `head` to NULL are a chain
  without repetition, all of them allocated, with messages behind the dummy. `TailInv`: `tail` is the
  last node, or the one before it while a producer is between its two swaps. `SeenInv`: the
  messages whose node was linked are exactly those in the queue or taken. The rest is what
  each thread's locals say at each step, which depends on the use:
  - `ProducerInv`, `ConsumerInv`, for the pair: the producer's `last` is the end of the list, the
    consumer's `first` is still the dummy, nobody else knows a node about to be freed, and a
    NULL `next` was read from an empty queue.
  - `ProducerTurn`, `ConsumerTurn`, for many: a producer's `last` is on the list, no further
    on than `tail`, so its link swap succeeds only at the end and its help (235) never moves
    `tail`; no two producers own one node, and only one of them is between its swaps. A consumer's
    `first` is the dummy, and then `next` and `msg` are what follows it, or it has left the list
    for good and the head swap fails, whatever was read through it.
- `NodesSafe`: `NoUseAfterFree`, for the pair. Consumers at once do read freed nodes, in the
  second use too; there the invariant shows that what they read is never taken for a message.
- `QueueTyped`, `TailIsNear`, `NullIsEmpty`: `TypeOK`, `TailNearEnd`, `NullMeansEmpty`.
- `FirstInFirstOut`: `QueueSpec`; the link swap (227) appends to `Items`, the head swap
  (256) takes its head, and every other step, the frees and reuse included, leaves it alone.

They rest on lemmas about chains (`ChainUnique`, `ListKept`, `ListGrown`, `ListShrunk`): two chains from a
node along one function are equal, so `List` follows one changed link or head. The induction in
them is on a least counterexample (`LeastNat`), which a well-founded order gives.

### CodecProofs

For all sizes in which the names fit the buffer and every alphabet:

- `TypeCorrect`: `TypeOK` with `CodecInv`, which says at each stage which cells of the
  buffer or message are those that were typed: both names whole, and of the text as much as
  fits (`Kept`), ended by the 0 that the client writes behind it (`Ended`).
- `NamesAsTyped`, `TextAsTyped`: `RoutedAsTyped`, `ShownAsTyped`.

### Only model-checked

- Liveness (`JobsRun`, `WaiterContinues`, `DestroyTerminates`, `CallsReturn`,
  `OnlyHoldBlocks`, `OnlyLateStay`, `OnlyHoldDelays`, `EdgeServed`, `MailArrives`, `LinkedIsTaken`, `EnqueueReturns`): the proof
  system has no rules for fairness.

Every other property of a passing run is the conclusion of a theorem, under the hypotheses the theorem states.

## Not modelled

- a `recv` that returns part of a frame, or a short send: the code looks at neither's
  result, no comment says what should happen, and a frame is a fraction of a
  socket buffer; for the same reason a send that is refused (EAGAIN), and the event that a
  reset raises (EPOLLERR, EPOLLHUP), which leads to a `recv` of nothing, like a close;
- the order of messages: tasks of one connection run on several workers and may overtake
  each other, and nothing in the repository promises otherwise;
- the client's `connect` that fails (its first send then ends it, and the server
  never hears of it) and its receive thread as a process of its own: it only
  prints, and `Codec` has what it prints;
- the parts of uthash the program does not use: sorting, selecting, in-order
  insertion, replacing, iterating, the Bloom filter, allocation that fails without
  ending the process; and how its hash functions compute;
- `manager_destroy`, which unlocks a lock nobody holds and is never called;
- exits on failing set-up calls of the listening socket and of epoll, memory that
  runs out, logging, the mains, the empty files and the Makefile.
