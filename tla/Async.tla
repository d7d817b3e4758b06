------------------------------- MODULE Async -------------------------------
(***************************************************************************)
(* The thread pool of src/cgi_async.c, down to its linked lists.           *)
(*                                                                         *)
(* Thread 0 is the owner (the dispatcher loop): it creates the workers,    *)
(* submits tasks with Async.run, and shuts the pool down with Async.signal *)
(* and Async.wait (Async.finish is the two in succession).  Threads        *)
(* 1..Threads run worker_thread_cycle.  A critical section under           *)
(* async->lock is one action; everything outside the lock is an action of  *)
(* its own, so that the wakeup byte written after the unlock, the test of  *)
(* async->run and the blocking read interleave freely.                     *)
(*                                                                         *)
(* A task is the number of the call that submitted it: what it computes is *)
(* another module's business.  A failed malloc in async_run leaves the     *)
(* queue as it was (lines 88-91) and so is no step here.                   *)
(***************************************************************************)
EXTENDS Naturals, FiniteSets

CONSTANTS
    Threads,   \* CGI_THREAD_POOL_SIZE
    MaxTasks,  \* bound: how many tasks the owner submits
    PipeCap,   \* how many unread bytes the wakeup pipe holds
    Node,      \* the addresses malloc may return for a struct AsyncTask
    NULL

\* PipeCap: 65536 against 16 threads.  See ShutdownWakesAll.
ASSUME ThreadsAssumption == Threads \in Nat \ {0}
ASSUME TasksAssumption == MaxTasks \in Nat
ASSUME PipeAssumption == PipeCap \in Nat /\ PipeCap + 1 >= 2 * Threads
ASSUME NodeAssumption == NULL \notin Node

Owner == 0
Workers == 1..Threads
Thread == 0..Threads

VARIABLES
    \* the heap: struct AsyncTask
    next,      \* next[n]: the node's next field
    arg,       \* arg[n]: the task it holds
    alloc,     \* the nodes that are allocated
    \* struct Async
    tasks,     \* first node of the queue
    pool,      \* first node of the free list
    pos,       \* the node whose next field async->pos points at
    pipe,      \* unread bytes in the wakeup pipe
    run,
    count,     \* threads created so far
    \* the threads
    pc,
    ret,       \* where perform_tasks returns to
    cur,       \* the container c of perform_tasks
    failed,    \* async_create is on its error path
    \* history: what TaskQueue speaks about
    submitted,
    begun,
    finished

heap == <<next, arg, alloc>>
lists == <<tasks, pool, pos>>
threads == <<pc, ret, cur>>
history == <<submitted, begun, finished>>
vars == <<heap, lists, pipe, run, count, threads, failed, history>>

OwnerPC == {"create", "run", "wake", "signal", "signalled", "join",
            "grab", "task", "destroy", "gone"}
WorkerPC == {"none", "check", "read", "grab", "task", "exit"}

\* The nodes reached from n along next: the smallest closed set that has n.
Chain(n) ==
    {m \in Node : \A S \in SUBSET Node :
        (n \in S /\ \A x \in S : next[x] \in S \cup {NULL}) => m \in S}

\* write(2) on the non-blocking pipe: n bytes or, when they do not fit, none.
Overfull(n) == pipe + n   \* mutant: a write that never fails

PipeAfter(n) == IF pipe + n <= PipeCap THEN pipe + n ELSE pipe

-----------------------------------------------------------------------------
\* async_create before its loop.  pos is not initialised: any value.
Init ==
    /\ next = [n \in Node |-> NULL]
    /\ arg = [n \in Node |-> 0]
    /\ alloc = {}
    /\ tasks = NULL
    /\ pool = NULL
    /\ pos \in Node \cup {NULL}
    /\ pipe = 0
    /\ run = TRUE
    /\ count = 0
    /\ pc = [t \in Thread |-> IF t = Owner THEN "create" ELSE "none"]
    /\ ret = [t \in Thread |-> "check"]
    /\ cur = [t \in Thread |-> NULL]
    /\ failed = FALSE
    /\ submitted = 0
    /\ begun = 0
    /\ finished = {}

\* One iteration of the creation loop; the last one returns to the caller.
CreateThread ==
    /\ pc[Owner] = "create"
    /\ count' = count + 1
    /\ pc' = [pc EXCEPT ![count + 1] = "check",
                        ![Owner] = IF count + 1 = Threads THEN "run" ELSE "create"]
    /\ UNCHANGED <<heap, lists, pipe, run, ret, cur, failed, history>>

\* pthread_create fails: shut down the threads that exist, return NULL.
CreateFails ==
    /\ pc[Owner] = "create"
    /\ failed' = TRUE
    /\ run' = FALSE
    /\ pc' = [pc EXCEPT ![Owner] = "signal"]
    /\ UNCHANGED <<heap, lists, pipe, count, ret, cur, history>>

-----------------------------------------------------------------------------
\* async_run up to the unlock: a container from the pool or from malloc,
\* linked at the tail.  A caller may submit before or after Async.signal.
StalePos(c) ==   \* mutant: pos is set only when the queue was empty
    /\ next' = IF tasks = NULL THEN [next EXCEPT ![c] = NULL]
               ELSE [next EXCEPT ![c] = NULL, ![pos] = c]
    /\ tasks' = IF tasks = NULL THEN c ELSE tasks
    /\ pos' = IF tasks = NULL THEN c ELSE pos

LinkAtHead(c) ==   \* mutant: last in, first out
    /\ next' = [next EXCEPT ![c] = tasks]
    /\ tasks' = c
    /\ pos' = c

Link(c) ==
    /\ next' = IF tasks = NULL THEN [next EXCEPT ![c] = NULL]
               ELSE [next EXCEPT ![c] = NULL, ![pos] = c]
    /\ tasks' = IF tasks = NULL THEN c ELSE tasks
    /\ pos' = c

Submit(c) ==
    /\ pc[Owner] \in {"run", "signalled"}
    /\ ~failed
    /\ submitted < MaxTasks
    /\ \/ /\ pool # NULL
          /\ c = pool
          /\ pool' = next[pool]
          /\ UNCHANGED alloc
       \/ /\ pool = NULL
          /\ c \in Node \ alloc
          /\ alloc' = alloc \cup {c}
          /\ UNCHANGED pool
    /\ arg' = [arg EXCEPT ![c] = submitted + 1]
    /\ Link(c)
    /\ submitted' = submitted + 1
    /\ ret' = [ret EXCEPT ![Owner] = pc[Owner]]
    /\ pc' = [pc EXCEPT ![Owner] = "wake"]
    /\ UNCHANGED <<pipe, run, count, cur, failed, begun, finished>>

\* async_run after the unlock: one wakeup byte; the result is not looked at.
NoWake ==   \* mutant: the queue is linked but nobody is woken
    /\ pc[Owner] = "wake"
    /\ pc' = [pc EXCEPT ![Owner] = ret[Owner]]
    /\ UNCHANGED <<heap, lists, pipe, run, count, ret, cur, failed, history>>

Wake ==
    /\ pc[Owner] = "wake"
    /\ pipe' = PipeAfter(1)
    /\ pc' = [pc EXCEPT ![Owner] = ret[Owner]]
    /\ UNCHANGED <<heap, lists, run, count, ret, cur, failed, history>>

-----------------------------------------------------------------------------
\* async_signal: the flag, then one byte per thread.
FlagNotCleared ==   \* mutant: wakes the threads without telling them to stop
    /\ pc[Owner] = "run"
    /\ pc' = [pc EXCEPT ![Owner] = "signal"]
    /\ UNCHANGED <<heap, lists, pipe, run, count, ret, cur, failed, history>>

SignalFlag ==
    /\ pc[Owner] = "run"
    /\ run' = FALSE
    /\ pc' = [pc EXCEPT ![Owner] = "signal"]
    /\ UNCHANGED <<heap, lists, pipe, count, ret, cur, failed, history>>

OneSignalByte ==   \* mutant: one byte however many threads there are
    /\ pc[Owner] = "signal"
    /\ pipe' = PipeAfter(1)
    /\ pc' = [pc EXCEPT ![Owner] = "signalled"]
    /\ UNCHANGED <<heap, lists, run, count, ret, cur, failed, history>>

SignalBytes ==
    /\ pc[Owner] = "signal"
    /\ pipe' = PipeAfter(count)
    /\ pc' = [pc EXCEPT ![Owner] = "signalled"]
    /\ UNCHANGED <<heap, lists, run, count, ret, cur, failed, history>>

\* async_wait: one more byte per thread ("just in case") ...
WaitBytes ==
    /\ pc[Owner] = "signalled"
    /\ pipe' = PipeAfter(count)
    /\ pc' = [pc EXCEPT ![Owner] = "join"]
    /\ UNCHANGED <<heap, lists, run, count, ret, cur, failed, history>>

\* ... every thread joined, then perform_tasks by the owner itself.
Join ==
    /\ pc[Owner] = "join"
    /\ \A w \in 1..count : pc[w] = "exit"
    /\ pc' = [pc EXCEPT ![Owner] = "grab"]
    /\ ret' = [ret EXCEPT ![Owner] = "destroy"]
    /\ UNCHANGED <<heap, lists, pipe, run, count, cur, failed, history>>

\* async_destroy: free both lists, close the pipe.
FreeQueueOnly ==   \* mutant: forgets the free list
    /\ pc[Owner] = "destroy"
    /\ alloc' = alloc \ UNION {Chain(n) : n \in {tasks} \ {NULL}}
    /\ tasks' = NULL
    /\ pool' = NULL
    /\ pos' = NULL
    /\ pipe' = 0
    /\ pc' = [pc EXCEPT ![Owner] = "gone"]
    /\ UNCHANGED <<next, arg, run, count, ret, cur, failed, history>>

Destroy ==
    /\ pc[Owner] = "destroy"
    /\ alloc' = alloc \ UNION {Chain(n) : n \in {tasks, pool} \ {NULL}}
    /\ tasks' = NULL
    /\ pool' = NULL
    /\ pos' = NULL
    /\ pipe' = 0
    /\ pc' = [pc EXCEPT ![Owner] = "gone"]
    /\ UNCHANGED <<next, arg, run, count, ret, cur, failed, history>>

-----------------------------------------------------------------------------
\* The test of async->run that opens the worker's loop.
CheckRun(w) ==
    /\ pc[w] = "check"
    /\ pc' = [pc EXCEPT ![w] = IF run THEN "read" ELSE "grab"]
    /\ ret' = [ret EXCEPT ![w] = IF run THEN "check" ELSE "exit"]
    /\ UNCHANGED <<heap, lists, pipe, run, count, cur, failed, history>>

\* The blocking read of one wakeup byte.
ReadByte(w) ==
    /\ pc[w] = "read"
    /\ pipe > 0
    /\ pipe' = pipe - 1
    /\ pc' = [pc EXCEPT ![w] = "grab"]
    /\ UNCHANGED <<heap, lists, run, count, ret, cur, failed, history>>

\* perform_tasks: the container of the previous task goes to the pool.
NotRecycled(c) == UNCHANGED <<next, pool>>   \* mutant: it is forgotten

Recycle(c) ==
    /\ next' = IF c = NULL THEN next ELSE [next EXCEPT ![c] = pool]
    /\ pool' = IF c = NULL THEN pool ELSE c

\* perform_tasks: the queue moves forward.
NotDequeued == UNCHANGED tasks   \* mutant: the first task stays in the queue

Dequeue == tasks' = IF tasks = NULL THEN NULL ELSE next'[tasks]

\* The critical section of perform_tasks, and its return when no task is left.
Grab(t) ==
    /\ pc[t] = "grab"
    /\ Recycle(cur[t])
    /\ Dequeue
    /\ cur' = [cur EXCEPT ![t] = tasks]
    /\ begun' = IF tasks = NULL THEN begun ELSE arg[tasks]
    /\ pc' = [pc EXCEPT ![t] = IF tasks = NULL THEN ret[t] ELSE "task"]
    /\ UNCHANGED <<arg, alloc, pos, pipe, run, count, ret, failed,
                   submitted, finished>>

\* c->task(c->arg), outside the lock.
Perform(t) ==
    /\ pc[t] = "task"
    /\ finished' = finished \cup {arg[cur[t]]}
    /\ pc' = [pc EXCEPT ![t] = "grab"]
    /\ UNCHANGED <<heap, lists, pipe, run, count, ret, cur, failed,
                   submitted, begun>>

\* Nothing is left to do; not a deadlock.
Terminated ==
    /\ pc[Owner] = "gone"
    /\ UNCHANGED vars

-----------------------------------------------------------------------------
OwnerStep ==
    \/ CreateThread \/ CreateFails
    \/ \E c \in Node : Submit(c)
    \/ Wake
    \/ SignalFlag \/ SignalBytes
    \/ WaitBytes \/ Join \/ Destroy

WorkerStep(w) == CheckRun(w) \/ ReadByte(w)

PoolStep(t) == Grab(t) \/ Perform(t)

Next ==
    \/ OwnerStep
    \/ \E w \in Workers : WorkerStep(w)
    \/ \E t \in Thread : PoolStep(t)
    \/ Terminated

Safety == Init /\ [][Next]_vars

\* The scheduler runs every thread that can run.  The owner need not submit
\* or shut down, but what it has begun it goes on with.
Spec ==
    /\ Safety
    /\ WF_vars(CreateThread) /\ WF_vars(Wake)
    /\ WF_vars(SignalBytes) /\ WF_vars(WaitBytes)
    /\ WF_vars(Join) /\ WF_vars(Destroy)
    /\ \A w \in Workers : WF_vars(WorkerStep(w))
    /\ \A t \in Thread : WF_vars(PoolStep(t))

-----------------------------------------------------------------------------
TypeOK ==
    /\ next \in [Node -> Node \cup {NULL}]
    /\ arg \in [Node -> 0..MaxTasks]
    /\ alloc \subseteq Node
    /\ tasks \in Node \cup {NULL}
    /\ pool \in Node \cup {NULL}
    /\ pos \in Node \cup {NULL}
    /\ pipe \in 0..PipeCap
    /\ run \in BOOLEAN
    /\ count \in 0..Threads
    /\ pc \in [Thread -> OwnerPC \cup WorkerPC]
    /\ ret \in [Thread -> {"check", "exit", "destroy", "run", "signalled"}]
    /\ cur \in [Thread -> Node \cup {NULL}]
    /\ failed \in BOOLEAN
    /\ submitted \in 0..MaxTasks
    /\ begun \in 0..MaxTasks
    /\ finished \subseteq 0..MaxTasks

-----------------------------------------------------------------------------
\* The allocated nodes, apart: waiting in the queue, held by a thread, free.
Waiting == {n \in alloc : arg[n] > begun}
Held == {cur[t] : t \in Thread} \ {NULL}
Free == alloc \ (Waiting \cup Held)

\* The queue (cgi_async.c:93-101, 125-129) is one list in submission order:
\* tasks points at the oldest waiting task, each node at the next younger one,
\* pos at the last.  A stale pos would link a task to a recycled container.
QueueShape ==
    /\ tasks = NULL <=> begun = submitted
    /\ tasks # NULL => /\ tasks \in Waiting /\ arg[tasks] = begun + 1
                       /\ pos \in Waiting /\ arg[pos] = submitted
    /\ \A n \in Waiting :
          IF arg[n] = submitted
          THEN next[n] = NULL
          ELSE next[n] \in Waiting /\ arg[next[n]] = arg[n] + 1
    /\ \A m, n \in Waiting : arg[m] = arg[n] => m = n

\* The free list (cgi_async.c:83-85, 121-124) holds every free node exactly
\* once and no node that is waiting or held: it starts at pool, no two nodes
\* share a successor, and no part of it is cut off from pool.
PoolShape ==
    /\ pool \in Free \cup {NULL}
    /\ pool = NULL <=> Free = {}
    /\ \A n \in Free : next[n] \in (Free \cup {NULL}) \ {pool}
    /\ \A m, n \in Free : next[m] = next[n] => m = n
    /\ \A S \in SUBSET Free : S # {} =>
          \E n \in S : n = pool \/ \E m \in Free \ S : next[m] = n

\* perform_tasks calls every task once (cgi_async.c:132): a task a thread is
\* about to call has been called by nobody and by no other thread.
RunsOnce ==
    \A t \in Thread : pc[t] = "task" =>
        /\ cur[t] \in alloc
        /\ arg[cur[t]] \in (1..begun) \ finished
        /\ \A s \in Thread : cur[s] = cur[t] => s = t

\* The byte is written after the unlock (cgi_async.c:102-109) and may find the
\* pipe full: while a task waits, a byte is unread, or about to be written, or
\* a thread is still going round perform_tasks.
NoLostWakeup ==
    tasks # NULL =>
        \/ pipe > 0
        \/ pc[Owner] = "wake"
        \/ \E t \in Thread : pc[t] \in {"grab", "task"}

Readers == {w \in Workers : pc[w] = "read"}

\* async_signal writes its bytes all or nothing to a pipe that may be filled
\* by unread wakeups (cgi_async.c:157-163): afterwards there is a byte for
\* every thread that is or still gets blocked in read.
ShutdownWakesAll ==
    ~run /\ pc[Owner] # "signal" => Cardinality(Readers) <= pipe

\* async_wait (cgi_async.c:165-182) leaves nothing behind: when the pool is
\* gone every accepted task has run, every thread has exited and every node
\* has been freed.
NothingLeft ==
    pc[Owner] = "gone" =>
        /\ finished = 1..submitted
        /\ \A w \in 1..count : pc[w] = "exit"
        /\ alloc = {}

\* The pool implements the task queue of TaskQueue, its liveness included.
TQ == INSTANCE TaskQueue WITH Workers <- Threads, closed <- pc[Owner] = "gone"

ImplementsTaskQueue == TQ!Spec

\* Async.finish returns (cgi_async.c:184-188): no thread stays blocked in read
\* and no join waits for ever.
FinishReturns == (pc[Owner] = "signal") ~> (pc[Owner] = "gone")
=============================================================================
