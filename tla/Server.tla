------------------------------- MODULE Server -------------------------------
(***************************************************************************)
(* The event loop of src/cgi_event_dispatcher.c over the thread pool of    *)
(* src/cgi_async.c: Dispatcher with the pool that TaskQueue promises, and  *)
(* Async is shown to be, in place of a queue of its own.  Async.run hands  *)
(* handle and a connection to the pool, a worker that begins a task runs   *)
(* handle to its end, and Async.finish returns when the pool has closed.   *)
(*                                                                         *)
(* Everything but these four meetings is Dispatcher's.  The pool knows     *)
(* tasks by number only; args has the connection of each.                  *)
(***************************************************************************)
EXTENDS Naturals, Sequences, FiniteSets

CONSTANTS Client, Worker, FDs, MaxRequests, TimerOn, Punctual, Hups, NULL

VARIABLES
    \* Dispatcher's, but for its queue
    phase, sent, fin, got,
    inbuf, backlog, edge, sock, reg, timerDue, sigpipe, sigEdge, sigsLeft,
    linger, idle, isconn,
    dpc, batch, cfd, trigger, stop,
    wpc, wfd, wreq,
    \* the pool's
    submitted, begun, finished, closed,
    args,   \* the connections given to Async.run, in order
    wtask   \* the task a worker is running, or 0

clients == <<phase, sent, fin, got>>
kernel == <<inbuf, backlog, edge, sock, reg, timerDue, sigpipe, sigEdge, sigsLeft>>
conns == <<linger, idle, isconn>>
loop == <<dpc, batch, cfd, trigger, stop>>
workers == <<wpc, wfd, wreq>>
pool == <<submitted, begun, finished, closed, args, wtask>>

\* The tasks the pool has accepted and not begun.
Waiting == SubSeq(args, begun + 1, submitted)

Loop == INSTANCE Dispatcher WITH queue <- Waiting

Workers == Cardinality(Worker)
MaxTasks == Cardinality(Client) * MaxRequests   \* bound: one task per request
Pool == INSTANCE TaskQueue

vars == <<clients, kernel, conns, loop, workers, pool>>

Init ==
    /\ Pool!Init
    /\ args = <<>>
    /\ wtask = [w \in Worker |-> 0]
    /\ Loop!Init

-----------------------------------------------------------------------------
\* Async.run(handle, connections + fd).
Run(fd) ==
    /\ dpc = "batch"
    /\ Loop!ConnEvent("in", fd) \in batch
    /\ batch' = batch \ {Loop!ConnEvent("in", fd)}
    /\ Pool!Submit
    /\ args' = Append(args, fd)
    /\ UNCHANGED <<clients, kernel, conns, dpc, cfd, trigger, stop,
                   workers, wtask>>

\* c->task(c->arg): a worker of the pool enters handle ...
Enter(w) ==
    /\ wpc[w] = "idle"
    /\ Pool!Begin
    /\ wtask' = [wtask EXCEPT ![w] = begun + 1]
    /\ wfd' = [wfd EXCEPT ![w] = args[begun + 1]]
    /\ wpc' = [wpc EXCEPT ![w] = "recv"]
    /\ UNCHANGED <<clients, kernel, conns, loop, wreq, args>>

\* ... and returns from it.
Return(w) ==
    /\ Pool!Finish(wtask[w])
    /\ wtask' = [wtask EXCEPT ![w] = 0]
    /\ args' = args
    /\ Loop!Stamp(w) \/ Loop!ClearConn(w)

NotJoined ==   \* mutant: the pool is taken down without waiting for its threads
    /\ dpc = "finish"
    /\ closed' = TRUE
    /\ dpc' = "stopped"
    /\ UNCHANGED <<clients, kernel, conns, batch, cfd, trigger, stop, workers,
                   submitted, begun, finished, args, wtask>>

\* Async.finish, at the end of the loop.
Stop ==
    /\ dpc = "finish"
    /\ Pool!Close
    /\ dpc' = "stopped"
    /\ UNCHANGED <<clients, kernel, conns, batch, cfd, trigger, stop,
                   workers, args, wtask>>

-----------------------------------------------------------------------------
\* The steps that have nothing to do with the pool.
Dispatch ==
    /\ UNCHANGED pool
    /\ \/ Loop!EpollWait
       \/ Loop!AcceptBegin \/ (\E fd \in Loop!FD : Loop!AcceptConn(fd))
       \/ Loop!InitConn \/ Loop!AcceptEnd
       \/ Loop!HandleTimer \/ Loop!HandleSignal
       \/ \E fd \in Loop!FD : Loop!HandleHup(fd)
       \/ Loop!BatchEnd
       \/ Loop!SweepPass \/ Loop!SweepFind \/ Loop!SweepClose \/ Loop!SweepReset

Handle(w) ==
    /\ UNCHANGED pool
    /\ \/ Loop!RecvRequest(w) \/ Loop!RecvNothing(w) \/ Loop!Process(w)
       \/ Loop!SendResponse(w) \/ Loop!Decide(w)
       \/ Loop!Rearm(w) \/ Loop!CloseConn(w)

Environment == UNCHANGED pool /\ Loop!Environment

DispatcherStep == Dispatch \/ (\E fd \in Loop!FD : Run(fd)) \/ Stop

WorkerStep(w) == Enter(w) \/ Handle(w) \/ Return(w)

Next ==
    \/ Environment
    \/ DispatcherStep
    \/ \E w \in Worker : WorkerStep(w)
    \/ UNCHANGED pool /\ Loop!Stopped

Safety == Init /\ [][Next]_vars

\* As in Dispatcher.  That a worker begins the tasks that wait is TaskQueue's
\* promise.
Spec ==
    /\ Safety
    /\ WF_vars(DispatcherStep)
    /\ \A w \in Worker : WF_vars(WorkerStep(w))
    /\ WF_vars(UNCHANGED pool /\ Loop!Tick /\ ~timerDue)
    /\ \A fd \in Loop!FD : WF_vars(UNCHANGED pool /\ Loop!Age(fd))

-----------------------------------------------------------------------------
\* What the pool promises is what Dispatcher takes it to do
\* (cgi_event_dispatcher.c:380, 405; cgi_async.c:110, 128-140, 167-182).
ImplementsDispatcher == Loop!Safety

\* Every request of an accepted connection is answered, unless the client has
\* hung up or the server is told to stop (cgi_event_dispatcher.c:301-307).
Served == Loop!Served

\* A SIGTERM ends the server, the pool with it (cgi_event_dispatcher.c:370-373,
\* 405).
StopEnds == Loop!StopEnds
=============================================================================
