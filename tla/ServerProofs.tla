---------------------------- MODULE ServerProofs ----------------------------
(***************************************************************************)
(* Server implements Dispatcher, for any clients, workers, descriptors and *)
(* bounds: what Dispatcher takes the pool to do is what TaskQueue promises,*)
(* and AsyncProofs shows of src/cgi_async.c.  The invariant ties the pool's*)
(* numbers to the threads: a worker inside handle holds a task that has    *)
(* begun and not finished, and no two hold the same.                       *)
(***************************************************************************)
EXTENDS Server, SequenceTheorems, TLAPS

Label == Loop!Serving \cup {"idle", "stamp", "clear"}

\* The numbers of the pool count the arguments it was given.
Counted ==
    /\ submitted \in Nat /\ begun \in 0..submitted
    /\ args \in Seq(Loop!FD) /\ Len(args) = submitted
    /\ finished \subseteq 1..begun

\* Who is in handle has a task of its own.
Held ==
    /\ wpc \in [Worker -> Label] /\ wtask \in [Worker -> Nat]
    /\ \A w \in Worker : wpc[w] # "idle" => wtask[w] \in Pool!Running
    /\ \A v, w \in Worker :
          wpc[v] # "idle" /\ wpc[w] # "idle" /\ wtask[v] = wtask[w] => v = w

Meeting == Counted /\ Held

\* At the start there are no tasks.
LEMMA MeetingInit ==
    Init => Meeting
<1> SUFFICES ASSUME Init PROVE Meeting
  OBVIOUS
<1>1. Counted
  BY EmptySeq DEF Init, Pool!Init, Counted
<1>2. Held
  BY DEF Init, Loop!Init, Held, Label
<1> QED BY <1>1, <1>2 DEF Meeting

\* Steps that the pool and the threads' places are no part of.
LEMMA MeetingKept ==
    ASSUME Meeting, UNCHANGED pool, wpc' = wpc
    PROVE  Meeting'
BY DEF Meeting, Counted, Held, Pool!Running, pool

\* A thread stays inside handle.
LEMMA MeetingHandle ==
    ASSUME Meeting, NEW w \in Worker, UNCHANGED pool, wpc[w] # "idle",
           NEW l \in Label \ {"idle"}, wpc' = [wpc EXCEPT ![w] = l]
    PROVE  Meeting'
<1>1. Counted'
  BY DEF Meeting, Counted, pool
<1>2. Held'
  <2>1. wpc' \in [Worker -> Label] /\ \A v \in Worker : wpc'[v] # "idle" <=> wpc[v] # "idle"
    BY DEF Meeting, Held
  <2> QED BY <2>1 DEF Meeting, Held, Pool!Running, pool
<1> QED BY <1>1, <1>2 DEF Meeting

\* Async.run: one number, one argument more.
LEMMA MeetingRun ==
    ASSUME Meeting, NEW fd \in Loop!FD, Run(fd)
    PROVE  Meeting'
<1>1. /\ submitted' = submitted + 1 /\ UNCHANGED <<begun, finished, wpc, wtask>>
      /\ args' = Append(args, fd)
  BY DEF Run, Pool!Submit, workers
<1>2. Counted'
  BY <1>1, AppendProperties DEF Meeting, Counted
<1>3. Held'
  BY <1>1 DEF Meeting, Held, Pool!Running
<1> QED BY <1>2, <1>3 DEF Meeting

\* The task a worker begins is nobody else's.
LEMMA MeetingEnter ==
    ASSUME Meeting, NEW w \in Worker, Enter(w)
    PROVE  Meeting'
<1>1. /\ wpc[w] = "idle" /\ begun < submitted /\ begun' = begun + 1
      /\ UNCHANGED <<submitted, finished, args>>
      /\ wtask' = [wtask EXCEPT ![w] = begun + 1] /\ wpc' = [wpc EXCEPT ![w] = "recv"]
  BY DEF Enter, Pool!Begin
<1>2. Counted'
  BY <1>1 DEF Meeting, Counted
<1>3. begun + 1 \in Pool!Running' /\ Pool!Running \subseteq Pool!Running'
      /\ begun + 1 \notin Pool!Running
  BY <1>1 DEF Meeting, Counted, Pool!Running
<1>4. Held'
  <2>1. wpc' \in [Worker -> Label] /\ wtask' \in [Worker -> Nat]
    BY <1>1 DEF Meeting, Held, Counted, Label, Loop!Serving
  <2>2. /\ wpc'[w] = "recv" /\ wtask'[w] = begun + 1
        /\ \A v \in Worker \ {w} : wpc'[v] = wpc[v] /\ wtask'[v] = wtask[v]
    BY <1>1 DEF Meeting, Held
  <2> QED BY <1>3, <2>1, <2>2 DEF Meeting, Held
<1> QED BY <1>2, <1>4 DEF Meeting

\* The task a worker ends is nobody else's.
LEMMA MeetingReturn ==
    ASSUME Meeting, NEW w \in Worker, Return(w)
    PROVE  Meeting'
<1>1. /\ wpc[w] # "idle" /\ wpc' = [wpc EXCEPT ![w] = "idle"]
      /\ finished' = finished \cup {wtask[w]} /\ wtask[w] \in Pool!Running
      /\ wtask' = [wtask EXCEPT ![w] = 0]
      /\ UNCHANGED <<submitted, begun, args>>
  BY DEF Return, Pool!Finish, Loop!Stamp, Loop!ClearConn, Loop!Goto
<1>2. Counted'
  BY <1>1 DEF Meeting, Counted, Pool!Running
<1>3. Held'
  <2>1. wpc' \in [Worker -> Label] /\ wtask' \in [Worker -> Nat]
    BY <1>1 DEF Meeting, Held, Label
  <2>2. /\ wpc'[w] = "idle"
        /\ \A v \in Worker \ {w} : wpc'[v] = wpc[v] /\ wtask'[v] = wtask[v]
    BY <1>1 DEF Meeting, Held
  <2>3. Pool!Running' = Pool!Running \ {wtask[w]}
    BY <1>1 DEF Pool!Running
  <2> QED BY <1>1, <2>1, <2>2, <2>3 DEF Meeting, Held
<1> QED BY <1>2, <1>3 DEF Meeting

\* Every step keeps the invariant.
LEMMA MeetingNext ==
    ASSUME Meeting, [Next]_vars
    PROVE  Meeting'
<1>1. CASE Environment
  <2>1. UNCHANGED pool /\ wpc' = wpc
    BY <1>1 DEF Environment, Loop!Environment, Loop!Connect, Loop!Shutdown, Loop!Reset,
           Loop!SendRequest, Loop!Tick, Loop!Age, Loop!Raise, Loop!workers
  <2> QED BY <2>1, MeetingKept
<1>2. CASE Dispatch
  <2>1. UNCHANGED pool /\ wpc' = wpc
    BY <1>2 DEF Dispatch, Loop!EpollWait, Loop!AcceptBegin, Loop!AcceptConn, Loop!InitConn,
           Loop!AcceptEnd, Loop!HandleTimer, Loop!HandleSignal, Loop!HandleHup, Loop!BatchEnd,
           Loop!SweepPass, Loop!SweepFind, Loop!SweepClose, Loop!SweepReset, Loop!workers
  <2> QED BY <2>1, MeetingKept
<1>3. ASSUME NEW fd \in Loop!FD, Run(fd) PROVE Meeting'
  BY <1>3, MeetingRun
<1>4. CASE Stop
  BY <1>4 DEF Stop, Pool!Close, Pool!Running, workers, Meeting, Counted, Held
<1>5. ASSUME NEW w \in Worker, Enter(w) PROVE Meeting'
  BY <1>5, MeetingEnter
<1>6. ASSUME NEW w \in Worker, Handle(w) PROVE Meeting'
  <2>1. UNCHANGED pool /\ wpc[w] # "idle"
    BY <1>6 DEF Handle, Loop!RecvRequest, Loop!RecvNothing, Loop!Process, Loop!SendResponse,
           Loop!Decide, Loop!Rearm, Loop!CloseConn
  <2>2. \E l \in Label \ {"idle"} : wpc' = [wpc EXCEPT ![w] = l]
    BY <1>6 DEF Handle, Loop!RecvRequest, Loop!RecvNothing, Loop!Process, Loop!SendResponse,
           Loop!Decide, Loop!Rearm, Loop!CloseConn, Loop!Goto, Label, Loop!Serving
  <2> QED BY <2>1, <2>2, MeetingHandle
<1>7. ASSUME NEW w \in Worker, Return(w) PROVE Meeting'
  BY <1>7, MeetingReturn
<1>8. CASE UNCHANGED pool /\ Loop!Stopped
  <2>1. wpc' = wpc
    BY <1>8 DEF Loop!Stopped, Loop!vars, Loop!workers
  <2> QED BY <1>8, <2>1, MeetingKept
<1>9. CASE UNCHANGED vars
  BY <1>9, MeetingKept DEF vars, workers
<1> QED BY <1>1, <1>2, <1>3, <1>4, <1>5, <1>6, <1>7, <1>8, <1>9
       DEF Next, DispatcherStep, WorkerStep

-----------------------------------------------------------------------------
(* The meetings of Server are the queue operations of Dispatcher.          *)

\* Async.run appends to the tasks that wait.
LEMMA RunIsHandleIn ==
    ASSUME Meeting, NEW fd \in Loop!FD, Run(fd)
    PROVE  Loop!HandleIn(fd)
<1>1. /\ submitted' = submitted + 1 /\ begun' = begun /\ args' = Append(args, fd)
  BY DEF Run, Pool!Submit
<1>2. /\ submitted \in Nat /\ begun \in 0..submitted
      /\ args \in Seq(Loop!FD) /\ Len(args) = submitted
  BY DEF Meeting, Counted
<1>3. /\ args' \in Seq(Loop!FD) /\ Len(args') = submitted + 1
      /\ \A i \in 1..submitted : args'[i] = args[i]
      /\ args'[submitted + 1] = fd
  BY <1>1, <1>2, AppendProperties
<1>4. /\ Waiting \in Seq(Loop!FD) /\ Len(Waiting) = submitted - begun
      /\ \A i \in 1..(submitted - begun) : Waiting[i] = args[begun + i]
  BY <1>2, SubSeqProperties DEF Waiting
<1>5. /\ Waiting' \in Seq(Loop!FD) /\ Len(Waiting') = submitted + 1 - begun
      /\ \A i \in 1..(submitted + 1 - begun) : Waiting'[i] = args'[begun + i]
  <2>1. Waiting' = SubSeq(args', begun + 1, submitted + 1)
    BY <1>1 DEF Waiting
  <2> QED BY SMTT(30), <1>2, <1>3, <2>1, SubSeqProperties
<1>6. /\ Append(Waiting, fd) \in Seq(Loop!FD)
      /\ Len(Append(Waiting, fd)) = submitted + 1 - begun
      /\ \A i \in 1..(submitted - begun) : Append(Waiting, fd)[i] = Waiting[i]
      /\ Append(Waiting, fd)[submitted + 1 - begun] = fd
  BY <1>2, <1>4, AppendProperties
<1>7. Waiting' = Append(Waiting, fd)
  <2>1. \A i \in 1..(submitted + 1 - begun) : Waiting'[i] = Append(Waiting, fd)[i]
    BY <1>2, <1>3, <1>4, <1>5, <1>6
  <2> QED BY <1>5, <1>6, <2>1, SeqEqual
<1> QED BY <1>7 DEF Run, Loop!HandleIn, clients, kernel, conns, workers, Loop!clients,
       Loop!kernel, Loop!conns, Loop!workers

\* The task a worker begins is the first that waits.
LEMMA EnterIsTake ==
    ASSUME Meeting, NEW w \in Worker, Enter(w)
    PROVE  Loop!Take(w)
<1>1. /\ begun < submitted /\ begun' = begun + 1 /\ UNCHANGED <<submitted, args>>
      /\ wfd' = [wfd EXCEPT ![w] = args[begun + 1]]
  BY DEF Enter, Pool!Begin
<1>2. /\ submitted \in Nat /\ begun \in 0..submitted
      /\ args \in Seq(Loop!FD) /\ Len(args) = submitted
  BY DEF Meeting, Counted
<1>3. Head(Waiting) = args[begun + 1] /\ Tail(Waiting) = SubSeq(args, begun + 2, submitted)
  BY <1>1, <1>2, HeadTailOfSubSeq DEF Waiting
<1>4. Waiting' = SubSeq(args, begun + 2, submitted)
  BY <1>1, <1>2 DEF Waiting
<1>5. Waiting # <<>>
  <2>1. Len(Waiting) = submitted - begun
    BY <1>1, <1>2, SubSeqProperties DEF Waiting
  <2> QED BY <1>1, <1>2, <2>1
<1> QED BY <1>1, <1>3, <1>4, <1>5 DEF Enter, Loop!Take, Loop!Goto, clients, kernel, conns, loop,
       Loop!clients, Loop!kernel, Loop!conns, Loop!loop

\* The pool closes when nothing waits and no worker is in handle.
LEMMA StopIsFinish ==
    ASSUME Meeting, Stop
    PROVE  Loop!Finish
<1>1. finished = 1..submitted /\ UNCHANGED <<submitted, begun, args>>
  BY DEF Stop, Pool!Close
<1>2. /\ submitted \in Nat /\ begun \in 0..submitted /\ args \in Seq(Loop!FD)
      /\ Len(args) = submitted
      /\ finished \subseteq 1..begun
  BY DEF Meeting, Counted
<1>3. begun = submitted
  <2>1. submitted \in 1..submitted \/ submitted = 0
    BY <1>2
  <2> QED BY <1>1, <1>2, <2>1
<1>4. Waiting = <<>> /\ Waiting' = Waiting
  <2>1. Waiting = <<>>
    BY <1>2, <1>3, SubSeqEmpty DEF Waiting
  <2> QED BY <1>1, <2>1 DEF Waiting
<1>5. \A w \in Worker : wpc[w] = "idle"
  BY <1>1, <1>3 DEF Meeting, Held, Pool!Running
<1> QED BY <1>4, <1>5 DEF Stop, Loop!Finish, clients, kernel, conns, workers, Loop!clients,
       Loop!kernel, Loop!conns, Loop!workers

\* Every step of Server is one of Dispatcher.
LEMMA StepIsStep ==
    ASSUME Meeting, [Next]_vars
    PROVE  [Loop!Next]_(Loop!vars)
<1>1. CASE Environment
  BY <1>1 DEF Environment, Loop!Next
<1>2. CASE Dispatch
  BY <1>2 DEF Dispatch, Loop!Next, Loop!DispatcherStep
<1>3. ASSUME NEW fd \in Loop!FD, Run(fd) PROVE Loop!Next
  BY <1>3, RunIsHandleIn DEF Loop!Next, Loop!DispatcherStep
<1>4. CASE Stop
  BY <1>4, StopIsFinish DEF Loop!Next, Loop!DispatcherStep
<1>5. ASSUME NEW w \in Worker, WorkerStep(w) PROVE Loop!Next
  <2>1. CASE Enter(w)
    BY <2>1, EnterIsTake DEF Loop!Next, Loop!WorkerStep
  <2>2. CASE Handle(w)
    BY <2>2 DEF Handle, Loop!Next, Loop!WorkerStep
  <2>3. CASE Return(w)
    BY <2>3 DEF Return, Loop!Next, Loop!WorkerStep
  <2> QED BY <1>5, <2>1, <2>2, <2>3 DEF WorkerStep
<1>6. CASE UNCHANGED pool /\ Loop!Stopped
  BY <1>6 DEF Loop!Next
<1>7. CASE UNCHANGED vars
  <2>1. Waiting' = Waiting
    BY <1>7 DEF vars, pool, Waiting
  <2> QED BY <1>7, <2>1 DEF vars, clients, kernel, conns, loop, workers, Loop!vars,
         Loop!clients, Loop!kernel, Loop!conns, Loop!loop, Loop!workers
<1> QED BY <1>1, <1>2, <1>3, <1>4, <1>5, <1>6, <1>7 DEF Next, DispatcherStep

-----------------------------------------------------------------------------
\* The event loop over the pool that Async is shown to be behaves as Dispatcher
\* says, up to liveness (cgi_event_dispatcher.c:380, 405): what DispatcherProofs
\* shows of Dispatcher holds of the two together.
THEOREM ServerImplementsDispatcher == Safety => ImplementsDispatcher
<1>1. Init => Loop!Init
  BY DEF Init
<1>2. Meeting /\ [Next]_vars => [Loop!Next]_(Loop!vars)
  BY StepIsStep
<1>3. Meeting /\ [Next]_vars => Meeting'
  BY MeetingNext
<1> QED BY <1>1, <1>2, <1>3, MeetingInit, PTL DEF Safety, ImplementsDispatcher, Loop!Safety
=============================================================================
