-------------------------- MODULE DispatcherProofs --------------------------
(***************************************************************************)
(* The invariants of Dispatcher, for any clients, workers, descriptors and *)
(* bounds.                                                                 *)
(*                                                                         *)
(* Control says where the loop is and what it holds there; it needs no     *)
(* assumption.  Ownership is the heart: of a connection's event, queued    *)
(* task and serving worker there is at most one, while there is one the    *)
(* connection is open and its registration cannot fire, and a registration *)
(* that has fired has one.  Workers and dispatcher pass the ownership on,  *)
(* or let go of it by re-arming or closing.  What the sweep closes has no  *)
(* owner only if no request comes after the idle time: Ownership is        *)
(* invariant when the timer is off or the clients are punctual.  Outcome,  *)
(* that answers reach their requester and slots follow sockets, follows    *)
(* from it step by step.                                                   *)
(***************************************************************************)
EXTENDS Dispatcher, SequenceTheorems, FiniteSetTheorems, TLAPS

-----------------------------------------------------------------------------
(* The inductive invariant.                                                *)

InEvents == {fd \in FD : ConnEvent("in", fd) \in batch}
HupEvents == {fd \in FD : ConnEvent("hup", fd) \in batch}
Queued == {queue[i] : i \in DOMAIN queue}
Serves(w, fd) == wfd[w] = fd /\ wpc[w] \in Serving

\* Owners(fd) # {}, without the identity of the owner.
Owned(fd) == fd \in InEvents \/ fd \in Queued \/ \E w \in Worker : Serves(w, fd)

\* Where the dispatcher is in its turn, and what each of its states needs.
LoopOK ==
    /\ dpc \notin {"batch", "accept", "init"} => batch = {}
    /\ dpc \in {"init", "sweep", "close", "reset"} => cfd \in FD
    /\ \A w \in Worker : wpc[w] # "idle" => wfd[w] \in FD
    /\ \A w \in Worker : wpc[w] \in {"process", "send"} => wreq[w] \in Request

\* The byte that a signal event promises is in the pipe.
SignalOK ==
    /\ sigEdge => sigpipe # <<>>
    /\ SignalEvent \in batch => sigpipe # <<>>
    /\ sigEdge /\ SignalEvent \in batch => Tail(sigpipe) # <<>>

\* Event, task and worker exclude each other, and so do two of a kind.
Apart ==
    /\ \A i, j \in DOMAIN queue : queue[i] = queue[j] => i = j
    /\ InEvents \cap Queued = {}
    /\ \A w \in Worker, fd \in InEvents \cup Queued : ~Serves(w, fd)
    /\ \A v, w \in Worker, fd \in FD : Serves(v, fd) /\ Serves(w, fd) => v = w

\* While a connection is owned it is open and cannot fire.
HeldOK == \A fd \in FD : Owned(fd) => reg[fd] # "armed" /\ sock[fd] # NULL

\* A registration that fired has an owner or a hang-up in the batch ...
FiredOK == \A fd \in FD : reg[fd] = "fired" => Owned(fd) \/ fd \in HupEvents

\* ... and never both.
HupOK == \A fd \in HupEvents : ~Owned(fd)

\* A connection whose idle time has run out has no owner and gets none: the
\* clients are punctual.  Between accept and init the mark is an old one.
StaleOK ==
    \A fd \in FD : idle[fd] = "stale" =>
        /\ TimerOn
        /\ sock[fd] # NULL /\ ~(dpc = "init" /\ cfd = fd) =>
             ~Owned(fd) /\ inbuf[sock[fd]] = "none"

\* The dispatcher touches only connections without an owner.
AloneOK ==
    /\ dpc = "init" => ~Owned(cfd) /\ sock[cfd] # NULL
    /\ dpc = "close" => ~Owned(cfd)

\* The request a worker holds came through the descriptor it will answer on.
AnswerOK ==
    \A w \in Worker : wpc[w] \in {"process", "send"} => wreq[w].client = sock[wfd[w]]

Control == TypeOK /\ LoopOK /\ SignalOK

Ownership == Apart /\ HeldOK /\ FiredOK /\ HupOK /\ StaleOK /\ AloneOK

Outcome == AnswerOK /\ ResponseToRequester /\ NoGhostSlot

Inductive == Control /\ Ownership /\ Outcome

-----------------------------------------------------------------------------
(* Types and the turn of the loop.                                         *)

\* Descriptor numbers, and the sweep's next one.
LEMMA Descriptors ==
    /\ FD \subseteq Nat /\ NoFd \in Nat /\ NoFd \notin FD /\ 1 \in FD
    /\ \A fd \in FD : fd # FDs => fd + 1 \in FD
BY FDAssumption DEF FD, NoFd

\* Append keeps the type of a sequence and leaves it non-empty.
LEMMA PutTyped ==
    ASSUME NEW S, NEW q \in Seq(S), NEW e \in S
    PROVE  Append(q, e) \in Seq(S) /\ Append(q, e) # <<>>
BY AppendProperties

\* What is appended to a non-empty sequence is behind its head.
LEMMA PutBehind ==
    ASSUME NEW S, NEW q \in Seq(S), NEW e \in S, q # <<>>
    PROVE  Tail(Append(q, e)) # <<>>
<1>1. Len(q) \in Nat /\ Len(q) # 0
  BY LenProperties, EmptySeq
<1>2. Append(q, e) \in Seq(S) /\ Append(q, e) # <<>> /\ Len(Append(q, e)) = Len(q) + 1
  BY AppendProperties
<1>3. Len(Tail(Append(q, e))) = Len(q)
  BY <1>1, <1>2, HeadTailProperties
<1> QED BY <1>1, <1>3, EmptySeq

\* Head and Tail keep the type of a sequence.
LEMMA TakeTyped ==
    ASSUME NEW S, NEW q \in Seq(S), q # <<>>
    PROVE  Head(q) \in S /\ Tail(q) \in Seq(S)
BY HeadTailProperties

\* The server starts in control.
LEMMA ControlInit ==
    Init => Control
<1> SUFFICES ASSUME Init PROVE Control
  OBVIOUS
<1> USE DEF Init
<1>1. TypeOK
  <2>1. backlog \in Seq(Client) /\ sigpipe \in Seq(Signals) /\ queue \in Seq(FD)
    BY EmptySeq
  <2>2. sigsLeft \in [Signals -> Nat] /\ sent \in [Client -> 0..MaxRequests]
    BY BoundAssumption
  <2>3. /\ sock \in [FD -> Client \cup {NULL}] /\ reg \in [FD -> {"none", "armed", "fired"}]
        /\ linger \in [FD -> 0..1] /\ isconn \in [FD -> 0..1]
        /\ idle \in [FD -> {"unset", "fresh", "stale"}]
    OBVIOUS
  <2>4. /\ phase \in [Client -> {"new", "ready", "waiting", "ended"}]
        /\ fin \in [Client -> BOOLEAN]
        /\ got \in [Client -> SUBSET Client]
        /\ inbuf \in [Client -> Kind \cup {"none"}]
    OBVIOUS
  <2>5. /\ wpc \in [Worker -> Serving \cup {"idle", "stamp", "clear"}]
        /\ wfd \in [Worker -> FD \cup {NoFd}]
        /\ wreq \in [Worker -> Request \cup {NULL}]
    OBVIOUS
  <2> QED BY <2>1, <2>2, <2>3, <2>4, <2>5 DEF TypeOK
<1>2. LoopOK
  BY DEF LoopOK
<1>3. SignalOK
  BY DEF SignalOK
<1> QED BY <1>1, <1>2, <1>3 DEF Control

\* Clients, time and the operator leave the loop in control.
LEMMA ControlEnvironment ==
    ASSUME Control, Environment
    PROVE  Control'
<1> USE DEF Control, TypeOK, LoopOK, SignalOK
<1>1. ASSUME NEW c \in Client, Connect(c) PROVE Control'
  BY SMTT(30), <1>1, PutTyped DEF Connect, signals, conns, loop, workers
<1>2. ASSUME NEW c \in Client, Shutdown(c) PROVE Control'
  BY <1>2 DEF Shutdown, kernel, signals, conns, loop, workers
<1>3. ASSUME NEW c \in Client, Reset(c) PROVE Control'
  BY <1>3 DEF Reset, signals, conns, loop, workers
<1>4. ASSUME NEW c \in Client, NEW kind \in Kind, SendRequest(c, kind) PROVE Control'
  <2>1. sent' \in [Client -> 0..MaxRequests]
    BY SMTT(30), <1>4, BoundAssumption DEF SendRequest
  <2> QED BY SMTT(30), <1>4, <2>1 DEF SendRequest, signals, conns, loop, workers
<1>5. CASE Tick
  BY <1>5 DEF Tick, clients, signals, conns, loop, workers
<1>6. ASSUME NEW fd \in FD, Age(fd) PROVE Control'
  BY <1>6 DEF Age, clients, kernel, signals, loop, workers
<1>7. ASSUME NEW s \in Signals, Raise(s) PROVE Control'
  <2>1. sigsLeft' \in [Signals -> Nat]
    BY SMTT(30), <1>7 DEF Raise
  <2>2. sigpipe' \in Seq(Signals) /\ sigpipe' # <<>>
    BY <1>7, PutTyped DEF Raise
  <2>3. sigpipe # <<>> => Tail(sigpipe') # <<>>
    BY <1>7, PutBehind DEF Raise
  <2> QED BY SMTT(100), <1>7, <2>1, <2>2, <2>3 DEF Raise, clients, conns, loop, workers
<1> QED BY <1>1, <1>2, <1>3, <1>4, <1>5, <1>6, <1>7 DEF Environment

\* The dispatcher keeps control, wherever it is in its turn.
LEMMA ControlDispatcher ==
    ASSUME Control, DispatcherStep
    PROVE  Control'
<1> USE DEF Control, TypeOK, LoopOK, SignalOK
<1>1. CASE EpollWait
  <2>1. Reported \subseteq Event
    BY DEF Reported, Event
  <2>2. batch = {} /\ (SignalEvent \in Reported => sigEdge)
    BY <1>1 DEF EpollWait, Reported, SignalEvent, ListenEvent, TimerEvent
  <2> QED BY <1>1, <2>1, <2>2 DEF EpollWait, clients, conns, workers
<1>2. CASE AcceptBegin
  BY <1>2 DEF AcceptBegin, clients, kernel, signals, conns, workers
<1>3. ASSUME NEW fd \in FD, AcceptConn(fd) PROVE Control'
  BY <1>3, TakeTyped DEF AcceptConn, clients, signals, conns, workers
<1>4. CASE InitConn
  BY <1>4 DEF InitConn, clients, kernel, signals, workers
<1>5. CASE AcceptEnd
  BY <1>5 DEF AcceptEnd, clients, kernel, signals, conns, workers
<1>6. CASE HandleTimer
  BY <1>6 DEF HandleTimer, clients, signals, conns, workers
<1>7. CASE HandleSignal
  <2>1. sigpipe' \in Seq(Signals)
    BY <1>7, TakeTyped DEF HandleSignal
  <2>2. SignalEvent \notin batch'
    BY <1>7 DEF HandleSignal
  <2> QED BY <1>7, <2>1, <2>2 DEF HandleSignal, clients, conns, workers
<1>8. ASSUME NEW fd \in FD, HandleHup(fd) PROVE Control'
  BY <1>8 DEF HandleHup, clients, signals, conns, workers
<1>9. ASSUME NEW fd \in FD, HandleIn(fd) PROVE Control'
  BY <1>9, PutTyped DEF HandleIn, clients, kernel, signals, conns, workers
<1>10. CASE BatchEnd
  BY <1>10, Descriptors DEF BatchEnd, Turn, clients, kernel, signals, conns, workers
<1>11. CASE SweepPass
  BY <1>11, Descriptors DEF SweepPass, SweepNext, Turn, clients, kernel, signals, conns, workers
<1>12. CASE SweepFind
  BY <1>12 DEF SweepFind, clients, kernel, signals, conns, workers
<1>13. CASE SweepClose
  BY <1>13 DEF SweepClose, CloseFd, clients, signals, conns, workers
<1>14. CASE SweepReset
  BY SMTT(30), <1>14, Descriptors DEF SweepReset, SweepNext, Turn, clients, kernel, signals, workers
<1>15. CASE Finish
  BY <1>15 DEF Finish, clients, kernel, signals, conns, workers
<1> QED BY <1>1, <1>2, <1>3, <1>4, <1>5, <1>6, <1>7, <1>8, <1>9, <1>10, <1>11, <1>12,
           <1>13, <1>14, <1>15 DEF DispatcherStep

\* The steps of handle keep control.
LEMMA ControlWorker ==
    ASSUME Control, NEW w \in Worker, WorkerStep(w)
    PROVE  Control'
<1> USE DEF Control, TypeOK, LoopOK, SignalOK
<1>1. CASE Take(w)
  BY <1>1, TakeTyped DEF Take, Goto, Serving, clients, kernel, signals, conns, loop
<1>2. CASE RecvRequest(w)
  <2>1. sock[wfd[w]] \in Client
    BY <1>2 DEF RecvRequest
  <2>2. [client |-> sock[wfd[w]], kind |-> inbuf[sock[wfd[w]]]] \in Request
    BY <1>2, <2>1 DEF RecvRequest, Request
  <2> QED BY SMTT(30), <1>2, <2>1, <2>2
          DEF RecvRequest, Goto, Serving, clients, signals, conns, loop
<1>3. CASE RecvNothing(w)
  BY <1>3 DEF RecvNothing, Goto, Serving, clients, kernel, signals, conns, loop
<1>4. CASE Process(w)
  BY <1>4 DEF Process, Goto, Serving, clients, kernel, signals, loop
<1>6. CASE Decide(w)
  BY <1>6 DEF Decide, Goto, Serving, clients, kernel, signals, conns, loop
<1>7. CASE Rearm(w)
  BY <1>7 DEF Rearm, Goto, clients, signals, conns, loop
<1>8. CASE Stamp(w)
  <2>1. wpc' = [wpc EXCEPT ![w] = "idle"] /\ wfd' = [wfd EXCEPT ![w] = NoFd]
    BY <1>8 DEF Stamp, Goto
  <2>2. /\ wpc' \in [Worker -> Serving \cup {"idle", "stamp", "clear"}]
        /\ wfd' \in [Worker -> FD \cup {NoFd}]
    BY <2>1
  <2>3. idle' \in [FD -> {"unset", "fresh", "stale"}]
    BY <1>8 DEF Stamp
  <2>4. TypeOK'
    BY <1>8, <2>2, <2>3 DEF Stamp, clients, kernel, loop
  <2>5. LoopOK'
    BY <1>8, <2>1 DEF Stamp, loop
  <2>6. SignalOK'
    BY <1>8 DEF Stamp, kernel, loop
  <2> QED BY <2>4, <2>5, <2>6
<1>9. CASE CloseConn(w)
  BY <1>9 DEF CloseConn, CloseFd, Goto, clients, signals, conns, loop
<1>10. CASE ClearConn(w)
  <2>1. wpc' = [wpc EXCEPT ![w] = "idle"] /\ wfd' = [wfd EXCEPT ![w] = NoFd]
    BY <1>10 DEF ClearConn, Goto
  <2>2. /\ wpc' \in [Worker -> Serving \cup {"idle", "stamp", "clear"}]
        /\ wfd' \in [Worker -> FD \cup {NoFd}]
    BY <2>1
  <2>3. isconn' \in [FD -> 0..1]
    BY <1>10 DEF ClearConn
  <2>4. TypeOK'
    BY SMTT(30), <1>10, <2>2, <2>3 DEF ClearConn, clients, kernel, loop
  <2>5. LoopOK'
    BY <1>10, <2>1 DEF ClearConn, loop
  <2>6. SignalOK'
    BY <1>10 DEF ClearConn, kernel, loop
  <2> QED BY <2>4, <2>5, <2>6
<1>5. CASE SendResponse(w)
  <2> DEFINE c == sock[wfd[w]]
  <2>1. wreq[w].client \in Client /\ (c # NULL => c \in Client)
    BY <1>5 DEF SendResponse, Request
  <2>2. got' \in [Client -> SUBSET Client]
    BY <1>5, <2>1 DEF SendResponse
  <2>3. phase' \in [Client -> {"new", "ready", "waiting", "ended"}]
    BY <1>5, <2>1 DEF SendResponse
  <2> QED BY <1>5, <2>2, <2>3 DEF SendResponse, Goto, Serving, kernel, signals, conns, loop
<1> QED BY <1>1, <1>2, <1>3, <1>4, <1>5, <1>6, <1>7, <1>8, <1>9, <1>10 DEF WorkerStep
-----------------------------------------------------------------------------
(* Who owns what.                                                          *)

Core == Apart /\ HeldOK /\ FiredOK /\ HupOK

\* Owned is Owners without the identity of the owner.
LEMMA OwnersOwned ==
    ASSUME Control, NEW fd \in FD
    PROVE  Owners(fd) = {} <=> ~Owned(fd)
<1>1. ASSUME NEW e \in batch, e.fd = fd, e.what = "in" PROVE e = ConnEvent("in", fd)
  BY <1>1 DEF Control, TypeOK, Event, ListenEvent, TimerEvent, SignalEvent, ConnEvent
<1>2. ConnEvent("in", fd).fd = fd /\ ConnEvent("in", fd).what = "in"
  BY DEF ConnEvent
<1> QED BY <1>1, <1>2 DEF Owners, Owned, InEvents, Queued, Serves

\* Async.run adds its descriptor to the queued ones.
LEMMA QueuePut ==
    ASSUME Control, NEW fd \in FD, queue' = Append(queue, fd)
    PROVE  /\ Queued' = Queued \cup {fd}
           /\ fd \notin Queued /\ (\A i, j \in DOMAIN queue : queue[i] = queue[j] => i = j)
                => \A i, j \in DOMAIN queue' : queue'[i] = queue'[j] => i = j
<1>1. queue \in Seq(FD)
  BY DEF Control, TypeOK
<1>2. /\ DOMAIN queue = 1..Len(queue) /\ Len(queue) \in Nat
      /\ DOMAIN queue' = 1..(Len(queue) + 1)
      /\ \A i \in 1..Len(queue) : queue'[i] = queue[i]
      /\ queue'[Len(queue) + 1] = fd
  BY <1>1, AppendProperties, LenProperties
<1> QED BY <1>2 DEF Queued

\* A worker takes a descriptor that is then queued no more.
LEMMA QueueTake ==
    ASSUME Control, queue # <<>>, queue' = Tail(queue),
           \A i, j \in DOMAIN queue : queue[i] = queue[j] => i = j
    PROVE  /\ Head(queue) \in Queued
           /\ Queued' = Queued \ {Head(queue)}
           /\ \A i, j \in DOMAIN queue' : queue'[i] = queue'[j] => i = j
<1>1. queue \in Seq(FD)
  BY DEF Control, TypeOK
<1>2. /\ DOMAIN queue = 1..Len(queue) /\ Len(queue) \in Nat \ {0}
      /\ DOMAIN queue' = 1..(Len(queue) - 1)
      /\ \A i \in 1..(Len(queue) - 1) : queue'[i] = queue[i + 1]
      /\ Head(queue) = queue[1]
  <2>1. Tail(queue) \in Seq(FD) /\ Len(Tail(queue)) = Len(queue) - 1
    BY <1>1, HeadTailProperties
  <2>2. Len(queue) \in Nat \ {0}
    BY <1>1, LenProperties, EmptySeq
  <2>3. \A i \in 1..(Len(queue) - 1) : Tail(queue)[i] = queue[i + 1]
    BY <1>1, <2>2, HeadTailProperties
  <2> QED BY <1>1, <2>1, <2>2, <2>3, LenProperties
<1>3. Head(queue) \in Queued
  BY <1>2 DEF Queued
<1>4. Queued' \subseteq Queued \ {Head(queue)}
  <2> SUFFICES ASSUME NEW i \in DOMAIN queue'
               PROVE  queue'[i] \in Queued /\ queue'[i] # Head(queue)
    BY DEF Queued
  <2>1. i + 1 \in DOMAIN queue /\ i + 1 # 1 /\ 1 \in DOMAIN queue
    BY <1>2
  <2> QED BY <1>2, <2>1 DEF Queued
<1>5. Queued \ {Head(queue)} \subseteq Queued'
  <2> SUFFICES ASSUME NEW i \in DOMAIN queue, queue[i] # Head(queue)
               PROVE  queue[i] \in Queued'
    BY DEF Queued
  <2>1. i - 1 \in DOMAIN queue' /\ queue'[i - 1] = queue[i]
    BY <1>2
  <2> QED BY <2>1 DEF Queued
<1>6. ASSUME NEW i \in DOMAIN queue', NEW j \in DOMAIN queue', queue'[i] = queue'[j]
      PROVE  i = j
  <2>1. i + 1 \in DOMAIN queue /\ j + 1 \in DOMAIN queue /\ queue[i + 1] = queue[j + 1]
    BY <1>2, <1>6
  <2>2. i + 1 = j + 1
    BY <2>1
  <2> QED BY <1>2, <2>2
<1> QED BY <1>3, <1>4, <1>5, <1>6

\* Steps that move no ownership.
LEMMA ApartKept ==
    ASSUME Control, Apart, InEvents' = InEvents, queue' = queue,
           \A w \in Worker, fd \in FD : Serves(w, fd)' <=> Serves(w, fd)
    PROVE  Apart' /\ \A fd \in FD : Owned(fd)' <=> Owned(fd)
<1>1. Queued' = Queued
  BY DEF Queued
<1>2. InEvents \subseteq FD /\ Queued \subseteq FD
  BY DEF InEvents, Queued, Control, TypeOK
<1>3. \A i, j \in DOMAIN queue' : queue'[i] = queue'[j] => i = j
  BY DEF Apart
<1>4. \A w \in Worker, fd \in (InEvents \cup Queued)' : ~Serves(w, fd)'
  BY <1>1, <1>2 DEF Apart
<1>5. \A v, w \in Worker, fd \in FD : Serves(v, fd)' /\ Serves(w, fd)' => v = w
  BY DEF Apart
<1>6. Apart'
  BY <1>1, <1>3, <1>4, <1>5 DEF Apart
<1> QED BY <1>1, <1>6 DEF Owned

\* ... and, if they leave the registrations alone, what owners hold.
LEMMA CoreKept ==
    ASSUME Control, Core, InEvents' = InEvents, HupEvents' = HupEvents,
           UNCHANGED <<queue, reg, sock>>,
           \A w \in Worker, fd \in FD : Serves(w, fd)' <=> Serves(w, fd)
    PROVE  Core' /\ \A fd \in FD : Owned(fd)' <=> Owned(fd)
<1>1. Apart' /\ \A fd \in FD : Owned(fd)' <=> Owned(fd)
  BY ApartKept DEF Core
<1>2. HupEvents \subseteq FD
  BY DEF HupEvents
<1>3. HeldOK' /\ FiredOK' /\ HupOK'
  BY <1>1, <1>2 DEF Core, HeldOK, FiredOK, HupOK
<1> QED BY <1>1, <1>3 DEF Core

\* Idle marks stay right while no request arrives.
LEMMA StaleKept ==
    ASSUME Control, StaleOK, UNCHANGED <<idle, sock>>,
           \A fd \in FD : Owned(fd)' <=> Owned(fd),
           \A c \in Client : inbuf'[c] \in {inbuf[c], "none"},
           dpc = "init" => dpc' = "init" /\ cfd' = cfd
    PROVE  StaleOK'
BY DEF StaleOK, Control, TypeOK

\* The dispatcher stays alone while no ownership moves.
LEMMA AloneKept ==
    ASSUME Control, AloneOK, UNCHANGED <<sock, cfd>>, dpc' \in {dpc, "process"},
           \A fd \in FD : Owned(fd)' <=> Owned(fd)
    PROVE  AloneOK'
BY DEF AloneOK, Control, LoopOK

\* A step that only takes requests out of sockets keeps Ownership.
LEMMA StillStep ==
    ASSUME Control, Ownership, UNCHANGED <<batch, queue, reg, sock, idle, dpc, cfd>>,
           \A w \in Worker, fd \in FD : Serves(w, fd)' <=> Serves(w, fd),
           \A c \in Client : inbuf'[c] \in {inbuf[c], "none"}
    PROVE  Ownership'
<1>1. InEvents' = InEvents /\ HupEvents' = HupEvents
  BY DEF InEvents, HupEvents
<1>2. Core' /\ \A fd \in FD : Owned(fd)' <=> Owned(fd)
  BY <1>1, CoreKept DEF Ownership, Core
<1>3. StaleOK'
  BY <1>2, StaleKept DEF Ownership
<1>4. AloneOK'
  BY <1>2, AloneKept DEF Ownership
<1> QED BY <1>2, <1>3, <1>4 DEF Ownership, Core

\* Clients, time and the operator move no ownership: a request does not come
\* to a stale connection, and no connection with an owner grows stale.
LEMMA OwnershipEnvironment ==
    ASSUME TimerOn => Punctual, Control, Ownership, Environment
    PROVE  Ownership'
<1>0. /\ UNCHANGED <<batch, queue, wpc, wfd, reg, sock, dpc, cfd>>
      /\ \A w \in Worker, fd \in FD : Serves(w, fd)' <=> Serves(w, fd)
  BY DEF Environment, Connect, Shutdown, Reset, SendRequest, Tick, Age, Raise, kernel, loop,
         workers, Serves
<1>1. ASSUME NEW c \in Client, Connect(c) \/ Shutdown(c) \/ Reset(c) PROVE Ownership'
  <2>1. idle' = idle /\ \A d \in Client : inbuf'[d] \in {inbuf[d], "none"}
    BY <1>1 DEF Connect, Shutdown, Reset, kernel, conns, Control, TypeOK
  <2> QED BY <1>0, <2>1, StillStep
<1>2. ASSUME NEW s \in Signals, Tick \/ Raise(s) PROVE Ownership'
  <2>1. idle' = idle /\ inbuf' = inbuf
    BY <1>2 DEF Tick, Raise, conns
  <2> QED BY <1>0, <2>1, StillStep
<1> USE <1>0
<1>3. InEvents' = InEvents /\ HupEvents' = HupEvents
  BY DEF InEvents, HupEvents
<1>4. Core' /\ \A fd \in FD : Owned(fd)' <=> Owned(fd)
  BY <1>3, CoreKept DEF Ownership, Core
<1>5. AloneOK'
  BY <1>4, AloneKept DEF Ownership
<1>6. ASSUME NEW c \in Client, NEW kind \in Kind, SendRequest(c, kind) PROVE Ownership'
  <2>1. /\ Punctual => \A fd \in FD : sock[fd] = c => idle[fd] # "stale"
        /\ inbuf' = [inbuf EXCEPT ![c] = kind] /\ idle' = idle
    BY <1>6 DEF SendRequest, conns
  <2>2. \A d \in Client \ {c} : inbuf'[d] = inbuf[d]
    BY <2>1 DEF Control, TypeOK
  <2>3. \A fd \in FD : sock[fd] # NULL => sock[fd] \in Client
    BY DEF Control, TypeOK
  <2>4. StaleOK'
    BY <1>4, <2>1, <2>2, <2>3 DEF Ownership, StaleOK
  <2> QED BY <1>4, <1>5, <2>4 DEF Ownership, Core
<1>7. ASSUME NEW fd \in FD, Age(fd) PROVE Ownership'
  <2>1. /\ TimerOn /\ Quiet(fd) /\ inbuf' = inbuf
        /\ idle' = [idle EXCEPT ![fd] = "stale"]
    BY <1>7 DEF Age, kernel
  <2>2. ~Owned(fd) /\ (sock[fd] # NULL => inbuf[sock[fd]] = "none")
    BY <2>1, OwnersOwned DEF Quiet
  <2>3. idle \in [FD -> {"unset", "fresh", "stale"}]
    BY DEF Control, TypeOK
  <2>4. StaleOK'
    BY <1>4, <2>1, <2>2, <2>3 DEF Ownership, StaleOK
  <2> QED BY <1>4, <1>5, <2>4 DEF Ownership, Core
<1> QED BY <1>1, <1>2, <1>6, <1>7 DEF Environment, Signals

-----------------------------------------------------------------------------
(* The dispatcher's steps.                                                 *)

\* epoll_wait reports armed registrations only, which have no owner.
LEMMA OwnershipEpollWait ==
    ASSUME Control, Ownership, EpollWait
    PROVE  Ownership'
<1>1. /\ batch = {} /\ batch' = Reported /\ dpc = "wait" /\ dpc' = "batch"
      /\ UNCHANGED <<queue, wpc, wfd, sock, inbuf, idle, fin>>
      /\ reg' = [fd \in FD |-> IF Ready(fd) THEN "fired" ELSE reg[fd]]
  BY DEF EpollWait, Control, LoopOK, clients, conns, workers
<1>2. InEvents = {} /\ HupEvents = {}
  BY <1>1 DEF InEvents, HupEvents
<1>3. /\ InEvents' = {fd \in FD : Ready(fd) /\ ~fin[sock[fd]]}
      /\ HupEvents' = {fd \in FD : Ready(fd) /\ fin[sock[fd]]}
  BY <1>1 DEF Reported, InEvents, HupEvents, ConnEvent, ListenEvent, TimerEvent, SignalEvent
<1>4. \A w \in Worker, fd \in FD : Serves(w, fd)' <=> Serves(w, fd)
  BY <1>1 DEF Serves
<1>5. Queued' = Queued /\ Queued \subseteq FD
  BY <1>1 DEF Queued, Control, TypeOK
<1>6. \A fd \in FD : Ready(fd) => ~Owned(fd) /\ sock[fd] # NULL /\ reg'[fd] = "fired"
  BY <1>1 DEF Ready, Ownership, HeldOK
<1>7. \A fd \in FD : ~Owned(fd) => fd \notin Queued /\ \A w \in Worker : ~Serves(w, fd)
  BY DEF Owned
<1>8. \A fd \in FD : Owned(fd)' <=> Owned(fd) \/ fd \in InEvents'
  BY <1>2, <1>4, <1>5 DEF Owned
<1>9. Apart'
  <2>1. \A i, j \in DOMAIN queue' : queue'[i] = queue'[j] => i = j
    BY <1>1 DEF Ownership, Apart
  <2>2. \A w \in Worker, fd \in (InEvents \cup Queued)' : ~Serves(w, fd)'
    BY <1>3, <1>4, <1>5, <1>6, <1>7 DEF Ownership, Apart
  <2>3. \A v, w \in Worker, fd \in FD : Serves(v, fd)' /\ Serves(w, fd)' => v = w
    BY <1>4 DEF Ownership, Apart
  <2>4. (InEvents \cap Queued)' = {}
    BY <1>3, <1>5, <1>6, <1>7
  <2> QED BY <2>1, <2>2, <2>3, <2>4 DEF Apart
<1>10. HeldOK'
  <2> SUFFICES ASSUME NEW fd \in FD, Owned(fd)' PROVE reg'[fd] # "armed" /\ sock'[fd] # NULL
    BY DEF HeldOK
  <2>1. CASE Ready(fd)
    BY <2>1, <1>1, <1>6
  <2>2. CASE ~Ready(fd)
    BY <2>2, <1>1, <1>3, <1>8 DEF Ownership, HeldOK
  <2> QED BY <2>1, <2>2
<1>11. FiredOK'
  <2> SUFFICES ASSUME NEW fd \in FD, reg'[fd] = "fired" PROVE Owned(fd)' \/ fd \in HupEvents'
    BY DEF FiredOK
  <2>1. CASE Ready(fd)
    BY <2>1, <1>3, <1>8
  <2>2. CASE ~Ready(fd)
    BY <2>2, <1>1, <1>2, <1>8 DEF Ownership, FiredOK
  <2> QED BY <2>1, <2>2
<1>12. HupOK'
  BY <1>3, <1>6, <1>8 DEF HupOK
<1>13. StaleOK'
  BY <1>1, <1>3, <1>8 DEF Ownership, StaleOK, Ready
<1>14. AloneOK'
  BY <1>1 DEF AloneOK
<1> QED BY <1>9, <1>10, <1>11, <1>12, <1>13, <1>14 DEF Ownership

\* Steps of the loop that only pass on.
LEMMA OwnershipPass ==
    ASSUME Control, Ownership,
           \/ AcceptBegin \/ AcceptEnd \/ HandleTimer \/ HandleSignal
           \/ BatchEnd \/ SweepPass \/ Finish
    PROVE  Ownership'
<1> USE DEF AcceptBegin, AcceptEnd, HandleTimer, HandleSignal, BatchEnd, SweepPass, Finish,
            SweepNext, Turn, kernel, conns, workers
<1>1. /\ UNCHANGED <<queue, reg, sock, idle, inbuf, wpc, wfd>>
      /\ dpc \notin {"init", "close"} /\ dpc' \notin {"init", "close"}
  OBVIOUS
<1>2. InEvents' = InEvents /\ HupEvents' = HupEvents
  BY DEF InEvents, HupEvents, ConnEvent, ListenEvent, TimerEvent, SignalEvent
<1>3. \A w \in Worker, fd \in FD : Serves(w, fd)' <=> Serves(w, fd)
  BY <1>1 DEF Serves
<1>4. Core' /\ \A fd \in FD : Owned(fd)' <=> Owned(fd)
  BY <1>1, <1>2, <1>3, CoreKept DEF Ownership, Core
<1>5. StaleOK'
  BY <1>1, <1>4, StaleKept DEF Ownership
<1>6. AloneOK'
  BY <1>1 DEF AloneOK
<1> QED BY <1>4, <1>5, <1>6 DEF Ownership, Core

\* accept returns a descriptor that refers to nothing, so nobody owns it.
LEMMA OwnershipAcceptConn ==
    ASSUME Control, Ownership, NEW fd \in FD, AcceptConn(fd)
    PROVE  Ownership'
<1>1. /\ UNCHANGED <<queue, batch, idle, inbuf, wpc, wfd>>
      /\ dpc = "accept" /\ dpc' = "init" /\ cfd' = fd /\ sock[fd] = NULL
      /\ sock' = [sock EXCEPT ![fd] = Head(backlog)] /\ reg' = [reg EXCEPT ![fd] = "armed"]
      /\ sock \in [FD -> Client \cup {NULL}] /\ reg \in [FD -> {"none", "armed", "fired"}]
      /\ Head(backlog) \in Client
  BY TakeTyped DEF AcceptConn, conns, workers, Control, TypeOK
<1>2. InEvents' = InEvents /\ HupEvents' = HupEvents
  BY <1>1 DEF InEvents, HupEvents
<1>3. \A w \in Worker, g \in FD : Serves(w, g)' <=> Serves(w, g)
  BY <1>1 DEF Serves
<1>4. Apart' /\ \A g \in FD : Owned(g)' <=> Owned(g)
  BY <1>1, <1>2, <1>3, ApartKept DEF Ownership
<1>5. ~Owned(fd)
  BY <1>1 DEF Ownership, HeldOK
<1>6. HeldOK' /\ FiredOK'
  BY <1>1, <1>2, <1>4, <1>5 DEF Ownership, HeldOK, FiredOK
<1>7. HupEvents \subseteq FD
  BY DEF HupEvents
<1>8. HupOK'
  BY <1>2, <1>4, <1>7 DEF Ownership, HupOK
<1>9. StaleOK'
  BY <1>1, <1>4 DEF Ownership, StaleOK
<1>10. AloneOK'
  BY <1>1, <1>4, <1>5, NullAssumption DEF AloneOK
<1> QED BY <1>4, <1>6, <1>8, <1>9, <1>10 DEF Ownership

\* InitConn and SweepReset wipe the idle mark of the connection in hand.
LEMMA OwnershipWipe ==
    ASSUME Control, Ownership, InitConn \/ SweepReset
    PROVE  Ownership'
<1>1. /\ UNCHANGED <<queue, batch, reg, sock, inbuf, wpc, wfd>>
      /\ idle' = [idle EXCEPT ![cfd] = "unset"] /\ cfd \in FD
      /\ dpc' \notin {"init", "close"}
      /\ idle \in [FD -> {"unset", "fresh", "stale"}]
  BY DEF InitConn, SweepReset, SweepNext, Turn, kernel, workers, Control, LoopOK, TypeOK
<1>2. InEvents' = InEvents /\ HupEvents' = HupEvents
  BY <1>1 DEF InEvents, HupEvents
<1>3. \A w \in Worker, fd \in FD : Serves(w, fd)' <=> Serves(w, fd)
  BY <1>1 DEF Serves
<1>4. Core' /\ \A fd \in FD : Owned(fd)' <=> Owned(fd)
  BY <1>1, <1>2, <1>3, CoreKept DEF Ownership, Core
<1>5. StaleOK'
  BY <1>1, <1>4 DEF Ownership, StaleOK
<1>6. AloneOK'
  BY <1>1 DEF AloneOK
<1> QED BY <1>4, <1>5, <1>6 DEF Ownership, Core

\* A hang-up takes the descriptor out of epoll.
LEMMA OwnershipHandleHup ==
    ASSUME Control, Ownership, NEW fd \in FD, HandleHup(fd)
    PROVE  Ownership'
<1>1. /\ UNCHANGED <<queue, sock, idle, inbuf, wpc, wfd, dpc, cfd>>
      /\ dpc = "batch"
      /\ batch' = batch \ {ConnEvent("hup", fd)}
      /\ reg' = [reg EXCEPT ![fd] = "none"]
      /\ reg \in [FD -> {"none", "armed", "fired"}]
  BY DEF HandleHup, conns, workers, Control, TypeOK
<1>2. InEvents' = InEvents /\ HupEvents' = HupEvents \ {fd}
  BY <1>1 DEF InEvents, HupEvents, ConnEvent
<1>3. \A w \in Worker, g \in FD : Serves(w, g)' <=> Serves(w, g)
  BY <1>1 DEF Serves
<1>4. Apart' /\ \A g \in FD : Owned(g)' <=> Owned(g)
  BY <1>1, <1>2, <1>3, ApartKept DEF Ownership
<1>5. HupEvents \subseteq FD
  BY DEF HupEvents
<1>6. HeldOK' /\ FiredOK' /\ HupOK'
  BY <1>1, <1>2, <1>4, <1>5 DEF Ownership, HeldOK, FiredOK, HupOK
<1>7. StaleOK'
  BY <1>1, <1>4 DEF Ownership, StaleOK
<1>8. AloneOK'
  BY <1>1 DEF AloneOK
<1> QED BY <1>4, <1>6, <1>7, <1>8 DEF Ownership

\* An event becomes a task.
LEMMA OwnershipHandleIn ==
    ASSUME Control, Ownership, NEW fd \in FD, HandleIn(fd)
    PROVE  Ownership'
<1>1. /\ UNCHANGED <<sock, reg, idle, inbuf, wpc, wfd, dpc, cfd>>
      /\ dpc = "batch" /\ fd \in InEvents
      /\ batch' = batch \ {ConnEvent("in", fd)}
      /\ queue' = Append(queue, fd)
  BY DEF HandleIn, kernel, conns, workers, InEvents
<1>2. InEvents' = InEvents \ {fd} /\ HupEvents' = HupEvents
  BY <1>1 DEF InEvents, HupEvents, ConnEvent
<1>3. \A w \in Worker, g \in FD : Serves(w, g)' <=> Serves(w, g)
  BY <1>1 DEF Serves
<1>4. fd \notin Queued /\ \A w \in Worker : ~Serves(w, fd)
  BY <1>1 DEF Ownership, Apart
<1>5. /\ Queued' = Queued \cup {fd}
      /\ \A i, j \in DOMAIN queue' : queue'[i] = queue'[j] => i = j
  <2>1. \A i, j \in DOMAIN queue : queue[i] = queue[j] => i = j
    BY DEF Ownership, Apart
  <2> QED BY <1>1, <1>4, <2>1, QueuePut
<1>6. InEvents \subseteq FD /\ Queued \subseteq FD /\ HupEvents \subseteq FD
  BY DEF InEvents, HupEvents, Queued, Control, TypeOK
<1>7. Apart'
  <2>1. \A w \in Worker, g \in (InEvents \cup Queued)' : ~Serves(w, g)'
    BY <1>2, <1>3, <1>4, <1>5, <1>6 DEF Ownership, Apart
  <2>2. \A v, w \in Worker, g \in FD : Serves(v, g)' /\ Serves(w, g)' => v = w
    BY <1>3 DEF Ownership, Apart
  <2>3. (InEvents \cap Queued)' = {}
    BY <1>2, <1>5 DEF Ownership, Apart
  <2> QED BY <1>5, <2>1, <2>2, <2>3 DEF Apart
<1>8. \A g \in FD : Owned(g)' <=> Owned(g)
  BY <1>1, <1>2, <1>3, <1>5 DEF Owned
<1>9. HeldOK' /\ FiredOK' /\ HupOK'
  BY <1>1, <1>2, <1>6, <1>8 DEF Ownership, HeldOK, FiredOK, HupOK
<1>10. StaleOK' /\ AloneOK'
  BY <1>1, <1>8 DEF Ownership, StaleOK, AloneOK
<1> QED BY <1>7, <1>9, <1>10 DEF Ownership

\* An expired connection has no owner.
LEMMA OwnershipSweepFind ==
    ASSUME Control, Ownership, SweepFind
    PROVE  Ownership'
<1>1. /\ UNCHANGED <<batch, queue, reg, sock, idle, inbuf, wpc, wfd, cfd>>
      /\ dpc = "sweep" /\ dpc' = "close" /\ idle[cfd] = "stale" /\ cfd \in FD
  BY DEF SweepFind, Expired, kernel, conns, workers, Control, LoopOK
<1>2. InEvents' = InEvents /\ HupEvents' = HupEvents
  BY <1>1 DEF InEvents, HupEvents
<1>3. \A w \in Worker, fd \in FD : Serves(w, fd)' <=> Serves(w, fd)
  BY <1>1 DEF Serves
<1>4. Core' /\ \A fd \in FD : Owned(fd)' <=> Owned(fd)
  BY <1>1, <1>2, <1>3, CoreKept DEF Ownership, Core
<1>5. StaleOK'
  BY <1>1, <1>4, StaleKept DEF Ownership
<1>6. ~Owned(cfd)
  BY <1>1 DEF Ownership, StaleOK, HeldOK
<1>7. AloneOK'
  BY <1>1, <1>4, <1>6 DEF AloneOK
<1> QED BY <1>4, <1>5, <1>7 DEF Ownership, Core

\* The sweep closes a connection without an owner.
LEMMA OwnershipSweepClose ==
    ASSUME Control, Ownership, SweepClose
    PROVE  Ownership'
<1>1. /\ UNCHANGED <<batch, queue, idle, inbuf, wpc, wfd, cfd>>
      /\ dpc = "close" /\ dpc' = "reset" /\ cfd \in FD
      /\ sock' = [sock EXCEPT ![cfd] = NULL] /\ reg' = [reg EXCEPT ![cfd] = "none"]
      /\ sock \in [FD -> Client \cup {NULL}] /\ reg \in [FD -> {"none", "armed", "fired"}]
  BY DEF SweepClose, CloseFd, conns, workers, Control, LoopOK, TypeOK
<1>2. InEvents' = InEvents /\ HupEvents' = HupEvents /\ HupEvents \subseteq FD
  BY <1>1 DEF InEvents, HupEvents
<1>3. \A w \in Worker, fd \in FD : Serves(w, fd)' <=> Serves(w, fd)
  BY <1>1 DEF Serves
<1>4. Apart' /\ \A fd \in FD : Owned(fd)' <=> Owned(fd)
  BY <1>1, <1>2, <1>3, ApartKept DEF Ownership
<1>5. ~Owned(cfd)
  BY <1>1 DEF Ownership, AloneOK
<1>6. HeldOK' /\ FiredOK' /\ HupOK'
  BY <1>1, <1>2, <1>4, <1>5 DEF Ownership, HeldOK, FiredOK, HupOK
<1>7. StaleOK'
  BY <1>1, <1>4 DEF Ownership, StaleOK
<1>8. AloneOK'
  BY <1>1 DEF AloneOK
<1> QED BY <1>4, <1>6, <1>7, <1>8 DEF Ownership

\* Every step of the dispatcher keeps Ownership.
LEMMA OwnershipDispatcher ==
    ASSUME Control, Ownership, DispatcherStep
    PROVE  Ownership'
BY OwnershipEpollWait, OwnershipPass, OwnershipAcceptConn, OwnershipWipe, OwnershipHandleHup,
   OwnershipHandleIn, OwnershipSweepFind, OwnershipSweepClose DEF DispatcherStep

-----------------------------------------------------------------------------
(* The workers' steps.                                                     *)

\* A task becomes a worker's.
LEMMA OwnershipTake ==
    ASSUME Control, Ownership, NEW w \in Worker, Take(w)
    PROVE  Ownership'
<1> DEFINE f == Head(queue)
<1>1. /\ UNCHANGED <<batch, sock, reg, idle, inbuf, dpc, cfd>>
      /\ queue # <<>> /\ queue' = Tail(queue)
      /\ wpc[w] = "idle"
      /\ wfd' = [wfd EXCEPT ![w] = f] /\ wpc' = [wpc EXCEPT ![w] = "recv"]
      /\ wfd \in [Worker -> FD \cup {NoFd}]
      /\ wpc \in [Worker -> Serving \cup {"idle", "stamp", "clear"}]
  BY DEF Take, Goto, kernel, conns, loop, Control, TypeOK
<1>2. InEvents' = InEvents /\ HupEvents' = HupEvents /\ HupEvents \subseteq FD
  BY <1>1 DEF InEvents, HupEvents
<1>3. \A v \in Worker, g \in FD : Serves(v, g)' <=> Serves(v, g) \/ (v = w /\ g = f)
  BY <1>1 DEF Serves, Serving
<1>4. /\ f \in Queued /\ Queued' = Queued \ {f}
      /\ \A i, j \in DOMAIN queue' : queue'[i] = queue'[j] => i = j
  <2>1. \A i, j \in DOMAIN queue : queue[i] = queue[j] => i = j
    BY DEF Ownership, Apart
  <2> QED BY <1>1, <2>1, QueueTake
<1>5. InEvents \subseteq FD /\ Queued \subseteq FD
  BY DEF InEvents, Queued, Control, TypeOK
<1>6. \A v \in Worker : ~Serves(v, f)
  BY <1>4 DEF Ownership, Apart
<1>7. Apart'
  <2>1. \A v \in Worker, g \in (InEvents \cup Queued)' : ~Serves(v, g)'
    BY <1>2, <1>3, <1>4, <1>5 DEF Ownership, Apart
  <2>2. \A u, v \in Worker, g \in FD : Serves(u, g)' /\ Serves(v, g)' => u = v
    BY <1>3, <1>6 DEF Ownership, Apart
  <2>3. (InEvents \cap Queued)' = {}
    BY <1>2, <1>4 DEF Ownership, Apart
  <2> QED BY <1>4, <2>1, <2>2, <2>3 DEF Apart
<1>8. \A g \in FD : Owned(g)' <=> Owned(g)
  BY <1>2, <1>3, <1>4, <1>5 DEF Owned
<1>9. HeldOK' /\ FiredOK' /\ HupOK'
  BY <1>1, <1>2, <1>8 DEF Ownership, HeldOK, FiredOK, HupOK
<1>10. StaleOK' /\ AloneOK'
  BY <1>1, <1>8 DEF Ownership, StaleOK, AloneOK, Control, LoopOK
<1> QED BY <1>7, <1>9, <1>10 DEF Ownership

\* A worker that lets go of a connection leaves it without an owner.
LEMMA LetGo ==
    ASSUME Control, Apart, NEW w \in Worker, NEW fd \in FD, Serves(w, fd),
           UNCHANGED <<batch, queue, wfd>>,
           NEW l, l \notin Serving, wpc' = [wpc EXCEPT ![w] = l]
    PROVE  /\ Apart'
           /\ ~Owned(fd)'
           /\ \A g \in FD \ {fd} : Owned(g)' <=> Owned(g)
<1>1. /\ InEvents' = InEvents /\ Queued' = Queued
      /\ InEvents \subseteq FD /\ Queued \subseteq FD
  BY DEF InEvents, Queued, Control, TypeOK
<1>2. \A v \in Worker, g \in FD : Serves(v, g)' <=> Serves(v, g) /\ v # w
  BY DEF Serves, Control, TypeOK
<1>3. \A g \in FD : Serves(w, g) <=> g = fd
  BY DEF Serves
<1>4. Apart'
  <2>1. \A v \in Worker, g \in (InEvents \cup Queued)' : ~Serves(v, g)'
    BY <1>1, <1>2 DEF Apart
  <2>2. \A u, v \in Worker, g \in FD : Serves(u, g)' /\ Serves(v, g)' => u = v
    BY <1>2 DEF Apart
  <2>3. \A i, j \in DOMAIN queue' : queue'[i] = queue'[j] => i = j
    BY DEF Apart
  <2> QED BY <1>1, <2>1, <2>2, <2>3 DEF Apart
<1>5. ~Owned(fd)'
  BY <1>1, <1>2 DEF Apart, Owned
<1>6. \A g \in FD \ {fd} : Owned(g)' <=> Owned(g)
  BY <1>1, <1>2, <1>3 DEF Owned
<1> QED BY <1>4, <1>5, <1>6

\* handle ends a connection's turn by re-arming or closing it.
LEMMA OwnershipRearm ==
    ASSUME Control, Ownership, NEW w \in Worker, Rearm(w) \/ CloseConn(w)
    PROVE  Ownership'
<1> DEFINE f == wfd[w]
<1>1. /\ UNCHANGED <<batch, queue, wfd, idle, inbuf, dpc, cfd>>
      /\ wpc[w] \in {"rearm", "close"}
      /\ f \in FD
      /\ sock \in [FD -> Client \cup {NULL}] /\ reg \in [FD -> {"none", "armed", "fired"}]
  BY DEF Rearm, CloseConn, conns, loop, Control, LoopOK, TypeOK
<1>2. /\ \A g \in FD \ {f} : reg'[g] = reg[g] /\ sock'[g] = sock[g]
      /\ reg'[f] # "fired"
      /\ sock'[f] \in {sock[f], NULL}
  BY <1>1 DEF Rearm, CloseConn, CloseFd
<1>3. Serves(w, f)
  BY <1>1 DEF Serves, Serving
<1>4. PICK l \in {"stamp", "clear"} : wpc' = [wpc EXCEPT ![w] = l]
  BY DEF Rearm, CloseConn, Goto
<1>5. l \notin Serving
  BY DEF Serving
<1>6. Apart' /\ ~Owned(f)' /\ \A g \in FD \ {f} : Owned(g)' <=> Owned(g)
  <2>1. Apart
    BY DEF Ownership
  <2> QED BY <1>1, <1>3, <1>4, <1>5, <2>1, LetGo
<1>7. InEvents' = InEvents /\ HupEvents' = HupEvents /\ HupEvents \subseteq FD
  BY <1>1 DEF InEvents, HupEvents
<1>8. Owned(f)
  BY <1>3 DEF Owned
<1>9. HeldOK' /\ FiredOK' /\ HupOK'
  BY <1>1, <1>2, <1>6, <1>7, <1>8 DEF Ownership, HeldOK, FiredOK, HupOK
<1>10. StaleOK'
  BY <1>1, <1>2, <1>6, <1>8 DEF Ownership, StaleOK
<1>11. AloneOK'
  BY <1>1, <1>2, <1>6, <1>8 DEF Ownership, AloneOK, Control, LoopOK
<1> QED BY <1>6, <1>9, <1>10, <1>11 DEF Ownership

\* idle_start is set after the connection has been let go.
LEMMA OwnershipStamp ==
    ASSUME Control, Ownership, NEW w \in Worker, Stamp(w)
    PROVE  Ownership'
<1>1. /\ UNCHANGED <<batch, queue, reg, sock, inbuf, dpc, cfd>>
      /\ wpc[w] = "stamp" /\ wfd[w] \in FD
      /\ idle' = [idle EXCEPT ![wfd[w]] = "fresh"]
      /\ idle \in [FD -> {"unset", "fresh", "stale"}]
      /\ wpc' = [wpc EXCEPT ![w] = "idle"] /\ wfd' = [wfd EXCEPT ![w] = NoFd]
      /\ wfd \in [Worker -> FD \cup {NoFd}]
      /\ wpc \in [Worker -> Serving \cup {"idle", "stamp", "clear"}]
  BY DEF Stamp, Goto, kernel, loop, Control, LoopOK, TypeOK
<1>2. InEvents' = InEvents /\ HupEvents' = HupEvents
  BY <1>1 DEF InEvents, HupEvents
<1>3. \A v \in Worker, fd \in FD : Serves(v, fd)' <=> Serves(v, fd)
  BY <1>1 DEF Serves, Serving
<1>4. Core' /\ \A fd \in FD : Owned(fd)' <=> Owned(fd)
  BY <1>1, <1>2, <1>3, CoreKept DEF Ownership, Core
<1>5. StaleOK'
  BY <1>1, <1>4 DEF Ownership, StaleOK
<1>6. AloneOK'
  BY <1>1, <1>4 DEF Ownership, AloneOK, Control, LoopOK
<1> QED BY <1>4, <1>5, <1>6 DEF Ownership, Core

\* Every step of handle keeps Ownership.
LEMMA OwnershipWorker ==
    ASSUME Control, Ownership, NEW w \in Worker, WorkerStep(w)
    PROVE  Ownership'
<1>1. ASSUME \/ RecvRequest(w) \/ RecvNothing(w) \/ Process(w) \/ SendResponse(w)
             \/ Decide(w) \/ ClearConn(w)
      PROVE  Ownership'
  <2>1. /\ UNCHANGED <<batch, queue, reg, sock, idle, dpc, cfd>>
        /\ \A c \in Client : inbuf'[c] \in {inbuf[c], "none"}
    BY <1>1 DEF RecvRequest, RecvNothing, Process, SendResponse, Decide, ClearConn, kernel,
           conns, loop, Control, TypeOK
  <2>2. \A v \in Worker, fd \in FD : Serves(v, fd)' <=> Serves(v, fd)
    <3>1. /\ wfd \in [Worker -> FD \cup {NoFd}]
          /\ wpc \in [Worker -> Serving \cup {"idle", "stamp", "clear"}]
      BY DEF Control, TypeOK
    <3>2. CASE ClearConn(w)
      BY <3>1, <3>2 DEF ClearConn, Goto, Serves, Serving
    <3>3. CASE ~ClearConn(w)
      BY <1>1, <3>1, <3>3 DEF RecvRequest, RecvNothing, Process, SendResponse, Decide, Goto,
             Serves, Serving
    <3> QED BY <3>2, <3>3
  <2> QED BY <2>1, <2>2, StillStep
<1> QED BY <1>1, OwnershipTake, OwnershipRearm, OwnershipStamp DEF WorkerStep

\* At the start nothing has an owner.
LEMMA OwnershipInit ==
    Init => Ownership
<1> SUFFICES ASSUME Init PROVE Ownership
  OBVIOUS
<1>1. InEvents = {} /\ HupEvents = {}
  BY DEF Init, InEvents, HupEvents
<1>2. DOMAIN queue = {} /\ Queued = {}
  BY DEF Init, Queued
<1>3. \A w \in Worker, fd \in FD : ~Serves(w, fd)
  BY DEF Init, Serves, Serving
<1>4. \A fd \in FD : ~Owned(fd)
  BY <1>1, <1>2, <1>3 DEF Owned
<1>5. Apart
  BY <1>1, <1>2, <1>3 DEF Apart
<1>6. HeldOK /\ FiredOK /\ HupOK /\ StaleOK /\ AloneOK
  BY <1>1, <1>4 DEF Init, HeldOK, FiredOK, HupOK, StaleOK, AloneOK
<1> QED BY <1>5, <1>6 DEF Ownership

-----------------------------------------------------------------------------
(* What ownership is good for: answers and slots.                          *)

\* A worker in the middle of handle owns its connection.
LEMMA AnsweringOwns ==
    ASSUME Control, NEW w \in Worker, wpc[w] \in Serving
    PROVE  wfd[w] \in FD /\ Serves(w, wfd[w]) /\ Owned(wfd[w])
<1>1. wpc[w] # "idle"
  BY DEF Serving
<1> QED BY <1>1 DEF Control, LoopOK, Owned, Serves

\* At the start no answer has been given and no slot is in use.
LEMMA OutcomeInit ==
    Init => Outcome
BY DEF Init, Outcome, AnswerOK, ResponseToRequester, NoGhostSlot

\* The environment changes neither answers nor slots.
LEMMA OutcomeEnvironment ==
    ASSUME Outcome, Environment
    PROVE  Outcome'
<1>1. UNCHANGED <<wpc, wfd, wreq, sock, got, isconn, dpc, cfd>>
  BY DEF Environment, Connect, Shutdown, Reset, SendRequest, Tick, Age, Raise,
         clients, kernel, conns, loop, workers
<1> QED BY <1>1 DEF Outcome, AnswerOK, ResponseToRequester, NoGhostSlot

\* The dispatcher opens and closes only descriptors no worker answers through.
LEMMA OutcomeDispatcher ==
    ASSUME Control, Ownership, Outcome, DispatcherStep
    PROVE  Outcome'
<1>1. UNCHANGED <<wpc, wfd, wreq, got>>
  BY DEF DispatcherStep, EpollWait, AcceptBegin, AcceptConn, InitConn, AcceptEnd, HandleTimer,
         HandleSignal, HandleHup, HandleIn, BatchEnd, SweepPass, SweepFind, SweepClose,
         SweepReset, Finish, clients, workers
<1>2. ResponseToRequester'
  BY <1>1 DEF Outcome, ResponseToRequester
<1>3. ASSUME \/ EpollWait \/ AcceptBegin \/ AcceptEnd \/ HandleTimer \/ HandleSignal
             \/ \E fd \in FD : HandleHup(fd) \/ HandleIn(fd)
             \/ BatchEnd \/ SweepPass \/ SweepFind \/ Finish
      PROVE  Outcome'
  <2>1. UNCHANGED <<sock, isconn>> /\ dpc # "reset"
    BY <1>3 DEF EpollWait, AcceptBegin, AcceptEnd, HandleTimer, HandleSignal, HandleHup,
           HandleIn, BatchEnd, SweepPass, SweepFind, Finish, kernel, conns
  <2> QED BY <1>1, <1>2, <2>1 DEF Outcome, AnswerOK, NoGhostSlot
<1>4. ASSUME NEW fd \in FD, AcceptConn(fd) PROVE Outcome'
  <2>1. /\ sock[fd] = NULL /\ sock' = [sock EXCEPT ![fd] = Head(backlog)]
        /\ isconn' = isconn /\ dpc = "accept" /\ sock \in [FD -> Client \cup {NULL}]
        /\ Head(backlog) # NULL
    BY <1>4, TakeTyped, NullAssumption DEF AcceptConn, conns, Control, TypeOK
  <2>2. \A w \in Worker : wpc[w] \in Serving => wfd[w] \in FD \ {fd}
    BY <2>1, AnsweringOwns DEF Ownership, HeldOK
  <2>3. AnswerOK'
    BY <1>1, <2>1, <2>2 DEF Outcome, AnswerOK, Serving
  <2>4. NoGhostSlot'
    BY <1>1, <2>1 DEF Outcome, NoGhostSlot
  <2> QED BY <1>2, <2>3, <2>4 DEF Outcome
<1>5. CASE InitConn
  <2>1. /\ sock' = sock /\ sock[cfd] # NULL /\ dpc = "init"
        /\ isconn' = [isconn EXCEPT ![cfd] = 1] /\ isconn \in [FD -> 0..1]
    BY <1>5 DEF InitConn, kernel, Ownership, AloneOK, Control, TypeOK
  <2> QED BY <1>1, <1>2, <2>1 DEF Outcome, AnswerOK, NoGhostSlot
<1>6. CASE SweepClose
  <2>1. /\ sock' = [sock EXCEPT ![cfd] = NULL] /\ sock \in [FD -> Client \cup {NULL}]
        /\ isconn' = isconn /\ dpc = "close" /\ dpc' = "reset" /\ cfd' = cfd /\ ~Owned(cfd)
    BY <1>6 DEF SweepClose, CloseFd, conns, Ownership, AloneOK, Control, TypeOK
  <2>2. \A w \in Worker : wpc[w] \in Serving => wfd[w] \in FD \ {cfd}
    BY <2>1, AnsweringOwns
  <2>3. AnswerOK'
    BY <1>1, <2>1, <2>2 DEF Outcome, AnswerOK, Serving
  <2>4. NoGhostSlot'
    BY <1>1, <2>1 DEF Outcome, NoGhostSlot
  <2> QED BY <1>2, <2>3, <2>4 DEF Outcome
<1>7. CASE SweepReset
  <2>1. /\ sock' = sock /\ dpc = "reset" /\ cfd \in FD
        /\ isconn' = [isconn EXCEPT ![cfd] = 0] /\ isconn \in [FD -> 0..1]
    BY <1>7 DEF SweepReset, kernel, Control, LoopOK, TypeOK
  <2> QED BY <1>1, <1>2, <2>1 DEF Outcome, AnswerOK, NoGhostSlot
<1> QED BY <1>3, <1>4, <1>5, <1>6, <1>7 DEF DispatcherStep

\* The steps of handle answer the requester and keep slots with sockets.
LEMMA OutcomeWorker ==
    ASSUME Control, Ownership, Outcome, NEW w \in Worker, WorkerStep(w)
    PROVE  Outcome'
<1>1. /\ wpc \in [Worker -> Serving \cup {"idle", "stamp", "clear"}]
      /\ wfd \in [Worker -> FD \cup {NoFd}] /\ wreq \in [Worker -> Request \cup {NULL}]
      /\ sock \in [FD -> Client \cup {NULL}] /\ got \in [Client -> SUBSET Client]
      /\ isconn \in [FD -> 0..1]
  BY DEF Control, TypeOK
<1>2. UNCHANGED <<dpc, cfd>>
  BY DEF WorkerStep, Take, RecvRequest, RecvNothing, Process, SendResponse, Decide, Rearm,
         Stamp, CloseConn, ClearConn, loop
<1>3. ASSUME Take(w) \/ RecvNothing(w) \/ Decide(w) \/ Rearm(w) \/ Stamp(w) PROVE Outcome'
  <2>1. UNCHANGED <<sock, got, isconn, wreq>>
    BY <1>3 DEF Take, RecvNothing, Decide, Rearm, Stamp, clients, kernel, conns
  <2>2. /\ wpc[w] # "clear" /\ wpc'[w] \notin {"process", "send"}
        /\ \A v \in Worker \ {w} : wpc'[v] = wpc[v] /\ wfd'[v] = wfd[v]
    BY <1>1, <1>3 DEF Take, RecvNothing, Decide, Rearm, Stamp, Goto
  <2>3. AnswerOK'
    BY <2>1, <2>2 DEF Outcome, AnswerOK
  <2>4. NoGhostSlot'
    BY <1>2, <2>1, <2>2 DEF Outcome, NoGhostSlot
  <2> QED BY <2>1, <2>3, <2>4 DEF Outcome, ResponseToRequester
<1>4. CASE RecvRequest(w)
  <2>1. /\ UNCHANGED <<sock, got, isconn, wfd>> /\ wpc[w] = "recv"
        /\ wpc' = [wpc EXCEPT ![w] = "process"]
        /\ wreq'[w].client = sock[wfd[w]]
        /\ \A v \in Worker \ {w} : wreq'[v] = wreq[v]
    BY <1>1, <1>4 DEF RecvRequest, Goto, clients, conns
  <2>2. AnswerOK'
    BY <1>1, <2>1 DEF Outcome, AnswerOK
  <2>3. NoGhostSlot'
    BY <1>1, <1>2, <2>1 DEF Outcome, NoGhostSlot
  <2> QED BY <2>1, <2>2, <2>3 DEF Outcome, ResponseToRequester
<1>5. CASE Process(w)
  <2>1. /\ UNCHANGED <<sock, got, isconn, wfd, wreq>> /\ wpc[w] = "process"
        /\ wpc' = [wpc EXCEPT ![w] = "send"]
    BY <1>5 DEF Process, Goto, clients, kernel
  <2>2. AnswerOK'
    BY <1>1, <2>1 DEF Outcome, AnswerOK
  <2>3. NoGhostSlot'
    BY <1>1, <1>2, <2>1 DEF Outcome, NoGhostSlot
  <2> QED BY <2>1, <2>2, <2>3 DEF Outcome, ResponseToRequester
<1>6. CASE SendResponse(w)
  <2> DEFINE c == sock[wfd[w]]
  <2>1. /\ UNCHANGED <<sock, isconn, wfd>> /\ wpc[w] = "send"
        /\ wpc' = [wpc EXCEPT ![w] = "decide"]
        /\ \A v \in Worker \ {w} : wreq'[v] = wreq[v]
        /\ got' = IF c = NULL THEN got ELSE [got EXCEPT ![c] = @ \cup {wreq[w].client}]
    BY <1>1, <1>6 DEF SendResponse, Goto, kernel, conns
  <2>2. wreq[w].client = c
    BY <2>1 DEF Outcome, AnswerOK
  <2>3. AnswerOK'
    BY <1>1, <2>1 DEF Outcome, AnswerOK
  <2>4. NoGhostSlot'
    BY <1>1, <1>2, <2>1 DEF Outcome, NoGhostSlot
  <2>5. ResponseToRequester'
    BY <1>1, <2>1, <2>2 DEF Outcome, ResponseToRequester
  <2> QED BY <2>3, <2>4, <2>5 DEF Outcome
<1>7. CASE CloseConn(w)
  <2>1. /\ UNCHANGED <<got, isconn, wfd, wreq>> /\ wpc[w] = "close"
        /\ wpc' = [wpc EXCEPT ![w] = "clear"]
        /\ sock' = [sock EXCEPT ![wfd[w]] = NULL]
    BY <1>7 DEF CloseConn, CloseFd, Goto, clients, conns
  <2>2. \A v \in Worker \ {w} : wpc[v] \in Serving => wfd[v] \in FD \ {wfd[w]}
    <3>1. wpc[w] \in Serving
      BY <2>1 DEF Serving
    <3> QED BY <3>1, AnsweringOwns DEF Ownership, Apart, Serves
  <2>3. AnswerOK'
    BY <1>1, <2>1, <2>2 DEF Outcome, AnswerOK, Serving
  <2>4. NoGhostSlot'
    BY <1>1, <1>2, <2>1 DEF Outcome, NoGhostSlot
  <2> QED BY <2>1, <2>3, <2>4 DEF Outcome, ResponseToRequester
<1>8. CASE ClearConn(w)
  <2>1. /\ UNCHANGED <<got, sock, wreq>> /\ wpc[w] = "clear"
        /\ wpc' = [wpc EXCEPT ![w] = "idle"] /\ wfd' = [wfd EXCEPT ![w] = NoFd]
        /\ isconn' = [isconn EXCEPT ![wfd[w]] = 0]
    BY <1>8 DEF ClearConn, Goto, clients, kernel
  <2>2. AnswerOK'
    BY <1>1, <2>1 DEF Outcome, AnswerOK
  <2>3. NoGhostSlot'
    BY <1>1, <1>2, <2>1 DEF Outcome, NoGhostSlot
  <2> QED BY <2>1, <2>2, <2>3 DEF Outcome, ResponseToRequester
<1> QED BY <1>3, <1>4, <1>5, <1>6, <1>7, <1>8 DEF WorkerStep

-----------------------------------------------------------------------------
(* The theorems.                                                           *)

\* Stuttering keeps control.
LEMMA StillControl ==
    ASSUME Control, UNCHANGED vars
    PROVE  Control'
<1>1. UNCHANGED <<phase, sent, fin, got, inbuf, backlog, edge, sock, reg, timerDue, sigpipe,
                  sigEdge, sigsLeft, linger, idle, isconn, dpc, batch, cfd, trigger, stop, queue,
                  wpc, wfd, wreq>>
  BY DEF vars, clients, kernel, conns, loop, workers
<1>2. TypeOK'
  BY <1>1 DEF Control, TypeOK
<1>3. LoopOK' /\ SignalOK'
  BY <1>1 DEF Control, LoopOK, SignalOK
<1> QED BY <1>2, <1>3 DEF Control

\* Stuttering keeps the inductive invariant.
LEMMA StillInductive ==
    ASSUME Inductive, UNCHANGED vars
    PROVE  Inductive'
<1>1. UNCHANGED <<got, inbuf, sock, reg, idle, isconn, dpc, batch, cfd, queue, wpc, wfd, wreq>>
  BY DEF vars, clients, kernel, conns, loop, workers
<1>2. \A w \in Worker, fd \in FD : Serves(w, fd)' <=> Serves(w, fd)
  BY <1>1 DEF Serves
<1>3. Ownership'
  BY <1>1, <1>2, StillStep DEF Inductive
<1>4. Outcome'
  BY <1>1 DEF Inductive, Outcome, AnswerOK, ResponseToRequester, NoGhostSlot
<1> QED BY <1>3, <1>4, StillControl DEF Inductive

\* Control is invariant, for any timer and any clients.
THEOREM ControlInvariance == Safety => []Control
<1>1. Control /\ [Next]_vars => Control'
  BY ControlEnvironment, ControlDispatcher, ControlWorker, StillControl DEF Next, Stopped
<1> QED BY <1>1, ControlInit, PTL DEF Safety

\* The inductive invariant holds of every run of the event loop, when the timer
\* is off or the clients are punctual (cgi_event_dispatcher.c:244-425).
THEOREM Invariance ==
    ASSUME TimerOn => Punctual
    PROVE  Safety => []Inductive
<1>1. Init => Inductive
  BY ControlInit, OwnershipInit, OutcomeInit DEF Inductive
<1>2. Inductive /\ [Next]_vars => Inductive'
  <2> SUFFICES ASSUME Inductive, [Next]_vars PROVE Inductive'
    OBVIOUS
  <2>1. CASE Environment
    BY <2>1, ControlEnvironment, OwnershipEnvironment, OutcomeEnvironment DEF Inductive
  <2>2. CASE DispatcherStep
    BY <2>2, ControlDispatcher, OwnershipDispatcher, OutcomeDispatcher DEF Inductive
  <2>3. ASSUME NEW w \in Worker, WorkerStep(w) PROVE Inductive'
    BY <2>3, ControlWorker, OwnershipWorker, OutcomeWorker DEF Inductive
  <2>4. CASE UNCHANGED vars
    BY <2>4, StillInductive
  <2> QED BY <2>1, <2>2, <2>3, <2>4 DEF Next, Stopped
<1> QED BY <1>1, <1>2, PTL DEF Safety

\* Variables keep their types, whatever the timer and the clients do.
THEOREM TypeCorrect == Safety => []TypeOK
<1>1. Control => TypeOK
  BY DEF Control
<1> QED BY <1>1, ControlInvariance, PTL

\* Environment and loop leave a lingering connection timed.
LEMMA LingeringLoop ==
    ASSUME TypeOK, LingeringIsTimed, Environment \/ DispatcherStep
    PROVE  LingeringIsTimed'
<1>1. UNCHANGED <<wfd, wpc>>
  BY DEF Environment, Connect, SendRequest, Shutdown, Reset, Tick, Age, Raise, DispatcherStep,
         EpollWait, AcceptBegin, AcceptConn, InitConn, AcceptEnd, HandleTimer, HandleSignal,
         HandleHup, HandleIn, BatchEnd, SweepPass, SweepFind, SweepClose, SweepReset, Finish,
         workers
<1>2. \A fd \in FD : linger'[fd] = 1 /\ idle'[fd] = "unset" =>
                        linger[fd] = 1 /\ idle[fd] = "unset"
  <2>1. CASE UNCHANGED <<linger, idle>>
    BY <2>1
  <2>2. CASE InitConn \/ SweepReset
    BY <2>2 DEF InitConn, SweepReset, TypeOK
  <2>3. CASE \E fd \in FD : Age(fd)
    BY <2>3 DEF Age, TypeOK
  <2> QED
    BY <2>1, <2>2, <2>3
    DEF Environment, Connect, SendRequest, Shutdown, Reset, Tick, Raise, DispatcherStep,
        EpollWait, AcceptBegin, AcceptConn, AcceptEnd, HandleTimer, HandleSignal,
        HandleHup, HandleIn, BatchEnd, SweepPass, SweepFind, SweepClose, Finish, conns
<1> QED BY <1>1, <1>2 DEF LingeringIsTimed

\* So does a worker.
LEMMA LingeringWorker ==
    ASSUME TypeOK, LingeringIsTimed, NEW w \in Worker, WorkerStep(w)
    PROVE  LingeringIsTimed'
<1> DEFINE About(v, fd) == wfd[v] = fd /\ wpc[v] \in {"send", "decide", "rearm", "stamp"}
<1>1. \A v \in Worker, fd \in FD : v # w /\ About(v, fd) => About(v, fd)'
  BY DEF WorkerStep, Take, RecvRequest, RecvNothing, Process, SendResponse, Decide, Rearm,
         Stamp, CloseConn, ClearConn, Goto, TypeOK
<1>2. \A fd \in FD : About(w, fd) =>
         About(w, fd)' \/ idle'[fd] # "unset" \/ linger'[fd] # 1
  BY DEF WorkerStep, Take, RecvRequest, RecvNothing, Process, SendResponse, Decide, Rearm,
         Stamp, CloseConn, ClearConn, Goto, conns, TypeOK
<1>3. \A fd \in FD : linger'[fd] = 1 /\ idle'[fd] = "unset" =>
                        (linger[fd] = 1 /\ idle[fd] = "unset") \/ About(w, fd)'
  BY DEF WorkerStep, Take, RecvRequest, RecvNothing, Process, SendResponse, Decide, Rearm,
         Stamp, CloseConn, ClearConn, Goto, conns, TypeOK
<1> HIDE DEF About
<1>4. LingeringIsTimed <=> \A fd \in FD : linger[fd] = 1 /\ idle[fd] = "unset" =>
                               \E v \in Worker : About(v, fd)
  BY DEF LingeringIsTimed, About
<1>5. LingeringIsTimed' <=> \A fd \in FD : linger'[fd] = 1 /\ idle'[fd] = "unset" =>
                               \E v \in Worker : About(v, fd)'
  BY DEF LingeringIsTimed, About
<1> QED BY <1>1, <1>2, <1>3, <1>4, <1>5

\* No connection lingers out of reach of the sweep, whoever closes or accepts its
\* descriptor in between (cgi_event_dispatcher.c:302-303, 387-389).
THEOREM LingeringAreTimed == Safety => []LingeringIsTimed
<1>1. Init => LingeringIsTimed
  BY DEF Init, LingeringIsTimed
<1>2. TypeOK /\ LingeringIsTimed /\ [Next]_vars => LingeringIsTimed'
  <2>1. ASSUME UNCHANGED vars, LingeringIsTimed PROVE LingeringIsTimed'
    BY <2>1 DEF vars, conns, workers, LingeringIsTimed
  <2> QED BY <2>1, LingeringLoop, LingeringWorker DEF Next, Stopped
<1> QED BY <1>1, <1>2, TypeCorrect, PTL DEF Safety

\* A set whose members are all equal has at most one.
LEMMA OneOf ==
    ASSUME NEW S, \A x, y \in S : x = y
    PROVE  Cardinality(S) <= 1
<1>1. CASE S = {}
  BY <1>1, FS_EmptySet
<1>2. CASE S # {}
  <2>1. PICK x \in S : TRUE
    BY <1>2
  <2>2. S = {x}
    BY <2>1
  <2> QED BY <2>2, FS_Singleton
<1> QED BY <1>1, <1>2

\* Two owners of a connection are the same.
LEMMA OwnersApart ==
    ASSUME Control, Apart, NEW fd \in FD, NEW x \in Owners(fd), NEW y \in Owners(fd)
    PROVE  x = y
<1>1. \A e \in batch : e.fd = fd /\ e.what = "in" => e = ConnEvent("in", fd) /\ fd \in InEvents
  BY DEF Control, TypeOK, Event, ListenEvent, TimerEvent, SignalEvent, ConnEvent, InEvents
<1>2. \A i \in DOMAIN queue : queue[i] = fd => fd \in Queued
  BY DEF Queued
<1>3. \A w \in Worker : wfd[w] = fd /\ wpc[w] \in Serving => Serves(w, fd)
  BY DEF Serves
<1>4. \/ fd \in InEvents /\ x = <<"event", ConnEvent("in", fd)>>
      \/ \E i \in DOMAIN queue : queue[i] = fd /\ x = <<"task", i>>
      \/ \E w \in Worker : Serves(w, fd) /\ x = <<"worker", w>>
  BY <1>1, <1>3 DEF Owners
<1>5. \/ fd \in InEvents /\ y = <<"event", ConnEvent("in", fd)>>
      \/ \E i \in DOMAIN queue : queue[i] = fd /\ y = <<"task", i>>
      \/ \E w \in Worker : Serves(w, fd) /\ y = <<"worker", w>>
  BY <1>1, <1>3 DEF Owners
<1>6. ASSUME NEW i \in DOMAIN queue, NEW j \in DOMAIN queue, queue[i] = fd, queue[j] = fd
      PROVE  i = j
  BY <1>6 DEF Apart
<1>7. ASSUME NEW v \in Worker, NEW w \in Worker, Serves(v, fd), Serves(w, fd) PROVE v = w
  BY <1>7 DEF Apart
<1>8. /\ ~(fd \in InEvents /\ fd \in Queued)
      /\ \A w \in Worker : Serves(w, fd) => fd \notin InEvents /\ fd \notin Queued
  BY DEF Apart
<1> QED BY <1>2, <1>4, <1>5, <1>6, <1>7, <1>8

\* EPOLLONESHOT gives a connection to one handler at a time, for any number of
\* clients, workers and descriptors (cgi_event_dispatcher.c:177, 220).
THEOREM ConnectionsHaveOneOwner ==
    ASSUME TimerOn => Punctual
    PROVE  Safety => []OneOwner
<1>1. Inductive => OneOwner
  <2> SUFFICES ASSUME Inductive, NEW fd \in FD
               PROVE  /\ Cardinality(Owners(fd)) <= 1
                      /\ Owners(fd) # {} => reg[fd] # "armed" /\ sock[fd] # NULL
    BY DEF OneOwner
  <2>1. Cardinality(Owners(fd)) <= 1
    BY OwnersApart, OneOf DEF Inductive, Ownership
  <2>2. Owners(fd) # {} => reg[fd] # "armed" /\ sock[fd] # NULL
    BY OwnersOwned DEF Inductive, Ownership, HeldOK
  <2> QED BY <2>1, <2>2
<1> QED BY <1>1, Invariance, PTL

\* A fired registration has someone who will re-arm or close it
\* (cgi_event_dispatcher.c:301-307, 350).
THEOREM FiredAreRemembered ==
    ASSUME TimerOn => Punctual
    PROVE  Safety => []NotStranded
<1>1. Inductive => NotStranded
  BY OwnersOwned DEF Inductive, Ownership, FiredOK, NotStranded, HupEvents
<1> QED BY <1>1, Invariance, PTL

\* handle answers through a descriptor number, which still means the client that
\* asked (cgi_event_dispatcher.c:247, 293).
THEOREM AnswersReachTheRequester ==
    ASSUME TimerOn => Punctual
    PROVE  Safety => []ResponseToRequester
<1>1. Inductive => ResponseToRequester
  BY DEF Inductive, Outcome
<1> QED BY <1>1, Invariance, PTL

\* A slot in use has a socket or is about to be cleared
\* (cgi_event_dispatcher.c:305-306, 394-396).
THEOREM SlotsFollowSockets ==
    ASSUME TimerOn => Punctual
    PROVE  Safety => []NoGhostSlot
<1>1. Inductive => NoGhostSlot
  BY DEF Inductive, Outcome
<1> QED BY <1>1, Invariance, PTL

\* The sweep closes no connection that an event, a task or a worker has
\* (cgi_event_dispatcher.c:391-396).
THEOREM SweepSparesTheBusy ==
    ASSUME TimerOn => Punctual
    PROVE  Safety => []SweepClosesIdleOnly
<1>1. Inductive => SweepClosesIdleOnly
  BY OwnersOwned DEF SweepClosesIdleOnly, Inductive, Ownership, AloneOK, Control, LoopOK
<1> QED BY <1>1, Invariance, PTL
=============================================================================
