----------------------------- MODULE Dispatcher -----------------------------
(***************************************************************************)
(* The event loop of src/cgi_event_dispatcher.c and the connection handler *)
(* its thread pool runs, with the clients and the part of the kernel they  *)
(* meet in: descriptors that are reused as soon as they are closed, and    *)
(* one-shot, edge-triggered epoll registrations.                           *)
(*                                                                         *)
(* The dispatcher thread handles the events of one epoll_wait one by one,  *)
(* then sweeps the connections that have timed out.  A worker runs handle  *)
(* on connections[fd]; connection fields, sockets and registrations are    *)
(* reached by descriptor number and under no lock, so every access that    *)
(* another thread can come between is an action of its own.                *)
(*                                                                         *)
(* A request says only whether it asks for keep-alive; what its handler    *)
(* computes is left out.  400 and 404 answers behave as "plain".  Requests *)
(* are not pipelined and arrive whole.  The pool is the first-in first-out *)
(* queue of TaskQueue.                                                     *)
(***************************************************************************)
EXTENDS Naturals, Sequences, FiniteSets

CONSTANTS
    Client,
    Worker,
    FDs,          \* descriptors 1..FDs are left for connections
    MaxRequests,  \* bound: requests per client
    TimerOn,      \* Dispatcher.init was given a connection_timeout > 0
    Punctual,     \* see Quiet
    Hups,         \* bound: how many SIGHUPs the operator sends
    NULL

ASSUME FDAssumption == FDs \in Nat \ {0}
ASSUME BoundAssumption == MaxRequests \in Nat /\ Hups \in Nat
ASSUME ModeAssumption == TimerOn \in BOOLEAN /\ Punctual \in BOOLEAN
ASSUME NullAssumption == NULL \notin Client

FD == 1..FDs
Kind == {"ka", "plain"}   \* with or without "Connection: Keep-Alive"

VARIABLES
    \* the clients
    phase,     \* "new", "ready" to send, "waiting" for the answer, "ended"
    sent,      \* requests sent so far
    fin,       \* the client has shut down its side
    got,       \* whose requests the answers it received belong to
    \* the kernel
    inbuf,     \* the request that waits in the client's socket, or "none"
    backlog,   \* connections to be accepted
    edge,      \* the listening socket has news for epoll
    sock,      \* the connection a descriptor refers to
    reg,       \* its epoll registration: "none", "armed", "fired"
    timerDue,  \* timerfd is readable
    sigpipe,   \* the self-pipe of the signal handler, one byte per signal
    sigEdge,   \* it has news for epoll
    sigsLeft,  \* the signals the operator may still send
    \* the dispatcher
    linger, idle, isconn,   \* connections[fd].linger, .idle_start, isconn[fd]
    dpc, batch, cfd, trigger, stop,
    \* the pool
    queue,
    wpc, wfd, wreq

clients == <<phase, sent, fin, got>>
kernel == <<inbuf, backlog, edge, sock, reg, timerDue, sigpipe, sigEdge, sigsLeft>>
signals == <<sigpipe, sigEdge, sigsLeft>>
conns == <<linger, idle, isconn>>
loop == <<dpc, batch, cfd, trigger, stop>>
workers == <<wpc, wfd, wreq>>
vars == <<clients, kernel, conns, loop, queue, workers>>

NoFd == 0
ListenEvent == [what |-> "listen", fd |-> NoFd]
TimerEvent == [what |-> "timer", fd |-> NoFd]
SignalEvent == [what |-> "signal", fd |-> NoFd]
ConnEvent(what, fd) == [what |-> what, fd |-> fd]
Event == {ListenEvent, TimerEvent, SignalEvent}
         \cup [what : {"in", "hup"}, fd : FD]
Signals == {"HUP", "TERM"}
Request == [client : Client, kind : Kind]

Init ==
    /\ phase = [c \in Client |-> "new"]
    /\ sent = [c \in Client |-> 0]
    /\ fin = [c \in Client |-> FALSE]
    /\ got = [c \in Client |-> {}]
    /\ inbuf = [c \in Client |-> "none"]
    /\ backlog = <<>>
    /\ edge = FALSE
    /\ sock = [fd \in FD |-> NULL]
    /\ reg = [fd \in FD |-> "none"]
    /\ timerDue = FALSE
    /\ sigpipe = <<>>
    /\ sigEdge = FALSE
    /\ sigsLeft = [s \in Signals |-> IF s = "HUP" THEN Hups ELSE 1]
    /\ linger = [fd \in FD |-> 0]
    /\ idle = [fd \in FD |-> "unset"]
    /\ isconn = [fd \in FD |-> 0]
    /\ dpc = "wait"
    /\ batch = {}
    /\ cfd = NoFd
    /\ trigger = FALSE
    /\ stop = FALSE
    /\ queue = <<>>
    /\ wpc = [w \in Worker |-> "idle"]
    /\ wfd = [w \in Worker |-> NoFd]
    /\ wreq = [w \in Worker |-> NULL]

-----------------------------------------------------------------------------
\* Who still has business with the connection a descriptor refers to: an
\* event of the batch, a queued task, or a worker that has not let go of it.
Serving == {"recv", "process", "send", "decide", "rearm", "close"}

Owners(fd) ==
    {<<"event", e>> : e \in {x \in batch : x.fd = fd /\ x.what = "in"}}
    \cup {<<"task", i>> : i \in {j \in DOMAIN queue : queue[j] = fd}}
    \cup {<<"worker", w>> : w \in {v \in Worker : wfd[v] = fd /\ wpc[v] \in Serving}}

\* An environment assumption some runs make: no request reaches a connection
\* whose idle time has run out, and none takes as long as the timeout.
Quiet(fd) ==
    /\ Owners(fd) = {}
    /\ sock[fd] # NULL => inbuf[sock[fd]] = "none"

Connected(c) ==
    \/ \E i \in DOMAIN backlog : backlog[i] = c
    \/ \E fd \in FD : sock[fd] = c

-----------------------------------------------------------------------------
\* The clients, time and the operator.
Connect(c) ==
    /\ phase[c] = "new"
    /\ phase' = [phase EXCEPT ![c] = "ready"]
    /\ backlog' = Append(backlog, c)
    /\ edge' = TRUE
    /\ UNCHANGED <<sent, fin, got, inbuf, sock, reg, timerDue, signals, conns,
                   loop, queue, workers>>

SendRequest(c, kind) ==
    /\ phase[c] = "ready"
    /\ ~fin[c]
    /\ Connected(c)
    /\ sent[c] < MaxRequests
    /\ Punctual => \A fd \in FD : sock[fd] = c => idle[fd] # "stale"
    /\ phase' = [phase EXCEPT ![c] = "waiting"]
    /\ sent' = [sent EXCEPT ![c] = @ + 1]
    /\ inbuf' = [inbuf EXCEPT ![c] = kind]
    /\ UNCHANGED <<fin, got, backlog, edge, sock, reg, timerDue, signals, conns,
                   loop, queue, workers>>

Shutdown(c) ==
    /\ phase[c] # "new"
    /\ ~fin[c]
    /\ fin' = [fin EXCEPT ![c] = TRUE]
    /\ UNCHANGED <<phase, sent, got, kernel, conns, loop, queue, workers>>

\* The client breaks the connection off: what it has sent is lost.
Reset(c) ==
    /\ ~fin[c]
    /\ inbuf[c] # "none"
    /\ fin' = [fin EXCEPT ![c] = TRUE]
    /\ inbuf' = [inbuf EXCEPT ![c] = "none"]
    /\ UNCHANGED <<phase, sent, got, backlog, edge, sock, reg, timerDue, signals,
                   conns, loop, queue, workers>>

Tick ==
    /\ TimerOn
    /\ timerDue' = TRUE
    /\ UNCHANGED <<clients, inbuf, backlog, edge, sock, reg, signals, conns,
                   loop, queue, workers>>

\* connection_timeout has passed since idle_start.
Age(fd) ==
    /\ TimerOn
    /\ idle[fd] = "fresh"
    /\ Punctual => Quiet(fd)
    /\ idle' = [idle EXCEPT ![fd] = "stale"]
    /\ UNCHANGED <<clients, kernel, linger, isconn, loop, queue, workers>>

\* cgi_event_dispatcher_signal_handler: the signal's byte into the pipe.
Raise(s) ==
    /\ sigsLeft[s] > 0
    /\ sigsLeft' = [sigsLeft EXCEPT ![s] = @ - 1]
    /\ sigpipe' = Append(sigpipe, s)
    /\ sigEdge' = TRUE
    /\ UNCHANGED <<clients, inbuf, backlog, edge, sock, reg, timerDue, conns,
                   loop, queue, workers>>

-----------------------------------------------------------------------------
\* close(fd): the connection is gone and its epoll registration with it.
CloseFd(fd) ==
    /\ sock' = [sock EXCEPT ![fd] = NULL]
    /\ reg' = [reg EXCEPT ![fd] = "none"]

\* epoll_wait: an armed registration reports what its socket has, once.
Ready(fd) ==
    /\ reg[fd] = "armed"
    /\ sock[fd] # NULL
    /\ inbuf[sock[fd]] # "none" \/ fin[sock[fd]]

Reported ==
    {[what |-> IF fin[sock[fd]] THEN "hup" ELSE "in", fd |-> fd] :
        fd \in {x \in FD : Ready(x)}}
    \cup {e \in {ListenEvent} : edge}
    \cup {e \in {TimerEvent} : timerDue}
    \cup {e \in {SignalEvent} : sigEdge}

NoOneshot ==   \* mutant: connections are registered without EPOLLONESHOT
    /\ dpc = "wait"
    /\ Reported # {}
    /\ batch' = Reported
    /\ edge' = FALSE
    /\ sigEdge' = FALSE
    /\ dpc' = "batch"
    /\ UNCHANGED <<clients, inbuf, backlog, sock, reg, timerDue, sigpipe, sigsLeft,
                   conns, cfd, trigger, stop, queue, workers>>

EpollWait ==
    /\ dpc = "wait"
    /\ Reported # {}
    /\ batch' = Reported
    /\ reg' = [fd \in FD |-> IF Ready(fd) THEN "fired" ELSE reg[fd]]
    /\ edge' = FALSE
    /\ sigEdge' = FALSE
    /\ dpc' = "batch"
    /\ UNCHANGED <<clients, inbuf, backlog, sock, timerDue, sigpipe, sigsLeft, conns,
                   cfd, trigger, stop, queue, workers>>

\* The accept loop: until the backlog is empty or accept fails for want of a
\* descriptor, in which case what is left waits for the next edge.
AcceptBegin ==
    /\ dpc = "batch"
    /\ ListenEvent \in batch
    /\ batch' = batch \ {ListenEvent}
    /\ dpc' = "accept"
    /\ UNCHANGED <<clients, kernel, conns, cfd, trigger, stop, queue, workers>>

\* accept and addfd ...
AcceptConn(fd) ==
    /\ dpc = "accept"
    /\ backlog # <<>>
    /\ sock[fd] = NULL
    /\ sock' = [sock EXCEPT ![fd] = Head(backlog)]
    /\ reg' = [reg EXCEPT ![fd] = "armed"]
    /\ backlog' = Tail(backlog)
    /\ cfd' = fd
    /\ dpc' = "init"
    /\ UNCHANGED <<clients, inbuf, edge, timerDue, signals, conns, batch,
                   trigger, stop, queue, workers>>

\* ... then cgi_http_connection_init5 and isconn.
InitConn ==
    /\ dpc = "init"
    /\ linger' = [linger EXCEPT ![cfd] = 0]
    /\ idle' = [idle EXCEPT ![cfd] = "unset"]
    /\ isconn' = [isconn EXCEPT ![cfd] = 1]
    /\ dpc' = "accept"
    /\ UNCHANGED <<clients, kernel, batch, cfd, trigger, stop, queue, workers>>

AcceptEnd ==
    /\ dpc = "accept"
    /\ backlog = <<>> \/ \A fd \in FD : sock[fd] # NULL
    /\ dpc' = "batch"
    /\ UNCHANGED <<clients, kernel, conns, batch, cfd, trigger, stop, queue, workers>>

\* cgi_event_dispatcher_reset_timer.
HandleTimer ==
    /\ dpc = "batch"
    /\ TimerEvent \in batch
    /\ batch' = batch \ {TimerEvent}
    /\ timerDue' = FALSE
    /\ trigger' = TRUE
    /\ UNCHANGED <<clients, inbuf, backlog, edge, sock, reg, signals, conns,
                   dpc, cfd, stop, queue, workers>>

\* RDHUP, HUP, ERR: the descriptor leaves epoll, but is not closed.
HandleHup(fd) ==
    /\ dpc = "batch"
    /\ ConnEvent("hup", fd) \in batch
    /\ batch' = batch \ {ConnEvent("hup", fd)}
    /\ reg' = [reg EXCEPT ![fd] = "none"]
    /\ UNCHANGED <<clients, inbuf, backlog, edge, sock, timerDue, signals, conns,
                   dpc, cfd, trigger, stop, queue, workers>>

\* One byte is read for one event, however many the pipe holds.  SIGHUP loads
\* the routes again, which concerns no connection.
SignalIgnored ==   \* mutant: SIGTERM is read and forgotten
    /\ dpc = "batch"
    /\ SignalEvent \in batch
    /\ batch' = batch \ {SignalEvent}
    /\ sigpipe' = IF sigpipe = <<>> THEN <<>> ELSE Tail(sigpipe)
    /\ UNCHANGED <<clients, inbuf, backlog, edge, sock, reg, timerDue, sigEdge,
                   sigsLeft, conns, dpc, cfd, trigger, stop, queue, workers>>

HandleSignal ==
    /\ dpc = "batch"
    /\ SignalEvent \in batch
    /\ batch' = batch \ {SignalEvent}
    /\ sigpipe' = Tail(sigpipe)
    /\ stop' = (stop \/ Head(sigpipe) = "TERM")
    /\ UNCHANGED <<clients, inbuf, backlog, edge, sock, reg, timerDue, sigEdge,
                   sigsLeft, conns, dpc, cfd, trigger, queue, workers>>

\* Async.run(handle, connections + fd).
HandleIn(fd) ==
    /\ dpc = "batch"
    /\ ConnEvent("in", fd) \in batch
    /\ batch' = batch \ {ConnEvent("in", fd)}
    /\ queue' = Append(queue, fd)
    /\ UNCHANGED <<clients, kernel, conns, dpc, cfd, trigger, stop, workers>>

\* The end of one turn of the loop.
Turn == IF stop THEN "finish" ELSE "wait"

BatchEnd ==
    /\ dpc = "batch"
    /\ batch = {}
    /\ dpc' = IF trigger THEN "sweep" ELSE Turn
    /\ cfd' = IF trigger THEN 1 ELSE NoFd
    /\ UNCHANGED <<clients, kernel, conns, batch, trigger, stop, queue, workers>>

-----------------------------------------------------------------------------
\* The timeout sweep, one descriptor after the other: look, close, reset.
OffByOne ==   \* mutant: the sweep runs up to CGI_CONNECTION_SIZE itself
    /\ cfd' = IF cfd = FDs + 1 THEN NoFd ELSE cfd + 1
    /\ trigger' = (cfd # FDs + 1)
    /\ dpc' = IF cfd = FDs + 1 THEN Turn ELSE "sweep"

SweepNext ==
    /\ cfd' = IF cfd = FDs THEN NoFd ELSE cfd + 1
    /\ trigger' = (cfd # FDs)
    /\ dpc' = IF cfd = FDs THEN Turn ELSE "sweep"

AnyInUse(fd) == isconn[fd] = 1   \* mutant: idle_start is not looked at

Expired(fd) == isconn[fd] = 1 /\ idle[fd] = "stale"

SweepPass ==
    /\ dpc = "sweep"
    /\ ~Expired(cfd)
    /\ SweepNext
    /\ UNCHANGED <<clients, kernel, conns, batch, stop, queue, workers>>

SweepFind ==
    /\ dpc = "sweep"
    /\ Expired(cfd)
    /\ dpc' = "close"
    /\ UNCHANGED <<clients, kernel, conns, batch, cfd, trigger, stop, queue, workers>>

SweepClose ==
    /\ dpc = "close"
    /\ CloseFd(cfd)
    /\ dpc' = "reset"
    /\ UNCHANGED <<clients, inbuf, backlog, edge, timerDue, signals, conns,
                   batch, cfd, trigger, stop, queue, workers>>

SlotKept ==   \* mutant: the sweep closes without clearing isconn
    /\ dpc = "reset"
    /\ linger' = [linger EXCEPT ![cfd] = 0]
    /\ idle' = [idle EXCEPT ![cfd] = "unset"]
    /\ SweepNext
    /\ UNCHANGED <<clients, kernel, isconn, batch, stop, queue, workers>>

SweepReset ==
    /\ dpc = "reset"
    /\ linger' = [linger EXCEPT ![cfd] = 0]
    /\ idle' = [idle EXCEPT ![cfd] = "unset"]
    /\ isconn' = [isconn EXCEPT ![cfd] = 0]
    /\ SweepNext
    /\ UNCHANGED <<clients, kernel, batch, stop, queue, workers>>

\* Async.finish: the queue is drained and the workers joined.
Finish ==
    /\ dpc = "finish"
    /\ queue = <<>>
    /\ \A w \in Worker : wpc[w] = "idle"
    /\ dpc' = "stopped"
    /\ UNCHANGED <<clients, kernel, conns, batch, cfd, trigger, stop, queue, workers>>

-----------------------------------------------------------------------------
\* handle(connections + fd), by a worker.
Goto(w, l) == wpc' = [wpc EXCEPT ![w] = l]

Take(w) ==
    /\ wpc[w] = "idle"
    /\ queue # <<>>
    /\ wfd' = [wfd EXCEPT ![w] = Head(queue)]
    /\ queue' = Tail(queue)
    /\ Goto(w, "recv")
    /\ UNCHANGED <<clients, kernel, conns, loop, wreq>>

\* recv: a request, or nothing (a connection reset, a closed descriptor).
RecvRequest(w) ==
    LET c == sock[wfd[w]] IN
    /\ wpc[w] = "recv"
    /\ c # NULL
    /\ inbuf[c] # "none"
    /\ wreq' = [wreq EXCEPT ![w] = [client |-> c, kind |-> inbuf[c]]]
    /\ inbuf' = [inbuf EXCEPT ![c] = "none"]
    /\ Goto(w, "process")
    /\ UNCHANGED <<clients, backlog, edge, sock, reg, timerDue, signals, conns,
                   loop, queue, wfd>>

RecvNothing(w) ==
    LET c == sock[wfd[w]] IN
    /\ wpc[w] = "recv"
    /\ c # NULL => inbuf[c] = "none"
    /\ Goto(w, "decide")
    /\ UNCHANGED <<clients, kernel, conns, loop, queue, wfd, wreq>>

\* The handler has made its response; a keep-alive request sets linger.
Process(w) ==
    /\ wpc[w] = "process"
    /\ linger' = IF wreq[w].kind = "ka" THEN [linger EXCEPT ![wfd[w]] = 1] ELSE linger
    /\ Goto(w, "send")
    /\ UNCHANGED <<clients, kernel, idle, isconn, loop, queue, wfd, wreq>>

\* responseWrite, to whatever the descriptor refers to by now.
SendResponse(w) ==
    LET c == sock[wfd[w]] IN
    /\ wpc[w] = "send"
    /\ got' = IF c = NULL THEN got ELSE [got EXCEPT ![c] = @ \cup {wreq[w].client}]
    /\ phase' = IF c = NULL THEN phase
                ELSE [phase EXCEPT ![c] = IF @ # "waiting" THEN @
                                          ELSE IF wreq[w].kind = "ka" THEN "ready"
                                          ELSE "ended"]
    /\ wreq' = [wreq EXCEPT ![w] = NULL]
    /\ Goto(w, "decide")
    /\ UNCHANGED <<sent, fin, kernel, conns, loop, queue, wfd>>

Decide(w) ==
    /\ wpc[w] = "decide"
    /\ Goto(w, IF linger[wfd[w]] = 1 THEN "rearm" ELSE "close")
    /\ UNCHANGED <<clients, kernel, conns, loop, queue, wfd, wreq>>

\* EPOLL_CTL_MOD fails, unnoticed, on a descriptor that is not registered.
NotRearmed(w) ==   \* mutant: a lingering connection is not armed again
    /\ wpc[w] = "rearm"
    /\ Goto(w, "stamp")
    /\ UNCHANGED <<clients, kernel, conns, loop, queue, wfd, wreq>>

Rearm(w) ==
    /\ wpc[w] = "rearm"
    /\ reg' = IF reg[wfd[w]] = "none" THEN reg ELSE [reg EXCEPT ![wfd[w]] = "armed"]
    /\ Goto(w, "stamp")
    /\ UNCHANGED <<clients, inbuf, backlog, edge, sock, timerDue, signals, conns,
                   loop, queue, wfd, wreq>>

NotStamped(w) ==   \* mutant: the connection is armed again, the time not taken
    /\ wpc[w] = "stamp"
    /\ wfd' = [wfd EXCEPT ![w] = NoFd]
    /\ Goto(w, "idle")
    /\ UNCHANGED <<clients, kernel, conns, loop, queue, wreq>>

Stamp(w) ==
    /\ wpc[w] = "stamp"
    /\ idle' = [idle EXCEPT ![wfd[w]] = "fresh"]
    /\ wfd' = [wfd EXCEPT ![w] = NoFd]
    /\ Goto(w, "idle")
    /\ UNCHANGED <<clients, kernel, linger, isconn, loop, queue, wreq>>

CloseConn(w) ==
    /\ wpc[w] = "close"
    /\ CloseFd(wfd[w])
    /\ Goto(w, "clear")
    /\ UNCHANGED <<clients, inbuf, backlog, edge, timerDue, signals, conns,
                   loop, queue, wfd, wreq>>

NotCleared(w) ==   \* mutant: the connection is closed, its slot stays in use
    /\ wpc[w] = "clear"
    /\ wfd' = [wfd EXCEPT ![w] = NoFd]
    /\ Goto(w, "idle")
    /\ UNCHANGED <<clients, kernel, conns, loop, queue, wreq>>

ClearConn(w) ==
    /\ wpc[w] = "clear"
    /\ isconn' = [isconn EXCEPT ![wfd[w]] = 0]
    /\ wfd' = [wfd EXCEPT ![w] = NoFd]
    /\ Goto(w, "idle")
    /\ UNCHANGED <<clients, kernel, linger, idle, loop, queue, wreq>>

-----------------------------------------------------------------------------
Stopped == dpc = "stopped" /\ UNCHANGED vars

Environment ==
    \/ \E c \in Client :
          Connect(c) \/ Shutdown(c) \/ Reset(c) \/ \E kind \in Kind : SendRequest(c, kind)
    \/ Tick
    \/ \E fd \in FD : Age(fd)
    \/ \E s \in Signals : Raise(s)

DispatcherStep ==
    \/ EpollWait
    \/ AcceptBegin \/ (\E fd \in FD : AcceptConn(fd)) \/ InitConn \/ AcceptEnd
    \/ HandleTimer \/ HandleSignal
    \/ \E fd \in FD : HandleHup(fd) \/ HandleIn(fd)
    \/ BatchEnd
    \/ SweepPass \/ SweepFind \/ SweepClose \/ SweepReset
    \/ Finish

WorkerStep(w) ==
    \/ Take(w) \/ RecvRequest(w) \/ RecvNothing(w) \/ Process(w)
    \/ SendResponse(w) \/ Decide(w)
    \/ Rearm(w) \/ Stamp(w) \/ CloseConn(w) \/ ClearConn(w)

Next ==
    \/ Environment
    \/ DispatcherStep
    \/ \E w \in Worker : WorkerStep(w)
    \/ Stopped

Safety == Init /\ [][Next]_vars

\* The dispatcher and the workers are scheduled, time passes and the timer
\* ticks; clients and the operator do as they like.
Spec ==
    /\ Safety
    /\ WF_vars(DispatcherStep)
    /\ \A w \in Worker : WF_vars(WorkerStep(w))
    /\ WF_vars(Tick /\ ~timerDue)
    /\ \A fd \in FD : WF_vars(Age(fd))

-----------------------------------------------------------------------------
TypeOK ==
    /\ phase \in [Client -> {"new", "ready", "waiting", "ended"}]
    /\ sent \in [Client -> 0..MaxRequests]
    /\ fin \in [Client -> BOOLEAN]
    /\ got \in [Client -> SUBSET Client]
    /\ inbuf \in [Client -> Kind \cup {"none"}]
    /\ backlog \in Seq(Client)
    /\ edge \in BOOLEAN
    /\ sock \in [FD -> Client \cup {NULL}]
    /\ reg \in [FD -> {"none", "armed", "fired"}]
    /\ timerDue \in BOOLEAN
    /\ sigpipe \in Seq(Signals)
    /\ sigEdge \in BOOLEAN
    /\ sigsLeft \in [Signals -> Nat]
    /\ linger \in [FD -> 0..1]
    /\ idle \in [FD -> {"unset", "fresh", "stale"}]
    /\ isconn \in [FD -> 0..1]
    /\ dpc \in {"wait", "batch", "accept", "init", "sweep", "close", "reset",
                "finish", "stopped"}
    /\ batch \subseteq Event
    /\ cfd \in FD \cup {NoFd}
    /\ trigger \in BOOLEAN
    /\ stop \in BOOLEAN
    /\ queue \in Seq(FD)
    /\ wpc \in [Worker -> Serving \cup {"idle", "stamp", "clear"}]
    /\ wfd \in [Worker -> FD \cup {NoFd}]
    /\ wreq \in [Worker -> Request \cup {NULL}]

\* EPOLLONESHOT (cgi_event_dispatcher.c:177, 220) makes a connection belong to
\* one handler at a time: while an event, a task or a worker has it, nothing
\* else does and no further event can fire.
OneOwner ==
    \A fd \in FD :
        /\ Cardinality(Owners(fd)) <= 1
        /\ Owners(fd) # {} => reg[fd] # "armed" /\ sock[fd] # NULL

\* A registration that has fired is dead until someone re-arms it
\* (cgi_event_dispatcher.c:301-307, 350): whoever has to do so still exists.
NotStranded ==
    \A fd \in FD : reg[fd] = "fired" =>
        Owners(fd) # {} \/ ConnEvent("hup", fd) \in batch

\* handle answers through a descriptor number (cgi_event_dispatcher.c:247, 293)
\* that may have changed hands: every answer a client gets is to its own request.
ResponseToRequester == \A c \in Client : got[c] \subseteq {c}

\* A slot marked as in use without a socket is about to be cleared
\* (cgi_event_dispatcher.c:305-306, 394-396): the sweep closes no stranger.
NoGhostSlot ==
    \A fd \in FD : isconn[fd] = 1 /\ sock[fd] = NULL =>
        \/ \E w \in Worker : wpc[w] = "clear" /\ wfd[w] = fd
        \/ dpc = "reset" /\ cfd = fd

\* A connection that lingers is within reach of the sweep, which passes over one
\* whose idle_start is not set (cgi_event_dispatcher.c:389): it has been
\* stamped, or the worker that answered will do so, though by then the
\* descriptor may have been closed, accepted anew or swept (:75-107, 302-303,
\* 395).
LingeringIsTimed ==
    \A fd \in FD : linger[fd] = 1 /\ idle[fd] = "unset" =>
        \E w \in Worker : wfd[w] = fd /\ wpc[w] \in {"send", "decide", "rearm", "stamp"}

\* Every request of an accepted connection is answered, unless the client has
\* hung up or the server is told to stop.
Served ==
    \A c \in Client :
        (phase[c] = "waiting" /\ \E fd \in FD : sock[fd] = c)
        ~> (phase[c] # "waiting" \/ fin[c] \/ stop)

\* A SIGTERM ends the server (cgi_event_dispatcher.c:370-373, 405).
StopEnds == (sigsLeft["TERM"] = 0) ~> dpc = "stopped"

\* cgi_event_dispatcher.c:131 "default connection timeout": a connection that
\* lingers with nothing going on is closed in the end.
IdleTimesOut ==
    \A c \in Client :
        (\E fd \in FD : sock[fd] = c /\ idle[fd] # "unset" /\ sent[c] = MaxRequests
                        /\ Quiet(fd))
        ~> (stop \/ \A fd \in FD : sock[fd] # c)

\* cgi_event_dispatcher.c:397 "(fd : %d) is timeout." and idle_start in cgi.h:
\* what the sweep closes is a connection that no event of the batch, no task of
\* the queue and no worker has.
SweepClosesIdleOnly == dpc = "close" => Owners(cfd) = {}
=============================================================================
