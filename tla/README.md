# web-server-cgi-facebooc: models, checks and proofs

The repository is a small event-driven HTTP server in C (`src/src`, `src/include`) that loads
its request handlers from shared objects (`src/web/src`) and, with them, runs a social site over
one SQLite file. This directory keeps its TLA+ models, the TLC configurations that check them
and the TLAPS proofs about them. Paths in this file are relative to `src/`.

## 1. The system

A request goes through the whole of it:

    client --accept--> dispatcher thread --Async.run--> worker: recv, requestNew, session lookup,
    trie lookup, plugin (SQL statements on the shared connection), responseWrite,
    then re-arm the descriptor or close it

| Component | Source | State | Operations |
|---|---|---|---|
| Thread pool | `src/cgi_async.c` | two linked lists of containers (queue, free list), `run`, a non-blocking pipe for wakeups, the threads | create, run, signal, wait, finish |
| Event dispatcher | `src/cgi_event_dispatcher.c` | epoll set, `connections[]`, `isconn[]`, timerfd, signal pipe | init, addfd, modfd, rmfd, addpipe, addsig, start (the loop) |
| Connection handler | `handle` in the same file | the connection it is given: `linger`, `idle_start` | one run per readable connection |
| Models | `src/models/*.c`, `src/db.c` | the tables accounts, sessions, connections, posts, likes | create, find, delete, list |
| Plugins | `web/src/*.c` | none of their own | one handler per route |
| Route trie | `src/cgi_url_dltrie.c` | a tree of path parts with `dlopen` handlers, process-wide | load, insert, find |
| Request | `src/request.c`, `src/kv.c`, `src/list.c` | the request; `strtok`'s, hidden and process-wide | parse |
| Response | `src/response.c` | status, header list, body | add header, set cookie, write |
| Template, byte strings | `src/template.c`, `src/bs.c` | one buffer each | render, escape, random |
| Factory | `src/cgi_factory.c` | none | create, destroy |
| Main program | `test/cgi_server_test.c` | sockets | set up, start, clean up |
| Old HTTP parser, parameter list | `src/cgi_http_parser.c`, `src/cgi_param_slist.c` | | not built, or not called |

How they meet:

- The **dispatcher thread** alone accepts, reads events, handles signals and sweeps idle
  connections; **workers** run `handle`. They share `connections[fd]`, `isconn[fd]` and the epoll
  set without a lock; what keeps them apart is `EPOLLONESHOT`.
- The pool has one lock, around the lists. The wakeup byte, the test of `run` and the blocking
  `read` are outside it.
- All workers share one SQLite connection. A statement is atomic; a handler is not, since none opens
  a transaction.
- A signal becomes one byte in a pipe that epoll watches.
- A process that ends (`SIGTERM`, a kill, a NULL handler) leaves the database file and the
  browsers' cookies; sessions are rows, so they survive.

What is hard here: the order of steps of the dispatcher and two workers on one descriptor
number, which the kernel hands out again as soon as it is free; wakeups that are sent outside
the lock and may be dropped by a full pipe; shutting down while workers sleep or are about to;
timeouts that race requests; checks and inserts that are separate statements; session ids that
repeat after a restart; a route tree that is written while it is searched; a tokenizer whose
position is one variable for all threads. `PROJECT.json` lists each hazard at its line, with the properties that
would catch it going wrong.

What makes each of them correct:

| Component | Correct when |
|---|---|
| Thread pool | a submitted task runs exactly once, in order; no task waits while every thread sleeps; `finish` returns, with every thread exited and every container freed |
| Event dispatcher and handler | a connection has one owner at a time; whoever must re-arm or close it still exists; an answer goes to the client that asked; idle connections, and only they, are closed by the sweep; SIGTERM ends the loop |
| Models and plugins | addresses and user names are unique; what sign-up answers is true; a cookie stands for an account of its user, and for the same one, also after a restart; the dashboard shows what the connections say; unlike undoes like |
| Route trie | a lookup finds the handler that was loaded for the path, also while the routes are loaded again |
| Request | what a handler sees is what the browser sent, whatever was typed into it and whatever other threads parse; only bad requests are refused |
| Response | a connection that stays open says how long the body is |
| Template | variables, includes and `when` clauses are replaced and the rest of the text, what users typed included, is left as it was |

## 2. The modules

| Module | Models | How it is connected |
|---|---|---|
| `TaskQueue` | what the pool promises: tasks begin in order, at most N at once, each once, closing last | |
| `Async` | the pool as it is written, to the `next` pointers | implements `TaskQueue` |
| `Dispatcher` | event loop, connection handler, clients, and their part of the kernel | |
| `Server` | the event loop over the pool, where they call each other | composes `Dispatcher` and `TaskQueue`, implements `Dispatcher` |
| `Facebooc` | plugins over the database, with browsers and restarts | |
| `RouteTable` | what the trie promises: a map from paths to handlers | |
| `Trie` | the route trie node by node, with a reload in parallel to searches | implements `RouteTable` |
| `Tokens` | texts, `strtok_r`, lists of pairs | |
| `Request` | `requestNew`, one action per `strtok` | extends `Tokens` |
| `Template` | `templateRender` as a function of a file and a context | extends `Tokens` |
| `Pages` | the answers of the plugins | extends `Template` |
| `Handling` | what a worker does with a request, from `recv` to `responseWrite` | extends `Trie`, `Request`, `Pages` |
| `Uptime` | that the process runs, has crashed or has exited | extended by `Trie`, `Tokens` |
| `AsyncProofs`, `DispatcherProofs`, `ServerProofs`, `FacebooProofs`, `TrieProofs` | theorems | extend the module they are about |
| `TokensProofs` | lemmas about `strtok_r` and texts, and that a page is rendered as its file says | extends `Template` |
| `ParsingProofs` | theorems about the parser, on the requests of `Handling` | extends `Handling`, `TokensProofs` |
| `HandlingProofs` | theorems about answers, and about the trie below `Handling` | extends `ParsingProofs`, `TrieProofs` |
| `MCDispatcher`, `MCFacebooc`, `MCHandling` | definitions of the instances for TLC | |

`Dispatcher`, `Facebooc` and `Handling` are three views of one process. `Dispatcher` has a connection's
whole life and takes what is computed for a request as one step; `Handling` has that step and a
connection only as far as it stays open; `Facebooc` has the statements a plugin makes in it. They share
no state, except that a request keeps its connection alive or does not, that a path without a route
ends the process, and who the session says is logged in.

### Async

Thread 0 is the owner, the dispatcher, which creates the threads, submits and shuts down; threads
1..Threads run `worker_thread_cycle`. A critical section is one action (`Submit`, `Grab`), each
thing outside it another: `Wake` (the byte after the unlock), `CheckRun`, `ReadByte`, `Perform`
(the task itself). `next`, `arg` and `alloc` are the heap; `tasks`, `pool`, `pos` the fields of
`struct Async`, with `pos` uninitialised at first as in the code. `PipeAfter` is a non-blocking
write: all of the bytes or, when they do not fit, none. `CreateFails` is the error path of
`async_create`. `submitted`, `begun` and `finished` are history, for the refinement and the
invariants.

### Dispatcher

Every access to what the threads share is an action: `EpollWait`, the accept loop
(`AcceptConn`, then `InitConn`, because the descriptor is in epoll before its slot is initialised),
`HandleTimer`, `HandleHup`, `HandleSignal`, `HandleIn`, the sweep (`SweepFind`, `SweepClose`,
`SweepReset`), and a worker's `Take`, `Recv...`, `Process`, `SendResponse`, `Decide`, `Rearm`, `Stamp`,
`CloseConn`, `ClearConn`. The kernel is what the code relies on: a closed number is free
again at once, `close` drops the registration, a one-shot registration fires once, edge-triggered
sockets report once per arrival. `idle_start` has three values: "unset", "fresh", and "stale" once
the timeout has passed. Requests carry only whether they ask for keep-alive, which is all the loop
looks at; a 400 or 404 leaves `linger` as it was and behaves like a plain request.

### Server

`Server` has the variables of `Dispatcher` except its queue, and those of `TaskQueue`. They meet in four
actions: `Run` (`Async.run(handle, connections + fd)`) is a submission, `Enter` begins a task and enters
`handle` with its connection, `Return` ends it, `Stop` is `Async.finish`, which returns when the pool has
closed. Everything else is an action of one side. `args` remembers which connection a task has; the
queue `Dispatcher` speaks of is the part of `args` that has not begun.

### Facebooc

One SQL statement is one action, and a plugin a path through `pc`. A table is a sequence, its row
ids the indices; posts have the second in which they were made (`Second`), which neither grows with the
row ids nor tells posts of one second apart: `PagesOf` has every set of posts that `ORDER BY createdAt DESC LIMIT`
may give. `Escaped` is `bsEscape` on addresses:
`accountCreate` stores the escaped form and looks up the typed one, so for an address with an
angle bracket sign-up answers "unexpected" though the account exists. A session id is the pair of
what `rand()` gives and the user name (`bsRandom(24, username)`); `rand()` is never seeded, so `Reboot`
sets `draws` back to 0. What comes back from the browser is `Cookie(sid)`: sign-up allows every character in a name,
and a cookie ends at a ";" or a line break and loses a blank at its end, so of the name it has what `Kept` says.
`Whole` are the names it keeps. `Routes` are the lines of `route.conf`: a path without one ends the process
(`NoHandler`), because `handle` calls the NULL that the trie leaves. `Kill` is any other end of the
process.

### Trie and RouteTable

Nodes are numbered in the order in which they are created; `root` and each node's `sibling` and `child` are
numbers or `Nil`. Loading is `LoadLine`, then `Walk`, `Create`, `WriteKey`, `Enter` along the path, and
`SetHandler`: every read or write of a node that a search may come between is a step. `Create` links the
node before its key is written, as `cgi_url_dltrie.c:92-103` does, so a search may compare with what
`malloc` left (`Garbage`, which matches or does not). Stores become visible in the order in which they are
written, which is what x86 does. A search is `Find`, then `Compare`, `NextSibling`, `Descend`, `TakeHandler`
or `NotFound`. `memcmp` compares as many characters as the part asked for has: `ProperPrefix` says
which parts begin which, and a search for `/log` matches the node of `/login`. `Reload` is SIGHUP with
`route.conf` as it is then (`Files`). `made` (where a node came from), `routes` (what the lines have set) and
`sought` (what a search is for) are history.

`RouteTable` binds a path in one step and answers in one: a path that had a route when the search
began gets its handler, for another path any answer is allowed. `TrieSafety` is the trie with nothing around it.

### Tokens, Request

A text is a sequence of words and separators, each a string: what a browser types is words, and the
characters the parser or the templates look for are elements of their own. `NextToken` is `strtok_r`.
`save` is the hidden position of `strtok`: thread, buffer and index. Each thread has the buffer of
`handle`, on its stack, and one copy at a time, which `parseQS` or `parseCookies` makes and frees; what
is read through a position in memory that was given back (`live`) is what was left there, or nothing.
`UrlDecode` replaces a "+" or an escape by its character. An empty value makes `parseQS` pass over the
key and take the next one from the "&" on (`Skips`).

### Template, Pages

A file is the items it was written as (`Shape`), each as `Written` puts it into words, braces, percent signs and
blanks. `Loop` alternates the two delimiters as `templateRender` does, with its rule for the second brace, and
is a recursive function of the position in the buffer; `Rendered` is a file, included or not, and
`Value` what `kvFindList` has for a variable. `Shown` is the reference: what comes out item by item. `Pages` has an operator for each `do_response`
and gives the set of its answers: a response with its context, headers in reverse order, body;
`NULL`, for which `handle` sends 404; or `Crash`. What is in the database has any value here.

### Handling

`Receive` puts a request into the buffer as a browser writes it (`Encode`), then `Parsing` steps through
`Request`, `Session` looks up the account, `SearchStep` steps through `Trie`, `Call` picks an answer of the
plugin, `Write` adds the headers that keep the connection open and sends it. `recv` is called once: of a
request with `late` words `Receive` gets the first piece, and if the connection stays open
`ReceiveRest` gets the others as if they were a request. `BadRequest`, `NoHandler`, `NoResponse`,
`DoubleFree` are the other ends. `Loading` steps the loader, before the first request and, after a
SIGHUP, between any two steps of the workers.

## 3. The runs

| Run | Instance | Shows |
|---|---|---|
| `pool` | 2 workers, 3 tasks, pipe of 3 bytes, 3 containers | both lists keep their shape, tasks run once, no lost wakeup, shutdown reaches every reader, nothing is left; refines `TaskQueue` with its liveness; `Async.finish` returns |
| `loop` | 2 clients, 2 workers, 2 descriptors, 2 requests each, timer, punctual clients | types, one owner per connection, none forgotten, answers go to whoever asked, no ghost slots, whoever lingers is timed |
| `server` | 2 clients, 2 workers, 1 descriptor, 2 requests each, no timer, one signal | the loop over the pool implements `Dispatcher`; requests are answered; SIGTERM ends the server |
| `accounts` | 2 browsers and threads, 2 names of which a cookie cuts one to the other, 3 addresses, 2 passwords, 4 requests, 1 restart | addresses unique, sign-up tells the truth, cookies need the password, name their user and go on standing for the same account |
| `social` | 2 users logged in, 2 threads, 4 requests, pages of 2 posts, 2 seconds; with a line for `/connect`, which the shipped `route.conf` lacks | rows refer to rows that exist, the dashboard is right, unlike undoes every like |
| `handling` | 1 worker, 2 requests, some in two pieces, of 43 kinds; the shipped routes and a reload of 3 lines | what is parsed was sent, the path looked up was asked for, a cut form gives its first fields, only bad requests are refused, missing fields are reported, bodies are texts and pages their templates, lengths are right, crashes are the known ones; the trie implements `RouteTable` and shares its nodes; every request is routed |
| `loop_timeout` | 2 clients, 1 worker, 1 descriptor, timer, punctual clients | **violated**: an idle connection may never be closed |
| `loop_sweep` | 2 clients, 2 workers, 2 descriptors, timer, clients that are not punctual | **violated**: the sweep closes a connection whose request is queued or being served |
| `loop_sigterm` | 2 clients, 1 worker, 1 descriptor, a SIGHUP that may come first | **violated**: a SIGTERM is left in the pipe |
| `names` | 2 browsers, 2 threads | **violated**: two accounts with one user name |
| `handling_threads` | 2 workers, 1 plain request each | **violated**: a good request is answered 400 |
| `forms` | 1 worker, forms with an empty field | **violated**: the field behind an empty one is lost |

Every property of a passing run has a mutant in `PROJECT.json`: a definition changed as a plausible
bug would change it, under which TLC finds the property violated.

### Bounds

- `pool`: a container goes through queue, worker, free list and queue again while others are in each of
  these places. `PipeCap` = 3 is the smallest pipe that satisfies `PipeAssumption` for 2 threads, so it
  can be full of unread wakeups when the shutdown bytes are written; the code has room for far more
  (the 64 KiB of a pipe against 16 threads). Larger pools are covered by the proofs.
- `MaxRequests` in `Dispatcher`: a second request on a connection needs the re-arm and meets the
  linger and the idle time of the first. Two clients on two descriptors reuse each other's numbers; in
  `server` the second client waits for the only one.
- `Hups` = 0 in `server`: one signal alone. `loop_sigterm` sends two.
- `Facebooc`: four requests are two sign-ups and two log-ins, or post, connect, like twice and so on,
  in any interleaving of two threads; `PageSize` = 2 is reached by three rows, and two seconds give posts that
  tie and posts whose stamps and row ids disagree. In `accounts` the cookie of `u2` is cut to that of `u1`: together
  with the restart, after which ids repeat, it meets sessions of `u1`. The email in angle
  brackets, its escaped form, and a plain one are the three addresses that matter.
- `handling`: nothing but `linger`, the tree and a late piece survives a request, so two in a row are enough. The
  requests are one or more for each page, with and without a session, with characters that must be
  escaped, braces, empty fields, and the three ways to be refused. One worker, because with two the
  parser fails at once (`handling_threads`); the worker and the loader are the two that meet in the trie.
  The templates and files of `MCHandling` are those of `web/public` cut down to the items that differ.
- `CHECK_DEADLOCK FALSE` in `Site*`, `Handling*` and `Forms`: browsers stop asking when the bound is
  reached, and the process may end. The other modules have an explicit step for the state where all is done.

### Assumptions about the environment

- `Punctual` (in `loop` and `loop_timeout`): no request reaches a connection whose idle time has run out, and
  none takes as long as the timeout. `loop_sweep` shows what is true without it.
- `PipeAssumption`: `PipeCap + 1 >= 2 * Threads`. With a smaller pipe the shutdown bytes may be dropped as
  a whole and a thread sleep for ever.
- `SeedAssumption`: the database file is one that the program has written.
- `KeptAssumption`: what a cookie keeps of a name is among the names, which may be taken to have what no
  one registers too; nothing else is assumed of it. `SecondAssumption`: seconds are numbers, in any order.
- `RoutesAssumption`: no part of a line begins the part of an earlier line at the same place, since
  `insert` would take over its node. `web/route.conf` has no such lines.
- `RequestsAssumption`: what a browser sends has its form. Paths, names of fields and session ids are words
  without a character that means something in a request; what is typed has every character but `NUL`, a line
  break and the escapes themselves, any length, and may be empty; a form is sent with POST, and one that
  repeats the password asks for it first, as `signup.html` does.
- `ShapeAssumption`: the words of an item have none of the marks by which it is told apart: no brace opens in
  plain text, none closes in an expression, and there is no `NUL`. `IncludesAssumption`: a file includes only
  files that are there, and at most three are nested, as page, header and navigation bar are; `templateRender`
  would not end for a file that includes itself.
- `SessionsAssumption`: accounts have texts for names. `LiteralAssumption`: the words that the code and the pages
  spell out (`Literal`) are strings. This is so in TLA+, and TLC finds it so; the provers have to be told.
- `WordsAssumption`, `CrashAssumption`: `NULL` and `Crash` are neither a word nor a text nor each other, which
  a model value satisfies (nor is `NULL` the message `Missing`). `PluginsAssumption`: handlers are those of `web/src`. `StaticAssumption`: files are texts.
- `Sessions` in `Handling` does not change: log-in and log-out are in `Facebooc`.

### Fairness

- `Async!Spec`: weak fairness for each worker (a thread that can run is scheduled; a `read` with a byte
  there returns) and for the owner's steps inside a call it has begun. None for `Submit` and
  `SignalFlag`: nobody has to submit or shut down. `Perform` is fair: tasks end.
- `Dispatcher!Spec` and `Server!Spec`: weak fairness for the dispatcher thread, each worker, the timer and
  the passing of time. None for clients and the operator.
- `Handling!Spec`: weak fairness for what a worker does up to the call of the plugin (`Routing`). Neither
  the plugin nor the loader has to go on.
- `Facebooc` has safety properties only.

`Served` speaks of connections that were accepted. That a client in the backlog is served in the end is
false of this code: when `accept` fails for want of a descriptor the rest of the backlog waits for the
next edge of the listening socket.

## 4. What the checks found

1. **`loop_timeout`.** A worker closes the descriptor and then clears `isconn`
   (`cgi_event_dispatcher.c:305-306`). If the dispatcher accepts a connection with this number in between,
   the new connection loses its mark and the sweep passes over it for ever.
2. **`loop_sweep`.** `idle_start` is set when an answer has been sent and not reset when a request arrives:
   the sweep closes connections whose request is queued or being served, and the worker then answers on a
   number that may be somebody else's. A request that the loop has not been told of yet may be lost to any idle
   timeout and is not what the property is about.
3. **`loop_sigterm`.** The signal pipe is edge-triggered and one byte is read per event: a SIGTERM right
   behind a SIGHUP stays unread until another signal comes.
4. **`names`.** The check for the user name and the INSERT are two statements and the column is not
   UNIQUE: two concurrent sign-ups get one name. With such namesakes and an id that repeats after a restart, a
   cookie may stand for the account of the other; `CookieNeedsPassword` says that it takes both.
5. **`handling_threads`.** `requestNew` uses `strtok`, whose position all workers share: a thread takes
   tokens of another's request, or none, and a good request is answered 400.
6. **`forms`.** `parseQS` passes over a key whose value is empty and takes the next key from the "&" on
   (`request.c:90`): the next field is lost. A sign-up without a user name loses the password, and
   `strcmp` is then called with NULL (`signup.c:77`).

Also met while modelling, without a run of its own, since it follows from the code at sight or no
text of the repository denies it:

- `include/async/cgi_async.h:43-44` says that once the last thread has exited, tasks will not be
  processed; `async_wait` performs what is in the queue after joining the threads (`cgi_async.c:174-179`).
- A request that arrives in two segments is two requests: a form whose head comes first is
  answered 400; a post that is cut inside its text is stored as far as it came. `handling` has such requests.
- `/search?q=`, an empty search, is answered 400: `requestNew` refuses a query string without pairs.
- `/connect`, to which `profile.c:44` links, and `/about` have no line in `route.conf`; asking for
  them, or for any unknown path, calls NULL. With a line for `/about`, the missing `about.html` ends
  the process with `exit(1)`.
- `favicon.ico` has a NUL in it: kept alive, it goes out with two different `Content-Length` headers.
- A user name may have a ";" in it (`signup.c:57-66`), and the session id ends in the name: the cookie is cut there
  (`request.c:61`), and the user is not logged in, unless what is left is the id of another session.
- A line that is removed from `route.conf` keeps its route after SIGHUP.
- A browser that resets its connection while it is being answered ends the process: SIGPIPE is neither
  ignored nor handled (`response.c:131`). A body that does not fit into the socket is cut off
  (`response.c:139`): sockets are non-blocking and the result of `send` is not looked at.
- The parameter `r` of like and unlike makes the process free a value twice.

## 5. What is proved

Every proof is for all values of the constants that satisfy the named `ASSUME`s.

### AsyncProofs

| Theorem | States |
|---|---|
| `TypeCorrect` | `Safety => []TypeOK` |
| `QueueIsList` | the queue is one list in submission order |
| `PoolIsList` | the free list holds every free node once, and nothing else |
| `EveryTaskRunsOnce` | a task about to run has not been run and is held by one thread |
| `NoTaskIsForgotten` | while a task waits, a byte or an awake thread exists |
| `ShutdownReachesAll` | after the shutdown bytes there is one for every thread that blocks in `read` |
| `NothingIsLeft` | when the pool is gone everything has run, exited and been freed |
| `ImplementsQueue` | every behaviour is one of `TaskQueue!Safety` |

Any number of threads, tasks and nodes, under the four named assumptions of `Async`; `Node` may be infinite.

The argument is one inductive invariant, `IInv == TypeOK /\ Control /\ Data`.

- **Control** (`PlacesOK`, `RunOK`, `JoinOK`, `HoldOK`) relates program counters, `run`, `ret` and `count`:
  which threads exist, that `run` is set exactly as long as the owner has not begun to shut down, that the
  owner performs tasks and frees the lists only after every worker has exited, and that a thread about to
  call a task holds one. It says nothing of the heap and is proved first.
- **Data** relates the heap to the history. `IdsOK` and `HeldOK` place the nodes (waiting, held, free);
  `QueueShape` and `PoolShape` say how each list is linked. The last conjunct of `PoolShape`, on subsets cut
  off from `pool`, is connectivity without recursion: that `Destroy` frees everything is this conjunct at
  the set of nodes its walk does not reach. `RunsOnce`, `DoneOK` and `DrainOK` relate `begun` and `finished` to
  what the threads hold.

The list properties are conjuncts of `IInv`, since none of them is inductive alone: that a submission does
not write through a stale `pos` needs the queue's shape, that its container is not in use needs the free
list's, and this one needs to know what the threads hold. `NoLostWakeup` and `ShutdownWakesAll` are then
inductive relative to `IInv`. The second is where `PipeAssumption` is used: a write of `count` bytes that does not
fit finds at least `count` bytes in the pipe, and no more than `count` threads can be blocked (`ReadersCounted`).

The refinement maps `Submit` to `Submit`, a `Grab` that finds a task to `Begin`, `Perform` to `Finish`, `Destroy` to `Close` and the rest
to stutters. `Begin` needs room for one more running task: `RoomToBegin` gives the assignment of tasks to
workers, which is the threads that hold them.

### DispatcherProofs

| Theorem | States |
|---|---|
| `TypeCorrect` | `Safety => []TypeOK`, for any timer and clients |
| `ConnectionsHaveOneOwner` | of the events, tasks and workers of a connection there is at most one |
| `FiredAreRemembered` | a registration that has fired has somebody who will re-arm or close it |
| `AnswersReachTheRequester` | what a client gets is an answer to its own request |
| `SlotsFollowSockets` | a slot in use without a socket is about to be cleared |
| `SweepSparesTheBusy` | the sweep closes no connection that has an owner |
| `LingeringAreTimed` | a connection that lingers has been stamped, or its worker is about to |

All but the first and the last assume `TimerOn => Punctual`, without which they are false: `loop_sweep` shows it of
`SweepClosesIdleOnly`, which `SweepSparesTheBusy` is about. `LingeringAreTimed` is inductive as it stands, given
the types. For the others the inductive invariant is `Control /\ Ownership /\ Outcome`.

- **Control** (`TypeOK`, `LoopOK`, `SignalOK`): where the dispatcher is, what it holds there, and which
  signals are between the operator and the loop.
- **Ownership** (`Apart`, `HeldOK`, `FiredOK`, `HupOK`, `StaleOK`, `AloneOK`): a descriptor is held by at most one event
  of the batch, queue entry or worker; held means open and fired, and fired means held or already
  given up; a registration that can fire belongs to a socket that nobody holds. A connection whose idle
  time has run out is held by nobody, which is where `Punctual` is used; so the sweep and a worker
  never have the same descriptor. `AloneOK`: what the dispatcher initialises or closes has no owner.
- **Outcome** (`AnswerOK`, `ResponseToRequester`, `NoGhostSlot`): the request in a worker's hand is of
  the client at the other end of its socket, and that client waits.

### ServerProofs

`ServerImplementsDispatcher`: `Server!Safety => Loop!Safety`. The invariant is `Meeting == Counted /\ Held`:
`args` is as long as the number of submissions, and a worker is in `handle` exactly when it runs a task
of the pool, with the connection of that task. With `ImplementsQueue` of `AsyncProofs` this is a chain: the
pool as written is a `TaskQueue`; the loop over a `TaskQueue` is a `Dispatcher`; so what `DispatcherProofs`
proves of `Dispatcher` holds of the loop over the pool as written.

### FacebooProofs

| Theorem | States |
|---|---|
| `TypeCorrect` | rows and remembered ids refer to rows that exist |
| `AddressesAreUnique` | no address is registered twice, however many sign-ups race |
| `SignupIsTruthful` | what sign-up answers is true of the database when it is sent |
| `CookiesNeedThePassword` | the cookie of a log-in is looked up as an account of the name typed, and of the password unless the name was registered twice |
| `CookiesNameTheirUser` | a cookie is looked up as an account whose name is what it keeps of the name of its user |
| `CookiesKeepWorking` | a cookie that stands for an account stands for the same one until the browser gets another or drops it |
| `UnlikeIsThorough` | after unlike the account likes the post no more |
| `FeedIsRight` | the dashboard shows what may be seen, nothing older than what it leaves out, all of it if there is room |

For any users, browsers, threads, restarts, seed database, page size, clock, and cookies that cut any names. The invariant is
`TypeOK /\ FileOK /\ \A t : ThreadOK(t)`. `FileOK` is about the database and the jars (`EmailsUnique`, `SidOK`,
`JarOK`), `ThreadOK` about what a thread has read and goes on with (`RowOK`, `RequestOK`, `AnswerOK`).
What a thread has read stays true because accounts and sessions only grow; the lookup of an id that was
given twice finds the least row, and that rows with one id are of users with one name is `SidOK`. So a cookie
that keeps its name finds a row of its own name (`WholeCookie`), and, because a new row comes behind the
others (`SessionsGrow`, `FirstKept`), the row it finds first remains the first (`AccountKept`).

### TrieProofs

| Theorem | States |
|---|---|
| `TrieImplementsRouteTable` | `TrieSafety => ImplementsRouteTable`: a search gives the handler of its path, whatever is loaded meanwhile |
| `NodesShared` | `TrieSafety => []NodesAreShared`: there are no more nodes than the paths have beginnings |

For any paths, files, number of reloads and threads, under `PathAssumption`, `NullAssumption`, `FilesAssumption` and
`RoutesAssumption`. The invariant is `TypeOK /\ TreeOK /\ OrderOK /\ LoaderOK /\ RoutesOK /\ Searches`.

- **TreeOK**: a link leads to the least node that may follow there (`LinksOK`), a node has its key unless the
  loader is about to write it (`KeysOK`), no two nodes stand for the same beginning of a path (`Distinct`), and the
  node above each one exists (`Descended`). It is stated over node numbers: siblings are
  linked in the order in which they are created, which makes lists of any length an arithmetic matter.
- **OrderOK**: each node stands for the beginning of some line's path, earlier lines made the lower nodes,
  and none was made by a line still to come. With `RoutesAssumption` it follows that a node before the one a search
  is after never matches.
- **LoaderOK**: the loader is at the place its line says, and has passed only nodes with other parts.
- **RoutesOK**: a path that has a route has its nodes, and the last of them has the handler; every line
  that was done has set a route.
- **Searches**: a search for a path that had a route when it began stands at or before the node it is after,
  among its siblings. Nodes are only added, and behind, so it arrives.

`NodesShared` maps each node to its beginning of a path, which is one-to-one by `Distinct`, and compares cardinalities.

### TokensProofs and ParsingProofs

For one worker (`Thread = {t}`), for requests and fields of any length, whatever is typed and
wherever a request is cut in two:

| Theorem | States |
|---|---|
| `ParsingInvariant` | between any two calls of `strtok` the parser is where `ParsingInv` says |
| `OneWorkerPathAsAsked` | the path that is looked up is the one that was asked for |
| `OneWorkerParsedAsSent` | a request that came whole is handed over as it was sent: method, path, query, form, session, keep-alive |
| `OneWorkerFirstFieldsAsSent` | of a form that was cut a handler sees the first fields and no other |
| `RenderShows` | for any files and any context of texts, what `templateRender` makes is what the file says item by item, and a text |

None of them holds for two workers: `strtok`'s position is the process's, and `handling_threads` shows a good
request refused.

What is to be shown is about the end of parsing, and `strtok` writes into the text on its way. The
invariant is therefore about both halves of it: what was taken from the text (`Located`, `Headed`, `BodyOK`,
`QueryOK`: the method, the path, the first k - 1 headers, the pairs of the first k fields) and what lies ahead of the
position (`Remains`: the text from the k-th header or field on, or a beginning of it when the rest is late) are
together the request that the browser wrote. `ParsingInv` has a conjunct of this kind for each place where
`requestNew` calls `strtok` (`Underway`), one for the rest of a request that is parsed as if it were a request
(`LateAt`), and the types and areas of the parser's memory (`ParserType`): strtok's position is in memory that is
allocated, so nothing is read that was freed. A step that takes a token needs what lies ahead to
begin with it, and what was taken so far to be complete; neither is inductive without the other. Each field
left empty takes a branch of its own (`passed`, `Skips`): `PairsUpto` says nothing about the pairs behind such a
field if another was filled in, which is where `forms` finds them wrong.

`TokensProofs` has what this rests on: the token of `NextToken` is what lies before the next delimiter
(`TokenComes`), also when the text ends early (`TokenEnds`), and the rest of the text is untouched
(`TokenLeaves`); what `FlattenSeq` puts together (`FlatIs`, `FlattenFirst`); what `Lookup` finds
(`LookupFirst`, `LookupOther`). Texts have any length; the prover has no induction over data, but the
least natural number of a set serves (`LeastNumber`, `EveryNumber`): the recursive function behind `FlattenSeq`
exists because its beginnings do, one number after the other.

`RenderShows` takes three of these steps. The loop of `templateRender` has one turn for each item that is written
in braces (`VarRead`, `IncludeRead`, `WhenRead`: what its token stands for is what is shown for the item), so what it
makes of the items from one on is what is shown for them (`ShowsEnd`, `ShowsItem`, from the last item to
the first). A file may include others: that there are functions `IsRendered` and `IsShown` from files to texts
at all follows from `IncludesAssumption`, for the files of depth 0, then 1, then 2 (`ShownExists`), and that
they are the same from `ShownUnique`. A value is put into the result and not into the buffer, which is why no brace in it
can be read as a token.

### HandlingProofs

| Theorem | States |
|---|---|
| `HandlingImplementsRouteTable`, `HandlingSharesNodes` | the theorems of `TrieProofs` for `Handling`, any number of threads, if paths are looked up as they were asked for (`[]PathAsAsked`) |
| `OneWorkerImplementsRouteTable`, `OneWorkerSharesNodes` | the same for one worker, of which `OneWorkerPathAsAsked` says that they are |
| `AnswersInvariant` | what was found, answered and sent belong together |
| `OneWorkerBadRequestOnlyIfBad` | of the requests that came whole, those that are bad are answered 400, and no other |
| `OneWorkerCrashesAreKnown` | the process crashes for a path without a route, a sign-up form with a hole, the parameter r of like and unlike, and for nothing else |
| `OneWorkerLastEmptyFieldsAreReported` | a field is reported missing when, and only when, the form has nothing in it, if its empty fields are the last ones |
| `OneWorkerPageAsWritten` | a page is its template with the variables replaced, whatever was typed |
| `OneWorkerBodiesAreTexts` | every body is a text |
| `OneWorkerFramed` | who is kept alive is told the length of the body |

`PhasesOK` says that a thread searches in one phase of `handle` only, for a request that a browser has made, and
after the routes were loaded; with it each step of `Handling` does to the trie what a step of
`TrieSafety` does, or nothing. `AnswersInv` relates the phases of `handle`: a search that found nothing was for a path
without a route (`FindsRoute` of `TrieProofs`), a response is one that the plugin of the handler found gives to
the request as parsed, and what was sent is that response with its headers, or a 400 of the parser, or a 404 where
there was none. What the plugins answer (`RepliesAre`) is read off `Pages` by cases. That a crash of sign-up
means a hole in the form (`HoleIs`) needs `ParsingInv`: a password that is not there though its repetition
is was in a field that was left empty or swallowed. What a page reports is read off its context: `Tells`
says of the set of its pairs, in whatever order they were put there, that a key for an error has the value
`Missing` exactly when the field is not among those parsed, and `EmptyIs` that it is not when it was left empty.
Whatever a plugin makes is `Made`: its body is a text, and if it is a page, the one its file says. For a page this
is `RenderShows`, which needs the plugin's context to have nothing but texts for values (`Speaks`): they are
literals, the name of an account (`MemberOK`), or what the parser took from the request (`ParserType`).

`ParsingInv`, `AnswersInv`, `MemberOK` and `PhasesOK` were checked on the instance of `handling` before they were proved.

### Only model-checked

- Liveness (`FinishReturns`, `Served`, `StopEnds`, `EachIsRouted`, the fairness half of
  `ImplementsTaskQueue`) and `ENABLED` are out of the prover's reach.

Every invariant and action property of a run that passes is also proved; those of `Handling` for one worker,
since two disturb each other's parser.

## 6. What is not modelled

- `include/sqlite3.h` and `sqlite3ext.h` are SQLite's own headers, two thirds of the lines of the
  repository; the library is modelled as statements that are atomic.
- `cgi_http_parser.c` is not in the Makefile; `cgi_param_slist.c` is built but nothing calls it.
- `cgi_factory.c` allocates and frees structures; which fields of a trie node it sets is in `NewNode`, the rest has
  no behaviour. Memory management elsewhere likewise, except for the buffers of the parser and the value
  freed twice.
- The pool that could not be created (`Async.run` then fails unnoticed): `Server` takes it to exist.
- The sizes of requests, headers and byte strings: a request fits into the buffer of `handle`.
- Out of memory, disk errors, failures of `pthread_mutex_init`, `pipe` and `epoll_ctl`.
- Responses that are cut short by the socket, and the SIGPIPE of one to a connection that was reset
  (`Dispatcher` has the reset, `Facebooc` the end of the process, neither the one from the other). Two requests in one segment: browsers wait for an answer
  before they use a connection again.

## 7. Plan

What the models lack, most important first:

1. Descriptors that leak when a client hangs up before it lingers: `HandleHup` has the leak, a liveness
   property over descriptors would state what is left.
2. Pieces of requests in `Dispatcher`, where a late piece is one more event on a connection that may have been
   closed or swept since.
3. The SIGPIPE that a reset may bring, and the failure of single calls (`epoll_ctl`, `send`) in the loop.
