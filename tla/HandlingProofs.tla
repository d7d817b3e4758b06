---------------------------- MODULE HandlingProofs ----------------------------
(***************************************************************************)
(* The trie in its place: what handle and the loader do to it are steps of *)
(* TrieSafety, so that what TrieProofs proves of the trie by itself holds  *)
(* of Handling.  And what a single worker, whose requests ParsingProofs    *)
(* follows through the parser, answers to them.                            *)
(***************************************************************************)
EXTENDS ParsingProofs, TrieProofs

\* A thread searches in one phase of handle only, for a request that a browser
\* has made, and not before the routes were loaded.
PhaseOK(t) ==
    /\ hpc[t] \in {"idle", "parsing"} => spc[t] = "idle"
    /\ hpc[t] \in {"called", "sent"} => ~Searching(t)
    /\ hpc[t] # "idle" \/ unread[t] # <<>> => Started /\ asking[t] \in Requests

PhasesOK ==
    /\ DOMAIN hpc = Thread /\ DOMAIN spc = Thread
    /\ DOMAIN asking = Thread /\ DOMAIN unread = Thread
    /\ loads \in Nat /\ loads > 0
    /\ \A t \in Thread : PhaseOK(t)

\* Nobody searches at the start.
LEMMA PhasesInit == Init => PhasesOK
BY DEF Init, TrieInit, PhasesOK, PhaseOK, Searching

\* The routes stay loaded.
LEMMA StartedStays ==
    ASSUME loads \in Nat, loads > 0, Load
    PROVE  loads' \in Nat /\ loads' > 0 /\ (Started => Started')
<1>1. CASE Reload
  BY <1>1 DEF Started, Reload
<1>2. CASE ~Reload
  <2>1. loads' = loads
    BY <1>2 DEF Load, LoadLine, LoadFails, LoadEnd, Create, WriteKey, Walk, Enter, SetHandler,
                loader
  <2>2. lpc = "idle" => FALSE
    BY <1>2 DEF Load, LoadLine, LoadFails, LoadEnd, Create, WriteKey, Walk, Enter, SetHandler
  <2> QED BY <2>1, <2>2 DEF Started
<1> QED BY <1>1, <1>2

\* A step of one thread leaves the others in their phases.
LEMMA OthersStay ==
    ASSUME PhasesOK, NEW t \in Thread,
           Started => Started', loads' \in Nat, loads' > 0,
           DOMAIN hpc' = Thread, DOMAIN spc' = Thread,
           DOMAIN asking' = Thread, DOMAIN unread' = Thread,
           \A u \in Thread \ {t} : /\ hpc'[u] = hpc[u] /\ spc'[u] = spc[u]
                                   /\ asking'[u] = asking[u] /\ unread'[u] = unread[u],
           PhaseOK(t)'
    PROVE  PhasesOK'
<1>1. \A u \in Thread \ {t} : PhaseOK(u)'
  BY DEF PhasesOK, PhaseOK, Searching
<1> QED BY <1>1 DEF PhasesOK

\* Every step keeps the phases.
LEMMA PhasesStep ==
    ASSUME PhasesOK, [Next]_vars
    PROVE  PhasesOK'
<1>1. CASE UNCHANGED vars
  BY <1>1 DEF vars, handler, search, loader, PhasesOK, PhaseOK, Searching, Started
<1>2. CASE Loading
  <2>1. UNCHANGED <<handler, search>>
    BY <1>2 DEF Loading, Load, Reload, LoadLine, LoadFails, LoadEnd, Create, WriteKey, Walk,
                Enter, SetHandler, search
  <2>2. loads' \in Nat /\ loads' > 0 /\ (Started => Started')
    BY <1>2, StartedStays DEF Loading, PhasesOK
  <2>3. \A t \in Thread : PhaseOK(t)'
    BY <2>1, <2>2 DEF PhasesOK, PhaseOK, Searching, handler, search
  <2> QED BY <2>1, <2>2, <2>3 DEF PhasesOK, handler, search
<1>3. ASSUME NEW t \in Thread, Receive(t) \/ ReceiveRest(t) \/ Handle(t)
      PROVE  PhasesOK'
  <2>1. UNCHANGED loader
    BY <1>3 DEF Receive, ReceiveRest, Handle, Parsing, BadRequest, Session, Find, SearchStep,
                FindStep, Compare, NotFound, NextSibling, Descend, TakeHandler, NoHandler, Call,
                NoResponse, Write, DoubleFree, Done, Return
  <2>2. Started' = Started /\ loads' = loads
    BY <2>1 DEF loader, Started
  <2>3. \A u \in Thread \ {t} :
           hpc'[u] = hpc[u] /\ spc'[u] = spc[u] /\ asking'[u] = asking[u] /\ unread'[u] = unread[u]
    BY ZenonT(60), <1>3 DEF Receive, ReceiveRest, Handle, Parsing, BadRequest, Session, Find, SearchStep,
                FindStep, Compare, NotFound, NextSibling, Descend, TakeHandler, NoHandler, Call,
                NoResponse, Write, DoubleFree, Done, Return, Step, handler, search, PhasesOK
  <2>4. /\ DOMAIN hpc' = Thread /\ DOMAIN spc' = Thread
        /\ DOMAIN asking' = Thread /\ DOMAIN unread' = Thread
    BY <1>3 DEF Receive, ReceiveRest, Handle, Parsing, BadRequest, Session, Find, SearchStep,
                FindStep, Compare, NotFound, NextSibling, Descend, TakeHandler, NoHandler, Call,
                NoResponse, Write, DoubleFree, Done, Return, Step, handler, search, PhasesOK
  <2>5. PhaseOK(t)'
    <3>1. CASE Receive(t)
      BY <2>2, <3>1 DEF Receive, At, Step, search, PhasesOK, PhaseOK, Searching
    <3>2. CASE ReceiveRest(t)
      BY <2>2, <3>2 DEF ReceiveRest, At, Step, search, PhasesOK, PhaseOK, Searching
    <3>3. CASE Session(t)
      BY <2>2, <3>3 DEF Session, Find, At, Step, PhasesOK, PhaseOK, Searching
    <3>4. CASE SearchStep(t)
      BY <2>2, <3>4 DEF SearchStep, At, FindStep, Compare, NotFound, NextSibling, Descend,
                        TakeHandler, handler, PhasesOK, PhaseOK, Searching
    <3>5. CASE Call(t)
      BY <2>2, <3>5 DEF Call, At, Step, search, PhasesOK, PhaseOK, Searching
    <3>6. CASE NoResponse(t) \/ Write(t) \/ BadRequest(t)
      BY <2>2, <3>6 DEF NoResponse, Write, BadRequest, At, Step, search, PhasesOK,
                        PhaseOK, Searching
    <3>7. CASE Parsing(t) \/ NoHandler(t) \/ DoubleFree(t)
      BY <2>2, <3>7 DEF Parsing, NoHandler, DoubleFree, search, handler, PhasesOK,
                        PhaseOK, Searching
    <3>8. CASE Done(t)
      BY <2>2, <3>8 DEF Done, Return, At, Step, PhasesOK, PhaseOK, Searching
    <3> QED BY <1>3, <3>1, <3>2, <3>3, <3>4, <3>5, <3>6, <3>7, <3>8 DEF Handle
  <2> QED BY <2>2, <2>3, <2>4, <2>5, OthersStay DEF PhasesOK
<1> QED BY <1>1, <1>2, <1>3 DEF Next

\* What a step of Handling does to the trie, TrieNext does: a thread looks up
\* a path of Path, since it is the one that was asked for.
LEMMA StepOnTrie ==
    ASSUME PhasesOK, PathAsAsked, [Next]_vars
    PROVE  [TrieNext]_<<tree, loader, search>>
<1>1. CASE UNCHANGED vars
  BY <1>1 DEF vars
<1>2. CASE Loading
  BY <1>2 DEF Loading, TrieNext
<1>3. ASSUME NEW t \in Thread, Session(t)
      PROVE  TrieNext
  <2>1. Started /\ parsed[t].uri \in Path
    BY <1>3, RequestsAssumption DEF Session, At, PhasesOK, PhaseOK, PathAsAsked
  <2> QED BY <1>3, <2>1 DEF Session, TrieNext
<1>4. ASSUME NEW t \in Thread, SearchStep(t)
      PROVE  TrieNext
  BY <1>4 DEF SearchStep, TrieNext
<1>5. ASSUME NEW t \in Thread, Done(t)
      PROVE  TrieNext
  BY <1>5 DEF Done, At, PhasesOK, PhaseOK, TrieNext
<1>6. ASSUME NEW t \in Thread,
             \/ Receive(t) \/ ReceiveRest(t) \/ Parsing(t) \/ BadRequest(t) \/ NoHandler(t)
             \/ Call(t) \/ NoResponse(t) \/ Write(t) \/ DoubleFree(t)
      PROVE  UNCHANGED <<tree, loader, search>>
  BY <1>6 DEF Receive, ReceiveRest, Parsing, BadRequest, NoHandler, Call, NoResponse, Write,
              DoubleFree
<1> QED BY <1>1, <1>2, <1>3, <1>4, <1>5, <1>6 DEF Next, Handle

\* The trie inside the handling of requests behaves as the trie by itself.
LEMMA TrieInPlace == Init /\ [][Next]_vars /\ []PathAsAsked => TrieSafety
<1>1. Init => TrieInit
  BY DEF Init
<1> QED BY <1>1, PhasesInit, PhasesStep, StepOnTrie, PTL DEF TrieSafety

\* While threads parse, search, call plugins and answer, and the routes are
\* loaded again, a search gives the handler of its path, as long as the paths
\* that are looked up are those that were asked for (cgi_url_dltrie.c:92-167,
\* cgi_event_dispatcher.c:262-264, 364-368).
THEOREM HandlingImplementsRouteTable ==
    Init /\ [][Next]_vars /\ []PathAsAsked => ImplementsRouteTable
BY TrieInPlace, TrieImplementsRouteTable, PTL

\* And paths that begin alike share their nodes (cgi_url_dltrie.c:96-107).
THEOREM HandlingSharesNodes ==
    Init /\ [][Next]_vars /\ []PathAsAsked => []NodesAreShared
BY TrieInPlace, NodesShared, PTL

-----------------------------------------------------------------------------
(* One worker: the paths that are looked up are those that were asked for. *)

\* The behaviours of one worker are behaviours of the trie.
LEMMA OneWorkerTrie ==
    ASSUME NEW t, Thread = {t}
    PROVE  Spec => TrieSafety
BY OneWorkerPathAsAsked, TrieInPlace, PTL DEF Spec

\* A worker that is alone gets the handler of its path, while the routes are
\* loaded again, for whatever request (cgi_url_dltrie.c:92-167, request.c:159-222).
THEOREM OneWorkerImplementsRouteTable ==
    ASSUME NEW t, Thread = {t}
    PROVE  Spec => ImplementsRouteTable
BY OneWorkerTrie, TrieImplementsRouteTable, PTL

\* And nodes are shared (cgi_url_dltrie.c:96-107).
THEOREM OneWorkerSharesNodes ==
    ASSUME NEW t, Thread = {t}
    PROVE  Spec => []NodesAreShared
BY OneWorkerTrie, NodesShared, PTL

-----------------------------------------------------------------------------
(* What the plugins answer.                                                *)

\* The lengths that a response gives itself are those of its body.
Measured(r) ==
    \E K, V :
           /\ r.headers \in Seq(K \X V)
           /\ \A i \in 1..Len(r.headers) :
                 r.headers[i][1] = "Content-Length" =>
                     r.body # NULL /\ r.headers[i][2] = Len(r.body)

Response(r) ==
    /\ DOMAIN r = {"status", "headers", "body", "page", "freed"}
    /\ r.status \in {200, 302, 404}
    /\ r.freed \in BOOLEAN
    /\ Measured(r)

\* An answer for which the process goes on, and nothing is freed twice.
Safe(r) == r = NULL \/ (Response(r) /\ ~r.freed)

\* A response is none that was not made.
LEMMA ResponseIs == \A r : Response(r) => r # Crash
<1>1. DOMAIN Crash = {"signal"}
  BY DEF Crash
<1> QED BY <1>1 DEF Response

\* A header that is added to a response leaves the rest of it alone
\* (response.c:53-67).
LEMMA AddHeaderIs ==
    ASSUME NEW r, NEW k, NEW v,
           DOMAIN r = {"status", "headers", "body", "page", "freed"}
    PROVE  LET a == AddHeader(r, k, v)
           IN  /\ DOMAIN a = DOMAIN r
               /\ a.headers = AddPair(k, v, r.headers)
               /\ a.status = r.status /\ a.body = r.body /\ a.page = r.page
               /\ a.freed = r.freed
BY DEF AddHeader

\* It is still a response, if the header is not a wrong length.
LEMMA HeaderAdded ==
    ASSUME NEW r, NEW k, NEW v, Response(r),
           k = "Content-Length" => r.body # NULL /\ v = Len(r.body)
    PROVE  /\ Response(AddHeader(r, k, v))
           /\ AddHeader(r, k, v).freed = r.freed
           /\ AddHeader(r, k, v).body = r.body
<1> DEFINE a == AddHeader(r, k, v)
           H == r.headers
           B == a.headers
<1>1. /\ DOMAIN a = DOMAIN r
      /\ B = AddPair(k, v, H)
      /\ a.status = r.status /\ a.body = r.body /\ a.page = r.page /\ a.freed = r.freed
  BY AddHeaderIs DEF Response
<1>2. PICK K, V :
           /\ H \in Seq(K \X V)
           /\ \A i \in 1..Len(H) :
                 H[i][1] = "Content-Length" => r.body # NULL /\ H[i][2] = Len(r.body)
  BY DEF Response, Measured
<1> DEFINE J == K \cup {k}
           W == V \cup {v}
           S == J \X W
<1>3. K \X V \subseteq S
  OBVIOUS
<1>4. H \in Seq(S) /\ <<k, v>> \in S
  BY <1>2, <1>3, SeqMonotonic
<1>5. Len(H) \in Nat
  BY <1>2, LenProperties
<1> HIDE DEF H, S, a
<1>6. /\ B \in Seq(S) /\ Len(B) = Len(H) + 1 /\ B[1] = <<k, v>>
      /\ \A i \in 1..Len(H) : B[i + 1] = H[i]
  BY <1>1, <1>4, AddPairIs
<1> HIDE DEF B
<1>7. ASSUME NEW i \in 1..Len(B), B[i][1] = "Content-Length"
      PROVE  r.body # NULL /\ B[i][2] = Len(r.body)
  <2>1. CASE i = 1
    BY <1>6, <1>7, <2>1
  <2>2. CASE i # 1
    <3>1. i - 1 \in 1..Len(H) /\ i - 1 + 1 = i
      BY <1>5, <1>6, <2>2
    <3>2. B[i] = H[i - 1]
      BY <1>6, <3>1
    <3> QED BY <1>2, <1>7, <3>1, <3>2
  <2> QED BY <2>1, <2>2
<1>8. Measured(a)
  BY <1>1, <1>6, <1>7 DEF Measured, B, S
<1> QED BY <1>1, <1>8 DEF Response, a

\* What the helpers of the plugins make is a response.
LEMMA MadeIs ==
    /\ Response(New) /\ New.freed = FALSE
    /\ \A r, k, v :
          Response(r) /\ k # "Content-Length" => /\ Response(AddHeader(r, k, v))
                                                 /\ AddHeader(r, k, v).freed = r.freed
    /\ \A r, x : Response(r) => /\ Response(MovedTo(r, x))
                                /\ MovedTo(r, x).freed = r.freed
    /\ \A x : Safe(Redirect(x)) /\ Response(Redirect(x)) /\ ~Redirect(x).freed
    /\ \A f, c : Safe(Page(f, c)) /\ Response(Page(f, c))
<1>1. Response(New) /\ New.freed = FALSE
  <2>1. <<>> \in Seq({} \X {}) /\ Len(<<>>) = 0
    OBVIOUS
  <2>2. Measured(New)
    BY <2>1 DEF Measured, New
  <2> QED BY <2>2 DEF New, Response
<1>2. ASSUME NEW r, NEW k, NEW v, Response(r), k # "Content-Length"
      PROVE  Response(AddHeader(r, k, v)) /\ AddHeader(r, k, v).freed = r.freed
  BY <1>2, HeaderAdded
<1>3. ASSUME NEW r, NEW x, Response(r)
      PROVE  Response(MovedTo(r, x)) /\ MovedTo(r, x).freed = r.freed
  <2> DEFINE m == [r EXCEPT !.status = 302]
  <2>1. /\ DOMAIN m = DOMAIN r /\ m.status = 302
        /\ m.headers = r.headers /\ m.body = r.body /\ m.page = r.page /\ m.freed = r.freed
    BY <1>3 DEF Response
  <2> HIDE DEF m
  <2>2. Measured(m)
    BY <1>3, <2>1 DEF Response, Measured
  <2>3. Response(m)
    BY <1>3, <2>1, <2>2 DEF Response
  <2>4. Response(AddHeader(m, "Location", x)) /\ AddHeader(m, "Location", x).freed = m.freed
    BY <1>2, <2>3
  <2> QED BY <2>1, <2>4 DEF MovedTo, m
<1>4. \A x : Safe(Redirect(x)) /\ Response(Redirect(x)) /\ ~Redirect(x).freed
  BY <1>1, <1>3 DEF Redirect, Safe
<1>5. ASSUME NEW f, NEW c
      PROVE  Safe(Page(f, c)) /\ Response(Page(f, c))
  <2> DEFINE p == Page(f, c)
  <2>1. /\ DOMAIN p = DOMAIN New /\ p.status = New.status /\ p.headers = New.headers
        /\ p.freed = New.freed
    BY DEF Page, WithBody, New
  <2>2. Len(New.headers) = 0
    BY DEF New
  <2>3. Measured(p)
    BY <1>1, <2>1, <2>2 DEF Response, Measured
  <2> QED BY <1>1, <2>1, <2>3 DEF Response, Safe
<1> QED BY <1>1, <1>2, <1>3, <1>4, <1>5

\* The pages that only show something, or send somewhere.
LEMMA ShowIs ==
    ASSUME NEW req, NEW member, NEW r,
           \/ r \in Home(req, member) \/ r \in About(req, member)
           \/ r \in Absent(req, member) \/ r \in Login(req, member)
           \/ r \in Logout(req, member)
    PROVE  Safe(r)
<1>1. CASE r \in Home(req, member) \/ r \in About(req, member)
  BY <1>1, MadeIs DEF Home, About
<1>2. CASE r \in Absent(req, member)
  <2>1. PICK c : r = [Page("404.html", c) EXCEPT !.status = 404]
    BY <1>2 DEF Absent
  <2> DEFINE page == Page("404.html", c)
  <2>2. Response(page) /\ ~page.freed
    BY MadeIs DEF Page, WithBody, New
  <2> HIDE DEF page
  <2>3. /\ DOMAIN r = DOMAIN page /\ r.status = 404 /\ r.headers = page.headers
        /\ r.body = page.body /\ r.freed = page.freed
    BY <2>1, <2>2 DEF Response, page
  <2>4. Measured(r)
    BY <2>2, <2>3 DEF Response, Measured
  <2> QED BY <2>2, <2>3, <2>4 DEF Response, Safe
<1>3. CASE r \in Login(req, member)
  <2>1. \/ \E f, c : r = Page(f, c)
        \/ \E x : r = Redirect(x)
        \/ r = MovedTo(AddCookie(New, "sid"), "/dashboard")
    BY <1>3, Zenon DEF Login
  <2>2. Safe(MovedTo(AddCookie(New, "sid"), "/dashboard"))
    <3> DEFINE kept == AddHeader(New, "Set-Cookie", "sid")
    <3>1. Response(kept) /\ ~kept.freed
      BY MadeIs
    <3> HIDE DEF kept
    <3>2. Response(MovedTo(kept, "/dashboard")) /\ ~MovedTo(kept, "/dashboard").freed
      BY <3>1, MadeIs
    <3> QED BY <3>2 DEF AddCookie, Safe, kept
  <2> QED BY <2>1, <2>2, MadeIs
<1>4. CASE r \in Logout(req, member)
  <2>1. Safe(Redirect("/")) /\ Safe(AddCookie(Redirect("/"), ""))
    <3>1. Safe(Redirect("/")) /\ Response(Redirect("/")) /\ ~Redirect("/").freed
      BY MadeIs
    <3> DEFINE again == AddCookie(Redirect("/"), "")
    <3>2. Response(again) /\ again.freed = Redirect("/").freed
      <4> DEFINE b == Redirect("/")
                 c == "Set-Cookie"
                 e == ""
      <4>1. Response(b)
        BY <3>1
      <4>2. c # "Content-Length"
        OBVIOUS
      <4> HIDE DEF b, c, e
      <4>3. Response(AddHeader(b, c, e)) /\ AddHeader(b, c, e).freed = b.freed
        BY <4>1, <4>2, MadeIs
      <4> QED BY <4>3 DEF AddCookie, b, c, e
    <3> QED BY <3>1, <3>2 DEF Safe
  <2> QED BY <1>4, <2>1 DEF Logout
<1> QED BY <1>1, <1>2, <1>3, <1>4

\* And those of members.
LEMMA MemberPageIs ==
    ASSUME NEW req, NEW member, NEW r,
           \/ r \in Dashboard(req, member) \/ r \in Search(req, member)
           \/ r \in Profile(req, member) \/ r \in Post(req, member)
           \/ r \in Connect(req, member)
    PROVE  Safe(r)
<1>1. \/ \E f, c : r = Page(f, c)
      \/ \E x : r = Redirect(x)
      \/ r = NULL
  <2>1. CASE r \in Dashboard(req, member)
    BY <2>1, Zenon DEF Dashboard
  <2>2. CASE r \in Search(req, member)
    BY <2>2, Zenon DEF Search
  <2>3. CASE r \in Profile(req, member)
    BY <2>3, Zenon DEF Profile
  <2>4. CASE r \in Post(req, member)
    BY <2>4, Zenon DEF Post
  <2>5. CASE r \in Connect(req, member)
    BY <2>5, Zenon DEF Connect
  <2> QED BY <2>1, <2>2, <2>3, <2>4, <2>5
<1> QED BY <1>1, MadeIs DEF Safe

\* Nothing but like and unlike frees a value of the request, and nothing but
\* signup crashes, for a password that is repeated but not given.
Unrepeated(req, member) ==
    /\ member = NULL /\ req.method = "POST"
    /\ Lookup(req.body, <<"password">>) = NULL
    /\ Lookup(req.body, <<"confirm-password">>) # NULL

\* The answers of signup (signup.c:67-105).
LEMMA SignupIs ==
    ASSUME NEW req, NEW member, NEW r \in Signup(req, member)
    PROVE  Safe(r) \/ (r = Crash /\ Unrepeated(req, member))
<1>1. \/ \E f, c : r = Page(f, c)
      \/ \E x : r = Redirect(x)
      \/ r = Crash /\ Unrepeated(req, member)
  <2> DEFINE more(refused) == SignupForm(req.body, refused) \o Subtitle(<<"signup">>, <<"Sign Up">>)
             filled(refused) ==
                IF HasError(more(refused)) THEN {Page("signup.html", more(refused))}
                ELSE {Redirect("/login"),
                      Page("signup.html", With(more(refused), ErrorOf.name, <<"Unexpected">>))}
             fields == SUBSET {"name", "email", "username", "password"}
  <2>1. \/ r = Redirect("/dashboard")
        \/ r = Page("signup.html", Subtitle(<<"signup">>, <<"Sign Up">>))
        \/ r = Crash /\ Unrepeated(req, member)
        \/ r \in UNION {filled(refused) : refused \in fields}
    <3> HIDE DEF fields
    <3> QED BY Zenon DEF Signup, Unrepeated, fields
  <2>2. ASSUME r \in UNION {filled(refused) : refused \in fields}
        PROVE  (\E f, c : r = Page(f, c)) \/ (\E x : r = Redirect(x))
    <3> HIDE DEF fields
    <3>1. PICK refused \in fields : r \in filled(refused)
      BY <2>2
    <3> QED BY <3>1, Zenon
  <2> QED BY <2>1, <2>2, Zenon
<1> QED BY <1>1, MadeIs

\* The answers of like and unlike (like.c:9-40, unlike.c:9-40).
LEMMA MarkedIs ==
    ASSUME NEW req, NEW member, NEW r, r \in Like(req, member) \/ r \in Unlike(req, member)
    PROVE  r = NULL \/ Response(r)
<1>1. PICK x : r \in Marked(req, member, Redirect(x))
  BY Zenon DEF Like, Unlike
<1> DEFINE back == Redirect(x)
<1>2. Response(back)
  BY MadeIs
<1>3. Response([back EXCEPT !.freed = Lookup(req.query, <<"r">>) # NULL])
  <2> DEFINE asked == Lookup(req.query, <<"r">>) # NULL
  <2>1. asked \in BOOLEAN
    OBVIOUS
  <2> DEFINE m == [back EXCEPT !.freed = asked]
  <2> HIDE DEF asked, back
  <2>2. /\ DOMAIN m = DOMAIN back /\ m.status = back.status /\ m.headers = back.headers
        /\ m.body = back.body /\ m.freed = asked
    BY <1>2 DEF Response
  <2> HIDE DEF m
  <2>3. Measured(m)
    BY <1>2, <2>2 DEF Response, Measured
  <2>4. Response([back EXCEPT !.freed = asked])
    BY <1>2, <2>1, <2>2, <2>3 DEF Response, m
  <2> QED BY <2>4 DEF asked
<1>4. \/ r = NULL
      \/ r = Redirect("/dashboard")
      \/ r = [back EXCEPT !.freed = Lookup(req.query, <<"r">>) # NULL]
  BY <1>1, Zenon DEF Marked
<1> QED BY <1>2, <1>3, <1>4, MadeIs

\* The answers of static_handle (static_handle.c:20-80).
LEMMA StaticIs ==
    ASSUME NEW req, NEW member, NEW r \in Static(req, member)
    PROVE  Safe(r)
<1> DEFINE file == StaticFile[req.uri]
           made1 == [New EXCEPT !.body = file]
           typed == AddHeader(made1, "Content-Type", Last(req.uri))
           sized == AddHeader(typed, "Content-Length", Len(file))
           served == AddHeader(sized, "Cache-Control", "max-age=2592000")
<1>1. r = NULL \/ (r = served /\ req.uri \in DOMAIN StaticFile)
  BY Zenon DEF Static
<1>2. /\ Response(made1) /\ ~made1.freed /\ made1.body = file
  <2>1. /\ DOMAIN made1 = DOMAIN New /\ made1.status = New.status /\ made1.headers = <<>>
        /\ made1.body = file /\ made1.freed = New.freed
    BY DEF New
  <2> HIDE DEF made1
  <2>2. <<>> \in Seq({} \X {}) /\ Len(<<>>) = 0
    OBVIOUS
  <2>3. Measured(made1)
    BY <2>1, <2>2 DEF Measured
  <2> QED BY <2>1, <2>3, MadeIs DEF Response
<1> HIDE DEF made1
<1>3. Response(typed) /\ ~typed.freed /\ typed.body = file
  BY <1>2, HeaderAdded
<1> HIDE DEF typed
<1>4. ASSUME req.uri \in DOMAIN StaticFile
      PROVE  Response(sized) /\ ~sized.freed
  <2>1. file # NULL
    BY <1>4, StaticAssumption, WordsAssumption
  <2> HIDE DEF file
  <2> QED BY <1>3, <2>1, HeaderAdded
<1> HIDE DEF sized
<1>5. ASSUME req.uri \in DOMAIN StaticFile
      PROVE  Response(served) /\ ~served.freed
  BY <1>4, <1>5, MadeIs
<1> QED BY <1>1, <1>5 DEF Safe

\* The answer of any plugin.
LEMMA RepliesAre ==
    ASSUME NEW h \in Plugins, NEW req, NEW member, NEW r \in Reply(h, req, member)
    PROVE  \/ r = NULL \/ (Response(r) /\ (r.freed => h \in {"like", "unlike"}))
           \/ r = Crash /\ Unrepeated(req, member)
<1>1. CASE h \in {"home", "about", "notFound", "login", "logout"}
  <2>1. \/ r \in Home(req, member) \/ r \in About(req, member)
        \/ r \in Absent(req, member) \/ r \in Login(req, member)
        \/ r \in Logout(req, member)
    BY <1>1 DEF Reply
  <2> QED BY <2>1, ShowIs DEF Safe
<1>2. CASE h \in {"dashboard", "search", "profile", "post", "connect"}
  <2>1. \/ r \in Dashboard(req, member) \/ r \in Search(req, member)
        \/ r \in Profile(req, member) \/ r \in Post(req, member)
        \/ r \in Connect(req, member)
    BY <1>2 DEF Reply
  <2> QED BY <2>1, MemberPageIs DEF Safe
<1>3. CASE h = "signup"
  BY <1>3, SignupIs DEF Reply, Safe
<1>4. CASE h \in {"like", "unlike"}
  <2>1. r \in Like(req, member) \/ r \in Unlike(req, member)
    BY <1>4 DEF Reply
  <2> QED BY <1>4, <2>1, MarkedIs
<1>5. CASE h = "static_handle"
  BY <1>5, StaticIs DEF Reply, Safe
<1> QED BY <1>1, <1>2, <1>3, <1>4, <1>5 DEF Plugins


-----------------------------------------------------------------------------
(* What a plugin is given of a form.                                       *)

\* The beginning of a text has no other words.
LEMMA PrefixType ==
    ASSUME NEW S, NEW w \in Seq(S), NEW T, NEW v \in Seq(T), v = w \/ IsPrefix(v, w)
    PROVE  v \in Seq(S)
<1>1. CASE v = w
  BY <1>1
<1>2. CASE IsPrefix(v, w)
  <2>1. Len(v) <= Len(w) /\ SubSeq(v, 1, Len(v)) = SubSeq(w, 1, Len(v))
    BY <1>2 DEF IsPrefix
  <2>2. Len(v) \in Nat /\ Len(w) \in Nat
    BY LenProperties
  <2>3. \A i \in 1..Len(v) : v[i] = w[i]
    BY <2>1, <2>2, SubSeqProperties
  <2>4. \A i \in 1..Len(v) : v[i] \in S
    BY <2>1, <2>2, <2>3, ElementOfSeq
  <2> QED BY <2>4
<1> QED BY <1>1, <1>2

\* The pairs of a form without holes are its first fields, and each has a text.
LEMMA FieldsSeen ==
    ASSUME NEW t, Thread = {t}, ParsingInv(t), ppc[t] = "parsed", NoHole(asking[t].form)
    PROVE  LET F == asking[t].form
               list == parsed[t].body
               n == Len(list)
           IN  /\ list \in PairList /\ n \in 0..Len(F)
               /\ \A i \in 1..n : /\ list[n + 1 - i][1] = <<F[i].name>>
                                  /\ list[n + 1 - i][2] \in Seq(STRING)
<1> DEFINE F == asking[t].form
           list == parsed[t].body
           n == Len(list)
           Is(i, f) == list[i][1] = <<f.name>> /\ list[i][2] \in Seq(STRING)
<1>1. AtParsed(t) /\ asking[t] \in Requests
  BY TakenUp
<1>2. F \in Fields
  BY <1>1, RequestIs
<1>3. F \in Seq(FieldSet) /\ Len(F) \in Nat
  BY <1>2, LenProperties DEF Fields, FieldSet
<1>4. \A i \in 1..Len(F) : F[i] \in FieldSet
  BY <1>3, ElementOfSeq
<1>5. \A f \in FieldSet : f.value \in Seq(STRING)
  <2>1. TypedWord \subseteq STRING
    BY DEF TypedWord
  <2> QED BY <2>1, SeqMonotonic DEF FieldSet
<1>6. PairsOf(F, list, Whole(t))
  BY <1>1 DEF AtParsed, BodyOK
<1>7. list \in PairList
  BY DEF ParsingInv, ParserType, ParsedType
<1>8. n \in Nat
  BY <1>7, LenProperties DEF PairList
<1>9. CASE Whole(t)
  <2>1. PICK m \in 0..Len(F) : list = AsPairs(SubSeq(F, 1, m))
    BY <1>6, <1>9 DEF PairsOf, PairsUpto
  <2>2. Len(list) = m
    BY <1>2, <2>1, PairsAre
  <2>3. \A i \in 1..m : list[m + 1 - i] = PairOf(F[i])
    BY <1>2, <2>1, PairsAre
  <2>4. \A i \in 1..m : i \in 1..Len(F)
    BY <1>3
  <2> HIDE DEF list
  <2>5. \A i \in 1..m : Is(m + 1 - i, F[i])
    BY <1>4, <1>5, <2>3, <2>4 DEF PairOf
  <2> HIDE DEF Is
  <2>6. n \in 0..Len(F) /\ \A i \in 1..n : Is(n + 1 - i, F[i])
    BY <2>1, <2>2, <2>5
  <2> QED BY <1>7, <2>6 DEF Is, list
<1>10. CASE ~Whole(t)
  <2> DEFINE seen == Reverse(list)
             sent == Filled(F)
  <2>1. FirstFields(F, list)
    BY <1>6, <1>10 DEF PairsOf
  <2>2. seen = [i \in 1..n |-> list[(n - i) + 1]]
    BY DEF Reverse
  <2>3. Len(seen) = n /\ DOMAIN seen = 1..n
    BY <1>8, <2>2
  <2>4. 0 \in 0..Len(F) /\ \A i \in 1..0 : F[i].value # <<>>
    BY <1>3
  <2>5. Len(sent) \in Nat /\ Len(sent) <= Len(F)
    BY <1>2, <2>4, FilledIs
  <2>6. \A i \in 1..Len(sent) : sent[i] = F[i]
    BY <1>2, <2>4, FilledIs
  <2>7. n <= Len(sent)
    BY <2>1, <2>3 DEF FirstFields
  <2>8. ASSUME NEW i \in 1..n
        PROVE  /\ seen[i][1] = <<sent[i].name>>
               /\ seen[i][2] = sent[i].value \/ IsPrefix(seen[i][2], sent[i].value)
    BY <2>1, <2>3 DEF FirstFields
  <2> HIDE DEF seen, sent
  <2>9. ASSUME NEW i \in 1..n
        PROVE  Is(n + 1 - i, F[i])
    <3>1. i \in 1..Len(F) /\ sent[i] = F[i] /\ (n - i) + 1 = n + 1 - i /\ n + 1 - i \in 1..n
      BY <1>3, <1>8, <2>5, <2>6, <2>7
    <3>2. seen[i] = list[n + 1 - i]
      BY <2>2, <3>1
    <3> DEFINE v == list[n + 1 - i][2]
               w == F[i].value
    <3>3. w \in Seq(STRING)
      BY <1>4, <1>5, <3>1
    <3>4. v \in Texts
      BY <1>7, <3>1, ElementOfSeq DEF PairList
    <3>5. list[n + 1 - i][1] = <<F[i].name>> /\ (v = w \/ IsPrefix(v, w))
      BY <2>8, <3>1, <3>2
    <3> HIDE DEF v, w
    <3>6. v \in Seq(STRING)
      BY <3>3, <3>4, <3>5, PrefixType DEF Texts
    <3> QED BY <3>5, <3>6 DEF v
  <2> HIDE DEF Is
  <2>10. n \in 0..Len(F) /\ \A i \in 1..n : Is(n + 1 - i, F[i])
    BY <1>3, <1>8, <2>5, <2>7, <2>9
  <2> QED BY <1>7, <2>10 DEF Is
<1> QED BY <1>9, <1>10


\* A password is repeated only in a form in which it was typed, unless there is
\* a hole in it (signup.c:72-80).
LEMMA HoleIs ==
    ASSUME NEW t, Thread = {t}, ParsingInv(t), ppc[t] = "parsed",
           NEW member, Unrepeated(parsed[t], member)
    PROVE  ~NoHole(asking[t].form)
<1> SUFFICES ASSUME NoHole(asking[t].form) PROVE FALSE
  OBVIOUS
<1> DEFINE F == asking[t].form
           list == parsed[t].body
           n == Len(list)
           first == <<"password">>
           second == <<"confirm-password">>
           M == Matching(list, first)
<1>1. list \in PairList /\ n \in 0..Len(F)
  BY FieldsSeen
<1>2. \A i \in 1..n : list[n + 1 - i][1] = <<F[i].name>> /\ list[n + 1 - i][2] \in Seq(STRING)
  BY FieldsSeen
<1>3. asking[t] \in Requests /\ F \in Fields
  BY TakenUp, RequestIs
<1>4. Len(F) \in Nat /\ DOMAIN F = 1..Len(F) /\ n \in Nat /\ DOMAIN list = 1..n
  BY <1>1, <1>3, LenProperties DEF Fields, PairList
<1>5. Lookup(list, first) = NULL /\ Lookup(list, second) # NULL
  BY DEF Unrepeated
<1>6. PICK m \in 1..n : list[m][1] = second
  BY <1>4, <1>5 DEF Lookup, Matching
<1> DEFINE i == n + 1 - m
<1>7. i \in 1..n /\ n + 1 - i = m /\ i \in DOMAIN F
  BY <1>1, <1>4
<1>8. F[i].name = "confirm-password"
  <2> HIDE DEF list, F, n, i
  <2>1. <<F[i].name>> = second
    BY <1>2, <1>6, <1>7
  <2> QED BY <2>1
<1>9. PICK j \in 1..(i - 1) : F[j].name = "password"
  BY <1>3, <1>7, <1>8, RequestsAssumption
<1>10. j \in 1..n /\ n + 1 - j \in 1..n
  BY <1>1, <1>4, <1>7
<1>11. n + 1 - j \in M
  <2>1. list[n + 1 - j][1] = first
    BY <1>2, <1>9, <1>10
  <2> QED BY <1>4, <1>10, <2>1 DEF Matching
<1>12. M \subseteq 1..n
  BY <1>4 DEF Matching
<1> DEFINE k == Min(M)
<1> HIDE DEF list, F, M, i, first, second
<1>13. M \subseteq Nat /\ M # {}
  BY <1>4, <1>11, <1>12
<1>14. k \in M
  BY <1>13, MinProperties
<1>15. k \in 1..n /\ n + 1 - k \in 1..n /\ n + 1 - (n + 1 - k) = k
  <2>1. n \in Nat /\ k \in 1..n
    BY <1>4, <1>12, <1>14
  <2> HIDE DEF k, n
  <2> QED BY <2>1
<1>16. list[k][2] \in Seq(STRING)
  BY <1>2, <1>15
<1>17. Lookup(list, first) = list[k][2]
  BY <1>13 DEF Lookup, M
<1>18. NULL \notin Seq(STRING)
  BY WordsAssumption
<1> QED BY <1>5, <1>16, <1>17, <1>18

-----------------------------------------------------------------------------
(* The invariant of a worker's answers.                                    *)

\* A search that found nothing was for a path that had no route.
SearchedOK(t) ==
    hpc[t] = "searching" /\ spc[t] = "done" /\ found[t] = NULL => ~sought[t].known

\* A response is one that the plugin of the route gives to the request.
Replied(t) ==
    found[t] \in Handler /\ response[t] \in Reply(found[t], parsed[t], account[t])

\* What was sent: that the request is bad, that there is no response, or it,
\* with the headers for who stays.
Posted(t) == Sent(IF KeepAlive(parsed[t]) THEN KeptAlive(response[t]) ELSE response[t])

SentOK(t) ==
    \/ ppc[t] = "fail" /\ wire[t].status = 400 /\ response[t] = NULL
    \/ /\ ppc[t] = "parsed" /\ Replied(t) /\ response[t] # Crash
       /\ IF response[t] = NULL THEN wire[t].status = 404 ELSE wire[t] = Posted(t)

CrashKnown(t) ==
    \/ hpc[t] = "searching" /\ ~sought[t].known
    \/ hpc[t] = "called" /\ ~NoHole(asking[t].form)
    \/ hpc[t] = "sent" /\ found[t] \in {"like", "unlike"}

AnswerOK(t) ==
    /\ SearchedOK(t)
    /\ hpc[t] \in {"idle", "parsing", "searching"} => response[t] = NULL
    /\ hpc[t] = "called" => Replied(t) /\ (Up => response[t] # Crash)
    /\ hpc[t] = "sent" => SentOK(t)
    /\ process = "crashed" => CrashKnown(t)

Tabled ==
    /\ DOMAIN account = Thread /\ DOMAIN response = Thread /\ DOMAIN found = Thread
    /\ DOMAIN spc = Thread

AnswersInv(t) == Tabled /\ AnswerOK(t)

\* There is no answer at the start.
LEMMA AnswersInit ==
    ASSUME NEW t, Thread = {t}, Init
    PROVE  AnswersInv(t)
BY DEF Init, TrieInit, AnswersInv, Tabled, AnswerOK, SearchedOK

\* What leaves a worker's search and answer alone keeps the invariant.
LEMMA AnswerStays ==
    ASSUME NEW t, Thread = {t}, AnswersInv(t),
           UNCHANGED <<process, hpc, spc, found, sought, account, response, wire>>,
           hpc[t] # "idle" => UNCHANGED <<ppc, parsed, asking>>
    PROVE  AnswersInv(t)'
BY DEF AnswersInv, Tabled, AnswerOK, SearchedOK, Replied, SentOK, Posted, CrashKnown, Up

\* Nothing is known of a worker that has not got to its search.
LEMMA NoAnswerYet ==
    ASSUME NEW t, Thread = {t}, AnswersInv(t), Up, process' = process, Tabled',
           hpc'[t] \in {"idle", "parsing"}, response'[t] = NULL
    PROVE  AnswersInv(t)'
BY DEF AnswersInv, AnswerOK, SearchedOK, Up

\* The routes are loaded again, or the process exits (cgi_url_dltrie.c:110-142).
LEMMA LoadingAnswers ==
    ASSUME NEW t, Thread = {t}, AnswersInv(t), Loading
    PROVE  AnswersInv(t)'
<1>1. UNCHANGED <<parser, handler, search>> /\ Up
  BY DEF Loading, Load, Reload, LoadLine, LoadFails, LoadEnd, Create, WriteKey, Walk, Enter,
         SetHandler, search
<1>2. UNCHANGED <<hpc, spc, found, sought, account, response, wire, ppc, parsed, asking>>
  BY <1>1 DEF parser, handler, search
<1>3. CASE LoadFails
  <2>1. process' = "exited"
    BY <1>3 DEF LoadFails
  <2> QED BY <1>1, <1>2, <2>1 DEF AnswersInv, Tabled, AnswerOK, SearchedOK, Replied, SentOK,
                                  Posted, Up
<1>4. CASE ~LoadFails
  <2>1. process' = process
    BY <1>4 DEF Loading, Load, Reload, LoadLine, LoadEnd, Create, WriteKey, Walk, Enter,
                SetHandler
  <2> QED BY <1>2, <2>1, AnswerStays
<1> QED BY <1>3, <1>4

\* A request comes, and is parsed (cgi_event_dispatcher.c:244-256).
LEMMA ParsingAnswers ==
    ASSUME NEW t, Thread = {t}, ParsingInv(t), AnswersInv(t),
           Receive(t) \/ ReceiveRest(t) \/ Parsing(t) \/ BadRequest(t)
    PROVE  AnswersInv(t)'
<1>1. DOMAIN hpc = Thread /\ DOMAIN wire = Thread
  BY DEF ParsingInv, HandleType
<1>2. CASE Receive(t) \/ ReceiveRest(t)
  <2>1. /\ Up /\ process' = process /\ hpc' = [hpc EXCEPT ![t] = "parsing"]
        /\ UNCHANGED <<search, account, response>>
    BY <1>2 DEF Receive, ReceiveRest, At, Step
  <2>2. response'[t] = NULL
    BY <1>2, <2>1 DEF AnswersInv, AnswerOK, Receive, ReceiveRest, At
  <2> QED BY <1>1, <2>1, <2>2, NoAnswerYet DEF AnswersInv, Tabled, search
<1>3. CASE Parsing(t)
  <2>1. Up /\ process' = process /\ hpc[t] = "parsing" /\ UNCHANGED <<search, handler>>
    BY <1>3 DEF Parsing, At
  <2>2. response'[t] = NULL
    BY <2>1 DEF AnswersInv, AnswerOK, handler
  <2> QED BY <2>1, <2>2, NoAnswerYet DEF AnswersInv, Tabled, search, handler
<1>4. CASE BadRequest(t)
  <2>1. /\ Up /\ process' = process /\ hpc' = [hpc EXCEPT ![t] = "sent"] /\ ppc[t] = "fail"
        /\ UNCHANGED <<search, parser, account, response>>
        /\ wire' = [wire EXCEPT ![t] =
                       [status |-> 400, headers |-> <<>>, body |-> <<"Bad Request">>]]
    BY <1>4 DEF BadRequest, At, Step
  <2>2. SentOK(t)'
    <3>1. ppc'[t] = "fail" /\ wire'[t].status = 400
      BY <1>1, <2>1 DEF parser
    <3>2. response'[t] = NULL
      BY <1>4, <2>1 DEF BadRequest, At, AnswersInv, AnswerOK
    <3> QED BY <3>1, <3>2 DEF SentOK
  <2>3. hpc'[t] = "sent" /\ Tabled'
    BY <1>1, <2>1 DEF AnswersInv, Tabled, search
  <2> QED BY <2>1, <2>2, <2>3 DEF AnswersInv, AnswerOK, SearchedOK, Up
<1> QED BY <1>2, <1>3, <1>4

\* The account is looked up and the search for the handler begins, and ends
\* (cgi_event_dispatcher.c:258-264).
LEMMA SearchAnswers ==
    ASSUME NEW t, Thread = {t}, ParsingInv(t), IInv, AnswersInv(t),
           Session(t) \/ SearchStep(t)
    PROVE  AnswersInv(t)'
<1>1. DOMAIN hpc = Thread /\ Tabled
  BY DEF ParsingInv, HandleType, AnswersInv
<1>2. CASE Session(t)
  <2>1. /\ Up /\ process' = process /\ hpc' = [hpc EXCEPT ![t] = "searching"]
        /\ spc' = [spc EXCEPT ![t] = "compare"] /\ UNCHANGED <<found, response>>
        /\ DOMAIN account' = DOMAIN account
    BY <1>2 DEF Session, At, Step, Find
  <2>2. hpc'[t] = "searching" /\ spc'[t] = "compare" /\ Tabled'
    BY <1>1, <2>1 DEF Tabled
  <2>3. response'[t] = NULL
    BY <1>2, <2>1 DEF Session, At, AnswersInv, AnswerOK
  <2> QED BY <2>1, <2>2, <2>3 DEF AnswersInv, AnswerOK, SearchedOK, Up
<1>3. CASE SearchStep(t)
  <2>1. Up /\ hpc[t] = "searching" /\ FindStep(t) /\ UNCHANGED <<parser, handler>>
    BY <1>3 DEF SearchStep, At
  <2>2. process' = process /\ sought' = sought /\ hpc' = hpc
    BY <2>1 DEF FindStep, Compare, NotFound, NextSibling, Descend, TakeHandler, handler
  <2>3. Tabled'
    BY <1>1, <2>1 DEF FindStep, Compare, NotFound, NextSibling, Descend, TakeHandler, handler,
                      Tabled
  <2>4. SearchedOK(t)'
    <3>1. CASE NotFound(t) \/ TakeHandler(t)
      <4> SUFFICES ASSUME sought[t].known PROVE found'[t] # NULL
        BY <2>2 DEF SearchedOK
      <4> DEFINE p == sought[t].path
      <4>1. p \in DOMAIN routes /\ found' = [found EXCEPT ![t] = routes[p]]
        BY <3>1, FindsRoute
      <4>2. routes \in [DOMAIN routes -> Handler]
        BY DEF IInv, TypeOK, RouteTypeOK
      <4> HIDE DEF p
      <4>3. found'[t] \in Handler
        BY <1>1, <4>1, <4>2 DEF Tabled
      <4> QED BY <4>3, NullAssumption
    <3>2. CASE Compare(t) \/ NextSibling(t) \/ Descend(t)
      <4>1. spc'[t] # "done"
        BY <1>1, <3>2 DEF Compare, NextSibling, Descend, Tabled
      <4> QED BY <4>1 DEF SearchedOK
    <3> QED BY <2>1, <3>1, <3>2 DEF FindStep
  <2>5. response'[t] = NULL
    BY <2>1 DEF AnswersInv, AnswerOK, handler
  <2> QED BY <2>1, <2>2, <2>3, <2>4, <2>5 DEF AnswersInv, AnswerOK, Up
<1> QED BY <1>2, <1>3

\* The plugin is called, if the search has found one (cgi_event_dispatcher.c:265-267).
LEMMA CallAnswers ==
    ASSUME NEW t, Thread = {t}, ParsingInv(t), IInv, AnswersInv(t), NoHandler(t) \/ Call(t)
    PROVE  AnswersInv(t)'
<1>1. DOMAIN hpc = Thread /\ Tabled /\ hpc[t] = "searching" /\ ppc[t] = "parsed"
  BY DEF ParsingInv, HandleType, AnswersInv, NoHandler, Call, At
<1>2. CASE NoHandler(t)
  <2>1. /\ process' = "crashed" /\ spc[t] = "done" /\ found[t] = NULL
        /\ UNCHANGED <<search, parser, handler>>
    BY <1>2 DEF NoHandler
  <2>2. ~sought[t].known
    BY <1>1, <2>1 DEF AnswersInv, AnswerOK, SearchedOK
  <2> QED BY <1>1, <2>1, <2>2 DEF AnswersInv, AnswerOK, SearchedOK, CrashKnown, Tabled, search,
                                  handler, Up
<1>3. CASE Call(t)
  <2> DEFINE p == parsed[t]
             a == account[t]
             h == found[t]
  <2>1. /\ h # NULL /\ hpc' = [hpc EXCEPT ![t] = "called"]
        /\ UNCHANGED <<search, parser, account, wire, asking>>
    BY <1>3 DEF Call, Step
  <2>2. PICK r \in Reply(h, p, a) :
           process' = Ends(r) /\ response' = [response EXCEPT ![t] = r]
    BY <1>3 DEF Call
  <2>3. h \in Handler
    BY <2>1 DEF IInv, TypeOK, SearchTypeOK
  <2>4. hpc'[t] = "called" /\ response'[t] = r /\ Tabled'
    BY <1>1, <2>1, <2>2 DEF Tabled, search
  <2>5. Replied(t)'
    BY <2>1, <2>2, <2>3, <2>4 DEF Replied, search, parser
  <2>6. process' = "crashed" <=> r = Crash
    BY <2>2 DEF Ends
  <2>7. Up' => response'[t] # Crash
    BY <2>4, <2>6 DEF Up
  <2>8. process' = "crashed" => CrashKnown(t)'
    <3> SUFFICES ASSUME r = Crash PROVE CrashKnown(t)'
      BY <2>6
    <3>1. h \in Plugins
      BY <2>3, PluginsAssumption
    <3>2. r = NULL \/ Response(r) \/ Unrepeated(p, a)
      <4> HIDE DEF p, a, h
      <4> QED BY <2>2, <3>1, RepliesAre
    <3>3. Unrepeated(p, a)
      BY <3>2, ResponseIs, CrashAssumption
    <3>4. ~NoHole(asking[t].form)
      BY <1>1, <3>3, HoleIs
    <3> QED BY <2>1, <2>4, <3>4 DEF CrashKnown
  <2> QED BY <2>4, <2>5, <2>7, <2>8 DEF AnswersInv, AnswerOK, SearchedOK
<1> QED BY <1>2, <1>3

\* What is added to a response for who stays does not change its status.
LEMMA KeptAliveIs ==
    ASSUME NEW r, Response(r)
    PROVE  LET n == IF r.body # NULL THEN CLength(r.body) ELSE 0
           IN  /\ KeptAlive(r).status = r.status /\ KeptAlive(r).body = r.body
               /\ KeptAlive(r).headers =
                     AddPair("Content-Length", n, AddPair("Connection", "Keep-Alive", r.headers))
<1> DEFINE n == IF r.body # NULL THEN CLength(r.body) ELSE 0
           kept == AddHeader(r, "Connection", "Keep-Alive")
           sized == AddHeader(kept, "Content-Length", n)
<1> HIDE DEF n
<1>1. /\ DOMAIN kept = DOMAIN r /\ kept.status = r.status /\ kept.body = r.body
      /\ kept.headers = AddPair("Connection", "Keep-Alive", r.headers)
  BY AddHeaderIs DEF Response
<1> HIDE DEF kept
<1>2. /\ sized.status = kept.status /\ sized.body = kept.body
      /\ sized.headers = AddPair("Content-Length", n, kept.headers)
  BY <1>1, AddHeaderIs DEF Response
<1> QED BY <1>1, <1>2 DEF KeptAlive, kept, sized, n

\* The response is written (cgi_event_dispatcher.c:268-290).
LEMMA WriteAnswers ==
    ASSUME NEW t, Thread = {t}, ParsingInv(t), AnswersInv(t), NoResponse(t) \/ Write(t)
    PROVE  AnswersInv(t)'
<1>1. /\ DOMAIN hpc = Thread /\ DOMAIN wire = Thread /\ Tabled
      /\ hpc[t] = "called" /\ ppc[t] = "parsed" /\ Up
  BY DEF ParsingInv, HandleType, AnswersInv, NoResponse, Write, At
<1>2. Replied(t) /\ response[t] # Crash
  BY <1>1 DEF AnswersInv, AnswerOK
<1>3. /\ hpc' = [hpc EXCEPT ![t] = "sent"] /\ process' = process
      /\ UNCHANGED <<search, parser, account, response>>
  BY DEF NoResponse, Write, Step
<1>4. IF response[t] = NULL THEN wire'[t].status = 404 ELSE wire'[t] = Posted(t)
  <2>1. CASE NoResponse(t)
    BY <1>1, <2>1 DEF NoResponse
  <2>2. CASE Write(t)
    BY <1>1, <2>2, Zenon DEF Write, Posted
  <2> QED BY <2>1, <2>2
<1>5. SentOK(t)'
  BY <1>1, <1>2, <1>3, <1>4 DEF SentOK, Posted, Replied, search, parser
<1>6. hpc'[t] = "sent" /\ Tabled'
  BY <1>1, <1>3 DEF Tabled, search
<1> QED BY <1>1, <1>3, <1>5, <1>6 DEF AnswersInv, AnswerOK, SearchedOK, Up

\* requestDel frees what like and unlike have freed, and handle returns
\* (cgi_event_dispatcher.c:291-317).
LEMMA DoneAnswers ==
    ASSUME NEW t, Thread = {t}, ParsingInv(t), AnswersInv(t), DoubleFree(t) \/ Done(t)
    PROVE  AnswersInv(t)'
<1>1. DOMAIN hpc = Thread /\ DOMAIN wire = Thread /\ Tabled /\ hpc[t] = "sent" /\ Up
  BY DEF ParsingInv, HandleType, AnswersInv, DoubleFree, Done, At
<1>2. CASE DoubleFree(t)
  <2>1. /\ wire[t].status = 302 /\ response[t].freed /\ process' = "crashed"
        /\ UNCHANGED <<search, parser, handler>>
    BY <1>2 DEF DoubleFree
  <2>2. SentOK(t)
    BY <1>1 DEF AnswersInv, AnswerOK
  <2>3. Replied(t) /\ response[t] # Crash /\ response[t] # NULL
    BY <2>1, <2>2 DEF SentOK
  <2>4. found[t] \in {"like", "unlike"}
    <3> DEFINE r == response[t]
    <3>1. found[t] \in Plugins /\ r \in Reply(found[t], parsed[t], account[t])
      BY <2>3, PluginsAssumption DEF Replied
    <3> HIDE DEF r
    <3>2. \/ r = NULL \/ (Response(r) /\ (r.freed => found[t] \in {"like", "unlike"}))
          \/ r = Crash
      BY <3>1, RepliesAre
    <3> QED BY <2>1, <2>3, <3>2 DEF r
  <2>5. CrashKnown(t)' /\ SentOK(t)' /\ hpc'[t] = "sent" /\ Tabled'
    BY <1>1, <2>1, <2>2, <2>4 DEF CrashKnown, SentOK, Posted, Replied, Tabled, search, parser,
                                       handler
  <2> QED BY <2>5 DEF AnswersInv, AnswerOK, SearchedOK
<1>3. CASE Done(t)
  <2>1. /\ process' = process /\ hpc' = [hpc EXCEPT ![t] = "idle"]
        /\ DOMAIN account' = DOMAIN account /\ DOMAIN response' = DOMAIN response
        /\ DOMAIN found' = DOMAIN found /\ DOMAIN spc' = DOMAIN spc
        /\ response' = [response EXCEPT ![t] = NULL]
    BY <1>3 DEF Done, Return, Step
  <2> QED BY <1>1, <2>1, NoAnswerYet DEF Tabled
<1> QED BY <1>2, <1>3

\* Whatever is asked, a worker's answer is one of its plugin
\* (cgi_event_dispatcher.c:244-317).
THEOREM AnswersInvariant ==
    ASSUME NEW t, Thread = {t}
    PROVE  Spec => []AnswersInv(t)
<1>1. Init => AnswersInv(t)
  BY AnswersInit
<1>2. ParsingInv(t) /\ IInv /\ AnswersInv(t) /\ [Next]_vars => AnswersInv(t)'
  <2> SUFFICES ASSUME ParsingInv(t), IInv, AnswersInv(t), [Next]_vars
               PROVE  AnswersInv(t)'
    OBVIOUS
  <2>1. CASE UNCHANGED vars
    <3>1. UNCHANGED <<process, hpc, spc, found, sought, account, response, wire, ppc, parsed,
                      asking>>
      BY <2>1 DEF vars, search, parser, handler
    <3> QED BY <3>1, AnswerStays
  <2>2. CASE Loading
    BY <2>2, LoadingAnswers
  <2>3. CASE Receive(t) \/ ReceiveRest(t) \/ Parsing(t) \/ BadRequest(t)
    BY <2>3, ParsingAnswers
  <2>4. CASE Session(t) \/ SearchStep(t)
    BY <2>4, SearchAnswers
  <2>5. CASE NoHandler(t) \/ Call(t)
    BY <2>5, CallAnswers
  <2>6. CASE NoResponse(t) \/ Write(t)
    BY <2>6, WriteAnswers
  <2>7. CASE DoubleFree(t) \/ Done(t)
    BY <2>7, DoneAnswers
  <2>8. Next => \/ Loading \/ Receive(t) \/ ReceiveRest(t) \/ Parsing(t) \/ BadRequest(t)
                \/ Session(t) \/ SearchStep(t) \/ NoHandler(t) \/ Call(t)
                \/ NoResponse(t) \/ Write(t) \/ DoubleFree(t) \/ Done(t)
    BY DEF Next, Handle
  <2> QED BY <2>1, <2>2, <2>3, <2>4, <2>5, <2>6, <2>7, <2>8
<1>3. Spec => []ParsingInv(t) /\ []IInv
  BY ParsingInvariant, OneWorkerTrie, Invariant, PTL
<1> QED BY <1>1, <1>2, <1>3, PTL DEF Spec

\* What the plugin made, if it made something, is a response.
LEMMA RepliedIs ==
    ASSUME NEW t, Replied(t), response[t] # Crash, response[t] # NULL
    PROVE  Response(response[t])
<1> DEFINE r == response[t]
<1>1. found[t] \in Plugins /\ r \in Reply(found[t], parsed[t], account[t])
  BY PluginsAssumption DEF Replied
<1> HIDE DEF r
<1>2. r = NULL \/ Response(r) \/ r = Crash
  BY <1>1, RepliesAre
<1> QED BY <1>2 DEF r

\* What is sent is the response, with or without the headers for who stays.
LEMMA PostedIs ==
    ASSUME NEW t, Response(response[t])
    PROVE  LET r == response[t]
               kept == IF KeepAlive(parsed[t]) THEN KeptAlive(r) ELSE r
           IN  /\ Posted(t).status = r.status
               /\ Posted(t).headers = Reverse(kept.headers)
               /\ Posted(t).body = IF r.body = NULL THEN <<>> ELSE r.body
<1> DEFINE r == response[t]
           kept == IF KeepAlive(parsed[t]) THEN KeptAlive(r) ELSE r
<1>1. kept.status = r.status /\ kept.body = r.body
  <2> HIDE DEF r
  <2>1. Response(r)
    BY DEF r
  <2> QED BY <2>1, KeptAliveIs
<1> HIDE DEF kept
<1>2. /\ Sent(kept).status = kept.status /\ Sent(kept).headers = Reverse(kept.headers)
      /\ Sent(kept).body = IF kept.body = NULL THEN <<>> ELSE kept.body
  BY DEF Sent
<1>3. Posted(t) = Sent(kept)
  BY DEF Posted, kept
<1> QED BY <1>1, <1>2, <1>3 DEF kept

\* What is parsed of a whole request is that of a good one.
LEMMA GoodIs ==
    ASSUME NEW t, ParsingInv(t), ppc[t] = "parsed", Whole(t)
    PROVE  Good(asking[t])
<1> DEFINE F == asking[t].query
           list == parsed[t].query
<1>1. AtParsed(t) /\ asking[t] \in Requests
  BY TakenUp
<1>2. /\ asking[t].method \in Methods /\ ~asking[t].fragment /\ asking[t].version \in Versions
      /\ QueryOK(t)
  BY <1>1 DEF AtParsed, Located, MethodOK, Headed
<1>3. F \in Fields
  BY <1>1, RequestIs
<1>4. PairsUpto(F, Len(F), list) /\ (F # <<>> => list # <<>>)
  BY <1>2 DEF QueryOK, PairsOf, Entire
<1>5. DOMAIN F = 1..Len(F)
  BY <1>3, LenProperties DEF Fields
<1>6. F # <<>> => \E i \in DOMAIN F : F[i].value # <<>>
  <2> HIDE DEF F, list
  <2> QED BY <1>4, <1>5 DEF PairsUpto
<1> QED BY <1>2, <1>6 DEF Good

\* With one worker "400 Bad Request" goes to bad requests, and to all of them
\* that come in one piece (cgi_event_dispatcher.c:254-256, request.c:159-222).
THEOREM OneWorkerBadRequestOnlyIfBad ==
    ASSUME NEW t, Thread = {t}
    PROVE  Spec => []BadRequestOnlyIfBad
<1>1. ASSUME ParsingInv(t), AnswersInv(t), piece[t] = "whole"
      PROVE  /\ wire[t] # NULL /\ wire[t].status = 400 => ~Good(asking[t])
             /\ Accepted(t) => Good(asking[t])
  <2>1. Accepted(t) => Good(asking[t])
    BY <1>1, GoodIs DEF Accepted, Whole
  <2>2. ASSUME wire[t] # NULL, wire[t].status = 400
        PROVE  ~Good(asking[t])
    <3>1. hpc[t] = "sent"
      BY <1>1, <2>2 DEF ParsingInv, HandleType
    <3>2. SentOK(t)
      BY <1>1, <3>1 DEF AnswersInv, AnswerOK
    <3>3. CASE ppc[t] = "fail"
      <4>1. Underway(t)
        BY <1>1, <3>3 DEF ParsingInv
      <4> QED BY <1>1, <3>3, <4>1 DEF Underway, AtFail, Whole
    <3>4. CASE ppc[t] # "fail"
      <4>1. Replied(t) /\ response[t] # Crash /\ response[t] # NULL /\ wire[t] = Posted(t)
        BY <2>2, <3>2, <3>4 DEF SentOK
      <4>2. Response(response[t])
        BY <4>1, RepliedIs
      <4>3. wire[t].status \in {200, 302, 404}
        <5>1. Posted(t).status = response[t].status
          BY <4>2, PostedIs
        <5> QED BY <4>1, <4>2, <5>1 DEF Response
      <4> QED BY <2>2, <4>3
    <3> QED BY <3>3, <3>4
  <2> QED BY <2>1, <2>2
<1>2. ParsingInv(t) /\ AnswersInv(t) => BadRequestOnlyIfBad
  BY <1>1, ZenonT(60) DEF BadRequestOnlyIfBad
<1> QED BY <1>2, ParsingInvariant, AnswersInvariant, PTL

\* With one worker the process crashes for a path without a route, a sign-up
\* form with a hole in it, and the parameter r of like and unlike, and for
\* nothing else (cgi_event_dispatcher.c:265, signup.c:77, like.c:32).
THEOREM OneWorkerCrashesAreKnown ==
    ASSUME NEW t, Thread = {t}
    PROVE  Spec => []CrashesAreKnown
<1>1. AnswersInv(t) => CrashesAreKnown
  BY DEF AnswersInv, AnswerOK, CrashKnown, CrashesAreKnown
<1> QED BY <1>1, AnswersInvariant, PTL

-----------------------------------------------------------------------------
(* The length of what is sent.                                             *)

\* A text without a NUL is as long as strlen says.
LEMMA LengthIs ==
    ASSUME NEW T, NEW s \in Seq(T), NUL \notin ToSet(s)
    PROVE  CLength(s) = Len(s) /\ Len(s) \in Nat
<1>1. Len(s) \in Nat /\ DOMAIN s = 1..Len(s)
  BY LenProperties
<1> DEFINE n == Len(s) + 1
           S == {i \in 1..n : CharAt(s, i) = NUL}
<1>2. \A i \in 1..Len(s) : s[i] # NUL
  BY <1>1 DEF ToSet
<1>3. n \notin DOMAIN s
  BY <1>1
<1>4. CharAt(s, n) = NUL
  BY <1>3 DEF CharAt
<1>5. \A i \in 1..Len(s) : CharAt(s, i) # NUL
  BY <1>1, <1>2 DEF CharAt
<1>6. S = {n}
  BY <1>1, <1>4, <1>5
<1> HIDE DEF S
<1>7. Min(S) = n
  BY <1>1, <1>6, MinProperties
<1> QED BY <1>1, <1>7 DEF CLength, S

\* The headers of what is sent are those that were put on it, in the order in
\* which they were (response.c:102-124).
LEMMA LengthsAre ==
    ASSUME NEW r, Response(r), NEW n,
           r.body # NULL => n = Len(r.body),
           r.body = NULL => n = 0
    PROVE  LET list == AddPair("Content-Length", n, AddPair("Connection", "Keep-Alive", r.headers))
           IN  {h \in ToSet(Reverse(list)) : h[1] = "Content-Length"} = {<<"Content-Length", n>>}
<1> DEFINE H == r.headers
           one == <<"Connection", "Keep-Alive">>
           two == <<"Content-Length", n>>
           some == AddPair("Connection", "Keep-Alive", H)
           list == AddPair("Content-Length", n, some)
           back == Reverse(list)
           Lengths == {h \in ToSet(back) : h[1] = "Content-Length"}
<1>1. PICK K, V :
         /\ H \in Seq(K \X V)
         /\ \A i \in 1..Len(H) :
               H[i][1] = "Content-Length" => r.body # NULL /\ H[i][2] = Len(r.body)
  BY DEF Response, Measured
<1> DEFINE J == K \cup {"Connection", "Content-Length"}
           W == V \cup {"Keep-Alive", n}
           S == J \X W
<1>2. K \X V \subseteq S
  OBVIOUS
<1>3. H \in Seq(S) /\ one \in S /\ two \in S
  BY <1>1, <1>2, SeqMonotonic
<1>4. \A h \in S : h = <<h[1], h[2]>>
  OBVIOUS
<1>5. one[1] # "Content-Length" /\ two[1] = "Content-Length"
  OBVIOUS
<1>6. \A i \in 1..Len(H) : H[i][1] = "Content-Length" => H[i][2] = n
  BY <1>1
<1>7. Len(H) \in Nat /\ \A i \in 1..Len(H) : H[i] \in S
  BY <1>3, LenProperties, ElementOfSeq
<1> HIDE DEF H, S
<1>8. /\ some \in Seq(S) /\ Len(some) = Len(H) + 1 /\ some[1] = one
      /\ \A i \in 1..Len(H) : some[i + 1] = H[i]
  <2> DEFINE k == "Connection"
             v == "Keep-Alive"
  <2>1. <<k, v>> \in S /\ one = <<k, v>> /\ some = AddPair(k, v, H)
    BY <1>3
  <2> HIDE DEF k, v, one, some
  <2>2. H \in Seq(S) /\ <<k, v>> \in S /\ Len(H) \in Nat
    BY <1>3, <1>7, <2>1
  <2>3. AddPair(k, v, H) \in Seq(S) /\ Len(AddPair(k, v, H)) = Len(H) + 1
    BY <2>2, AddPairIs
  <2>4. AddPair(k, v, H)[1] = <<k, v>>
    BY <2>2, AddPairIs
  <2>5. \A i \in 1..Len(H) : AddPair(k, v, H)[i + 1] = H[i]
    BY <2>2, AddPairIs
  <2> QED BY <2>1, <2>3, <2>4, <2>5
<1> HIDE DEF some, one
<1>9. /\ list \in Seq(S) /\ Len(list) = Len(some) + 1 /\ list[1] = two
      /\ \A i \in 1..Len(some) : list[i + 1] = some[i]
  BY <1>3, <1>7, <1>8, AddPairIs
<1> HIDE DEF list
<1>10. Len(list) = Len(H) + 2 /\ Len(some) = Len(H) + 1
  BY <1>7, <1>8, <1>9
<1>11. ASSUME NEW i \in 1..Len(list), list[i][1] = "Content-Length"
       PROVE  list[i] = two
  <2>1. CASE i = 1
    BY <1>9, <2>1
  <2>2. CASE i = 2
    <3>1. 1 \in 1..Len(some) /\ list[1 + 1] = some[1]
      BY <1>7, <1>9, <1>10
    <3> QED BY <1>5, <1>8, <1>11, <2>2, <3>1
  <2>3. CASE i \notin {1, 2}
    <3>1. i - 2 \in 1..Len(H) /\ i - 1 \in 1..Len(some) /\ i - 2 + 1 = i - 1 /\ i - 1 + 1 = i
      BY <1>7, <1>10, <2>3
    <3>2. list[i] = H[i - 2]
      BY <1>8, <1>9, <3>1
    <3>3. H[i - 2] = <<H[i - 2][1], H[i - 2][2]>>
      BY <1>4, <1>7, <3>1
    <3>4. H[i - 2][2] = n
      BY <1>6, <1>11, <3>1, <3>2
    <3> QED BY <1>11, <3>2, <3>3, <3>4
  <2> QED BY <2>1, <2>2, <2>3
<1>12. back = [i \in 1..Len(list) |-> list[(Len(list) - i) + 1]]
  BY DEF Reverse
<1> HIDE DEF back
<1>13. DOMAIN back = 1..Len(list) /\ Len(list) \in Nat
  BY <1>7, <1>10, <1>12
<1>14. ASSUME NEW h \in Lengths
       PROVE  h = two
  <2>1. PICK i \in 1..Len(list) : h = back[i] /\ h[1] = "Content-Length"
    BY <1>13 DEF ToSet
  <2>2. (Len(list) - i) + 1 \in 1..Len(list) /\ back[i] = list[(Len(list) - i) + 1]
    BY <1>12, <1>13
  <2> QED BY <1>11, <2>1, <2>2
<1>15. two \in Lengths
  <2>1. Len(list) \in 1..Len(list) /\ (Len(list) - Len(list)) + 1 = 1
    BY <1>7, <1>10
  <2>2. back[Len(list)] = two
    BY <1>9, <1>12, <2>1
  <2> QED BY <1>5, <1>13, <2>1, <2>2 DEF ToSet
<1> HIDE DEF two, Lengths
<1>16. Lengths = {two}
  BY <1>14, <1>15
<1> QED BY <1>16 DEF Lengths, two, back, list, some, H

-----------------------------------------------------------------------------
(* The fields that a page reports missing.                                 *)

\* A context is a list of pairs, of whatever they are.
List(c) == \E S : c \in Seq(S)

\* The pairs of two lists are those of the one that they make.
LEMMA BothLists ==
    ASSUME NEW a, List(a), NEW b, List(b)
    PROVE  List(a \o b) /\ ToSet(a \o b) = ToSet(a) \cup ToSet(b)
<1>1. PICK A : a \in Seq(A)
  BY DEF List
<1>2. PICK B : b \in Seq(B)
  BY DEF List
<1> DEFINE S == A \cup B
           x == a \o b
<1>3. a \in Seq(S) /\ b \in Seq(S)
  BY <1>1, <1>2, SeqMonotonic
<1> HIDE DEF S
<1>4. x \in Seq(S) /\ Len(x) = Len(a) + Len(b)
  BY <1>3, BothAre
<1>5. \A j \in 1..Len(a) : x[j] = a[j]
  BY <1>3, BothAre
<1>6. \A j \in 1..Len(b) : x[Len(a) + j] = b[j]
  BY <1>3, BothAre
<1>7. /\ Len(a) \in Nat /\ Len(b) \in Nat
      /\ DOMAIN a = 1..Len(a) /\ DOMAIN b = 1..Len(b) /\ DOMAIN x = 1..Len(x)
  BY <1>3, <1>4, LenProperties
<1> HIDE DEF x
<1>8. ASSUME NEW i \in DOMAIN x
      PROVE  x[i] \in ToSet(a) \cup ToSet(b)
  <2>1. CASE i <= Len(a)
    BY <1>4, <1>5, <1>7, <2>1 DEF ToSet
  <2>2. CASE ~(i <= Len(a))
    <3>1. i - Len(a) \in 1..Len(b) /\ Len(a) + (i - Len(a)) = i
      BY <1>4, <1>7, <2>2
    <3>2. x[i] = b[i - Len(a)]
      BY <1>6, <3>1
    <3> QED BY <1>7, <3>1, <3>2 DEF ToSet
  <2> QED BY <2>1, <2>2
<1>9. \A j \in 1..Len(a) : j \in DOMAIN x
  BY <1>4, <1>7
<1>10. \A j \in 1..Len(b) : Len(a) + j \in DOMAIN x
  BY <1>4, <1>7
<1>11. ToSet(a) \cup ToSet(b) \subseteq ToSet(x)
  BY <1>5, <1>6, <1>7, <1>9, <1>10 DEF ToSet
<1>12. ToSet(x) = ToSet(a) \cup ToSet(b)
  BY <1>8, <1>11 DEF ToSet
<1> QED BY <1>4, <1>12 DEF List, x

\* A value that is shown is a text.
Text(x) == x \in Seq(STRING)

\* So are the words that the plugins put into contexts.
LEMMA LiteralsAre ==
    /\ Text(Missing) /\ Text(<<"Invalid">>) /\ Text(<<"Unexpected">>) /\ Text(<<"t">>)
    /\ Text(<<"none">>) /\ Text(<<"some">>)
    /\ Text(<<"home">>) /\ Text(<<"Home">>) /\ Text(<<"about">>) /\ Text(<<"About">>)
    /\ Text(<<"404 Not Found">>) /\ Text(<<"login">>) /\ Text(<<"Login">>)
    /\ Text(<<"signup">>) /\ Text(<<"Sign Up">>) /\ Text(<<"dashboard">>)
    /\ Text(<<"Dashboard">>) /\ Text(<<"search">>) /\ Text(<<"Search">>) /\ Text(<<"profile">>)
    /\ Text(<<Exit>>) /\ Text(<<>>)
<1>1. ASSUME NEW x \in Literal PROVE Text(<<x>>)
  <2>1. x \in STRING
    BY LiteralAssumption
  <2> DEFINE S == STRING
  <2> HIDE DEF S
  <2>2. x \in S
    BY <2>1 DEF S
  <2>3. <<x>> \in Seq(S)
    BY <2>2
  <2> QED BY <2>3 DEF Text, S
<1>2. /\ "missing!" \in Literal /\ "Invalid" \in Literal /\ "Unexpected" \in Literal
      /\ "t" \in Literal /\ "none" \in Literal /\ "some" \in Literal
      /\ "home" \in Literal /\ "Home" \in Literal /\ "about" \in Literal
      /\ "About" \in Literal /\ "404 Not Found" \in Literal /\ "login" \in Literal
      /\ "Login" \in Literal /\ "signup" \in Literal /\ "Sign Up" \in Literal
      /\ "dashboard" \in Literal /\ "Dashboard" \in Literal /\ "search" \in Literal
      /\ "Search" \in Literal /\ "profile" \in Literal /\ Exit \in Literal
  BY Zenon DEF Literal
<1>3. Text(<<>>)
  BY DEF Text
<1> QED BY <1>1, <1>2, <1>3, Zenon DEF Missing

\* Whatever is typed, and whatever a page is written with, is a string.
LEMMA WordsAreStrings == Word = STRING /\ Glyph = STRING
<1>1. Escaped \subseteq Literal /\ EscapeWords \subseteq Literal
  <2>1. DOMAIN Escapes = EscapeWords
    BY EscapesAre
  <2> QED BY <2>1, Zenon DEF Literal, Marks, Escaped
<1>2. {"UNKNOWN", "NUL", "CR", "LF", "TAB", ":", "top", "Connection", "keep-alive", "Cookie",
       "sid", "Content-Type", FormType} \subseteq Literal
  BY Zenon DEF Literal, Marks, NUL
<1>3. Spelled \subseteq Literal
  BY <1>1, <1>2, Zenon DEF Spelled, FormType
<1>4. {NUL, Exit, " ", "{", "}", "%", "include", "when"} \subseteq Literal
  BY Zenon DEF Literal, Marks
<1>5. Word = STRING
  BY <1>3, LiteralAssumption, Zenon DEF Word
<1>6. Glyph = STRING
  BY <1>4, LiteralAssumption, Zenon DEF Glyph
<1> QED BY <1>5, <1>6

\* A pair that is put on a list is one more of its pairs.
LEMMA OnList ==
    ASSUME NEW list, List(list), NEW k, NEW v
    PROVE  List(AddPair(k, v, list)) /\ ToSet(AddPair(k, v, list)) = {<<k, v>>} \cup ToSet(list)
<1> DEFINE one == <<<<k, v>>>>
<1>1. one \in Seq({<<k, v>>}) /\ DOMAIN one = {1} /\ one[1] = <<k, v>>
  OBVIOUS
<1>2. List(one)
  BY <1>1 DEF List
<1>3. ToSet(one) = {<<k, v>>}
  BY <1>1 DEF ToSet
<1>4. AddPair(k, v, list) = one \o list
  BY DEF AddPair
<1> HIDE DEF one
<1> QED BY <1>2, <1>3, <1>4, BothLists

\* If all pairs of a key have one value, that is what is looked up.
LEMMA AllTheSame ==
    ASSUME NEW c, List(c), NEW k, NEW w,
           \A p \in ToSet(c) : p[1] = k => p[2] = w,
           \E p \in ToSet(c) : p[1] = k
    PROVE  Lookup(c, k) = w
<1> DEFINE M == Matching(c, k)
<1>1. DOMAIN c = 1..Len(c) /\ Len(c) \in Nat
  BY LenProperties DEF List
<1>2. M \subseteq Nat /\ M # {}
  BY <1>1 DEF Matching, ToSet
<1>3. Min(M) \in M
  BY <1>2, MinProperties
<1>4. \A i \in M : c[i][2] = w
  BY DEF Matching, ToSet
<1>5. Lookup(c, k) = c[Min(M)][2]
  BY <1>2 DEF Lookup
<1> HIDE DEF M
<1> QED BY <1>3, <1>4, <1>5

\* A value that no pair of the key has is not looked up.
LEMMA NoneTheSame ==
    ASSUME NEW c, List(c), NEW k, NEW w, w # NULL,
           \A p \in ToSet(c) : p[1] = k => p[2] # w
    PROVE  Lookup(c, k) # w
<1> DEFINE M == Matching(c, k)
<1>1. DOMAIN c = 1..Len(c) /\ Len(c) \in Nat
  BY LenProperties DEF List
<1>2. M \subseteq Nat
  BY <1>1 DEF Matching
<1>3. \A i \in M : c[i][2] # w
  BY DEF Matching, ToSet
<1>4. CASE M = {}
  BY <1>4 DEF Lookup
<1>5. CASE M # {}
  <2>1. Min(M) \in M
    BY <1>2, <1>5, MinProperties
  <2>2. Lookup(c, k) = c[Min(M)][2]
    BY <1>5 DEF Lookup
  <2> HIDE DEF M
  <2> QED BY <1>3, <2>1, <2>2
<1> QED BY <1>4, <1>5

\* The pairs of a context say of fields which of them are missing.
Tells(pairs, body, fields) ==
    \A f \in fields :
        /\ \A p \in pairs :
              p[1] = ErrorOf[f] => (p[2] = Missing <=> Lookup(body, <<FieldOf[f]>>) = NULL)
        /\ Lookup(body, <<FieldOf[f]>>) = NULL => \E p \in pairs : p[1] = ErrorOf[f]

\* Then they are reported by the page.
LEMMA TellsIs ==
    ASSUME NEW c, List(c), NEW body, NEW fields, Tells(ToSet(c), body, fields), NEW f \in fields
    PROVE  Lookup(body, <<FieldOf[f]>>) = NULL <=> Lookup(c, ErrorOf[f]) = Missing
<1> DEFINE k == ErrorOf[f]
           v == Lookup(body, <<FieldOf[f]>>)
           pairs == ToSet(c)
<1>1. \A p \in pairs : p[1] = k => (p[2] = Missing <=> v = NULL)
  BY DEF Tells
<1>2. v = NULL => \E p \in pairs : p[1] = k
  BY DEF Tells
<1>3. Missing # NULL
  BY CrashAssumption
<1> HIDE DEF k, v, pairs
<1>4. CASE v = NULL
  <2>1. /\ \A p \in ToSet(c) : p[1] = k => p[2] = Missing
        /\ \E p \in ToSet(c) : p[1] = k
    BY <1>1, <1>2, <1>4 DEF pairs
  <2>2. Lookup(c, k) = Missing
    BY <2>1, AllTheSame
  <2> QED BY <1>4, <2>2 DEF k, v
<1>5. CASE v # NULL
  <2>1. \A p \in ToSet(c) : p[1] = k => p[2] # Missing
    BY <1>1, <1>5 DEF pairs
  <2>2. Lookup(c, k) # Missing
    BY <1>3, <2>1, NoneTheSame
  <2> QED BY <1>5, <2>2 DEF k, v
<1> QED BY <1>4, <1>5

\* What a page was made from.
LEMMA PageIs == \A f, c : Page(f, c).page.context = c
BY DEF Page, WithBody, New

\* An answer that sends somewhere is not a page.
LEMMA MovedIs ==
    /\ \A r, x : Response(r) => MovedTo(r, x).page = r.page
    /\ \A x : Redirect(x).page = NULL
<1>1. ASSUME NEW r, NEW x, Response(r)
      PROVE  MovedTo(r, x).page = r.page
  <2> DEFINE m == [r EXCEPT !.status = 302]
  <2>1. DOMAIN m = {"status", "headers", "body", "page", "freed"} /\ m.page = r.page
    BY <1>1 DEF Response
  <2> HIDE DEF m
  <2>2. AddHeader(m, "Location", x).page = m.page
    BY <2>1, AddHeaderIs
  <2> QED BY <2>1, <2>2 DEF MovedTo, m
<1>2. Response(New) /\ New.page = NULL
  BY MadeIs DEF New
<1> QED BY <1>1, <1>2 DEF Redirect

\* The page behind a form has a title and a place in the menu.
LEMMA SubtitleIs ==
    ASSUME NEW active, NEW subtitle
    PROVE  /\ List(Subtitle(active, subtitle))
           /\ ToSet(Subtitle(active, subtitle)) =
                 {<<"subtitle", subtitle>>, <<"active", active>>}
<1> DEFINE first == <<"subtitle", subtitle>>
           second == <<"active", active>>
           both == <<first, second>>
<1> HIDE DEF first, second
<1>1. both \in Seq({first, second}) /\ DOMAIN both = 1..2 /\ both[1] = first /\ both[2] = second
  OBVIOUS
<1>2. ToSet(both) = {first, second}
  BY <1>1 DEF ToSet
<1>3. Subtitle(active, subtitle) = both
  BY DEF Subtitle, first, second
<1> QED BY <1>1, <1>2, <1>3 DEF List, first, second

\* The page of a log-in that failed tells of its two fields (login.c:30-71).
LEMMA LoginTells ==
    ASSUME NEW req, req.method = "POST", NEW r \in Login(req, NULL), r.page # NULL
    PROVE  /\ List(r.page.context)
           /\ Tells(ToSet(r.page.context), req.body, {"username", "password"})
<1> DEFINE form == Subtitle(<<"login">>, <<"Login">>)
           username == Lookup(req.body, <<"username">>)
           password == Lookup(req.body, <<"password">>)
           named == IF username = NULL THEN With(form, ErrorOf.username, Missing)
                    ELSE With(form, "formUsername", username)
           checked == IF password = NULL THEN With(named, ErrorOf.password, Missing) ELSE named
           invalid == With(checked, ErrorOf.username, <<"Invalid">>)
<1>1. \/ r = Page("login.html", checked)
      \/ /\ username # NULL /\ password # NULL
         /\ \/ r = Page("login.html", invalid)
            \/ r = MovedTo(AddCookie(New, "sid"), "/dashboard")
  <2>1. r \in IF username = NULL \/ password = NULL THEN {Page("login.html", checked)}
              ELSE {MovedTo(AddCookie(New, "sid"), "/dashboard"), Page("login.html", invalid)}
    BY Zenon DEF Login
  <2> HIDE DEF username, password, checked, invalid
  <2> QED BY <2>1
<1>2. MovedTo(AddCookie(New, "sid"), "/dashboard").page = NULL
  <2>1. Response(AddHeader(New, "Set-Cookie", "sid"))
    BY MadeIs
  <2>2. AddHeader(New, "Set-Cookie", "sid").page = NULL
    BY AddHeaderIs DEF New
  <2> QED BY <2>1, <2>2, MovedIs DEF AddCookie
<1>3. \/ r.page.context = checked
      \/ username # NULL /\ password # NULL /\ r.page.context = invalid
  <2> HIDE DEF username, password, checked, invalid
  <2> QED BY <1>1, <1>2, PageIs
<1>4. List(form) /\ ToSet(form) = {<<"subtitle", <<"Login">>>>, <<"active", <<"login">>>>}
  BY SubtitleIs
<1> HIDE DEF form
<1> DEFINE first == IF username = NULL THEN <<"usernameError", Missing>>
                    ELSE <<"formUsername", username>>
<1>5. List(named) /\ ToSet(named) = {first} \cup ToSet(form)
  BY <1>4, OnList DEF With, ErrorOf
<1> HIDE DEF named
<1>6. List(checked)
      /\ ToSet(checked) = (IF password = NULL THEN {<<"passwordError", Missing>>} ELSE {})
                          \cup ToSet(named)
  BY <1>5, OnList DEF With, ErrorOf
<1> HIDE DEF checked
<1>7. List(invalid) /\ ToSet(invalid) = {<<"usernameError", <<"Invalid">>>>} \cup ToSet(checked)
  BY <1>6, OnList DEF With, ErrorOf
<1> HIDE DEF invalid
<1>8. Tells(ToSet(checked), req.body, {"username", "password"})
  <2> DEFINE nobody == <<"usernameError", Missing>>
             typed == <<"formUsername", username>>
             hidden == <<"passwordError", Missing>>
             title == <<"subtitle", <<"Login">>>>
             place == <<"active", <<"login">>>>
             pairs == ToSet(checked)
  <2>1. /\ nobody[1] = "usernameError" /\ nobody[2] = Missing
        /\ typed[1] = "formUsername" /\ hidden[1] = "passwordError" /\ hidden[2] = Missing
        /\ title[1] = "subtitle" /\ place[1] = "active"
    OBVIOUS
  <2>2. /\ \A p \in pairs : \/ username = NULL /\ p = nobody
                            \/ username # NULL /\ p = typed
                            \/ password = NULL /\ p = hidden
                            \/ p = title \/ p = place
        /\ username = NULL => nobody \in pairs
        /\ password = NULL => hidden \in pairs
    <3> HIDE DEF username, password
    <3> QED BY <1>4, <1>5, <1>6
  <2>3. ErrorOf["username"] = "usernameError" /\ ErrorOf["password"] = "passwordError"
        /\ FieldOf["username"] = "username" /\ FieldOf["password"] = "password"
    BY DEF ErrorOf, FieldOf
  <2> HIDE DEF username, password, nobody, typed, hidden, title, place, pairs
  <2>4. \A p \in pairs : p[1] = "usernameError" => (p[2] = Missing <=> username = NULL)
    BY <2>1, <2>2
  <2>5. \A p \in pairs : p[1] = "passwordError" => (p[2] = Missing <=> password = NULL)
    BY <2>1, <2>2
  <2>6. /\ username = NULL => \E p \in pairs : p[1] = "usernameError"
        /\ password = NULL => \E p \in pairs : p[1] = "passwordError"
    BY <2>1, <2>2
  <2> QED BY <2>3, <2>4, <2>5, <2>6 DEF Tells, username, password, pairs
<1>9. username # NULL /\ password # NULL =>
          Tells(ToSet(invalid), req.body, {"username", "password"})
  BY <1>4, <1>5, <1>6, <1>7 DEF Tells, ErrorOf, FieldOf, Missing
<1> QED BY <1>3, <1>6, <1>7, <1>8, <1>9

\* The pair of a list of one.
LEMMA OnePair ==
    ASSUME NEW k, NEW v
    PROVE  List(<<<<k, v>>>>) /\ ToSet(<<<<k, v>>>>) = {<<k, v>>}
<1> DEFINE pair == <<k, v>>
<1> HIDE DEF pair
<1>1. <<pair>> \in Seq({pair}) /\ DOMAIN <<pair>> = {1} /\ <<pair>>[1] = pair
  OBVIOUS
<1>2. ToSet(<<pair>>) = {pair}
  BY <1>1 DEF ToSet
<1> QED BY <1>1, <1>2 DEF List, pair

\* The pairs of a list without any.
LEMMA NoPair == List(<<>>) /\ ToSet(<<>>) = {}
<1>1. <<>> \in Seq({}) /\ DOMAIN <<>> = {}
  OBVIOUS
<1> QED BY <1>1 DEF List, ToSet

\* What sign-up says of the fields: a pair for each of the first three, and one
\* for a password that is missing or refused (signup.c:67-80).
LEMMA SignupFormIs ==
    ASSUME NEW body, NEW refused
    PROVE  LET value(f) == Lookup(body, <<f>>)
               c == SignupForm(body, refused)
           IN  /\ List(c)
               /\ Tells(ToSet(c), body, DOMAIN FieldOf)
               /\ \A p \in ToSet(c) : p[1] \notin {"subtitle", "active"}
               /\ body \in PairList => \A p \in ToSet(c) : Text(p[2])
<1> DEFINE value(f) == Lookup(body, <<f>>)
           input(f) == CASE value(f) = NULL -> <<ErrorOf[f], Missing>>
                         [] value(f) # NULL /\ f \in refused -> <<ErrorOf[f], <<"Invalid">>>>
                         [] OTHER -> <<FormOf[f], value(f)>>
           password ==
               CASE value("password") = NULL -> <<<<ErrorOf.password, Missing>>>>
                 [] value("password") # NULL /\ "password" \in refused ->
                       <<<<ErrorOf.password, <<"Invalid">>>>>>
                 [] OTHER -> <<>>
           confirm ==
               CASE value("confirm-password") = NULL -> <<<<ErrorOf.confirm, Missing>>>>
                 [] value("confirm-password") \notin {NULL, value("password")} ->
                       <<<<ErrorOf.confirm, <<"Invalid">>>>>>
                 [] OTHER -> <<>>
           inputs == Reverse([i \in DOMAIN Inputs |-> input(Inputs[i])])
           invalid == <<"Invalid">>
<1>1. SignupForm(body, refused) = confirm \o password \o inputs
  BY Zenon DEF SignupForm
<1>2. /\ List(password)
      /\ \A p \in ToSet(password) :
            p[1] = "passwordError" /\ (p[2] = Missing <=> value("password") = NULL) /\ Text(p[2])
      /\ value("password") = NULL => \E p \in ToSet(password) : p[1] = "passwordError"
  <2> DEFINE v == value("password")
             refusal == "password" \in refused
             one(w) == <<<<"passwordError", w>>>>
  <2>1. password = IF v = NULL THEN one(Missing) ELSE IF refusal THEN one(invalid) ELSE <<>>
    <3> HIDE DEF value
    <3> QED BY DEF ErrorOf
  <2>2. \A w : List(one(w)) /\ ToSet(one(w)) = {<<"passwordError", w>>}
    BY OnePair
  <2>3. List(<<>>) /\ ToSet(<<>>) = {}
    BY NoPair
  <2>4. invalid # Missing /\ Text(invalid)
    BY LiteralsAre DEF Missing
  <2> HIDE DEF v, refusal, one, password, invalid
  <2>5. CASE v = NULL
    <3>3. Text(Missing)
      BY LiteralsAre DEF Missing
    <3> DEFINE pair == <<"passwordError", Missing>>
    <3>1. List(password) /\ ToSet(password) = {pair}
      BY <2>1, <2>2, <2>5
    <3>2. pair[1] = "passwordError" /\ pair[2] = Missing
      OBVIOUS
    <3> HIDE DEF pair
    <3> QED BY <2>5, <3>1, <3>2, <3>3 DEF v
  <2>6. CASE v # NULL /\ refusal
    BY <2>1, <2>2, <2>4, <2>6 DEF v
  <2>7. CASE v # NULL /\ ~refusal
    BY <2>1, <2>3, <2>7 DEF v
  <2> QED BY <2>5, <2>6, <2>7
<1>3. /\ List(confirm)
      /\ \A p \in ToSet(confirm) :
            /\ p[1] = "confirmPasswordError"
            /\ p[2] = Missing <=> value("confirm-password") = NULL
            /\ Text(p[2])
      /\ value("confirm-password") = NULL =>
            \E p \in ToSet(confirm) : p[1] = "confirmPasswordError"
  <2> DEFINE v == value("confirm-password")
             same == v = value("password")
             one(w) == <<<<"confirmPasswordError", w>>>>
  <2>1. confirm = IF v = NULL THEN one(Missing) ELSE IF same THEN <<>> ELSE one(invalid)
    <3> HIDE DEF value
    <3> QED BY DEF ErrorOf
  <2>2. \A w : List(one(w)) /\ ToSet(one(w)) = {<<"confirmPasswordError", w>>}
    BY OnePair
  <2>3. List(<<>>) /\ ToSet(<<>>) = {}
    BY NoPair
  <2>4. invalid # Missing /\ Text(invalid)
    BY LiteralsAre DEF Missing
  <2> HIDE DEF v, same, one, confirm, invalid
  <2>5. CASE v = NULL
    <3>3. Text(Missing)
      BY LiteralsAre DEF Missing
    <3> DEFINE pair == <<"confirmPasswordError", Missing>>
    <3>1. List(confirm) /\ ToSet(confirm) = {pair}
      BY <2>1, <2>2, <2>5
    <3>2. pair[1] = "confirmPasswordError" /\ pair[2] = Missing
      OBVIOUS
    <3> HIDE DEF pair
    <3> QED BY <2>5, <3>1, <3>2, <3>3 DEF v
  <2>6. CASE v # NULL /\ ~same
    BY <2>1, <2>2, <2>4, <2>6 DEF v
  <2>7. CASE v # NULL /\ same
    BY <2>1, <2>3, <2>7 DEF v
  <2> QED BY <2>5, <2>6, <2>7
<1>4. List(inputs) /\ ToSet(inputs) = {input("name"), input("email"), input("username")}
  <2> DEFINE all == [i \in DOMAIN Inputs |-> input(Inputs[i])]
             a == input("name")
             b == input("email")
             c == input("username")
  <2>1. DOMAIN Inputs = 1..3 /\ Inputs[1] = "name" /\ Inputs[2] = "email" /\ Inputs[3] = "username"
    BY DEF Inputs
  <2> HIDE DEF input
  <2>2. all = [i \in 1..3 |-> input(Inputs[i])]
    BY <2>1
  <2>3. Len(all) = 3 /\ all[1] = a /\ all[2] = b /\ all[3] = c
    BY <2>1, <2>2
  <2> HIDE DEF all, a, b, c
  <2>4. inputs = [i \in 1..3 |-> all[(3 - i) + 1]]
    BY <2>3 DEF Reverse, all
  <2> HIDE DEF inputs
  <2>5. DOMAIN inputs = 1..3 /\ inputs[1] = c /\ inputs[2] = b /\ inputs[3] = a
    BY <2>3, <2>4
  <2>6. inputs \in Seq({a, b, c})
    BY <2>3, <2>4
  <2>7. ToSet(inputs) = {a, b, c}
    BY <2>5 DEF ToSet
  <2> QED BY <2>6, <2>7 DEF List, a, b, c
<1>5. ASSUME NEW f \in {"name", "email", "username"}
      PROVE  /\ value(f) = NULL => input(f)[1] = ErrorOf[f] /\ input(f)[2] = Missing
             /\ value(f) # NULL => \/ input(f)[1] = FormOf[f]
                                   \/ input(f)[1] = ErrorOf[f] /\ input(f)[2] # Missing
             /\ body \in PairList => Text(input(f)[2])
  <2> DEFINE v == value(f)
             one(k, w) == <<k, w>>
  <2>1. input(f) = IF v = NULL THEN one(ErrorOf[f], Missing)
                   ELSE IF f \in refused THEN one(ErrorOf[f], invalid) ELSE one(FormOf[f], v)
    <3> HIDE DEF value
    <3> QED OBVIOUS
  <2>2. \A k, w : one(k, w)[1] = k /\ one(k, w)[2] = w
    OBVIOUS
  <2>3. invalid # Missing /\ Text(invalid) /\ Text(Missing)
    BY LiteralsAre DEF Missing
  <2>4. body \in PairList => v = NULL \/ Text(v)
    BY LookupIs, WordsAreStrings DEF Text, PairList, Texts
  <2> HIDE DEF one, input, v, invalid
  <2> QED BY <2>1, <2>2, <2>3, <2>4 DEF v
<1> DEFINE errors == {ErrorOf[f] : f \in DOMAIN FieldOf}
           pairs == ToSet(SignupForm(body, refused))
<1> HIDE DEF value, input, password, confirm, inputs, invalid
<1>6. List(confirm \o password \o inputs)
      /\ ToSet(confirm \o password \o inputs)
            = ToSet(confirm) \cup ToSet(password) \cup ToSet(inputs)
  <2> DEFINE both == confirm \o password
  <2>1. List(both) /\ ToSet(both) = ToSet(confirm) \cup ToSet(password)
    BY <1>2, <1>3, BothLists
  <2> HIDE DEF both
  <2>2. List(both \o inputs) /\ ToSet(both \o inputs) = ToSet(both) \cup ToSet(inputs)
    BY <1>4, <2>1, BothLists
  <2> QED BY <2>1, <2>2 DEF both
<1>7. /\ List(SignupForm(body, refused))
      /\ pairs = ToSet(confirm) \cup ToSet(password)
                 \cup {input("name"), input("email"), input("username")}
  BY <1>1, <1>4, <1>6
<1> HIDE DEF pairs
<1>8. /\ ErrorOf["username"] = "usernameError" /\ ErrorOf["password"] = "passwordError"
      /\ ErrorOf["name"] = "nameError" /\ ErrorOf["email"] = "emailError"
      /\ ErrorOf["confirm"] = "confirmPasswordError"
      /\ FormOf["name"] = "formName" /\ FormOf["email"] = "formEmail"
      /\ FormOf["username"] = "formUsername"
  BY DEF ErrorOf, FormOf
<1>9. ASSUME NEW p \in pairs
      PROVE  /\ p[1] \notin {"subtitle", "active"}
             /\ p[1] = "nameError" => (p[2] = Missing <=> value("name") = NULL)
             /\ p[1] = "emailError" => (p[2] = Missing <=> value("email") = NULL)
             /\ p[1] = "usernameError" => (p[2] = Missing <=> value("username") = NULL)
             /\ p[1] = "passwordError" => (p[2] = Missing <=> value("password") = NULL)
             /\ p[1] = "confirmPasswordError" =>
                   (p[2] = Missing <=> value("confirm-password") = NULL)
             /\ body \in PairList => Text(p[2])
  <2>1. CASE p \in ToSet(confirm)
    BY <1>3, <2>1
  <2>2. CASE p \in ToSet(password)
    BY <1>2, <2>2
  <2>3. CASE p = input("name")
    BY <1>5, <1>8, <2>3
  <2>4. CASE p = input("email")
    BY <1>5, <1>8, <2>4
  <2>5. CASE p = input("username")
    BY <1>5, <1>8, <2>5
  <2> QED BY <1>7, <2>1, <2>2, <2>3, <2>4, <2>5
<1>10. /\ value("name") = NULL => \E p \in pairs : p[1] = "nameError"
       /\ value("email") = NULL => \E p \in pairs : p[1] = "emailError"
       /\ value("username") = NULL => \E p \in pairs : p[1] = "usernameError"
       /\ value("password") = NULL => \E p \in pairs : p[1] = "passwordError"
       /\ value("confirm-password") = NULL => \E p \in pairs : p[1] = "confirmPasswordError"
  BY <1>2, <1>3, <1>5, <1>7, <1>8
<1>11. /\ DOMAIN FieldOf = {"username", "password", "name", "email", "confirm"}
       /\ FieldOf["username"] = "username" /\ FieldOf["password"] = "password"
       /\ FieldOf["name"] = "name" /\ FieldOf["email"] = "email"
       /\ FieldOf["confirm"] = "confirm-password"
  BY DEF FieldOf
<1> DEFINE told(f) ==
              /\ \A p \in pairs :
                    p[1] = ErrorOf[f] => (p[2] = Missing <=> value(FieldOf[f]) = NULL)
              /\ value(FieldOf[f]) = NULL => \E p \in pairs : p[1] = ErrorOf[f]
<1>12. told("name")
  BY <1>8, <1>9, <1>10, <1>11
<1>13. told("email")
  BY <1>8, <1>9, <1>10, <1>11
<1>14. told("username")
  BY <1>8, <1>9, <1>10, <1>11
<1>15. told("password")
  BY <1>8, <1>9, <1>10, <1>11
<1>16. told("confirm")
  BY <1>8, <1>9, <1>10, <1>11
<1> HIDE DEF told
<1>17. \A f \in DOMAIN FieldOf : told(f)
  BY <1>11, <1>12, <1>13, <1>14, <1>15, <1>16
<1>18. Tells(pairs, body, DOMAIN FieldOf)
  BY <1>17 DEF Tells, told, value
<1> QED BY <1>7, <1>9, <1>18 DEF pairs

\* The page of a sign-up tells of its five fields (signup.c:67-115).
LEMMA SignupTells ==
    ASSUME NEW req, req.method = "POST", NEW r \in Signup(req, NULL),
           r # Crash, r.page # NULL
    PROVE  /\ List(r.page.context)
           /\ Tells(ToSet(r.page.context), req.body, DOMAIN FieldOf)
<1> DEFINE form == Subtitle(<<"signup">>, <<"Sign Up">>)
           said(refused) == SignupForm(req.body, refused)
           filled(refused) == said(refused) \o form
           again(refused) == With(filled(refused), ErrorOf.name, <<"Unexpected">>)
           answers(refused) ==
              IF HasError(filled(refused)) THEN {Page("signup.html", filled(refused))}
              ELSE {Redirect("/login"), Page("signup.html", again(refused))}
<1>1. \E refused : r \in answers(refused)
  <2> DEFINE fields == SUBSET {"name", "email", "username", "password"}
  <2>1. r = Crash \/ r \in UNION {answers(refused) : refused \in fields}
    <3> HIDE DEF fields
    <3> QED BY Zenon DEF Signup, fields
  <2> HIDE DEF fields, answers
  <2> QED BY <2>1
<1>2. PICK refused : r \in answers(refused)
  BY <1>1
<1> DEFINE c == filled(refused)
           d == again(refused)
<1>3. \/ r.page.context = c
      \/ ~HasError(c) /\ r.page.context = d
  <2> DEFINE error == HasError(c)
  <2>1. \/ r = Page("signup.html", c)
        \/ ~error /\ (r = Redirect("/login") \/ r = Page("signup.html", d))
    <3> HIDE DEF c, d
    <3> QED BY <1>2 DEF c, d
  <2> HIDE DEF c, d, error
  <2> QED BY <2>1, PageIs, MovedIs DEF error
<1>4. List(form) /\ ToSet(form) = {<<"subtitle", <<"Sign Up">>>>, <<"active", <<"signup">>>>}
  BY SubtitleIs
<1>5. /\ List(said(refused))
      /\ Tells(ToSet(said(refused)), req.body, DOMAIN FieldOf)
  BY SignupFormIs
<1> HIDE DEF form, said
<1>6. List(c) /\ ToSet(c) = ToSet(said(refused)) \cup ToSet(form)
  BY <1>4, <1>5, BothLists
<1>7. \A p \in ToSet(form) : p[1] \in {"subtitle", "active"}
  <2> DEFINE title == <<"subtitle", <<"Sign Up">>>>
             place == <<"active", <<"signup">>>>
  <2>1. title[1] = "subtitle" /\ place[1] = "active" /\ ToSet(form) = {title, place}
    BY <1>4
  <2> HIDE DEF title, place
  <2> QED BY <2>1
<1>8. \A f \in DOMAIN FieldOf :
         f \in DOMAIN ErrorOf /\ ErrorOf[f] \notin {"subtitle", "active"}
  BY DEF FieldOf, ErrorOf
<1> HIDE DEF c
<1>9. Tells(ToSet(c), req.body, DOMAIN FieldOf)
  BY <1>5, <1>6, <1>7, <1>8 DEF Tells
<1>10. List(d) /\ ToSet(d) = {<<"nameError", <<"Unexpected">>>>} \cup ToSet(c)
  BY <1>6, OnList DEF With, ErrorOf, c
<1>11. ASSUME ~HasError(c)
       PROVE  Tells(ToSet(d), req.body, DOMAIN FieldOf)
  <2>1. \A p \in ToSet(c), f \in DOMAIN FieldOf : p[1] # ErrorOf[f]
    BY <1>8, <1>11 DEF HasError, ToSet
  <2>2. \A f \in DOMAIN FieldOf : Lookup(req.body, <<FieldOf[f]>>) # NULL
    BY <1>9, <2>1 DEF Tells
  <2> DEFINE unexpected == <<"nameError", <<"Unexpected">>>>
  <2>3. unexpected[2] # Missing
    BY DEF Missing
  <2> HIDE DEF unexpected, d
  <2> QED BY <1>10, <2>1, <2>2, <2>3 DEF Tells, unexpected
<1> QED BY <1>3, <1>6, <1>9, <1>10, <1>11

\* A field of a form without holes, that came whole, was left empty if it is not
\* among the pairs (request.c:61-103).
LEMMA EmptyIs ==
    ASSUME NEW t, ParsingInv(t), ppc[t] = "parsed", Whole(t), NoHole(asking[t].form), NEW name
    PROVE  LeftEmpty(asking[t].form, name) <=> Lookup(parsed[t].body, <<name>>) = NULL
<1> DEFINE F == asking[t].form
           list == parsed[t].body
           sought1 == <<name>>
<1>1. AtParsed(t) /\ asking[t] \in Requests
  BY TakenUp
<1>2. F \in Fields
  BY <1>1, RequestIs
<1>3. PairsUpto(F, Len(F), list)
  BY <1>1 DEF AtParsed, BodyOK, PairsOf
<1>4. PICK m \in 0..Len(F) : /\ list = AsPairs(SubSeq(F, 1, m))
                             /\ \A i \in 1..Len(F) : F[i].value # <<>> <=> i <= m
  BY <1>3 DEF PairsUpto
<1>5. /\ list \in PairList /\ Len(list) = m
      /\ \A i \in 1..m : list[m + 1 - i] = PairOf(F[i])
  BY <1>2, <1>4, PairsAre
<1>6. /\ F \in Seq(FieldSet) /\ Len(F) \in Nat /\ DOMAIN F = 1..Len(F)
      /\ DOMAIN list = 1..m
  BY <1>2, <1>5, LenProperties DEF Fields, FieldSet, PairList
<1>7. \A i \in 1..Len(F) : F[i].value \in Seq(STRING)
  <2>1. TypedWord \subseteq STRING
    BY DEF TypedWord
  <2>2. \A f \in FieldSet : f.value \in Seq(STRING)
    BY <2>1, SeqMonotonic DEF FieldSet
  <2> QED BY <1>6, <2>2, ElementOfSeq
<1>8. NULL \notin Seq(STRING)
  BY WordsAssumption
<1> HIDE DEF F, list
<1>9. \A i \in 1..m : /\ i \in 1..Len(F) /\ m + 1 - i \in DOMAIN list
                      /\ list[m + 1 - i][1] = <<F[i].name>> /\ list[m + 1 - i][2] = F[i].value
  BY <1>5, <1>6 DEF PairOf
<1>10. \A k \in DOMAIN list : m + 1 - k \in 1..m /\ m + 1 - (m + 1 - k) = k
  BY <1>6
<1>11. \A x : <<x>> = sought1 <=> x = name
  OBVIOUS
<1> HIDE DEF sought1
<1>12. \A k \in DOMAIN list : list[k][2] # NULL
  BY <1>7, <1>8, <1>9, <1>10
<1> DEFINE M == Matching(list, sought1)
<1>13. Lookup(list, sought1) = NULL <=> M = {}
  <2>1. CASE M = {}
    BY <2>1 DEF Lookup
  <2>2. CASE M # {}
    <3>1. M \subseteq Nat /\ M \subseteq DOMAIN list
      BY <1>6 DEF Matching
    <3>2. Min(M) \in M
      BY <2>2, <3>1, MinProperties
    <3>3. Lookup(list, sought1) = list[Min(M)][2]
      BY <2>2 DEF Lookup
    <3> HIDE DEF M
    <3> QED BY <1>12, <2>2, <3>1, <3>2, <3>3
  <2> QED BY <2>1, <2>2
<1>14. M = {} <=> \A i \in 1..m : F[i].name # name
  <2>1. ASSUME NEW i \in 1..m, F[i].name = name
        PROVE  M # {}
    <3>1. m + 1 - i \in DOMAIN list /\ list[m + 1 - i][1] = sought1
      BY <1>9, <1>11, <2>1
    <3> QED BY <3>1 DEF Matching
  <2>2. ASSUME NEW k \in M
        PROVE  \E i \in 1..m : F[i].name = name
    <3> DEFINE i == m + 1 - k
    <3>1. k \in DOMAIN list /\ list[k][1] = sought1
      BY <2>2 DEF Matching
    <3>2. i \in 1..m /\ m + 1 - i = k
      BY <1>10, <3>1
    <3> HIDE DEF i
    <3>3. list[k][1] = <<F[i].name>>
      BY <1>9, <3>2
    <3>4. <<F[i].name>> = sought1
      BY <3>1, <3>3
    <3>5. F[i].name = name
      BY <1>11, <3>4
    <3> QED BY <3>2, <3>5
  <2> QED BY <2>1, <2>2
<1>15. LeftEmpty(F, name) <=> \A i \in 1..m : F[i].name # name
  <2>1. \A i \in 1..Len(F) : F[i].value = <<>> <=> i \notin 1..m
    BY <1>4, <1>6 DEF F, list
  <2>2. \A i \in 1..m : i \in 1..Len(F)
    BY <1>9
  <2> QED BY <1>6, <2>1, <2>2 DEF LeftEmpty
<1> QED BY <1>13, <1>14, <1>15 DEF F, list, sought1

\* With one worker a field of the log-in or sign-up page is reported missing
\* when, and only when, the form that came whole has nothing in it, if its empty
\* fields are the last ones (login.c:38-46, signup.c:35-80).
THEOREM OneWorkerLastEmptyFieldsAreReported ==
    ASSUME NEW t, Thread = {t}
    PROVE  Spec => []LastEmptyFieldsAreReported
<1>1. ASSUME ParsingInv(t), AnswersInv(t), FormSent(t), NoHole(asking[t].form)
      PROVE  Reported(t)
  <2> DEFINE r == response[t]
             req == parsed[t]
             fields == FieldsOf[found[t]]
  <2>1. /\ hpc[t] = "called" /\ Whole(t) /\ account[t] = NULL /\ asking[t].form # <<>>
        /\ found[t] \in {"login", "signup"}
    BY <1>1 DEF FormSent, Whole
  <2>2. ppc[t] = "parsed"
    BY <1>1, <2>1 DEF ParsingInv, HandleType
  <2>3. req.method = "POST"
    <3>1. AtParsed(t) /\ asking[t] \in Requests
      BY <1>1, <2>2, TakenUp
    <3> QED BY <2>1, <3>1, RequestsAssumption DEF AtParsed, Located, MethodOK
  <2>4. r \in Reply(found[t], req, NULL)
    BY <1>1, <2>1 DEF AnswersInv, AnswerOK, Replied
  <2>5. \A f \in DOMAIN FieldOf :
           LeftEmpty(asking[t].form, FieldOf[f]) <=> Lookup(req.body, <<FieldOf[f]>>) = NULL
    BY <1>1, <2>1, <2>2, EmptyIs
  <2>6. r # Crash
    <3>1. found[t] \in Plugins
      BY <2>1 DEF Plugins
    <3>2. ~Unrepeated(req, NULL)
      BY <1>1, <2>2, HoleIs
    <3> HIDE DEF r, req
    <3>3. r = NULL \/ Response(r)
      BY <2>4, <3>1, <3>2, RepliesAre
    <3> QED BY <3>3, ResponseIs, CrashAssumption
  <2>7. r.page # NULL => List(r.page.context) /\ Tells(ToSet(r.page.context), req.body, fields)
    <3>1. CASE found[t] = "login"
      <4>1. r \in Login(req, NULL) /\ fields = {"username", "password"}
        BY <2>4, <3>1 DEF Reply, FieldsOf
      <4> HIDE DEF r, req, fields
      <4> QED BY <2>3, <4>1, LoginTells
    <3>2. CASE found[t] = "signup"
      <4>1. r \in Signup(req, NULL) /\ fields = DOMAIN FieldOf
        BY <2>4, <3>2 DEF Reply, FieldsOf
      <4> HIDE DEF r, req, fields
      <4> QED BY <2>3, <2>6, <4>1, SignupTells
    <3> QED BY <2>1, <3>1, <3>2
  <2>8. fields \subseteq DOMAIN FieldOf
    BY <2>1 DEF FieldsOf, FieldOf
  <2> HIDE DEF r, req, fields
  <2>9. ASSUME r.page # NULL, NEW f \in fields
        PROVE  LeftEmpty(asking[t].form, FieldOf[f])
               <=> Lookup(r.page.context, ErrorOf[f]) = Missing
    BY <2>5, <2>7, <2>8, <2>9, TellsIs
  <2> QED BY <2>6, <2>9 DEF Reported, r, fields
<1>2. ParsingInv(t) /\ AnswersInv(t) => LastEmptyFieldsAreReported
  BY <1>1 DEF LastEmptyFieldsAreReported
<1> QED BY <1>2, ParsingInvariant, AnswersInvariant, PTL

-----------------------------------------------------------------------------
(* The pages.                                                              *)

\* A context has texts, whatever they are, for variables.
Speaks(c) == List(c) /\ \A p \in ToSet(c) : Text(p[2])

\* The body of a response is a text, and a page what its template says.
Made(r) ==
    /\ r.body # NULL => Text(r.body)
    /\ r.page # NULL /\ r.page.file \in DOMAIN Shape =>
          r.body = Shown(r.page.file, r.page.context)

\* What is looked up in it is one of them.
LEMMA SpeaksIs ==
    ASSUME NEW c, Speaks(c)
    PROVE  Telling(c, STRING)
<1> SUFFICES ASSUME NEW k PROVE Lookup(c, k) \in Seq(STRING) \cup {NULL}
  BY DEF Telling
<1> DEFINE M == Matching(c, k)
<1>1. DOMAIN c = 1..Len(c) /\ Len(c) \in Nat
  BY LenProperties DEF Speaks, List
<1>2. M \subseteq Nat
  BY <1>1 DEF Matching
<1>3. CASE M = {}
  BY <1>3 DEF Lookup
<1>4. CASE M # {}
  <2>1. Min(M) \in M
    BY <1>2, <1>4, MinProperties
  <2>2. Lookup(c, k) = c[Min(M)][2]
    BY <1>4 DEF Lookup
  <2>3. Min(M) \in DOMAIN c
    BY <2>1 DEF Matching
  <2> HIDE DEF M
  <2>4. c[Min(M)] \in ToSet(c)
    BY <2>3 DEF ToSet
  <2> QED BY <2>2, <2>4 DEF Speaks, Text
<1> QED BY <1>3, <1>4

\* A page is made as its template says.
LEMMA PageMade ==
    ASSUME NEW f, NEW c, Speaks(c)
    PROVE  Made(Page(f, c)) /\ Made([Page(f, c) EXCEPT !.status = 404])
<1> DEFINE b == Render(f, c)
           page == Page(f, c)
           absent == [page EXCEPT !.status = 404]
<1>1. Glyph \subseteq STRING /\ Telling(c, STRING)
  BY SpeaksIs, WordsAreStrings
<1>2. f \in DOMAIN Shape => b = Shown(f, c) /\ Text(b)
  BY <1>1, RenderShows DEF Text
<1>3. f \notin DOMAIN Shape => Text(b)
  <2> SUFFICES ASSUME f \notin DOMAIN Shape PROVE Text(b)
    OBVIOUS
  <2>1. b = <<Exit>>
    BY Zenon DEF Render, File
  <2> QED BY <2>1, LiteralsAre
<1> HIDE DEF b
<1>4. page.body = b /\ page.page = [file |-> f, context |-> c]
  BY DEF Page, WithBody, New, b
<1>5. absent.body = b /\ absent.page = [file |-> f, context |-> c]
  BY DEF Page, WithBody, New, b
<1> HIDE DEF page, absent
<1>6. Made(page)
  BY <1>2, <1>3, <1>4 DEF Made
<1>7. Made(absent)
  BY <1>2, <1>3, <1>5 DEF Made
<1> QED BY <1>6, <1>7 DEF page, absent

\* What is put on a response does not change its body.
LEMMA StillMade ==
    /\ Made(New)
    /\ \A r, k, v : Response(r) /\ Made(r) => Made(AddHeader(r, k, v))
    /\ \A r, x : Response(r) /\ Made(r) => Made(MovedTo(r, x))
    /\ \A x : Made(Redirect(x))
<1>1. Made(New) /\ Response(New)
  BY MadeIs DEF New, Made
<1>2. ASSUME NEW r, NEW k, NEW v, Response(r), Made(r)
      PROVE  Made(AddHeader(r, k, v))
  <2> DEFINE a == AddHeader(r, k, v)
  <2>1. a.body = r.body /\ a.page = r.page
    BY <1>2, AddHeaderIs DEF Response
  <2> HIDE DEF a
  <2>2. Made(a)
    BY <1>2, <2>1 DEF Made
  <2> QED BY <2>2 DEF a
<1>3. ASSUME NEW r, NEW x, Response(r), Made(r)
      PROVE  Made(MovedTo(r, x))
  <2> DEFINE m == [r EXCEPT !.status = 302]
  <2>1. /\ DOMAIN m = {"status", "headers", "body", "page", "freed"}
        /\ m.body = r.body /\ m.page = r.page
    BY <1>3 DEF Response
  <2> HIDE DEF m
  <2> DEFINE a == AddHeader(m, "Location", x)
  <2>2. a.body = m.body /\ a.page = m.page
    BY <2>1, AddHeaderIs
  <2> HIDE DEF a
  <2>3. Made(a)
    BY <1>3, <2>1, <2>2 DEF Made
  <2> QED BY <2>3 DEF MovedTo, a, m
<1>4. \A x : Made(Redirect(x))
  BY <1>1, <1>3 DEF Redirect
<1> QED BY <1>1, <1>2, <1>3, <1>4

\* What most plugins answer.
LEMMA AnswersMade == (\A f, c : Speaks(c) => Made(Page(f, c))) /\ (\A x : Made(Redirect(x)))
BY PageMade, StillMade

\* A variable more, and the title of a page with its place in the menu.
LEMMA SpeaksWith ==
    /\ \A c, k, v : Speaks(c) /\ Text(v) => Speaks(With(c, k, v))
    /\ \A c, d : Speaks(c) /\ Speaks(d) => Speaks(c \o d)
    /\ \A a, b : Text(a) /\ Text(b) => Speaks(Subtitle(a, b))
    /\ \A k, v : Text(v) => Speaks(<<<<k, v>>>>)
    /\ Speaks(<<>>)
<1>1. ASSUME NEW c, NEW k, NEW v, Speaks(c), Text(v) PROVE Speaks(With(c, k, v))
  <2> DEFINE pair == <<k, v>>
             d == AddPair(k, v, c)
  <2>1. List(d) /\ ToSet(d) = {pair} \cup ToSet(c)
    BY <1>1, OnList DEF Speaks
  <2>2. Text(pair[2])
    BY <1>1
  <2> HIDE DEF pair, d
  <2>3. Speaks(d)
    BY <1>1, <2>1, <2>2 DEF Speaks
  <2> QED BY <2>3 DEF With, d
<1>2. ASSUME NEW c, NEW d, Speaks(c), Speaks(d) PROVE Speaks(c \o d)
  <2>1. List(c \o d) /\ ToSet(c \o d) = ToSet(c) \cup ToSet(d)
    BY <1>2, BothLists DEF Speaks
  <2> QED BY <1>2, <2>1 DEF Speaks
<1>3. ASSUME NEW a, NEW b, Text(a), Text(b) PROVE Speaks(Subtitle(a, b))
  <2> DEFINE p == <<"subtitle", b>>
             q == <<"active", a>>
             s == Subtitle(a, b)
  <2>1. List(s) /\ ToSet(s) = {p, q}
    BY SubtitleIs
  <2>2. Text(p[2]) /\ Text(q[2])
    BY <1>3
  <2> HIDE DEF p, q, s
  <2>3. Speaks(s)
    BY <2>1, <2>2 DEF Speaks
  <2> QED BY <2>3 DEF s
<1>4. ASSUME NEW k, NEW v, Text(v) PROVE Speaks(<<<<k, v>>>>)
  <2> DEFINE p == <<k, v>>
             s == <<p>>
  <2>1. List(s) /\ ToSet(s) = {p}
    BY OnePair
  <2>2. Text(p[2])
    BY <1>4
  <2> HIDE DEF p, s
  <2>3. Speaks(s)
    BY <2>1, <2>2 DEF Speaks
  <2> QED BY <2>3 DEF s, p
<1>5. Speaks(<<>>)
  BY NoPair DEF Speaks
<1> QED BY <1>1, <1>2, <1>3, <1>4, <1>5

\* A context for members, and one for anyone.
LEMMA SpeaksFor ==
    ASSUME NEW c, Speaks(c), NEW member
    PROVE  Speaks(ForMember(c)) /\ Speaks(ForAnyone(member, c))
<1>1. Text(<<"t">>) /\ Text(<<>>)
  BY LiteralsAre
<1> DEFINE yes == <<"t">>
           v == IF member # NULL THEN yes ELSE <<>>
<1> HIDE DEF yes
<1>2. Text(yes) /\ Text(v)
  BY <1>1 DEF yes
<1> HIDE DEF v
<1>3. Speaks(With(c, "loggedIn", yes)) /\ Speaks(With(c, "loggedIn", v))
  BY <1>2, SpeaksWith
<1> QED BY <1>3 DEF ForMember, ForAnyone, yes, v

\* The lists of a request.
Readable(req) == req.body \in PairList /\ req.query \in PairList

\* What a plugin looks up in the lists of a request.
LEMMA ReadableIs ==
    ASSUME NEW req, Readable(req), NEW k
    PROVE  /\ Lookup(req.body, k) = NULL \/ Text(Lookup(req.body, k))
           /\ Lookup(req.query, k) = NULL \/ Text(Lookup(req.query, k))
BY LookupIs, WordsAreStrings DEF Readable, Text, PairList, Texts

\* Home, about and the page for what is not there.
LEMMA ShownMade ==
    ASSUME NEW req, NEW member, NEW r,
           r \in Home(req, member) \/ r \in About(req, member) \/ r \in Absent(req, member)
    PROVE  Made(r)
<1>1. CASE r \in Home(req, member)
  <2> DEFINE a == <<"home">>
             b == <<"Home">>
  <2>1. Text(a) /\ Text(b)
    BY LiteralsAre
  <2>2. r = Page("index.html", Subtitle(a, b))
    BY <1>1 DEF Home
  <2> HIDE DEF a, b
  <2> QED BY <2>1, <2>2, SpeaksWith, PageMade
<1>2. CASE r \in About(req, member)
  <2> DEFINE a == <<"about">>
             b == <<"About">>
  <2>1. Text(a) /\ Text(b)
    BY LiteralsAre
  <2>2. r = Page("about.html", ForAnyone(member, Subtitle(a, b)))
    BY <1>2 DEF About
  <2> HIDE DEF a, b
  <2>3. Speaks(Subtitle(a, b))
    BY <2>1, SpeaksWith
  <2>4. Speaks(ForAnyone(member, Subtitle(a, b)))
    BY <2>3, SpeaksFor
  <2> QED BY <2>2, <2>4, PageMade
<1>3. CASE r \in Absent(req, member)
  <2> DEFINE b == <<"404 Not Found">>
             c == <<<<"subtitle", b>>>>
  <2>1. Text(b)
    BY LiteralsAre
  <2>2. r = [Page("404.html", ForAnyone(member, c)) EXCEPT !.status = 404]
    BY <1>3, Zenon DEF Absent
  <2> HIDE DEF b
  <2>3. Speaks(c)
    BY <2>1, SpeaksWith
  <2> HIDE DEF c
  <2>4. Speaks(ForAnyone(member, c))
    BY <2>3, SpeaksFor
  <2> QED BY <2>2, <2>4, PageMade
<1> QED BY <1>1, <1>2, <1>3

\* Log-in and log-out.
LEMMA LoginMade ==
    ASSUME NEW req, Readable(req), NEW member, NEW r,
           r \in Login(req, member) \/ r \in Logout(req, member)
    PROVE  Made(r)
<1>1. CASE r \in Login(req, member)
  <2> DEFINE a == <<"login">>
             b == <<"Login">>
             invalid == <<"Invalid">>
             form == Subtitle(a, b)
             username == Lookup(req.body, <<"username">>)
             password == Lookup(req.body, <<"password">>)
             named == IF username = NULL THEN With(form, ErrorOf.username, Missing)
                      ELSE With(form, "formUsername", username)
             checked == IF password = NULL THEN With(named, ErrorOf.password, Missing) ELSE named
             refused == With(checked, ErrorOf.username, invalid)
  <2>1. \/ r = Redirect("/dashboard")
        \/ r = Page("login.html", form)
        \/ r = Page("login.html", checked)
        \/ r = MovedTo(AddCookie(New, "sid"), "/dashboard")
        \/ r = Page("login.html", refused)
    BY <1>1, Zenon DEF Login
  <2>2. Text(a) /\ Text(b) /\ Text(invalid) /\ Text(Missing)
    BY LiteralsAre
  <2>3. username = NULL \/ Text(username)
    BY ReadableIs
  <2> HIDE DEF a, b, invalid, username, password
  <2>4. Speaks(form)
    BY <2>2, SpeaksWith
  <2> HIDE DEF form
  <2>5. Speaks(named)
    BY <2>2, <2>3, <2>4, SpeaksWith
  <2> HIDE DEF named
  <2>6. Speaks(checked)
    BY <2>2, <2>5, SpeaksWith
  <2> HIDE DEF checked
  <2>7. Speaks(refused)
    BY <2>2, <2>6, SpeaksWith
  <2> HIDE DEF refused
  <2>8. Made(MovedTo(AddCookie(New, "sid"), "/dashboard"))
    <3> DEFINE kept == AddHeader(New, "Set-Cookie", "sid")
    <3>1. Response(kept)
      BY MadeIs
    <3>2. Made(kept)
      BY MadeIs, StillMade
    <3> HIDE DEF kept
    <3>3. Made(MovedTo(kept, "/dashboard"))
      BY <3>1, <3>2, StillMade
    <3> QED BY <3>3 DEF AddCookie, kept
  <2>9. /\ Made(Page("login.html", form)) /\ Made(Page("login.html", checked))
        /\ Made(Page("login.html", refused))
    BY <2>4, <2>6, <2>7, AnswersMade, Zenon
  <2>10. Made(Redirect("/dashboard"))
    BY StillMade
  <2> QED BY <2>1, <2>8, <2>9, <2>10, Zenon
<1>2. CASE r \in Logout(req, member)
  <2> DEFINE b == Redirect("/")
             k == "Set-Cookie"
             e == ""
  <2>1. r = b \/ r = AddHeader(b, k, e)
    BY <1>2 DEF Logout, AddCookie
  <2>2. Response(b) /\ Made(b)
    BY MadeIs, StillMade
  <2> HIDE DEF b, k, e
  <2> QED BY <2>1, <2>2, StillMade
<1> QED BY <1>1, <1>2

\* Sign-up.
LEMMA SignupMade ==
    ASSUME NEW req, Readable(req), NEW member, NEW r \in Signup(req, member), r # Crash
    PROVE  Made(r)
<1> DEFINE a == <<"signup">>
           b == <<"Sign Up">>
           unexpected == <<"Unexpected">>
           form == Subtitle(a, b)
           filled(refused) == SignupForm(req.body, refused) \o form
           again(refused) == With(filled(refused), ErrorOf.name, unexpected)
           answers(refused) ==
              IF HasError(filled(refused)) THEN {Page("signup.html", filled(refused))}
              ELSE {Redirect("/login"), Page("signup.html", again(refused))}
<1>1. \/ r = Redirect("/dashboard")
      \/ r = Page("signup.html", form)
      \/ \E refused : r \in answers(refused)
  <2> DEFINE fields == SUBSET {"name", "email", "username", "password"}
  <2>1. \/ r = Redirect("/dashboard")
        \/ r = Page("signup.html", form)
        \/ r \in UNION {answers(refused) : refused \in fields}
    <3> HIDE DEF fields
    <3> QED BY Zenon DEF Signup, fields
  <2> HIDE DEF fields, answers, form
  <2> QED BY <2>1
<1>2. Text(a) /\ Text(b) /\ Text(unexpected)
  BY LiteralsAre
<1> HIDE DEF a, b, unexpected
<1>3. Speaks(form)
  BY <1>2, SpeaksWith
<1> HIDE DEF form
<1>4. ASSUME NEW refused PROVE Speaks(filled(refused)) /\ Speaks(again(refused))
  <2> DEFINE c == SignupForm(req.body, refused)
             d == c \o form
  <2>1. Speaks(c)
    BY SignupFormIs DEF Speaks, Readable
  <2> HIDE DEF c
  <2>2. Speaks(d)
    BY <1>3, <2>1, SpeaksWith
  <2> HIDE DEF d
  <2>3. Speaks(With(d, ErrorOf.name, unexpected))
    BY <1>2, <2>2, SpeaksWith
  <2> QED BY <2>2, <2>3 DEF d, c
<1> HIDE DEF filled, again
<1>5. ASSUME NEW refused, r \in answers(refused) PROVE Made(r)
  <2>1. \/ r = Page("signup.html", filled(refused))
        \/ r = Redirect("/login")
        \/ r = Page("signup.html", again(refused))
    BY <1>5, Zenon
  <2> QED BY <1>4, <2>1, AnswersMade, Zenon
<1> HIDE DEF answers
<1> QED BY <1>1, <1>3, <1>5, AnswersMade, Zenon

\* A list that is shown.
LEMMA ListedIs == \A list \in Listed : Text(list)
BY LiteralsAre DEF Listed

\* The pages of members.
LEMMA MembersMade ==
    ASSUME NEW req, Readable(req), NEW member, member = NULL \/ Text(member), NEW r, r # NULL,
           \/ r \in Dashboard(req, member) \/ r \in Search(req, member)
           \/ r \in Profile(req, member) \/ r \in Post(req, member)
           \/ r \in Connect(req, member)
    PROVE  Made(r)
<1>1. CASE r \in Dashboard(req, member)
  <2> DEFINE a == <<"dashboard">>
             b == <<"Dashboard">>
             shown(list) == With(<<>>, "graph", list) \o Subtitle(a, b)
             context(list) == With(ForMember(shown(list)), "accountName", member)
  <2>1. \/ r = Redirect("/login")
        \/ member # NULL /\ \E list \in Listed : r = Page("dashboard.html", context(list))
    BY <1>1, Zenon DEF Dashboard
  <2>2. Text(a) /\ Text(b)
    BY LiteralsAre
  <2> HIDE DEF a, b
  <2>3. ASSUME NEW list \in Listed, member # NULL PROVE Speaks(context(list))
    <3> DEFINE c == With(<<>>, "graph", list)
               d == Subtitle(a, b)
               e == c \o d
               f == ForMember(e)
    <3>1. Speaks(c) /\ Speaks(d)
      BY <2>2, ListedIs, SpeaksWith
    <3> HIDE DEF c, d
    <3>2. Speaks(e)
      BY <3>1, SpeaksWith
    <3> HIDE DEF e
    <3>3. Speaks(f)
      BY <3>2, SpeaksFor
    <3> HIDE DEF f
    <3>4. Speaks(With(f, "accountName", member))
      BY <2>3, <3>3, SpeaksWith
    <3> QED BY <3>4, Zenon DEF f, e, c, d
  <2> HIDE DEF context
  <2> QED BY <2>1, <2>3, AnswersMade, Zenon
<1>2. CASE r \in Search(req, member)
  <2> DEFINE a == <<"search">>
             b == <<"Search">>
             query == Lookup(req.query, <<"q">>)
             context(list) ==
                ForMember(With(With(Subtitle(a, b), "results", list), "searchQuery", query))
  <2>1. \/ r = Redirect("/login")
        \/ query # NULL /\ \E list \in Listed : r = Page("search.html", context(list))
    BY <1>2, Zenon DEF Search
  <2>2. Text(a) /\ Text(b)
    BY LiteralsAre
  <2>3. query = NULL \/ Text(query)
    BY ReadableIs
  <2> HIDE DEF a, b, query
  <2>4. ASSUME NEW list \in Listed, query # NULL PROVE Speaks(context(list))
    <3> DEFINE c == Subtitle(a, b)
               d == With(c, "results", list)
               e == With(d, "searchQuery", query)
    <3>1. Speaks(c)
      BY <2>2, SpeaksWith
    <3> HIDE DEF c
    <3>2. Speaks(d)
      BY <3>1, ListedIs, SpeaksWith
    <3> HIDE DEF d
    <3>3. Speaks(e)
      BY <2>3, <2>4, <3>2, SpeaksWith
    <3> HIDE DEF e
    <3>4. Speaks(ForMember(e))
      BY <3>3, SpeaksFor
    <3> QED BY <3>4, Zenon DEF e, d, c
  <2> HIDE DEF context
  <2> QED BY <2>1, <2>4, AnswersMade, Zenon
<1>3. CASE r \in Profile(req, member)
  <2> DEFINE a == <<"profile">>
             id == Lookup(req.query, <<"id">>)
             two(list) == <<<<"profileId", id>>, <<"profilePosts", list>>>>
             context(list) == ForMember(Subtitle(a, id) \o two(list))
  <2>1. \/ r = Redirect("/dashboard")
        \/ id # NULL /\ \E list \in Listed : r = Page("profile.html", context(list))
    BY <1>3, Zenon DEF Profile
  <2>2. Text(a)
    BY LiteralsAre
  <2>3. id = NULL \/ Text(id)
    BY ReadableIs
  <2> HIDE DEF a, id
  <2>4. ASSUME NEW list \in Listed, id # NULL PROVE Speaks(context(list))
    <3> DEFINE c == Subtitle(a, id)
               p == <<"profileId", id>>
               q == <<"profilePosts", list>>
               d == <<p, q>>
               e == c \o d
    <3>1. Speaks(c)
      BY <2>2, <2>3, <2>4, SpeaksWith
    <3> HIDE DEF c
    <3>2. Text(p[2]) /\ Text(q[2])
      BY <2>3, <2>4, ListedIs
    <3> HIDE DEF p, q
    <3>3. d \in Seq({p, q}) /\ DOMAIN d = 1..2 /\ d[1] = p /\ d[2] = q
      OBVIOUS
    <3>7. ToSet(d) = {p, q}
      BY <3>3 DEF ToSet
    <3>8. List(d)
      BY <3>3 DEF List
    <3> HIDE DEF d
    <3>4. Speaks(d)
      BY <3>2, <3>7, <3>8 DEF Speaks
    <3> HIDE DEF d
    <3>5. Speaks(e)
      BY <3>1, <3>4, SpeaksWith
    <3> HIDE DEF e
    <3>6. Speaks(ForMember(e))
      BY <3>5, SpeaksFor
    <3> QED BY <3>6, Zenon DEF e, d, c, p, q
  <2> HIDE DEF context
  <2> QED BY <2>1, <2>4, AnswersMade, Zenon
<1>4. CASE r \in Post(req, member)
  <2>1. r = Redirect("/dashboard")
    BY <1>4, Zenon DEF Post
  <2> QED BY <2>1, StillMade
<1>5. CASE r \in Connect(req, member)
  <2>1. r = Redirect("/dashboard") \/ r = Redirect("/profile?id=")
    BY <1>5, Zenon DEF Connect
  <2> QED BY <2>1, StillMade
<1> QED BY <1>1, <1>2, <1>3, <1>4, <1>5

\* like and unlike.
LEMMA MarkedMade ==
    ASSUME NEW req, NEW member, NEW r, r # NULL, r \in Like(req, member) \/ r \in Unlike(req, member)
    PROVE  Made(r)
<1>1. PICK x : r \in Marked(req, member, Redirect(x))
  BY Zenon DEF Like, Unlike
<1> DEFINE back == Redirect(x)
           asked == Lookup(req.query, <<"r">>) # NULL
           m == [back EXCEPT !.freed = asked]
<1>2. r = Redirect("/dashboard") \/ r = m
  BY <1>1, Zenon DEF Marked
<1> HIDE DEF asked
<1>3. Response(back) /\ Made(back)
  BY MadeIs, StillMade
<1> HIDE DEF back
<1>4. m.body = back.body /\ m.page = back.page
  BY <1>3 DEF Response
<1> HIDE DEF m
<1>5. Made(m)
  BY <1>3, <1>4 DEF Made
<1> QED BY <1>2, <1>5, StillMade

\* A file below web/public (static_handle.c:43-76).
LEMMA StaticMade ==
    ASSUME NEW req, NEW member, NEW r \in Static(req, member), r # NULL
    PROVE  Made(r)
<1> DEFINE file == StaticFile[req.uri]
           made1 == [New EXCEPT !.body = file]
           typed == AddHeader(made1, "Content-Type", Last(req.uri))
           sized == AddHeader(typed, "Content-Length", Len(file))
           served == AddHeader(sized, "Cache-Control", "max-age=2592000")
<1>1. r = served /\ req.uri \in DOMAIN StaticFile
  BY Zenon DEF Static
<1>2. /\ DOMAIN made1 = {"status", "headers", "body", "page", "freed"}
      /\ made1.body = file /\ made1.page = New.page
  BY DEF New
<1> HIDE DEF made1
<1>3. /\ DOMAIN typed = {"status", "headers", "body", "page", "freed"}
      /\ typed.body = file /\ typed.page = New.page
  BY <1>2, AddHeaderIs
<1> HIDE DEF typed
<1>4. /\ DOMAIN sized = {"status", "headers", "body", "page", "freed"}
      /\ sized.body = file /\ sized.page = New.page
  BY <1>3, AddHeaderIs
<1> HIDE DEF sized
<1>5. served.body = file /\ served.page = New.page
  BY <1>4, AddHeaderIs
<1>6. New.page = NULL
  BY DEF New
<1>7. file \in Seq(STRING)
  BY <1>1, StaticAssumption
<1> HIDE DEF served, file
<1> QED BY <1>1, <1>5, <1>6, <1>7 DEF Made, Text

\* The answer of any plugin.
LEMMA RepliesMade ==
    ASSUME NEW h \in Plugins, NEW req, Readable(req), NEW member, member = NULL \/ Text(member),
           NEW r \in Reply(h, req, member), r \notin {NULL, Crash}
    PROVE  Made(r)
<1>1. CASE h \in {"home", "about", "notFound"}
  <2>1. r \in Home(req, member) \/ r \in About(req, member) \/ r \in Absent(req, member)
    BY <1>1 DEF Reply
  <2> QED BY <2>1, ShownMade
<1>2. CASE h \in {"login", "logout"}
  <2>1. r \in Login(req, member) \/ r \in Logout(req, member)
    BY <1>2 DEF Reply
  <2> QED BY <2>1, LoginMade
<1>3. CASE h = "signup"
  BY <1>3, SignupMade DEF Reply
<1>4. CASE h \in {"dashboard", "search", "profile", "post", "connect"}
  <2>1. \/ r \in Dashboard(req, member) \/ r \in Search(req, member)
        \/ r \in Profile(req, member) \/ r \in Post(req, member)
        \/ r \in Connect(req, member)
    BY <1>4 DEF Reply
  <2> QED BY <2>1, MembersMade
<1>5. CASE h \in {"like", "unlike"}
  <2>1. r \in Like(req, member) \/ r \in Unlike(req, member)
    BY <1>5 DEF Reply
  <2> QED BY <2>1, MarkedMade
<1>6. CASE h = "static_handle"
  BY <1>6, StaticMade DEF Reply
<1> QED BY <1>1, <1>2, <1>3, <1>4, <1>5, <1>6 DEF Plugins

\* A worker is at one of handle's steps, for a member with a name or for nobody.
MemberOK(t) ==
    /\ hpc[t] \in {"idle", "parsing", "searching", "called", "sent"}
    /\ DOMAIN hpc = Thread /\ DOMAIN account = Thread
    /\ account[t] = NULL \/ Text(account[t])

\* A session is that of an account (cgi_event_dispatcher.c:232-238).
LEMMA AccountOfIs == \A cookies : AccountOf(cookies) = NULL \/ Text(AccountOf(cookies))
BY SessionsAssumption DEF AccountOf, Text

\* Only session changes the account, and requestDel forgets it.
LEMMA MemberStays ==
    ASSUME NEW t, Thread = {t}, MemberOK(t), [Next]_vars
    PROVE  MemberOK(t)'
<1>1. CASE UNCHANGED vars \/ Loading \/ Parsing(t) \/ SearchStep(t) \/ NoHandler(t)
           \/ DoubleFree(t)
  <2>1. UNCHANGED handler
    BY <1>1 DEF vars, Loading, Parsing, SearchStep, NoHandler, DoubleFree
  <2> QED BY <2>1 DEF handler, MemberOK
<1>2. CASE Receive(t) \/ ReceiveRest(t) \/ BadRequest(t) \/ Call(t) \/ NoResponse(t) \/ Write(t)
  <2>1. UNCHANGED account
    BY <1>2 DEF Receive, ReceiveRest, BadRequest, Call, NoResponse, Write
  <2>2. \E s \in {"parsing", "called", "sent"} : hpc' = [hpc EXCEPT ![t] = s]
    BY <1>2 DEF Receive, ReceiveRest, BadRequest, Call, NoResponse, Write, Step
  <2> QED BY <2>1, <2>2 DEF MemberOK
<1>3. CASE Session(t)
  <2>1. hpc' = [hpc EXCEPT ![t] = "searching"]
        /\ account' = [account EXCEPT ![t] = AccountOf(parsed[t].cookies)]
    BY <1>3 DEF Session, Step
  <2> QED BY <2>1, AccountOfIs DEF MemberOK
<1>4. CASE Done(t)
  <2>1. hpc' = [hpc EXCEPT ![t] = "idle"] /\ account' = [account EXCEPT ![t] = NULL]
    BY <1>4 DEF Done, Step
  <2> QED BY <2>1 DEF MemberOK
<1>5. Next => \/ Loading \/ Receive(t) \/ ReceiveRest(t) \/ Parsing(t) \/ BadRequest(t)
              \/ Session(t) \/ SearchStep(t) \/ NoHandler(t) \/ Call(t)
              \/ NoResponse(t) \/ Write(t) \/ DoubleFree(t) \/ Done(t)
  BY DEF Next, Handle
<1> QED BY <1>1, <1>2, <1>3, <1>4, <1>5

\* So it is with one worker, whoever asks.
LEMMA MemberInvariant ==
    ASSUME NEW t, Thread = {t}
    PROVE  Spec => []MemberOK(t)
<1>1. Init => MemberOK(t)
  BY DEF Init, MemberOK
<1>2. MemberOK(t) /\ [Next]_vars => MemberOK(t)'
  BY MemberStays
<1> QED BY <1>1, <1>2, PTL DEF Spec

\* A response, wherever it is on its way, is made as its plugin makes it.
LEMMA AnswerMade ==
    ASSUME NEW t, Thread = {t}, ParsingInv(t), AnswersInv(t), MemberOK(t),
           response[t] \notin {NULL, Crash}
    PROVE  Made(response[t])
<1>1. Replied(t)
  BY DEF AnswersInv, AnswerOK, SentOK, MemberOK
<1>2. found[t] \in Plugins /\ response[t] \in Reply(found[t], parsed[t], account[t])
  BY <1>1, PluginsAssumption DEF Replied
<1>3. Readable(parsed[t])
  BY DEF ParsingInv, ParserType, ParsedType, Readable
<1>4. account[t] = NULL \/ Text(account[t])
  BY DEF MemberOK
<1> QED BY <1>2, <1>3, <1>4, RepliesMade

\* With one worker a page is its template with the variables replaced, whatever
\* was typed into it, and whoever asks (template.c:59-133).
THEOREM OneWorkerPageAsWritten ==
    ASSUME NEW t, Thread = {t}
    PROVE  Spec => []PageAsWritten
<1>1. ParsingInv(t) /\ AnswersInv(t) /\ MemberOK(t) => PageAsWritten
  <2> SUFFICES ASSUME ParsingInv(t), AnswersInv(t), MemberOK(t),
                      response[t] \notin {NULL, Crash}, response[t].page # NULL,
                      response[t].page.file \in DOMAIN Shape
               PROVE  response[t].body = Shown(response[t].page.file, response[t].page.context)
    BY DEF PageAsWritten
  <2>1. Made(response[t])
    BY AnswerMade
  <2> QED BY <2>1 DEF Made
<1> QED BY <1>1, ParsingInvariant, AnswersInvariant, MemberInvariant, PTL

\* With one worker every body is a text, whatever was typed into it.
THEOREM OneWorkerBodiesAreTexts ==
    ASSUME NEW t, Thread = {t}
    PROVE  Spec => []BodiesAreTexts
<1>1. ASSUME ParsingInv(t), AnswersInv(t), MemberOK(t), response[t] \notin {NULL, Crash},
             response[t].body # NULL
      PROVE  response[t].body \in Seq(STRING)
  BY <1>1, AnswerMade DEF Made, Text
<1>2. ParsingInv(t) /\ AnswersInv(t) /\ MemberOK(t) => BodiesAreTexts
  BY <1>1 DEF BodiesAreTexts
<1> QED BY <1>2, ParsingInvariant, AnswersInvariant, MemberInvariant, PTL

\* With one worker the answers to those who are kept alive end where their
\* headers say, whatever file or page is asked for
\* (cgi_event_dispatcher.c:277-289, static_handle.c:43-76).
THEOREM OneWorkerFramed ==
    ASSUME NEW t, Thread = {t}
    PROVE  Spec => []Framed
<1>1. ASSUME ParsingInv(t), AnswersInv(t), MemberOK(t), hpc[t] = "sent", response[t] # NULL,
             KeepAlive(parsed[t]), NUL \notin ToSet(wire[t].body)
      PROVE  {h \in ToSet(wire[t].headers) : h[1] = "Content-Length"}
                 = {<<"Content-Length", Len(wire[t].body)>>}
  <2> DEFINE r == response[t]
             n == IF r.body # NULL THEN CLength(r.body) ELSE 0
  <2>1. Replied(t) /\ r # Crash /\ wire[t] = Posted(t)
    BY <1>1 DEF AnswersInv, AnswerOK, SentOK
  <2>2. Response(r)
    BY <1>1, <2>1, RepliedIs
  <2>3. wire[t].headers = Reverse(KeptAlive(r).headers)
    BY <1>1, <2>1, <2>2, PostedIs
  <2>4. wire[t].body = IF r.body = NULL THEN <<>> ELSE r.body
    BY <2>1, <2>2, PostedIs
  <2>5. r.body # NULL => Text(r.body)
    BY <1>1, <2>1, AnswerMade DEF Made
  <2> HIDE DEF r
  <2>6. KeptAlive(r).headers =
           AddPair("Content-Length", n, AddPair("Connection", "Keep-Alive", r.headers))
    BY <2>2, KeptAliveIs
  <2>7. ASSUME r.body # NULL
        PROVE  n = Len(r.body)
    <3>1. r.body \in Seq(STRING)
      BY <2>5, <2>7 DEF Text
    <3>2. NUL \notin ToSet(r.body)
      BY <1>1, <2>4, <2>7
    <3> QED BY <2>7, <3>1, <3>2, LengthIs
  <2>8. r.body = NULL => n = 0
    OBVIOUS
  <2>9. n = Len(wire[t].body)
    BY <2>4, <2>7, <2>8
  <2> HIDE DEF n
  <2> DEFINE list == AddPair("Content-Length", n, AddPair("Connection", "Keep-Alive", r.headers))
  <2>10. {h \in ToSet(Reverse(list)) : h[1] = "Content-Length"} = {<<"Content-Length", n>>}
    BY <2>2, <2>7, <2>8, LengthsAre
  <2> QED BY <2>3, <2>6, <2>9, <2>10
<1>2. ParsingInv(t) /\ AnswersInv(t) /\ MemberOK(t) => Framed
  BY <1>1 DEF Framed
<1> QED BY <1>2, ParsingInvariant, AnswersInvariant, MemberInvariant, PTL
=============================================================================
