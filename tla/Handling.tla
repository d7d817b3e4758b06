------------------------------- MODULE Handling -------------------------------
(***************************************************************************)
(* What a worker does with one request: handle of                          *)
(* src/cgi_event_dispatcher.c, with the parser (Request), the routes       *)
(* (Trie), the plugins (Pages, Template) and responseWrite in it.          *)
(*                                                                         *)
(* Browsers send what they are given in Requests.  A thread works for one  *)
(* connection at a time; which thread has it, and when it is closed for    *)
(* being idle, is in Async and Dispatcher.                                 *)
(***************************************************************************)
EXTENDS Trie, Request, Pages

CONSTANTS
    Requests,     \* what browsers ask for
    Sessions,     \* the account of each session id
    MaxRequests   \* bound: requests received

\* What has a meaning in a request, and what browsers escape or leave out.
Marks == {NUL, "CR", "LF", "TAB", " ", "#", "?", "=", "&", ":", ";", "+"} \cup DOMAIN Escapes
PlainWord == STRING \ Marks
TypedWord == STRING \ ({NUL, "CR", "LF", "TAB"} \cup DOMAIN Escapes)
Fields == Seq([name : PlainWord, value : Seq(TypedWord)])

\* A request: method, uri, fragment (there is one), version, query and form
\* (the fields in their order, and what was typed into them), keepAlive, sid,
\* and how many words of it come late.  Only forms are sent with POST, and
\* signup.html asks for the password before it asks for it again.
ASSUME RequestsAssumption ==
    \A r \in Requests :
        /\ r.uri \in Path \cap Seq(PlainWord)
        /\ r.method \in PlainWord /\ r.version \in PlainWord /\ r.sid \in PlainWord \cup {NULL}
        /\ r.query \in Fields /\ r.form \in Fields /\ r.late \in Nat
        /\ r.fragment \in BOOLEAN /\ r.keepAlive \in BOOLEAN
        /\ r.form # <<>> => r.method = "POST"
        /\ \A i \in DOMAIN r.form :
              r.form[i].name = "confirm-password" =>
                  \E j \in 1..(i - 1) : r.form[j].name = "password"
\* What the code and its pages spell out are strings, which the provers do not know.
Literal ==
    Marks \cup {"{", "}", "%", "include", "when", Exit, FormType, "UNKNOWN", "top", "Connection",
               "keep-alive", "Cookie", "sid", "Content-Type", "missing!", "Invalid", "Unexpected",
               "t", "none", "some", "home", "Home", "about", "About", "404 Not Found", "login",
               "Login", "signup", "Sign Up", "dashboard", "Dashboard", "search", "Search", "profile"}
ASSUME LiteralAssumption == Literal \subseteq STRING

\* No word is NULL, and no text.
ASSUME WordsAssumption == NULL \notin STRING /\ NULL \notin Seq(STRING)

\* A handler is one of the plugins of web/src: a line that names another cannot
\* be loaded (LoadFails).
Plugins == {"home", "about", "notFound", "login", "logout", "signup", "dashboard", "search",
            "profile", "post", "connect", "like", "unlike", "static_handle"}
ASSUME PluginsAssumption == Handler \subseteq Plugins
ASSUME CrashAssumption == NULL \notin {Crash, Missing}
ASSUME SessionsAssumption == \A s \in DOMAIN Sessions : Sessions[s] \in Seq(STRING)

ASSUME BoundAssumption == MaxRequests \in Nat

VARIABLES
    hpc,        \* the step of handle
    asking,     \* what the browser wants
    piece,      \* what was received of it: "whole", its "first" piece, the "rest"
    unread,     \* what comes behind the first piece
    account,    \* req->account
    response,
    wire,       \* what was sent
    linger,     \* of the connection: it stays open
    received    \* requests so far

handler == <<hpc, asking, piece, unread, account, response, wire, linger>>
vars == <<process, tree, loader, search, parser, handler, received>>

Init ==
    /\ TrieInit
    /\ ParserInit
    /\ hpc = [t \in Thread |-> "idle"]
    /\ asking = [t \in Thread |-> NULL]
    /\ piece = [t \in Thread |-> "whole"]
    /\ unread = [t \in Thread |-> <<>>]
    /\ account = [t \in Thread |-> NULL]
    /\ response = [t \in Thread |-> NULL]
    /\ wire = [t \in Thread |-> NULL]
    /\ linger = [t \in Thread |-> FALSE]
    /\ received = 0

At(t, step) == Up /\ hpc[t] = step
Step(t, step) == hpc' = [hpc EXCEPT ![t] = step]

-----------------------------------------------------------------------------
\* How a browser writes a request.
EscapeOf == [c \in {Escapes[e] : e \in DOMAIN Escapes} |->
                CHOOSE e \in DOMAIN Escapes : Escapes[e] = c]

FormEncode(value) ==
    [i \in DOMAIN value |-> CASE value[i] = " " -> "+"
                              [] value[i] \in DOMAIN EscapeOf \ {" "} -> EscapeOf[value[i]]
                              [] OTHER -> value[i]]

When(condition, text) == IF condition THEN text ELSE <<>>

Field(f) == Joined(<<f.name>>, "=", FormEncode(f.value))
Fielded(fields) ==
    FlattenSeq([i \in DOMAIN fields |->
                   When(i # 1, <<"&">>) \o Field(fields[i])])

PathAndQuery(r) == IF r.query = <<>> THEN r.uri ELSE Joined(r.uri, "?", Fielded(r.query))
Target(r) == PathAndQuery(r) \o When(r.fragment, <<"#", "top">>)

\* The headers that mean something to facebooc; one without a value is left out.
HeaderName == <<"Connection", "Cookie", "Content-Type">>
HeaderValue(r, k) == CASE k = 1 -> When(r.keepAlive, <<"keep-alive">>)
                       [] k = 2 -> When(r.sid # NULL, <<"sid", "=", r.sid>>)
                       [] k = 3 -> When(r.form # <<>>, <<FormType>>)
Header(r, k, others) ==
    IF HeaderValue(r, k) = <<>> THEN others
    ELSE Joined(<<HeaderName[k]>>, ":",
                Joined(<<" ">> \o HeaderValue(r, k) \o <<"CR">>, "LF", others))

\* The headers from the k-th on, the blank line and the form.
Headers(r, k) ==
    LET blank == Joined(<<"CR">>, "LF", Fielded(r.form))
        type == Header(r, 3, blank)
        cookie == Header(r, 2, type)
    IN  <<Header(r, 1, cookie), cookie, type, blank>>[k]

Encode(r) ==
    Joined(<<r.method>>, " ",
           Joined(Target(r), " ", Joined(<<r.version, "CR">>, "LF", Headers(r, 1))))

\* handle calls recv once, and what has come by then is the request.
Receive(t) ==
    /\ At(t, "idle")
    /\ Started
    /\ received < MaxRequests
    /\ unread[t] = <<>>
    /\ \E r \in Requests :
          LET text == Encode(r)
              come == Len(text) - r.late
          IN  /\ come > 0
              /\ asking' = [asking EXCEPT ![t] = r]
              /\ piece' = [piece EXCEPT ![t] = IF r.late = 0 THEN "whole" ELSE "first"]
              /\ unread' = [unread EXCEPT ![t] = SubSeq(text, come + 1, Len(text))]
              /\ Parse(t, SubSeq(text, 1, come))
    /\ received' = received + 1
    /\ Step(t, "parsing")
    /\ UNCHANGED <<process, tree, loader, search, account, response, wire, linger>>

\* What was late comes to a connection that was kept open.
ReceiveRest(t) ==
    /\ At(t, "idle")
    /\ unread[t] # <<>>
    /\ Parse(t, unread[t])
    /\ piece' = [piece EXCEPT ![t] = "rest"]
    /\ unread' = [unread EXCEPT ![t] = <<>>]
    /\ Step(t, "parsing")
    /\ UNCHANGED <<process, tree, loader, search, asking, account, response, wire, linger,
                   received>>

Parsing(t) ==
    /\ At(t, "parsing")
    /\ ParseStep(t)
    /\ UNCHANGED <<process, tree, loader, search, handler, received>>

BadRequest(t) ==
    /\ At(t, "parsing")
    /\ ppc[t] = "fail"
    /\ wire' = [wire EXCEPT ![t] = [status |-> 400, headers |-> <<>>, body |-> <<"Bad Request">>]]
    /\ Step(t, "sent")
    /\ UNCHANGED <<process, tree, loader, search, parser, asking, piece, unread, account,
                   response, linger, received>>

-----------------------------------------------------------------------------
\* session
AccountOf(cookies) ==
    LET sid == Lookup(cookies, <<"sid">>)
    IN  IF sid = NULL \/ sid \notin DOMAIN Sessions THEN NULL ELSE Sessions[sid]

Session(t) ==
    /\ At(t, "parsing")
    /\ ppc[t] = "parsed"
    /\ account' = [account EXCEPT ![t] = AccountOf(parsed[t].cookies)]
    /\ Find(t, parsed[t].uri)
    /\ Step(t, "searching")
    /\ UNCHANGED <<parser, asking, piece, unread, response, wire, linger, received>>

SearchStep(t) ==
    /\ At(t, "searching")
    /\ FindStep(t)
    /\ UNCHANGED <<parser, handler, received>>

\* The handler of the route is called, if there is one or not.
NoHandler(t) ==
    /\ At(t, "searching")
    /\ spc[t] = "done" /\ found[t] = NULL
    /\ process' = "crashed"
    /\ UNCHANGED <<tree, loader, search, parser, handler, received>>

Ends(r) == CASE r = Crash -> "crashed"
             [] r \notin {NULL, Crash} /\ r.body # NULL /\ Exit \in ToSet(r.body) -> "exited"
             [] OTHER -> "up"

Call(t) ==
    /\ At(t, "searching")
    /\ spc[t] = "done" /\ found[t] # NULL
    /\ \E r \in Reply(found[t], parsed[t], account[t]) :
          /\ process' = Ends(r)
          /\ response' = [response EXCEPT ![t] = r]
    /\ Step(t, "called")
    /\ UNCHANGED <<tree, loader, search, parser, asking, piece, unread, account, wire,
                   linger, received>>

NoResponse(t) ==
    /\ At(t, "called")
    /\ response[t] = NULL
    /\ wire' = [wire EXCEPT ![t] = [status |-> 404, headers |-> <<>>, body |-> <<"Not Found!">>]]
    /\ Step(t, "sent")
    /\ UNCHANGED <<process, tree, loader, search, parser, asking, piece, unread, account,
                   response, linger, received>>

\* The headers that keep the connection open, if the browser asks for it.
OnlyWithBody(r) ==   \* mutant: a response without a body has no length
    LET kept == AddHeader(r, "Connection", "Keep-Alive")
    IN  IF r.body # NULL THEN AddHeader(kept, "Content-Length", CLength(r.body)) ELSE kept

KeptAlive(r) ==
    AddHeader(AddHeader(r, "Connection", "Keep-Alive"),
              "Content-Length", IF r.body # NULL THEN CLength(r.body) ELSE 0)

KeepAlive(req) == Lookup(req.headers, <<"Connection">>) = <<"keep-alive">>

\* responseWrite: the headers in the order in which they were added.
Sent(r) == [status |-> r.status, headers |-> Reverse(r.headers),
                body |-> IF r.body = NULL THEN <<>> ELSE r.body]

Write(t) ==
    /\ At(t, "called")
    /\ response[t] # NULL
    /\ LET kept == KeepAlive(parsed[t])
       IN  /\ linger' = [linger EXCEPT ![t] = @ \/ kept]
           /\ wire' = [wire EXCEPT ![t] =
                          Sent(IF kept THEN KeptAlive(response[t]) ELSE response[t])]
    /\ Step(t, "sent")
    /\ UNCHANGED <<process, tree, loader, search, parser, asking, piece, unread, account,
                   response, received>>

\* requestDel, which frees what the handler has freed.
DoubleFree(t) ==
    /\ At(t, "sent")
    /\ wire[t].status = 302 /\ response[t].freed
    /\ process' = "crashed"
    /\ UNCHANGED <<tree, loader, search, parser, handler, received>>

\* The connection waits for a request again, or is closed.
Done(t) ==
    /\ At(t, "sent")
    /\ Forget(t)
    /\ Return(t)
    /\ account' = [account EXCEPT ![t] = NULL]
    /\ response' = [response EXCEPT ![t] = NULL]
    /\ wire' = [wire EXCEPT ![t] = NULL]
    /\ Step(t, "idle")
    /\ \/ /\ linger[t]
          /\ asking' = [asking EXCEPT ![t] = IF unread[t] = <<>> THEN NULL ELSE @]
          /\ UNCHANGED <<unread, linger>>
       \/ /\ asking' = [asking EXCEPT ![t] = NULL]   \* the next one is a new connection
          /\ unread' = [unread EXCEPT ![t] = <<>>]
          /\ linger' = [linger EXCEPT ![t] = FALSE]
    /\ piece' = [piece EXCEPT ![t] = "whole"]
    /\ UNCHANGED <<process, received>>

Loading ==
    /\ Up
    /\ Load
    /\ UNCHANGED <<parser, handler, received>>

Handle(t) ==
    \/ Parsing(t) \/ BadRequest(t) \/ Session(t) \/ SearchStep(t) \/ NoHandler(t) \/ Call(t)
    \/ NoResponse(t) \/ Write(t) \/ DoubleFree(t) \/ Done(t)

Next == Loading \/ \E t \in Thread : Receive(t) \/ ReceiveRest(t) \/ Handle(t)

\* A worker goes on with what it has begun, up to the call of the plugin, which
\* is not ours: until there handle waits for nobody.
Routing(t) == Parsing(t) \/ BadRequest(t) \/ Session(t) \/ SearchStep(t)

Spec == Init /\ [][Next]_vars /\ \A t \in Thread : WF_vars(Routing(t))
-----------------------------------------------------------------------------
\* Properties.

\* The fields up to the first one that was left empty.
Filled(fields) ==
    SubSeq(fields, 1,
           Min({i \in 1..(Len(fields) + 1) : i \in DOMAIN fields => fields[i].value = <<>>}) - 1)

\* No field was left empty with one behind it that was not.
NoHole(fields) ==
    \A i, j \in DOMAIN fields : i < j /\ fields[i].value = <<>> => fields[j].value = <<>>

\* What the parser can be expected to accept; it refuses a query string with
\* nothing filled in.
Good(r) == /\ r.method \in Methods /\ ~r.fragment /\ r.version \in Versions
           /\ r.query # <<>> => \E i \in DOMAIN r.query : r.query[i].value # <<>>

\* The pairs that were sent, as a list that was consed up.
AsPairs(fields) == Reverse([i \in DOMAIN fields |-> <<<<fields[i].name>>, fields[i].value>>])

Accepted(t) == hpc[t] \in {"searching", "called", "sent"} /\ ppc[t] = "parsed"
AcceptedWhole(t) == Accepted(t) /\ piece[t] = "whole"

\* The path that is looked up is the one the browser asked for, without the
\* query behind it, also when the request has come in part: what is cut off
\* in its path is refused (request.c:178-186, 200-206).
PathAsAsked ==
    \A t \in Thread : ppc[t] = "parsed" => parsed[t].uri = asking[t].uri

\* A request that is taken up is the one that the browser sent, decoded: the
\* path, the fields of the query and of the form with whatever characters were
\* typed, the session and the wish to be kept alive (request.c:7-147).
ParsedAsSent ==
    \A t \in Thread : AcceptedWhole(t) /\ NoHole(asking[t].query) /\ NoHole(asking[t].form) =>
        LET p == parsed[t]
            r == asking[t]
        IN  /\ p.method = r.method /\ p.uri = r.uri
            /\ p.query = AsPairs(Filled(r.query)) /\ p.body = AsPairs(Filled(r.form))
            /\ p.cookies = When(r.sid # NULL, <<<<<<"sid">>, <<r.sid>>>>>>)
            /\ KeepAlive(p) = r.keepAlive

\* Of a form that has come in part a handler sees the first fields, each as
\* it was typed but for the last one, which may be short, and none that is
\* empty or was made up (request.c:61-103, 190-197).
FirstFieldsAsSent ==
    \A t \in Thread : Accepted(t) /\ piece[t] = "first" /\ NoHole(asking[t].form) =>
        LET seen == Reverse(parsed[t].body)
            sent == Filled(asking[t].form)
        IN  /\ Len(seen) <= Len(sent)
            /\ \A i \in DOMAIN seen :
                  /\ seen[i][1] = <<sent[i].name>>
                  /\ IF i < Len(seen) THEN seen[i][2] = sent[i].value
                     ELSE seen[i][2] # <<>> /\ IsPrefix(seen[i][2], sent[i].value)

\* "HTTP/1.0 400 Bad Request" goes to browsers that sent a bad request, and to
\* all of these, when they come in one piece (cgi_event_dispatcher.c:254-256,
\* request.c:159-222).
BadRequestOnlyIfBad ==
    \A t \in Thread : piece[t] = "whole" =>
        /\ wire[t] # NULL /\ wire[t].status = 400 => ~Good(asking[t])
        /\ Accepted(t) => Good(asking[t])

\* A field of the login or sign-up page is reported missing when, and only
\* when, the form that came has nothing in it (login.c:38-46, signup.c:35-80),
\* and the process survives it.
FieldOf == [username |-> "username", password |-> "password", name |-> "name",
            email |-> "email", confirm |-> "confirm-password"]
FieldsOf == [login |-> {"username", "password"}, signup |-> DOMAIN FieldOf]

LeftEmpty(form, name) == \A i \in DOMAIN form : form[i].name = name => form[i].value = <<>>

Reported(t) ==
    /\ response[t] # Crash
    /\ response[t].page # NULL =>
          \A f \in FieldsOf[found[t]] :
              LeftEmpty(asking[t].form, FieldOf[f])
              <=> Lookup(response[t].page.context, ErrorOf[f]) = Missing

FormSent(t) ==
    /\ hpc[t] = "called"
    /\ piece[t] = "whole"
    /\ account[t] = NULL
    /\ asking[t].form # <<>>
    /\ found[t] \in {"login", "signup"}

EmptyFieldsAreReported == \A t \in Thread : FormSent(t) => Reported(t)

\* The same for forms whose empty fields are the last ones.
LastEmptyFieldsAreReported ==
    \A t \in Thread : FormSent(t) /\ NoHole(asking[t].form) => Reported(t)

\* Type invariant: the body of a response is a text.
BodiesAreTexts ==
    \A t \in Thread :
        response[t] \notin {NULL, Crash} /\ response[t].body # NULL =>
            response[t].body \in Seq(STRING)

\* A page is its template with the variables replaced, and what a user typed
\* is not read as a template, whatever braces are in it (template.c:59-133).
PageAsWritten ==
    \A t \in Thread : response[t] \notin {NULL, Crash} /\ response[t].page # NULL =>
        LET page == response[t].page
        IN  page.file \in DOMAIN Shape => response[t].body = Shown(page.file, page.context)

\* Who is kept alive by a handler's response can tell where it ends: each
\* Content-Length, the one of static_handle too, is the length of the body
\* (cgi_event_dispatcher.c:277-289, static_handle.c:43-76).  A file with a NUL
\* in it has two that differ.
Framed ==
    \A t \in Thread :
        (hpc[t] = "sent" /\ linger[t] /\ response[t] # NULL /\ KeepAlive(parsed[t])
         /\ NUL \notin ToSet(wire[t].body)) =>
            LET lengths == {h \in ToSet(wire[t].headers) : h[1] = "Content-Length"}
            IN  lengths = {<<"Content-Length", Len(wire[t].body)>>}

\* The process crashes for a path without a route, for a sign-up form with a
\* hole in it, and for the parameter r of like and unlike, and for nothing
\* else a browser may ask (cgi_event_dispatcher.c:265, signup.c:77,
\* like.c:32), also while the routes are loaded again.
CrashesAreKnown ==
    process = "crashed" =>
        \E t \in Thread : \/ hpc[t] = "searching" /\ ~sought[t].known
                          \/ hpc[t] = "called" /\ ~NoHole(asking[t].form)
                          \/ hpc[t] = "sent" /\ found[t] \in {"like", "unlike"}

\* A request that was received is refused or its handler is looked up, unless
\* the process ends first: parsing ends, and so does a search, however many
\* nodes are added meanwhile (request.c:61-103, cgi_url_dltrie.c:150-165).
EachIsRouted ==
    \A t \in Thread : (hpc[t] = "parsing") ~> (wire[t] # NULL \/ spc[t] = "done" \/ ~Up)
=============================================================================
