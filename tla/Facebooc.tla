------------------------------ MODULE Facebooc ------------------------------
(***************************************************************************)
(* The web application: the do_response plugins of web/src over the models *)
(* of src/models and the database of src/db.c.                             *)
(*                                                                         *)
(* A worker thread serves one request at a time.  All threads share one    *)
(* SQLite connection, which runs one statement at a time, and no plugin    *)
(* opens a transaction: a statement is one action, and statements of       *)
(* different requests interleave.  Statements that fail for other reasons  *)
(* than a constraint (no memory, no disk) are left out.                    *)
(*                                                                         *)
(* A table is a sequence whose indices are the row ids, except likes: its  *)
(* ids nobody reads and its rows are deleted, so it is a bag of rows.      *)
(* Posts have their time stamps, in whole seconds; those of the other      *)
(* tables nobody reads.  Names and bodies are left out: they are shown,    *)
(* not used.                                                               *)
(***************************************************************************)
EXTENDS Naturals, Sequences, FiniteSets, FiniteSetsExt, Bags

CONSTANTS
    Browser,
    Thread,
    Username, Email, Password,
    Escaped,      \* bsEscape: the form in which an address is stored
    Kept,         \* what a cookie keeps of a user name: see Cookie
    Second,       \* what time(NULL) may give
    Ops,          \* what the browsers ask for in this instance
    Routes,       \* the requests that route.conf has a line for
    Seed,         \* the database file at the first start, and the cookies
    PageSize,     \* LIMIT of the queries that fill a page
    MaxRequests,  \* bound: requests sent
    MaxRestarts,  \* bound: how often the process is killed
    NULL

Operation == {"signup", "login", "logout", "post", "like", "unlike",
              "connect", "dashboard", "profile", "about"}

ASSUME EscapedAssumption ==
    /\ Escaped \in [Email -> Email]
    /\ \A e \in Email : Escaped[Escaped[e]] = Escaped[e]
ASSUME KeptAssumption == Kept \in [Username -> Username]
ASSUME SecondAssumption == Second \subseteq Nat

\* A session id as it comes back from the browser.  It ends in the user name,
\* in which everything is allowed: the cookie ends at a ";" or a line break of
\* it, and a blank at the end is dropped.
Whole(username) == Kept[username] = username
Cookie(sid) == <<sid[1], Kept[sid[2]]>>

\* The file is one that the program has written, and the cookies are its own.
ASSUME SeedAssumption ==
    /\ Seed.accounts \in Seq([username : Username, email : Email, password : Password])
    /\ \A i, j \in DOMAIN Seed.accounts :
          Seed.accounts[i].email = Seed.accounts[j].email => i = j
    /\ Seed.sessions \in Seq([account : DOMAIN Seed.accounts, sid : Nat \X Username])
    /\ \A i \in DOMAIN Seed.sessions :
          Seed.accounts[Seed.sessions[i].account].username = Seed.sessions[i].sid[2]
    /\ Seed.jar \in [Browser -> (Nat \X Username) \cup {NULL}]
    /\ \A b \in Browser : Seed.jar[b] = NULL
          \/ \E i \in DOMAIN Seed.sessions : Cookie(Seed.sessions[i].sid) = Seed.jar[b]
ASSUME NullAssumption == NULL \notin Browser \cup (Nat \X Username)
ASSUME OpsAssumption == Ops \subseteq Operation /\ Routes \subseteq Operation
ASSUME PageAssumption == PageSize \in Nat \ {0}
ASSUME RequestsAssumption == MaxRequests \in Nat /\ MaxRestarts \in Nat

VARIABLES
    \* the database file
    accounts, sessions, connections, posts, likes,
    \* the process
    draws,     \* session ids drawn from rand(), which is never seeded
    \* the browsers
    jar,       \* the sid cookie a browser holds, as it will send it
    asked,     \* requests sent so far
    restarts,  \* kills so far
    \* the threads
    pc, req,
    acct,      \* req->account: row id, or None
    row,       \* the row the last statement found or inserted
    page,      \* the posts on the page to be sent
    answer

database == <<accounts, sessions, connections, posts, likes>>
browsers == <<jar, asked, restarts>>
threads == <<pc, req, acct, row, page, answer>>
vars == <<database, draws, browsers, threads>>

None == 0   \* the id of no row
Form == [username : Username, email : Email, password : Password]
Sid == Nat \X Username
NoRequest == [op |-> "none", by |-> NULL, sid |-> NULL, form |-> NULL, id |-> None]
Request == [op : Operation, by : Browser, sid : Sid \cup {NULL},
            form : Form \cup {NULL}, id : Nat]
PC == {"idle", "session", "checkEmail", "checkUsername", "insertAccount",
       "lookupEmail", "findUser", "insertSession", "insertPost", "findPost",
       "insertLike", "deleteLike", "findAccount", "insertConnection",
       "readFeed", "readPosts", "reply"}

Idle(t) == /\ pc[t] = "idle"
           /\ req[t] = NoRequest

-----------------------------------------------------------------------------
\* initDB keeps the tables of an existing file.
Init ==
    /\ accounts = Seed.accounts
    /\ sessions = Seed.sessions
    /\ connections = <<>>
    /\ posts = <<>>
    /\ likes = EmptyBag
    /\ draws = 0
    /\ jar = Seed.jar
    /\ asked = 0
    /\ restarts = 0
    /\ pc = [t \in Thread |-> "idle"]
    /\ req = [t \in Thread |-> NoRequest]
    /\ acct = [t \in Thread |-> None]
    /\ row = [t \in Thread |-> None]
    /\ page = [t \in Thread |-> {}]
    /\ answer = [t \in Thread |-> "none"]

\* Of the rows that a SELECT finds, the one sqlite3_step gives first, or None.
First(rows) == IF rows = {} THEN None ELSE Min(rows)

Go(t, label) == pc' = [pc EXCEPT ![t] = label]
Answer(t, what) == answer' = [answer EXCEPT ![t] = what]
Found(t, i) == row' = [row EXCEPT ![t] = i]

-----------------------------------------------------------------------------
\* A browser sends a request and a thread takes it up.  A browser need not
\* wait for one answer before it sends the next request.
Ask(b, t, op, form, id) ==
    /\ Idle(t)
    /\ asked < MaxRequests
    /\ asked' = asked + 1
    /\ req' = [req EXCEPT ![t] = [op |-> op, by |-> b, sid |-> jar[b],
                                  form |-> form, id |-> id]]
    /\ Go(t, "session")
    /\ UNCHANGED <<database, draws, jar, restarts, acct, row, page, answer>>

AskWithForm(t) ==
    \E b \in Browser, op \in Ops \cap {"signup", "login"}, f \in Form :
        Ask(b, t, op, f, None)

AskById(t) ==
    \E b \in Browser, op \in Ops \cap {"like", "unlike", "connect", "profile"},
       id \in 1..(Len(accounts) + 1) :
        Ask(b, t, op, NULL, id)

AskPlain(t) ==
    \E b \in Browser, op \in Ops \cap {"logout", "post", "dashboard", "about"} :
        Ask(b, t, op, NULL, None)

SessionBySid(sid) == First({i \in DOMAIN sessions : sessions[i].sid = sid})

\* The account a session cookie stands for: two lookups, of rows that never
\* change once they are there.
AccountBySid(sid) ==
    LET s == SessionBySid(sid)
    IN  IF sid = NULL \/ s = None THEN None ELSE sessions[s].account

\* The first statement of each plugin, or its answer when it has none to run.
Entry(op, a) ==
    CASE op = "signup" -> IF a = None THEN "checkEmail" ELSE "reply"
      [] op = "login" -> IF a = None THEN "findUser" ELSE "reply"
      [] op = "post" -> IF a = None THEN "reply" ELSE "insertPost"
      [] op \in {"like", "unlike"} -> IF a = None THEN "reply" ELSE "findPost"
      [] op \in {"connect", "profile"} -> IF a = None THEN "reply" ELSE "findAccount"
      [] op = "dashboard" -> IF a = None THEN "reply" ELSE "readFeed"
      [] OTHER -> "reply"

Session(t) ==
    /\ pc[t] = "session"
    /\ req[t].op \in Routes
    /\ LET a == AccountBySid(req[t].sid)
       IN  /\ acct' = [acct EXCEPT ![t] = a]
           /\ Go(t, Entry(req[t].op, a))
    /\ UNCHANGED <<database, draws, browsers, req, row, page, answer>>

\* The process starts again: what its threads were doing is gone, the file
\* and the cookies are not, and rand() repeats itself.
MemoryOnly ==   \* mutant: the sessions are kept in memory
    /\ sessions' = Seed.sessions
    /\ draws' = 0
    /\ pc' = [t \in Thread |-> "idle"]
    /\ req' = [t \in Thread |-> NoRequest]
    /\ acct' = [t \in Thread |-> None]
    /\ row' = [t \in Thread |-> None]
    /\ page' = [t \in Thread |-> {}]
    /\ answer' = [t \in Thread |-> "none"]
    /\ UNCHANGED <<accounts, connections, posts, likes, jar, asked>>

Reboot ==
    /\ draws' = 0
    /\ pc' = [t \in Thread |-> "idle"]
    /\ req' = [t \in Thread |-> NoRequest]
    /\ acct' = [t \in Thread |-> None]
    /\ row' = [t \in Thread |-> None]
    /\ page' = [t \in Thread |-> {}]
    /\ answer' = [t \in Thread |-> "none"]
    /\ UNCHANGED <<database, jar, asked>>

\* handle calls the handler that cgi_url_dltrie_find left NULL.
NoHandler(t) ==
    /\ pc[t] = "session"
    /\ req[t].op \notin Routes
    /\ Reboot
    /\ UNCHANGED restarts

Kill ==
    /\ restarts < MaxRestarts
    /\ restarts' = restarts + 1
    /\ Reboot

-----------------------------------------------------------------------------
ByEmail(email) == First({i \in DOMAIN accounts : accounts[i].email = email})
EmailFree(email) == ByEmail(email) = None
ByUsername(username) == First({i \in DOMAIN accounts : accounts[i].username = username})
UsernameFree(username) == ByUsername(username) = None

\* signup.  Each check also fails when a test that reads no row does.
CheckEmail(t) ==
    /\ pc[t] = "checkEmail"
    /\ Go(t, "checkUsername")
    /\ \/ /\ EmailFree(req[t].form.email)
          /\ UNCHANGED answer
       \/ Answer(t, "form")
    /\ UNCHANGED <<database, draws, browsers, req, acct, row, page>>

CheckUsername(t) ==
    /\ pc[t] = "checkUsername"
    /\ \/ /\ UsernameFree(req[t].form.username)
          /\ answer[t] # "form"
          /\ Go(t, "insertAccount")
          /\ UNCHANGED answer
       \/ /\ Go(t, "reply")
          /\ Answer(t, "form")
    /\ UNCHANGED <<database, draws, browsers, req, acct, row, page>>

\* The INSERT, which the UNIQUE constraint on email may refuse.
NoConstraint(f) == FALSE   \* mutant: email TEXT, without UNIQUE

EmailStored(f) == ByEmail(Escaped[f.email]) # None

Stored(f) == [username |-> f.username, email |-> Escaped[f.email], password |-> f.password]

StepIgnored(t) ==   \* mutant: the result of sqlite3_step is not looked at
    /\ pc[t] = "insertAccount"
    /\ IF EmailStored(req[t].form)
       THEN UNCHANGED <<accounts, row>>
       ELSE /\ accounts' = Append(accounts, Stored(req[t].form))
            /\ Found(t, Len(accounts) + 1)
    /\ Go(t, "lookupEmail")
    /\ UNCHANGED <<sessions, connections, posts, likes, draws, browsers, req, acct, page,
                   answer>>

InsertAccount(t) ==
    /\ pc[t] = "insertAccount"
    /\ IF EmailStored(req[t].form)
       THEN /\ Go(t, "reply")
            /\ Answer(t, "unexpected")
            /\ UNCHANGED <<accounts, row>>
       ELSE /\ accounts' = Append(accounts, Stored(req[t].form))
            /\ Found(t, Len(accounts) + 1)
            /\ Go(t, "lookupEmail")
            /\ UNCHANGED answer
    /\ UNCHANGED <<sessions, connections, posts, likes, draws, browsers, req, acct, page>>

\* accountGetByEmail, with the address as it was typed.
LookupEmail(t) ==
    /\ pc[t] = "lookupEmail"
    /\ Go(t, "reply")
    /\ Answer(t, IF ByEmail(req[t].form.email) = None THEN "unexpected" ELSE "welcome")
    /\ UNCHANGED <<database, draws, browsers, req, acct, row, page>>

-----------------------------------------------------------------------------
\* login: sessionCreate.
AnyPassword(f) ==   \* mutant: WHERE username = ? only
    ByUsername(f.username)

UserWith(f) ==
    First({i \in DOMAIN accounts : /\ accounts[i].username = f.username
                                   /\ accounts[i].password = f.password})

FindUser(t) ==
    /\ pc[t] = "findUser"
    /\ LET i == UserWith(req[t].form)
       IN  IF i = None
           THEN /\ Go(t, "reply")
                /\ Answer(t, "form")
                /\ UNCHANGED row
           ELSE /\ Go(t, "insertSession")
                /\ Found(t, i)
                /\ UNCHANGED answer
    /\ UNCHANGED <<database, draws, browsers, req, acct, page>>

\* bsRandom(24, username): what rand() gives, then the name.
NoSuffix(username) ==   \* mutant: the suffix is not the name, but one for all
    <<draws, CHOOSE u \in Username : TRUE>>

NewSid(username) == <<draws, username>>

\* The SELECT that follows the INSERT finds a row with this sid, if not this
\* row, and the cookie is made of the sid alone.
InsertSession(t) ==
    /\ pc[t] = "insertSession"
    /\ sessions' = Append(sessions, [account |-> row[t],
                                     sid |-> NewSid(req[t].form.username)])
    /\ draws' = draws + 1
    /\ Found(t, Len(sessions) + 1)
    /\ Go(t, "reply")
    /\ Answer(t, "cookie")
    /\ UNCHANGED <<accounts, connections, posts, likes, browsers, req, acct, page>>

-----------------------------------------------------------------------------
\* post: an empty body or one that is too long is not stored.  The time is
\* taken before the INSERT, which other threads may overtake, and the clock may
\* be set: of two rows the later may have the earlier stamp, or the same.
NewPost(a, second) == posts' = Append(posts, [author |-> a, createdAt |-> second])

InsertPost(t) ==
    /\ pc[t] = "insertPost"
    /\ \/ \E second \in Second : NewPost(acct[t], second)
       \/ UNCHANGED posts
    /\ Go(t, "reply")
    /\ UNCHANGED <<accounts, sessions, connections, likes, draws, browsers,
                   req, acct, row, page, answer>>

\* like and unlike: postGetById.
Exists(table, id) == id \in DOMAIN table

FindPost(t) ==
    /\ pc[t] = "findPost"
    /\ IF Exists(posts, req[t].id)
       THEN /\ Found(t, req[t].id)
            /\ Go(t, IF req[t].op = "like" THEN "insertLike" ELSE "deleteLike")
       ELSE Go(t, "reply") /\ UNCHANGED row
    /\ UNCHANGED <<database, draws, browsers, req, acct, page, answer>>

Likes(a, p) == {r \in DOMAIN likes : r.account = a /\ r.post = p}
Liked(a, p) == Likes(a, p) # {}

Like(a, p) == [account |-> a, author |-> posts[p].author, post |-> p]

InsertLike(t) ==
    /\ pc[t] = "insertLike"
    /\ likes' = likes (+) SetToBag({Like(acct[t], row[t])})
    /\ Go(t, "reply")
    /\ UNCHANGED <<accounts, sessions, connections, posts, draws, browsers,
                   req, acct, row, page, answer>>

OneOf(a, p) == likes (-) SetToBag({Like(a, p)})   \* mutant: DELETE ... LIMIT 1

Without(a, p) == [r \in (DOMAIN likes) \ Likes(a, p) |-> likes[r]]

DeleteLike(t) ==
    /\ pc[t] = "deleteLike"
    /\ likes' = Without(acct[t], row[t])
    /\ Go(t, "reply")
    /\ UNCHANGED <<accounts, sessions, connections, posts, draws, browsers,
                   req, acct, row, page, answer>>

-----------------------------------------------------------------------------
\* connect and profile: accountGetById.  One's own profile is the dashboard.
FindUnchecked(t) ==   \* mutant: the id of the query string is taken for granted
    /\ pc[t] = "findAccount"
    /\ Found(t, req[t].id)
    /\ Go(t, CASE req[t].op = "connect" -> "insertConnection"
               [] req[t].id = acct[t] -> "reply"
               [] OTHER -> "readPosts")
    /\ UNCHANGED <<database, draws, browsers, req, acct, page, answer>>

FindAccount(t) ==
    /\ pc[t] = "findAccount"
    /\ IF Exists(accounts, req[t].id)
       THEN /\ Found(t, req[t].id)
            /\ Go(t, CASE req[t].op = "connect" -> "insertConnection"
                       [] req[t].id = acct[t] -> "reply"
                       [] OTHER -> "readPosts")
       ELSE Go(t, "reply") /\ UNCHANGED row
    /\ UNCHANGED <<database, draws, browsers, req, acct, page, answer>>

NewConnection(a, b) == connections' = Append(connections, <<a, b>>)

InsertConnection(t) ==
    /\ pc[t] = "insertConnection"
    /\ NewConnection(acct[t], row[t])
    /\ Go(t, "reply")
    /\ UNCHANGED <<accounts, sessions, posts, likes, draws, browsers,
                   req, acct, row, page, answer>>

\* FROM posts LEFT OUTER JOIN connections ON posts.author = account2: a post
\* with each connection to its author, or with None when there is no such.
InnerJoin ==   \* mutant: a post whose author nobody follows has no row
    {r \in (DOMAIN posts) \X (DOMAIN connections) :
        connections[r[2]][2] = posts[r[1]].author}

Followed(author) == {c \in DOMAIN connections : connections[c][2] = author}

Joined ==
    UNION {LET cs == Followed(posts[p].author)
           IN  {<<p, c>> : c \in IF cs = {} THEN {None} ELSE cs} : p \in DOMAIN posts}

\* WHERE account1 = a OR author = a.
GraphRows(a) ==
    {r \in Joined : (r[2] # None /\ connections[r[2]][1] = a) \/ posts[r[1]].author = a}

\* ORDER BY createdAt DESC LIMIT PageSize.  SQL leaves the order of rows with
\* one createdAt open, so there may be several sets of rows to come first, and
\* several sets of posts to be shown.
ComesFirst(first, rows) ==
    /\ Cardinality(first) =
         IF Cardinality(rows) < PageSize THEN Cardinality(rows) ELSE PageSize
    /\ \A x \in first, y \in rows \ first : posts[y[1]].createdAt <= posts[x[1]].createdAt

PagesOf(rows) ==
    {{r[1] : r \in first} : first \in {f \in SUBSET rows : ComesFirst(f, rows)}}

ReadFeed(t) ==
    /\ pc[t] = "readFeed"
    /\ \E shown \in PagesOf(GraphRows(acct[t])) : page' = [page EXCEPT ![t] = shown]
    /\ Go(t, "reply")
    /\ UNCHANGED <<database, draws, browsers, req, acct, row, answer>>

\* profile: postGetLatest, after a connection between the two was looked up.
PostsBy(author) == {p \in DOMAIN posts : posts[p].author = author}

ReadPosts(t) ==
    /\ pc[t] = "readPosts"
    /\ \E shown \in PagesOf(PostsBy(row[t]) \X {None}) : page' = [page EXCEPT ![t] = shown]
    /\ Go(t, "reply")
    /\ UNCHANGED <<database, draws, browsers, req, acct, row, answer>>

-----------------------------------------------------------------------------
\* The answer reaches the browser, and Set-Cookie takes effect: the browser
\* keeps, and parseCookies reads, the session id as far as Cookie says.
Reply(t) ==
    /\ pc[t] = "reply"
    /\ LET b == req[t].by
       IN  jar' = CASE answer[t] = "cookie" -> [jar EXCEPT ![b] = Cookie(sessions[row[t]].sid)]
                    [] req[t].op = "logout" /\ acct[t] # None -> [jar EXCEPT ![b] = NULL]
                    [] OTHER -> jar
    /\ Go(t, "idle")
    /\ Answer(t, "none")
    /\ Found(t, None)
    /\ req' = [req EXCEPT ![t] = NoRequest]
    /\ acct' = [acct EXCEPT ![t] = None]
    /\ page' = [page EXCEPT ![t] = {}]
    /\ UNCHANGED <<database, draws, asked, restarts>>

Serve(t) ==
    \/ AskWithForm(t) \/ AskById(t) \/ AskPlain(t)
    \/ Session(t) \/ NoHandler(t)
    \/ CheckEmail(t) \/ CheckUsername(t) \/ InsertAccount(t) \/ LookupEmail(t)
    \/ FindUser(t) \/ InsertSession(t)
    \/ InsertPost(t)
    \/ FindPost(t) \/ InsertLike(t) \/ DeleteLike(t)
    \/ FindAccount(t) \/ InsertConnection(t)
    \/ ReadFeed(t) \/ ReadPosts(t)
    \/ Reply(t)

Next == Kill \/ \E t \in Thread : Serve(t)

Spec == Init /\ [][Next]_vars
-----------------------------------------------------------------------------
TablesOK ==
    /\ accounts \in Seq(Form)
    /\ sessions \in Seq([account : DOMAIN accounts, sid : Sid])
    /\ connections \in Seq((DOMAIN accounts) \X (DOMAIN accounts))
    /\ posts \in Seq([author : DOMAIN accounts, createdAt : Second])
    /\ DOMAIN likes \subseteq [account : DOMAIN accounts, author : DOMAIN accounts,
                              post : DOMAIN posts]
    /\ likes \in [DOMAIN likes -> Nat \ {0}]
    /\ draws \in Nat

BrowsersOK ==
    /\ jar \in [Browser -> Sid \cup {NULL}]
    /\ asked \in 0..MaxRequests
    /\ restarts \in 0..MaxRestarts

ThreadsOK ==
    /\ pc \in [Thread -> PC]
    /\ req \in [Thread -> Request \cup {NoRequest}]
    /\ acct \in [Thread -> (DOMAIN accounts) \cup {None}]
    /\ row \in [Thread -> Nat]
    /\ page \in [Thread -> SUBSET DOMAIN posts]
    /\ answer \in [Thread -> {"none", "form", "welcome", "unexpected", "cookie"}]

\* Types.  A row refers to rows that exist: the dashboard reads the name of a
\* post's author without a test (dashboard.c:39-49).
TypeOK == TablesOK /\ BrowsersOK /\ ThreadsOK

\* No address is registered twice, though the check that precedes the INSERT
\* looks for the address as it was typed and may be overtaken by another
\* sign-up (signup.c:51, account.c:218-238, db.c:33).
EmailsUnique ==
    \A i, j \in DOMAIN accounts : accounts[i].email = accounts[j].email => i = j

\* No user name is registered twice (signup.c:63, "This username is taken.").
UsernamesUnique ==
    \A i, j \in DOMAIN accounts : accounts[i].username = accounts[j].username => i = j

\* Whoever is sent on to the login page by signup has an account with the
\* name and the password typed, and whoever is told to try again has none,
\* also when another sign-up for the same address comes in between.  The
\* second half needs an address that bsEscape leaves alone: the row of
\* another address is stored, but not found again (account.c:77-78).
SignupTellsTruth ==
    \A t \in Thread : pc[t] = "reply" =>
        LET f == req[t].form
        IN  /\ answer[t] = "welcome" =>
                 row[t] \in DOMAIN accounts /\ accounts[row[t]] = Stored(f)
            /\ answer[t] = "unexpected" /\ Escaped[f.email] = f.email => row[t] = None

\* login hands out a cookie only for name and password as typed
\* (login.c:43-53, session.c:53-86): the account it stands for, which the row
\* just inserted need not decide, has the name that was typed, and, when there
\* is only one account with this name, the password.  A cookie that does not
\* keep the whole name is left to SidsNameUsers.
CookieNeedsPassword ==
    \A t \in Thread :
        pc[t] = "reply" /\ answer[t] = "cookie" /\ Whole(req[t].form.username) =>
            LET a == AccountBySid(Cookie(sessions[row[t]].sid))
                namesakes == {i \in DOMAIN accounts :
                                 accounts[i].username = req[t].form.username}
            IN  /\ a \in namesakes
                /\ namesakes = {a} => accounts[a].password = req[t].form.password

\* The cookie of a session stands for an account of the user that logged in,
\* even though rand() repeats itself after a restart and ids are given out
\* twice (bs.c:70-94, session.c:69).  If a ";" or the like in the name cuts the
\* cookie off, it stands for an account whose name is what is left, or none.
SidsNameUsers ==
    \A i \in DOMAIN sessions :
        LET a == AccountBySid(Cookie(sessions[i].sid))
            user == accounts[sessions[i].account].username
        IN  /\ a # None => accounts[a].username = Kept[user]
            /\ Whole(user) => a # None

\* Once a cookie stands for an account it does so, and for the same account,
\* until the browser gets another or is told to drop it: through every
\* restart, and when a later log-in gets the same session id (session.c:18-44,
\* 69, account.c:117-148).
CookiesWork ==
    [][\A b \in Browser :
          AccountBySid(jar[b]) # None /\ jar'[b] = jar[b]
              => AccountBySid(jar[b])' = AccountBySid(jar[b])]_vars

\* Once unlike has run, the post is not liked, however often the account had
\* liked it before: like.c inserts a row every time (like.c:26, like.h).
UnlikeUndoesAll ==
    [][\A t \in Thread : pc[t] = "deleteLike" /\ pc'[t] = "reply"
                          => ~Liked(acct[t], row[t])']_vars

\* The dashboard is right, whatever the seconds the posts were stamped with and
\* in whatever order SQL takes those of one second (dashboard.c:32,
\* post.c:118-159): it shows posts of the account and of those it has connected
\* to; none that is left out is newer than one that is shown; it is empty only
\* if there is nothing to show; and when the page has room for all rows of the
\* query, which repeats a post for each follower of its author, it shows all.
Visible(a) ==
    {p \in DOMAIN posts : posts[p].author = a
                          \/ \E c \in DOMAIN connections :
                                connections[c] = <<a, posts[p].author>>}

FeedFollowsConnections ==
    \A a \in DOMAIN accounts : \A shown \in PagesOf(GraphRows(a)) :
        /\ shown \subseteq Visible(a)
        /\ \A p \in Visible(a) \ shown, q \in shown : posts[p].createdAt <= posts[q].createdAt
        /\ Visible(a) # {} => shown # {}
        /\ Cardinality(GraphRows(a)) <= PageSize => shown = Visible(a)
=============================================================================
