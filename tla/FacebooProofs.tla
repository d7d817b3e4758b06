--------------------------- MODULE FacebooProofs ---------------------------
(***************************************************************************)
(* Theorems about Facebooc, for any browsers, threads, names, addresses,   *)
(* passwords, routes, page size, database file and number of restarts.     *)
(*                                                                         *)
(* They all rest on one inductive invariant, IInv.  None of the properties *)
(* is inductive alone: what an answer means depends on the row the thread  *)
(* remembers from statements back, what a cookie means on the session row  *)
(* that it was made from, and both on rows never going away.  IInv says,   *)
(* for each statement a thread is about to run, what its row and its       *)
(* account stand for (RowOK, RequestOK), what an answer means (AnswerOK),  *)
(* and what holds of the file and the cookies (FileOK).                    *)
(*                                                                         *)
(* A step of one thread changes its own variables and one table, which     *)
(* only grows, except for likes, which nothing refers to.  OthersKept      *)
(* says that this disturbs no other thread.                                *)
(***************************************************************************)
EXTENDS Facebooc, SequenceTheorems, FiniteSetTheorems, WellFoundedInduction, TLAPS

-----------------------------------------------------------------------------
(* The inductive invariant.                                                *)

\* A session id ends in the name of the user it was made for.
SidOK ==
    \A i \in DOMAIN sessions :
        sessions[i].sid[2] = accounts[sessions[i].account].username

\* A cookie is what is kept of the id of a session, though not always of the
\* browser's own.
JarOK ==
    \A b \in Browser : jar[b] # NULL =>
        \E i \in DOMAIN sessions : Cookie(sessions[i].sid) = jar[b]

\* What the row that a thread remembers stands for, statement by statement.
RowOK(t) ==
    /\ pc[t] \in {"idle", "session", "checkEmail", "checkUsername", "insertAccount"}
         => row[t] = None
    /\ pc[t] = "lookupEmail" =>
         row[t] \in DOMAIN accounts /\ accounts[row[t]] = Stored(req[t].form)
    /\ pc[t] = "insertSession" =>
         /\ row[t] \in DOMAIN accounts
         /\ accounts[row[t]].username = req[t].form.username
         /\ accounts[row[t]].password = req[t].form.password
    /\ pc[t] \in {"insertLike", "deleteLike"} => row[t] \in DOMAIN posts
    /\ pc[t] = "insertConnection" => row[t] \in DOMAIN accounts

\* Only a request with a session reaches the statements that use its account,
\* and only one with a form those that use its form.
RequestOK(t) ==
    /\ pc[t] \in {"insertPost", "findPost", "insertLike", "deleteLike",
                  "findAccount", "insertConnection", "readFeed"} => acct[t] # None
    /\ pc[t] = "session" /\ req[t].op \in {"signup", "login"} => req[t].form \in Form
    /\ pc[t] \in {"checkEmail", "checkUsername", "insertAccount", "lookupEmail",
                  "findUser", "insertSession"} => req[t].form \in Form
    /\ pc[t] # "reply" => answer[t] \in {"none", "form"}

\* What an answer about to be sent means.
AnswerOK(t) ==
    pc[t] = "reply" =>
        /\ answer[t] = "welcome" =>
             row[t] \in DOMAIN accounts /\ accounts[row[t]] = Stored(req[t].form)
        /\ answer[t] = "unexpected" /\ Escaped[req[t].form.email] = req[t].form.email
             => row[t] = None
        /\ answer[t] = "cookie" =>
             /\ row[t] \in DOMAIN sessions
             /\ accounts[sessions[row[t]].account].username = req[t].form.username
             /\ accounts[sessions[row[t]].account].password = req[t].form.password

ThreadOK(t) == RowOK(t) /\ RequestOK(t) /\ AnswerOK(t)

FileOK == EmailsUnique /\ SidOK /\ JarOK

IInv == TypeOK /\ FileOK /\ \A t \in Thread : ThreadOK(t)

-----------------------------------------------------------------------------
\* An INSERT: a new row with a new id that is not None, behind the old rows.
LEMMA AppendRow ==
    ASSUME NEW S, NEW q \in Seq(S), NEW e
    PROVE  /\ DOMAIN Append(q, e) = DOMAIN q \cup {Len(q) + 1}
           /\ Append(q, e)[Len(q) + 1] = e
           /\ \A i \in DOMAIN q : Append(q, e)[i] = q[i]
           /\ DOMAIN q \subseteq Nat \ {None}
           /\ Len(q) + 1 \in Nat \ {None}
           /\ Len(q) + 1 \notin DOMAIN q
<1>1. q \in Seq(S \cup {e})
  BY SeqMonotonic, S \subseteq S \cup {e}
<1>2. /\ Len(Append(q, e)) = Len(q) + 1
      /\ Append(q, e) \in Seq(S \cup {e})
      /\ \A i \in 1..Len(q) : Append(q, e)[i] = q[i]
      /\ Append(q, e)[Len(q) + 1] = e
  BY <1>1, AppendProperties
<1>3. /\ DOMAIN q = 1..Len(q)
      /\ DOMAIN Append(q, e) = 1..(Len(q) + 1)
      /\ Len(q) \in Nat
  BY <1>2, LenProperties
<1> QED BY <1>2, <1>3 DEF None

\* An INSERT into a table keeps its type, also when that has grown.
LEMMA AppendTyped ==
    ASSUME NEW S, NEW T, S \subseteq T, NEW q \in Seq(S), NEW e \in T
    PROVE  Append(q, e) \in Seq(T)
<1>1. q \in Seq(T)
  BY SeqMonotonic
<1> QED BY <1>1, AppendProperties

\* A row of a table has the type of its rows.
LEMMA RowTyped ==
    ASSUME NEW S, NEW q \in Seq(S), NEW i \in DOMAIN q
    PROVE  q[i] \in S
BY ElementOfSeq, LenProperties

\* A set of row ids has a least one.
LEMMA LeastExists ==
    ASSUME NEW rows, rows \subseteq Nat, rows # {}
    PROVE  \E x \in rows : \A y \in rows : x =< y
<1> DEFINE Less == {p \in Nat \X Nat : p[1] < p[2]}
<1>1. IsWellFoundedOn(Less, Nat)
  BY NatLessThanWellFounded, Zenon DEF OpToRel
<1> HIDE DEF Less
<1>2. PICK x \in rows : \A y \in rows : <<y, x>> \notin Less
  BY <1>1, WFMin
<1>3. \A y \in rows : x =< y
  <2> TAKE y \in rows
  <2>1. x \in Nat /\ y \in Nat
    OBVIOUS
  <2>2. ~(y < x)
    BY <1>2, <2>1 DEF Less
  <2> QED BY <2>1, <2>2
<1> QED BY <1>3

\* A SELECT finds a row exactly if there is one.
LEMMA FirstExists ==
    ASSUME NEW rows, rows \subseteq Nat \ {None}
    PROVE  /\ First(rows) = None <=> rows = {}
           /\ rows # {} => First(rows) \in rows
<1>1. CASE rows = {}
  BY <1>1 DEF First
<1>2. CASE rows # {}
  <2>1. rows \subseteq Nat
    OBVIOUS
  <2>2. Min(rows) \in rows
    BY <1>2, <2>1, LeastExists DEF Min
  <2> QED BY <1>2, <2>2 DEF First, None
<1> QED BY <1>1, <1>2

-----------------------------------------------------------------------------
(* A step of one thread and the other threads.                             *)

Grows ==
    /\ DOMAIN accounts \subseteq DOMAIN accounts'
    /\ \A i \in DOMAIN accounts : accounts'[i] = accounts[i]
    /\ DOMAIN sessions \subseteq DOMAIN sessions'
    /\ \A i \in DOMAIN sessions : sessions'[i] = sessions[i]
    /\ DOMAIN posts \subseteq DOMAIN posts'

Keeps(t) ==
    \A u \in Thread \ {t} :
        /\ pc'[u] = pc[u] /\ req'[u] = req[u] /\ acct'[u] = acct[u]
        /\ row'[u] = row[u] /\ answer'[u] = answer[u]

\* A thread's step leaves what holds of the other threads as it was.
LEMMA OthersKept ==
    ASSUME IInv, Grows, NEW t, Keeps(t)
    PROVE  \A u \in Thread \ {t} : ThreadOK(u)'
<1> TAKE u \in Thread \ {t}
<1>1. /\ pc'[u] = pc[u] /\ req'[u] = req[u] /\ acct'[u] = acct[u]
      /\ row'[u] = row[u] /\ answer'[u] = answer[u]
  BY DEF Keeps
<1>2. ThreadOK(u)
  BY DEF IInv
<1>3. RowOK(u)'
  BY <1>1, <1>2 DEF ThreadOK, RowOK, Grows, Stored
<1>4. RequestOK(u)'
  BY <1>1, <1>2 DEF ThreadOK, RequestOK
<1>5. AnswerOK(u)'
  <2>1. \A i \in DOMAIN sessions : sessions[i].account \in DOMAIN accounts
    <3> TAKE i \in DOMAIN sessions
    <3>1. sessions[i] \in [account : DOMAIN accounts, sid : Sid]
      BY RowTyped DEF IInv, TypeOK, TablesOK
    <3> QED BY <3>1
  <2> QED BY <1>1, <1>2, <2>1 DEF ThreadOK, AnswerOK, Grows, Stored
<1> QED BY <1>3, <1>4, <1>5 DEF ThreadOK

\* A step that leaves the database alone keeps what holds of it.
LEMMA DatabaseKept ==
    ASSUME IInv, UNCHANGED <<database, draws>>
    PROVE  /\ Grows /\ TablesOK' /\ EmailsUnique' /\ SidOK'
           /\ UNCHANGED jar => JarOK'
<1> USE DEF database
<1>1. Grows
  BY DEF Grows
<1>2. TablesOK'
  BY DEF IInv, TypeOK, TablesOK
<1>3. EmailsUnique' /\ SidOK'
  BY DEF IInv, FileOK, EmailsUnique, SidOK
<1>4. UNCHANGED jar => JarOK'
  BY DEF IInv, FileOK, JarOK
<1> QED BY <1>1, <1>2, <1>3, <1>4

\* Most steps read the database and touch nothing but their own thread.
LEMMA QuietStep ==
    ASSUME IInv, NEW t \in Thread, UNCHANGED <<database, draws, jar, restarts>>,
           asked' \in 0..MaxRequests, Keeps(t), ThreadsOK', ThreadOK(t)'
    PROVE  IInv'
<1>1. /\ Grows /\ TablesOK' /\ EmailsUnique' /\ SidOK' /\ JarOK'
  BY DatabaseKept
<1>2. BrowsersOK'
  BY DEF IInv, TypeOK, BrowsersOK
<1>3. \A u \in Thread : ThreadOK(u)'
  BY <1>1, OthersKept
<1> QED BY <1>1, <1>2, <1>3 DEF IInv, TypeOK, FileOK

-----------------------------------------------------------------------------
(* The lookups.                                                            *)

\* Any WHERE clause over the ids of a table.
LEMMA FirstRow ==
    ASSUME NEW S, NEW q \in Seq(S), NEW rows, rows \subseteq DOMAIN q
    PROVE  /\ First(rows) = None <=> rows = {}
           /\ rows # {} => First(rows) \in rows
<1>1. rows \subseteq Nat \ {None}
  BY LenProperties DEF None
<1> QED BY <1>1, FirstExists

\* The session lookup (session.c:18-44, account.c:117-148) finds a session
\* with the id given, if there is one, and an account that exists.
LEMMA SidLookup ==
    ASSUME IInv, NEW sid
    PROVE  /\ SessionBySid(sid) = None <=> \A i \in DOMAIN sessions : sessions[i].sid # sid
           /\ SessionBySid(sid) # None => /\ SessionBySid(sid) \in DOMAIN sessions
                                          /\ sessions[SessionBySid(sid)].sid = sid
           /\ AccountBySid(sid) \in (DOMAIN accounts) \cup {None}
<1> DEFINE rows == {i \in DOMAIN sessions : sessions[i].sid = sid}
<1>1. /\ First(rows) = None <=> rows = {}
      /\ rows # {} => First(rows) \in rows
  BY FirstRow DEF IInv, TypeOK, TablesOK
<1>2. SessionBySid(sid) = First(rows)
  BY DEF SessionBySid
<1>3. /\ SessionBySid(sid) = None <=> \A i \in DOMAIN sessions : sessions[i].sid # sid
      /\ SessionBySid(sid) # None => /\ SessionBySid(sid) \in DOMAIN sessions
                                     /\ sessions[SessionBySid(sid)].sid = sid
  BY <1>1, <1>2
<1>4. ASSUME SessionBySid(sid) # None
      PROVE  sessions[SessionBySid(sid)].account \in DOMAIN accounts
  <2>1. sessions[SessionBySid(sid)] \in [account : DOMAIN accounts, sid : Sid]
    BY <1>3, <1>4, RowTyped DEF IInv, TypeOK, TablesOK
  <2> QED BY <2>1
<1> QED BY <1>3, <1>4 DEF AccountBySid

\* The lookup by address (account.c:87-115) finds nothing exactly if no
\* account has this address.
LEMMA EmailLookup ==
    ASSUME IInv, NEW email
    PROVE  ByEmail(email) = None <=> \A i \in DOMAIN accounts : accounts[i].email # email
<1> DEFINE rows == {i \in DOMAIN accounts : accounts[i].email = email}
<1>1. First(rows) = None <=> rows = {}
  BY FirstRow DEF IInv, TypeOK, TablesOK
<1> QED BY <1>1 DEF ByEmail

\* The account that login finds has the name and the password given.
LEMMA UserLookup ==
    ASSUME IInv, NEW f, UserWith(f) # None
    PROVE  /\ UserWith(f) \in DOMAIN accounts
           /\ accounts[UserWith(f)].username = f.username
           /\ accounts[UserWith(f)].password = f.password
<1> DEFINE rows == {i \in DOMAIN accounts : /\ accounts[i].username = f.username
                                            /\ accounts[i].password = f.password}
<1>1. /\ First(rows) = None <=> rows = {}
      /\ rows # {} => First(rows) \in rows
  BY FirstRow DEF IInv, TypeOK, TablesOK
<1> QED BY <1>1 DEF UserWith

\* A page shows posts that exist.
LEMMA PageTyped ==
    ASSUME NEW rows, \A r \in rows : r[1] \in DOMAIN posts
    PROVE  \A shown \in PagesOf(rows) : shown \subseteq DOMAIN posts
BY DEF PagesOf

\* A session id comes back as one, and as itself if it keeps the name.
LEMMA CookieTyped ==
    ASSUME NEW sid \in Sid
    PROVE  Cookie(sid) \in Sid /\ (Whole(sid[2]) => Cookie(sid) = sid)
BY KeptAssumption DEF Sid, Cookie, Whole

-----------------------------------------------------------------------------
(* The steps that only read.                                               *)

\* A request taken up: the cookie in it is one that the browser holds.
LEMMA AskStep ==
    ASSUME IInv, NEW t \in Thread, NEW b \in Browser, NEW op \in Operation,
           NEW form \in Form \cup {NULL}, NEW id \in Nat, Ask(b, t, op, form, id),
           op \in {"signup", "login"} => form \in Form
    PROVE  IInv'
<1> USE DEF Ask, Go
<1>1. Keeps(t)
  BY DEF IInv, TypeOK, ThreadsOK, Keeps
<1>2. asked' \in 0..MaxRequests
  BY RequestsAssumption DEF IInv, TypeOK, BrowsersOK
<1>3. ThreadsOK'
  <2>1. jar[b] \in Sid \cup {NULL}
    BY DEF IInv, TypeOK, BrowsersOK
  <2>2. [op |-> op, by |-> b, sid |-> jar[b], form |-> form, id |-> id] \in Request
    BY <2>1 DEF Request
  <2>3. UNCHANGED <<accounts, posts>>
    BY DEF database
  <2> QED BY <2>2, <2>3 DEF IInv, TypeOK, ThreadsOK, PC
<1>4. ThreadOK(t)'
  <2>1. /\ pc'[t] = "session" /\ req'[t].op = op /\ req'[t].form = form
        /\ row'[t] = row[t] /\ answer'[t] = answer[t]
    BY DEF IInv, TypeOK, ThreadsOK
  <2>2. pc[t] = "idle" /\ row[t] = None /\ answer[t] \in {"none", "form"}
    BY DEF Idle, IInv, ThreadOK, RowOK, RequestOK
  <2> QED BY <2>1, <2>2 DEF ThreadOK, RowOK, RequestOK, AnswerOK
<1> QED BY <1>1, <1>2, <1>3, <1>4, QuietStep

\* The session lookup: plugins that need an account go on only with one.
LEMMA SessionStep ==
    ASSUME IInv, NEW t \in Thread, Session(t)
    PROVE  IInv'
<1> USE DEF Session, Go
<1> DEFINE a == AccountBySid(req[t].sid)
<1>0. a \in (DOMAIN accounts) \cup {None}
  BY SidLookup
<1>1. /\ acct' = [acct EXCEPT ![t] = a]
      /\ pc' = [pc EXCEPT ![t] = Entry(req[t].op, a)]
      /\ UNCHANGED <<database, draws, browsers, req, row, page, answer>>
      /\ pc[t] = "session"
  OBVIOUS
<1>2. Entry(req[t].op, a) \in {"reply", "checkEmail", "findUser", "insertPost", "findPost",
                               "findAccount", "readFeed"}
  BY DEF Entry
<1>3. /\ Entry(req[t].op, a) \in {"checkEmail", "findUser"} => req[t].op \in {"signup", "login"}
      /\ Entry(req[t].op, a) \in {"insertPost", "findPost", "findAccount", "readFeed"}
           => a # None
  BY DEF Entry
<1> HIDE DEF a, Session
<1>4. Keeps(t)
  BY <1>1 DEF IInv, TypeOK, ThreadsOK, Keeps
<1>5. ThreadsOK'
  BY <1>0, <1>1, <1>2 DEF IInv, TypeOK, ThreadsOK, PC, database
<1>6. ThreadOK(t)'
  <2>1. /\ pc'[t] = Entry(req[t].op, a) /\ acct'[t] = a /\ req'[t] = req[t]
        /\ row'[t] = row[t] /\ answer'[t] = answer[t]
    BY <1>1 DEF IInv, TypeOK, ThreadsOK
  <2>2. /\ row[t] = None /\ answer[t] \in {"none", "form"}
        /\ req[t].op \in {"signup", "login"} => req[t].form \in Form
    BY <1>1 DEF IInv, ThreadOK, RowOK, RequestOK
  <2>3. RowOK(t)'
    BY <1>2, <2>1, <2>2 DEF RowOK
  <2>4. RequestOK(t)'
    BY <1>2, <1>3, <2>1, <2>2 DEF RequestOK
  <2>5. AnswerOK(t)'
    BY <2>1, <2>2 DEF AnswerOK
  <2> QED BY <2>3, <2>4, <2>5 DEF ThreadOK
<1> QED BY <1>1, <1>4, <1>5, <1>6, QuietStep DEF browsers, IInv, TypeOK, BrowsersOK

\* The first check of signup finds no row to remember.
LEMMA CheckEmailStep ==
    ASSUME IInv, NEW t \in Thread, CheckEmail(t)
    PROVE  IInv'
<1> USE DEF CheckEmail, Go, Answer
<1>1. Keeps(t)
  BY DEF IInv, TypeOK, ThreadsOK, Keeps
<1>2. ThreadsOK'
  BY DEF IInv, TypeOK, ThreadsOK, PC, database
<1>3. ThreadOK(t)'
  <2>1. /\ pc'[t] = "checkUsername" /\ req'[t] = req[t] /\ row'[t] = row[t]
        /\ answer'[t] \in {answer[t], "form"}
    BY DEF IInv, TypeOK, ThreadsOK
  <2>2. row[t] = None /\ answer[t] \in {"none", "form"} /\ req[t].form \in Form
    BY DEF IInv, ThreadOK, RowOK, RequestOK
  <2> QED BY <2>1, <2>2 DEF ThreadOK, RowOK, RequestOK, AnswerOK
<1> QED BY <1>1, <1>2, <1>3, QuietStep DEF browsers, IInv, TypeOK, BrowsersOK

\* The second check of signup, which lets only valid forms pass.
LEMMA CheckUsernameStep ==
    ASSUME IInv, NEW t \in Thread, CheckUsername(t)
    PROVE  IInv'
<1> USE DEF CheckUsername, Go, Answer
<1>1. Keeps(t)
  BY DEF IInv, TypeOK, ThreadsOK, Keeps
<1>2. ThreadsOK'
  BY DEF IInv, TypeOK, ThreadsOK, PC, database
<1>3. ThreadOK(t)'
  <2>1. /\ \/ pc'[t] = "insertAccount" /\ answer'[t] = answer[t]
           \/ pc'[t] = "reply" /\ answer'[t] = "form"
        /\ req'[t] = req[t] /\ row'[t] = row[t]
    BY DEF IInv, TypeOK, ThreadsOK
  <2>2. row[t] = None /\ answer[t] \in {"none", "form"} /\ req[t].form \in Form
    BY DEF IInv, ThreadOK, RowOK, RequestOK
  <2> QED BY <2>1, <2>2 DEF ThreadOK, RowOK, RequestOK, AnswerOK
<1> QED BY <1>1, <1>2, <1>3, QuietStep DEF browsers, IInv, TypeOK, BrowsersOK

\* Where the address is not changed by the escaping, the row just inserted is
\* found again.
LEMMA LookupEmailStep ==
    ASSUME IInv, NEW t \in Thread, LookupEmail(t)
    PROVE  IInv'
<1> USE DEF LookupEmail, Go, Answer
<1> DEFINE f == req[t].form
<1>1. Keeps(t)
  BY DEF IInv, TypeOK, ThreadsOK, Keeps
<1>2. ThreadsOK'
  BY DEF IInv, TypeOK, ThreadsOK, PC, database
<1>3. row[t] \in DOMAIN accounts /\ accounts[row[t]] = Stored(f)
  BY DEF IInv, ThreadOK, RowOK
<1>4. Escaped[f.email] = f.email => ByEmail(f.email) # None
  BY <1>3, EmailLookup DEF Stored
<1>5. ThreadOK(t)'
  <2>1. /\ pc'[t] = "reply" /\ req'[t] = req[t] /\ row'[t] = row[t]
        /\ accounts' = accounts
        /\ answer'[t] = IF ByEmail(f.email) = None THEN "unexpected" ELSE "welcome"
    BY DEF IInv, TypeOK, ThreadsOK, database
  <2> QED BY <1>3, <1>4, <2>1 DEF ThreadOK, RowOK, RequestOK, AnswerOK, Stored
<1> QED BY <1>1, <1>2, <1>5, QuietStep DEF browsers, IInv, TypeOK, BrowsersOK

\* login remembers the account that has the name and the password.
LEMMA FindUserStep ==
    ASSUME IInv, NEW t \in Thread, FindUser(t)
    PROVE  IInv'
<1> DEFINE f == req[t].form
<1> USE DEF FindUser, Go, Answer, Found
<1>0. UserWith(f) # None => UserWith(f) \in Nat
  BY UserLookup, LenProperties DEF IInv, TypeOK, TablesOK
<1>1. Keeps(t)
  BY DEF IInv, TypeOK, ThreadsOK, Keeps
<1>2. ThreadsOK'
  BY <1>0 DEF IInv, TypeOK, ThreadsOK, PC, database
<1>3. ThreadOK(t)'
  <2>1. /\ req'[t] = req[t] /\ accounts' = accounts
        /\ \/ pc'[t] = "reply" /\ answer'[t] = "form" /\ UserWith(f) = None
           \/ /\ pc'[t] = "insertSession" /\ answer'[t] = answer[t]
              /\ UserWith(f) # None /\ row'[t] = UserWith(f)
    BY DEF IInv, TypeOK, ThreadsOK, database
  <2>2. answer[t] \in {"none", "form"} /\ f \in Form
    BY DEF IInv, ThreadOK, RequestOK
  <2>3. UserWith(f) # None => /\ UserWith(f) \in DOMAIN accounts
                              /\ accounts[UserWith(f)].username = f.username
                              /\ accounts[UserWith(f)].password = f.password
    BY UserLookup
  <2> QED BY <2>1, <2>2, <2>3 DEF ThreadOK, RowOK, RequestOK, AnswerOK
<1> QED BY <1>1, <1>2, <1>3, QuietStep DEF browsers, IInv, TypeOK, BrowsersOK

\* like and unlike remember a post that exists.
LEMMA FindPostStep ==
    ASSUME IInv, NEW t \in Thread, FindPost(t)
    PROVE  IInv'
<1> USE DEF FindPost, Go, Found, Exists
<1>0. DOMAIN posts \subseteq Nat
  BY LenProperties DEF IInv, TypeOK, TablesOK
<1>1. Keeps(t)
  BY DEF IInv, TypeOK, ThreadsOK, Keeps
<1>2. ThreadsOK'
  BY <1>0 DEF IInv, TypeOK, ThreadsOK, PC, database
<1>3. ThreadOK(t)'
  <2>1. /\ req'[t] = req[t] /\ posts' = posts /\ acct'[t] = acct[t] /\ answer'[t] = answer[t]
        /\ \/ pc'[t] = "reply"
           \/ pc'[t] \in {"insertLike", "deleteLike"} /\ row'[t] \in DOMAIN posts
    BY DEF IInv, TypeOK, ThreadsOK, database
  <2>2. answer[t] \in {"none", "form"} /\ acct[t] # None
    BY DEF IInv, ThreadOK, RequestOK
  <2> QED BY <2>1, <2>2 DEF ThreadOK, RowOK, RequestOK, AnswerOK
<1> QED BY <1>1, <1>2, <1>3, QuietStep DEF browsers, IInv, TypeOK, BrowsersOK

\* connect and profile remember an account that exists.
LEMMA FindAccountStep ==
    ASSUME IInv, NEW t \in Thread, FindAccount(t)
    PROVE  IInv'
<1> USE DEF FindAccount, Go, Found, Exists
<1>0. DOMAIN accounts \subseteq Nat
  BY LenProperties DEF IInv, TypeOK, TablesOK
<1>1. Keeps(t)
  BY DEF IInv, TypeOK, ThreadsOK, Keeps
<1>2. ThreadsOK'
  BY <1>0 DEF IInv, TypeOK, ThreadsOK, PC, database
<1>3. ThreadOK(t)'
  <2>1. /\ req'[t] = req[t] /\ accounts' = accounts /\ acct'[t] = acct[t]
        /\ answer'[t] = answer[t]
        /\ \/ pc'[t] \in {"reply", "readPosts"}
           \/ pc'[t] = "insertConnection" /\ row'[t] \in DOMAIN accounts
    BY DEF IInv, TypeOK, ThreadsOK, database
  <2>2. answer[t] \in {"none", "form"} /\ acct[t] # None
    BY DEF IInv, ThreadOK, RequestOK
  <2> QED BY <2>1, <2>2 DEF ThreadOK, RowOK, RequestOK, AnswerOK
<1> QED BY <1>1, <1>2, <1>3, QuietStep DEF browsers, IInv, TypeOK, BrowsersOK

\* The two statements that fill a page with posts.
LEMMA ReadStep ==
    ASSUME IInv, NEW t \in Thread, ReadFeed(t) \/ ReadPosts(t)
    PROVE  IInv'
<1>1. \A shown \in PagesOf(GraphRows(acct[t])) : shown \subseteq DOMAIN posts
  BY PageTyped DEF GraphRows, Joined
<1>2. \A shown \in PagesOf(PostsBy(row[t]) \X {None}) : shown \subseteq DOMAIN posts
  BY PageTyped DEF PostsBy
<1>3. /\ pc[t] \in {"readFeed", "readPosts"}
      /\ pc' = [pc EXCEPT ![t] = "reply"]
      /\ \E shown \in SUBSET DOMAIN posts : page' = [page EXCEPT ![t] = shown]
      /\ UNCHANGED <<database, draws, browsers, req, acct, row, answer>>
  BY <1>1, <1>2 DEF ReadFeed, ReadPosts, Go
<1>4. Keeps(t)
  BY <1>3 DEF IInv, TypeOK, ThreadsOK, Keeps
<1>5. ThreadsOK'
  BY <1>3 DEF IInv, TypeOK, ThreadsOK, PC, database
<1>6. ThreadOK(t)'
  <2>1. pc'[t] = "reply" /\ answer'[t] = answer[t]
    BY <1>3 DEF IInv, TypeOK, ThreadsOK
  <2>2. answer[t] \in {"none", "form"}
    BY <1>3 DEF IInv, ThreadOK, RequestOK
  <2> QED BY <2>1, <2>2 DEF ThreadOK, RowOK, RequestOK, AnswerOK
<1> QED BY <1>3, <1>4, <1>5, <1>6, QuietStep DEF browsers, IInv, TypeOK, BrowsersOK

-----------------------------------------------------------------------------
(* The steps that write.                                                   *)

\* A step that writes to a table and leaves the browsers alone.
LEMMA WriteStep ==
    ASSUME IInv, NEW t \in Thread, Grows, Keeps(t), UNCHANGED browsers,
           TablesOK', ThreadsOK', EmailsUnique', SidOK', ThreadOK(t)'
    PROVE  IInv'
<1>1. JarOK'
  BY DEF IInv, FileOK, JarOK, Grows, browsers
<1>2. BrowsersOK'
  BY DEF IInv, TypeOK, BrowsersOK, browsers
<1>3. \A u \in Thread : ThreadOK(u)'
  BY OthersKept
<1> QED BY <1>1, <1>2, <1>3 DEF IInv, TypeOK, FileOK

\* A new account has an address that no other has.
LEMMA InsertAccountStep ==
    ASSUME IInv, NEW t \in Thread, InsertAccount(t)
    PROVE  IInv'
<1> DEFINE f == req[t].form
           new == Len(accounts) + 1
<1>1. /\ pc[t] = "insertAccount" /\ row[t] = None /\ f \in Form
      /\ answer[t] \in {"none", "form"}
  BY DEF InsertAccount, IInv, ThreadOK, RowOK, RequestOK
<1>2. Keeps(t)
  BY DEF InsertAccount, Go, Answer, Found, IInv, TypeOK, ThreadsOK, Keeps
<1>3. CASE EmailStored(f)
  <2>1. /\ pc' = [pc EXCEPT ![t] = "reply"] /\ answer' = [answer EXCEPT ![t] = "unexpected"]
        /\ UNCHANGED <<database, draws, browsers, req, acct, row, page>>
    BY <1>3 DEF InsertAccount, Go, Answer, database
  <2>2. ThreadsOK'
    BY <2>1 DEF IInv, TypeOK, ThreadsOK, PC, database
  <2>3. ThreadOK(t)'
    <3>1. pc'[t] = "reply" /\ answer'[t] = "unexpected" /\ row'[t] = None
      BY <1>1, <2>1 DEF IInv, TypeOK, ThreadsOK
    <3> QED BY <3>1 DEF ThreadOK, RowOK, RequestOK, AnswerOK
  <2> QED BY <1>2, <2>1, <2>2, <2>3, QuietStep DEF browsers, IInv, TypeOK, BrowsersOK
<1>4. CASE ~EmailStored(f)
  <2>1. /\ accounts' = Append(accounts, Stored(f))
        /\ row' = [row EXCEPT ![t] = new] /\ pc' = [pc EXCEPT ![t] = "lookupEmail"]
        /\ UNCHANGED <<sessions, connections, posts, likes, draws, browsers, req, acct,
                       page, answer>>
    BY <1>4 DEF InsertAccount, Go, Found
  <2>2. /\ DOMAIN accounts' = DOMAIN accounts \cup {new}
        /\ accounts'[new] = Stored(f)
        /\ \A i \in DOMAIN accounts : accounts'[i] = accounts[i]
        /\ new \in Nat /\ new \notin DOMAIN accounts
    BY <2>1, AppendRow DEF IInv, TypeOK, TablesOK
  <2> HIDE DEF new
  <2>3. Stored(f) \in Form
    BY <1>1, EscapedAssumption DEF Form, Stored
  <2>4. Grows
    BY <2>1, <2>2 DEF Grows
  <2>5. TablesOK'
    <3>1. accounts' \in Seq(Form)
      BY <2>1, <2>3, AppendTyped DEF IInv, TypeOK, TablesOK
    <3>2. sessions' \in Seq([account : DOMAIN accounts', sid : Sid])
      <4>1. [account : DOMAIN accounts, sid : Sid] \subseteq [account : DOMAIN accounts', sid : Sid]
        BY <2>2
      <4>2. sessions \in Seq([account : DOMAIN accounts, sid : Sid])
        BY DEF IInv, TypeOK, TablesOK
      <4>3. sessions \in Seq([account : DOMAIN accounts', sid : Sid])
        BY <4>1, <4>2, SeqMonotonic
      <4> QED BY <2>1, <4>3
    <3>3. connections' \in Seq((DOMAIN accounts') \X (DOMAIN accounts'))
      <4>1. (DOMAIN accounts) \X (DOMAIN accounts) \subseteq (DOMAIN accounts') \X (DOMAIN accounts')
        BY <2>2
      <4> QED BY <2>1, <4>1, SeqMonotonic DEF IInv, TypeOK, TablesOK
    <3>4. posts' \in Seq([author : DOMAIN accounts', createdAt : Second])
      <4>1. [author : DOMAIN accounts, createdAt : Second]
              \subseteq [author : DOMAIN accounts', createdAt : Second]
        BY <2>2
      <4>2. posts \in Seq([author : DOMAIN accounts, createdAt : Second])
        BY DEF IInv, TypeOK, TablesOK
      <4>3. posts \in Seq([author : DOMAIN accounts', createdAt : Second])
        BY <4>1, <4>2, SeqMonotonic
      <4> QED BY <2>1, <4>3
    <3>5. DOMAIN likes' \subseteq [account : DOMAIN accounts', author : DOMAIN accounts',
                                   post : DOMAIN posts']
      <4>1. DOMAIN likes \subseteq [account : DOMAIN accounts, author : DOMAIN accounts,
                                    post : DOMAIN posts]
        BY DEF IInv, TypeOK, TablesOK
      <4> QED BY <2>1, <2>2, <4>1
    <3>6. likes' \in [DOMAIN likes' -> Nat \ {0}] /\ draws' \in Nat
      BY <2>1 DEF IInv, TypeOK, TablesOK
    <3> QED BY <3>1, <3>2, <3>3, <3>4, <3>5, <3>6 DEF TablesOK
  <2>6. ThreadsOK'
    BY <2>1, <2>2 DEF IInv, TypeOK, ThreadsOK, PC
  <2>7. EmailsUnique'
    <3>1. \A i \in DOMAIN accounts : accounts[i].email # Escaped[f.email]
      BY <1>4, EmailLookup DEF EmailStored
    <3>2. accounts'[new].email = Escaped[f.email]
      BY <2>2 DEF Stored
    <3> QED BY <2>2, <3>1, <3>2 DEF IInv, FileOK, EmailsUnique
  <2>8. SidOK'
    <3>1. \A i \in DOMAIN sessions : sessions[i].account \in DOMAIN accounts
      <4> TAKE i \in DOMAIN sessions
      <4>1. sessions[i] \in [account : DOMAIN accounts, sid : Sid]
        BY RowTyped DEF IInv, TypeOK, TablesOK
      <4> QED BY <4>1
    <3> QED BY <2>1, <2>2, <3>1 DEF IInv, FileOK, SidOK
  <2>9. ThreadOK(t)'
    <3>1. /\ pc'[t] = "lookupEmail" /\ row'[t] = new /\ req'[t] = req[t]
          /\ answer'[t] = answer[t]
      BY <2>1 DEF IInv, TypeOK, ThreadsOK
    <3> QED BY <1>1, <2>2, <3>1 DEF ThreadOK, RowOK, RequestOK, AnswerOK, Stored
  <2> QED BY <1>2, <2>1, <2>4, <2>5, <2>6, <2>7, <2>8, <2>9, WriteStep
<1> QED BY <1>3, <1>4

\* A new session belongs to the account that login found, and its id ends in
\* that account's user name.
LEMMA InsertSessionStep ==
    ASSUME IInv, NEW t \in Thread, InsertSession(t)
    PROVE  IInv'
<1> DEFINE f == req[t].form
           new == Len(sessions) + 1
           s == [account |-> row[t], sid |-> <<draws, f.username>>]
<1>1. /\ row[t] \in DOMAIN accounts /\ f \in Form
      /\ accounts[row[t]].username = f.username
      /\ accounts[row[t]].password = f.password
  BY DEF InsertSession, IInv, ThreadOK, RowOK, RequestOK
<1>2. /\ sessions' = Append(sessions, s) /\ draws' = draws + 1
      /\ row' = [row EXCEPT ![t] = new] /\ pc' = [pc EXCEPT ![t] = "reply"]
      /\ answer' = [answer EXCEPT ![t] = "cookie"]
      /\ UNCHANGED <<accounts, connections, posts, likes, browsers, req, acct, page>>
  BY DEF InsertSession, Go, Answer, Found, NewSid
<1>3. /\ DOMAIN sessions' = DOMAIN sessions \cup {new}
      /\ sessions'[new] = s
      /\ \A i \in DOMAIN sessions : sessions'[i] = sessions[i]
      /\ new \in Nat /\ new \notin DOMAIN sessions
  BY <1>2, AppendRow DEF IInv, TypeOK, TablesOK
<1> HIDE DEF new
<1>4. Keeps(t)
  BY <1>2 DEF IInv, TypeOK, ThreadsOK, Keeps
<1>5. Grows
  BY <1>2, <1>3 DEF Grows
<1>6. TablesOK'
  <2>1. s \in [account : DOMAIN accounts, sid : Sid]
    BY <1>1 DEF Form, Sid, IInv, TypeOK, TablesOK
  <2>2. sessions' \in Seq([account : DOMAIN accounts, sid : Sid])
    BY <1>2, <2>1, AppendTyped DEF IInv, TypeOK, TablesOK
  <2> QED BY <1>2, <2>2 DEF IInv, TypeOK, TablesOK
<1>7. ThreadsOK'
  BY <1>2, <1>3 DEF IInv, TypeOK, ThreadsOK, PC
<1>8. EmailsUnique'
  BY <1>2 DEF IInv, FileOK, EmailsUnique
<1>9. SidOK'
  BY <1>1, <1>2, <1>3 DEF IInv, FileOK, SidOK
<1>10. ThreadOK(t)'
  <2>1. pc'[t] = "reply" /\ answer'[t] = "cookie" /\ row'[t] = new /\ req'[t] = req[t]
    BY <1>2 DEF IInv, TypeOK, ThreadsOK
  <2>2. /\ new \in DOMAIN sessions' /\ sessions'[new].account = row[t] /\ accounts' = accounts
        /\ accounts[row[t]].username = req[t].form.username
        /\ accounts[row[t]].password = req[t].form.password
    BY <1>1, <1>2, <1>3
  <2>3. RowOK(t)' /\ RequestOK(t)'
    BY <2>1 DEF RowOK, RequestOK
  <2>4. AnswerOK(t)'
    BY <2>1, <2>2 DEF AnswerOK
  <2> QED BY <2>3, <2>4 DEF ThreadOK
<1> QED BY <1>2, <1>4, <1>5, <1>6, <1>7, <1>8, <1>9, <1>10, WriteStep

\* A new post belongs to an account that exists.
LEMMA InsertPostStep ==
    ASSUME IInv, NEW t \in Thread, InsertPost(t)
    PROVE  IInv'
<1>1. /\ pc' = [pc EXCEPT ![t] = "reply"]
      /\ \/ \E second \in Second : posts' = Append(posts, [author |-> acct[t], createdAt |-> second])
         \/ posts' = posts
      /\ UNCHANGED <<accounts, sessions, connections, likes, draws, browsers,
                     req, acct, row, page, answer>>
  BY DEF InsertPost, NewPost, Go
<1>2. pc[t] = "insertPost" /\ acct[t] \in DOMAIN accounts /\ answer[t] \in {"none", "form"}
  BY DEF InsertPost, IInv, TypeOK, ThreadsOK, ThreadOK, RequestOK
<1> DEFINE Post == [author : DOMAIN accounts, createdAt : Second]
<1>3. posts' \in Seq(Post) /\ DOMAIN posts \subseteq DOMAIN posts'
  <2>1. posts \in Seq(Post)
    BY DEF IInv, TypeOK, TablesOK
  <2>2. ASSUME NEW second \in Second,
               posts' = Append(posts, [author |-> acct[t], createdAt |-> second])
        PROVE  posts' \in Seq(Post) /\ DOMAIN posts \subseteq DOMAIN posts'
    <3>1. [author |-> acct[t], createdAt |-> second] \in Post
      BY <1>2
    <3> QED BY <2>1, <2>2, <3>1, AppendTyped, AppendRow
  <2>3. CASE posts' = posts
    BY <2>1, <2>3
  <2> QED BY <1>1, <2>2, <2>3
<1>4. Keeps(t) /\ Grows
  BY <1>1, <1>3 DEF IInv, TypeOK, ThreadsOK, Keeps, Grows
<1>5. TablesOK'
  <2>1. DOMAIN likes \subseteq [account : DOMAIN accounts, author : DOMAIN accounts,
                                post : DOMAIN posts]
    BY DEF IInv, TypeOK, TablesOK
  <2>2. DOMAIN likes \subseteq [account : DOMAIN accounts, author : DOMAIN accounts,
                                post : DOMAIN posts']
    BY <1>3, <2>1
  <2> QED BY <1>1, <1>3, <2>2 DEF IInv, TypeOK, TablesOK
<1>6. ThreadsOK'
  BY <1>1, <1>3 DEF IInv, TypeOK, ThreadsOK, PC
<1>7. EmailsUnique' /\ SidOK'
  BY <1>1 DEF IInv, FileOK, EmailsUnique, SidOK
<1>8. ThreadOK(t)'
  <2>1. pc'[t] = "reply" /\ answer'[t] = answer[t]
    BY <1>1 DEF IInv, TypeOK, ThreadsOK
  <2> QED BY <1>2, <2>1 DEF ThreadOK, RowOK, RequestOK, AnswerOK
<1> QED BY <1>1, <1>4, <1>5, <1>6, <1>7, <1>8, WriteStep

\* like and unlike change the table of likes only.
LEMMA LikesStep ==
    ASSUME IInv, NEW t \in Thread, InsertLike(t) \/ DeleteLike(t)
    PROVE  IInv'
<1> DEFINE new == Like(acct[t], row[t])
<1>1. /\ pc' = [pc EXCEPT ![t] = "reply"]
      /\ UNCHANGED <<accounts, sessions, connections, posts, draws, browsers,
                     req, acct, row, page, answer>>
  BY DEF InsertLike, DeleteLike, Go
<1>2. /\ pc[t] \in {"insertLike", "deleteLike"} /\ answer[t] \in {"none", "form"}
      /\ acct[t] \in DOMAIN accounts /\ row[t] \in DOMAIN posts
  BY DEF InsertLike, DeleteLike, IInv, TypeOK, ThreadsOK, ThreadOK, RowOK, RequestOK
<1>3. new \in [account : DOMAIN accounts, author : DOMAIN accounts, post : DOMAIN posts]
  <2>1. posts[row[t]] \in [author : DOMAIN accounts, createdAt : Second]
    BY <1>2, RowTyped DEF IInv, TypeOK, TablesOK
  <2> QED BY <1>2, <2>1 DEF Like
<1>4. /\ DOMAIN likes' \subseteq DOMAIN likes \cup {new}
      /\ likes' \in [DOMAIN likes' -> Nat \ {0}]
  <2>1. CASE likes' = likes (+) SetToBag({new})
    BY <2>1 DEF (+), SetToBag, IInv, TypeOK, TablesOK
  <2>2. CASE likes' = Without(acct[t], row[t])
    BY <2>2 DEF Without, IInv, TypeOK, TablesOK
  <2> QED BY <2>1, <2>2 DEF InsertLike, DeleteLike
<1> HIDE DEF new
<1>5. Keeps(t) /\ Grows
  BY <1>1 DEF IInv, TypeOK, ThreadsOK, Keeps, Grows
<1>6. TablesOK'
  BY <1>1, <1>3, <1>4 DEF IInv, TypeOK, TablesOK
<1>7. ThreadsOK'
  BY <1>1 DEF IInv, TypeOK, ThreadsOK, PC
<1>8. EmailsUnique' /\ SidOK'
  BY <1>1 DEF IInv, FileOK, EmailsUnique, SidOK
<1>9. ThreadOK(t)'
  <2>1. pc'[t] = "reply" /\ answer'[t] = answer[t]
    BY <1>1 DEF IInv, TypeOK, ThreadsOK
  <2> QED BY <1>2, <2>1 DEF ThreadOK, RowOK, RequestOK, AnswerOK
<1> QED BY <1>1, <1>5, <1>6, <1>7, <1>8, <1>9, WriteStep

\* A new connection is between accounts that exist.
LEMMA InsertConnectionStep ==
    ASSUME IInv, NEW t \in Thread, InsertConnection(t)
    PROVE  IInv'
<1>1. /\ pc' = [pc EXCEPT ![t] = "reply"]
      /\ connections' = Append(connections, <<acct[t], row[t]>>)
      /\ UNCHANGED <<accounts, sessions, posts, likes, draws, browsers,
                     req, acct, row, page, answer>>
  BY DEF InsertConnection, NewConnection, Go
<1>2. /\ pc[t] = "insertConnection" /\ answer[t] \in {"none", "form"}
      /\ acct[t] \in DOMAIN accounts /\ row[t] \in DOMAIN accounts
  BY DEF InsertConnection, IInv, TypeOK, ThreadsOK, ThreadOK, RowOK, RequestOK
<1>3. connections' \in Seq((DOMAIN accounts) \X (DOMAIN accounts))
  BY <1>1, <1>2, AppendTyped DEF IInv, TypeOK, TablesOK
<1>4. Keeps(t) /\ Grows
  BY <1>1 DEF IInv, TypeOK, ThreadsOK, Keeps, Grows
<1>5. TablesOK'
  BY <1>1, <1>3 DEF IInv, TypeOK, TablesOK
<1>6. ThreadsOK'
  BY <1>1 DEF IInv, TypeOK, ThreadsOK, PC
<1>7. EmailsUnique' /\ SidOK'
  BY <1>1 DEF IInv, FileOK, EmailsUnique, SidOK
<1>8. ThreadOK(t)'
  <2>1. pc'[t] = "reply" /\ answer'[t] = answer[t]
    BY <1>1 DEF IInv, TypeOK, ThreadsOK
  <2> QED BY <1>2, <2>1 DEF ThreadOK, RowOK, RequestOK, AnswerOK
<1> QED BY <1>1, <1>4, <1>5, <1>6, <1>7, <1>8, WriteStep

-----------------------------------------------------------------------------
(* The answer, and the end of the process.                                 *)

\* The browser gets what a cookie keeps of the id of a session in the file.
LEMMA ReplyStep ==
    ASSUME IInv, NEW t \in Thread, Reply(t)
    PROVE  IInv'
<1> DEFINE b == req[t].by
<1>1. /\ pc[t] = "reply"
      /\ \/ answer[t] = "cookie" /\ jar' = [jar EXCEPT ![b] = Cookie(sessions[row[t]].sid)]
         \/ jar' = [jar EXCEPT ![b] = NULL]
         \/ jar' = jar
      /\ pc' = [pc EXCEPT ![t] = "idle"] /\ answer' = [answer EXCEPT ![t] = "none"]
      /\ row' = [row EXCEPT ![t] = None] /\ req' = [req EXCEPT ![t] = NoRequest]
      /\ acct' = [acct EXCEPT ![t] = None] /\ page' = [page EXCEPT ![t] = {}]
      /\ UNCHANGED <<database, draws, asked, restarts>>
  BY DEF Reply, Go, Answer, Found
<1>2. answer[t] = "cookie" =>
        row[t] \in DOMAIN sessions /\ Cookie(sessions[row[t]].sid) \in Sid
  <2>1. answer[t] = "cookie" => row[t] \in DOMAIN sessions
    BY <1>1 DEF IInv, ThreadOK, AnswerOK
  <2>2. sessions \in Seq([account : DOMAIN accounts, sid : Sid])
    BY DEF IInv, TypeOK, TablesOK
  <2>3. ASSUME answer[t] = "cookie"
        PROVE  sessions[row[t]] \in [account : DOMAIN accounts, sid : Sid]
    BY <2>1, <2>2, <2>3, RowTyped
  <2> QED BY <2>1, <2>3, CookieTyped
<1>3. Grows /\ TablesOK' /\ EmailsUnique' /\ SidOK'
  BY <1>1, DatabaseKept
<1>4. JarOK' /\ BrowsersOK'
  <2>1. /\ jar \in [Browser -> Sid \cup {NULL}] /\ UNCHANGED sessions
        /\ asked \in 0..MaxRequests /\ restarts \in 0..MaxRestarts
    BY <1>1 DEF IInv, TypeOK, BrowsersOK, database
  <2>2. jar' \in [Browser -> Sid \cup {NULL}]
    BY <1>1, <1>2, <2>1
  <2>3. JarOK'
    BY <1>1, <1>2, <2>1 DEF IInv, FileOK, JarOK
  <2> QED BY <1>1, <2>1, <2>2, <2>3 DEF BrowsersOK
<1>5. Keeps(t)
  BY <1>1 DEF IInv, TypeOK, ThreadsOK, Keeps
<1>6. ThreadsOK'
  BY <1>1 DEF IInv, TypeOK, ThreadsOK, PC, None, database
<1>7. ThreadOK(t)'
  <2>1. pc'[t] = "idle" /\ row'[t] = None /\ answer'[t] = "none"
    BY <1>1 DEF IInv, TypeOK, ThreadsOK
  <2> QED BY <2>1 DEF ThreadOK, RowOK, RequestOK, AnswerOK
<1>8. \A u \in Thread : ThreadOK(u)'
  BY <1>3, <1>5, <1>7, OthersKept
<1> QED BY <1>3, <1>4, <1>6, <1>8 DEF IInv, TypeOK, FileOK

\* The file and the cookies survive the process; that is all they need.
LEMMA RebootStep ==
    ASSUME IInv, Reboot, restarts' \in 0..MaxRestarts
    PROVE  IInv'
<1>1. /\ UNCHANGED <<accounts, sessions, connections, posts, likes, jar, asked>>
      /\ draws' = 0
      /\ pc' = [t \in Thread |-> "idle"] /\ req' = [t \in Thread |-> NoRequest]
      /\ acct' = [t \in Thread |-> None] /\ row' = [t \in Thread |-> None]
      /\ page' = [t \in Thread |-> {}] /\ answer' = [t \in Thread |-> "none"]
  BY DEF Reboot, database
<1>2. TablesOK'
  BY <1>1 DEF IInv, TypeOK, TablesOK
<1>3. BrowsersOK'
  BY <1>1 DEF IInv, TypeOK, BrowsersOK
<1>4. ThreadsOK'
  BY <1>1 DEF ThreadsOK, PC, None
<1>5. FileOK'
  BY <1>1 DEF IInv, FileOK, EmailsUnique, SidOK, JarOK
<1>6. \A t \in Thread : ThreadOK(t)'
  BY <1>1 DEF ThreadOK, RowOK, RequestOK, AnswerOK
<1> QED BY <1>2, <1>3, <1>4, <1>5, <1>6 DEF IInv, TypeOK

-----------------------------------------------------------------------------
(* The invariant is inductive.                                             *)

\* The file and the cookies at the start satisfy the invariant.
LEMMA InitOK ==
    Init => IInv
<1> SUFFICES ASSUME Init PROVE IInv
  OBVIOUS
<1> USE DEF Init
<1>1. TablesOK
  <2>1. accounts \in Seq(Form)
    BY SeedAssumption DEF Form
  <2>2. sessions \in Seq([account : DOMAIN accounts, sid : Sid])
    BY SeedAssumption DEF Sid
  <2>3. /\ connections \in Seq((DOMAIN accounts) \X (DOMAIN accounts))
        /\ posts \in Seq([author : DOMAIN accounts, createdAt : Second])
    BY EmptySeq
  <2>4. likes \in [{} -> Nat \ {0}] /\ DOMAIN likes = {}
    BY DEF EmptyBag, SetToBag
  <2> QED BY <2>1, <2>2, <2>3, <2>4 DEF TablesOK
<1>2. BrowsersOK
  BY SeedAssumption, RequestsAssumption DEF BrowsersOK, Sid
<1>3. ThreadsOK
  BY DEF ThreadsOK, PC, None
<1>4. FileOK
  <2>1. EmailsUnique
    BY SeedAssumption DEF EmailsUnique
  <2>2. SidOK
    BY SeedAssumption DEF SidOK
  <2>3. JarOK
    BY SeedAssumption DEF JarOK
  <2> QED BY <2>1, <2>2, <2>3 DEF FileOK
<1>5. \A t \in Thread : ThreadOK(t)
  BY DEF ThreadOK, RowOK, RequestOK, AnswerOK
<1> QED BY <1>1, <1>2, <1>3, <1>4, <1>5 DEF IInv, TypeOK

\* Any request a browser can send.
LEMMA RequestStep ==
    ASSUME IInv, NEW t \in Thread, AskWithForm(t) \/ AskById(t) \/ AskPlain(t)
    PROVE  IInv'
<1>1. Ops \subseteq Operation /\ None \in Nat
  BY OpsAssumption DEF None
<1>2. CASE AskWithForm(t)
  BY <1>1, <1>2, AskStep DEF AskWithForm
<1>3. CASE AskById(t)
  <2>1. PICK b \in Browser, op \in Ops \cap {"like", "unlike", "connect", "profile"},
             id \in 1..(Len(accounts) + 1) : Ask(b, t, op, NULL, id)
    BY <1>3 DEF AskById
  <2>2. id \in Nat
    BY LenProperties DEF IInv, TypeOK, TablesOK
  <2> QED BY <1>1, <2>1, <2>2, AskStep
<1>4. CASE AskPlain(t)
  BY <1>1, <1>4, AskStep DEF AskPlain
<1> QED BY <1>2, <1>3, <1>4

\* Every step keeps the invariant.
LEMMA NextOK ==
    IInv /\ [Next]_vars => IInv'
<1> SUFFICES ASSUME IInv, [Next]_vars PROVE IInv'
  OBVIOUS
<1>1. CASE Kill
  <2>1. restarts' \in 0..MaxRestarts
    BY <1>1, RequestsAssumption DEF Kill, IInv, TypeOK, BrowsersOK
  <2> QED BY <1>1, <2>1, RebootStep DEF Kill
<1>2. ASSUME NEW t \in Thread, Serve(t) PROVE IInv'
  <2>1. CASE NoHandler(t)
    BY <2>1, RebootStep DEF NoHandler, IInv, TypeOK, BrowsersOK
  <2>2. CASE AskWithForm(t) \/ AskById(t) \/ AskPlain(t)
    BY <2>2, RequestStep
  <2>3. CASE Session(t)
    BY <2>3, SessionStep
  <2>4. CASE CheckEmail(t)
    BY <2>4, CheckEmailStep
  <2>5. CASE CheckUsername(t)
    BY <2>5, CheckUsernameStep
  <2>6. CASE InsertAccount(t)
    BY <2>6, InsertAccountStep
  <2>7. CASE LookupEmail(t)
    BY <2>7, LookupEmailStep
  <2>8. CASE FindUser(t)
    BY <2>8, FindUserStep
  <2>9. CASE InsertSession(t)
    BY <2>9, InsertSessionStep
  <2>10. CASE InsertPost(t)
    BY <2>10, InsertPostStep
  <2>11. CASE FindPost(t)
    BY <2>11, FindPostStep
  <2>12. CASE InsertLike(t) \/ DeleteLike(t)
    BY <2>12, LikesStep
  <2>13. CASE FindAccount(t)
    BY <2>13, FindAccountStep
  <2>14. CASE InsertConnection(t)
    BY <2>14, InsertConnectionStep
  <2>15. CASE ReadFeed(t) \/ ReadPosts(t)
    BY <2>15, ReadStep
  <2>16. CASE Reply(t)
    BY <2>16, ReplyStep
  <2> QED BY <1>2, <2>1, <2>2, <2>3, <2>4, <2>5, <2>6, <2>7, <2>8, <2>9, <2>10, <2>11,
             <2>12, <2>13, <2>14, <2>15, <2>16 DEF Serve
<1>3. CASE UNCHANGED vars
  <2> USE <1>3 DEF vars, database, browsers, threads
  <2>1. TypeOK'
    BY DEF IInv, TypeOK, TablesOK, BrowsersOK, ThreadsOK
  <2>2. FileOK'
    BY DEF IInv, FileOK, EmailsUnique, SidOK, JarOK
  <2>3. \A t \in Thread : ThreadOK(t)'
    BY DEF IInv, ThreadOK, RowOK, RequestOK, AnswerOK, Stored
  <2> QED BY <2>1, <2>2, <2>3 DEF IInv
<1> QED BY <1>1, <1>2, <1>3 DEF Next

\* The inductive invariant holds in every reachable state.
THEOREM Invariance ==
    Spec => []IInv
BY InitOK, NextOK, PTL DEF Spec

-----------------------------------------------------------------------------
(* What the invariant says of the site.                                    *)

\* Every row refers to rows that exist, so that what the dashboard reads
\* without a test is there (dashboard.c:39-49).
THEOREM TypeCorrect ==
    Spec => []TypeOK
<1>1. IInv => TypeOK
  BY DEF IInv
<1> QED BY <1>1, Invariance, PTL

\* However many sign-ups race past the check, the UNIQUE column lets one in
\* (signup.c:51, db.c:33).
THEOREM AddressesAreUnique ==
    Spec => []EmailsUnique
<1>1. IInv => EmailsUnique
  BY DEF IInv, FileOK
<1> QED BY <1>1, Invariance, PTL

\* What sign-up answers is true when it is sent, whatever the other threads
\* have done since its first statement (signup.c:45-90).
THEOREM SignupIsTruthful ==
    Spec => []SignupTellsTruth
<1>1. IInv => SignupTellsTruth
  BY DEF IInv, ThreadOK, AnswerOK, SignupTellsTruth
<1> QED BY <1>1, Invariance, PTL

\* The lookup by the cookie of a session that keeps the whole name finds an
\* account of that name, if perhaps by another session.
LEMMA WholeCookie ==
    ASSUME IInv, NEW i \in DOMAIN sessions
    PROVE  LET a == AccountBySid(Cookie(sessions[i].sid))
               user == accounts[sessions[i].account].username
           IN  /\ a # None => a \in DOMAIN accounts /\ accounts[a].username = Kept[user]
               /\ Whole(user) => a # None
<1> DEFINE sid == Cookie(sessions[i].sid)
           s == SessionBySid(sid)
           user == accounts[sessions[i].account].username
<1>1. sessions[i] \in [account : DOMAIN accounts, sid : Sid]
  BY RowTyped DEF IInv, TypeOK, TablesOK
<1>2. sessions[i].sid[2] = user
  BY DEF IInv, FileOK, SidOK
<1>3. /\ sid \in Sid /\ sid # NULL /\ sid[2] = Kept[user]
      /\ Whole(user) => sid = sessions[i].sid
  BY <1>1, <1>2, CookieTyped, NullAssumption DEF Sid, Cookie
<1> HIDE DEF sid
<1>4. AccountBySid(sid) = IF s = None THEN None ELSE sessions[s].account
  BY <1>3 DEF AccountBySid
<1>5. ASSUME s # None
      PROVE  /\ sessions[s].account \in DOMAIN accounts /\ sessions[s].account # None
             /\ accounts[sessions[s].account].username = Kept[user]
  <2>1. s \in DOMAIN sessions /\ sessions[s].sid = sid
    BY <1>5, SidLookup
  <2>2. sessions[s] \in [account : DOMAIN accounts, sid : Sid]
    BY <2>1, RowTyped DEF IInv, TypeOK, TablesOK
  <2>3. DOMAIN accounts \subseteq Nat \ {None}
    BY LenProperties DEF IInv, TypeOK, TablesOK, None
  <2>4. accounts[sessions[s].account].username = sessions[s].sid[2]
    BY <2>1 DEF IInv, FileOK, SidOK
  <2> QED BY <1>3, <2>1, <2>2, <2>3, <2>4
<1>6. Whole(user) => s # None
  BY <1>3, SidLookup
<1> QED BY <1>4, <1>5, <1>6 DEF sid

\* A cookie that log-in hands out stands for an account of the name typed, and
\* if no other account has this name, the password was typed too (login.c:43):
\* the session it finds may be another one, of before a restart.
THEOREM CookiesNeedThePassword ==
    Spec => []CookieNeedsPassword
<1>1. ASSUME IInv PROVE CookieNeedsPassword
  <2> SUFFICES ASSUME NEW t \in Thread, pc[t] = "reply", answer[t] = "cookie",
                      Whole(req[t].form.username)
               PROVE  LET a == AccountBySid(Cookie(sessions[row[t]].sid))
                          namesakes == {i \in DOMAIN accounts :
                                           accounts[i].username = req[t].form.username}
                      IN  /\ a \in namesakes
                          /\ namesakes = {a} => accounts[a].password = req[t].form.password
    BY DEF CookieNeedsPassword
  <2> DEFINE own == sessions[row[t]].account
             a == AccountBySid(Cookie(sessions[row[t]].sid))
  <2>1. /\ row[t] \in DOMAIN sessions
        /\ accounts[own].username = req[t].form.username
        /\ accounts[own].password = req[t].form.password
    BY <1>1 DEF IInv, ThreadOK, AnswerOK
  <2>2. own \in DOMAIN accounts
    <3>1. sessions[row[t]] \in [account : DOMAIN accounts, sid : Sid]
      BY <1>1, <2>1, RowTyped DEF IInv, TypeOK, TablesOK
    <3> QED BY <3>1
  <2>3. a \in DOMAIN accounts /\ accounts[a].username = req[t].form.username
    BY <1>1, <2>1, WholeCookie DEF Whole
  <2> HIDE DEF a
  <2> QED BY <2>1, <2>2, <2>3 DEF a
<1> QED BY <1>1, Invariance, PTL

\* Whatever ids rand() repeats after whatever restarts, a cookie acts in the
\* name of the user it was made for, as far as it keeps the name (bs.c:70-94).
THEOREM CookiesNameTheirUser ==
    Spec => []SidsNameUsers
<1>1. IInv => SidsNameUsers
  BY WholeCookie DEF SidsNameUsers
<1> QED BY <1>1, Invariance, PTL

\* A row that is put behind the others changes no SELECT that found one.
LEMMA FirstKept ==
    ASSUME NEW rows, rows \subseteq Nat \ {None}, rows # {},
           NEW new \in Nat, \A i \in rows : i < new
    PROVE  First(rows \cup {new}) = First(rows)
<1>1. PICK m \in rows : \A y \in rows : m =< y
  BY LeastExists
<1>2. m \in Nat /\ m < new
  OBVIOUS
<1>3. \A S : m \in S /\ S \subseteq Nat /\ (\A y \in S : m =< y) => Min(S) = m
  <2> SUFFICES ASSUME NEW S, m \in S, S \subseteq Nat, \A y \in S : m =< y
               PROVE  Min(S) = m
    OBVIOUS
  <2>1. \A x \in S : (\A y \in S : x =< y) => x = m
    BY <1>2
  <2> QED BY <2>1 DEF Min
<1>4. \A y \in rows \cup {new} : m =< y
  BY <1>1, <1>2
<1>5. Min(rows) = m /\ Min(rows \cup {new}) = m
  BY <1>1, <1>3, <1>4
<1> QED BY <1>5 DEF First

\* No step takes a session away, and a new one comes behind the others.
LEMMA SessionsGrow ==
    ASSUME [Next]_vars
    PROVE  sessions' = sessions \/ \E s : sessions' = Append(sessions, s)
<1>1. CASE Kill
  BY <1>1 DEF Kill, Reboot, database
<1>2. ASSUME NEW t \in Thread, Serve(t)
      PROVE  sessions' = sessions \/ \E s : sessions' = Append(sessions, s)
  BY <1>2
  DEF Serve, AskWithForm, AskById, AskPlain, Ask, Session, NoHandler, Reboot, CheckEmail,
      CheckUsername, InsertAccount, LookupEmail, FindUser, InsertSession, InsertPost,
      FindPost, InsertLike, DeleteLike, FindAccount, InsertConnection, ReadFeed,
      ReadPosts, Reply, database
<1>3. CASE UNCHANGED vars
  BY <1>3 DEF vars, database
<1> QED BY <1>1, <1>2, <1>3 DEF Next

\* A session id that stands for an account goes on standing for it.
LEMMA AccountKept ==
    ASSUME IInv, [Next]_vars, NEW sid, AccountBySid(sid) # None
    PROVE  AccountBySid(sid)' = AccountBySid(sid)
<1> DEFINE rows == {i \in DOMAIN sessions : sessions[i].sid = sid}
           s == SessionBySid(sid)
<1>1. sid # NULL /\ s # None /\ AccountBySid(sid) = sessions[s].account
  BY DEF AccountBySid
<1>2. s \in DOMAIN sessions
  BY <1>1, SidLookup
<1>3. CASE sessions' = sessions
  BY <1>3 DEF AccountBySid, SessionBySid
<1>4. ASSUME NEW e, sessions' = Append(sessions, e)
      PROVE  AccountBySid(sid)' = AccountBySid(sid)
  <2> DEFINE new == Len(sessions) + 1
  <2>1. /\ DOMAIN sessions' = DOMAIN sessions \cup {new}
        /\ sessions'[new] = e
        /\ \A i \in DOMAIN sessions : sessions'[i] = sessions[i]
        /\ DOMAIN sessions \subseteq Nat \ {None} /\ new \in Nat
    <3>1. sessions \in Seq([account : DOMAIN accounts, sid : Sid])
      BY DEF IInv, TypeOK, TablesOK
    <3>2. /\ DOMAIN Append(sessions, e) = DOMAIN sessions \cup {new}
          /\ Append(sessions, e)[new] = e
          /\ \A i \in DOMAIN sessions : Append(sessions, e)[i] = sessions[i]
          /\ DOMAIN sessions \subseteq Nat \ {None} /\ new \in Nat
      BY <3>1, AppendRow
    <3> QED BY <1>4, <3>2
  <2>2. \A i \in DOMAIN sessions : i < new
    BY LenProperties DEF IInv, TypeOK, TablesOK
  <2> HIDE DEF new
  <2>3. s = First(rows) /\ rows # {} /\ rows \subseteq Nat \ {None}
    BY <1>1, <2>1 DEF SessionBySid, First
  <2>4. {i \in DOMAIN sessions' : sessions'[i].sid = sid} \in {rows, rows \cup {new}}
    BY <2>1
  <2>5. First(rows \cup {new}) = First(rows)
    BY <2>1, <2>2, <2>3, FirstKept
  <2>6. SessionBySid(sid)' = s
    BY <2>3, <2>4, <2>5 DEF SessionBySid
  <2> QED BY <1>1, <1>2, <2>1, <2>6 DEF AccountBySid
<1> QED BY <1>3, <1>4, SessionsGrow

\* No restart, no other log-in and no repeated id takes the account away from a
\* cookie (session.c:18-44, 69).
THEOREM CookiesKeepWorking ==
    Spec => CookiesWork
<1>1. IInv /\ [Next]_vars =>
        [\A b \in Browser :
            AccountBySid(jar[b]) # None /\ jar'[b] = jar[b]
                => AccountBySid(jar[b])' = AccountBySid(jar[b])]_vars
  <2> SUFFICES ASSUME IInv, [Next]_vars, NEW b \in Browser,
                      AccountBySid(jar[b]) # None, jar'[b] = jar[b]
               PROVE  AccountBySid(jar[b])' = AccountBySid(jar[b])
    OBVIOUS
  <2>1. PICK sid : sid = jar[b] /\ sid = jar'[b]
    OBVIOUS
  <2> QED BY <2>1, AccountKept DEF AccountBySid, SessionBySid
<1> QED BY <1>1, Invariance, PTL DEF Spec, CookiesWork

\* One unlike undoes any number of likes (like.c:48-74).
THEOREM UnlikeIsThorough ==
    Spec => UnlikeUndoesAll
<1>1. TypeOK /\ [Next]_vars =>
        [\A t \in Thread : pc[t] = "deleteLike" /\ pc'[t] = "reply"
                            => ~Liked(acct[t], row[t])']_vars
  <2> SUFFICES ASSUME TypeOK, [Next]_vars,
                      NEW t \in Thread, pc[t] = "deleteLike", pc'[t] = "reply"
               PROVE  ~Liked(acct[t], row[t])'
    OBVIOUS
  <2>1. \A u \in Thread : Serve(u) => Reboot \/ \E label : Go(u, label)
    BY DEF Serve, AskWithForm, AskById, AskPlain, Ask, Session, NoHandler, CheckEmail,
           CheckUsername, InsertAccount, LookupEmail, FindUser, InsertSession, InsertPost,
           FindPost, InsertLike, DeleteLike, FindAccount, InsertConnection, ReadFeed,
           ReadPosts, Reply
  <2>2. ~Reboot
    BY DEF Reboot
  <2>3. PICK u \in Thread : Serve(u)
    BY <2>2 DEF Next, Kill, vars, threads
  <2>4. u = t
    BY <2>1, <2>2, <2>3 DEF Go, TypeOK, ThreadsOK
  <2>5. DeleteLike(t)
    BY <2>2, <2>3, <2>4
    DEF Serve, AskWithForm, AskById, AskPlain, Ask, Idle, Session, NoHandler, CheckEmail,
        CheckUsername, InsertAccount, LookupEmail, FindUser, InsertSession, InsertPost,
        FindPost, InsertLike, FindAccount, InsertConnection, ReadFeed, ReadPosts, Reply
  <2>6. likes' = Without(acct[t], row[t]) /\ acct' = acct /\ row' = row
    BY <2>5 DEF DeleteLike
  <2> QED BY <2>6 DEF Liked, Likes, Without
<1> QED BY <1>1, TypeCorrect, PTL DEF Spec, UnlikeUndoesAll

-----------------------------------------------------------------------------
(* The dashboard.                                                          *)

\* Every row of the query is a post with one connection to its author, or none.
LEMMA FeedRows ==
    ASSUME TypeOK, NEW a \in DOMAIN accounts
    PROVE  /\ GraphRows(a) \subseteq (DOMAIN posts) \X (DOMAIN connections \cup {None})
           /\ IsFiniteSet(GraphRows(a))
           /\ Visible(a) = {r[1] : r \in GraphRows(a)}
<1>1. /\ DOMAIN posts = 1..Len(posts) /\ Len(posts) \in Nat
      /\ connections \in Seq((DOMAIN accounts) \X (DOMAIN accounts))
      /\ DOMAIN connections = 1..Len(connections) /\ Len(connections) \in Nat
  BY LenProperties DEF TypeOK, TablesOK
<1>2. GraphRows(a) \subseteq (DOMAIN posts) \X (DOMAIN connections \cup {None})
  BY DEF GraphRows, Joined, Followed
<1>3. IsFiniteSet(GraphRows(a))
  <2>0. \A n \in Nat : IsFiniteSet(1..n)
    BY FS_Interval
  <2>1. IsFiniteSet(1..Len(posts)) /\ IsFiniteSet((1..Len(connections)) \cup {None})
    BY <1>1, <2>0, FS_AddElement
  <2>2. IsFiniteSet((1..Len(posts)) \X ((1..Len(connections)) \cup {None}))
    BY <2>1, FS_Product
  <2> QED BY <1>1, <1>2, <2>2, FS_Subset
<1>4. \A c \in DOMAIN connections : connections[c] = <<connections[c][1], connections[c][2]>>
  <2> TAKE c \in DOMAIN connections
  <2>1. connections[c] \in (DOMAIN accounts) \X (DOMAIN accounts)
    BY <1>1, RowTyped
  <2> QED BY <2>1
<1>5. ASSUME NEW r \in GraphRows(a) PROVE r[1] \in Visible(a)
  <2>0. PICK p \in DOMAIN posts :
             \E c \in IF Followed(posts[p].author) = {} THEN {None} ELSE Followed(posts[p].author) :
                r = <<p, c>>
    BY <1>5 DEF GraphRows, Joined
  <2>1. PICK c \in IF Followed(posts[p].author) = {} THEN {None} ELSE Followed(posts[p].author) :
             r = <<p, c>>
    BY <2>0
  <2>2. CASE posts[p].author = a
    BY <2>1, <2>2 DEF Visible
  <2>3. CASE c # None /\ connections[c][1] = a
    <3>1. c \in DOMAIN connections /\ connections[c][2] = posts[p].author
      BY <2>1, <2>3 DEF Followed
    <3> QED BY <1>4, <2>1, <2>3, <3>1 DEF Visible
  <2> QED BY <1>5, <2>1, <2>2, <2>3 DEF GraphRows
<1>6. ASSUME NEW p \in Visible(a) PROVE \E r \in GraphRows(a) : r[1] = p
  <2>1. p \in DOMAIN posts
    BY <1>6 DEF Visible
  <2>2. CASE posts[p].author = a
    <3>1. PICK c \in IF Followed(posts[p].author) = {} THEN {None} ELSE Followed(posts[p].author) : TRUE
      OBVIOUS
    <3>2. <<p, c>> \in Joined
      BY <2>1, <3>1 DEF Joined
    <3> QED BY <2>2, <3>2 DEF GraphRows
  <2>3. CASE posts[p].author # a
    <3>1. PICK c \in DOMAIN connections : connections[c] = <<a, posts[p].author>>
      BY <1>6, <2>3 DEF Visible
    <3>2. c \in Followed(posts[p].author) /\ c # None
      BY <1>1, <3>1 DEF Followed, None
    <3>3. <<p, c>> \in Joined
      BY <2>1, <3>2 DEF Joined
    <3> QED BY <3>1, <3>2, <3>3 DEF GraphRows
  <2> QED BY <2>2, <2>3
<1> QED BY <1>2, <1>3, <1>5, <1>6

\* Whatever rows the query with its LIMIT takes, they show posts that may be
\* seen and none that is older than one left out, and show all if there is
\* room (post.c:128-138): for pages of any size, any number of connections, and
\* any number of posts in one second.
THEOREM FeedIsRight ==
    Spec => []FeedFollowsConnections
<1>1. ASSUME TypeOK PROVE FeedFollowsConnections
  <2> SUFFICES ASSUME NEW a \in DOMAIN accounts, NEW shown \in PagesOf(GraphRows(a))
               PROVE  /\ shown \subseteq Visible(a)
                      /\ \A p \in Visible(a) \ shown, q \in shown :
                            posts[p].createdAt <= posts[q].createdAt
                      /\ Visible(a) # {} => shown # {}
                      /\ Cardinality(GraphRows(a)) <= PageSize => shown = Visible(a)
    BY DEF FeedFollowsConnections
  <2> DEFINE rows == GraphRows(a)
  <2>1. IsFiniteSet(rows) /\ Visible(a) = {r[1] : r \in rows}
    BY <1>1, FeedRows
  <2> HIDE DEF rows
  <2>2. PICK first \in SUBSET rows : ComesFirst(first, rows) /\ shown = {r[1] : r \in first}
    BY DEF PagesOf, rows
  <2>3. shown \subseteq Visible(a)
    BY <2>1, <2>2
  <2>4. ASSUME NEW p \in Visible(a) \ shown, NEW q \in shown
        PROVE  posts[p].createdAt <= posts[q].createdAt
    <3>1. PICK x \in first : x[1] = q
      BY <2>2
    <3>2. PICK y \in rows : y[1] = p
      BY <2>1
    <3>3. y \in rows \ first
      BY <2>2, <3>2
    <3> QED BY <2>2, <3>1, <3>2, <3>3 DEF ComesFirst
  <2>5. /\ Cardinality(rows) \in Nat /\ PageSize \in Nat \ {0}
        /\ Cardinality(first) =
             IF Cardinality(rows) < PageSize THEN Cardinality(rows) ELSE PageSize
    BY <2>1, <2>2, FS_CardinalityType, PageAssumption DEF ComesFirst
  <2>6. ASSUME Visible(a) # {} PROVE shown # {}
    <3>1. rows # {}
      BY <2>1, <2>6
    <3>2. Cardinality(rows) # 0
      BY <2>1, <3>1, FS_EmptySet
    <3>3. Cardinality(first) # 0
      BY <2>5, <3>2
    <3>4. first # {}
      BY <3>3, FS_EmptySet
    <3> QED BY <2>2, <3>4
  <2>7. ASSUME Cardinality(rows) <= PageSize PROVE shown = Visible(a)
    <3>1. Cardinality(first) = Cardinality(rows)
      BY <2>5, <2>7
    <3>2. first = rows
      BY <2>1, <3>1, FS_Subset
    <3> QED BY <2>1, <2>2, <3>2
  <2> QED BY <2>3, <2>4, <2>6, <2>7 DEF rows
<1> QED BY <1>1, TypeCorrect, PTL
=============================================================================
