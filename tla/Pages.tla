-------------------------------- MODULE Pages --------------------------------
(***************************************************************************)
(* The answers of the do_response plugins of web/src, with the headers and *)
(* cookies that src/response.c puts on them.  What the plugins do to the   *)
(* database, and what they read there, is in Facebooc; here a lookup has   *)
(* any result.                                                             *)
(*                                                                         *)
(* An operator gives the answers a page may have to a request: responses,  *)
(* NULL (none was made), or Crash.                                         *)
(***************************************************************************)
EXTENDS Template

CONSTANT StaticFile   \* the files below web/public, by path

ASSUME StaticAssumption == \A p \in DOMAIN StaticFile : StaticFile[p] \in Seq(STRING)

\* headers and context: the newest pair first.  page: what the body was made
\* from; freed: the handler has freed a value of the request.
New == [status |-> 200, headers |-> <<>>, body |-> NULL, page |-> NULL, freed |-> FALSE]
Crash == [signal |-> "SIGSEGV"]

AddHeader(r, k, v) == [r EXCEPT !.headers = AddPair(k, v, @)]
AddCookie(r, sid) == AddHeader(r, "Set-Cookie", sid)
MovedTo(r, location) == AddHeader([r EXCEPT !.status = 302], "Location", location)
Redirect(location) == MovedTo(New, location)
WithBody(r, file, context) ==
    [r EXCEPT !.body = Render(file, context), !.page = [file |-> file, context |-> context]]
Page(file, context) == WithBody(New, file, context)
Valueless(context, k, v) == AddPair(k, <<NULL>>, context)   \* mutant: the value is lost
With(context, k, v) == AddPair(k, v, context)

Subtitle(active, subtitle) == <<<<"subtitle", subtitle>>, <<"active", active>>>>
ForMember(context) == With(context, "loggedIn", <<"t">>)
ForAnyone(account, context) ==
    With(context, "loggedIn", IF account # NULL THEN <<"t">> ELSE <<>>)

-----------------------------------------------------------------------------
\* The redirection of a member is overwritten.
Home(req, account) == {Page("index.html", Subtitle(<<"home">>, <<"Home">>))}

About(req, account) ==
    {Page("about.html", ForAnyone(account, Subtitle(<<"about">>, <<"About">>)))}

Absent(req, account) ==
    {[Page("404.html", ForAnyone(account, <<<<"subtitle", <<"404 Not Found">>>>>>))
        EXCEPT !.status = 404]}

\* The error that the form shows next to a field.
ErrorOf == [username |-> "usernameError", password |-> "passwordError",
            name |-> "nameError", email |-> "emailError", confirm |-> "confirmPasswordError"]
Missing == <<"missing!">>

Login(req, account) ==
    LET form == Subtitle(<<"login">>, <<"Login">>)
        username == Lookup(req.body, <<"username">>)
        password == Lookup(req.body, <<"password">>)
        named == IF username = NULL THEN With(form, ErrorOf.username, Missing)
                 ELSE With(form, "formUsername", username)
        checked == IF password = NULL THEN With(named, ErrorOf.password, Missing) ELSE named
    IN  CASE account # NULL -> {Redirect("/dashboard")}
          [] account = NULL /\ req.method # "POST" -> {Page("login.html", form)}
          [] OTHER ->
                IF username = NULL \/ password = NULL THEN {Page("login.html", checked)}
                ELSE {MovedTo(AddCookie(New, "sid"), "/dashboard"),
                      Page("login.html", With(checked, ErrorOf.username, <<"Invalid">>))}

Logout(req, account) ==
    {IF account = NULL THEN Redirect("/") ELSE AddCookie(Redirect("/"), "")}

\* signup.  refused: the fields whose value is too short, too long or taken.
Inputs == <<"name", "email", "username">>
FormOf == [name |-> "formName", email |-> "formEmail", username |-> "formUsername"]

SignupForm(body, refused) ==
    LET value(f) == Lookup(body, <<f>>)
        input(f) == CASE value(f) = NULL -> <<ErrorOf[f], Missing>>
                      [] value(f) # NULL /\ f \in refused -> <<ErrorOf[f], <<"Invalid">>>>
                      [] OTHER -> <<FormOf[f], value(f)>>
        password ==
            CASE value("password") = NULL -> <<<<ErrorOf.password, Missing>>>>
              [] value("password") # NULL /\ "password" \in refused ->
                    <<<<ErrorOf.password, <<"Invalid">>>>>>
              [] OTHER -> <<>>
        confirm ==
            CASE value("confirm-password") = NULL -> <<<<ErrorOf.confirm, Missing>>>>
              [] value("confirm-password") \notin {NULL, value("password")} ->
                    <<<<ErrorOf.confirm, <<"Invalid">>>>>>
              [] OTHER -> <<>>
    IN  confirm \o password \o Reverse([i \in DOMAIN Inputs |-> input(Inputs[i])])

HasError(context) == \E i \in DOMAIN context, f \in DOMAIN ErrorOf : context[i][1] = ErrorOf[f]

Signup(req, account) ==
    LET form == Subtitle(<<"signup">>, <<"Sign Up">>)
        typed(f) == Lookup(req.body, <<f>>) # NULL
        filled(refused) == SignupForm(req.body, refused) \o form
    IN  CASE account # NULL -> {Redirect("/dashboard")}
          [] account = NULL /\ req.method # "POST" -> {Page("signup.html", form)}
          [] account = NULL /\ req.method = "POST"
             /\ ~typed("password") /\ typed("confirm-password") -> {Crash}   \* strcmp
          [] OTHER ->
                UNION {IF HasError(filled(refused)) THEN {Page("signup.html", filled(refused))}
                       ELSE {Redirect("/login"),
                             Page("signup.html",
                                  With(filled(refused), ErrorOf.name, <<"Unexpected">>))} :
                       refused \in SUBSET {"name", "email", "username", "password"}}

-----------------------------------------------------------------------------
\* The pages of members.  A list that was read is empty or not.
Listed == {<<"none">>, <<"some">>}

Dashboard(req, account) ==
    IF account = NULL THEN {Redirect("/login")}
    ELSE LET context(list) ==
                With(ForMember(With(<<>>, "graph", list) \o
                               Subtitle(<<"dashboard">>, <<"Dashboard">>)),
                     "accountName", account)
         IN  {Page("dashboard.html", context(list)) : list \in Listed}

Search(req, account) ==
    LET query == Lookup(req.query, <<"q">>)
        context(list) ==
            ForMember(With(With(Subtitle(<<"search">>, <<"Search">>), "results", list),
                           "searchQuery", query))
    IN  CASE account = NULL -> {Redirect("/login")}
          [] account # NULL /\ query = NULL -> {NULL}
          [] OTHER -> {Page("search.html", context(list)) : list \in Listed}

NoTest(req, account) ==   \* mutant: the account that was not found is shown
    IF account = NULL THEN {NULL}
    ELSE {IF Lookup(req.query, <<"id">>) = NULL THEN Crash ELSE Redirect("/dashboard")}

\* Without an id in the query there is no such account and no such post.
Profile(req, account) ==
    LET id == Lookup(req.query, <<"id">>)
        context(list) == ForMember(Subtitle(<<"profile">>, id)
                                   \o <<<<"profileId", id>>, <<"profilePosts", list>>>>)
    IN  CASE account = NULL \/ id = NULL -> {NULL}
          [] OTHER -> {NULL, Redirect("/dashboard")}
                      \cup {Page("profile.html", context(list)) : list \in Listed}

Post(req, account) ==
    {IF account = NULL \/ req.method # "POST" THEN NULL ELSE Redirect("/dashboard")}

Connect(req, account) ==
    CASE account = NULL -> {NULL}
      [] account # NULL /\ Lookup(req.query, <<"id">>) = NULL -> {Redirect("/dashboard")}
      [] OTHER -> {Redirect("/dashboard"), Redirect("/profile?id=")}

\* Asked to go back to the profile (r), like forgets to, and both free the id.
Marked(req, account, back) ==
    LET found == [back EXCEPT !.freed = Lookup(req.query, <<"r">>) # NULL]
    IN  CASE account = NULL -> {NULL}
          [] account # NULL /\ Lookup(req.query, <<"id">>) = NULL -> {Redirect("/dashboard")}
          [] OTHER -> {Redirect("/dashboard"), found}

Like(req, account) == Marked(req, account, Redirect("/dashboard"))

Unlike(req, account) ==
    Marked(req, account,
           Redirect(IF Lookup(req.query, <<"r">>) = NULL THEN "/dashboard" ELSE "/profile?id="))

-----------------------------------------------------------------------------
\* static_handle
Static(req, account) ==
    IF "../" \in ToSet(req.uri) \/ req.uri \notin DOMAIN StaticFile THEN {NULL}
    ELSE LET file == StaticFile[req.uri]
             typed == AddHeader([New EXCEPT !.body = file], "Content-Type", Last(req.uri))
         IN  {AddHeader(AddHeader(typed, "Content-Length", Len(file)),
                        "Cache-Control", "max-age=2592000")}

Reply(handler, req, account) ==
    CASE handler = "home" -> Home(req, account)
      [] handler = "about" -> About(req, account)
      [] handler = "notFound" -> Absent(req, account)
      [] handler = "login" -> Login(req, account)
      [] handler = "logout" -> Logout(req, account)
      [] handler = "signup" -> Signup(req, account)
      [] handler = "dashboard" -> Dashboard(req, account)
      [] handler = "search" -> Search(req, account)
      [] handler = "profile" -> Profile(req, account)
      [] handler = "post" -> Post(req, account)
      [] handler = "connect" -> Connect(req, account)
      [] handler = "like" -> Like(req, account)
      [] handler = "unlike" -> Unlike(req, account)
      [] handler = "static_handle" -> Static(req, account)
=============================================================================
