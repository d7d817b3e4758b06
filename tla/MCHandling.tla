------------------------------ MODULE MCHandling ------------------------------
(* Handling with the routes of web/route.conf, the templates and files of   *)
(* web/public cut down to what tells them apart, and requests for each page. *)
EXTENDS Handling

To1(part) == <<"/", part>>
Root == <<"/">>
Css(name) == <<"/", "css/", name>>

Pages1 == {"dashboard", "profile", "like", "unlike", "search", "login", "logout",
           "signup", "notFound", "post"}
MCPath == {Root, To1("favicon.ico"), To1("about"), To1("connect"), To1("log"), To1("css"),
           Css("normalize.css"), Css("main.css")} \cup {To1(p) : p \in Pages1}
MCPrefix == {<<"log", "login">>, <<"log", "logout">>, <<"css", "css/">>}
MCHandler == Pages1 \cup {"home", "about", "connect", "static_handle"}

Line(path, h) == [path |-> path, handler |-> h]
Plain1(p) == Line(To1(p), p)
Shipped ==
    <<Line(Root, "home"), Plain1("dashboard"), Plain1("profile"), Plain1("like"),
      Plain1("unlike"), Plain1("search"), Plain1("login"), Plain1("logout"),
      Plain1("signup"), Plain1("search"), Plain1("notFound"), Plain1("post"),
      Line(Css("normalize.css"), "static_handle"), Line(Css("main.css"), "static_handle"),
      Line(To1("favicon.ico"), "static_handle")>>
\* The file is replaced by one with two routes more and one changed.
MCFiles == <<Shipped, <<Line(To1("about"), "about"), Line(Root, "login"), Plain1("connect")>>>>
FilesOnce == <<<<Line(Root, "home"), Plain1("login"), Plain1("signup")>>>>

\* web/public
Text(w) == [kind |-> "text", words |-> <<w>>]
Var(v) == [kind |-> "var", words |-> <<v>>]
Include(f) == [kind |-> "include", words |-> <<f>>]
WhenItem(k, v, out) == [kind |-> "when", words |-> <<k, v, out>>]
Framing(items) == <<Include("header.html")>> \o items \o <<Include("footer.html")>>

MCShape ==
    [f \in {"index.html", "404.html", "login.html", "signup.html", "dashboard.html",
            "search.html", "profile.html", "header.html", "navbar.html", "footer.html"} |->
        CASE f = "header.html" -> <<Text("<title>"), Var("subtitle"), Text("<body>"),
                                    Include("navbar.html")>>
          [] f = "navbar.html" ->
                <<Text("<nav>"), WhenItem("active", "login", "active"),
                  WhenItem("loggedIn", "t", "hidden"), Text("Login"), Var("searchQuery"),
                  Text("</nav>")>>
          [] f = "footer.html" -> <<Text("</body>")>>
          [] f = "index.html" -> Framing(<<Text("facebooc")>>)
          [] f = "404.html" -> Framing(<<Text("Page not found!")>>)
          [] f = "login.html" ->
                Framing(<<Text("<form>"), Var("formUsername"), Text("/>"), Var("usernameError"),
                          Text("/>"), Var("passwordError")>>)
          [] f = "signup.html" ->
                Framing(<<Text("<form>"), Var("formName"), Text("/>"), Var("nameError"),
                          Text("/>"), Var("formEmail"), Text("/>"), Var("emailError"),
                          Text("/>"), Var("formUsername"), Text("/>"), Var("usernameError"),
                          Text("/>"), Var("passwordError"), Text("/>"),
                          Var("confirmPasswordError")>>)
          [] f = "dashboard.html" -> Framing(<<Text("Welcome"), Var("accountName"), Var("graph")>>)
          [] f = "search.html" -> Framing(<<Var("results")>>)
          [] f = "profile.html" -> Framing(<<Text("@"), Var("profileId"), Var("profilePosts")>>)]

MCStatic == [p \in {Css("main.css"), Css("normalize.css"), To1("favicon.ico")} |->
                IF p = To1("favicon.ico") THEN <<"00", NUL, "10">> ELSE <<"body", " ">>]

-----------------------------------------------------------------------------
Get(part) == [method |-> "GET", uri |-> To1(part), fragment |-> FALSE,
              version |-> "HTTP/1.1", query |-> <<>>, keepAlive |-> FALSE,
              sid |-> NULL, form |-> <<>>, late |-> 0]
Typed(name, value) == [name |-> name, value |-> value]
Member(r) == [r EXCEPT !.sid = "s1"]
Kept(r) == [r EXCEPT !.keepAlive = TRUE]
Asks(r, fields) == [r EXCEPT !.query = fields]
Late(r, n) == [r EXCEPT !.late = n]
Sends(r, fields) == [r EXCEPT !.method = "POST", !.form = fields]

MCSessions == [s \in {<<"s1">>} |-> <<"Ann">>]
Id == Typed("id", <<"1">>)
LoginForm(u, p) == Sends(Get("login"), <<Typed("username", u), Typed("password", p)>>)
SignupForm1(n, u, p, c) ==
    Sends(Get("signup"), <<Typed("name", n), Typed("email", <<"a@b">>), Typed("username", u),
                           Typed("password", p), Typed("confirm-password", c)>>)
Braces == <<"{", "{", "formUsername", "}", "}">>

Visits == {Kept([Get("") EXCEPT !.uri = Root]), Get("notFound"), Get("log"), Get("about"),
           Get("css"), Get("signup"), Get("dashboard")}
StaticGets == {Kept([Get("") EXCEPT !.uri = Css("main.css")]), Kept(Get("favicon.ico"))}
MemberGets ==
    {Kept(Member(Get("logout"))), Member(Get("dashboard")),
     Asks(Member(Get("like")), <<Id>>),
     Asks(Member(Get("unlike")), <<Id, Typed("r", <<"1">>)>>),
     Asks(Member(Get("profile")), <<Id>>), Member(Get("profile")),
     Asks(Member(Get("search")), <<Typed("q", <<"a", " ", "+", "&">>)>>),
     Asks(Member(Get("search")), <<Typed("q", <<>>)>>), Asks(Member(Get("connect")), <<Id>>)}
Forms ==
    {LoginForm(<<"a", "+", "=">>, <<"p">>), LoginForm(Braces, <<>>),
     LoginForm(<<>>, <<"p">>), LoginForm(<<>>, <<>>),
     SignupForm1(<<"A", " ", "B">>, <<"u">>, <<"p">>, <<"p">>),
     SignupForm1(<<"A">>, <<"u">>, <<"p">>, <<>>), SignupForm1(<<"A">>, <<>>, <<"p">>, <<"p">>),
     Kept(Member(Sends(Get("post"), <<Typed("post", <<"<", "b">>)>>)))}
Bad == {[Get("login") EXCEPT !.method = "PATCH"], [Get("login") EXCEPT !.fragment = TRUE],
        [Get("login") EXCEPT !.version = "HTTP/2"]}

\* Forms of which the last word comes late, the password, the last field with
\* its name, or all; a path that is cut off, and a cookie.
Late1(r) == {Late(r, n) : n \in {1, 2, 3, Len(Fielded(r.form))}}
Pieces ==
    Late1(LoginForm(<<"a", "+", "=">>, <<"p", "q">>))
    \cup Late1(Kept(Member(Sends(Get("post"), <<Typed("post", <<"a", "+", "b">>)>>))))
    \cup Late1(SignupForm1(<<"A", " ", "B">>, <<"u">>, <<"p">>, <<"p">>))
    \cup {Late(Get("login"), 6), Late(Kept(Member(Get("dashboard"))), 5)}

MCRequests == Visits \cup StaticGets \cup MemberGets \cup Forms \cup Bad \cup Pieces
TwoPlain == {[Get("") EXCEPT !.uri = Root], Get("login")}
UnnamedSignup == {SignupForm1(<<"A">>, <<>>, <<"p">>, <<"p">>), LoginForm(<<>>, <<"p">>)}
=============================================================================
