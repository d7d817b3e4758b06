----------------------------- MODULE RouteTable -----------------------------
(***************************************************************************)
(* What the route trie promises to handle (src/cgi_event_dispatcher.c): a  *)
(* map from paths to handlers.  A path that has a route when a thread asks *)
(* for it gets the handler it has when the answer is given, whatever is    *)
(* loaded meanwhile.  For a path without a route nothing is promised.      *)
(***************************************************************************)
CONSTANTS Path, Handler, Searcher, NULL,
    Line   \* the lines a route.conf may have: a path and its handler

VARIABLES
    table,    \* the handler of each path that has a route
    asked,    \* the path a thread is looking for, and whether it had a route
    answer    \* the answer it got last

vars == <<table, asked, answer>>

Init ==
    /\ table = <<>>
    /\ asked = [t \in Searcher |-> NULL]
    /\ answer = [t \in Searcher |-> NULL]

\* A line takes effect.
Bind(line) ==
    /\ table' = [p \in DOMAIN table \cup {line.path} |->
                    IF p = line.path THEN line.handler ELSE table[p]]
    /\ UNCHANGED <<asked, answer>>

Ask(t, p) ==
    /\ asked[t] = NULL
    /\ asked' = [asked EXCEPT ![t] = [path |-> p, known |-> p \in DOMAIN table]]
    /\ UNCHANGED <<table, answer>>

Answer(t) ==
    /\ asked[t] # NULL
    /\ \E h \in IF asked[t].known THEN {table[asked[t].path]} ELSE Handler \cup {NULL} :
          answer' = [answer EXCEPT ![t] = h]
    /\ asked' = [asked EXCEPT ![t] = NULL]
    /\ UNCHANGED table

\* The thread has done what it wanted the handler for.
Drop(t) ==
    /\ asked[t] = NULL
    /\ answer' = [answer EXCEPT ![t] = NULL]
    /\ UNCHANGED <<table, asked>>

Next ==
    \/ \E line \in Line : Bind(line)
    \/ \E t \in Searcher : (\E p \in Path : Ask(t, p)) \/ Answer(t) \/ Drop(t)

Safety == Init /\ [][Next]_vars
=============================================================================
