-------------------------------- MODULE Trie --------------------------------
(***************************************************************************)
(* The route trie of src/cgi_url_dltrie.c.  A node has the key of one part *)
(* of a path, a handler, and links to its next sibling and first child.    *)
(*                                                                         *)
(* main loads route.conf before there are threads; on SIGHUP the           *)
(* dispatcher thread loads it again, as it is then, into the same tree     *)
(* while workers search it.  There is no lock, so each read or write of a  *)
(* node is an action.  The loader is the only writer and reads at once     *)
(* what nobody else changes.                                               *)
(*                                                                         *)
(* A path is a sequence of parts, a "/" being the end of a part: "/",      *)
(* "css/", "main.css".                                                     *)
(***************************************************************************)
EXTENDS Uptime, Naturals, Sequences, FiniteSets

CONSTANTS
    Path,          \* the paths that browsers and files name
    ProperPrefix,  \* the pairs of parts whose first is a prefix of the second
    Handler,
    Files          \* route.conf at the start and at each reload: lines of a
                   \* path and a handler

Part == UNION {{p[i] : i \in DOMAIN p} : p \in Path}
Lines == [path : Path, handler : Handler]
Garbage == "garbage"   \* what malloc gives

ASSUME PathAssumption ==
    /\ Garbage \notin Part
    /\ \A p \in Path : p \in Seq(Part) /\ p # <<>>

ASSUME NullAssumption == NULL \notin Handler /\ NULL \notin [path : Path, known : BOOLEAN]
ASSUME FilesAssumption == Files \in Seq(Seq(Lines)) /\ Files # <<>> /\ Files[1] # <<>>

\* Line i of file k comes before line j of file l.
Before(k, i, l, j) == k < l \/ (k = l /\ i < j)
\* memcmp looks at the length of the part asked for: a line whose part begins
\* an earlier sibling's would take over that sibling's node.  No route.conf
\* of the repository has such a line.
ASSUME RoutesAssumption ==
    \A k, l \in DOMAIN Files : \A i \in DOMAIN Files[k], j \in DOMAIN Files[l] :
        Before(k, i, l, j) =>
            LET p == Files[k][i].path
                q == Files[l][j].path
            IN  \A n \in DOMAIN p \cap DOMAIN q :
                   (\A m \in 1..(n - 1) : p[m] = q[m]) => <<q[n], p[n]>> \notin ProperPrefix

VARIABLES
    node, root,
    loads, lines,    \* files opened so far; lines of the last one still to do
    lpc, at, rest,   \* the loader: next step, *head_ptr, what is left of url
    spc, head, url, found,   \* a search, and the handler it has found
    made,      \* history: of each node, the path above it, its part and the
               \* line that made it
    routes,    \* history: the handler each line has set
    sought     \* history: what a search is for, and whether it had a route

tree == <<node, root, made>>
loader == <<loads, lines, lpc, at, rest, routes>>
search == <<spc, head, url, found, sought>>

Nil == 0
NewNode == [key |-> Garbage, handler |-> NULL, sibling |-> Nil, child |-> Nil]
AtRoot == [of |-> Nil, link |-> "root"]

TrieInit ==
    /\ process = "up"
    /\ node = <<>> /\ root = Nil /\ made = <<>>
    /\ loads = 1 /\ lines = Files[1]
    /\ lpc = "line" /\ at = AtRoot /\ rest = <<>>
    /\ spc = [t \in Thread |-> "idle"]
    /\ head = [t \in Thread |-> Nil]
    /\ url = [t \in Thread |-> <<>>]
    /\ found = [t \in Thread |-> NULL]
    /\ routes = <<>>
    /\ sought = [t \in Thread |-> NULL]

\* memcmp(head->key, url, diff) == 0; of a key that is not there yet, either.
Matches(key, part) ==
    IF key = Garbage THEN BOOLEAN ELSE {key = part \/ <<part, key>> \in ProperPrefix}

-----------------------------------------------------------------------------
\* cgi_url_dltrie_load.  main and the dispatcher come here one after the
\* other.  A file or a plugin that cannot be opened ends the process.
FromScratch ==   \* mutant: the old routes are dropped first
    /\ lpc = "idle"
    /\ loads < Len(Files)
    /\ loads' = loads + 1
    /\ lines' = Files[loads + 1]
    /\ lpc' = "line"
    /\ root' = Nil
    /\ UNCHANGED <<process, node, made, at, rest, routes, search>>

Reload ==
    /\ lpc = "idle"
    /\ loads < Len(Files)
    /\ loads' = loads + 1
    /\ lines' = Files[loads + 1]
    /\ lpc' = "line"
    /\ UNCHANGED <<process, tree, at, rest, routes, search>>

LoadLine ==
    /\ lpc = "line"
    /\ lines # <<>>
    /\ at' = AtRoot
    /\ rest' = Head(lines).path
    /\ lpc' = "walk"
    /\ UNCHANGED <<process, tree, loads, lines, routes, search>>

LoadFails ==
    /\ lpc = "line"
    /\ process' = "exited"
    /\ UNCHANGED <<tree, loader, search>>

LoadEnd ==
    /\ lpc = "line"
    /\ lines = <<>>
    /\ lpc' = "idle"
    /\ UNCHANGED <<process, tree, loads, lines, at, rest, routes, search>>

\* cgi_url_dltrie_insert.
Deref(p) ==
    CASE p.link = "root" -> root
      [] p.link = "sibling" -> node[p.of].sibling
      [] OTHER -> node[p.of].child

Link(p, n) ==
    IF p.link = "sibling" THEN [node EXCEPT ![p.of].sibling = n]
                          ELSE [node EXCEPT ![p.of].child = n]

\* What has been taken from a path when this much of it is left.
Taken(p, left) == SubSeq(p, 1, Len(p) - Len(left))

\* The path above the part the loader is at; the number of the line in hand.
Above == Taken(Head(lines).path, rest)
LineNumber == Len(Files[loads]) - Len(lines) + 1

Create ==
    /\ lpc = "walk"
    /\ Deref(at) = Nil
    /\ IF at = AtRoot
       THEN /\ node' = Append(node, NewNode)
            /\ root' = Len(node) + 1
       ELSE /\ node' = Append(Link(at, Len(node) + 1), NewNode)
            /\ UNCHANGED root
    /\ made' = Append(made, [above |-> Above, part |-> Head(rest),
                             file |-> loads, line |-> LineNumber])
    /\ lpc' = "key"
    /\ UNCHANGED <<process, loads, lines, at, rest, routes, search>>

WriteKey ==
    /\ lpc = "key"
    /\ node' = [node EXCEPT ![Deref(at)].key = Head(rest)]
    /\ lpc' = "part"
    /\ UNCHANGED <<process, root, made, loads, lines, at, rest, routes, search>>

SharesRoutesOnly ==   \* mutant: a node without a handler is passed over
    /\ lpc = "walk"
    /\ Deref(at) # Nil
    /\ \E same \in Matches(node[Deref(at)].key, Head(rest)) :
          IF same /\ (Len(rest) = 1 \/ node[Deref(at)].handler # NULL)
          THEN lpc' = "part" /\ UNCHANGED at
          ELSE at' = [of |-> Deref(at), link |-> "sibling"] /\ UNCHANGED lpc
    /\ UNCHANGED <<process, tree, loads, lines, rest, routes, search>>

Walk ==
    /\ lpc = "walk"
    /\ Deref(at) # Nil
    /\ \E same \in Matches(node[Deref(at)].key, Head(rest)) :
          IF same
          THEN lpc' = "part" /\ UNCHANGED at
          ELSE at' = [of |-> Deref(at), link |-> "sibling"] /\ UNCHANGED lpc
    /\ UNCHANGED <<process, tree, loads, lines, rest, routes, search>>

Enter ==
    /\ lpc = "part"
    /\ Len(rest) > 1
    /\ at' = [of |-> Deref(at), link |-> "child"]
    /\ rest' = Tail(rest)
    /\ lpc' = "walk"
    /\ UNCHANGED <<process, tree, loads, lines, routes, search>>

SetHandler ==
    /\ lpc = "part"
    /\ Len(rest) = 1
    /\ LET line == Head(lines)
       IN  /\ node' = [node EXCEPT ![Deref(at)].handler = line.handler]
           /\ routes' = [p \in DOMAIN routes \cup {line.path} |->
                            IF p = line.path THEN line.handler ELSE routes[p]]
    /\ lines' = Tail(lines)
    /\ lpc' = "line"
    /\ UNCHANGED <<process, root, made, loads, at, rest, search>>

Load ==
    \/ Reload \/ LoadLine \/ LoadFails \/ LoadEnd
    \/ Create \/ WriteKey \/ Walk \/ Enter \/ SetHandler

\* Nobody searches before main has loaded the file.
Started == loads > 1 \/ lpc = "idle"

-----------------------------------------------------------------------------
\* cgi_url_dltrie_find, which handle calls with its path.
Find(t, p) ==
    /\ spc[t] = "idle"
    /\ spc' = [spc EXCEPT ![t] = "compare"]
    /\ head' = [head EXCEPT ![t] = root]
    /\ url' = [url EXCEPT ![t] = p]
    /\ sought' = [sought EXCEPT ![t] = [path |-> p, known |-> p \in DOMAIN routes]]
    /\ UNCHANGED <<process, tree, loader, found>>

Compare(t) ==
    /\ spc[t] = "compare"
    /\ head[t] # Nil /\ url[t] # <<>>
    /\ \E same \in Matches(node[head[t]].key, Head(url[t])) :
          spc' = [spc EXCEPT ![t] = CASE ~same -> "sibling"
                                      [] same /\ Len(url[t]) > 1 -> "child"
                                      [] OTHER -> "take"]
    /\ UNCHANGED <<process, tree, loader, head, url, found, sought>>

NotFound(t) ==
    /\ spc[t] = "compare"
    /\ head[t] = Nil \/ url[t] = <<>>
    /\ spc' = [spc EXCEPT ![t] = "done"]
    /\ UNCHANGED <<process, tree, loader, head, url, found, sought>>

Stays(t) ==   \* mutant: head is not moved on
    /\ spc[t] = "sibling"
    /\ spc' = [spc EXCEPT ![t] = "compare"]
    /\ UNCHANGED <<process, tree, loader, head, url, found, sought>>

NextSibling(t) ==
    /\ spc[t] = "sibling"
    /\ head' = [head EXCEPT ![t] = node[head[t]].sibling]
    /\ spc' = [spc EXCEPT ![t] = "compare"]
    /\ UNCHANGED <<process, tree, loader, url, found, sought>>

Descend(t) ==
    /\ spc[t] = "child"
    /\ head' = [head EXCEPT ![t] = node[head[t]].child]
    /\ url' = [url EXCEPT ![t] = Tail(url[t])]
    /\ spc' = [spc EXCEPT ![t] = "compare"]
    /\ UNCHANGED <<process, tree, loader, found, sought>>

TakeHandler(t) ==
    /\ spc[t] = "take"
    /\ found' = [found EXCEPT ![t] = node[head[t]].handler]
    /\ spc' = [spc EXCEPT ![t] = "done"]
    /\ UNCHANGED <<process, tree, loader, head, url, sought>>

FindStep(t) ==
    Compare(t) \/ NotFound(t) \/ NextSibling(t) \/ Descend(t) \/ TakeHandler(t)

Searching(t) == spc[t] \notin {"idle", "done"}

\* handle returns.
Return(t) ==
    /\ spc' = [spc EXCEPT ![t] = "idle"]
    /\ head' = [head EXCEPT ![t] = Nil]
    /\ url' = [url EXCEPT ![t] = <<>>]
    /\ found' = [found EXCEPT ![t] = NULL]
    /\ sought' = [sought EXCEPT ![t] = NULL]
    /\ UNCHANGED <<tree, loader>>

\* The trie by itself: the loader, and threads that search it.
TrieNext ==
    \/ Load
    \/ \E t \in Thread :
          \/ Started /\ \E p \in Path : Find(t, p)
          \/ FindStep(t)
          \/ ~Searching(t) /\ Return(t) /\ UNCHANGED process

TrieSafety == TrieInit /\ [][TrieNext]_<<tree, loader, search>>
-----------------------------------------------------------------------------
\* What the threads that are searching are looking for.
Asked == [t \in Thread |-> IF Searching(t) THEN sought[t] ELSE NULL]

RT == INSTANCE RouteTable WITH
          Searcher <- Thread,
          Line <- UNION {{Files[k][i] : i \in DOMAIN Files[k]} : k \in DOMAIN Files},
          table <- routes,
          asked <- Asked,
          answer <- found

\* A search finds the handler of a path that had a route when it began, also
\* when the routes are loaded again meanwhile and a node is linked before its
\* key and handler are written (cgi_url_dltrie.c:92-103, 146-167).
ImplementsRouteTable == RT!Safety

\* However often the file is loaded, paths that begin alike share their
\* nodes: there is one for each beginning of a path that has a route, and
\* those of the line in hand (cgi_url_dltrie.c:96-107).
Beginnings(paths) == UNION {{SubSeq(p, 1, n) : n \in 1..Len(p)} : p \in paths}

NodesAreShared ==
    LET inHand == IF lines = <<>> THEN {} ELSE {Head(lines).path}
    IN  Len(node) <= Cardinality(Beginnings(DOMAIN routes \cup inHand))
=============================================================================
