----------------------------- MODULE TrieProofs -----------------------------
(***************************************************************************)
(* That the trie of src/cgi_url_dltrie.c, loaded again while threads       *)
(* search it, gives what RouteTable promises, for all routes and paths     *)
(* that satisfy RoutesAssumption and any number of threads.                *)
(*                                                                         *)
(* Nodes are numbered in the order in which they are made.  The nodes      *)
(* below one path are linked in this order, so a link leads to the least   *)
(* number among those that may follow: no list has to be walked to say     *)
(* which nodes a search may still reach.                                   *)
(***************************************************************************)
EXTENDS Trie, SequenceTheorems, FiniteSetTheorems, TLAPS

Nodes == [key : Part \cup {Garbage}, handler : Handler \cup {NULL}, sibling : Nat, child : Nat]
Origins == [above : Seq(Part), part : Part, file : Nat, line : Nat]

TreeTypeOK ==
    /\ node \in Seq(Nodes) /\ made \in Seq(Origins) /\ Len(made) = Len(node)
    /\ root \in Nat

RouteTypeOK ==
    /\ routes \in [DOMAIN routes -> Handler]
    /\ DOMAIN routes \subseteq Path
    /\ IsFiniteSet(DOMAIN routes)

LoaderTypeOK ==
    /\ loads \in DOMAIN Files /\ lines \in Seq(Lines)
    /\ lpc \in {"idle", "line", "walk", "key", "part"}
    /\ at \in [of : Nat, link : {"root", "sibling", "child"}]
    /\ rest \in Seq(Part)

SearchTypeOK ==
    /\ spc \in [Thread -> {"idle", "compare", "sibling", "child", "take", "done"}]
    /\ head \in [Thread -> Nat]
    /\ url \in [Thread -> Seq(Part)]
    /\ found \in [Thread -> Handler \cup {NULL}]
    /\ sought = [t \in Thread |-> sought[t]]
    /\ \A t \in Thread : Searching(t) => sought[t] \in [path : Path, known : BOOLEAN]

TypeOK == TreeTypeOK /\ RouteTypeOK /\ LoaderTypeOK /\ SearchTypeOK

-----------------------------------------------------------------------------
\* A link to the first of the nodes below path c with a number above n.
Leads(link, c, n) ==
    /\ link # Nil => link \in DOMAIN node /\ made[link].above = c /\ link > n
    /\ \A m \in DOMAIN node : made[m].above = c /\ m > n => link # Nil /\ link <= m

Below(n) == Append(made[n].above, made[n].part)

LinksOK ==
    /\ Leads(root, <<>>, 0)
    /\ \A n \in DOMAIN node : /\ Leads(node[n].sibling, made[n].above, n)
                              /\ Leads(node[n].child, Below(n), 0)

\* A node has its key, but for the one that has just been linked.
KeysOK ==
    \A n \in DOMAIN node :
        node[n].key = IF lpc = "key" /\ n = Len(node) THEN Garbage ELSE made[n].part

Distinct ==
    \A m, n \in DOMAIN node :
        made[m].above = made[n].above /\ made[m].part = made[n].part => m = n

Descended ==
    \A n \in DOMAIN node : made[n].above = <<>> \/ \E m \in DOMAIN node : Below(m) = made[n].above

TreeOK == LinksOK /\ KeysOK /\ Distinct /\ Descended

-----------------------------------------------------------------------------
\* A node stands for the beginning of a line's path, and nodes are made in the
\* order of the lines, from the root on.
OriginOK(n) ==
    LET o == made[n]
        p == Files[o.file][o.line].path
    IN  /\ o.file \in DOMAIN Files /\ o.line \in DOMAIN Files[o.file]
        /\ Len(o.above) < Len(p) /\ o.part = p[Len(o.above) + 1]
        /\ \A j \in DOMAIN o.above : o.above[j] = p[j]

InLine == lpc \in {"walk", "key", "part"}

MadeBefore(n) ==
    LET o == made[n]
    IN  \/ Before(o.file, o.line, loads, LineNumber)
        \/ /\ o.file = loads /\ o.line = LineNumber
           /\ InLine
           /\ IF lpc = "walk" THEN Len(o.above) < Len(Above) ELSE Len(o.above) <= Len(Above)

Follows(m, n) ==
    LET o == made[m]
        u == made[n]
    IN  \/ Before(o.file, o.line, u.file, u.line)
        \/ o.file = u.file /\ o.line = u.line /\ Len(o.above) < Len(u.above)

LinesOK ==
    /\ Len(lines) <= Len(Files[loads])
    /\ \A i \in DOMAIN lines : lines[i] = Files[loads][Len(Files[loads]) - Len(lines) + i]

OriginsOK ==
    /\ \A n \in DOMAIN node : OriginOK(n)
    /\ \A m, n \in DOMAIN node : m < n => Follows(m, n)

AllMadeBefore == \A n \in DOMAIN node : MadeBefore(n)

OrderOK == LinesOK /\ OriginsOK /\ AllMadeBefore

-----------------------------------------------------------------------------
\* left is the end of p.
EndOf(p, left) ==
    /\ Len(left) <= Len(p)
    /\ \A i \in DOMAIN left : left[i] = p[Len(p) - Len(left) + i]

IsNode(n, c, x) ==
    n \in DOMAIN node /\ made[n].above = c /\ made[n].part = x /\ node[n].key = x

Here(p, i) == \E n \in DOMAIN node : IsNode(n, SubSeq(p, 1, i - 1), p[i])

After == IF at.link = "sibling" THEN at.of ELSE 0

PlaceOK ==
    /\ at.link = "root" => at.of = Nil /\ Above = <<>>
    /\ at.link = "sibling" => at.of \in DOMAIN node /\ made[at.of].above = Above
    /\ at.link = "child" => at.of \in DOMAIN node /\ Below(at.of) = Above

\* Where the loader is in the tree is where it is in its line.
LoaderOK ==
    /\ lpc = "idle" => lines = <<>>
    /\ InLine =>
          /\ lines # <<>> /\ rest # <<>>
          /\ EndOf(Head(lines).path, rest)
          /\ PlaceOK
          /\ \A i \in 1..Len(Above) : Here(Head(lines).path, i)
    /\ lpc = "walk" =>
          \A m \in DOMAIN node : made[m].above = Above /\ m <= After => made[m].part # Head(rest)
    /\ lpc \in {"key", "part"} =>
          /\ Deref(at) \in DOMAIN node
          /\ made[Deref(at)].above = Above /\ made[Deref(at)].part = Head(rest)
    /\ lpc = "key" => Deref(at) = Len(node)

\* A path with a route has a node for each of its parts, and the last has the
\* handler.  Every line before the one in hand has set a route.
RouteOK(p, h) ==
    \A i \in DOMAIN p :
        \E n \in DOMAIN node : /\ IsNode(n, SubSeq(p, 1, i - 1), p[i])
                               /\ i = Len(p) => node[n].handler = h

RoutesInTree == \A p \in DOMAIN routes : RouteOK(p, routes[p])

LinesSet ==
    \A k \in DOMAIN Files : \A i \in DOMAIN Files[k] :
        Before(k, i, loads, LineNumber) => Files[k][i].path \in DOMAIN routes

RoutesOK == RoutesInTree /\ LinesSet

-----------------------------------------------------------------------------
\* What a search is after: the node for the next part of its path.
Goal(t, m) == IsNode(m, Taken(sought[t].path, url[t]), Head(url[t]))

\* From where it is, the search gets there.
Ahead(t, m) ==
    /\ spc[t] = "compare" => head[t] # Nil /\ made[head[t]].above = made[m].above /\ head[t] <= m
    /\ spc[t] = "sibling" => made[head[t]].above = made[m].above /\ head[t] < m
    /\ spc[t] = "child" => head[t] = m /\ Len(url[t]) > 1
    /\ spc[t] = "take" => head[t] = m /\ Len(url[t]) = 1

OnCourse(t) ==
    /\ sought[t].path \in DOMAIN routes
    /\ url[t] # <<>> /\ EndOf(sought[t].path, url[t])
    /\ \E m \in DOMAIN node : Goal(t, m) /\ Ahead(t, m)

SearchOK(t) ==
    /\ spc[t] = "compare" => head[t] = Nil \/ head[t] \in DOMAIN node
    /\ spc[t] \in {"sibling", "child", "take"} => head[t] \in DOMAIN node /\ url[t] # <<>>
    /\ Searching(t) /\ sought[t].known => OnCourse(t)

Searches == \A t \in Thread : SearchOK(t)

IInv == TypeOK /\ TreeOK /\ OrderOK /\ LoaderOK /\ RoutesOK /\ Searches
-----------------------------------------------------------------------------
\* Before anything is taken from a path, all of it is left.
LEMMA TakenFirst ==
    ASSUME NEW S, NEW p \in Seq(S)
    PROVE  EndOf(p, p) /\ Taken(p, p) = <<>>
<1>1. Len(p) \in Nat /\ Len(p) - Len(p) = 0
  OBVIOUS
<1>2. Taken(p, p) = <<>>
  BY <1>1, SubSeqEmpty DEF Taken
<1> QED BY <1>1, <1>2 DEF EndOf

\* The next part is the one behind what has been taken.
LEMMA TakenNext ==
    ASSUME NEW S, NEW p \in Seq(S), NEW left \in Seq(S), left # <<>>, EndOf(p, left)
    PROVE  /\ Taken(p, left) \in Seq(S)
           /\ Len(Taken(p, left)) = Len(p) - Len(left)
           /\ Len(p) - Len(left) + 1 \in DOMAIN p
           /\ Head(left) \in S /\ Head(left) = p[Len(p) - Len(left) + 1]
           /\ Taken(p, left) = SubSeq(p, 1, (Len(p) - Len(left) + 1) - 1)
           /\ \A j \in 1..(Len(p) - Len(left)) : Taken(p, left)[j] = p[j]
<1> DEFINE k == Len(p) - Len(left)
<1>1. k \in Nat /\ k + 1 \in 1..Len(p) /\ (k + 1) - 1 = k /\ 1 \in DOMAIN left
  BY DEF EndOf
<1>2. \A i \in 1..k : p[i] \in S
  BY <1>1
<1>3. /\ SubSeq(p, 1, k) \in Seq(S) /\ Len(SubSeq(p, 1, k)) = k
      /\ \A j \in 1..k : SubSeq(p, 1, k)[j] = p[j]
  <2>1. /\ SubSeq(p, 1, k) \in Seq(S) /\ Len(SubSeq(p, 1, k)) = IF 1 <= k THEN k - 1 + 1 ELSE 0
        /\ \A i \in 1..(k - 1 + 1) : SubSeq(p, 1, k)[i] = p[1 + i - 1]
    BY <1>1, <1>2, SubSeqProperties
  <2> QED BY <1>1, <2>1
<1>4. Head(left) = p[k + 1] /\ Head(left) \in S
  BY <1>1, HeadTailProperties DEF EndOf
<1> HIDE DEF k
<1>5. Taken(p, left) = SubSeq(p, 1, k)
  BY DEF Taken, k
<1> QED BY <1>1, <1>3, <1>4, <1>5 DEF k

\* Taking it adds it to what has been taken.
LEMMA TakenStep ==
    ASSUME NEW S, NEW p \in Seq(S), NEW left \in Seq(S), left # <<>>, EndOf(p, left)
    PROVE  /\ EndOf(p, Tail(left)) /\ Tail(left) \in Seq(S) /\ Len(Tail(left)) = Len(left) - 1
           /\ Taken(p, Tail(left)) = Append(Taken(p, left), Head(left))
<1> DEFINE k == Len(p) - Len(left)
<1>1. /\ Tail(left) \in Seq(S) /\ Len(Tail(left)) = Len(left) - 1
      /\ \A i \in 1..Len(Tail(left)) : Tail(left)[i] = left[i + 1]
  BY HeadTailProperties
<1>2. k \in Nat /\ Len(left) \in Nat /\ Len(p) \in Nat /\ Len(p) - Len(Tail(left)) = k + 1
  BY <1>1 DEF EndOf
<1>3. EndOf(p, Tail(left))
  BY <1>1, <1>2, SMTT(30) DEF EndOf
<1>4. Taken(p, Tail(left)) = SubSeq(p, 1, k + 1) /\ Taken(p, left) = SubSeq(p, 1, k)
  BY <1>2 DEF Taken
<1>5. k + 1 \in 1..Len(p) /\ Head(left) = p[k + 1] /\ Head(left) \in S /\ Taken(p, left) \in Seq(S)
  BY TakenNext
<1> HIDE DEF k
<1>6. SubSeq(p, 1, k + 1) = SubSeq(p, 1, k) \o <<p[k + 1]>>
  BY <1>2, <1>5, SubSeqRecursiveSecond
<1>7. SubSeq(p, 1, k + 1) = Append(Taken(p, left), Head(left))
  BY <1>4, <1>5, <1>6, AppendIsConcat
<1> QED BY <1>1, <1>3, <1>4, <1>7

-----------------------------------------------------------------------------
\* The line in hand is a line of the file that is open.
LEMMA LineInHand ==
    ASSUME LoaderTypeOK, LinesOK, lines # <<>>
    PROVE  /\ Files[loads] \in Seq(Lines) /\ LineNumber \in DOMAIN Files[loads]
           /\ Head(lines) = Files[loads][LineNumber]
           /\ Head(lines) \in Lines
           /\ Head(lines).path \in Path /\ Head(lines).handler \in Handler
           /\ Head(lines).path \in Seq(Part) /\ Head(lines).path # <<>>
<1>1. Files[loads] \in Seq(Lines)
  BY FilesAssumption DEF LoaderTypeOK
<1>2. Len(lines) \in Nat /\ 1 \in DOMAIN lines /\ Head(lines) = lines[1]
  BY DEF LoaderTypeOK
<1>3. LineNumber \in DOMAIN Files[loads] /\ Head(lines) = Files[loads][LineNumber]
  BY <1>1, <1>2 DEF LinesOK, LineNumber
<1>4. Head(lines) \in Lines
  BY <1>1, <1>3
<1> QED BY <1>1, <1>3, <1>4, PathAssumption DEF Lines

\* The part in hand is the one behind Above.
LEMMA PartInHand ==
    ASSUME LoaderTypeOK, LinesOK, lines # <<>>, rest # <<>>, EndOf(Head(lines).path, rest)
    PROVE  /\ Above \in Seq(Part) /\ Len(Above) \in Nat
           /\ Len(Above) = Len(Head(lines).path) - Len(rest)
           /\ Len(Above) + 1 \in DOMAIN Head(lines).path
           /\ Head(rest) \in Part /\ Head(rest) = Head(lines).path[Len(Above) + 1]
           /\ Above = SubSeq(Head(lines).path, 1, (Len(Above) + 1) - 1)
           /\ \A j \in 1..Len(Above) : Above[j] = Head(lines).path[j]
<1> DEFINE q == Head(lines).path
<1>1. q \in Seq(Part) /\ rest \in Seq(Part) /\ EndOf(q, rest) /\ Above = Taken(q, rest)
  BY LineInHand DEF LoaderTypeOK, Above
<1> HIDE DEF q
<1>2. /\ Taken(q, rest) \in Seq(Part) /\ Len(Taken(q, rest)) = Len(q) - Len(rest)
      /\ Len(q) - Len(rest) + 1 \in DOMAIN q
      /\ Head(rest) \in Part /\ Head(rest) = q[Len(q) - Len(rest) + 1]
      /\ Taken(q, rest) = SubSeq(q, 1, (Len(q) - Len(rest) + 1) - 1)
      /\ \A j \in 1..(Len(q) - Len(rest)) : Taken(q, rest)[j] = q[j]
  BY <1>1, TakenNext
<1>3. Len(Above) \in Nat
  BY <1>1, <1>2
<1> QED BY <1>1, <1>2, <1>3 DEF q

\* What the origin of a node is.
LEMMA Origin ==
    ASSUME TreeTypeOK, NEW n \in DOMAIN node
    PROVE  /\ n \in Nat \ {0} /\ n \in DOMAIN made /\ n <= Len(node)
           /\ node[n] \in Nodes /\ made[n] \in Origins
           /\ made[n].above \in Seq(Part) /\ made[n].part \in Part
           /\ made[n].part # Garbage
           /\ made[n].file \in Nat /\ made[n].line \in Nat
<1>1. n \in 1..Len(node) /\ n \in 1..Len(made) /\ Len(node) \in Nat
  BY DEF TreeTypeOK
<1>2. node[n] \in Nodes /\ made[n] \in Origins
  BY <1>1, ElementOfSeq DEF TreeTypeOK
<1> QED BY <1>1, <1>2, PathAssumption DEF Origins, TreeTypeOK

\* The line of a node, and where in its path the node is.
LEMMA OriginLine ==
    ASSUME TreeTypeOK, NEW n \in DOMAIN node, OriginOK(n)
    PROVE  LET p == Files[made[n].file][made[n].line].path
               i == Len(made[n].above) + 1
           IN  /\ p \in Seq(Part) /\ p \in Path /\ i \in DOMAIN p /\ p[i] = made[n].part
               /\ \A j \in 1..(i - 1) : p[j] = made[n].above[j]
<1> DEFINE p == Files[made[n].file][made[n].line].path
<1>1. Files[made[n].file] \in Seq(Lines)
  BY FilesAssumption DEF OriginOK
<1>2. Files[made[n].file][made[n].line] \in Lines
  BY <1>1 DEF OriginOK
<1>3. p \in Path /\ p \in Seq(Part)
  BY <1>2, PathAssumption DEF Lines
<1>4. /\ Len(made[n].above) \in Nat /\ DOMAIN made[n].above = 1..Len(made[n].above)
      /\ Len(p) \in Nat /\ DOMAIN p = 1..Len(p)
  <2>1. made[n].above \in Seq(Part)
    BY Origin
  <2> DEFINE a == made[n].above
  <2>2. a \in Seq(Part) /\ p \in Seq(Part)
    BY <1>3, <2>1
  <2> HIDE DEF a, p
  <2>3. Len(a) \in Nat /\ DOMAIN a = 1..Len(a) /\ Len(p) \in Nat /\ DOMAIN p = 1..Len(p)
    BY <2>2
  <2> QED BY <2>3 DEF a
<1>5. /\ Len(made[n].above) < Len(p) /\ made[n].part = p[Len(made[n].above) + 1]
      /\ \A j \in DOMAIN made[n].above : made[n].above[j] = p[j]
  BY DEF OriginOK
<1> HIDE DEF p
<1>6. Len(made[n].above) + 1 \in DOMAIN p
  BY <1>4, <1>5
<1>7. \A j \in 1..((Len(made[n].above) + 1) - 1) : p[j] = made[n].above[j]
  BY <1>4, <1>5
<1> QED BY <1>3, <1>5, <1>6, <1>7 DEF p

\* Of two nodes next to each other the later one's part does not begin the
\* earlier one's.
LEMMA NoClash ==
    ASSUME TreeTypeOK, OrderOK, NEW m \in DOMAIN node, NEW n \in DOMAIN node, m < n,
           made[m].above = made[n].above
    PROVE  <<made[n].part, made[m].part>> \notin ProperPrefix
<1> DEFINE p == Files[made[m].file][made[m].line].path
           q == Files[made[n].file][made[n].line].path
           i == Len(made[n].above) + 1
<1>1. OriginOK(m) /\ OriginOK(n) /\ Follows(m, n)
  BY DEF OrderOK, OriginsOK
<1>2. Before(made[m].file, made[m].line, made[n].file, made[n].line)
  BY <1>1, Origin DEF Follows
<1>3. /\ i \in DOMAIN p /\ i \in DOMAIN q /\ p[i] = made[m].part /\ q[i] = made[n].part
      /\ \A j \in 1..(i - 1) : p[j] = q[j]
  <2>1. /\ i \in DOMAIN p /\ p[i] = made[m].part
        /\ \A j \in 1..(i - 1) : p[j] = made[n].above[j]
    BY <1>1, OriginLine
  <2>2. /\ i \in DOMAIN q /\ q[i] = made[n].part
        /\ \A j \in 1..(i - 1) : q[j] = made[n].above[j]
    BY <1>1, OriginLine
  <2> QED BY <2>1, <2>2
<1> HIDE DEF p, q, i
<1>4. /\ made[m].file \in DOMAIN Files /\ made[m].line \in DOMAIN Files[made[m].file]
      /\ made[n].file \in DOMAIN Files /\ made[n].line \in DOMAIN Files[made[n].file]
  BY <1>1 DEF OriginOK
<1>5. \A x \in DOMAIN p \cap DOMAIN q :
         (\A y \in 1..(x - 1) : p[y] = q[y]) => <<q[x], p[x]>> \notin ProperPrefix
  BY <1>2, <1>4, RoutesAssumption DEF p, q
<1> QED BY <1>3, <1>5

\* Nor does the part in hand begin that of a node it is compared with.
LEMMA NoClashInHand ==
    ASSUME TypeOK, OrderOK, LoaderOK, lpc = "walk",
           NEW m \in DOMAIN node, made[m].above = Above
    PROVE  <<Head(rest), made[m].part>> \notin ProperPrefix
<1> DEFINE p == Files[made[m].file][made[m].line].path
           q == Head(lines).path
           i == Len(made[m].above) + 1
<1>1. OriginOK(m) /\ MadeBefore(m) /\ LinesOK /\ TreeTypeOK /\ LoaderTypeOK
  BY DEF OrderOK, OriginsOK, AllMadeBefore, TypeOK
<1>2. lines # <<>> /\ rest # <<>> /\ EndOf(q, rest)
  BY DEF LoaderOK, InLine
<1>3. /\ q \in Seq(Part) /\ q = Files[loads][LineNumber].path
      /\ loads \in DOMAIN Files /\ LineNumber \in DOMAIN Files[loads]
  BY <1>1, <1>2, LineInHand DEF LoaderTypeOK
<1>4. /\ Above \in Seq(Part) /\ Len(Above) + 1 \in DOMAIN q /\ Head(rest) = q[Len(Above) + 1]
      /\ \A j \in 1..Len(Above) : Above[j] = q[j]
  BY <1>1, <1>2, <1>3, PartInHand
<1>5. Before(made[m].file, made[m].line, loads, LineNumber)
  BY <1>1, <1>4 DEF MadeBefore
<1>6. /\ i \in DOMAIN p /\ p[i] = made[m].part
      /\ \A j \in 1..(i - 1) : p[j] = made[m].above[j]
  BY <1>1, OriginLine
<1>7. made[m].file \in DOMAIN Files /\ made[m].line \in DOMAIN Files[made[m].file]
  BY <1>1 DEF OriginOK
<1>8. /\ i \in DOMAIN q /\ q[i] = Head(rest) /\ i = Len(Above) + 1
      /\ \A j \in 1..(i - 1) : p[j] = q[j]
  <2>1. i = Len(Above) + 1 /\ Len(Above) \in Nat /\ i - 1 = Len(Above)
    BY <1>4
  <2> HIDE DEF i, p, q
  <2> QED BY <1>4, <1>6, <2>1
<1> HIDE DEF p, i
<1>9. \A x \in DOMAIN p \cap DOMAIN q :
         (\A y \in 1..(x - 1) : p[y] = q[y]) => <<q[x], p[x]>> \notin ProperPrefix
  <2> DEFINE r == Files[loads][LineNumber].path
  <2>1. \A x \in DOMAIN p \cap DOMAIN r :
           (\A y \in 1..(x - 1) : p[y] = r[y]) => <<r[x], p[x]>> \notin ProperPrefix
    BY <1>3, <1>5, <1>7, RoutesAssumption DEF p
  <2> QED BY <1>3, <2>1
<1> QED BY <1>6, <1>8, <1>9

\* The origins stay in order while no node is made.
LEMMA OriginsStay ==
    ASSUME OriginsOK, made' = made, DOMAIN node' = DOMAIN node
    PROVE  OriginsOK'
<1>1. ASSUME NEW n \in DOMAIN node PROVE OriginOK(n)'
  <2>1. OriginOK(n)
    BY DEF OriginsOK
  <2> QED BY <2>1 DEF OriginOK
<1>2. ASSUME NEW m \in DOMAIN node, NEW n \in DOMAIN node, m < n PROVE Follows(m, n)'
  <2>1. Follows(m, n)
    BY <1>2 DEF OriginsOK
  <2> QED BY <2>1 DEF Follows
<1> QED BY <1>1, <1>2 DEF OriginsOK

-----------------------------------------------------------------------------
\* What a step may do to the tree and the routes: nodes and routes stay, and a
\* key that is there stays.
Grows ==
    /\ DOMAIN node \subseteq DOMAIN node' /\ DOMAIN routes \subseteq DOMAIN routes'
    /\ \A n \in DOMAIN node : /\ made'[n] = made[n]
                              /\ node[n].key # Garbage => node'[n].key = node[n].key

\* A search is not put off its course by it.
LEMMA SearchesKept ==
    ASSUME TypeOK, Searches, Grows, UNCHANGED search
    PROVE  Searches'
<1> SUFFICES ASSUME NEW t \in Thread PROVE SearchOK(t)'
  BY DEF Searches
<1> USE DEF search
<1>1. SearchOK(t)
  BY DEF Searches
<1>2. Nil \notin DOMAIN node
  BY DEF TypeOK, TreeTypeOK, Nil
<1>3. ASSUME OnCourse(t), Searching(t) PROVE OnCourse(t)'
  <2>1. PICK m \in DOMAIN node : Goal(t, m) /\ Ahead(t, m)
    BY <1>3 DEF OnCourse
  <2>2. made[m].part = Head(url[t]) /\ made[m].part # Garbage /\ node[m].key = made[m].part
    BY <2>1, Origin DEF Goal, IsNode, TypeOK
  <2>3. Goal(t, m)'
    BY <2>1, <2>2 DEF Goal, IsNode, Grows
  <2>4. head[t] \in DOMAIN node \/ head[t] = Nil
    BY <1>1, <1>3 DEF SearchOK, Searching, TypeOK, SearchTypeOK
  <2>5. Ahead(t, m)'
    BY <2>1, <2>4, <1>1, <1>3 DEF Ahead, Grows, Searching, SearchOK, TypeOK, SearchTypeOK
  <2> QED BY <1>3, <2>1, <2>3, <2>5 DEF OnCourse, Grows
<1>4. Searching(t)' <=> Searching(t)
  BY DEF Searching
<1> QED BY <1>1, <1>3, <1>4 DEF SearchOK, Grows

-----------------------------------------------------------------------------
\* All there is to know about the line and the part in hand.
LEMMA InHand ==
    ASSUME IInv, InLine
    PROVE  LET p == Head(lines).path
           IN  /\ p \in Seq(Part) /\ p \in Path /\ p # <<>> /\ lines # <<>>
               /\ Head(lines).handler \in Handler
               /\ Files[loads] \in Seq(Lines) /\ loads \in DOMAIN Files
               /\ LineNumber \in DOMAIN Files[loads] /\ Head(lines) = Files[loads][LineNumber]
               /\ rest \in Seq(Part) /\ rest # <<>> /\ EndOf(p, rest)
               /\ Above \in Seq(Part) /\ Len(Above) \in Nat /\ Len(Above) = Len(p) - Len(rest)
               /\ Len(Above) + 1 \in DOMAIN p
               /\ Head(rest) \in Part /\ Head(rest) = p[Len(Above) + 1]
               /\ Above = SubSeq(p, 1, (Len(Above) + 1) - 1)
               /\ \A j \in 1..Len(Above) : Above[j] = p[j]
<1>1. /\ LoaderTypeOK /\ LinesOK
      /\ lines # <<>> /\ rest # <<>> /\ EndOf(Head(lines).path, rest)
  BY DEF IInv, TypeOK, OrderOK, LoaderOK
<1>2. rest \in Seq(Part) /\ loads \in DOMAIN Files
  BY <1>1 DEF LoaderTypeOK
<1> QED BY <1>1, <1>2, LineInHand, PartInHand

\* The loader's link leads to the first of the nodes it has not compared.
LEMMA LinkInHand ==
    ASSUME IInv, InLine
    PROVE  /\ After \in Nat /\ Leads(Deref(at), Above, After) /\ Deref(at) \in Nat
           /\ at.link \in {"sibling", "child"} => at.of \in DOMAIN node
           /\ at = AtRoot <=> at.link = "root"
<1>1. /\ PlaceOK /\ LinksOK /\ TreeTypeOK
      /\ at \in [of : Nat, link : {"root", "sibling", "child"}]
  BY DEF IInv, LoaderOK, TreeOK, TypeOK, LoaderTypeOK
<1>2. CASE at.link = "root"
  <2>1. at = AtRoot
    BY <1>1, <1>2 DEF PlaceOK, AtRoot
  <2> QED BY <1>1, <1>2, <2>1 DEF PlaceOK, LinksOK, Deref, After, TreeTypeOK
<1>3. CASE at.link = "sibling"
  <2>1. at.of \in DOMAIN node /\ made[at.of].above = Above /\ node[at.of] \in Nodes /\ at # AtRoot
    BY <1>1, <1>3, Origin DEF PlaceOK, AtRoot
  <2> QED BY <1>1, <1>3, <2>1 DEF LinksOK, Deref, After, Nodes
<1>4. CASE at.link = "child"
  <2>1. at.of \in DOMAIN node /\ Below(at.of) = Above /\ node[at.of] \in Nodes /\ at # AtRoot
    BY <1>1, <1>4, Origin DEF PlaceOK, AtRoot
  <2> QED BY <1>1, <1>4, <2>1 DEF LinksOK, Deref, After, Nodes
<1> QED BY <1>1, <1>2, <1>3, <1>4

-----------------------------------------------------------------------------
\* What stays as it is while only the loader moves.
Unmoved ==
    /\ TreeTypeOK /\ RouteTypeOK /\ SearchTypeOK
    /\ TreeOK /\ OriginsOK /\ RoutesInTree /\ Searches

\* While only the loader moves, and the last node has its key, the rest stays.
LEMMA LoaderMoves ==
    ASSUME IInv, UNCHANGED <<tree, routes, search>>, lpc # "key", lpc' # "key"
    PROVE  Unmoved'
<1> USE DEF tree, search
<1>1. TreeTypeOK' /\ RouteTypeOK' /\ SearchTypeOK'
  BY DEF IInv, TypeOK, TreeTypeOK, RouteTypeOK, SearchTypeOK, Searching
<1>2. TreeOK'
  <2>1. LinksOK' /\ Distinct' /\ Descended'
    BY DEF IInv, TreeOK, LinksOK, Leads, Below, Distinct, Descended
  <2>2. KeysOK'
    BY DEF IInv, TreeOK, KeysOK
  <2> QED BY <2>1, <2>2 DEF TreeOK
<1>3. OriginsOK'
  BY OriginsStay DEF IInv, OrderOK
<1>4. RoutesInTree'
  BY DEF IInv, RoutesOK, RoutesInTree, RouteOK, IsNode
<1>5. Searches'
  BY SearchesKept DEF IInv, Grows
<1> QED BY <1>1, <1>2, <1>3, <1>4, <1>5 DEF Unmoved

\* The lines of a file that is opened come after those of the last.
LEMMA ReloadStep ==
    ASSUME IInv, Reload
    PROVE  IInv'
<1>1. Unmoved'
  BY LoaderMoves DEF Reload
<1>2. /\ lines = <<>> /\ loads \in DOMAIN Files /\ Len(Files) \in Nat
      /\ Files \in Seq(Seq(Lines)) /\ LinesOK
  BY FilesAssumption DEF IInv, TypeOK, LoaderTypeOK, LoaderOK, OrderOK, Reload
<1>3. loads' = loads + 1 /\ loads \in Nat /\ loads' \in DOMAIN Files /\ lines' = Files[loads']
  BY <1>2 DEF Reload
<1>4. Files[loads'] \in Seq(Lines) /\ Files[loads] \in Seq(Lines)
  BY <1>2, <1>3
<1>5. LoaderTypeOK' /\ LinesOK' /\ LineNumber' = 1 /\ LineNumber = Len(Files[loads]) + 1
  BY <1>2, <1>3, <1>4 DEF IInv, TypeOK, LoaderTypeOK, Reload, LinesOK, LineNumber
<1>6. AllMadeBefore'
  <2> SUFFICES ASSUME NEW n \in DOMAIN node PROVE MadeBefore(n)'
    BY DEF AllMadeBefore, Reload, tree
  <2>1. MadeBefore(n) /\ ~InLine /\ made[n].file \in Nat
    BY Origin DEF IInv, OrderOK, AllMadeBefore, TypeOK, Reload, InLine
  <2>2. made[n].file < loads'
    BY <1>3, <2>1 DEF MadeBefore, Before
  <2> QED BY <2>2 DEF MadeBefore, Before, Reload, tree
<1>7. LoaderOK'
  BY DEF LoaderOK, InLine, Reload
<1>8. LinesSet'
  <2> SUFFICES ASSUME NEW k \in DOMAIN Files, NEW i \in DOMAIN Files[k],
                      Before(k, i, loads', 1)
               PROVE  Files[k][i].path \in DOMAIN routes
    BY <1>5 DEF LinesSet, Reload
  <2>1. k \in Nat /\ i \in Nat /\ k <= loads /\ (k = loads => i <= Len(Files[loads]))
    <3>1. Files[k] \in Seq(Lines)
      BY <1>2
    <3> QED BY <1>2, <1>3, <3>1, SMTT(30) DEF Before
  <2>2. Before(k, i, loads, LineNumber)
    BY <1>3, <1>4, <1>5, <2>1 DEF Before
  <2> QED BY <2>2 DEF IInv, RoutesOK, LinesSet
<1> QED BY <1>1, <1>5, <1>6, <1>7, <1>8 DEF IInv, TypeOK, Unmoved, OrderOK, RoutesOK

\* A line begins at the root, with nothing taken from its path.
LEMMA LoadLineStep ==
    ASSUME IInv, LoadLine
    PROVE  IInv'
<1>1. Unmoved'
  BY LoaderMoves DEF LoadLine
<1>2. /\ LoaderTypeOK /\ LinesOK /\ lines # <<>> /\ lpc = "line"
      /\ lpc' = "walk" /\ at' = AtRoot /\ rest' = Head(lines).path
      /\ UNCHANGED <<tree, loads, lines, routes, search>>
  BY DEF IInv, TypeOK, OrderOK, LoadLine
<1>3. Head(lines).path \in Seq(Part) /\ Head(lines).path # <<>>
  BY <1>2, LineInHand
<1>4. LoaderTypeOK'
  BY <1>2, <1>3 DEF LoaderTypeOK, AtRoot, Nil
<1>5. EndOf(rest', rest') /\ Taken(rest', rest') = <<>>
  BY <1>2, <1>3, TakenFirst
<1>6. Above' = <<>> /\ EndOf(Head(lines).path, rest)'
  BY <1>2, <1>5 DEF Above, Taken, EndOf
<1>7. LinesOK' /\ LineNumber' = LineNumber
  BY <1>2 DEF LinesOK, LineNumber
<1>8. AllMadeBefore'
  BY <1>2, <1>7 DEF IInv, OrderOK, AllMadeBefore, MadeBefore, InLine, tree
<1>9. LoaderOK'
  <2>1. at'.link = "root" /\ at'.of = Nil
    BY <1>2 DEF AtRoot
  <2>2. Len(Above') = 0 /\ After' = 0
    BY <1>6, <2>1 DEF After
  <2>3. \A m \in DOMAIN node : ~(m <= 0)
    BY DEF IInv, TypeOK, TreeTypeOK
  <2> QED BY <1>2, <1>3, <1>6, <2>1, <2>2, <2>3 DEF LoaderOK, InLine, PlaceOK, tree
<1>10. LinesSet'
  BY <1>2, <1>7 DEF IInv, RoutesOK, LinesSet
<1> QED BY <1>1, <1>4, <1>7, <1>8, <1>9, <1>10 DEF IInv, TypeOK, Unmoved, OrderOK, RoutesOK

\* At the end of a file every line of it has set its route.
LEMMA LoadEndStep ==
    ASSUME IInv, LoadEnd
    PROVE  IInv'
<1>1. Unmoved'
  BY LoaderMoves DEF LoadEnd
<1>2. /\ lines = <<>> /\ lpc = "line" /\ lpc' = "idle"
      /\ UNCHANGED <<tree, loads, lines, at, rest, routes, search>>
  BY DEF LoadEnd
<1>3. LoaderTypeOK' /\ LinesOK' /\ LineNumber' = LineNumber
  BY <1>2 DEF IInv, TypeOK, OrderOK, LoaderTypeOK, LinesOK, LineNumber
<1>4. AllMadeBefore'
  BY <1>2, <1>3 DEF IInv, OrderOK, AllMadeBefore, MadeBefore, InLine, tree
<1>5. LoaderOK'
  BY <1>2 DEF LoaderOK, InLine
<1>6. LinesSet'
  BY <1>2, <1>3 DEF IInv, RoutesOK, LinesSet
<1> QED BY <1>1, <1>3, <1>4, <1>5, <1>6 DEF IInv, TypeOK, Unmoved, OrderOK, RoutesOK

\* The keys that are compared are there: no node lacks one while the loader
\* walks, and what it meets with the same key is the node for its part.
LEMMA WalkCompares ==
    ASSUME IInv, lpc = "walk", Deref(at) # Nil,
           NEW same \in Matches(node[Deref(at)].key, Head(rest))
    PROVE  /\ Deref(at) \in DOMAIN node /\ made[Deref(at)].above = Above
           /\ same <=> made[Deref(at)].part = Head(rest)
<1>1. Deref(at) \in DOMAIN node /\ made[Deref(at)].above = Above
  BY LinkInHand DEF Leads, InLine
<1>2. node[Deref(at)].key = made[Deref(at)].part /\ node[Deref(at)].key # Garbage
  BY <1>1, Origin DEF IInv, TypeOK, TreeOK, KeysOK
<1>3. <<Head(rest), node[Deref(at)].key>> \notin ProperPrefix
  BY <1>1, <1>2, NoClashInHand DEF IInv
<1> QED BY <1>1, <1>2, <1>3 DEF Matches

\* The loader goes past a node with another part, and stays at the one for its own.
LEMMA WalkStep ==
    ASSUME IInv, Walk
    PROVE  IInv'
<1>1. /\ lpc = "walk" /\ lpc' \in {"part", "walk"}
      /\ UNCHANGED <<tree, loads, lines, rest, routes, search>>
  BY DEF Walk
<1>2. Unmoved'
  BY <1>1, LoaderMoves
<1> DEFINE d == Deref(at)
<1>3. /\ d \in DOMAIN node /\ made[d].above = Above /\ d \in Nat
      /\ \/ made[d].part = Head(rest) /\ lpc' = "part" /\ at' = at
         \/ made[d].part # Head(rest) /\ lpc' = "walk" /\ at' = [of |-> d, link |-> "sibling"]
  <2>1. PICK same \in Matches(node[d].key, Head(rest)) :
           IF same THEN lpc' = "part" /\ UNCHANGED at
                   ELSE at' = [of |-> d, link |-> "sibling"] /\ UNCHANGED lpc
    BY DEF Walk
  <2>2. d \in DOMAIN node /\ made[d].above = Above /\ (same <=> made[d].part = Head(rest))
    BY <1>1, <2>1, WalkCompares DEF Walk
  <2>3. d \in Nat
    BY <1>1, LinkInHand DEF InLine
  <2> QED BY <1>1, <2>1, <2>2, <2>3
<1>4. LoaderTypeOK' /\ LinesOK' /\ LineNumber' = LineNumber /\ Above' = Above
  BY <1>1, <1>3 DEF IInv, TypeOK, OrderOK, LoaderTypeOK, LinesOK, LineNumber, Above
<1>5. AllMadeBefore'
  <2>1. \A n \in DOMAIN node : Len(made[n].above) \in Nat
    BY Origin DEF IInv, TypeOK
  <2>2. Len(Above) \in Nat
    BY <1>1, InHand DEF InLine
  <2> QED BY <1>1, <1>4, <2>1, <2>2 DEF IInv, OrderOK, AllMadeBefore, MadeBefore, InLine, tree
<1>6. LoaderOK'
  <2>1. /\ InLine /\ InLine' /\ lines # <<>> /\ rest # <<>> /\ EndOf(Head(lines).path, rest)
        /\ PlaceOK /\ \A i \in 1..Len(Above) : Here(Head(lines).path, i)
        /\ \A m \in DOMAIN node :
              made[m].above = Above /\ m <= After => made[m].part # Head(rest)
    BY <1>1, <1>3 DEF IInv, LoaderOK, InLine
  <2>2. \A i \in 1..Len(Above') : Here(Head(lines).path, i)'
    BY <1>1, <1>4, <2>1 DEF Here, IsNode, tree
  <2>3. CASE lpc' = "part"
    <3>1. Deref(at)' = d /\ PlaceOK'
      BY <1>1, <1>3, <1>4, <2>1, <2>3 DEF Deref, PlaceOK, Below, tree
    <3> QED BY <1>1, <1>3, <1>4, <2>1, <2>2, <2>3, <3>1 DEF LoaderOK, EndOf, tree
  <2>4. CASE lpc' = "walk"
    <3>1. PlaceOK' /\ After' = d
      BY <1>1, <1>3, <1>4, <2>4 DEF PlaceOK, After, tree
    <3>2. ASSUME NEW m \in DOMAIN node, made[m].above = Above, m <= d
          PROVE  made[m].part # Head(rest)
      <4>1. m <= After \/ d <= m
        BY <2>1, <3>2, LinkInHand DEF Leads, IInv, TypeOK, TreeTypeOK
      <4>2. m <= After \/ m = d
        BY <1>3, <3>2, <4>1 DEF IInv, TypeOK, TreeTypeOK
      <4> QED BY <1>3, <2>1, <2>4, <3>2, <4>2
    <3> QED BY <1>1, <1>4, <2>1, <2>2, <2>4, <3>1, <3>2 DEF LoaderOK, EndOf, tree
  <2> QED BY <1>3, <2>3, <2>4
<1>7. LinesSet'
  BY <1>1, <1>4 DEF IInv, RoutesOK, LinesSet
<1> QED BY <1>2, <1>4, <1>5, <1>6, <1>7 DEF IInv, TypeOK, Unmoved, OrderOK, RoutesOK

\* While the loader is at a node that has its key, this is the node for its part.
LEMMA PartHere ==
    ASSUME IInv, lpc = "part"
    PROVE  LET i == Len(Above) + 1
               p == Head(lines).path
           IN  /\ IsNode(Deref(at), Above, Head(rest))
               /\ IsNode(Deref(at), SubSeq(p, 1, i - 1), p[i])
               /\ \A j \in 1..i : Here(p, j)
<1>1. IsNode(Deref(at), Above, Head(rest))
  BY DEF IInv, LoaderOK, IsNode, TreeOK, KeysOK
<1>2. /\ Above = SubSeq(Head(lines).path, 1, (Len(Above) + 1) - 1) /\ Len(Above) \in Nat
      /\ Head(rest) = Head(lines).path[Len(Above) + 1]
  BY InHand DEF InLine
<1>3. Here(Head(lines).path, Len(Above) + 1)
  BY <1>1, <1>2 DEF Here, IsNode
<1>4. \A j \in 1..Len(Above) : Here(Head(lines).path, j)
  BY DEF IInv, LoaderOK, InLine
<1>5. \A j \in 1..(Len(Above) + 1) : j \in 1..Len(Above) \/ j = Len(Above) + 1
  BY <1>2
<1>6. \A j \in 1..(Len(Above) + 1) : Here(Head(lines).path, j)
  BY <1>3, <1>4, <1>5
<1> QED BY <1>1, <1>2, <1>6

\* What is below the node in hand is for the next part of the line.
LEMMA EnterStep ==
    ASSUME IInv, Enter
    PROVE  IInv'
<1>1. /\ lpc = "part" /\ lpc' = "walk" /\ Len(rest) > 1
      /\ at' = [of |-> Deref(at), link |-> "child"] /\ rest' = Tail(rest)
      /\ UNCHANGED <<tree, loads, lines, routes, search>>
  BY DEF Enter
<1>2. Unmoved'
  BY <1>1, LoaderMoves
<1> DEFINE d == Deref(at)
           p == Head(lines).path
<1>3. /\ d \in DOMAIN node /\ made[d].above = Above /\ made[d].part = Head(rest) /\ d \in Nat
  BY <1>1, LinkInHand DEF IInv, LoaderOK, InLine
<1>4. /\ p \in Seq(Part) /\ rest \in Seq(Part) /\ rest # <<>> /\ EndOf(p, rest)
      /\ lines # <<>> /\ Len(Above) \in Nat /\ Head(rest) \in Part /\ Above \in Seq(Part)
  BY <1>1, InHand DEF InLine
<1>5. /\ EndOf(p, Tail(rest)) /\ Tail(rest) \in Seq(Part) /\ Len(Tail(rest)) = Len(rest) - 1
      /\ Taken(p, Tail(rest)) = Append(Taken(p, rest), Head(rest))
  BY <1>4, TakenStep
<1>6. Above' = Append(Above, Head(rest)) /\ EndOf(Head(lines).path, rest)'
  BY <1>1, <1>5 DEF Above, Taken, EndOf
<1>7. Len(Above') = Len(Above) + 1
  BY <1>4, <1>6, AppendProperties
<1>8. LoaderTypeOK' /\ LinesOK' /\ LineNumber' = LineNumber
  BY <1>1, <1>3, <1>5 DEF IInv, TypeOK, OrderOK, LoaderTypeOK, LinesOK, LineNumber
<1>9. AllMadeBefore'
  <2>1. \A n \in DOMAIN node : Len(made[n].above) \in Nat
    BY Origin DEF IInv, TypeOK
  <2> QED BY <1>1, <1>4, <1>7, <1>8, <2>1
          DEF IInv, OrderOK, AllMadeBefore, MadeBefore, InLine, tree
<1>10. LoaderOK'
  <2>1. PlaceOK' /\ After' = 0
    BY <1>1, <1>3, <1>6 DEF PlaceOK, Below, After, tree
  <2>2. \A i \in 1..Len(Above') : Here(Head(lines).path, i)'
    <3>1. \A i \in 1..(Len(Above) + 1) : Here(p, i)
      BY <1>1, PartHere
    <3> QED BY <1>1, <1>7, <3>1 DEF Here, IsNode, tree
  <2>3. rest' # <<>>
    <3>1. Len(rest') # 0
      BY <1>1, <1>4, <1>5, SMTT(30)
    <3> QED BY <3>1
  <2>4. \A m \in DOMAIN node : ~(m <= 0)
    BY DEF IInv, TypeOK, TreeTypeOK
  <2> QED BY <1>1, <1>4, <1>6, <2>1, <2>2, <2>3, <2>4 DEF LoaderOK, InLine, tree
<1>11. LinesSet'
  BY <1>1, <1>8 DEF IInv, RoutesOK, LinesSet
<1> QED BY <1>2, <1>8, <1>9, <1>10, <1>11 DEF IInv, TypeOK, Unmoved, OrderOK, RoutesOK

\* The node in hand gets its key.
LEMMA WriteKeyStep ==
    ASSUME IInv, WriteKey
    PROVE  IInv'
<1> DEFINE d == Deref(at)
<1>1. /\ lpc = "key" /\ lpc' = "part" /\ node' = [node EXCEPT ![d].key = Head(rest)]
      /\ UNCHANGED <<root, made, loads, lines, at, rest, routes, search>>
  BY DEF WriteKey
<1>2. /\ d \in DOMAIN node /\ d = Len(node) /\ made[d].part = Head(rest)
      /\ Head(rest) \in Part /\ TreeTypeOK
  BY <1>1, InHand DEF IInv, LoaderOK, TypeOK, InLine
<1>3. node \in Seq(Nodes) /\ node[d] \in Nodes
  BY <1>2, Origin DEF TreeTypeOK
<1>4. /\ node' \in Seq(Nodes) /\ DOMAIN node' = DOMAIN node /\ Len(node') = Len(node)
      /\ node'[d].key = Head(rest)
      /\ \A n \in DOMAIN node : n # d => node'[n] = node[n]
      /\ \A n \in DOMAIN node : /\ node'[n].handler = node[n].handler
                                /\ node'[n].sibling = node[n].sibling
                                /\ node'[n].child = node[n].child
  <2>1. [node[d] EXCEPT !.key = Head(rest)] \in Nodes
    BY <1>2, <1>3 DEF Nodes
  <2>2. node' = [node EXCEPT ![d] = [node[d] EXCEPT !.key = Head(rest)]]
    BY <1>1
  <2>3. d \in 1..Len(node) /\ DOMAIN node = 1..Len(node)
    BY <1>2, <1>3
  <2>4. node' \in Seq(Nodes) /\ Len(node') = Len(node)
    BY <1>3, <2>1, <2>2, <2>3, ExceptSeq
  <2> QED BY <1>2, <1>3, <2>2, <2>3, <2>4 DEF Nodes
<1> HIDE DEF d
<1>5. TypeOK'
  BY <1>1, <1>4 DEF IInv, TypeOK, TreeTypeOK, RouteTypeOK, LoaderTypeOK, SearchTypeOK,
         Searching, search
<1>6. \A n \in DOMAIN node : node'[n].key = made[n].part
  BY <1>1, <1>2, <1>4 DEF IInv, TreeOK, KeysOK
<1>7. TreeOK'
  <2>1. Distinct' /\ Descended'
    BY <1>1, <1>4 DEF IInv, TreeOK, Distinct, Descended, Below
  <2>2. KeysOK'
    BY <1>1, <1>4, <1>6 DEF KeysOK
  <2>3. LinksOK'
    <3>1. LinksOK /\ DOMAIN node' = DOMAIN node /\ UNCHANGED <<root, made>>
      BY <1>1, <1>4 DEF IInv, TreeOK
    <3>2. Leads(root, <<>>, 0)'
      BY <3>1 DEF LinksOK, Leads
    <3>3. ASSUME NEW n \in DOMAIN node
          PROVE  Leads(node[n].sibling, made[n].above, n)' /\ Leads(node[n].child, Below(n), 0)'
      <4>1. node'[n].sibling = node[n].sibling /\ node'[n].child = node[n].child
        BY <1>4
      <4> QED BY <3>1, <4>1 DEF LinksOK, Leads, Below
    <3> QED BY <3>1, <3>2, <3>3 DEF LinksOK
  <2> QED BY <2>1, <2>2, <2>3 DEF TreeOK
<1>8. OrderOK'
  <2>1. LinesOK' /\ LineNumber' = LineNumber /\ Above' = Above
    BY <1>1 DEF IInv, OrderOK, LinesOK, LineNumber, Above
  <2>2. OriginsOK'
    BY <1>1, <1>4, OriginsStay DEF IInv, OrderOK
  <2>3. AllMadeBefore'
    BY <1>1, <1>4, <2>1 DEF IInv, OrderOK, AllMadeBefore, MadeBefore, InLine
  <2> QED BY <2>1, <2>2, <2>3 DEF OrderOK
<1>9. Grows
  BY <1>1, <1>4, <1>6, Origin DEF Grows, IInv, TypeOK, TreeOK, KeysOK
<1>10. \A c, x : \A n \in DOMAIN node :
           IsNode(n, c, x) /\ x # Garbage => n \in DOMAIN node'
           /\ made'[n].above = c /\ made'[n].part = x /\ node'[n].key = x
  BY <1>1, <1>4, <1>6 DEF IsNode
<1>11. LoaderOK'
  <2>1. Above' = Above /\ Deref(at)' = Deref(at)
    <3>1. Above' = Above
      BY <1>1 DEF Above
    <3>2. Deref(at)' = Deref(at)
      BY <1>1, <1>4, LinkInHand DEF Deref, InLine, IInv, TypeOK, LoaderTypeOK
    <3> QED BY <3>1, <3>2
  <2>2. PlaceOK'
    BY <1>1, <1>4, <2>1 DEF IInv, LoaderOK, InLine, PlaceOK, Below
  <2>3. \A i \in 1..Len(Above') : Here(Head(lines).path, i)'
    <3>1. \A i \in 1..Len(Above) : Here(Head(lines).path, i) /\ Head(lines).path[i] # Garbage
      <4>1. \A i \in 1..Len(Above) : Here(Head(lines).path, i) /\ Head(lines).path[i] = Above[i]
        BY <1>1, InHand DEF IInv, LoaderOK, InLine
      <4>2. Above \in Seq(Part)
        BY <1>1, InHand DEF InLine
      <4>3. \A i \in 1..Len(Above) : Above[i] \in Part
        BY <4>2
      <4> QED BY <4>1, <4>3, PathAssumption
    <3> QED BY <1>1, <1>10, <2>1, <3>1 DEF Here, IsNode
  <2> QED BY <1>1, <1>2, <1>4, <2>1, <2>2, <2>3 DEF IInv, LoaderOK, InLine, EndOf, d
<1>12. RoutesOK'
  <2>1. RoutesInTree'
    <3> SUFFICES ASSUME NEW p \in DOMAIN routes, NEW i \in DOMAIN p
                 PROVE  \E n \in DOMAIN node' :
                           /\ IsNode(n, SubSeq(p, 1, i - 1), p[i])'
                           /\ i = Len(p) => node'[n].handler = routes[p]
      BY <1>1 DEF RoutesInTree, RouteOK
    <3>1. PICK n \in DOMAIN node : /\ IsNode(n, SubSeq(p, 1, i - 1), p[i])
                                   /\ i = Len(p) => node[n].handler = routes[p]
      BY DEF IInv, RoutesOK, RoutesInTree, RouteOK
    <3>2. made[n].part = p[i] /\ made[n].part # Garbage
      BY <3>1, Origin DEF IsNode, IInv, TypeOK
    <3> QED BY <1>4, <1>10, <3>1, <3>2 DEF IsNode
  <2>2. LinesSet'
    BY <1>1 DEF IInv, RoutesOK, LinesSet, LineNumber
  <2> QED BY <2>1, <2>2 DEF RoutesOK
<1>13. Searches'
  BY <1>1, <1>9, SearchesKept DEF IInv
<1> QED BY <1>5, <1>7, <1>8, <1>11, <1>12, <1>13 DEF IInv

\* A path is what is above its last part, and this part.
LEMMA LastPart ==
    ASSUME NEW S, NEW p \in Seq(S), p # <<>>, NEW q \in Seq(S), q # <<>>,
           SubSeq(p, 1, Len(p) - 1) = SubSeq(q, 1, Len(q) - 1), p[Len(p)] = q[Len(q)]
    PROVE  p = q
<1>1. ASSUME NEW r \in Seq(S), r # <<>>
      PROVE  r = SubSeq(r, 1, Len(r) - 1) \o <<r[Len(r)]>>
  <2>1. Len(r) \in 1..Len(r) /\ 1 \in 1..Len(r) /\ Len(r) \in Nat
    BY <1>1
  <2>2. SubSeq(r, 1, Len(r)) = SubSeq(r, 1, Len(r) - 1) \o <<r[Len(r)]>>
    BY <2>1, SubSeqRecursiveSecond
  <2> QED BY <2>2, SubSeqFull
<1>2. p = SubSeq(p, 1, Len(p) - 1) \o <<p[Len(p)]>>
  BY <1>1
<1>3. q = SubSeq(q, 1, Len(q) - 1) \o <<q[Len(q)]>>
  BY <1>1
<1> QED BY <1>2, <1>3

\* The line in hand has its route: the loader has come to the node of its path.
LEMMA SetHandlerStep ==
    ASSUME IInv, SetHandler
    PROVE  IInv'
<1> DEFINE d == Deref(at)
           p == Head(lines).path
           h == Head(lines).handler
<1>1. /\ lpc = "part" /\ lpc' = "line" /\ Len(rest) = 1
      /\ node' = [node EXCEPT ![d].handler = h]
      /\ routes' = [q \in DOMAIN routes \cup {p} |-> IF q = p THEN h ELSE routes[q]]
      /\ lines' = Tail(lines)
      /\ UNCHANGED <<root, made, loads, at, rest, search>>
  BY DEF SetHandler
<1>2. /\ p \in Seq(Part) /\ p \in Path /\ p # <<>> /\ h \in Handler /\ lines # <<>>
      /\ Len(p) = Len(Above) + 1 /\ Len(Above) \in Nat /\ TreeTypeOK
      /\ Files[loads] \in Seq(Lines) /\ loads \in DOMAIN Files
      /\ LineNumber \in DOMAIN Files[loads] /\ Head(lines) = Files[loads][LineNumber]
  BY <1>1, InHand DEF IInv, TypeOK, InLine
<1>3. /\ IsNode(d, SubSeq(p, 1, Len(p) - 1), p[Len(p)])
      /\ \A j \in 1..Len(p) : Here(p, j)
  BY <1>1, <1>2, PartHere
<1>4. /\ node' \in Seq(Nodes) /\ DOMAIN node' = DOMAIN node /\ Len(node') = Len(node)
      /\ d \in DOMAIN node /\ node'[d].handler = h
      /\ \A n \in DOMAIN node : n # d => node'[n] = node[n]
      /\ \A n \in DOMAIN node : /\ node'[n].key = node[n].key
                                /\ node'[n].sibling = node[n].sibling
                                /\ node'[n].child = node[n].child
  <2>1. d \in DOMAIN node /\ node \in Seq(Nodes)
    BY <1>2, <1>3 DEF IsNode, TreeTypeOK
  <2>2. node[d] \in Nodes
    BY <1>2, <2>1, Origin
  <2>3. [node[d] EXCEPT !.handler = h] \in Nodes
    BY <1>2, <2>2 DEF Nodes
  <2>4. node' = [node EXCEPT ![d] = [node[d] EXCEPT !.handler = h]]
    BY <1>1
  <2>5. d \in 1..Len(node) /\ DOMAIN node = 1..Len(node)
    BY <2>1
  <2>6. node' \in Seq(Nodes) /\ Len(node') = Len(node)
    BY <2>1, <2>3, <2>4, <2>5, ExceptSeq
  <2> QED BY <2>1, <2>2, <2>4, <2>5, <2>6 DEF Nodes
<1>5. /\ lines' \in Seq(Lines) /\ LinesOK' /\ LineNumber' = LineNumber + 1 /\ LineNumber \in Nat
      /\ \A i \in Nat : i < LineNumber' => i < LineNumber \/ i = LineNumber
  <2>1. lines \in Seq(Lines) /\ LinesOK
    BY DEF IInv, TypeOK, LoaderTypeOK, OrderOK
  <2>2. /\ Tail(lines) \in Seq(Lines) /\ Len(Tail(lines)) = Len(lines) - 1
        /\ \A i \in 1..Len(Tail(lines)) : Tail(lines)[i] = lines[i + 1]
    BY <1>2, <2>1, HeadTailProperties
  <2>3. Len(lines) \in Nat \ {0} /\ Len(Files[loads]) \in Nat
    BY <1>2, <2>1
  <2>4. LineNumber' = LineNumber + 1 /\ LineNumber \in Nat
    BY <1>1, <1>2, <2>2, <2>3 DEF LineNumber
  <2>5. LinesOK'
    BY <1>1, <2>1, <2>2, <2>3 DEF LinesOK
  <2> QED BY <1>1, <2>2, <2>4, <2>5
<1> HIDE DEF d, p, h
<1>6. RouteTypeOK'
  <2>1. DOMAIN routes' = DOMAIN routes \cup {p} /\ routes' \in [DOMAIN routes' -> Handler]
    BY <1>1, <1>2 DEF IInv, TypeOK, RouteTypeOK
  <2>2. IsFiniteSet(DOMAIN routes \cup {p})
    BY FS_AddElement DEF IInv, TypeOK, RouteTypeOK
  <2> QED BY <1>2, <2>1, <2>2 DEF IInv, TypeOK, RouteTypeOK
<1>7. TypeOK'
  <2>1. TreeTypeOK'
    BY <1>1, <1>4 DEF IInv, TypeOK, TreeTypeOK
  <2>2. LoaderTypeOK'
    BY <1>1, <1>5 DEF IInv, TypeOK, LoaderTypeOK
  <2>3. SearchTypeOK'
    BY <1>1 DEF IInv, TypeOK, SearchTypeOK, Searching, search
  <2> QED BY <1>6, <2>1, <2>2, <2>3 DEF TypeOK
<1>8. TreeOK'
  <2>1. Distinct' /\ KeysOK' /\ Descended'
    BY <1>1, <1>4 DEF IInv, TreeOK, Distinct, KeysOK, Descended, Below
  <2>2. LinksOK /\ DOMAIN node' = DOMAIN node /\ UNCHANGED <<root, made>>
    BY <1>1, <1>4 DEF IInv, TreeOK
  <2>3. Leads(root, <<>>, 0)'
    BY <2>2 DEF LinksOK, Leads
  <2>4. ASSUME NEW n \in DOMAIN node
        PROVE  Leads(node[n].sibling, made[n].above, n)' /\ Leads(node[n].child, Below(n), 0)'
    <3>1. node'[n].sibling = node[n].sibling /\ node'[n].child = node[n].child
      BY <1>4
    <3> QED BY <2>2, <3>1 DEF LinksOK, Leads, Below
  <2> QED BY <2>1, <2>2, <2>3, <2>4 DEF TreeOK, LinksOK
<1>9. OrderOK'
  <2>1. OriginsOK'
    BY <1>1, <1>4, OriginsStay DEF IInv, OrderOK
  <2>2. ASSUME NEW n \in DOMAIN node PROVE MadeBefore(n)'
    <3>1. MadeBefore(n) /\ made[n].line \in Nat
      BY <1>2, Origin DEF IInv, OrderOK, AllMadeBefore
    <3> QED BY <1>1, <1>5, <3>1 DEF MadeBefore, Before
  <2> QED BY <1>4, <1>5, <2>1, <2>2 DEF OrderOK, AllMadeBefore
<1>10. LoaderOK'
  BY <1>1 DEF LoaderOK, InLine
<1>11. RoutesOK'
  <2>1. ASSUME NEW q \in DOMAIN routes', NEW i \in DOMAIN q
        PROVE  \E n \in DOMAIN node' : /\ IsNode(n, SubSeq(q, 1, i - 1), q[i])'
                                       /\ i = Len(q) => node'[n].handler = routes'[q]
    <3>1. CASE q = p
      <4>1. routes'[q] = h
        BY <1>1, <3>1
      <4>2. i \in 1..Len(p)
        BY <1>2, <3>1
      <4>3. CASE i = Len(p)
        BY <1>1, <1>3, <1>4, <3>1, <4>1, <4>3 DEF IsNode
      <4>4. CASE i # Len(p)
        <5>1. PICK n \in DOMAIN node : IsNode(n, SubSeq(q, 1, i - 1), q[i])
          BY <1>3, <3>1, <4>2 DEF Here
        <5>2. /\ n \in DOMAIN node' /\ made'[n].above = SubSeq(q, 1, i - 1)
              /\ made'[n].part = q[i] /\ node'[n].key = q[i]
          BY <1>1, <1>4, <5>1 DEF IsNode
        <5> QED BY <3>1, <4>4, <5>2 DEF IsNode
      <4> QED BY <4>3, <4>4
    <3>2. CASE q # p
      <4>1. q \in DOMAIN routes /\ routes'[q] = routes[q] /\ q \in Seq(Part) /\ q # <<>>
        BY <1>1, <3>2, PathAssumption DEF IInv, TypeOK, RouteTypeOK
      <4>2. PICK n \in DOMAIN node : /\ IsNode(n, SubSeq(q, 1, i - 1), q[i])
                                     /\ i = Len(q) => node[n].handler = routes[q]
        BY <4>1 DEF IInv, RoutesOK, RoutesInTree, RouteOK
      <4>3. i = Len(q) => n # d
        <5> SUFFICES ASSUME i = Len(q), n = d PROVE FALSE
          OBVIOUS
        <5>1. /\ SubSeq(p, 1, Len(p) - 1) = SubSeq(q, 1, Len(q) - 1)
              /\ p[Len(p)] = q[Len(q)]
          BY <1>3, <4>2 DEF IsNode
        <5>2. p \in Seq(Part) /\ p # <<>> /\ q \in Seq(Part) /\ q # <<>> /\ q # p
          BY <1>2, <3>2, <4>1
        <5> HIDE DEF p, d
        <5> QED BY <5>1, <5>2, LastPart
      <4>4. /\ n \in DOMAIN node' /\ made'[n].above = SubSeq(q, 1, i - 1)
            /\ made'[n].part = q[i] /\ node'[n].key = q[i]
        BY <1>1, <1>4, <4>2 DEF IsNode
      <4>5. i = Len(q) => node'[n].handler = routes'[q]
        BY <1>4, <4>1, <4>2, <4>3
      <4> QED BY <4>4, <4>5 DEF IsNode
    <3> QED BY <3>1, <3>2
  <2>2. RoutesInTree'
    BY <2>1 DEF RoutesInTree, RouteOK
  <2>3. ASSUME NEW k \in DOMAIN Files, NEW i \in DOMAIN Files[k],
               Before(k, i, loads, LineNumber')
        PROVE  Files[k][i].path \in DOMAIN routes'
    <3>1. DOMAIN routes' = DOMAIN routes \cup {p}
      BY <1>1
    <3>2. i \in Nat
      <4>1. Files[k] \in Seq(Lines)
        BY FilesAssumption
      <4> QED BY <4>1
    <3>3. Before(k, i, loads, LineNumber) \/ (k = loads /\ i = LineNumber)
      BY <1>5, <2>3, <3>2 DEF Before
    <3>4. Files[loads][LineNumber].path = p
      BY <1>2 DEF p
    <3> QED BY <3>1, <3>3, <3>4 DEF IInv, RoutesOK, LinesSet
  <2>4. LinesSet'
    BY <1>1, <2>3 DEF LinesSet
  <2> QED BY <2>2, <2>4 DEF RoutesOK
<1>12. Searches'
  <2>1. Grows
    BY <1>1, <1>4 DEF Grows
  <2> QED BY <1>1, <2>1, SearchesKept DEF IInv
<1> QED BY <1>7, <1>8, <1>9, <1>10, <1>11, <1>12 DEF IInv

\* No two nodes are for the same beginning.
LEMMA BelowDiffers ==
    ASSUME IInv, NEW m \in DOMAIN node, NEW n \in DOMAIN node, Below(m) = Below(n)
    PROVE  m = n
<1> DEFINE c == made[m].above
           d == made[n].above
           x == made[m].part
           y == made[n].part
<1>1. c \in Seq(Part) /\ x \in Part /\ d \in Seq(Part) /\ y \in Part
  BY Origin DEF IInv, TypeOK
<1>2. Append(c, x) = Append(d, y)
  BY DEF Below
<1>3. c = d /\ x = y
  <2> HIDE DEF c, d, x, y
  <2> QED BY <1>1, <1>2, AppendInjective
<1> QED BY <1>3 DEF IInv, TreeOK, Distinct

\* A node is linked at the end of the list that has been walked.
LEMMA CreateStep ==
    ASSUME IInv, Create
    PROVE  IInv'
<1>a. PICK N \in Nat : N = Len(node) + 1
  BY DEF IInv, TypeOK, TreeTypeOK
<1> DEFINE linked == IF at = AtRoot THEN node ELSE Link(at, N)
           o == [above |-> Above, part |-> Head(rest), file |-> loads, line |-> LineNumber]
<1>1. /\ lpc = "walk" /\ lpc' = "key" /\ Deref(at) = Nil
      /\ node' = Append(linked, NewNode) /\ made' = Append(made, o)
      /\ root' = IF at = AtRoot THEN N ELSE root
      /\ UNCHANGED <<loads, lines, at, rest, routes, search>>
  BY <1>a DEF Create
<1>2. /\ Above \in Seq(Part) /\ Head(rest) \in Part /\ loads \in Nat /\ LineNumber \in Nat
      /\ loads \in DOMAIN Files /\ LineNumber \in DOMAIN Files[loads]
      /\ Len(Above) \in Nat /\ N \in Nat /\ Len(node) \in Nat /\ TreeTypeOK
  <2>1. /\ Above \in Seq(Part) /\ Head(rest) \in Part /\ Len(Above) \in Nat
        /\ loads \in DOMAIN Files /\ LineNumber \in DOMAIN Files[loads]
        /\ Files[loads] \in Seq(Lines)
    BY <1>1, InHand DEF InLine
  <2>2. loads \in Nat /\ LineNumber \in Nat
    BY <2>1, FilesAssumption
  <2>3. TreeTypeOK /\ Len(node) \in Nat
    BY DEF IInv, TypeOK, TreeTypeOK
  <2> QED BY <2>1, <2>2, <2>3
<1>3. /\ After \in Nat /\ Leads(Nil, Above, After)
      /\ at.link \in {"sibling", "child"} => at.of \in DOMAIN node
      /\ at = AtRoot <=> at.link = "root"
      /\ at.link \in {"root", "sibling", "child"} /\ PlaceOK
  BY <1>1, LinkInHand DEF InLine, IInv, TypeOK, LoaderTypeOK, LoaderOK
<1>4. /\ linked \in Seq(Nodes) /\ Len(linked) = Len(node)
      /\ \A n \in DOMAIN node :
            /\ linked[n].key = node[n].key /\ linked[n].handler = node[n].handler
            /\ linked[n].sibling = IF at.link = "sibling" /\ n = at.of THEN N ELSE node[n].sibling
            /\ linked[n].child = IF at.link = "child" /\ n = at.of THEN N ELSE node[n].child
  <2>1. node \in Seq(Nodes) /\ \A n \in DOMAIN node : node[n] \in Nodes
    BY <1>2, Origin DEF TreeTypeOK
  <2>2. CASE at.link = "root"
    BY <1>3, <2>1, <2>2 DEF Nodes
  <2>3. CASE at.link = "sibling"
    <3>1. at.of \in DOMAIN node /\ at.of \in 1..Len(node)
      BY <1>3, <2>1, <2>3
    <3>2. linked = [node EXCEPT ![at.of] = [node[at.of] EXCEPT !.sibling = N]]
      BY <1>3, <2>3 DEF Link
    <3>3. [node[at.of] EXCEPT !.sibling = N] \in Nodes
      BY <1>2, <2>1, <3>1 DEF Nodes
    <3>4. linked \in Seq(Nodes) /\ Len(linked) = Len(node)
      BY <2>1, <3>1, <3>2, <3>3, ExceptSeq
    <3> HIDE DEF linked
    <3> QED BY <2>1, <2>3, <3>1, <3>2, <3>4 DEF Nodes
  <2>4. CASE at.link = "child"
    <3>1. at.of \in DOMAIN node /\ at.of \in 1..Len(node)
      BY <1>3, <2>1, <2>4
    <3>2. linked = [node EXCEPT ![at.of] = [node[at.of] EXCEPT !.child = N]]
      BY <1>3, <2>4 DEF Link
    <3>3. [node[at.of] EXCEPT !.child = N] \in Nodes
      BY <1>2, <2>1, <3>1 DEF Nodes
    <3>4. linked \in Seq(Nodes) /\ Len(linked) = Len(node)
      BY <2>1, <3>1, <3>2, <3>3, ExceptSeq
    <3> HIDE DEF linked
    <3> QED BY <2>1, <2>4, <3>1, <3>2, <3>4 DEF Nodes
  <2> QED BY <1>3, <2>2, <2>3, <2>4
<1> HIDE DEF linked
<1>5. NewNode \in Nodes /\ o \in Origins
  BY <1>2 DEF NewNode, Nodes, Origins, Nil
<1>6. /\ node' \in Seq(Nodes) /\ Len(node') = N /\ DOMAIN node' = DOMAIN node \cup {N}
      /\ DOMAIN node = 1..(N - 1) /\ N \notin DOMAIN node /\ \A n \in DOMAIN node : n < N
      /\ node'[N] = NewNode
      /\ \A n \in DOMAIN node : node'[n] = linked[n]
  BY <1>a, <1>1, <1>2, <1>4, <1>5, AppendProperties DEF TreeTypeOK
<1>7. /\ made' \in Seq(Origins) /\ Len(made') = N /\ made'[N] = o
      /\ \A n \in DOMAIN node : made'[n] = made[n]
  <2>1. made \in Seq(Origins) /\ Len(made) = Len(node)
    BY <1>2 DEF TreeTypeOK
  <2> HIDE DEF o
  <2>2. /\ Append(made, o) \in Seq(Origins) /\ Len(Append(made, o)) = Len(made) + 1
        /\ \A n \in 1..Len(made) : Append(made, o)[n] = made[n]
        /\ Append(made, o)[Len(made) + 1] = o
    BY <1>5, <2>1, AppendProperties
  <2> QED BY <1>a, <1>1, <1>6, <2>1, <2>2
<1>8. TypeOK'
  <2>1. TreeTypeOK'
    BY <1>1, <1>2, <1>6, <1>7 DEF TreeTypeOK
  <2>2. RouteTypeOK' /\ LoaderTypeOK' /\ SearchTypeOK'
    BY <1>1 DEF IInv, TypeOK, RouteTypeOK, LoaderTypeOK, SearchTypeOK, Searching, search
  <2> QED BY <2>1, <2>2 DEF TypeOK
<1>9. \A m \in DOMAIN node : made[m].above = Above => m <= After /\ made[m].part # Head(rest)
  <2>1. \A m \in DOMAIN node : made[m].above = Above => ~(m > After)
    BY <1>3 DEF Leads
  <2> QED BY <1>1, <1>3, <1>6, <2>1 DEF IInv, LoaderOK
<1>10. made'[N].above = Above /\ made'[N].part = Head(rest)
       /\ made'[N].file = loads /\ made'[N].line = LineNumber
  BY <1>7
<1> HIDE DEF o
<1>11. Grows
  BY <1>1, <1>4, <1>6, <1>7 DEF Grows
<1>12. Distinct'
  <2> SUFFICES ASSUME NEW m \in DOMAIN node', NEW n \in DOMAIN node',
                      made'[m].above = made'[n].above, made'[m].part = made'[n].part
               PROVE  m = n
    BY DEF Distinct
  <2>1. CASE m \in DOMAIN node /\ n \in DOMAIN node
    BY <1>7, <2>1 DEF IInv, TreeOK, Distinct
  <2>2. CASE m = N /\ n \in DOMAIN node
    BY <1>7, <1>9, <1>10, <2>2
  <2>3. CASE m \in DOMAIN node /\ n = N
    BY <1>7, <1>9, <1>10, <2>3
  <2> QED BY <1>6, <2>1, <2>2, <2>3
<1>13. KeysOK'
  BY <1>1, <1>4, <1>6, <1>7 DEF IInv, TreeOK, KeysOK, NewNode
<1>14. \A n \in DOMAIN node : Below(n)' = Below(n)
  BY <1>7 DEF Below
<1>15. Below(N)' = Append(Above, Head(rest))
  BY <1>10 DEF Below
<1>16. \A m, n \in DOMAIN node : Below(m) = Below(n) => m = n
  BY BelowDiffers
<1>17. \A n \in DOMAIN node : Below(n) # Append(Above, Head(rest)) /\ Below(n) # <<>>
  <2> SUFFICES ASSUME NEW n \in DOMAIN node
               PROVE  Below(n) # Append(Above, Head(rest)) /\ Below(n) # <<>>
    OBVIOUS
  <2>1. made[n].above \in Seq(Part) /\ made[n].part \in Part
    BY <1>2, Origin
  <2>2. Below(n) # <<>>
    BY <2>1, AppendProperties DEF Below
  <2>3. ASSUME Below(n) = Append(Above, Head(rest)) PROVE FALSE
    <3>1. made[n].above = Above /\ made[n].part = Head(rest)
      BY <1>2, <2>1, <2>3, AppendInjective, SMTT(30) DEF Below
    <3> QED BY <1>9, <3>1
  <2> QED BY <2>2, <2>3
<1>18. Descended'
  <2>1. ASSUME NEW n \in DOMAIN node
        PROVE  made'[n].above = <<>> \/ \E m \in DOMAIN node' : Below(m)' = made'[n].above
    BY <1>6, <1>7, <1>14 DEF IInv, TreeOK, Descended
  <2>2. Above = <<>> \/ \E m \in DOMAIN node : Below(m) = Above
    BY <1>3 DEF PlaceOK, IInv, TreeOK, Descended
  <2>3. made'[N].above = <<>> \/ \E m \in DOMAIN node' : Below(m)' = made'[N].above
    BY <1>6, <1>10, <1>14, <2>2
  <2> QED BY <1>6, <2>1, <2>3 DEF Descended
<1>19. LinksOK'
  \* A link stays right unless the new node is the first it should lead to.
  <2>1. ASSUME NEW link, NEW c, NEW n, Leads(link, c, n),
               c = Above => \E m \in DOMAIN node : made[m].above = c /\ m > n
        PROVE  /\ link # Nil => link \in DOMAIN node' /\ made'[link].above = c /\ link > n
               /\ \A m \in DOMAIN node' : made'[m].above = c /\ m > n => link # Nil /\ link <= m
    <3>1. link # Nil => link \in DOMAIN node' /\ made'[link].above = c /\ link > n
      BY <1>6, <1>7, <2>1 DEF Leads
    <3>2. ASSUME NEW m \in DOMAIN node, made'[m].above = c, m > n
          PROVE  link # Nil /\ link <= m
      BY <1>7, <2>1, <3>2 DEF Leads
    <3>3. ASSUME made'[N].above = c, N > n PROVE link # Nil /\ link <= N
      <4>1. PICK m \in DOMAIN node : made[m].above = c /\ m > n
        BY <1>10, <2>1, <3>3
      <4>2. link # Nil /\ link \in DOMAIN node
        BY <2>1, <4>1 DEF Leads
      <4> QED BY <1>2, <1>6, <4>2
    <3> QED BY <1>6, <3>1, <3>2, <3>3
  \* The link in hand leads to the new node.
  <2>2. /\ N # Nil => N \in DOMAIN node' /\ made'[N].above = Above /\ N > After
        /\ \A m \in DOMAIN node' : made'[m].above = Above /\ m > After => N # Nil /\ N <= m
    <3>1. N > After
      <4>1. After = 0 \/ After \in DOMAIN node
        BY <1>3 DEF After
      <4> QED BY <1>a, <1>2, <1>6, <4>1
    <3>2. ASSUME NEW m \in DOMAIN node, made'[m].above = Above, m > After PROVE FALSE
      BY <1>3, <1>6, <1>7, <1>9, <3>2
    <3>3. N # Nil /\ N <= N
      BY <1>a, <1>2 DEF Nil
    <3> QED BY <1>6, <1>10, <3>1, <3>2, <3>3
  <2>3. Leads(root, <<>>, 0)'
    <3>1. CASE at.link = "root"
      BY <1>1, <1>3, <2>2, <3>1 DEF Leads, PlaceOK, After
    <3>2. CASE at.link # "root"
      <4>1. Leads(root, <<>>, 0) /\ root' = root
        BY <1>1, <1>3, <3>2 DEF IInv, TreeOK, LinksOK
      <4>2. <<>> = Above => \E m \in DOMAIN node : made[m].above = <<>> /\ m > 0
        BY <1>3, <1>6, <1>17, <3>2 DEF PlaceOK
      <4>3. /\ root # Nil => root \in DOMAIN node' /\ made'[root].above = <<>> /\ root > 0
            /\ \A m \in DOMAIN node' :
                  made'[m].above = <<>> /\ m > 0 => root # Nil /\ root <= m
        BY <2>1, <4>1, <4>2
      <4> QED BY <4>1, <4>3 DEF Leads
    <3> QED BY <3>1, <3>2
  <2>4. ASSUME NEW n \in DOMAIN node PROVE Leads(node[n].sibling, made[n].above, n)'
    <3>1. CASE at.link = "sibling" /\ n = at.of
      <4>1. node'[n].sibling = N /\ made'[n].above = Above /\ After = n
        BY <1>3, <1>4, <1>6, <1>7, <3>1 DEF PlaceOK, After
      <4> QED BY <2>2, <4>1 DEF Leads
    <3>2. CASE ~(at.link = "sibling" /\ n = at.of)
      <4>1. /\ node'[n].sibling = node[n].sibling /\ made'[n].above = made[n].above
            /\ Leads(node[n].sibling, made[n].above, n)
        BY <1>4, <1>6, <1>7, <3>2 DEF IInv, TreeOK, LinksOK
      <4>2. made[n].above = Above => at.link = "sibling" /\ made[at.of].above = Above /\ at.of > n
        BY <1>3, <1>6, <1>9, <3>2 DEF After, PlaceOK
      <4>3. made[n].above = Above =>
               \E m \in DOMAIN node : made[m].above = made[n].above /\ m > n
        BY <1>3, <4>2
      <4> DEFINE link == node[n].sibling
                 c == made[n].above
      <4>4. /\ link # Nil => link \in DOMAIN node' /\ made'[link].above = c /\ link > n
            /\ \A m \in DOMAIN node' : made'[m].above = c /\ m > n => link # Nil /\ link <= m
        <5>1. Leads(link, c, n) /\ (c = Above => \E m \in DOMAIN node : made[m].above = c /\ m > n)
          BY <4>1, <4>3
        <5> HIDE DEF link, c
        <5> QED BY <2>1, <5>1
      <4> QED BY <4>1, <4>4 DEF Leads
    <3> QED BY <3>1, <3>2
  <2>5. ASSUME NEW n \in DOMAIN node PROVE Leads(node[n].child, Below(n), 0)'
    <3>1. CASE at.link = "child" /\ n = at.of
      <4>1. node'[n].child = N /\ Below(n)' = Above /\ After = 0
        BY <1>3, <1>4, <1>6, <1>14, <3>1 DEF PlaceOK, After
      <4> QED BY <2>2, <4>1 DEF Leads
    <3>2. CASE ~(at.link = "child" /\ n = at.of)
      <4>1. /\ node'[n].child = node[n].child /\ Below(n)' = Below(n)
            /\ Leads(node[n].child, Below(n), 0)
        BY <1>4, <1>6, <1>14, <3>2 DEF IInv, TreeOK, LinksOK
      <4>2. Below(n) = Above => at.link = "sibling"
        BY <1>3, <1>16, <1>17, <3>2 DEF PlaceOK
      <4>3. Below(n) = Above => \E m \in DOMAIN node : made[m].above = Below(n) /\ m > 0
        BY <1>3, <1>6, <4>2 DEF PlaceOK
      <4> QED BY <2>1, <4>1, <4>3, SMTT(30) DEF Leads
    <3> QED BY <3>1, <3>2
  <2>6. node'[N].sibling = Nil /\ node'[N].child = Nil
    BY <1>6 DEF NewNode
  <2>7. Leads(node[N].sibling, made[N].above, N)'
    BY <1>2, <1>6, <2>6 DEF Leads
  <2>8. ASSUME NEW m \in DOMAIN node' PROVE made'[m].above # Below(N)'
    <3>1. CASE m = N
      <4>1. Len(Append(Above, Head(rest))) = Len(Above) + 1
        BY <1>2, AppendProperties
      <4> QED BY <1>2, <1>10, <1>15, <3>1, <4>1
    <3>2. CASE m \in DOMAIN node
      <4>1. Append(Above, Head(rest)) # <<>>
        BY <1>2, AppendProperties
      <4>2. made[m].above = <<>> \/ \E n \in DOMAIN node : Below(n) = made[m].above
        BY <3>2 DEF IInv, TreeOK, Descended
      <4> QED BY <1>7, <1>15, <1>17, <3>2, <4>1, <4>2
    <3> QED BY <1>6, <3>1, <3>2
  <2>9. Leads(node[N].child, Below(N), 0)'
    BY <2>6, <2>8 DEF Leads
  <2> QED BY <1>6, <2>3, <2>4, <2>5, <2>7, <2>9 DEF LinksOK
<1>20. OrderOK'
  <2>1. LinesOK' /\ LineNumber' = LineNumber /\ Above' = Above
    BY <1>1 DEF IInv, OrderOK, LinesOK, LineNumber, Above
  <2>2. ASSUME NEW n \in DOMAIN node PROVE OriginOK(n)'
    BY <1>7 DEF IInv, OrderOK, OriginsOK, OriginOK
  <2>3. OriginOK(N)'
    <3>1. /\ Head(lines) = Files[loads][LineNumber]
          /\ Len(Above) + 1 \in DOMAIN Head(lines).path /\ Head(lines).path \in Seq(Part)
          /\ Head(rest) = Head(lines).path[Len(Above) + 1]
          /\ \A j \in 1..Len(Above) : Above[j] = Head(lines).path[j]
      BY <1>1, InHand DEF InLine
    <3>2. DOMAIN Above = 1..Len(Above) /\ Len(Above) < Len(Files[loads][LineNumber].path)
      BY <1>2, <3>1
    <3> QED BY <1>2, <1>10, <3>1, <3>2 DEF OriginOK
  <2>4. ASSUME NEW n \in DOMAIN node PROVE MadeBefore(n)' /\ Follows(n, N)'
    <3>1. MadeBefore(n) /\ Len(made[n].above) \in Nat
      BY <1>2, Origin DEF IInv, OrderOK, AllMadeBefore
    <3>2. \/ Before(made[n].file, made[n].line, loads, LineNumber)
          \/ /\ made[n].file = loads /\ made[n].line = LineNumber
             /\ Len(made[n].above) < Len(Above)
      BY <1>1, <3>1 DEF MadeBefore
    <3>3. made'[n] = made[n]
      BY <1>7
    <3>4. MadeBefore(n)'
      BY <1>1, <1>2, <2>1, <3>1, <3>2, <3>3 DEF MadeBefore, InLine
    <3>5. Follows(n, N)'
      BY <1>10, <3>2, <3>3 DEF Follows
    <3> QED BY <3>4, <3>5
  <2>5. MadeBefore(N)'
    BY <1>1, <1>2, <1>10, <2>1 DEF MadeBefore, InLine
  <2>6. ASSUME NEW m \in DOMAIN node', NEW n \in DOMAIN node', m < n PROVE Follows(m, n)'
    <3>1. CASE n = N
      BY <1>2, <1>6, <2>4, <2>6, <3>1
    <3>2. CASE n \in DOMAIN node
      <4>1. m \in DOMAIN node
        BY <1>2, <1>6, <2>6, <3>2
      <4> QED BY <1>7, <2>6, <3>2, <4>1 DEF IInv, OrderOK, OriginsOK, Follows
    <3> QED BY <1>6, <3>1, <3>2
  <2>7. OriginsOK'
    BY <1>6, <2>2, <2>3, <2>6 DEF OriginsOK
  <2>8. AllMadeBefore'
    BY <1>6, <2>4, <2>5 DEF AllMadeBefore
  <2> QED BY <2>1, <2>7, <2>8 DEF OrderOK
<1>21. LoaderOK'
  <2>1. Above' = Above /\ After' = After
    BY <1>1 DEF Above, After
  <2>2. PlaceOK'
    BY <1>1, <1>3, <1>6, <1>7, <1>14, <2>1 DEF PlaceOK
  <2>3. Deref(at)' = N
    BY <1>1, <1>3, <1>4, <1>6 DEF Deref
  <2>4. ASSUME NEW i \in 1..Len(Above) PROVE Here(Head(lines).path, i)'
    <3>1. PICK n \in DOMAIN node :
             IsNode(n, SubSeq(Head(lines).path, 1, i - 1), Head(lines).path[i])
      BY <1>1 DEF IInv, LoaderOK, InLine, Here
    <3>2. IsNode(n, SubSeq(Head(lines).path, 1, i - 1), Head(lines).path[i])'
      BY <1>1, <1>4, <1>6, <1>7, <3>1 DEF IsNode
    <3> QED BY <1>6, <3>2 DEF Here
  <2> QED BY <1>1, <1>6, <1>10, <2>1, <2>2, <2>3, <2>4 DEF IInv, LoaderOK, InLine, EndOf
<1>22. RoutesOK'
  <2>1. ASSUME NEW p \in DOMAIN routes, NEW i \in DOMAIN p
        PROVE  \E n \in DOMAIN node' : /\ IsNode(n, SubSeq(p, 1, i - 1), p[i])'
                                       /\ i = Len(p) => node'[n].handler = routes[p]
    <3>1. PICK n \in DOMAIN node : /\ IsNode(n, SubSeq(p, 1, i - 1), p[i])
                                   /\ i = Len(p) => node[n].handler = routes[p]
      BY DEF IInv, RoutesOK, RoutesInTree, RouteOK
    <3>2. IsNode(n, SubSeq(p, 1, i - 1), p[i])'
      BY <1>4, <1>6, <1>7, <3>1 DEF IsNode
    <3> QED BY <1>4, <1>6, <3>1, <3>2
  <2>2. RoutesInTree'
    BY <1>1, <2>1 DEF RoutesInTree, RouteOK
  <2>3. LinesSet'
    BY <1>1 DEF IInv, RoutesOK, LinesSet, LineNumber
  <2> QED BY <2>2, <2>3 DEF RoutesOK
<1>23. Searches'
  BY <1>1, <1>11, SearchesKept DEF IInv
<1> QED BY <1>8, <1>12, <1>13, <1>18, <1>19, <1>20, <1>21, <1>22, <1>23 DEF IInv, TreeOK

-----------------------------------------------------------------------------
\* A path with a route has a node for its next part.
LEMMA NextNode ==
    ASSUME IInv, NEW p \in DOMAIN routes, NEW left \in Seq(Part), left # <<>>, EndOf(p, left)
    PROVE  /\ p \in Seq(Part)
           /\ \E m \in DOMAIN node : /\ IsNode(m, Taken(p, left), Head(left))
                                     /\ Len(left) = 1 => node[m].handler = routes[p]
<1>1. p \in Seq(Part) /\ RouteOK(p, routes[p])
  BY PathAssumption DEF IInv, TypeOK, RouteTypeOK, RoutesOK, RoutesInTree
<1> DEFINE i == Len(p) - Len(left) + 1
<1>2. i \in DOMAIN p /\ Head(left) = p[i] /\ Taken(p, left) = SubSeq(p, 1, i - 1)
  BY <1>1, TakenNext
<1>3. PICK m \in DOMAIN node : /\ IsNode(m, SubSeq(p, 1, i - 1), p[i])
                               /\ i = Len(p) => node[m].handler = routes[p]
  BY <1>1, <1>2 DEF RouteOK
<1>4. Len(left) = 1 => i = Len(p)
  BY <1>1
<1> QED BY <1>1, <1>2, <1>3, <1>4

\* While only searches move, the tree and the loader are as they were.
LEMMA TreeStays ==
    ASSUME IInv, UNCHANGED <<tree, loader>>, SearchTypeOK'
    PROVE  TypeOK' /\ TreeOK' /\ OrderOK' /\ LoaderOK' /\ RoutesOK'
<1> USE DEF tree, loader
<1>1. TypeOK'
  BY DEF IInv, TypeOK, TreeTypeOK, RouteTypeOK, LoaderTypeOK
<1>2. TreeOK'
  <2>1. LinksOK'
    BY DEF IInv, TreeOK, LinksOK, Leads, Below
  <2>2. KeysOK' /\ Distinct' /\ Descended'
    BY DEF IInv, TreeOK, KeysOK, Distinct, Descended, Below
  <2> QED BY <2>1, <2>2 DEF TreeOK
<1>3. Above' = Above /\ LineNumber' = LineNumber /\ InLine' = InLine /\ Deref(at)' = Deref(at)
      /\ After' = After
  BY DEF Above, LineNumber, InLine, Deref, After
<1>4. OrderOK'
  <2>1. LinesOK' /\ AllMadeBefore'
    BY <1>3 DEF IInv, OrderOK, LinesOK, AllMadeBefore, MadeBefore
  <2> QED BY <2>1, OriginsStay DEF IInv, OrderOK
<1>5. LoaderOK'
  BY <1>3 DEF IInv, LoaderOK, PlaceOK, Here, IsNode, Below
<1>6. RoutesOK'
  BY <1>3 DEF IInv, RoutesOK, RoutesInTree, RouteOK, IsNode, LinesSet
<1> QED BY <1>1, <1>2, <1>4, <1>5, <1>6

\* Nothing the process does besides changes the trie.
LEMMA StandsStill ==
    ASSUME IInv, UNCHANGED <<tree, loader, search>>
    PROVE  IInv'
<1>1. SearchTypeOK'
  BY DEF IInv, TypeOK, SearchTypeOK, Searching, search
<1>2. Searches'
  BY SearchesKept DEF IInv, Grows, tree, loader
<1> QED BY <1>1, <1>2, TreeStays DEF IInv

\* A step of one search changes nothing for the tree or for another search.
LEMMA ThreadMoves ==
    ASSUME IInv, NEW t \in Thread, UNCHANGED <<tree, loader>>, SearchTypeOK', SearchOK(t)',
           \A u \in Thread \ {t} : /\ spc'[u] = spc[u] /\ head'[u] = head[u]
                                   /\ url'[u] = url[u] /\ sought'[u] = sought[u]
    PROVE  IInv'
<1>1. TypeOK' /\ TreeOK' /\ OrderOK' /\ LoaderOK' /\ RoutesOK'
  BY TreeStays
<1>2. Searches'
  <2> SUFFICES ASSUME NEW u \in Thread, u # t PROVE SearchOK(u)'
    BY DEF Searches
  <2>1. SearchOK(u)
    BY DEF IInv, Searches
  <2>2. /\ spc'[u] = spc[u] /\ head'[u] = head[u]
        /\ url'[u] = url[u] /\ sought'[u] = sought[u]
    OBVIOUS
  <2>3. (Searching(u) <=> Searching(u)') /\ (OnCourse(u) => OnCourse(u)')
    BY <2>2 DEF Searching, OnCourse, Goal, Ahead, IsNode, tree, loader
  <2> QED BY <2>1, <2>2, <2>3 DEF SearchOK, tree
<1> QED BY <1>1, <1>2 DEF IInv

\* What a search that has to succeed knows.
LEMMA Course ==
    ASSUME IInv, NEW t \in Thread, Searching(t), sought[t].known
    PROVE  /\ sought[t].path \in DOMAIN routes /\ sought[t].path \in Seq(Part)
           /\ url[t] \in Seq(Part) /\ url[t] # <<>> /\ EndOf(sought[t].path, url[t])
           /\ \E m \in DOMAIN node : Goal(t, m) /\ Ahead(t, m)
<1>1. OnCourse(t) /\ url[t] \in Seq(Part)
  BY DEF IInv, Searches, SearchOK, TypeOK, SearchTypeOK
<1>2. sought[t].path \in Seq(Part)
  BY <1>1, PathAssumption DEF OnCourse, IInv, TypeOK, RouteTypeOK
<1> QED BY <1>1, <1>2 DEF OnCourse

-----------------------------------------------------------------------------
\* A search begins at the root.
LEMMA FindKeeps ==
    ASSUME IInv, NEW t \in Thread, NEW p \in Path, Find(t, p)
    PROVE  IInv'
<1>1. p \in Seq(Part) /\ p # <<>>
  BY PathAssumption
<1>2. TypeOK /\ SearchTypeOK /\ UNCHANGED <<tree, loader>>
  BY DEF IInv, TypeOK, Find
<1>3. /\ spc'[t] = "compare" /\ head'[t] = root /\ url'[t] = p
      /\ sought'[t] = [path |-> p, known |-> p \in DOMAIN routes]
      /\ \A u \in Thread \ {t} : /\ spc'[u] = spc[u] /\ head'[u] = head[u]
                                 /\ url'[u] = url[u] /\ sought'[u] = sought[u]
  BY <1>2 DEF Find, SearchTypeOK
<1>4. SearchTypeOK'
  <2>1. /\ spc' \in [Thread -> {"idle", "compare", "sibling", "child", "take", "done"}]
        /\ head' \in [Thread -> Nat] /\ url' \in [Thread -> Seq(Part)]
        /\ found' \in [Thread -> Handler \cup {NULL}]
    BY <1>1, <1>2 DEF SearchTypeOK, Find, TypeOK, TreeTypeOK
  <2>2. sought' = [u \in Thread |-> sought'[u]]
    BY <1>2 DEF SearchTypeOK, Find
  <2>3. sought'[t] \in [path : Path, known : BOOLEAN]
    BY <1>3
  <2> QED BY <1>2, <1>3, <2>1, <2>2, <2>3 DEF SearchTypeOK, Searching
<1>5. Leads(root, <<>>, 0)
  BY DEF IInv, TreeOK, LinksOK
<1>6. ASSUME p \in DOMAIN routes PROVE OnCourse(t)'
  <2>1. EndOf(p, p) /\ Taken(p, p) = <<>>
    BY <1>1, TakenFirst
  <2>2. PICK m \in DOMAIN node : IsNode(m, <<>>, Head(p))
    BY <1>1, <1>6, <2>1, NextNode
  <2>3. root # Nil /\ made[root].above = made[m].above /\ root <= m
    BY <1>5, <2>2 DEF IInv, TypeOK, TreeTypeOK, IsNode, Leads
  <2>4. Goal(t, m)' /\ Ahead(t, m)' /\ EndOf(p, p)'
    BY <1>2, <1>3, <2>1, <2>2, <2>3 DEF Goal, Ahead, IsNode, Taken, EndOf, tree
  <2> QED BY <1>1, <1>2, <1>3, <1>6, <2>1, <2>4 DEF OnCourse, EndOf, tree, loader
<1>7. SearchOK(t)'
  <2>1. head'[t] = Nil \/ head'[t] \in DOMAIN node'
    BY <1>2, <1>3, <1>5 DEF Leads, tree
  <2>2. ASSUME sought'[t].known PROVE OnCourse(t)'
    <3>1. sought'[t].known = (p \in DOMAIN routes)
      BY <1>3
    <3> QED BY <1>6, <2>2, <3>1
  <2> QED BY <1>3, <2>1, <2>2 DEF SearchOK
<1> QED BY <1>2, <1>3, <1>4, <1>7, ThreadMoves

\* A search is not led past the node it is after, nor taken in by another: the
\* node has its key since before the path had a route, and what stands before
\* it has another one that its part does not begin.
LEMMA CompareKeeps ==
    ASSUME IInv, NEW t \in Thread, Compare(t)
    PROVE  IInv'
<1>1. TypeOK /\ SearchTypeOK /\ TreeTypeOK /\ UNCHANGED <<tree, loader>>
  BY DEF IInv, TypeOK, Compare
<1>2. /\ spc[t] = "compare" /\ head[t] # Nil /\ url[t] # <<>>
      /\ url[t] \in Seq(Part) /\ Len(url[t]) \in Nat
      /\ UNCHANGED <<head, url, found, sought>>
  BY <1>1 DEF Compare, SearchTypeOK
<1>3. head[t] \in DOMAIN node /\ Searching(t)
  BY <1>2 DEF IInv, Searches, SearchOK, Searching
<1>4. PICK same \in Matches(node[head[t]].key, Head(url[t])) :
         spc' = [spc EXCEPT ![t] = CASE ~same -> "sibling"
                                     [] same /\ Len(url[t]) > 1 -> "child"
                                     [] OTHER -> "take"]
  BY DEF Compare
<1>5. /\ same \in BOOLEAN
      /\ ~same => spc'[t] = "sibling"
      /\ same /\ Len(url[t]) > 1 => spc'[t] = "child"
      /\ same /\ ~(Len(url[t]) > 1) => spc'[t] = "take"
      /\ spc' \in [Thread -> {"idle", "compare", "sibling", "child", "take", "done"}]
      /\ \A u \in Thread \ {t} : spc'[u] = spc[u]
  <2>1. same \in BOOLEAN
    BY <1>4 DEF Matches
  <2>2. CASE ~same
    BY <1>1, <1>4, <2>1, <2>2 DEF SearchTypeOK
  <2>3. CASE same /\ Len(url[t]) > 1
    BY <1>1, <1>4, <2>1, <2>3 DEF SearchTypeOK
  <2>4. CASE same /\ ~(Len(url[t]) > 1)
    BY <1>1, <1>4, <2>1, <2>4 DEF SearchTypeOK
  <2> QED BY <2>1, <2>2, <2>3, <2>4
<1>6. SearchTypeOK'
  BY <1>1, <1>2, <1>3, <1>5 DEF SearchTypeOK, Searching
<1>7. ASSUME sought[t].known PROVE OnCourse(t)'
  <2>1. PICK m \in DOMAIN node : Goal(t, m) /\ Ahead(t, m)
    BY <1>3, <1>7, Course
  <2> DEFINE n == head[t]
  <2>2. /\ n \in DOMAIN node /\ m \in DOMAIN node /\ n <= m /\ made[n].above = made[m].above
        /\ made[m].part = Head(url[t]) /\ node[m].key = Head(url[t])
    BY <1>2, <1>3, <2>1 DEF Goal, IsNode, Ahead
  <2>3. made[m].part # Garbage /\ n \in Nat /\ m \in Nat /\ m <= Len(node)
    BY <1>1, <2>2, Origin
  <2>4. node[n].key = made[n].part
    BY <2>2, <2>3 DEF IInv, TreeOK, KeysOK
  <2>5. same = (made[n].part = Head(url[t]) \/ <<Head(url[t]), made[n].part>> \in ProperPrefix)
    <3>1. made[n].part # Garbage
      BY <1>1, <2>2, Origin
    <3> QED BY <1>4, <2>4, <3>1 DEF Matches
  <2>6. CASE n = m
    <3>1. same
      BY <2>2, <2>5, <2>6
    <3>2. \/ spc'[t] = "child" /\ Len(url[t]) > 1
          \/ spc'[t] = "take" /\ Len(url[t]) = 1
      <4>1. Len(url[t]) > 1 \/ Len(url[t]) = 1
        <5> DEFINE k == Len(url[t])
        <5>1. k # 0 /\ k \in Nat
          BY <1>2, EmptySeq
        <5>2. k > 1 \/ k = 1
          <6> HIDE DEF k
          <6> QED BY <5>1
        <5> QED BY <5>2
      <4> QED BY <1>5, <3>1, <4>1
    <3>3. Goal(t, m)' /\ Ahead(t, m)'
      BY <1>1, <1>2, <2>1, <2>6, <3>2 DEF Goal, IsNode, Ahead, tree
    <3> QED BY <1>1, <1>2, <1>3, <1>7, <3>3, Course DEF OnCourse, EndOf, tree, loader
  <2>7. CASE n < m
    <3>1. made[n].part # made[m].part
      BY <2>2, <2>3, <2>7 DEF IInv, TreeOK, Distinct
    <3>2. <<made[m].part, made[n].part>> \notin ProperPrefix
      <4> HIDE DEF n
      <4>1. TreeTypeOK /\ OrderOK /\ n \in DOMAIN node /\ m \in DOMAIN node /\ n < m
            /\ made[n].above = made[m].above
        BY <1>1, <2>2, <2>7 DEF IInv
      <4> QED BY <4>1, NoClash
    <3>3. ~same
      BY <2>2, <2>5, <3>1, <3>2
    <3>4. spc'[t] = "sibling"
      BY <1>5, <3>3
    <3>5. Goal(t, m)' /\ Ahead(t, m)'
      BY <1>1, <1>2, <2>1, <2>2, <2>7, <3>4 DEF Goal, IsNode, Ahead, tree
    <3> QED BY <1>1, <1>2, <1>3, <1>7, <3>5, Course DEF OnCourse, EndOf, tree, loader
  <2> QED BY <2>2, <2>3, <2>6, <2>7
<1>8. SearchOK(t)'
  BY <1>1, <1>2, <1>3, <1>5, <1>7 DEF SearchOK, tree
<1> QED BY <1>1, <1>2, <1>5, <1>6, <1>8, ThreadMoves

\* The list goes on to the node it is after.
LEMMA NextSiblingKeeps ==
    ASSUME IInv, NEW t \in Thread, NextSibling(t)
    PROVE  IInv'
<1>1. TypeOK /\ SearchTypeOK /\ TreeTypeOK /\ UNCHANGED <<tree, loader>>
  BY DEF IInv, TypeOK, NextSibling
<1>2. /\ spc[t] = "sibling" /\ Searching(t) /\ head[t] \in DOMAIN node
      /\ UNCHANGED <<url, found, sought>>
  BY DEF NextSibling, Searching, IInv, Searches, SearchOK
<1>3. node[head[t]] \in Nodes
  BY <1>1, <1>2, Origin
<1>4. /\ spc'[t] = "compare" /\ head'[t] = node[head[t]].sibling
      /\ \A u \in Thread \ {t} : spc'[u] = spc[u] /\ head'[u] = head[u]
      /\ SearchTypeOK'
  BY <1>1, <1>2, <1>3 DEF NextSibling, SearchTypeOK, Nodes, Searching
<1>5. Leads(node[head[t]].sibling, made[head[t]].above, head[t])
  BY <1>2 DEF IInv, TreeOK, LinksOK
<1>6. ASSUME sought[t].known PROVE OnCourse(t)'
  <2>1. PICK m \in DOMAIN node : Goal(t, m) /\ Ahead(t, m)
    BY <1>2, <1>6, Course
  <2>2. Goal(t, m)' /\ Ahead(t, m)'
    BY <1>1, <1>2, <1>4, <1>5, <2>1 DEF Goal, IsNode, Ahead, Leads, tree
  <2> QED BY <1>1, <1>2, <1>6, <2>2, Course DEF OnCourse, EndOf, tree, loader
<1>7. SearchOK(t)'
  BY <1>1, <1>2, <1>4, <1>5, <1>6 DEF SearchOK, Leads, tree
<1> QED BY <1>1, <1>2, <1>4, <1>7, ThreadMoves

\* Below the node of one part are those of the next.
LEMMA DescendKeeps ==
    ASSUME IInv, NEW t \in Thread, Descend(t)
    PROVE  IInv'
<1>1. TypeOK /\ SearchTypeOK /\ TreeTypeOK /\ UNCHANGED <<tree, loader>>
  BY DEF IInv, TypeOK, Descend
<1>2. /\ spc[t] = "child" /\ Searching(t) /\ head[t] \in DOMAIN node /\ url[t] # <<>>
      /\ UNCHANGED <<found, sought>>
  BY DEF Descend, Searching, IInv, Searches, SearchOK
<1>3. node[head[t]] \in Nodes /\ Tail(url[t]) \in Seq(Part)
  BY <1>1, <1>2, Origin DEF SearchTypeOK
<1>4. /\ spc'[t] = "compare" /\ head'[t] = node[head[t]].child /\ url'[t] = Tail(url[t])
      /\ \A u \in Thread \ {t} : spc'[u] = spc[u] /\ head'[u] = head[u] /\ url'[u] = url[u]
      /\ SearchTypeOK'
  BY <1>1, <1>2, <1>3 DEF Descend, SearchTypeOK, Nodes, Searching
<1>5. Leads(node[head[t]].child, Below(head[t]), 0)
  BY <1>2 DEF IInv, TreeOK, LinksOK
<1>6. ASSUME sought[t].known PROVE OnCourse(t)'
  <2> DEFINE p == sought[t].path
             left == url[t]
  <2>1. /\ p \in DOMAIN routes /\ p \in Seq(Part) /\ left \in Seq(Part) /\ left # <<>>
        /\ EndOf(p, left)
    BY <1>2, <1>6, Course
  <2>2. PICK n \in DOMAIN node : Goal(t, n) /\ Ahead(t, n)
    BY <1>2, <1>6, Course
  <2>3. head[t] = n /\ Len(left) > 1 /\ made[n].above = Taken(p, left) /\ made[n].part = Head(left)
    BY <1>2, <2>2 DEF Goal, IsNode, Ahead
  <2>4. /\ EndOf(p, Tail(left)) /\ Tail(left) \in Seq(Part) /\ Tail(left) # <<>>
        /\ Taken(p, Tail(left)) = Below(head[t])
    <3>1. Below(head[t]) = Append(Taken(p, left), Head(left))
      BY <2>3 DEF Below
    <3>2. /\ EndOf(p, Tail(left)) /\ Tail(left) \in Seq(Part) /\ Len(Tail(left)) = Len(left) - 1
          /\ Taken(p, Tail(left)) = Append(Taken(p, left), Head(left))
      <4> HIDE DEF p, left
      <4> QED BY <2>1, TakenStep
    <3> QED BY <2>1, <2>3, <3>1, <3>2, SMTT(30)
  <2>5. PICK m \in DOMAIN node : IsNode(m, Taken(p, Tail(left)), Head(Tail(left)))
    <3> HIDE DEF p, left
    <3> QED BY <2>1, <2>4, NextNode
  <2>6. m > 0
    BY <1>1, Origin
  <2>7. Goal(t, m)' /\ Ahead(t, m)'
    BY <1>1, <1>2, <1>4, <1>5, <2>4, <2>5, <2>6 DEF Goal, IsNode, Ahead, Leads, Taken, tree
  <2> QED BY <1>1, <1>2, <1>4, <2>1, <2>4, <2>7 DEF OnCourse, EndOf, tree, loader
<1>7. SearchOK(t)'
  BY <1>1, <1>2, <1>4, <1>5, <1>6 DEF SearchOK, Leads, tree
<1> QED BY <1>1, <1>2, <1>4, <1>7, ThreadMoves

\* A search is over, with a handler or without.
LEMMA EndKeeps ==
    ASSUME IInv, NEW t \in Thread, NotFound(t) \/ TakeHandler(t) \/ Return(t)
    PROVE  IInv'
<1>1. TypeOK /\ SearchTypeOK /\ TreeTypeOK /\ UNCHANGED <<tree, loader>>
  BY DEF IInv, TypeOK, NotFound, TakeHandler, Return
<1>2. found' \in [Thread -> Handler \cup {NULL}]
  <2>1. CASE TakeHandler(t)
    <3>1. head[t] \in DOMAIN node
      BY <2>1 DEF TakeHandler, IInv, Searches, SearchOK
    <3>2. node[head[t]] \in Nodes
      BY <1>1, <3>1, Origin
    <3> QED BY <1>1, <2>1, <3>2 DEF TakeHandler, Nodes, SearchTypeOK
  <2> QED BY <1>1, <2>1 DEF NotFound, Return, SearchTypeOK
<1>3. /\ spc' \in [Thread -> {"idle", "compare", "sibling", "child", "take", "done"}]
      /\ head' \in [Thread -> Nat] /\ url' \in [Thread -> Seq(Part)]
      /\ sought' = [u \in Thread |-> sought'[u]]
      /\ spc'[t] \in {"idle", "done"}
      /\ \A u \in Thread \ {t} : /\ spc'[u] = spc[u] /\ head'[u] = head[u]
                                 /\ url'[u] = url[u] /\ sought'[u] = sought[u]
  <2>1. CASE NotFound(t)
    BY <1>1, <2>1 DEF NotFound, SearchTypeOK
  <2>2. CASE TakeHandler(t)
    BY <1>1, <2>2 DEF TakeHandler, SearchTypeOK
  <2>3. CASE Return(t)
    <3>1. /\ spc' \in [Thread -> {"idle", "compare", "sibling", "child", "take", "done"}]
          /\ spc'[t] \in {"idle", "done"}
          /\ \A u \in Thread \ {t} : spc'[u] = spc[u]
      BY <1>1, <2>3 DEF Return, SearchTypeOK
    <3>2. head' \in [Thread -> Nat] /\ \A u \in Thread \ {t} : head'[u] = head[u]
      BY <1>1, <2>3 DEF Return, SearchTypeOK, Nil
    <3>3. url' \in [Thread -> Seq(Part)] /\ \A u \in Thread \ {t} : url'[u] = url[u]
      <4>1. <<>> \in Seq(Part)
        OBVIOUS
      <4> QED BY <1>1, <2>3, <4>1 DEF Return, SearchTypeOK
    <3>4. /\ sought' = [u \in Thread |-> sought'[u]]
          /\ \A u \in Thread \ {t} : sought'[u] = sought[u]
      BY <1>1, <2>3 DEF Return, SearchTypeOK
    <3> QED BY <3>1, <3>2, <3>3, <3>4
  <2> QED BY <2>1, <2>2, <2>3
<1>4. SearchTypeOK'
  BY <1>1, <1>2, <1>3 DEF SearchTypeOK, Searching
<1>5. SearchOK(t)'
  BY <1>3 DEF SearchOK, Searching
<1> QED BY <1>1, <1>3, <1>4, <1>5, ThreadMoves

-----------------------------------------------------------------------------
\* The state main begins with: an empty tree, and the first file open.
LEMMA Begins ==
    ASSUME TrieInit
    PROVE  IInv
<1>1. /\ Files \in Seq(Seq(Lines)) /\ 1 \in DOMAIN Files /\ Files[1] \in Seq(Lines)
      /\ Files[1] # <<>> /\ loads = 1 /\ lines = Files[1] /\ LineNumber = 1
  BY FilesAssumption DEF TrieInit, LineNumber
<1>2. DOMAIN node = {} /\ DOMAIN routes = {} /\ IsFiniteSet(DOMAIN routes)
  BY FS_EmptySet DEF TrieInit
<1>3. TypeOK
  <2>1. TreeTypeOK /\ SearchTypeOK
    BY DEF TrieInit, TreeTypeOK, SearchTypeOK, Searching, Nil
  <2>2. RouteTypeOK
    BY <1>2 DEF RouteTypeOK, TrieInit
  <2>3. LoaderTypeOK
    BY <1>1 DEF TrieInit, LoaderTypeOK, AtRoot, Nil
  <2> QED BY <2>1, <2>2, <2>3 DEF TypeOK
<1>4. TreeOK
  BY <1>2 DEF TreeOK, LinksOK, Leads, KeysOK, Distinct, Descended, TrieInit
<1>5. OrderOK
  BY <1>1, <1>2 DEF OrderOK, LinesOK, OriginsOK, AllMadeBefore
<1>6. LoaderOK
  BY DEF LoaderOK, InLine, TrieInit
<1>7. RoutesOK
  <2>1. LinesSet
    <3> SUFFICES ASSUME NEW k \in DOMAIN Files, NEW i \in DOMAIN Files[k], Before(k, i, 1, 1)
                 PROVE  FALSE
      BY <1>1 DEF LinesSet
    <3>1. Files[k] \in Seq(Lines) /\ k \in Nat \ {0}
      BY <1>1
    <3> QED BY <3>1 DEF Before
  <2> QED BY <1>2, <2>1 DEF RoutesOK, RoutesInTree
<1>8. Searches
  BY DEF Searches, SearchOK, Searching, TrieInit
<1> QED BY <1>3, <1>4, <1>5, <1>6, <1>7, <1>8 DEF IInv

\* Every step keeps the invariant.
LEMMA StepKeeps ==
    ASSUME IInv, [TrieNext]_<<tree, loader, search>>
    PROVE  IInv'
<1>1. CASE UNCHANGED <<tree, loader, search>>
  BY <1>1, StandsStill
<1>2. CASE Load
  <2>1. CASE LoadFails
    BY <2>1, StandsStill DEF LoadFails
  <2> QED BY <1>2, <2>1, ReloadStep, LoadLineStep, LoadEndStep, CreateStep, WriteKeyStep,
             WalkStep, EnterStep, SetHandlerStep DEF Load
<1>3. ASSUME NEW t \in Thread, NEW p \in Path, Find(t, p) PROVE IInv'
  BY <1>3, FindKeeps
<1>4. ASSUME NEW t \in Thread, FindStep(t) PROVE IInv'
  BY <1>4, CompareKeeps, NextSiblingKeeps, DescendKeeps, EndKeeps DEF FindStep
<1>5. ASSUME NEW t \in Thread, Return(t) PROVE IInv'
  BY <1>5, EndKeeps
<1> QED BY <1>1, <1>2, <1>3, <1>4, <1>5 DEF TrieNext

\* The invariant of the trie.
LEMMA Invariant == TrieSafety => []IInv
<1>1. TrieInit => IInv
  BY Begins
<1>2. IInv /\ [TrieNext]_<<tree, loader, search>> => IInv'
  BY StepKeeps
<1> QED BY <1>1, <1>2, PTL DEF TrieSafety

-----------------------------------------------------------------------------
\* A step that is none of a search's first or last changes nothing that
\* RouteTable knows.
LEMMA Hidden ==
    ASSUME UNCHANGED <<routes, found, sought>>, \A t \in Thread : Searching(t)' <=> Searching(t)
    PROVE  UNCHANGED RT!vars
<1>1. Asked' = Asked
  <2>1. \A t \in Thread : (IF Searching(t)' THEN sought'[t] ELSE NULL)
                              = (IF Searching(t) THEN sought[t] ELSE NULL)
    OBVIOUS
  <2> QED BY <2>1 DEF Asked
<1> QED BY <1>1 DEF RT!vars

\* To set a handler binds the path of the line in hand.
LEMMA SetsRoute ==
    ASSUME IInv, SetHandler
    PROVE  RT!Next
<1>1. /\ Head(lines) = Files[loads][LineNumber]
      /\ loads \in DOMAIN Files /\ LineNumber \in DOMAIN Files[loads]
  BY InHand DEF InLine, SetHandler
<1>2. Head(lines) \in UNION {{Files[k][i] : i \in DOMAIN Files[k]} : k \in DOMAIN Files}
  BY <1>1
<1>3. UNCHANGED <<Asked, found>>
  BY DEF SetHandler, Asked, Searching, search
<1>4. RT!Bind(Head(lines))
  BY <1>3 DEF RT!Bind, SetHandler
<1> QED BY <1>2, <1>4 DEF RT!Next

\* A search that begins asks for its path.
LEMMA Asks ==
    ASSUME IInv, NEW t \in Thread, NEW p \in Path, Find(t, p)
    PROVE  RT!Next
<1>1. SearchTypeOK
  BY DEF IInv, TypeOK
<1>2. Asked[t] = NULL /\ Asked = [u \in Thread |-> Asked[u]]
  BY DEF Asked, Searching, Find
<1>3. Asked' = [Asked EXCEPT ![t] = [path |-> p, known |-> p \in DOMAIN routes]]
  <2> DEFINE q == [path |-> p, known |-> p \in DOMAIN routes]
  <2>1. spc'[t] = "compare" /\ sought'[t] = q
    BY <1>1 DEF Find, SearchTypeOK
  <2>2. \A u \in Thread \ {t} : spc'[u] = spc[u] /\ sought'[u] = sought[u]
    BY <1>1 DEF Find, SearchTypeOK
  <2> HIDE DEF q
  <2>3. ASSUME NEW u \in Thread
        PROVE  (IF Searching(u)' THEN sought'[u] ELSE NULL) = IF u = t THEN q ELSE Asked[u]
    BY <2>1, <2>2 DEF Searching, Asked
  <2>4. Asked' = [u \in Thread |-> IF u = t THEN q ELSE Asked[u]]
    BY <2>3 DEF Asked
  <2> QED BY <1>2, <2>4 DEF q
<1>4. RT!Ask(t, p)
  BY <1>2, <1>3 DEF RT!Ask, Find, loader
<1> QED BY <1>4 DEF RT!Next

\* A search for a path that had a route finds its handler.
LEMMA FindsRoute ==
    ASSUME IInv, NEW t \in Thread, NotFound(t) \/ TakeHandler(t), sought[t].known
    PROVE  /\ sought[t].path \in DOMAIN routes
           /\ found' = [found EXCEPT ![t] = routes[sought[t].path]]
<1> DEFINE p == sought[t].path
           left == url[t]
<1>0. Searching(t)
  BY DEF Searching, NotFound, TakeHandler
<1>1. p \in DOMAIN routes /\ left \in Seq(Part) /\ left # <<>> /\ EndOf(p, left)
  BY <1>0, Course
<1>2. PICK m \in DOMAIN node : Goal(t, m) /\ Ahead(t, m)
  BY <1>0, Course
<1>3. TakeHandler(t) /\ head[t] = m /\ Len(left) = 1
  BY <1>1, <1>2 DEF Ahead, NotFound, TakeHandler
<1>4. PICK n \in DOMAIN node : /\ IsNode(n, Taken(p, left), Head(left))
                               /\ Len(left) = 1 => node[n].handler = routes[p]
  <2> HIDE DEF p, left
  <2> QED BY <1>1, NextNode
<1>5. m = n
  BY <1>2, <1>4 DEF Goal, IsNode, IInv, TreeOK, Distinct
<1> QED BY <1>1, <1>3, <1>4, <1>5 DEF TakeHandler

\* A search that is over answers: with its route, if there was one to find.
LEMMA Answers ==
    ASSUME IInv, NEW t \in Thread, NotFound(t) \/ TakeHandler(t)
    PROVE  RT!Next
<1>1. SearchTypeOK /\ TreeTypeOK /\ UNCHANGED <<routes, sought>>
  BY DEF IInv, TypeOK, NotFound, TakeHandler, loader
<1>2. Searching(t) /\ Asked[t] = sought[t] /\ Asked = [u \in Thread |-> Asked[u]]
  BY DEF Asked, Searching, NotFound, TakeHandler
<1>3. Asked[t] # NULL
  BY <1>1, <1>2, NullAssumption DEF SearchTypeOK
<1>4. Asked' = [Asked EXCEPT ![t] = NULL]
  <2>1. spc'[t] = "done" /\ \A u \in Thread \ {t} : spc'[u] = spc[u]
    BY <1>1 DEF NotFound, TakeHandler, SearchTypeOK
  <2>2. ASSUME NEW u \in Thread
        PROVE  (IF Searching(u)' THEN sought'[u] ELSE NULL) = IF u = t THEN NULL ELSE Asked[u]
    BY <1>1, <2>1 DEF Searching, Asked
  <2>3. Asked' = [u \in Thread |-> IF u = t THEN NULL ELSE Asked[u]]
    BY <2>2 DEF Asked
  <2> QED BY <1>2, <2>3
<1>5. ASSUME sought[t].known
      PROVE  found' = [found EXCEPT ![t] = routes[sought[t].path]]
  BY <1>5, FindsRoute
<1>6. ASSUME ~sought[t].known
      PROVE  \E h \in Handler \cup {NULL} : found' = [found EXCEPT ![t] = h]
  <2>1. CASE NotFound(t)
    <3>1. found' = [found EXCEPT ![t] = found[t]] /\ found[t] \in Handler \cup {NULL}
      BY <1>1, <2>1 DEF NotFound, SearchTypeOK
    <3> QED BY <3>1
  <2>2. CASE TakeHandler(t)
    <3>1. head[t] \in DOMAIN node
      BY <2>2 DEF TakeHandler, IInv, Searches, SearchOK
    <3>2. node[head[t]].handler \in Handler \cup {NULL}
      BY <1>1, <3>1, Origin DEF Nodes
    <3> QED BY <2>2, <3>2 DEF TakeHandler
  <2> QED BY <2>1, <2>2
<1>7. RT!Answer(t)
  <2>1. CASE sought[t].known
    BY <1>1, <1>2, <1>3, <1>4, <1>5, <2>1 DEF RT!Answer
  <2>2. CASE ~sought[t].known
    BY <1>1, <1>2, <1>3, <1>4, <1>6, <2>2 DEF RT!Answer
  <2> QED BY <2>1, <2>2
<1> QED BY <1>7 DEF RT!Next

\* A thread that returns forgets its answer.
LEMMA Drops ==
    ASSUME IInv, NEW t \in Thread, ~Searching(t), Return(t)
    PROVE  RT!Next
<1>1. SearchTypeOK
  BY DEF IInv, TypeOK
<1>2. Asked[t] = NULL
  BY DEF Asked
<1>3. Asked' = Asked
  <2>1. /\ spc'[t] = "idle"
        /\ \A u \in Thread \ {t} : spc'[u] = spc[u] /\ sought'[u] = sought[u]
    BY <1>1 DEF Return, SearchTypeOK
  <2>2. ASSUME NEW u \in Thread
        PROVE  (IF Searching(u)' THEN sought'[u] ELSE NULL)
                  = IF Searching(u) THEN sought[u] ELSE NULL
    BY <2>1 DEF Searching
  <2> QED BY <2>2 DEF Asked
<1>4. RT!Drop(t)
  BY <1>2, <1>3 DEF RT!Drop, Return, loader
<1> QED BY <1>4 DEF RT!Next

\* Each step of the trie is one of RouteTable or changes nothing it knows.
LEMMA StepIsStep ==
    ASSUME IInv, [TrieNext]_<<tree, loader, search>>
    PROVE  [RT!Next]_(RT!vars)
<1>1. CASE UNCHANGED <<tree, loader, search>>
  BY <1>1, Hidden DEF loader, search, Searching
<1>2. CASE Load
  <2>1. CASE SetHandler
    BY <2>1, SetsRoute
  <2>2. CASE Load /\ ~SetHandler
    <3>1. UNCHANGED <<routes, search>>
      BY <2>2 DEF Load, Reload, LoadLine, LoadFails, LoadEnd, Create, WriteKey, Walk, Enter, loader
    <3> QED BY <3>1, Hidden DEF search, Searching
  <2> QED BY <1>2, <2>1, <2>2
<1>3. ASSUME NEW t \in Thread, NEW p \in Path, Find(t, p) PROVE RT!Next
  BY <1>3, Asks
<1>4. ASSUME NEW t \in Thread, FindStep(t) PROVE [RT!Next]_(RT!vars)
  <2>1. SearchTypeOK
    BY DEF IInv, TypeOK
  <2>2. CASE NotFound(t) \/ TakeHandler(t)
    BY <2>2, Answers
  <2>3. CASE Compare(t) \/ NextSibling(t) \/ Descend(t)
    <3>1. UNCHANGED <<routes, found, sought>>
      BY <2>3 DEF Compare, NextSibling, Descend, loader
    <3>2. /\ spc[t] \in {"compare", "sibling", "child"}
          /\ spc'[t] \in {"compare", "sibling", "child", "take"}
          /\ \A u \in Thread \ {t} : spc'[u] = spc[u]
      <4>1. CASE Compare(t)
        <5>1. PICK same \in Matches(node[head[t]].key, Head(url[t])) :
                 spc' = [spc EXCEPT ![t] = CASE ~same -> "sibling"
                                             [] same /\ Len(url[t]) > 1 -> "child"
                                             [] OTHER -> "take"]
          BY <4>1 DEF Compare
        <5>2. CASE ~same
          BY <2>1, <4>1, <5>1, <5>2 DEF Compare, SearchTypeOK
        <5>3. CASE same /\ Len(url[t]) > 1
          BY <2>1, <4>1, <5>1, <5>3 DEF Compare, SearchTypeOK
        <5>4. CASE same /\ ~(Len(url[t]) > 1)
          BY <2>1, <4>1, <5>1, <5>4 DEF Compare, SearchTypeOK
        <5> QED BY <5>2, <5>3, <5>4
      <4>2. CASE NextSibling(t) \/ Descend(t)
        BY <2>1, <4>2 DEF NextSibling, Descend, SearchTypeOK
      <4> QED BY <2>3, <4>1, <4>2
    <3>3. \A u \in Thread : Searching(u)' <=> Searching(u)
      BY <3>2 DEF Searching
    <3> QED BY <3>1, <3>3, Hidden
  <2> QED BY <1>4, <2>2, <2>3 DEF FindStep
<1>5. ASSUME NEW t \in Thread, ~Searching(t), Return(t) PROVE RT!Next
  BY <1>5, Drops
<1> QED BY <1>1, <1>2, <1>3, <1>4, <1>5 DEF TrieNext

\* The trie keeps what RouteTable promises, however many threads search it and
\* whatever is loaded again meanwhile: a search that begins when its path has
\* a route gives the handler of this path, though nodes are linked before they
\* have their key and handler (cgi_url_dltrie.c:92-107, 146-167).
THEOREM TrieImplementsRouteTable == TrieSafety => ImplementsRouteTable
<1>1. TrieInit => RT!Init
  BY DEF TrieInit, RT!Init, Asked, Searching
<1>2. IInv /\ [TrieNext]_<<tree, loader, search>> => [RT!Next]_(RT!vars)
  BY StepIsStep
<1> QED BY <1>1, <1>2, Invariant, PTL DEF TrieSafety, ImplementsRouteTable, RT!Safety

-----------------------------------------------------------------------------
\* The path of the line in hand.
InHandSet == IF lines = <<>> THEN {} ELSE {Head(lines).path}

\* A node is for the beginning of a path with a route, or of the one in hand.
LEMMA NodesBegin ==
    ASSUME IInv, NEW n \in DOMAIN node
    PROVE  Below(n) \in Beginnings(DOMAIN routes \cup InHandSet)
<1> DEFINE p == Files[made[n].file][made[n].line].path
           k == Len(made[n].above) + 1
<1>1. TreeTypeOK /\ OriginOK(n) /\ MadeBefore(n)
  BY DEF IInv, TypeOK, OrderOK, OriginsOK, AllMadeBefore
<1>2. /\ p \in Seq(Part) /\ k \in DOMAIN p /\ p[k] = made[n].part
      /\ \A j \in 1..(k - 1) : p[j] = made[n].above[j]
      /\ made[n].above \in Seq(Part) /\ made[n].part \in Part
  BY <1>1, OriginLine, Origin
<1>3. p \in DOMAIN routes \cup InHandSet
  <2>1. made[n].file \in DOMAIN Files /\ made[n].line \in DOMAIN Files[made[n].file]
    BY <1>1 DEF OriginOK
  <2>2. CASE Before(made[n].file, made[n].line, loads, LineNumber)
    BY <2>1, <2>2 DEF IInv, RoutesOK, LinesSet
  <2>3. CASE made[n].file = loads /\ made[n].line = LineNumber /\ InLine
    BY <2>3, InHand DEF InHandSet
  <2> QED BY <1>1, <2>2, <2>3 DEF MadeBefore
<1>4. Below(n) = SubSeq(p, 1, k) /\ k \in 1..Len(p)
  <2> DEFINE c == made[n].above
             x == made[n].part
  <2>a. Below(n) = Append(c, x) /\ c \in Seq(Part) /\ x \in Part /\ k = Len(c) + 1
    BY <1>2 DEF Below
  <2>b. /\ p \in Seq(Part) /\ k \in DOMAIN p /\ p[k] = x
        /\ \A j \in 1..(k - 1) : p[j] = c[j]
    BY <1>2
  <2> HIDE DEF p, k, c, x
  <2>2. k \in 1..Len(p) /\ k \in Nat /\ Len(c) \in Nat /\ \A j \in 1..k : p[j] \in Part
    BY <2>a, <2>b
  <2>1. /\ Below(n) \in Seq(Part) /\ Len(Below(n)) = k
        /\ \A j \in 1..k : Below(n)[j] = p[j]
    <3>1. /\ Append(c, x) \in Seq(Part) /\ Len(Append(c, x)) = Len(c) + 1
          /\ \A j \in 1..Len(c) : Append(c, x)[j] = c[j]
          /\ Append(c, x)[Len(c) + 1] = x
      BY <2>a, AppendProperties
    <3>2. k - 1 = Len(c) /\ \A j \in 1..k : j \in 1..Len(c) \/ j = k
      BY <2>a, <2>2
    <3> QED BY <2>a, <2>b, <3>1, <3>2
  <2>3. /\ SubSeq(p, 1, k) \in Seq(Part) /\ Len(SubSeq(p, 1, k)) = k
        /\ \A j \in 1..k : SubSeq(p, 1, k)[j] = p[j]
    <3>1. /\ SubSeq(p, 1, k) \in Seq(Part)
          /\ Len(SubSeq(p, 1, k)) = IF 1 <= k THEN k - 1 + 1 ELSE 0
          /\ \A j \in 1..(k - 1 + 1) : SubSeq(p, 1, k)[j] = p[1 + j - 1]
      BY <2>b, <2>2, SubSeqProperties
    <3> QED BY <2>2, <3>1
  <2>4. Len(Below(n)) = Len(SubSeq(p, 1, k))
        /\ \A j \in 1..Len(Below(n)) : Below(n)[j] = SubSeq(p, 1, k)[j]
    BY <2>1, <2>3
  <2> QED BY <2>1, <2>2, <2>3, <2>4, SeqEqual
<1> HIDE DEF p, k
<1> QED BY <1>3, <1>4 DEF Beginnings

\* Finitely many paths have finitely many beginnings.
LEMMA BeginningsFinite ==
    ASSUME NEW paths, IsFiniteSet(paths), \A p \in paths : Len(p) \in Nat
    PROVE  IsFiniteSet(Beginnings(paths))
<1> DEFINE Of(p) == {SubSeq(p, 1, n) : n \in 1..Len(p)}
           All == {Of(p) : p \in paths}
<1>1. ASSUME NEW p \in paths PROVE IsFiniteSet(Of(p))
  <2> DEFINE f == [n \in 1..Len(p) |-> SubSeq(p, 1, n)]
  <2>1. f \in Surjection(1..Len(p), Of(p))
    BY DEF Surjection
  <2>2. IsFiniteSet(1..Len(p))
    BY FS_Interval
  <2> HIDE DEF f, Of
  <2> QED BY <2>1, <2>2, FS_Surjection
<1>2. IsFiniteSet(All)
  <2> DEFINE g == [p \in paths |-> Of(p)]
  <2>1. g \in Surjection(paths, All)
    <3> HIDE DEF Of
    <3> QED BY DEF Surjection
  <2> HIDE DEF g, All
  <2> QED BY <2>1, FS_Surjection
<1>3. \A T \in All : IsFiniteSet(T)
  <2> HIDE DEF Of
  <2> QED BY <1>1
<1>4. Beginnings(paths) = UNION All
  BY DEF Beginnings
<1> HIDE DEF All
<1> QED BY <1>2, <1>3, <1>4, FS_UNION

\* The bound on the nodes follows from the invariant.
LEMMA AreShared ==
    ASSUME IInv
    PROVE  NodesAreShared
<1> DEFINE P == DOMAIN routes \cup InHandSet
           B == Beginnings(P)
           N == Len(node)
           f == [n \in 1..N |-> Below(n)]
<1>1. N \in Nat /\ DOMAIN node = 1..N
  BY DEF IInv, TypeOK, TreeTypeOK
<1>2. IsFiniteSet(P) /\ \A p \in P : Len(p) \in Nat
  <2>1. IsFiniteSet(DOMAIN routes) /\ \A p \in DOMAIN routes : p \in Seq(Part)
    BY PathAssumption DEF IInv, TypeOK, RouteTypeOK
  <2>2. IsFiniteSet(InHandSet) /\ \A p \in InHandSet : p \in Seq(Part)
    BY LineInHand, FS_EmptySet, FS_Singleton DEF InHandSet, IInv, TypeOK, OrderOK
  <2>3. IsFiniteSet(P)
    BY <2>1, <2>2, FS_Union
  <2>4. \A p \in P : p \in Seq(Part)
    BY <2>1, <2>2
  <2> HIDE DEF P
  <2> QED BY <2>3, <2>4
<1>3. IsFiniteSet(B)
  <2> HIDE DEF P
  <2> QED BY <1>2, BeginningsFinite
<1>4. f \in Injection(1..N, B)
  <2>1. f \in [1..N -> B]
    BY <1>1, NodesBegin
  <2>2. \A m, n \in 1..N : f[m] = f[n] => m = n
    BY <1>1, BelowDiffers
  <2> HIDE DEF f, B, N
  <2> QED BY <2>1, <2>2 DEF Injection, IsInjective
<1>5. Cardinality(1..N) <= Cardinality(B)
  <2> HIDE DEF f, B, N
  <2> QED BY <1>3, <1>4, FS_Injection
<1>6. Cardinality(1..N) = N
  <2> HIDE DEF N
  <2> QED BY <1>1, FS_Interval
<1> QED BY <1>5, <1>6 DEF NodesAreShared, InHandSet

\* However often and whatever is loaded, the tree has no more nodes than the
\* paths have beginnings: paths that begin alike share their nodes
\* (cgi_url_dltrie.c:96-107).
THEOREM NodesShared == TrieSafety => []NodesAreShared
<1>1. IInv => NodesAreShared
  BY AreShared
<1> QED BY <1>1, Invariant, PTL
=============================================================================
