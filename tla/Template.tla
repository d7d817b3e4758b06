------------------------------ MODULE Template ------------------------------
(***************************************************************************)
(* templateRender of src/template.c over the files of web/public/html.  A  *)
(* file is a sequence of words, braces, percent signs and blanks.          *)
(***************************************************************************)
EXTENDS Tokens

CONSTANT
    Shape   \* of each file, the items it consists of

Item == [kind : {"text", "var", "include", "when"}, words : Seq(STRING)]

\* How an item is written: as it is, or in braces.  An expression in percent
\* signs has a blank behind it, which the loop takes for the second brace of a
\* variable.
Inside(item) ==
    CASE item.kind = "var" -> <<"{", item.words[1]>>
      [] item.kind = "include" -> <<"%", "include", " ", item.words[1], "%">>
      [] item.kind = "when" ->
            <<"%", "when", " ", item.words[1], " ", item.words[2], " ", item.words[3], "%">>

Written(item) ==
    IF item.kind = "text" THEN item.words
    ELSE <<"{">> \o Joined(Inside(item), "}", <<IF item.kind = "var" THEN "}" ELSE " ">>)

\* The words of an item have none of the marks by which it is told apart.
WellWritten(item) ==
    CASE item.kind = "text" -> ToSet(item.words) \cap {NUL, "{"} = {}
      [] item.kind = "when" -> Len(item.words) = 3 /\ ToSet(item.words) \cap {NUL, "}"} = {}
      [] OTHER -> Len(item.words) = 1 /\ ToSet(item.words) \cap {NUL, "}"} = {}

ASSUME ShapeAssumption ==
    \A f \in DOMAIN Shape :
        /\ Shape[f] \in Seq(Item)
        /\ \A i \in DOMAIN Shape[f] : WellWritten(Shape[f][i])

\* A file includes only files that are there, and not itself by way of others:
\* a page includes the header, and that includes the navigation bar.
Included(f) == {Shape[f][i].words[1] : i \in {j \in DOMAIN Shape[f] : Shape[f][j].kind = "include"}}
ASSUME IncludesAssumption ==
    \E depth \in [DOMAIN Shape -> 0..2] :
        \A f \in DOMAIN Shape : \A g \in Included(f) : g \in DOMAIN Shape /\ depth[g] < depth[f]

File == [f \in DOMAIN Shape |-> FlattenSeq([i \in DOMAIN Shape[f] |-> Written(Shape[f][i])])]

-----------------------------------------------------------------------------
\* What comes out.  A file that is missing and an expression that is not known
\* end the process.
Exit == "exit(1)"

\* kvFindList, and nothing where there is no such variable
Value(context, k) == LET value == Lookup(context, k) IN IF value = NULL THEN <<>> ELSE value

Scanned(token, context, rendered) ==   \* mutant: strtok_r goes over a value, too
    LET e == Tail(token)
    IN  CASE token[1] = "{" -> NextToken(Value(context, e[1]), 1, {"{"}).token
          [] token[1] = "%" /\ e[1] = "include" ->
                IF e[3] \in DOMAIN File THEN rendered[e[3]] ELSE <<Exit>>
          [] token[1] = "%" /\ e[1] = "when" ->
                IF Lookup(context, e[3]) = <<e[5]>> THEN <<e[7]>> ELSE <<>>
          [] OTHER -> <<"{">>

\* What a token that ends at "}" stands for: a variable, an inclusion, a when
\* clause, or a brace that was none of these.
Expansion(token, context, rendered) ==
    LET e == Tail(token)
    IN  CASE token[1] = "{" -> Value(context, e[1])
          [] token[1] = "%" /\ e[1] = "include" ->
                IF e[3] \in DOMAIN File THEN rendered[e[3]] ELSE <<Exit>>
          [] token[1] = "%" /\ e[1] = "when" ->
                IF Lookup(context, e[3]) = <<e[5]>> THEN <<e[7]>> ELSE <<>>
          [] token[1] = "%" /\ e[1] \notin {"include", "when"} -> <<Exit>>
          [] OTHER -> <<"{">>

\* The plain text up to the next brace, without the second brace of the
\* variable before it.
Plain(token, rest) == IF token[1] \in {"{", "%"} THEN Tail(rest) ELSE <<"}">> \o rest

\* What the loop makes of a buffer from a position on.  Where tokens were cut
\* off is behind it, and not read again.
Loop(buff, context, rendered) ==
    LET loop[i \in 1..(Len(buff) + 1)] ==
            LET r == NextToken(buff, i, {"}"})
                q == NextToken(buff, r.next, {"{"})
            IN  IF ~r.found THEN <<>>
                ELSE Expansion(r.token, context, rendered)
                     \o IF q.found THEN Plain(r.token, q.token) \o loop[q.next] ELSE <<>>
    IN  loop

\* A file up to its first brace, then what the loop makes of the rest of it.  The
\* buffer has a blank in front, for the first token not to be empty.
Rendered(f, context, rendered) ==
    LET buff == <<" ">> \o File[f]
        r == NextToken(buff, 1, {"{"})
    IN  Tail(r.token) \o Loop(buff, context, rendered)[r.next]

Render(f, context) ==
    LET rendered[g \in DOMAIN File] == Rendered(g, context, rendered)
    IN  IF f \in DOMAIN File THEN rendered[f] ELSE <<Exit>>

-----------------------------------------------------------------------------
\* What should come out, item by item.
ShownItem(item, context, shown) ==
    CASE item.kind = "text" -> item.words
      [] item.kind = "var" -> Value(context, item.words[1])
      [] item.kind = "include" -> shown[item.words[1]]
      [] item.kind = "when" ->
            IF Lookup(context, item.words[1]) = <<item.words[2]>> THEN <<item.words[3]>> ELSE <<>>

ShownItems(items, context, shown) ==
    FlattenSeq([i \in DOMAIN items |-> ShownItem(items[i], context, shown)])

Shown(f, context) ==
    LET shown[g \in DOMAIN Shape] == ShownItems(Shape[g], context, shown)
    IN  shown[f]
=============================================================================
