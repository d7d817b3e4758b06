----------------------------- MODULE ParsingProofs -----------------------------
(***************************************************************************)
(* A single worker's requests are parsed as they were sent, whatever they  *)
(* are and wherever they were cut in two: the inductive invariant of       *)
(* requestNew of src/request.c in handle, and what follows from it.        *)
(***************************************************************************)
EXTENDS Handling, TokensProofs

\* Every string, those that the program and browsers spell out among them.
Escaped == {" ", "#", "%", "&", "+", ";", "=", "?", "{", "}"}
EscapeWords == {"%20", "%23", "%25", "%26", "%2B", "%3B", "%3D", "%3F", "%7B", "%7D"}
Spelled == {"UNKNOWN", "NUL", "CR", "LF", "TAB", ":", "top", "Connection", "keep-alive", "Cookie",
            "sid", "Content-Type", "application/x-www-form-urlencoded"}
           \cup Escaped \cup EscapeWords
Word == STRING \cup Spelled
Texts == Seq(Word)
PairList == Seq(Texts \X Texts)

\* Where requestNew reads next, and what it has before it.
Place(t) == IF ppc[t] = "method" THEN Start(t, "buff") ELSE From(t)
Coming(t) == Left(mem[Place(t).thread][Place(t).area], Place(t).pos)

Whole(t) == piece[t] = "whole"
Remains(t, text) == Comes(Coming(t), text, Whole(t))

-----------------------------------------------------------------------------
\* A request from its parts on, and the line of a header behind the colon.
Space == " "
FromVersion(r) == Joined(<<r.version, "CR">>, "LF", Headers(r, 1))
FromTarget(r) == Joined(Target(r), Space, FromVersion(r))
HeaderLine(v) == <<" ">> \o v \o <<"CR">>

\* Fields from the k-th on: what the others before it leave of the text, with
\* an "&" in front, and without.
Behind(F, k) == FlattenSeq([i \in 1..(Len(F) - k) |-> <<"&">> \o Field(F[k + i])])
Bare(F, k) == IF k = Len(F) THEN <<>> ELSE Field(F[k + 1]) \o Behind(F, k + 1)
NextFields(F, k, passed) == IF passed THEN Behind(F, k) ELSE Bare(F, k)

\* The pairs that the first k fields make: of those with a value.
PairsUpto(F, k, list) ==
    /\ list = <<>> <=> \A i \in 1..k : F[i].value = <<>>
    /\ NoHole(F) => \E m \in 0..k : /\ list = AsPairs(SubSeq(F, 1, m))
                                    /\ \A i \in 1..k : F[i].value # <<>> <=> i <= m

\* The pairs of a form that has come in part.
FirstFields(F, list) ==
    LET seen == Reverse(list)
        sent == Filled(F)
    IN  /\ Len(seen) <= Len(sent)
        /\ \A i \in DOMAIN seen :
              /\ seen[i][1] = <<sent[i].name>>
              /\ IF i < Len(seen) THEN seen[i][2] = sent[i].value
                 ELSE seen[i][2] # <<>> /\ IsPrefix(seen[i][2], sent[i].value)

PairsOf(F, list, whole) ==
    IF whole THEN PairsUpto(F, Len(F), list) ELSE NoHole(F) => FirstFields(F, list)

\* A query is parsed when all of it has come.
Entire == TRUE

\* parseQS before a key, and before a value.
KeyAhead(x, F, list, whole) ==
    \/ \E k \in 0..Len(F), passed \in BOOLEAN :
          /\ PairsUpto(F, k, list)
          /\ passed => k > 0 /\ F[k].value = <<>>
          /\ Comes(x, NextFields(F, k, passed), whole)
    \/ ~whole /\ x = <<>> /\ (NoHole(F) => FirstFields(F, list))

ValueAhead(x, name, F, list, whole) ==
    \/ \E k \in 1..Len(F) :
          /\ PairsUpto(F, k - 1, list)
          /\ NoHole(F) /\ F[k].value # <<>> => name = <<F[k].name>>
          /\ F[k].value = <<>> => x = <<>> /\ (whole => k = Len(F))
          /\ Comes(x, FormEncode(F[k].value) \o Behind(F, k), whole)
    \/ ~whole /\ x = <<>> /\ (NoHole(F) => FirstFields(F, list))

-----------------------------------------------------------------------------
\* What was parsed so far of the request r.
MethodOK(t) == parsed[t].method = asking[t].method /\ asking[t].method \in Methods
Located(t) ==
    /\ MethodOK(t) /\ ~asking[t].fragment
    /\ parsed[t].path = PathAndQuery(asking[t])

\* The first k - 1 headers.
Headed(t, k) ==
    Whole(t) =>
        /\ asking[t].version \in Versions
        /\ \A i \in 1..3 :
              LET value == HeaderValue(asking[t], i)
              IN  Lookup(parsed[t].headers, <<HeaderName[i]>>) =
                      IF i < k /\ value # <<>> THEN value ELSE NULL

Unlisted(t) == parsed[t].query = <<>> /\ parsed[t].body = <<>> /\ parsed[t].cookies = <<>>
BodyOK(t) == PairsOf(asking[t].form, parsed[t].body, Whole(t))
QueryOK(t) ==
    /\ parsed[t].uri = asking[t].uri
    /\ PairsOf(asking[t].query, parsed[t].query, Entire)
    /\ asking[t].query # <<>> => parsed[t].query # <<>>

SidPair(r) == When(r.sid # NULL, <<<<<<"sid">>, <<r.sid>>>>>>)

AtMethod(t) ==
    Remains(t, Encode(asking[t])) /\ parsed[t].headers = <<>> /\ Unlisted(t)
AtPath(t) ==
    /\ MethodOK(t) /\ parsed[t].headers = <<>> /\ Unlisted(t)
    /\ Remains(t, FromTarget(asking[t]))
AtVersion(t) ==
    \/ ~Whole(t) /\ Coming(t) = <<>>
    \/ /\ Located(t) /\ parsed[t].uri = parsed[t].path
       /\ parsed[t].headers = <<>> /\ Unlisted(t)
       /\ Remains(t, FromVersion(asking[t]))
AtHeader(t) ==
    /\ Located(t) /\ parsed[t].uri = parsed[t].path /\ Unlisted(t)
    /\ \E k \in 1..4 : Headed(t, k) /\ Remains(t, Headers(asking[t], k))
AtHeaderValue(t) ==
    /\ Located(t) /\ parsed[t].uri = parsed[t].path /\ Unlisted(t)
    /\ \E k \in 1..3 :
          LET value == HeaderValue(asking[t], k)
          IN  /\ value # <<>>
              /\ Headed(t, k)
              /\ Whole(t) => key[t] = <<HeaderName[k]>>
              /\ Remains(t, Joined(HeaderLine(value), "LF", Headers(asking[t], k + 1)))
AtBody(t) ==
    /\ Located(t) /\ parsed[t].uri = parsed[t].path /\ Unlisted(t) /\ Headed(t, 4)
    /\ Remains(t, Fielded(asking[t].form))
AtQuery(t) ==
    /\ Located(t) /\ parsed[t].uri = parsed[t].path /\ Headed(t, 4)
    /\ BodyOK(t) /\ parsed[t].query = <<>> /\ parsed[t].cookies = <<>>
AtCookies(t) ==
    /\ Located(t) /\ Headed(t, 4) /\ BodyOK(t) /\ QueryOK(t) /\ parsed[t].cookies = <<>>
AtCookieKey(t) ==
    /\ Located(t) /\ Headed(t, 4) /\ BodyOK(t) /\ QueryOK(t)
    /\ Whole(t) => /\ asking[t].sid # NULL
                   /\ \/ parsed[t].cookies = <<>> /\ Coming(t) = <<"sid", "=", asking[t].sid>>
                      \/ parsed[t].cookies = SidPair(asking[t]) /\ Coming(t) = <<>>
AtCookieValue(t) ==
    /\ Located(t) /\ Headed(t, 4) /\ BodyOK(t) /\ QueryOK(t)
    /\ Whole(t) => /\ asking[t].sid # NULL /\ key[t] = <<"sid">>
                   /\ parsed[t].cookies = <<>> /\ Coming(t) = <<asking[t].sid>>
AtParsed(t) ==
    /\ Located(t) /\ Headed(t, 4) /\ BodyOK(t) /\ QueryOK(t)
    /\ Whole(t) => parsed[t].cookies = SidPair(asking[t])

\* parseQS is at work on the form or on the query.
OfBody(t) ==
    /\ target[t] = "body" /\ parsed[t].uri = parsed[t].path
    /\ parsed[t].query = <<>> /\ parsed[t].cookies = <<>>
OfQuery(t) ==
    /\ target[t] = "query" /\ parsed[t].uri = asking[t].uri /\ asking[t].query # <<>>
    /\ BodyOK(t) /\ parsed[t].cookies = <<>>
AtPairKey(t) ==
    /\ Located(t) /\ Headed(t, 4)
    /\ \/ OfBody(t) /\ KeyAhead(Coming(t), asking[t].form, parsed[t].body, Whole(t))
       \/ OfQuery(t) /\ KeyAhead(Coming(t), asking[t].query, parsed[t].query, Entire)
AtPairValue(t) ==
    /\ Located(t) /\ Headed(t, 4)
    /\ \/ OfBody(t) /\ ValueAhead(Coming(t), key[t], asking[t].form, parsed[t].body, Whole(t))
       \/ OfQuery(t) /\ ValueAhead(Coming(t), key[t], asking[t].query, parsed[t].query, Entire)

AtFail(t) == Whole(t) => ~Good(asking[t])

\* A request, or its first piece, is being parsed.
Underway(t) ==
    /\ ppc[t] = "method" => AtMethod(t)
    /\ ppc[t] = "path" => AtPath(t)
    /\ ppc[t] = "version" => AtVersion(t)
    /\ ppc[t] = "header" => AtHeader(t)
    /\ ppc[t] = "headerValue" => AtHeaderValue(t)
    /\ ppc[t] = "body" => AtBody(t)
    /\ ppc[t] = "pairKey" => AtPairKey(t)
    /\ ppc[t] = "pairValue" => AtPairValue(t)
    /\ ppc[t] = "query" => AtQuery(t)
    /\ ppc[t] = "cookies" => AtCookies(t)
    /\ ppc[t] = "cookieKey" => AtCookieKey(t)
    /\ ppc[t] = "cookieValue" => AtCookieValue(t)
    /\ ppc[t] = "parsed" => AtParsed(t)
    /\ ppc[t] = "fail" => AtFail(t)

\* What was late is being parsed as if it were a request.  Behind each blank
\* of it, but for the one that may be in front and the next, is one of few words.
AfterBlank == {"keep-alive", "sid", FormType}
BlankMark == {" ", "TAB"}
Spaced(s) == \A j \in 1..Len(s) : s[j] \in BlankMark => j < Len(s) /\ s[j + 1] \in AfterBlank
SpacedLate(x) ==
    \A i, j \in 1..Len(x) :
        i < j /\ x[i] \notin BlankMark /\ x[j] \in BlankMark => Spaced(Left(x, j + 1))
LateAt(t) ==
    /\ ppc[t] \in {"method", "path", "version", "fail"}
    /\ ppc[t] = "method" => SpacedLate(Coming(t)) /\ Clear(Coming(t), {})
    /\ ppc[t] = "path" => Spaced(Coming(t)) /\ Clear(Coming(t), {})
    /\ ppc[t] = "version" => Coming(t) = <<>> \/ Coming(t)[1] \in AfterBlank

-----------------------------------------------------------------------------
\* The parser's memory: strtok has a position in an area that is allocated.
SaveType == [thread : Thread, area : {"buff", "copy"}, pos : Nat]
TextType == [buff : Texts, copy : Texts]
MemType == [Thread -> TextType]
KeyType == [Thread -> Texts]
ParsedType == [Thread -> [method : Word, path : Texts, uri : Texts, headers : PairList,
                          query : PairList, body : PairList, cookies : PairList]]

BuffStep == {"path", "version", "header", "headerValue", "body"}
CopyStep == {"pairKey", "pairValue", "cookieKey", "cookieValue"}

SaveOK(t) ==
    /\ ppc[t] # "idle" => "buff" \in live[t]
    /\ ppc[t] \in CopyStep => "copy" \in live[t] /\ Place(t).area = "copy"
    /\ ppc[t] \in BuffStep => Place(t).area = "buff"
    /\ ppc[t] \in BuffStep \cup CopyStep =>
          Place(t).pos \in 1..(Len(mem[Place(t).thread][Place(t).area]) + 1)

ParserType(t) ==
    /\ save \in SaveType /\ mem \in MemType
    /\ live \in [Thread -> SUBSET {"buff", "copy"}]
    /\ DOMAIN ppc = Thread /\ DOMAIN target = Thread /\ fresh \in [Thread -> BOOLEAN]
    /\ key \in KeyType /\ parsed \in ParsedType
    /\ fresh[t] => ppc[t] \in {"pairKey", "cookieKey"}
    /\ SaveOK(t)

\* What is late is the end of a request whose first word has come.
UnreadOK(t) ==
    unread[t] # <<>> =>
        \E n \in 1..Len(Encode(asking[t])) : unread[t] = Left(Encode(asking[t]), n + 1)

HandleType(t) ==
    /\ DOMAIN hpc = Thread /\ DOMAIN asking = Thread /\ DOMAIN piece = Thread
    /\ DOMAIN unread = Thread /\ DOMAIN wire = Thread
    /\ piece[t] \in {"whole", "first", "rest"}
    /\ hpc[t] = "idle" <=> ppc[t] = "idle"
    /\ hpc[t] \in {"searching", "called"} => ppc[t] = "parsed"
    /\ hpc[t] = "sent" => ppc[t] \in {"parsed", "fail"}
    /\ hpc[t] # "idle" \/ unread[t] # <<>> => asking[t] \in Requests
    /\ hpc[t] # "sent" => wire[t] = NULL
    /\ UnreadOK(t)

ParsingInv(t) ==
    /\ HandleType(t)
    /\ ParserType(t)
    /\ ppc[t] # "idle" => IF piece[t] = "rest" THEN LateAt(t) ELSE Underway(t)

-----------------------------------------------------------------------------
(* What browsers write.                                                    *)

\* Words of an encoded value, and of a query or a form.
ValueWord == Word \ {NUL, "CR", "LF", "TAB", " ", "#", "?", "=", "&"}
FormWord == Word \ {NUL, "CR", "LF", "TAB", " ", "#", "?"}

\* A word as it is written, and as it is read again.
Written1(c) == CASE c = " " -> "+"
                 [] c \in DOMAIN EscapeOf \ {" "} -> EscapeOf[c]
                 [] OTHER -> c
Read1(c) == CASE c = "+" -> " "
              [] c \in DOMAIN Escapes -> Escapes[c]
              [] OTHER -> c

\* Each of the characters that are escaped has its escape.
LEMMA EscapesAre ==
    /\ DOMAIN Escapes = EscapeWords
    /\ DOMAIN EscapeOf = Escaped
    /\ \A c \in Escaped : EscapeOf[c] \in EscapeWords /\ Escapes[EscapeOf[c]] = c
    /\ EscapeWords \subseteq ValueWord \ {"+"}
    /\ \A e \in EscapeWords : Escapes[e] \in Word
<1>1. DOMAIN Escapes = EscapeWords
  BY DEF Escapes, EscapeWords
<1>2. /\ Escapes["%20"] = " " /\ Escapes["%23"] = "#" /\ Escapes["%25"] = "%"
      /\ Escapes["%26"] = "&" /\ Escapes["%2B"] = "+" /\ Escapes["%3B"] = ";"
      /\ Escapes["%3D"] = "=" /\ Escapes["%3F"] = "?" /\ Escapes["%7B"] = "{"
      /\ Escapes["%7D"] = "}"
  BY DEF Escapes
<1>3. {Escapes[e] : e \in DOMAIN Escapes} = Escaped
  <2>1. \A e \in EscapeWords : Escapes[e] \in Escaped
    BY <1>2 DEF EscapeWords, Escaped
  <2>2. \A c \in Escaped : \E e \in EscapeWords : Escapes[e] = c
    BY <1>2 DEF EscapeWords, Escaped
  <2> QED BY <1>1, <2>1, <2>2
<1>4. EscapeOf = [c \in Escaped |-> CHOOSE e \in EscapeWords : Escapes[e] = c]
  BY <1>1, <1>3 DEF EscapeOf
<1>5. ASSUME NEW c \in Escaped
      PROVE  EscapeOf[c] \in EscapeWords /\ Escapes[EscapeOf[c]] = c
  <2>1. \E e \in EscapeWords : Escapes[e] = c
    BY <1>2 DEF Escaped, EscapeWords
  <2> DEFINE e == CHOOSE d \in EscapeWords : Escapes[d] = c
  <2>2. EscapeOf[c] = e
    BY <1>4
  <2>3. e \in EscapeWords /\ Escapes[e] = c
    BY <2>1
  <2> QED BY <2>2, <2>3
<1>6. EscapeWords \subseteq ValueWord \ {"+"}
  <2>1. EscapeWords \subseteq Word
    BY DEF Word, Spelled
  <2>2. \A e \in EscapeWords :
           e \notin {"NUL", "CR", "LF", "TAB", " ", "#", "?", "=", "&", "+"}
    BY DEF EscapeWords
  <2> QED BY <2>1, <2>2 DEF ValueWord, NUL
<1>7. \A e \in EscapeWords : Escapes[e] \in Word
  BY <1>1, <1>3 DEF Word, Spelled
<1>8. DOMAIN EscapeOf = Escaped
  BY <1>4
<1> QED BY <1>1, <1>5, <1>6, <1>7, <1>8

\* What is typed is read as it was, whatever it is, and no separator is in it
\* as it is written.
LEMMA WrittenRead ==
    ASSUME NEW c \in TypedWord
    PROVE  Written1(c) \in ValueWord /\ Read1(Written1(c)) = c
<1>1. c \in Word /\ c \notin {NUL, "CR", "LF", "TAB"} /\ c \notin EscapeWords
  BY EscapesAre DEF TypedWord, Word
<1>2. CASE c = " "
  <2>1. Written1(c) = "+"
    BY <1>2 DEF Written1
  <2>2. "+" \notin DOMAIN Escapes
    BY EscapesAre DEF EscapeWords
  <2>3. Read1("+") = " "
    BY <2>2 DEF Read1
  <2>4. "+" \in ValueWord
    BY DEF ValueWord, Word, Spelled, Escaped, NUL
  <2> QED BY <1>2, <2>1, <2>3, <2>4
<1>3. CASE c \in Escaped \ {" "}
  <2> DEFINE e == EscapeOf[c]
  <2>1. Written1(c) = e
    BY <1>3, EscapesAre DEF Written1
  <2>2. e \in EscapeWords /\ Escapes[e] = c /\ e # "+" /\ e \in ValueWord
    BY <1>3, EscapesAre
  <2> HIDE DEF e
  <2>3. Read1(e) = Escapes[e]
    BY <2>2, EscapesAre DEF Read1
  <2> QED BY <2>1, <2>2, <2>3
<1>4. CASE c \notin Escaped
  <2>1. Written1(c) = c
    BY <1>4, EscapesAre DEF Written1, Escaped
  <2>2. c # "+"
    BY <1>4 DEF Escaped
  <2>3. Read1(c) = c
    BY <1>1, <2>2, EscapesAre DEF Read1
  <2>4. c \in ValueWord
    BY <1>1, <1>4 DEF ValueWord, Escaped
  <2> QED BY <2>1, <2>3, <2>4
<1> QED BY <1>2, <1>3, <1>4

\* So is a text.
LEMMA EncodedIs ==
    ASSUME NEW v \in Seq(TypedWord)
    PROVE  /\ FormEncode(v) \in Seq(ValueWord) /\ Len(FormEncode(v)) = Len(v)
           /\ \A i \in 1..Len(v) : Read1(FormEncode(v)[i]) = v[i]
           /\ v \in Texts
<1>1. Len(v) \in Nat /\ DOMAIN v = 1..Len(v) /\ \A i \in 1..Len(v) : v[i] \in TypedWord
  BY LenProperties, ElementOfSeq
<1>2. FormEncode(v) = [i \in 1..Len(v) |-> Written1(v[i])]
  BY <1>1 DEF FormEncode, Written1
<1> DEFINE e == [i \in 1..Len(v) |-> Written1(v[i])]
<1>3. \A i \in 1..Len(v) : Written1(v[i]) \in ValueWord /\ Read1(Written1(v[i])) = v[i]
  BY <1>1, WrittenRead
<1>4. e \in Seq(ValueWord) /\ Len(e) = Len(v)
  BY <1>1, <1>3
<1>5. \A i \in 1..Len(v) : Read1(e[i]) = v[i]
  BY <1>3
<1>6. v \in Seq(Word)
  <2>1. TypedWord \subseteq Word
    BY DEF TypedWord, Word
  <2> QED BY <2>1, SeqMonotonic
<1> HIDE DEF e
<1>7. FormEncode(v) = e
  BY <1>2 DEF e
<1> QED BY <1>4, <1>5, <1>6, <1>7 DEF Texts

\* What has come of it is decoded to what was typed first.
LEMMA DecodedIs ==
    ASSUME NEW v \in Seq(TypedWord), NEW x, NEW whole, Comes(x, FormEncode(v), whole)
    PROVE  /\ Len(x) \in 0..Len(v) /\ UrlDecode(x) = SubSeq(v, 1, Len(x))
           /\ UrlDecode(x) \in Texts /\ Len(UrlDecode(x)) = Len(x)
           /\ whole => UrlDecode(x) = v
<1> DEFINE e == FormEncode(v)
<1>1. e \in Seq(ValueWord) /\ Len(e) = Len(v)
  BY EncodedIs
<1>2. \A i \in 1..Len(v) : Read1(e[i]) = v[i]
  BY EncodedIs
<1>3. v \in Seq(Word)
  BY EncodedIs DEF Texts
<1> HIDE DEF e
<1>4. x \in Seq(ValueWord) /\ Len(x) <= Len(e) /\ (whole => x = e)
  BY <1>1, ComesIs DEF e
<1>5. \A j \in 1..Len(x) : x[j] = e[j]
  BY <1>1, ComesIs DEF e
<1>6. Len(x) \in Nat /\ DOMAIN x = 1..Len(x) /\ Len(v) \in Nat
  BY <1>4, LenProperties
<1> DEFINE d == [i \in 1..Len(x) |-> Read1(x[i])]
           u == SubSeq(v, 1, Len(x))
<1>7. UrlDecode(x) = d
  BY <1>6 DEF UrlDecode, Read1
<1>8. Len(x) \in 0..Len(v)
  BY <1>1, <1>4, <1>6
<1>91. u \in Seq(Word)
  BY <1>3, <1>8, BeginningIs
<1>92. Len(u) = Len(x)
  BY <1>3, <1>8, BeginningIs
<1>93. \A j \in 1..Len(x) : u[j] = v[j]
  BY <1>3, <1>8, BeginningIs
<1>10. \A j \in 1..Len(x) : d[j] = u[j]
  <2> TAKE j \in 1..Len(x)
  <2>1. j \in 1..Len(v)
    BY <1>6, <1>8
  <2>2. d[j] = Read1(e[j])
    BY <1>5
  <2> QED BY <2>1, <2>2, <1>2, <1>93
<1> HIDE DEF u
<1>11. \A j \in 1..Len(x) : u[j] \in Word
  BY <1>91, <1>92, ElementOfSeq
<1>12. d \in Seq(Word) /\ Len(d) = Len(x)
  <2>1. \A j \in 1..Len(x) : Read1(x[j]) \in Word
    BY <1>10, <1>11
  <2> QED BY <2>1, <1>6
<1> HIDE DEF d
<1>13. d = u
  BY <1>10, <1>12, <1>91, <1>92, SeqEqual
<1>14. whole => u = v
  <2> SUFFICES ASSUME whole PROVE u = v
    OBVIOUS
  <2>1. Len(x) = Len(v)
    BY <1>1, <1>4
  <2> QED BY <2>1, <1>3, SubSeqFull DEF u
<1> QED BY <1>7, <1>8, <1>12, <1>13, <1>14 DEF u, Texts

-----------------------------------------------------------------------------
(* The fields of a query or a form.                                        *)

FieldSet == [name : PlainWord, value : Seq(TypedWord)]

\* A field as it is written.
LEMMA FieldIs ==
    ASSUME NEW f \in FieldSet
    PROVE  /\ Field(f) \in Seq(FormWord) /\ Field(f) # <<>>
           /\ f.name \in ValueWord /\ f.name \in PlainWord
           /\ FormEncode(f.value) \in Seq(ValueWord) /\ FormEncode(f.value) \in Seq(FormWord)
<1>1. f.name \in ValueWord /\ f.name \in PlainWord
  BY DEF FieldSet, PlainWord, Marks, ValueWord, Word
<1>2. FormEncode(f.value) \in Seq(ValueWord)
  BY EncodedIs DEF FieldSet
<1>3. ValueWord \subseteq FormWord
  BY DEF ValueWord, FormWord
<1>4. FormEncode(f.value) \in Seq(FormWord)
  BY <1>2, <1>3, SeqMonotonic
<1>5. <<f.name>> \in Seq(FormWord) /\ Len(<<f.name>>) = 1
  BY <1>1, <1>3
<1>6. "=" \in FormWord
  BY DEF FormWord, Word, Spelled, Escaped, NUL
<1> DEFINE n == <<f.name>>
           e == FormEncode(f.value)
<1> HIDE DEF n, e
<1>7. n \in Seq(FormWord) /\ e \in Seq(FormWord)
  BY <1>4, <1>5 DEF n, e
<1>8. Joined(n, "=", e) \in Seq(FormWord)
  BY <1>6, <1>7, JoinedIs
<1>9. Len(Joined(n, "=", e)) = Len(n) + 1 + Len(e)
  BY <1>6, <1>7, JoinedIs
<1>10. Len(n) \in Nat /\ Len(e) \in Nat
  BY <1>7, LenProperties
<1>11. Joined(n, "=", e) # <<>>
  BY <1>8, <1>9, <1>10, EmptySeq
<1>12. Field(f) = Joined(n, "=", e)
  BY DEF Field, n, e
<1> QED BY <1>1, <1>2, <1>4, <1>8, <1>11, <1>12

\* What is behind the first k fields, with and without the "&" in front.
LEMMA BehindIs ==
    ASSUME NEW F \in Fields, NEW k \in 0..Len(F)
    PROVE  /\ Behind(F, k) \in Seq(FormWord) /\ Bare(F, k) \in Seq(FormWord)
           /\ k = Len(F) => Behind(F, k) = <<>> /\ Bare(F, k) = <<>>
           /\ k # Len(F) => Behind(F, k) = <<"&">> \o Bare(F, k)
<1> DEFINE Parts(l) == [i \in 1..(Len(F) - l) |-> <<"&">> \o Field(F[l + i])]
<1>1. Len(F) \in Nat /\ \A i \in 1..Len(F) : F[i] \in FieldSet
  BY LenProperties, ElementOfSeq DEF Fields, FieldSet
<1>2. <<"&">> \in Seq(FormWord)
  BY DEF FormWord, Word, Spelled, Escaped, NUL
<1>3. ASSUME NEW i \in 1..Len(F)
      PROVE  /\ Field(F[i]) \in Seq(FormWord)
             /\ <<"&">> \o Field(F[i]) \in Seq(FormWord)
  <2>1. Field(F[i]) \in Seq(FormWord)
    BY <1>1, FieldIs
  <2> QED BY <2>1, <1>2, ConcatProperties
<1>4. ASSUME NEW l \in 0..Len(F)
      PROVE  Parts(l) \in Seq(Seq(FormWord)) /\ Len(Parts(l)) = Len(F) - l
  <2>1. \A i \in 1..(Len(F) - l) : <<"&">> \o Field(F[l + i]) \in Seq(FormWord)
    <3> TAKE i \in 1..(Len(F) - l)
    <3>1. l + i \in 1..Len(F)
      BY <1>1
    <3> QED BY <3>1, <1>3
  <2>2. Len(F) - l \in Nat
    BY <1>1
  <2> QED BY <2>1, <2>2
<1>5. ASSUME NEW l \in 0..Len(F)
      PROVE  Behind(F, l) \in Seq(FormWord) /\ (l = Len(F) => Behind(F, l) = <<>>)
  <2> DEFINE u == Parts(l)
  <2>1. u \in Seq(Seq(FormWord)) /\ Len(u) = Len(F) - l
    BY <1>4
  <2>2. Behind(F, l) = FlattenSeq(u)
    BY DEF Behind
  <2> HIDE DEF u
  <2>3. FlattenSeq(u) \in Seq(FormWord) /\ (u = <<>> => FlattenSeq(u) = <<>>)
    BY <2>1, FlattenSeqType
  <2>4. l = Len(F) => u = <<>>
    BY <1>1, <2>1, EmptySeq
  <2> QED BY <2>2, <2>3, <2>4
<1>6. CASE k = Len(F)
  BY <1>5, <1>6, EmptySeq DEF Bare
<1>7. CASE k # Len(F)
  <2> DEFINE u == Parts(k)
             v == Parts(k + 1)
             and == <<"&">>
             fk == Field(F[k + 1])
             rest2 == Behind(F, k + 1)
  <2>1. k + 1 \in 0..Len(F) /\ k + 1 \in 1..Len(F)
    BY <1>1, <1>7
  <2>2. u \in Seq(Seq(FormWord)) /\ Len(u) = Len(F) - k
    BY <1>4
  <2>3. v \in Seq(Seq(FormWord)) /\ Len(v) = Len(F) - (k + 1)
    BY <1>4, <2>1
  <2>4. \A i \in 1..Len(v) : v[i] = u[i + 1]
    <3> TAKE i \in 1..Len(v)
    <3>1. i \in 1..(Len(F) - (k + 1)) /\ i + 1 \in 1..(Len(F) - k) /\ (k + 1) + i = k + (i + 1)
      BY <1>1, <2>1, <2>3
    <3>2. v[i] = <<"&">> \o Field(F[(k + 1) + i])
      BY <3>1
    <3>3. u[i + 1] = <<"&">> \o Field(F[k + (i + 1)])
      BY <3>1
    <3> QED BY <3>1, <3>2, <3>3
  <2>5. u[1] = and \o fk
    BY <1>1, <1>7
  <2>61. Behind(F, k) = FlattenSeq(u)
    BY Zenon DEF Behind
  <2>62. rest2 = FlattenSeq(v)
    BY Zenon DEF Behind
  <2>6. Behind(F, k) = FlattenSeq(u) /\ rest2 = FlattenSeq(v)
    BY <2>61, <2>62
  <2> HIDE DEF u, v
  <2>7. Len(u) = Len(v) + 1
    BY <1>1, <2>1, <2>2, <2>3
  <2>8. FlattenSeq(u) = u[1] \o FlattenSeq(v)
    BY <2>2, <2>3, <2>4, <2>7, FlattenFirst
  <2>9. fk \in Seq(FormWord) /\ rest2 \in Seq(FormWord) /\ and \in Seq(FormWord)
    BY <1>2, <1>3, <1>5, <2>1
  <2>10. Bare(F, k) = fk \o rest2
    BY <1>7 DEF Bare
  <2> HIDE DEF fk, rest2, and
  <2>11. (and \o fk) \o rest2 = and \o (fk \o rest2)
    BY <2>9, ConcatAssociative
  <2>12. Behind(F, k) = and \o Bare(F, k)
    BY <2>5, <2>6, <2>8, <2>10, <2>11
  <2>13. Bare(F, k) \in Seq(FormWord)
    BY <2>9, <2>10, ConcatProperties
  <2> QED BY <1>5, <1>7, <2>12, <2>13 DEF and
<1> QED BY <1>6, <1>7

\* The next field of it.
LEMMA NextFieldsIs ==
    ASSUME NEW F \in Fields, NEW k \in 0..Len(F), k # Len(F), NEW passed \in BOOLEAN
    PROVE  LET name == F[k + 1].name
               first == IF passed THEN <<"&", name>> ELSE <<name>>
           IN  NextFields(F, k, passed) =
                   Joined(first, "=", FormEncode(F[k + 1].value) \o Behind(F, k + 1))
<1> DEFINE name == F[k + 1].name
           e == FormEncode(F[k + 1].value)
           b == Behind(F, k + 1)
           n == <<name>>
           and == <<"&">>
           eb == e \o b
<1>1. Len(F) \in Nat /\ \A i \in 1..Len(F) : F[i] \in FieldSet
  BY LenProperties, ElementOfSeq DEF Fields, FieldSet
<1>2. k + 1 \in 1..Len(F) /\ k + 1 \in 0..Len(F)
  BY <1>1
<1>3. F[k + 1] \in FieldSet
  BY <1>1, <1>2
<1>4. name \in FormWord /\ e \in Seq(FormWord) /\ "=" \in FormWord /\ "&" \in FormWord
  BY <1>3, FieldIs DEF FormWord, ValueWord, Word, Spelled, Escaped, NUL
<1>5. b \in Seq(FormWord)
  BY <1>2, BehindIs
<1>61. n \in Seq(FormWord) /\ and \in Seq(FormWord)
  BY <1>4
<1>62. and \o n = <<"&", name>>
  <2> DEFINE s == and \o n
             u == <<"&", name>>
  <2>1. Len(and) = 1 /\ Len(n) = 1 /\ and[1] = "&" /\ n[1] = name
    OBVIOUS
  <2>2. u \in Seq(FormWord) /\ Len(u) = 2 /\ u[1] = "&" /\ u[2] = name
    BY <1>4
  <2> HIDE DEF and, n, u
  <2>31. s \in Seq(FormWord)
    BY <1>61, ConcatProperties
  <2>32. Len(s) = Len(and) + Len(n)
    BY <1>61, ConcatProperties
  <2>3. s \in Seq(FormWord) /\ Len(s) = 2
    BY <2>1, <2>31, <2>32
  <2>4. \A i \in 1..(Len(and) + Len(n)) : s[i] = IF i <= Len(and) THEN and[i] ELSE n[i - Len(and)]
    BY <1>61, ConcatProperties
  <2> HIDE DEF s
  <2>5. s[1] = "&" /\ s[2] = name
    BY <2>1, <2>4
  <2>6. \A i \in 1..Len(s) : s[i] = u[i]
    BY <2>2, <2>3, <2>5
  <2>7. s = u
    BY <2>2, <2>3, <2>6, SeqEqual
  <2> QED BY <2>7 DEF s, u
<1>6. n \in Seq(FormWord) /\ and \in Seq(FormWord) /\ and \o n = <<"&", name>>
  BY <1>61, <1>62
<1>7. Field(F[k + 1]) = Joined(n, "=", e)
  BY DEF Field
<1>8. Bare(F, k) = Field(F[k + 1]) \o b
  BY DEF Bare
<1> HIDE DEF e, b, n, and
<1>9. eb \in Seq(FormWord)
  BY <1>4, <1>5, ConcatProperties
<1>40. e \in Seq(FormWord)
  BY <1>4
<1>41. "=" \in FormWord
  BY <1>4
<1>101. eb = e \o b
  OBVIOUS
<1>11. Behind(F, k) = and \o Bare(F, k)
  BY BehindIs, Zenon DEF and
<1> DEFINE an == and \o n
<1>102. an = and \o n
  OBVIOUS
<1> HIDE DEF eb, an
<1>103. Joined(n, "=", e) \o b = Joined(n, "=", eb)
  <2> DEFINE eq == <<"=">>
             eqe == eq \o e
  <2>1. eq \in Seq(FormWord)
    BY <1>41
  <2> HIDE DEF eq
  <2>2. eqe \in Seq(FormWord)
    BY <1>40, <2>1, ConcatProperties
  <2>3. (eq \o e) \o b = eq \o (e \o b)
    BY <1>40, <1>5, <2>1, ConcatAssociative
  <2>4. eqe \o b = eq \o eb
    BY <1>101, <2>3
  <2> HIDE DEF eqe
  <2>5. (n \o eqe) \o b = n \o (eqe \o b)
    BY <1>5, <1>61, <2>2, ConcatAssociative, SMTT(60)
  <2> QED BY <2>4, <2>5 DEF Joined, eqe, eq
<1>10. Bare(F, k) = Joined(n, "=", eb)
  BY <1>7, <1>8, <1>103
<1>12. and \o Joined(n, "=", eb) = Joined(an, "=", eb)
  <2> DEFINE eqeb == <<"=">> \o eb
  <2>1. <<"=">> \in Seq(FormWord)
    BY <1>41
  <2>2. eqeb \in Seq(FormWord)
    BY <1>9, <2>1, ConcatProperties
  <2> HIDE DEF eqeb
  <2>3. (and \o n) \o eqeb = and \o (n \o eqeb)
    BY SMTT(40), <1>61, <2>2, ConcatAssociative
  <2> QED BY <1>102, <2>3 DEF Joined, eqeb
<1>13. CASE passed
  <2>1. NextFields(F, k, passed) = Joined(an, "=", eb)
    BY <1>10, <1>11, <1>12, <1>13 DEF NextFields
  <2>2. an = <<"&", name>>
    BY <1>6, <1>102
  <2> QED BY <1>13, <2>1, <2>2 DEF eb, e, b
<1>14. CASE ~passed
  <2>1. NextFields(F, k, passed) = Joined(n, "=", eb)
    BY <1>10, <1>14 DEF NextFields
  <2> QED BY <1>14, <2>1 DEF eb, e, b, n
<1> QED BY <1>13, <1>14

\* All of them.
LEMMA FieldedIs ==
    ASSUME NEW F \in Fields
    PROVE  /\ Fielded(F) = Bare(F, 0) /\ Fielded(F) \in Seq(FormWord)
           /\ Fielded(F) = <<>> <=> F = <<>>
<1> DEFINE u == [i \in DOMAIN F |-> When(i # 1, <<"&">>) \o Field(F[i])]
           v == [i \in 1..(Len(F) - 1) |-> <<"&">> \o Field(F[1 + i])]
<1>1. Len(F) \in Nat /\ DOMAIN F = 1..Len(F) /\ \A i \in 1..Len(F) : F[i] \in FieldSet
  BY LenProperties, ElementOfSeq DEF Fields, FieldSet
<1>2. <<"&">> \in Seq(FormWord)
  BY DEF FormWord, Word, Spelled, Escaped, NUL
<1>3. ASSUME NEW i \in 1..Len(F)
      PROVE  /\ Field(F[i]) \in Seq(FormWord) /\ Field(F[i]) # <<>>
             /\ <<"&">> \o Field(F[i]) \in Seq(FormWord)
             /\ <<>> \o Field(F[i]) = Field(F[i])
  <2>1. Field(F[i]) \in Seq(FormWord) /\ Field(F[i]) # <<>>
    BY <1>1, FieldIs
  <2> QED BY <2>1, <1>2, ConcatProperties, ConcatEmptySeq
<1>4. Fielded(F) = FlattenSeq(u)
  BY DEF Fielded
<1>5. F \in Seq(FieldSet)
  BY DEF Fields, FieldSet
<1>6. CASE Len(F) = 0
  <2>1. F = <<>>
    BY <1>5, <1>6, EmptySeq
  <2>2. u = <<>>
    BY <2>1
  <2> HIDE DEF u
  <2>3. FlattenSeq(u) = <<>>
    BY <2>2, EmptySeq, FlattenSeqType
  <2>4. Bare(F, 0) = <<>>
    BY <1>6 DEF Bare
  <2> QED BY <1>4, <2>1, <2>3, <2>4, EmptySeq
<1>7. CASE Len(F) # 0
  <2> DEFINE f1 == Field(F[1])
             rest2 == Behind(F, 1)
  <2>0. 1 \in 1..Len(F) /\ 1 \in 0..Len(F)
    BY <1>1, <1>7
  <2>1. u \in Seq(Seq(FormWord)) /\ Len(u) = Len(F)
    <3>1. \A i \in 1..Len(F) : When(i # 1, <<"&">>) \o Field(F[i]) \in Seq(FormWord)
      BY <1>3 DEF When
    <3> QED BY <1>1, <3>1
  <2>2. v \in Seq(Seq(FormWord)) /\ Len(v) = Len(F) - 1
    <3>1. \A i \in 1..(Len(F) - 1) : <<"&">> \o Field(F[1 + i]) \in Seq(FormWord)
      <4> TAKE i \in 1..(Len(F) - 1)
      <4>1. 1 + i \in 1..Len(F)
        BY <1>1
      <4> QED BY <4>1, <1>3
    <3>2. Len(F) - 1 \in Nat
      BY <1>1, <1>7
    <3> QED BY <3>1, <3>2
  <2>31. \A i \in 1..(Len(F) - 1) : v[i] = u[i + 1]
    <3> TAKE i \in 1..(Len(F) - 1)
    <3>1. i \in 1..(Len(F) - 1) /\ i + 1 \in 1..Len(F) /\ 1 + i = i + 1 /\ i + 1 # 1
      BY <1>1
    <3>2. v[i] = <<"&">> \o Field(F[1 + i])
      BY <3>1
    <3>3. u[i + 1] = <<"&">> \o Field(F[i + 1])
      BY <1>1, <3>1 DEF When
    <3> QED BY <3>1, <3>2, <3>3
  <2>3. \A i \in 1..Len(v) : v[i] = u[i + 1]
    <3> HIDE DEF u, v
    <3> QED BY <2>2, <2>31
  <2>4. u[1] = f1
    <3>1. u[1] = <<>> \o f1
      BY <1>1, <2>0 DEF When
    <3> QED BY <3>1, <2>0, <1>3
  <2>5. rest2 = FlattenSeq(v)
    BY Zenon DEF Behind
  <2> HIDE DEF u, v
  <2>6. Len(u) = Len(v) + 1
    BY <1>1, <2>1, <2>2
  <2>7. FlattenSeq(u) = u[1] \o FlattenSeq(v)
    BY <2>1, <2>2, <2>3, <2>6, FlattenFirst
  <2>8. Bare(F, 0) = f1 \o rest2
    BY <1>7 DEF Bare
  <2>9. f1 \in Seq(FormWord) /\ f1 # <<>>
    BY <2>0, <1>3
  <2>10. rest2 \in Seq(FormWord)
    BY <2>0, BehindIs
  <2> HIDE DEF f1, rest2
  <2>11. f1 \o rest2 \in Seq(FormWord) /\ f1 \o rest2 # <<>>
    <3>1. f1 \o rest2 \in Seq(FormWord)
      BY <2>9, <2>10, ConcatProperties
    <3>2. f1 \o rest2 # <<>>
      BY <2>9, <2>10, ConcatEqualIffEmpty
    <3> QED BY <3>1, <3>2
  <2>12. F # <<>>
    BY <1>7, EmptySeq
  <2>13. Fielded(F) = f1 \o rest2
    BY <1>4, <2>4, <2>5, <2>7
  <2> QED BY <2>8, <2>11, <2>12, <2>13
<1> QED BY <1>6, <1>7

-----------------------------------------------------------------------------
(* Requests.                                                               *)

TextWord == Word \ {NUL}
PathWord == FormWord \cup {"?"}

\* What is assumed of requests, and of the words in them.
LEMMA RequestIs ==
    ASSUME NEW r \in Requests
    PROVE  /\ r.uri \in Seq(FormWord) /\ r.uri # <<>>
           /\ r.method \in FormWord /\ r.version \in FormWord
           /\ r.sid \in FormWord \cup {NULL} /\ r.sid \in PlainWord \cup {NULL}
           /\ r.query \in Fields /\ r.form \in Fields
           /\ r.fragment \in BOOLEAN /\ r.keepAlive \in BOOLEAN
<1>1. PlainWord \subseteq FormWord
  BY DEF PlainWord, Marks, FormWord, Word
<1>2. /\ r.uri \in Path \cap Seq(PlainWord)
      /\ r.method \in PlainWord /\ r.version \in PlainWord /\ r.sid \in PlainWord \cup {NULL}
      /\ r.query \in Fields /\ r.form \in Fields
      /\ r.fragment \in BOOLEAN /\ r.keepAlive \in BOOLEAN
  BY RequestsAssumption
<1>3. r.uri # <<>>
  BY <1>2, PathAssumption
<1>4. r.uri \in Seq(FormWord)
  BY <1>1, <1>2, SeqMonotonic
<1> QED BY <1>1, <1>2, <1>3, <1>4

\* The words that are separators, or are spelled out by browsers.
LEMMA WordsAre ==
    /\ FormWord \subseteq TextWord /\ PathWord \subseteq TextWord /\ TextWord \subseteq Word
    /\ NUL \in Word
    /\ {" ", "LF", "CR", ":", "#", "?", "=", "&", "top"} \subseteq TextWord
    /\ {"Connection", "Cookie", "Content-Type", "keep-alive", "sid", "=", FormType}
           \subseteq FormWord
    /\ \A w \in FormWord : w \notin {NUL, "CR", "LF", "TAB", " ", "#", "?"}
    /\ \A w \in PathWord : w \notin {NUL, "CR", "LF", "TAB", " ", "#"}
<1>1. Spelled \subseteq Word
  BY DEF Word
<1>2. FormWord \subseteq TextWord /\ TextWord \subseteq Word
  BY DEF FormWord, TextWord
<1>3. {NUL, " ", "LF", "CR", ":", "#", "?", "=", "&", "top"} \subseteq Word
  BY <1>1 DEF Spelled, Escaped, NUL
<1>4. {" ", "LF", "CR", ":", "#", "?", "=", "&", "top"} \subseteq TextWord
  BY <1>3 DEF TextWord, NUL
<1>5. {"Connection", "Cookie", "Content-Type", "keep-alive", "sid", "=", FormType} \subseteq Word
  BY <1>1 DEF Spelled, Escaped, FormType
<1>6. {"Connection", "Cookie", "Content-Type", "keep-alive", "sid", "=", FormType}
          \subseteq FormWord
  BY <1>5 DEF FormWord, NUL, FormType
<1>7. \A w \in FormWord : w \notin {NUL, "CR", "LF", "TAB", " ", "#", "?"}
  BY DEF FormWord
<1>8. \A w \in PathWord : w \notin {NUL, "CR", "LF", "TAB", " ", "#"}
  BY <1>7 DEF PathWord, NUL
<1>9. PathWord \subseteq TextWord
  BY <1>2, <1>4 DEF PathWord
<1> QED BY <1>2, <1>3, <1>4, <1>6, <1>7, <1>8, <1>9

\* A text of such words is taken whole where none of them is a delimiter.
LEMMA ClearIs ==
    ASSUME NEW S, NEW s \in Seq(S), NEW delims, \A w \in S : w \notin delims /\ w # NUL
    PROVE  Clear(s, delims)
<1>1. \A j \in 1..Len(s) : s[j] \in S
  BY ElementOfSeq
<1> QED BY <1>1 DEF Clear

\* The path a browser writes, and what is found in it.
LEMMA PathIs ==
    ASSUME NEW r \in Requests
    PROVE  LET p == PathAndQuery(r)
           IN  /\ p \in Seq(PathWord) /\ p # <<>>
               /\ Contains(p, "?") <=> r.query # <<>>
               /\ r.query = <<>> => p = r.uri
               /\ r.query # <<>> =>
                      /\ SubSeq(p, 1, PositionOf(p, "?") - 1) = r.uri
                      /\ SubSeq(p, PositionOf(p, "?") + 1, Len(p)) = Fielded(r.query)
<1> DEFINE p == PathAndQuery(r)
           u == r.uri
           f == Fielded(r.query)
<1>1. u \in Seq(FormWord) /\ u # <<>> /\ f \in Seq(FormWord)
  BY RequestIs, FieldedIs
<1>2. FormWord \subseteq PathWord /\ "?" \in PathWord /\ "?" \notin FormWord
  BY WordsAre DEF PathWord
<1>3. u \in Seq(PathWord) /\ f \in Seq(PathWord)
  BY <1>1, <1>2, SeqMonotonic
<1>4. \A i \in 1..Len(u) : u[i] # "?"
  BY <1>1, <1>2, ElementOfSeq
<1>5. (r.query = <<>> => p = u) /\ (r.query # <<>> => p = Joined(u, "?", f))
  BY DEF PathAndQuery
<1> HIDE DEF p, u, f
<1>6. CASE r.query = <<>>
  <2>1. ~Contains(p, "?")
    BY <1>4, <1>5, <1>6 DEF Contains
  <2> QED BY <1>1, <1>3, <1>5, <1>6, <2>1 DEF p, u, f
<1>7. CASE r.query # <<>>
  <2>1. p = Joined(u, "?", f)
    BY <1>5, <1>7
  <2>2. p \in Seq(PathWord)
    BY <1>2, <1>3, <2>1, JoinedIs
  <2>3. Len(p) = Len(u) + 1 + Len(f)
    BY <1>2, <1>3, <2>1, JoinedIs
  <2>4. Len(u) \in Nat /\ Len(f) \in Nat
    BY <1>1, LenProperties
  <2>5. p # <<>>
    BY <2>2, <2>3, <2>4, EmptySeq
  <2>61. Contains(p, "?")
    BY <1>2, <1>3, <1>4, <2>1, MarkFound
  <2>62. PositionOf(p, "?") = Len(u) + 1
    BY <1>2, <1>3, <1>4, <2>1, MarkFound
  <2>63. SubSeq(p, 1, Len(u)) = u
    BY <1>2, <1>3, <1>4, <2>1, MarkFound
  <2>64. SubSeq(p, Len(u) + 2, Len(p)) = f
    BY <1>2, <1>3, <1>4, <2>1, MarkFound
  <2>7. PositionOf(p, "?") - 1 = Len(u) /\ PositionOf(p, "?") + 1 = Len(u) + 2
    BY <2>4, <2>62
  <2>8. SubSeq(p, 1, PositionOf(p, "?") - 1) = u
    BY <2>63, <2>7
  <2>9. SubSeq(p, PositionOf(p, "?") + 1, Len(p)) = f
    BY <2>64, <2>7
  <2> QED BY <1>7, <2>2, <2>5, <2>61, <2>8, <2>9 DEF p, u, f
<1> QED BY <1>6, <1>7

\* The target of its request line.
LEMMA TargetIs ==
    ASSUME NEW r \in Requests
    PROVE  LET x == Target(r)
           IN  /\ x \in Seq(TextWord) /\ x # <<>> /\ Clear(x, BlankMark)
               /\ Contains(x, "#") <=> r.fragment
               /\ ~r.fragment => x = PathAndQuery(r)
<1> DEFINE p == PathAndQuery(r)
           top == <<"#", "top">>
           x == Target(r)
           S == PathWord \cup {"#", "top"}
<1>1. p \in Seq(PathWord) /\ p # <<>>
  BY PathIs
<1>2. \A w \in S : w \notin BlankMark /\ w # NUL
  BY WordsAre DEF BlankMark, NUL
<1>3. S \subseteq TextWord /\ PathWord \subseteq S /\ "#" \notin PathWord
  BY WordsAre
<1>4. top \in Seq(S) /\ Len(top) = 2 /\ top[1] = "#"
  OBVIOUS
<1> HIDE DEF S
<1>5. (r.fragment => x = p \o top) /\ (~r.fragment => x = p \o <<>>)
  BY DEF Target, When
<1> HIDE DEF p, top, x
<1>6. p \in Seq(S)
  BY <1>1, <1>3, SeqMonotonic
<1>7. Len(p) \in Nat
  BY <1>6, LenProperties
<1>8. CASE ~r.fragment
  <2>1. x = p
    BY <1>5, <1>6, <1>8, ConcatEmptySeq
  <2>2. \A i \in 1..Len(p) : p[i] # "#"
    BY <1>1, <1>3, ElementOfSeq
  <2>3. ~Contains(x, "#")
    BY <2>1, <2>2 DEF Contains
  <2>4. Clear(x, BlankMark)
    BY <1>2, <1>6, <2>1, ClearIs
  <2>5. x \in Seq(TextWord)
    BY <1>3, <1>6, <2>1, SeqMonotonic
  <2> QED BY <1>1, <1>8, <2>1, <2>3, <2>4, <2>5 DEF p, x
<1>9. CASE r.fragment
  <2>1. x = p \o top
    BY <1>5, <1>9
  <2>2. x \in Seq(S)
    BY <1>4, <1>6, <2>1, ConcatProperties
  <2>3. Len(x) = Len(p) + Len(top)
    BY <1>4, <1>6, <2>1, ConcatProperties
  <2>4. \A j \in 1..(Len(p) + Len(top)) :
           x[j] = IF j <= Len(p) THEN p[j] ELSE top[j - Len(p)]
    BY <1>4, <1>6, <2>1, ConcatProperties
  <2>5. Len(p) + 1 \in 1..Len(x) /\ ~(Len(p) + 1 <= Len(p)) /\ Len(p) + 1 - Len(p) = 1
    BY <1>4, <1>7, <2>3
  <2>6. x[Len(p) + 1] = "#"
    BY <1>4, <2>3, <2>4, <2>5
  <2>7. Contains(x, "#")
    BY <2>5, <2>6 DEF Contains
  <2>8. x # <<>>
    BY <2>2, <2>5, EmptySeq
  <2>9. Clear(x, BlankMark)
    BY <1>2, <2>2, ClearIs
  <2>10. x \in Seq(TextWord)
    BY <1>3, <2>2, SeqMonotonic
  <2> QED BY <1>9, <2>7, <2>8, <2>9, <2>10 DEF p, x
<1>10. r.fragment \in BOOLEAN
  BY RequestIs
<1> QED BY <1>8, <1>9, <1>10

\* The value of a header.
LEMMA ValueIs ==
    ASSUME NEW r \in Requests, NEW k \in 1..3
    PROVE  /\ HeaderValue(r, k) \in Seq(FormWord)
           /\ HeaderValue(r, k) # <<>> => HeaderValue(r, k)[1] \in AfterBlank
<1>1. r.sid # NULL => r.sid \in FormWord
  BY RequestIs
<1>2. /\ "keep-alive" \in FormWord /\ "sid" \in FormWord /\ "=" \in FormWord
      /\ FormType \in FormWord
  BY WordsAre
<1>3. CASE k = 1
  <2>1. HeaderValue(r, k) = When(r.keepAlive, <<"keep-alive">>)
    BY <1>3 DEF HeaderValue
  <2> QED BY <2>1, <1>2 DEF When, AfterBlank
<1>4. CASE k = 2
  <2>1. HeaderValue(r, k) = When(r.sid # NULL, <<"sid", "=", r.sid>>)
    BY <1>4 DEF HeaderValue
  <2> QED BY <2>1, <1>1, <1>2 DEF When, AfterBlank
<1>5. CASE k = 3
  <2>1. HeaderValue(r, k) = When(r.form # <<>>, <<FormType>>)
    BY <1>5 DEF HeaderValue
  <2> QED BY <2>1, <1>2 DEF When, AfterBlank
<1> QED BY <1>3, <1>4, <1>5

LineWord == FormWord \cup {" ", "CR"}

\* What parseHeaders keeps of it is the value.
LEMMA LineIs ==
    ASSUME NEW v \in Seq(FormWord)
    PROVE  /\ HeaderLine(v) \in Seq(LineWord) /\ HeaderLine(v) # <<>>
           /\ Stripped(HeaderLine(v)) = v
           /\ Len(HeaderLine(v)) = Len(v) + 2
           /\ HeaderLine(v)[1] = " " /\ HeaderLine(v)[Len(v) + 2] = "CR"
           /\ \A j \in 1..Len(v) : HeaderLine(v)[j + 1] = v[j]
<1> DEFINE blank == <<" ">>
           cr == <<"CR">>
           bv == blank \o v
           x == bv \o cr
<1>1. /\ blank \in Seq(LineWord) /\ Len(blank) = 1 /\ blank[1] = " "
      /\ cr \in Seq(LineWord) /\ Len(cr) = 1 /\ cr[1] = "CR"
  BY DEF LineWord
<1>2. HeaderLine(v) = x
  BY DEF HeaderLine
<1> HIDE DEF blank, cr
<1>11. Len(blank) = 1
  BY <1>1
<1>12. Len(cr) = 1
  BY <1>1
<1>13. blank[1] = " " /\ cr[1] = "CR"
  BY <1>1
<1>3. v \in Seq(LineWord)
  <2>1. FormWord \subseteq LineWord
    BY DEF LineWord
  <2> QED BY <2>1, SeqMonotonic
<1>4. Len(v) \in Nat
  BY LenProperties
<1>14. blank \in Seq(LineWord)
  BY <1>1
<1>15. cr \in Seq(LineWord)
  BY <1>1
<1>51. bv \in Seq(LineWord)
  BY <1>14, <1>3, BothAre
<1>520. Len(bv) = Len(blank) + Len(v)
  BY <1>14, <1>3, BothAre
<1>52. Len(bv) = 1 + Len(v)
  BY <1>11, <1>520
<1>53. \A j \in 1..Len(blank) : bv[j] = blank[j]
  BY <1>14, <1>3, BothAre
<1>540. \A j \in 1..Len(v) : bv[Len(blank) + j] = v[j]
  BY <1>14, <1>3, BothAre
<1>54. \A j \in 1..Len(v) : bv[1 + j] = v[j]
  BY <1>11, <1>540
<1> HIDE DEF bv
<1>61. x \in Seq(LineWord)
  BY <1>15, <1>51, BothAre
<1>620. Len(x) = Len(bv) + Len(cr)
  BY <1>15, <1>51, BothAre
<1>62. Len(x) = Len(bv) + 1
  BY <1>12, <1>620
<1>63. \A j \in 1..Len(bv) : x[j] = bv[j]
  BY <1>15, <1>51, BothAre
<1>60. \A j \in 1..Len(cr) : x[Len(bv) + j] = cr[j]
  BY <1>15, <1>51, BothAre
<1>64. Len(x) = Len(v) + 2
  BY <1>4, <1>52, <1>62
<1>65. x[1] = " "
  <2>1. 1 \in 1..Len(bv) /\ 1 \in 1..Len(blank)
    BY <1>11, <1>4, <1>52
  <2> QED BY <2>1, <1>13, <1>53, <1>63
<1>66. x[Len(v) + 2] = "CR"
  <2>1. 1 \in 1..Len(cr) /\ Len(bv) + 1 = Len(v) + 2
    BY <1>12, <1>4, <1>52
  <2> QED BY <2>1, <1>13, <1>60
<1>67. \A j \in 1..Len(v) : x[j + 1] = v[j]
  <2> TAKE j \in 1..Len(v)
  <2>1. 1 + j \in 1..Len(bv) /\ j + 1 = 1 + j
    BY <1>4, <1>52
  <2>2. x[1 + j] = bv[1 + j]
    BY <2>1, <1>63
  <2> QED BY <2>1, <2>2, <1>54
<1> HIDE DEF x
<1>7. x # <<>>
  BY <1>4, <1>61, <1>64, EmptySeq
<1>8. Stripped(x) = v
  <2>1. Len(x) - 1 = Len(v) + 1
    BY <1>4, <1>64
  <2>2. x[Len(x)] = "CR"
    BY <1>64, <1>66
  <2>3. Stripped(x) = SubSeq(x, 2, Len(v) + 1)
    BY <1>65, <2>1, <2>2 DEF Stripped
  <2> DEFINE end == Len(v) + 1
             u == SubSeq(x, 2, end)
  <2>4. /\ end \in Int /\ 2 \in Int /\ \A j \in 2..end : x[j] \in LineWord
    <3>1. \A j \in 1..Len(x) : x[j] \in LineWord
      BY <1>61, ElementOfSeq
    <3> QED BY <3>1, <1>4, <1>64
  <2>5. Len(v) = IF 2 <= end THEN end - 2 + 1 ELSE 0
    BY <1>4
  <2>6. \A j \in 1..Len(v) : j \in 1..(end - 2 + 1) /\ 2 + j - 1 = j + 1
    BY <1>4
  <2> HIDE DEF end
  <2>71. u \in Seq(LineWord)
    BY <2>4, SubSeqProperties
  <2>72. Len(u) = IF 2 <= end THEN end - 2 + 1 ELSE 0
    BY <2>4, SubSeqProperties
  <2>73. \A j \in 1..(end - 2 + 1) : u[j] = x[2 + j - 1]
    BY <2>4, SubSeqProperties
  <2> HIDE DEF u
  <2>8. Len(u) = Len(v)
    BY <2>5, <2>72
  <2>9. \A j \in 1..Len(u) : u[j] = v[j]
    BY <2>6, <2>73, <2>8, <1>67
  <2>10. u = v
    BY <1>3, <2>71, <2>8, <2>9, SeqEqual
  <2> QED BY <2>3, <2>10 DEF u, end
<1> QED BY <1>2, <1>61, <1>64, <1>65, <1>66, <1>67, <1>7, <1>8

\* A text without a blank is one whose blanks have few words behind them.
LEMMA UnblankIs ==
    ASSUME NEW S, NEW s \in Seq(S), S \cap BlankMark = {}
    PROVE  Spaced(s)
<1>1. \A j \in 1..Len(s) : s[j] \in S
  BY ElementOfSeq
<1> QED BY <1>1 DEF Spaced

\* So is what is left of such a text.
LEMMA SpacedLeft ==
    ASSUME NEW S, NEW s \in Seq(S), Spaced(s), NEW i \in 1..(Len(s) + 1)
    PROVE  Spaced(Left(s, i))
<1> DEFINE x == Left(s, i)
<1>1. Len(s) \in Nat
  BY LenProperties
<1>2. Len(x) = Len(s) + 1 - i
  BY LeftIs
<1>3. \A j \in 1..(Len(s) + 1 - i) : x[j] = s[i + j - 1]
  BY LeftIs
<1> HIDE DEF x
<1>4. SUFFICES ASSUME NEW j \in 1..Len(x), x[j] \in BlankMark
               PROVE  j < Len(x) /\ x[j + 1] \in AfterBlank
  BY DEF Spaced, x
<1> DEFINE k == i + j - 1
<1>5. k \in 1..Len(s) /\ j \in 1..(Len(s) + 1 - i) /\ k + 1 = i + (j + 1) - 1
  BY <1>1, <1>2
<1>6. s[k] \in BlankMark
  BY <1>3, <1>4, <1>5
<1> HIDE DEF k
<1>7. k < Len(s) /\ s[k + 1] \in AfterBlank
  BY <1>5, <1>6 DEF Spaced
<1>8. j < Len(x) /\ j + 1 \in 1..(Len(s) + 1 - i)
  BY <1>1, <1>2, <1>7 DEF k
<1>9. x[j + 1] = s[k + 1]
  BY <1>3, <1>5, <1>8
<1> QED BY <1>7, <1>8, <1>9

\* And two such texts with a separator between them.
LEMMA SpacedJoined ==
    ASSUME NEW S, NEW a \in Seq(S), NEW d \in S, NEW b \in Seq(S),
           Spaced(a), Spaced(b), d \notin BlankMark
    PROVE  Spaced(Joined(a, d, b))
<1> DEFINE x == Joined(a, d, b)
<1>1. Len(a) \in Nat /\ Len(b) \in Nat
  BY LenProperties
<1>2. Len(x) = Len(a) + 1 + Len(b)
  BY JoinedIs
<1>3. \A j \in 1..Len(a) : x[j] = a[j]
  BY JoinedIs
<1>4. x[Len(a) + 1] = d
  BY JoinedIs
<1>5. \A j \in 1..Len(b) : x[Len(a) + 1 + j] = b[j]
  BY JoinedIs
<1> HIDE DEF x
<1>6. SUFFICES ASSUME NEW j \in 1..Len(x), x[j] \in BlankMark
               PROVE  j < Len(x) /\ x[j + 1] \in AfterBlank
  BY DEF Spaced, x
<1>7. CASE j \in 1..Len(a)
  <2>1. a[j] \in BlankMark
    BY <1>3, <1>6, <1>7
  <2>2. j < Len(a) /\ a[j + 1] \in AfterBlank
    BY <1>7, <2>1 DEF Spaced
  <2>3. j + 1 \in 1..Len(a) /\ j < Len(x)
    BY <1>1, <1>2, <1>7, <2>2
  <2> QED BY <1>3, <2>2, <2>3
<1>8. CASE j = Len(a) + 1
  BY <1>4, <1>6, <1>8
<1>9. CASE j > Len(a) + 1
  <2> DEFINE i == j - (Len(a) + 1)
  <2>1. i \in 1..Len(b) /\ j = Len(a) + 1 + i
    BY <1>1, <1>2, <1>9
  <2> HIDE DEF i
  <2>2. b[i] \in BlankMark
    BY <1>5, <1>6, <2>1
  <2>3. i < Len(b) /\ b[i + 1] \in AfterBlank
    BY <2>1, <2>2 DEF Spaced
  <2>4. i + 1 \in 1..Len(b) /\ j < Len(x) /\ j + 1 = Len(a) + 1 + (i + 1)
    BY <1>1, <1>2, <2>1, <2>3
  <2>5. x[j + 1] = b[i + 1]
    BY <1>5, <2>4
  <2> QED BY <2>3, <2>4, <2>5
<1>10. j \in 1..Len(a) \/ j = Len(a) + 1 \/ j > Len(a) + 1
  BY <1>1
<1> QED BY <1>7, <1>8, <1>9, <1>10

\* A line of a header is spaced like that.
LEMMA LineSpaced ==
    ASSUME NEW v \in Seq(FormWord), v # <<>>, v[1] \in AfterBlank
    PROVE  Spaced(HeaderLine(v))
<1> DEFINE x == HeaderLine(v)
<1>1. Len(v) \in Nat /\ Len(v) # 0
  BY LenProperties, EmptySeq
<1>2. /\ Len(x) = Len(v) + 2 /\ x[Len(v) + 2] = "CR"
      /\ \A j \in 1..Len(v) : x[j + 1] = v[j]
  BY LineIs
<1>3. \A j \in 1..Len(v) : v[j] \notin BlankMark
  <2>1. \A j \in 1..Len(v) : v[j] \in FormWord
    BY ElementOfSeq
  <2> QED BY <2>1, WordsAre DEF BlankMark
<1> HIDE DEF x
<1>4. SUFFICES ASSUME NEW j \in 1..Len(x), x[j] \in BlankMark
               PROVE  j < Len(x) /\ x[j + 1] \in AfterBlank
  BY DEF Spaced, x
<1>5. CASE j = 1
  <2>1. 1 \in 1..Len(v) /\ j < Len(x)
    BY <1>1, <1>2, <1>5
  <2>2. x[1 + 1] = v[1]
    BY <1>2, <2>1
  <2> QED BY <1>5, <2>1, <2>2
<1>6. CASE j # 1 /\ j # Len(v) + 2
  <2> DEFINE i == j - 1
  <2>1. i \in 1..Len(v) /\ j = i + 1
    BY <1>1, <1>2, <1>6
  <2> QED BY <1>2, <1>3, <1>4, <2>1
<1>7. CASE j = Len(v) + 2
  BY <1>2, <1>4, <1>7 DEF BlankMark
<1> QED BY <1>5, <1>6, <1>7

\* The headers from the k-th on.
LEMMA HeadersIs ==
    ASSUME NEW r \in Requests, NEW k \in 1..4
    PROVE  /\ Headers(r, k) \in Seq(TextWord) /\ Spaced(Headers(r, k))
           /\ k = 4 => Headers(r, k) = Joined(<<"CR">>, "LF", Fielded(r.form))
           /\ k \in 1..3 /\ HeaderValue(r, k) = <<>> => Headers(r, k) = Headers(r, k + 1)
           /\ k \in 1..3 /\ HeaderValue(r, k) # <<>> =>
                  Headers(r, k) = Joined(<<HeaderName[k]>>, ":",
                                         Joined(HeaderLine(HeaderValue(r, k)), "LF",
                                                Headers(r, k + 1)))
<1>1. ASSUME NEW i \in 1..3
      PROVE  Headers(r, i) = Header(r, i, Headers(r, i + 1))
  BY DEF Headers
<1>2. Headers(r, 4) = Joined(<<"CR">>, "LF", Fielded(r.form))
  BY DEF Headers
<1> DEFINE OK(s) == s \in Seq(TextWord) /\ Spaced(s)
<1>3. OK(Headers(r, 4))
  <2> DEFINE cr == <<"CR">>
             f == Fielded(r.form)
  <2>1. f \in Seq(FormWord)
    BY RequestIs, FieldedIs
  <2>2. FormWord \cap BlankMark = {} /\ FormWord \subseteq TextWord
    BY WordsAre DEF BlankMark
  <2>3. Spaced(f)
    BY <2>1, <2>2, UnblankIs
  <2>4. f \in Seq(TextWord)
    BY <2>1, <2>2, SeqMonotonic
  <2>5. "CR" \in TextWord /\ "LF" \in TextWord
    BY WordsAre
  <2>6. cr \in Seq(TextWord)
    BY <2>5
  <2>7. Spaced(cr)
    <3>1. Len(cr) = 1 /\ cr[1] = "CR"
      OBVIOUS
    <3>2. cr[1] \notin BlankMark
      BY <3>1 DEF BlankMark
    <3> HIDE DEF cr
    <3>3. \A j \in 1..Len(cr) : j = 1
      BY <3>1
    <3> QED BY <3>2, <3>3 DEF Spaced
  <2> HIDE DEF cr, f
  <2>8. Joined(cr, "LF", f) \in Seq(TextWord)
    BY <2>4, <2>5, <2>6, JoinedIs
  <2>9. "LF" \notin BlankMark
    BY DEF BlankMark
  <2>10. Spaced(Joined(cr, "LF", f))
    BY <2>3, <2>4, <2>5, <2>6, <2>7, <2>9, SpacedJoined
  <2> QED BY <1>2, <2>8, <2>10 DEF cr, f
<1>4. ASSUME NEW i \in 1..3, NEW others, OK(others)
      PROVE  OK(Header(r, i, others))
  <2> DEFINE v == HeaderValue(r, i)
             name == <<HeaderName[i]>>
             line == HeaderLine(v)
             lo == Joined(line, "LF", others)
  <2>1. v \in Seq(FormWord) /\ (v # <<>> => v[1] \in AfterBlank)
    BY ValueIs
  <2>2. CASE v = <<>>
    BY <1>4, <2>2 DEF Header
  <2>3. CASE v # <<>>
    <3>1. Header(r, i, others) = Joined(name, ":", lo)
      BY <2>3 DEF Header, HeaderLine
    <3> HIDE DEF v
    <3>2. line \in Seq(LineWord)
      BY <2>1, LineIs
    <3>3. LineWord \subseteq TextWord
      BY WordsAre DEF LineWord
    <3>4. line \in Seq(TextWord)
      BY <3>2, <3>3, SeqMonotonic
    <3>5. Spaced(line)
      BY <2>1, <2>3, LineSpaced
    <3>6. HeaderName[i] \in {"Connection", "Cookie", "Content-Type"}
      BY DEF HeaderName
    <3>7. /\ HeaderName[i] \in TextWord /\ HeaderName[i] \notin BlankMark
          /\ ":" \in TextWord /\ "LF" \in TextWord
      BY <3>6, WordsAre DEF BlankMark
    <3>8. name \in Seq(TextWord)
      BY <3>7
    <3>9. Spaced(name)
      BY <3>7 DEF Spaced
    <3>10. "LF" \notin BlankMark /\ ":" \notin BlankMark
      BY DEF BlankMark
    <3> HIDE DEF name, line
    <3>11. lo \in Seq(TextWord)
      BY <1>4, <3>4, <3>7, JoinedIs
    <3>12. Spaced(lo)
      BY <1>4, <3>4, <3>5, <3>7, <3>10, SpacedJoined
    <3> HIDE DEF lo
    <3>13. Joined(name, ":", lo) \in Seq(TextWord)
      BY <3>7, <3>8, <3>11, JoinedIs
    <3>14. Spaced(Joined(name, ":", lo))
      BY <3>7, <3>8, <3>9, <3>10, <3>11, <3>12, SpacedJoined
    <3> QED BY <3>1, <3>13, <3>14
  <2> QED BY <2>2, <2>3
<1>5. OK(Headers(r, 3)) /\ OK(Headers(r, 2)) /\ OK(Headers(r, 1))
  <2> HIDE DEF OK
  <2>1. OK(Headers(r, 3))
    <3>1. Headers(r, 3) = Header(r, 3, Headers(r, 4))
      BY <1>1
    <3> QED BY <3>1, <1>3, <1>4
  <2>2. OK(Headers(r, 2))
    <3>1. Headers(r, 2) = Header(r, 2, Headers(r, 3))
      BY <1>1
    <3> QED BY <3>1, <2>1, <1>4
  <2>3. OK(Headers(r, 1))
    <3>1. Headers(r, 1) = Header(r, 1, Headers(r, 2))
      BY <1>1
    <3> QED BY <3>1, <2>2, <1>4
  <2> QED BY <2>1, <2>2, <2>3
<1>6. k = 1 \/ k = 2 \/ k = 3 \/ k = 4
  OBVIOUS
<1>7. OK(Headers(r, k))
  <2> HIDE DEF OK
  <2> QED BY <1>3, <1>5, <1>6
<1>8. k \in 1..3 => Headers(r, k) = Header(r, k, Headers(r, k + 1))
  BY <1>1
<1> DEFINE v == HeaderValue(r, k)
           x == Joined(<<HeaderName[k]>>, ":", Joined(HeaderLine(v), "LF", Headers(r, k + 1)))
<1>9. Header(r, k, Headers(r, k + 1)) = IF v = <<>> THEN Headers(r, k + 1) ELSE x
  BY DEF Header, HeaderLine
<1>10. Headers(r, k) \in Seq(TextWord) /\ Spaced(Headers(r, k))
  BY <1>7
<1>11. k \in 1..3 /\ v = <<>> => Headers(r, k) = Headers(r, k + 1)
  BY <1>8, <1>9
<1>12. k \in 1..3 /\ v # <<>> => Headers(r, k) = x
  BY <1>8, <1>9
<1>13. k = 4 => Headers(r, k) = Joined(<<"CR">>, "LF", Fielded(r.form))
  BY <1>2
<1> HIDE DEF v, x
<1> QED BY <1>10, <1>11, <1>12, <1>13 DEF v, x

\* A request is put together from these.
LEMMA EncodeIs ==
    ASSUME NEW r \in Requests
    PROVE  /\ Encode(r) = Joined(<<r.method>>, Space, FromTarget(r))
           /\ Encode(r) \in Seq(TextWord) /\ FromTarget(r) \in Seq(TextWord)
           /\ FromVersion(r) \in Seq(TextWord) /\ Spaced(FromVersion(r))
           /\ <<r.method>> \in Seq(TextWord) /\ Clear(<<r.method>>, BlankMark)
           /\ <<r.version, "CR">> \in Seq(TextWord) /\ Clear(<<r.version, "CR">>, {"LF"})
<1> DEFINE m == <<r.method>>
           v == <<r.version, "CR">>
           h == Headers(r, 1)
           T == Target(r)
           fv == Joined(v, "LF", h)
           ft == Joined(T, Space, fv)
<1>1. r.method \in FormWord /\ r.version \in FormWord
  BY RequestIs
<1>2. Space \in TextWord /\ "LF" \in TextWord /\ "CR" \in TextWord /\ FormWord \subseteq TextWord
  BY WordsAre, Zenon DEF Space
<1>3. h \in Seq(TextWord) /\ Spaced(h)
  BY HeadersIs
<1>4. T \in Seq(TextWord)
  BY TargetIs
<1>50. r.method \in TextWord /\ r.version \in TextWord /\ "CR" \in TextWord
  BY <1>1, <1>2
<1>51. m \in Seq(TextWord)
  BY <1>50
<1>52. v \in Seq(TextWord)
  BY <1>50
<1>5. m \in Seq(TextWord) /\ v \in Seq(TextWord)
  BY <1>51, <1>52
<1>6. m \in Seq(FormWord)
  BY <1>1
<1>7. v \in Seq(FormWord \cup {"CR"})
  BY <1>1
<1>8. Clear(m, BlankMark)
  <2>1. \A w \in FormWord : w \notin BlankMark /\ w # NUL
    BY WordsAre DEF BlankMark, NUL
  <2> QED BY <1>6, <2>1, ClearIs
<1>9. Clear(v, {"LF"})
  <2>1. \A w \in FormWord \cup {"CR"} : w \notin {"LF"} /\ w # NUL
    BY WordsAre DEF NUL
  <2> QED BY <1>7, <2>1, ClearIs
<1>10. Spaced(v)
  <2>1. (FormWord \cup {"CR"}) \cap BlankMark = {}
    BY WordsAre DEF BlankMark
  <2> QED BY <1>7, <2>1, UnblankIs
<1> HIDE DEF m, v, h, T
<1>11. fv \in Seq(TextWord)
  BY <1>2, <1>3, <1>5, JoinedIs
<1>12. Spaced(fv)
  <2>1. "LF" \notin BlankMark
    BY DEF BlankMark
  <2> QED BY <1>2, <1>3, <1>5, <1>10, <2>1, SpacedJoined
<1> HIDE DEF fv
<1>13. ft \in Seq(TextWord)
  BY <1>2, <1>4, <1>11, JoinedIs
<1> HIDE DEF ft
<1>14. Joined(m, Space, ft) \in Seq(TextWord)
  BY <1>2, <1>5, <1>13, JoinedIs
<1>15. FromVersion(r) = fv
  BY DEF FromVersion, fv, v, h
<1>16. FromTarget(r) = ft
  BY <1>15 DEF FromTarget, ft, T
<1>17. Encode(r) = Joined(m, Space, ft)
  BY Zenon DEF Encode, m, ft, T, fv, v, h, Space
<1> QED BY <1>5, <1>8, <1>9, <1>11, <1>12, <1>13, <1>14, <1>15, <1>16, <1>17 DEF m, v

\* What is late of it: behind its second blank few words come behind a blank.
LEMMA LateIs ==
    ASSUME NEW r \in Requests, NEW n \in 1..Len(Encode(r))
    PROVE  LET x == Left(Encode(r), n + 1)
           IN  x \in Texts /\ Clear(x, {}) /\ SpacedLate(x)
<1> DEFINE e == Encode(r)
           ft == FromTarget(r)
           fv == FromVersion(r)
           T == Target(r)
           m == <<r.method>>
           x == Left(e, n + 1)
<1>1. /\ e \in Seq(TextWord) /\ ft \in Seq(TextWord) /\ fv \in Seq(TextWord) /\ Spaced(fv)
      /\ m \in Seq(TextWord) /\ e = Joined(m, Space, ft)
  BY EncodeIs
<1>2. T \in Seq(TextWord) /\ Clear(T, BlankMark)
  BY TargetIs
<1>3. ft = Joined(T, Space, fv)
  BY DEF FromTarget
<1>4. Len(m) = 1
  OBVIOUS
<1>5. TextWord \subseteq Word /\ \A w \in TextWord : w # NUL
  BY WordsAre DEF TextWord
<1> HIDE DEF e, ft, fv, T, m
<1>101. e \in Seq(TextWord)
  BY <1>1
<1>102. ft \in Seq(TextWord)
  BY <1>1
<1>103. fv \in Seq(TextWord)
  BY <1>1
<1>104. m \in Seq(TextWord)
  BY <1>1
<1>105. e = Joined(m, Space, ft)
  BY <1>1
<1>106. T \in Seq(TextWord)
  BY <1>2
<1>107. Space \in TextWord
  BY WordsAre, Zenon DEF Space
<1>6. Len(e) \in Nat /\ Len(ft) \in Nat /\ Len(fv) \in Nat /\ Len(T) \in Nat
  BY <1>1, <1>2, LenProperties
<1>7. n \in 1..Len(e) /\ n + 1 \in 1..(Len(e) + 1)
  BY <1>6 DEF e
<1>8. x \in Seq(TextWord)
  BY <1>1, <1>7, LeftIs
<1>9. Len(x) = Len(e) + 1 - (n + 1)
  BY <1>1, <1>7, LeftIs
<1>10. \A j \in 1..(Len(e) + 1 - (n + 1)) : x[j] = e[n + 1 + j - 1]
  BY ZenonT(60), <1>1, <1>7, LeftIs
<1> HIDE DEF x
<1>11. x \in Texts
  BY <1>5, <1>8, SeqMonotonic DEF Texts
<1>12. Clear(x, {})
  <2>1. \A j \in 1..Len(x) : x[j] \in TextWord
    BY <1>8, ElementOfSeq
  <2> QED BY <2>1, <1>5 DEF Clear
<1>131. Len(Joined(m, Space, ft)) = Len(m) + 1 + Len(ft)
  BY <1>102, <1>104, <1>107, JoinedIs
<1>13. Len(e) = Len(m) + 1 + Len(ft)
  BY <1>131, <1>105
<1>141. \A j \in 1..Len(ft) : Joined(m, Space, ft)[Len(m) + 1 + j] = ft[j]
  BY <1>102, <1>104, <1>107, JoinedIs
<1>14. \A j \in 1..Len(ft) : e[Len(m) + 1 + j] = ft[j]
  BY <1>105, <1>141
<1>15. Len(ft) = Len(T) + 1 + Len(fv)
  BY <1>103, <1>106, <1>107, <1>3, JoinedIs
<1>161. \A j \in 1..Len(T) : Joined(T, Space, fv)[j] = T[j]
  BY <1>103, <1>106, <1>107, JoinedIs
<1>16. \A j \in 1..Len(T) : ft[j] = T[j]
  BY <1>3, <1>161
<1>17. ASSUME NEW i \in 1..Len(x), NEW j \in 1..Len(x), i < j, x[j] \in BlankMark
       PROVE  Spaced(Left(x, j + 1))
  <2> DEFINE p == n + j - 2
             q == p - Len(T)
  <2>1. /\ p \in 1..Len(ft) /\ Len(m) + 1 + p = n + j /\ n + 1 + j - 1 = n + j
        /\ j \in 1..(Len(e) + 1 - (n + 1))
    BY <1>4, <1>6, <1>7, <1>9, <1>13, <1>17
  <2>2. x[j] = ft[p]
    BY SMTT(40), <2>1, <1>10, <1>14
  <2>3. p \notin 1..Len(T)
    <3> SUFFICES ASSUME p \in 1..Len(T) PROVE FALSE
      OBVIOUS
    <3>1. T[p] \in BlankMark
      BY <1>16, <1>17, <2>2
    <3> QED BY <3>1, <1>2 DEF Clear
  <2>4. /\ q \in 1..(Len(fv) + 1) /\ p + 1 = Len(T) + 1 + q /\ p + 1 \in 1..(Len(ft) + 1)
        /\ n + j + 1 = Len(m) + 1 + (p + 1) /\ n + j + 1 = n + 1 + (j + 1) - 1
        /\ n + j + 1 <= Len(e) + 1 /\ j + 1 \in Nat /\ j + 1 >= 1
    BY <1>4, <1>6, <1>7, <1>9, <1>13, <1>15, <2>1, <2>3
  <2> DEFINE a == n + j + 1
             b == p + 1
             c == n + 1
             d == j + 1
  <2>5. /\ q \in 1..(Len(fv) + 1) /\ b = Len(T) + 1 + q /\ b \in 1..(Len(ft) + 1)
        /\ a = Len(m) + 1 + b /\ a = c + d - 1 /\ c + d - 1 <= Len(e) + 1
        /\ d \in Nat /\ d >= 1 /\ c \in 1..(Len(e) + 1) /\ x = Left(e, c)
    BY <1>7, <2>4 DEF x
  <2> HIDE DEF a, b, c, d, q
  <2>51. c \in 1..(Len(e) + 1) /\ d \in Nat /\ d >= 1
    BY <2>5
  <2>52. c + d - 1 <= Len(e) + 1
    BY <2>5
  <2>53. a = c + d - 1
    BY <2>5
  <2>54. x = Left(e, c)
    BY <2>5
  <2>55. d \in Nat
    BY <2>5
  <2>56. b \in 1..(Len(ft) + 1)
    BY <2>5
  <2>57. a = Len(m) + 1 + b
    BY <2>5
  <2>58. q \in 1..(Len(fv) + 1)
    BY <2>5
  <2>59. b = Len(T) + 1 + q
    BY <2>5
  <2>6. Left(x, d) = Left(e, a)
    BY <1>101, <2>51, <2>52, <2>53, <2>54, <2>55, LeftLeft
  <2>7. Left(e, a) = Left(ft, b)
    BY <1>102, <1>104, <1>105, <1>107, <2>56, <2>57, LeftJoined
  <2>8. Left(ft, b) = Left(fv, q)
    BY <1>103, <1>106, <1>3, <1>107, <2>58, <2>59, LeftJoined
  <2>9. Spaced(Left(fv, q))
    BY <1>1, <2>5, SpacedLeft
  <2> QED BY <2>6, <2>7, <2>8, <2>9 DEF d
<1>18. SpacedLate(x)
  BY <1>17 DEF SpacedLate
<1> QED BY <1>11, <1>12, <1>18 DEF x, e

-----------------------------------------------------------------------------
(* The pairs of a query or a form.                                         *)

PairOf(f) == <<<<f.name>>, f.value>>

\* The pairs of the first m fields, the last one in front.
LEMMA PairsAre ==
    ASSUME NEW F \in Fields, NEW m \in 0..Len(F)
    PROVE  LET list == AsPairs(SubSeq(F, 1, m))
           IN  /\ list \in PairList /\ Len(list) = m
               /\ \A i \in 1..m : list[m + 1 - i] = PairOf(F[i])
<1> DEFINE first == SubSeq(F, 1, m)
           pairs == [i \in DOMAIN first |-> PairOf(first[i])]
           list == AsPairs(first)
           S == Texts \X Texts
<1>1. F \in Seq(FieldSet)
  BY DEF Fields, FieldSet
<1>2. first \in Seq(FieldSet)
  BY <1>1, BeginningIs
<1>3. Len(first) = m
  BY <1>1, BeginningIs
<1>4. \A j \in 1..m : first[j] = F[j]
  BY <1>1, BeginningIs
<1>5. ASSUME NEW f \in FieldSet
      PROVE  PairOf(f) \in S
  <2> DEFINE a == <<f.name>>
             b == f.value
  <2>1. f.name \in Word
    BY FieldIs DEF ValueWord
  <2>2. a \in Texts
    BY <2>1 DEF Texts
  <2>3. b \in Texts
    BY EncodedIs DEF FieldSet
  <2>4. PairOf(f) = <<a, b>>
    BY DEF PairOf
  <2> HIDE DEF a, b
  <2> QED BY <2>2, <2>3, <2>4
<1>6. list = Reverse(pairs)
  BY DEF AsPairs, PairOf
<1> HIDE DEF S, list
<1>7. DOMAIN first = 1..m /\ m \in Nat
  BY <1>2, <1>3, LenProperties
<1>8. \A i \in 1..m : first[i] \in FieldSet
  BY <1>2, <1>3, ElementOfSeq
<1> HIDE DEF first
<1>9. \A i \in 1..m : PairOf(first[i]) \in S
  BY <1>5, <1>8
<1>10. pairs \in [1..m -> S]
  BY <1>7, <1>9
<1>11. Len(pairs) = m /\ \A i \in 1..m : pairs[i] = PairOf(first[i])
  BY <1>7
<1> HIDE DEF pairs
<1>12. list = [i \in 1..m |-> pairs[(m - i) + 1]]
  BY <1>6, <1>11 DEF Reverse
<1>13. \A i \in 1..m : (m - i) + 1 \in 1..m
  BY <1>7
<1>14. \A i \in 1..m : pairs[(m - i) + 1] \in S
  BY <1>10, <1>13
<1>15. list \in Seq(S) /\ Len(list) = m
  BY <1>7, <1>12, <1>14
<1>16. \A i \in 1..m : list[m + 1 - i] = PairOf(F[i])
  <2> TAKE i \in 1..m
  <2>1. m + 1 - i \in 1..m /\ (m - (m + 1 - i)) + 1 = i
    BY <1>7
  <2>2. list[m + 1 - i] = pairs[i]
    BY <1>12, <2>1
  <2> QED BY <2>2, <1>4, <1>11
<1> QED BY <1>15, <1>16 DEF list, first, S, PairList

\* A list of pairs in that order is this one.
LEMMA PairsEqual ==
    ASSUME NEW F \in Fields, NEW m \in 0..Len(F), NEW S, NEW list \in Seq(S), Len(list) = m,
           \A i \in 1..m : list[m + 1 - i] = PairOf(F[i])
    PROVE  list = AsPairs(SubSeq(F, 1, m))
<1> DEFINE u == AsPairs(SubSeq(F, 1, m))
<1>1. u \in PairList
  BY PairsAre
<1>2. Len(u) = m
  BY PairsAre
<1>3. \A i \in 1..m : u[m + 1 - i] = PairOf(F[i])
  BY PairsAre
<1> HIDE DEF u
<1>4. Len(F) \in Nat
  BY LenProperties DEF Fields
<1>5. \A j \in 1..m : list[j] = u[j]
  <2> TAKE j \in 1..m
  <2> DEFINE i == m + 1 - j
  <2>1. i \in 1..m /\ m + 1 - i = j
    BY <1>4
  <2> HIDE DEF i
  <2>2. list[m + 1 - i] = PairOf(F[i]) /\ u[m + 1 - i] = PairOf(F[i])
    BY <2>1, <1>3
  <2> QED BY <2>1, <2>2
<1>6. list = u
  BY <1>1, <1>2, <1>5, SeqEqual DEF PairList
<1> QED BY <1>6 DEF u

\* None of the fields has made a pair yet.
LEMMA PairsNone ==
    ASSUME NEW F \in Fields
    PROVE  PairsUpto(F, 0, <<>>)
<1>1. Len(F) \in Nat
  BY LenProperties DEF Fields
<1>2. 0 \in 0..Len(F)
  BY <1>1
<1> DEFINE u == AsPairs(SubSeq(F, 1, 0))
<1>3. u \in PairList /\ Len(u) = 0
  BY <1>2, PairsAre
<1> HIDE DEF u
<1>4. u = <<>>
  BY <1>3, EmptySeq DEF PairList
<1> QED BY <1>4 DEF PairsUpto, u

\* An empty one makes none.
LEMMA PairsSkip ==
    ASSUME NEW F \in Fields, NEW k \in 1..Len(F), NEW list, PairsUpto(F, k - 1, list),
           F[k].value = <<>>
    PROVE  PairsUpto(F, k, list)
<1>1. k \in Nat /\ 1..k = 1..(k - 1) \cup {k} /\ 0..(k - 1) \subseteq 0..k
  BY LenProperties DEF Fields
<1>2. list = <<>> <=> \A i \in 1..k : F[i].value = <<>>
  BY <1>1 DEF PairsUpto
<1>3. ASSUME NoHole(F)
      PROVE  \E m \in 0..k : /\ list = AsPairs(SubSeq(F, 1, m))
                             /\ \A i \in 1..k : F[i].value # <<>> <=> i <= m
  <2>1. PICK m \in 0..(k - 1) : /\ list = AsPairs(SubSeq(F, 1, m))
                                /\ \A i \in 1..(k - 1) : F[i].value # <<>> <=> i <= m
    BY <1>3 DEF PairsUpto
  <2>2. m \in 0..k /\ ~(k <= m)
    BY <1>1
  <2>3. \A i \in 1..k : F[i].value # <<>> <=> i <= m
    BY <1>1, <2>1, <2>2
  <2> QED BY <2>1, <2>2, <2>3
<1> QED BY <1>2, <1>3 DEF PairsUpto

\* One with a value makes one.
LEMMA PairsAdd ==
    ASSUME NEW F \in Fields, NEW k \in 1..Len(F),
           NEW list \in PairList, PairsUpto(F, k - 1, list),
           F[k].value # <<>>, NEW name \in Texts, NoHole(F) => name = <<F[k].name>>
    PROVE  PairsUpto(F, k, AddPair(name, F[k].value, list))
<1> DEFINE v == F[k].value
           more == AddPair(name, v, list)
           S == Texts \X Texts
<1>01. F \in Seq(FieldSet)
  BY DEF Fields, FieldSet
<1>02. Len(F) \in Nat /\ DOMAIN F = 1..Len(F)
  BY <1>01, LenProperties
<1>03. F[k] \in FieldSet
  BY <1>01, ElementOfSeq
<1>1. Len(F) \in Nat /\ k \in Nat /\ DOMAIN F = 1..Len(F) /\ F[k] \in FieldSet
  BY <1>02, <1>03
<1>2. v \in Texts
  BY <1>1, EncodedIs DEF FieldSet
<1>3. <<name, v>> \in S
  <2> HIDE DEF v
  <2> QED BY <1>2
<1> HIDE DEF S
<1>4. list \in Seq(S)
  BY DEF PairList, S
<1> HIDE DEF v
<1>51. more \in Seq(S)
  BY <1>3, <1>4, AddPairIs, SMTT(40)
<1>52. Len(more) = Len(list) + 1
  BY <1>3, <1>4, AddPairIs, SMTT(40)
<1>53. more[1] = <<name, v>>
  BY <1>3, <1>4, AddPairIs, SMTT(40)
<1>54. \A i \in 1..Len(list) : more[i + 1] = list[i]
  BY <1>3, <1>4, AddPairIs, SMTT(40)
<1>55. more # <<>>
  BY <1>3, <1>4, AddPairIs, SMTT(40)
<1> HIDE DEF more
<1>6. more = <<>> <=> \A i \in 1..k : F[i].value = <<>>
  BY <1>1, <1>55
<1>7. ASSUME NoHole(F)
      PROVE  \E m \in 0..k : /\ more = AsPairs(SubSeq(F, 1, m))
                             /\ \A i \in 1..k : F[i].value # <<>> <=> i <= m
  <2>1. PICK m \in 0..(k - 1) : /\ list = AsPairs(SubSeq(F, 1, m))
                                /\ \A i \in 1..(k - 1) : F[i].value # <<>> <=> i <= m
    BY <1>7 DEF PairsUpto
  <2>2. \A i \in 1..k : F[i].value # <<>>
    BY <1>1, <1>7 DEF NoHole
  <2>3. m = k - 1
    <3>1. CASE k = 1
      BY <3>1
    <3>2. CASE k # 1
      <4>1. k - 1 \in 1..(k - 1) /\ k - 1 \in 1..k
        BY <1>1, <3>2
      <4>2. k - 1 <= m
        BY <2>1, <2>2, <4>1
      <4> QED BY <1>1, <4>2
    <3> QED BY <3>1, <3>2
  <2>4. m \in 0..Len(F)
    BY <1>1
  <2>5. Len(list) = m /\ \A i \in 1..m : list[m + 1 - i] = PairOf(F[i])
    BY <2>1, <2>4, PairsAre
  <2>6. Len(more) = k
    BY <1>1, <1>52, <2>3, <2>5
  <2>7. \A i \in 1..k : more[k + 1 - i] = PairOf(F[i])
    <3> TAKE i \in 1..k
    <3>1. CASE i = k
      <4>1. k + 1 - i = 1
        BY <1>1, <3>1
      <4>2. more[1] = PairOf(F[k])
        BY <1>7, <1>53 DEF PairOf, v
      <4> QED BY <3>1, <4>1, <4>2
    <3>2. CASE i # k
      <4> DEFINE j == m + 1 - i
      <4>1. i \in 1..m /\ j \in 1..Len(list) /\ k + 1 - i = j + 1
        BY <1>1, <2>3, <2>5, <3>2
      <4>2. list[j] = PairOf(F[i])
        BY <2>5, <4>1
      <4> HIDE DEF j
      <4>3. more[j + 1] = list[j]
        BY <1>54, <4>1
      <4> QED BY <4>1, <4>2, <4>3
    <3> QED BY <3>1, <3>2
  <2>8. k \in 0..Len(F) /\ k \in 0..k
    BY <1>1
  <2>9. more = AsPairs(SubSeq(F, 1, k))
    BY <1>51, <2>6, <2>7, <2>8, PairsEqual
  <2>10. \A i \in 1..k : F[i].value # <<>> <=> i <= k
    BY <2>2, <1>1
  <2> QED BY <2>8, <2>9, <2>10
<1> QED BY <1>6, <1>7 DEF PairsUpto, more, v

\* The fields before the first empty one.
LEMMA FilledIs ==
    ASSUME NEW F \in Fields, NEW m \in 0..Len(F), \A i \in 1..m : F[i].value # <<>>
    PROVE  /\ m <= Len(Filled(F)) /\ Len(Filled(F)) \in Nat /\ Len(Filled(F)) <= Len(F)
           /\ \A i \in 1..Len(Filled(F)) : Filled(F)[i] = F[i]
           /\ m = Len(F) \/ F[m + 1].value = <<>> => Filled(F) = SubSeq(F, 1, m)
<1> DEFINE T == {i \in 1..(Len(F) + 1) : i \in DOMAIN F => F[i].value = <<>>}
           n == Min(T)
           c == n - 1
           x == SubSeq(F, 1, c)
<1>1. F \in Seq(FieldSet)
  BY DEF Fields, FieldSet
<1>2. Len(F) \in Nat /\ DOMAIN F = 1..Len(F)
  BY <1>1, LenProperties
<1>3. T \subseteq Nat /\ T # {}
  <2>1. Len(F) + 1 \in T
    BY <1>2
  <2> QED BY <2>1, <1>2
<1>4. n \in T /\ \A y \in T : n =< y
  <2> HIDE DEF T
  <2> QED BY <1>3, MinProperties
<1>5. Filled(F) = x
  BY DEF Filled
<1> HIDE DEF n
<1>6. c \in 0..Len(F)
  BY <1>2, <1>4
<1>7. m <= c
  <2> SUFFICES ASSUME n <= m PROVE FALSE
    BY <1>2, <1>4
  <2>1. n \in 1..m /\ n \in DOMAIN F
    BY <1>2, <1>4
  <2> QED BY <2>1, <1>4
<1>8. m = Len(F) \/ F[m + 1].value = <<>> => c = m
  <2> SUFFICES ASSUME m = Len(F) \/ F[m + 1].value = <<>> PROVE c = m
    OBVIOUS
  <2>1. m + 1 \in T
    <3>1. m + 1 \in 1..(Len(F) + 1)
      BY <1>2
    <3>2. m = Len(F) => m + 1 \notin DOMAIN F
      BY <1>2
    <3>3. m + 1 \in DOMAIN F => F[m + 1].value = <<>>
      BY <3>2, Zenon
    <3> QED BY <3>1, <3>3
  <2>2. n \in Nat
    BY <1>3, <1>4
  <2> HIDE DEF T
  <2>3. n <= m + 1
    BY <1>4, <2>1
  <2>4. m \in Int
    BY <1>2
  <2>5. c <= m /\ c \in Int
    BY <2>2, <2>3, <2>4
  <2> HIDE DEF c
  <2> QED BY <1>7, <2>4, <2>5
<1> HIDE DEF c, T
<1>9. Len(x) = c
  BY <1>1, <1>6, BeginningIs
<1>10. \A j \in 1..c : x[j] = F[j]
  BY <1>1, <1>6, BeginningIs
<1>11. m = Len(F) \/ F[m + 1].value = <<>> => x = SubSeq(F, 1, m)
  BY <1>8
<1> HIDE DEF x
<1>12. m <= Len(x) /\ Len(x) \in Nat /\ Len(x) <= Len(F)
  BY <1>2, <1>6, <1>7, <1>9
<1>13. \A i \in 1..Len(x) : x[i] = F[i]
  BY <1>9, <1>10
<1> QED BY <1>5, <1>11, <1>12, <1>13

\* Pairs of the first fields, the last of which may be short.
LEMMA FirstFieldsIs ==
    ASSUME NEW F \in Fields, NEW n \in 0..Len(F), \A i \in 1..n : F[i].value # <<>>,
           NEW S, NEW list \in Seq(S), Len(list) = n,
           \A i \in 1..n : list[n + 1 - i][1] = <<F[i].name>>,
           \A i \in 1..n : i < n => list[n + 1 - i][2] = F[i].value,
           n # 0 => list[1][2] # <<>> /\ IsPrefix(list[1][2], F[n].value)
    PROVE  FirstFields(F, list)
<1> DEFINE seen == Reverse(list)
           sent == Filled(F)
<1>1. Len(F) \in Nat /\ n \in Nat
  BY LenProperties DEF Fields
<1>2. n <= Len(sent)
  BY FilledIs
<1>3. \A i \in 1..Len(sent) : sent[i] = F[i]
  BY FilledIs
<1>4. Len(sent) \in Nat
  BY FilledIs
<1>5. seen = [i \in 1..n |-> list[(n - i) + 1]]
  BY DEF Reverse
<1> HIDE DEF seen, sent
<1>6. Len(seen) = n /\ DOMAIN seen = 1..n
  BY <1>1, <1>5
<1>7. ASSUME NEW i \in 1..n
      PROVE  seen[i] = list[n + 1 - i] /\ sent[i] = F[i]
  <2>1. (n - i) + 1 = n + 1 - i /\ i \in 1..Len(sent)
    BY <1>1, <1>2, <1>4
  <2> QED BY <2>1, <1>3, <1>5
<1>8. ASSUME NEW i \in 1..n
      PROVE  /\ seen[i][1] = <<sent[i].name>>
             /\ IF i < n THEN seen[i][2] = sent[i].value
                ELSE seen[i][2] # <<>> /\ IsPrefix(seen[i][2], sent[i].value)
  <2>1. seen[i][1] = <<sent[i].name>>
    BY <1>7
  <2>2. CASE i < n
    BY <1>7, <2>1, <2>2
  <2>3. CASE ~(i < n)
    <3>1. i = n /\ n + 1 - i = 1 /\ n # 0
      BY <1>1, <2>3
    <3>2. seen[i] = list[1] /\ sent[i] = F[n]
      BY <1>7, <3>1
    <3> QED BY <2>1, <2>3, <3>1, <3>2
  <2> QED BY <2>2, <2>3
<1> QED BY <1>2, <1>6, <1>8 DEF FirstFields, seen, sent

\* The beginning of a text is that of the whole one.
LEMMA BeginningIsPrefix ==
    ASSUME NEW S, NEW v \in Seq(S), NEW n \in 0..Len(v), NEW x, x = SubSeq(v, 1, n)
    PROVE  IsPrefix(x, v)
<1>1. Len(x) = n
  BY BeginningIs
<1>2. n <= Len(v)
  BY LenProperties
<1>3. x \in Seq(S)
  BY BeginningIs
<1>4. SubSeq(x, 1, Len(x)) = x
  BY <1>3, SubSeqFull
<1> QED BY <1>1, <1>2, <1>4 DEF IsPrefix

\* The pairs of the first fields are such pairs, and so are they with one more
\* that may be short.
LEMMA FirstPairs ==
    ASSUME NEW F \in Fields, NEW k \in 0..Len(F), NEW list, PairsUpto(F, k, list), NoHole(F)
    PROVE  FirstFields(F, list)
<1>1. PICK m \in 0..k : /\ list = AsPairs(SubSeq(F, 1, m))
                        /\ \A i \in 1..k : F[i].value # <<>> <=> i <= m
  BY DEF PairsUpto
<1>01. F \in Seq(FieldSet)
  BY DEF Fields, FieldSet
<1>2. Len(F) \in Nat
  BY <1>01, LenProperties
<1>3. m \in 0..Len(F) /\ m \in Nat
  BY <1>2
<1>4. list \in PairList /\ Len(list) = m /\ \A i \in 1..m : list[m + 1 - i] = PairOf(F[i])
  BY <1>1, <1>3, PairsAre
<1>5. \A i \in 1..m : F[i].value # <<>>
  BY <1>1, <1>2
<1>6. \A i \in 1..m : list[m + 1 - i][1] = <<F[i].name>> /\ list[m + 1 - i][2] = F[i].value
  BY <1>4 DEF PairOf
<1>7. ASSUME m # 0
      PROVE  list[1][2] # <<>> /\ IsPrefix(list[1][2], F[m].value)
  <2>1. m \in 1..m /\ m + 1 - m = 1 /\ m \in 1..Len(F)
    BY <1>2, <1>3, <1>7
  <2>2. list[1][2] = F[m].value /\ F[m].value # <<>>
    BY <1>5, <1>6, <2>1
  <2>3. F[m] \in FieldSet
    BY <1>01, <2>1, ElementOfSeq
  <2> DEFINE v == F[m].value
  <2>4. v \in Texts
    BY <2>3, EncodedIs DEF FieldSet
  <2> HIDE DEF v
  <2>5. v \in Seq(Word)
    BY <2>4 DEF Texts
  <2>6. Len(v) \in 0..Len(v) /\ v = SubSeq(v, 1, Len(v))
    BY <2>5, LenProperties, SubSeqFull
  <2>7. IsPrefix(v, v)
    BY <2>5, <2>6, BeginningIsPrefix
  <2> QED BY <2>2, <2>7 DEF v
<1> QED BY <1>3, <1>4, <1>5, <1>6, <1>7, FirstFieldsIs DEF PairList

\* So are they with one more that may be short.
LEMMA FirstPairsAdd ==
    ASSUME NEW F \in Fields, NEW k \in 1..Len(F),
           NEW list \in PairList, PairsUpto(F, k - 1, list), NoHole(F),
           F[k].value # <<>>, NEW v \in Texts, v # <<>>, IsPrefix(v, F[k].value)
    PROVE  FirstFields(F, AddPair(<<F[k].name>>, v, list))
<1> DEFINE name == <<F[k].name>>
           more == AddPair(name, v, list)
           S == Texts \X Texts
<1>01. F \in Seq(FieldSet)
  BY DEF Fields, FieldSet
<1>02. Len(F) \in Nat /\ DOMAIN F = 1..Len(F) /\ k \in Nat
  BY <1>01, LenProperties
<1>03. F[k] \in FieldSet
  BY <1>01, ElementOfSeq
<1>1. name \in Texts
  <2>1. F[k].name \in Word
    BY <1>03, FieldIs DEF ValueWord
  <2> QED BY <2>1 DEF Texts
<1> HIDE DEF name
<1>2. <<name, v>> \in S
  BY <1>1
<1> HIDE DEF S
<1>3. list \in Seq(S)
  BY DEF PairList, S
<1>41. more \in Seq(S)
  BY <1>2, <1>3, AddPairIs
<1>42. Len(more) = Len(list) + 1
  BY <1>2, <1>3, AddPairIs
<1>43. more[1] = <<name, v>>
  BY <1>2, <1>3, AddPairIs
<1>44. \A i \in 1..Len(list) : more[i + 1] = list[i]
  BY <1>2, <1>3, AddPairIs
<1> HIDE DEF more
<1>5. PICK m \in 0..(k - 1) : /\ list = AsPairs(SubSeq(F, 1, m))
                              /\ \A i \in 1..(k - 1) : F[i].value # <<>> <=> i <= m
  BY DEF PairsUpto
<1>6. \A i \in 1..k : F[i].value # <<>>
  BY <1>02 DEF NoHole
<1>7. m = k - 1
  <2>1. CASE k = 1
    BY <2>1
  <2>2. CASE k # 1
    <3>1. k - 1 \in 1..(k - 1) /\ k - 1 \in 1..k
      BY <1>02, <2>2
    <3>2. k - 1 <= m
      BY <1>5, <1>6, <3>1
    <3> QED BY <1>02, <3>2
  <2> QED BY <2>1, <2>2
<1>8. m \in 0..Len(F) /\ k \in 0..Len(F)
  BY <1>02
<1>9. Len(list) = m /\ \A i \in 1..m : list[m + 1 - i] = PairOf(F[i])
  BY <1>5, <1>8, PairsAre
<1>10. Len(more) = k
  BY <1>02, <1>42, <1>7, <1>9
<1>11. \A i \in 1..k : i < k => more[k + 1 - i] = PairOf(F[i])
  <2> SUFFICES ASSUME NEW i \in 1..k, i < k PROVE more[k + 1 - i] = PairOf(F[i])
    OBVIOUS
  <2> DEFINE j == m + 1 - i
  <2>1. i \in 1..m /\ j \in 1..Len(list) /\ k + 1 - i = j + 1
    BY <1>02, <1>7, <1>9
  <2>2. list[j] = PairOf(F[i])
    BY <1>9, <2>1
  <2> HIDE DEF j
  <2>3. more[j + 1] = list[j]
    BY <1>44, <2>1
  <2> QED BY <2>1, <2>2, <2>3
<1>12. \A i \in 1..k : more[k + 1 - i][1] = <<F[i].name>>
  <2> TAKE i \in 1..k
  <2>1. CASE i = k
    <3>1. k + 1 - i = 1
      BY <1>02, <2>1
    <3> QED BY <2>1, <3>1, <1>43 DEF name
  <2>2. CASE i # k
    <3>1. more[k + 1 - i] = PairOf(F[i])
      BY <2>2, <1>02, <1>11
    <3> QED BY <3>1 DEF PairOf
  <2> QED BY <2>1, <2>2
<1>13. \A i \in 1..k : i < k => more[k + 1 - i][2] = F[i].value
  BY <1>11 DEF PairOf
<1>14. more[1][2] # <<>> /\ IsPrefix(more[1][2], F[k].value)
  BY <1>43
<1>15. FirstFields(F, more)
  BY <1>6, <1>8, <1>10, <1>12, <1>13, <1>14, <1>41, FirstFieldsIs
<1> QED BY <1>15 DEF more, name

\* The pairs of all fields are those of the filled ones.
LEMMA AllPairs ==
    ASSUME NEW F \in Fields, NEW list, PairsUpto(F, Len(F), list), NoHole(F)
    PROVE  list = AsPairs(Filled(F))
<1>1. PICK m \in 0..Len(F) : /\ list = AsPairs(SubSeq(F, 1, m))
                             /\ \A i \in 1..Len(F) : F[i].value # <<>> <=> i <= m
  BY DEF PairsUpto
<1>2. Len(F) \in Nat
  BY LenProperties DEF Fields
<1>3. \A i \in 1..m : F[i].value # <<>>
  BY <1>1, <1>2
<1>4. m = Len(F) \/ F[m + 1].value = <<>>
  <2>1. m # Len(F) => m + 1 \in 1..Len(F) /\ ~(m + 1 <= m)
    BY <1>2
  <2> QED BY <1>1, <2>1
<1>5. Filled(F) = SubSeq(F, 1, m)
  BY <1>3, <1>4, FilledIs
<1> QED BY <1>1, <1>5

\* What has come of no text is none.
LEMMA NothingComes ==
    ASSUME NEW x, NEW whole, Comes(x, <<>>, whole)
    PROVE  x = <<>>
<1>1. <<>> \in Seq({}) /\ Len(<<>>) = 0
  OBVIOUS
<1>2. x \in Seq({}) /\ Len(x) <= 0
  BY <1>1, ComesIs
<1>3. Len(x) \in Nat
  BY <1>2, LenProperties
<1> QED BY <1>2, <1>3, EmptySeq

\* Nothing is read of none.
LEMMA NothingRead ==
    ASSUME NEW s \in Texts, NEW i \in 1..(Len(s) + 1), NEW delims, NUL \notin delims,
           Left(s, i) = <<>>
    PROVE  LET r == NextToken(s, i, delims)
           IN  ~r.found /\ r.token = <<>> /\ Left(r.text, r.next) = <<>>
<1>1. s \in Seq(Word)
  BY DEF Texts
<1>2. Clear(Left(s, i), delims)
  BY DEF Clear
<1>3. NUL \in Word
  BY WordsAre
<1> DEFINE r == NextToken(s, i, delims)
<1>4. (r.found <=> Left(s, i) # <<>>) /\ r.token = Left(s, i) /\ r.text = s /\ r.next = Len(s) + 1
  BY <1>1, <1>2, <1>3, TokenLast
<1> HIDE DEF r
<1>5. Left(s, Len(s) + 1) = <<>>
  BY <1>1, NothingLeft
<1> QED BY <1>4, <1>5 DEF r

\* Fields from the k-th on begin with a value that has no separator in it.
LEMMA ValueThen ==
    ASSUME NEW F \in Fields, NEW k \in 1..Len(F), NEW e, e = FormEncode(F[k].value)
    PROVE  /\ F[k] \in FieldSet /\ F[k].value \in Seq(TypedWord)
           /\ e \in Seq(ValueWord) /\ e \in Texts /\ Clear(e, {"&"})
           /\ e = <<>> <=> F[k].value = <<>>
           /\ Behind(F, k) \in Texts /\ Bare(F, k) \in Texts /\ e \o Behind(F, k) \in Texts
           /\ k = Len(F) => e \o Behind(F, k) = e
           /\ k # Len(F) => e \o Behind(F, k) = Joined(e, "&", Bare(F, k))
           /\ e = <<>> => e \o Behind(F, k) = Behind(F, k)
<1> DEFINE v == F[k].value
           b == Behind(F, k)
           c == Bare(F, k)
<1>1. F \in Seq(FieldSet)
  BY DEF Fields, FieldSet
<1>2. F[k] \in FieldSet
  BY <1>1, ElementOfSeq
<1>3. v \in Seq(TypedWord)
  BY <1>2 DEF FieldSet
<1>4. e \in Seq(ValueWord)
  BY <1>3, EncodedIs
<1>5. Len(e) = Len(v)
  BY <1>3, EncodedIs
<1>6. ValueWord \subseteq Word /\ FormWord \subseteq Word
  BY DEF ValueWord, FormWord
<1>7. e \in Texts
  BY <1>4, <1>6, SeqMonotonic DEF Texts
<1>8. Clear(e, {"&"})
  <2>1. \A w \in ValueWord : w \notin {"&"} /\ w # NUL
    BY DEF ValueWord
  <2> QED BY <1>4, <2>1, ClearIs
<1>9. e = <<>> <=> v = <<>>
  BY <1>3, <1>4, <1>5, EmptySeq
<1>10. k \in 0..Len(F)
  BY <1>1, LenProperties
<1>11. b \in Seq(FormWord) /\ c \in Seq(FormWord)
  BY <1>10, BehindIs
<1>12. b \in Texts /\ c \in Texts
  BY <1>6, <1>11, SeqMonotonic DEF Texts
<1>131. k = Len(F) => b = <<>>
  BY <1>10, BehindIs
<1>132. k # Len(F) => b = <<"&">> \o c
  BY <1>10, BehindIs
<1> HIDE DEF b, c
<1>14. e \o b \in Texts
  BY <1>7, <1>12, ConcatProperties DEF Texts
<1>15. e \o <<>> = e /\ <<>> \o b = b
  BY <1>7, <1>12, ConcatEmptySeq DEF Texts
<1>16. k = Len(F) => e \o b = e
  BY <1>131, <1>15
<1>17. k # Len(F) => e \o b = Joined(e, "&", c)
  BY <1>132 DEF Joined
<1>18. e = <<>> => e \o b = b
  BY <1>15
<1> QED BY <1>2, <1>3, <1>4, <1>7, <1>8, <1>9, <1>12, <1>14, <1>16, <1>17, <1>18 DEF b, c, v

\* What parseQS reads for a key.
LEMMA KeyRead ==
    ASSUME NEW F \in Fields, NEW list \in PairList, NEW whole,
           NEW s \in Texts, NEW i \in 1..(Len(s) + 1), KeyAhead(Left(s, i), F, list, whole)
    PROVE  LET r == NextToken(s, i, {"="})
               y == Left(r.text, r.next)
           IN  /\ ~r.found => PairsOf(F, list, whole)
               /\ r.found /\ Skips(r) => KeyAhead(y, F, list, whole)
               /\ r.found /\ ~Skips(r) => ValueAhead(y, r.token, F, list, whole)
<1> DEFINE r == NextToken(s, i, {"="})
           y == Left(r.text, r.next)
           x == Left(s, i)
<1>1. s \in Seq(Word) /\ NUL \in Word /\ NUL \notin {"="}
  BY WordsAre DEF Texts, NUL
<1>01. F \in Seq(FieldSet)
  BY DEF Fields, FieldSet
<1>02. Len(F) \in Nat
  BY <1>01, LenProperties
<1>2. ASSUME x = <<>>
      PROVE  ~r.found
  BY <1>1, <1>2, NothingRead
<1>3. CASE ~whole /\ x = <<>> /\ (NoHole(F) => FirstFields(F, list))
  <2> HIDE DEF r, x, y
  <2>1. ~r.found
    BY <1>2, <1>3
  <2> QED BY <1>3, <2>1, Zenon DEF PairsOf, r
<1>4. ASSUME NEW k \in 0..Len(F), NEW passed \in BOOLEAN, PairsUpto(F, k, list),
             passed => k > 0 /\ F[k].value = <<>>, Comes(x, NextFields(F, k, passed), whole)
      PROVE  /\ ~r.found => PairsOf(F, list, whole)
             /\ r.found /\ Skips(r) => KeyAhead(y, F, list, whole)
             /\ r.found /\ ~Skips(r) => ValueAhead(y, r.token, F, list, whole)
  <2>1. NoHole(F) => FirstFields(F, list)
    BY <1>4, FirstPairs
  <2>2. CASE k = Len(F)
    <3>1. NextFields(F, k, passed) = <<>>
      BY <2>2, BehindIs DEF NextFields
    <3> HIDE DEF x
    <3>2. x = <<>>
      BY <1>4, <3>1, NothingComes
    <3>3. ~r.found
      BY <1>2, <3>2
    <3>4. PairsUpto(F, Len(F), list)
      BY <1>4, <2>2
    <3> HIDE DEF r, y
    <3> QED BY <2>1, <3>3, <3>4, Zenon DEF PairsOf
  <2>3. CASE k # Len(F)
    <3> DEFINE l == k + 1
               name == F[l].name
               v == F[l].value
               e == FormEncode(v)
               first == IF passed THEN <<"&", name>> ELSE <<name>>
               b == e \o Behind(F, l)
    <3>1. l \in 1..Len(F) /\ l - 1 = k
      BY <1>02, <2>3
    <3>2. NextFields(F, k, passed) = Joined(first, "=", b)
      BY <2>3, NextFieldsIs
    <3> HIDE DEF l
    <3>30. F[l] \in FieldSet
      BY <3>1, ValueThen
    <3>31. b \in Texts
      BY <3>1, ValueThen
    <3>32. name \in ValueWord /\ name \in PlainWord
      BY <3>30, FieldIs
    <3>33. "&" \in Word /\ "&" \notin {"=", NUL} /\ "=" \in Word
      BY DEF Word, Spelled, Escaped, NUL
    <3>34. name \in Word /\ name \notin {"=", NUL}
      BY <3>32 DEF ValueWord, NUL
    <3> HIDE DEF name
    <3>35. first \in Seq(Word) /\ first # <<>>
      BY <3>33, <3>34
    <3>36. Clear(first, {"="})
      <4> DEFINE W == {"&", name}
      <4>11. <<name>> \in Seq(W)
        OBVIOUS
      <4>12. <<"&", name>> \in Seq(W)
        OBVIOUS
      <4>1. first \in Seq(W)
        BY <4>11, <4>12
      <4>2. \A w \in W : w \notin {"="} /\ w # NUL
        BY <3>33, <3>34
      <4> HIDE DEF first, W
      <4> QED BY <4>1, <4>2, ClearIs
    <3> DEFINE x2 == Joined(first, "=", b)
    <3> HIDE DEF first, b
    <3>37. Comes(x, Joined(first, "=", b), whole)
      BY <1>4, <3>2
    <3>38. b \in Seq(Word)
      BY <3>31 DEF Texts
    <3>39. "=" \in {"="} /\ "=" \in Word
      BY <3>33
    <3>4. /\ r.text \in Seq(Word) /\ r.next \in 1..(Len(r.text) + 1)
          /\ \/ r.found /\ r.cut /\ r.token = first /\ Comes(y, b, whole)
             \/ /\ ~whole /\ ~r.cut /\ Comes(r.token, first, FALSE)
                /\ r.found <=> r.token # <<>>
                /\ y = <<>>
      BY <1>1, <3>35, <3>36, <3>37, <3>38, <3>39, TokenComes
    <3> HIDE DEF r, x
    <3>5. CASE ~whole /\ ~r.cut /\ y = <<>>
      <4>1. ~Skips(r)
        BY <3>5 DEF Skips
      <4>2. ValueAhead(y, r.token, F, list, whole)
        BY <2>1, <3>5, Zenon DEF ValueAhead
      <4>3. PairsOf(F, list, whole)
        BY <2>1, <3>5, Zenon DEF PairsOf
      <4> QED BY <4>1, <4>2, <4>3
    <3>6. CASE r.found /\ r.cut /\ r.token = first /\ Comes(y, b, whole)
      <4>1. NoHole(F) /\ v # <<>> => r.token = <<name>>
        <5> SUFFICES ASSUME NoHole(F), v # <<>>, passed PROVE FALSE
          BY <3>6 DEF first
        <5>1. k \in DOMAIN F /\ l \in DOMAIN F /\ k < l
          BY <1>01, <1>02, <1>4, <3>1, LenProperties DEF l
        <5>2. F[l].value = <<>>
          BY <1>4, <5>1 DEF NoHole
        <5> QED BY <5>2
      <4>2. Skips(r) <=> y # <<>> /\ y[1] = "&"
        <5>1. (y = <<>> => CharAt(r.text, r.next) = NUL) /\ (y # <<>> => CharAt(r.text, r.next) = y[1])
          BY <3>4, NextChar
        <5>2. NUL # "&"
          BY DEF NUL
        <5> QED BY <3>6, <5>1, <5>2 DEF Skips
      <4>3. y \in Seq(Word) /\ Len(y) <= Len(b) /\ \A j \in 1..Len(y) : y[j] = b[j]
        BY <3>38, <3>6, ComesIs
      <4> HIDE DEF y
      <4>4. PairsUpto(F, l - 1, list)
        BY <1>4, <3>1
      <4>5. CASE v # <<>>
        <5>1. ~Skips(r)
          <6> SUFFICES ASSUME y # <<>>, y[1] = "&" PROVE FALSE
            BY <4>2
          <6>1. e \in Seq(ValueWord)
            BY <3>1, ValueThen
          <6>2. e # <<>>
            BY <3>1, <4>5, ValueThen
          <6>3. Behind(F, l) \in Texts
            BY <3>1, ValueThen
          <6> DEFINE tail == Behind(F, l)
          <6> HIDE DEF tail, e
          <6>4. Len(e) \in Nat /\ Len(e) # 0
            BY <6>1, <6>2, LenProperties, EmptySeq
          <6>5. e \in Seq(Word) /\ tail \in Seq(Word)
            <7>1. ValueWord \subseteq Word
              BY DEF ValueWord
            <7> QED BY <6>1, <6>3, <7>1, SeqMonotonic DEF tail, Texts
          <6>6. \A j \in 1..Len(e) : (e \o tail)[j] = e[j]
            BY <6>5, BothAre
          <6>7. b[1] = e[1]
            <7>1. 1 \in 1..Len(e)
              BY <6>4
            <7> QED BY <6>6, <7>1 DEF b, tail
          <6>8. e[1] \in ValueWord
            <7>1. 1 \in 1..Len(e)
              BY <6>4
            <7> QED BY <6>1, <7>1, ElementOfSeq
          <6>9. Len(y) \in Nat /\ Len(y) # 0
            BY <4>3, LenProperties, EmptySeq
          <6>10. y[1] = b[1]
            BY <4>3, <6>9
          <6> QED BY <6>7, <6>8, <6>10 DEF ValueWord
        <5>2. ValueAhead(y, r.token, F, list, whole)
          <6>1. Comes(y, FormEncode(F[l].value) \o Behind(F, l), whole)
            BY <3>6 DEF b
          <6> QED BY <3>1, <4>1, <4>4, <4>5, <6>1 DEF ValueAhead, name
        <5> QED BY <3>6, <5>1, <5>2
      <4>6. CASE v = <<>>
        <5>1. b = Behind(F, l)
          BY <3>1, <4>6, ValueThen DEF b
        <5>2. Comes(y, Behind(F, l), whole)
          BY <3>6, <5>1
        <5>3. l \in 0..Len(F)
          BY <1>02, <3>1
        <5>4. CASE Skips(r)
          <6>1. PairsUpto(F, l, list)
            BY <3>1, <4>4, <4>6, PairsSkip
          <6>2. NextFields(F, l, TRUE) = Behind(F, l)
            BY DEF NextFields
          <6>3. l > 0
            BY <3>1
          <6>4. KeyAhead(y, F, list, whole)
            <7>1. Comes(y, NextFields(F, l, TRUE), whole)
              BY <5>2, <6>2
            <7> QED BY <4>6, <5>3, <6>1, <6>3, <7>1 DEF KeyAhead
          <6> QED BY <3>6, <5>4, <6>4
        <5>5. CASE ~Skips(r)
          <6>1. y = <<>>
            <7> SUFFICES ASSUME y # <<>> PROVE y[1] = "&"
              BY <4>2, <5>5
            <7>1. l # Len(F)
              <8> SUFFICES ASSUME l = Len(F) PROVE FALSE
                OBVIOUS
              <8>1. Behind(F, l) = <<>>
                BY <5>3, BehindIs
              <8> QED BY <5>2, <8>1, NothingComes
            <7> DEFINE c == Bare(F, l)
            <7>2. b = <<"&">> \o c
              BY <5>1, <5>3, <7>1, BehindIs
            <7>3. c \in Seq(Word) /\ "&" \in Word
              BY <3>1, <3>33, ValueThen DEF Texts
            <7> HIDE DEF c
            <7>6. b[1] = "&"
              BY <7>2, <7>3, WordFirst
            <7>7. Len(y) \in Nat /\ Len(y) # 0
              BY <4>3, LenProperties, EmptySeq
            <7>8. y[1] = b[1]
              BY <4>3, <7>7
            <7> QED BY <7>6, <7>8
          <6>2. whole => l = Len(F)
            <7> SUFFICES ASSUME whole, l # Len(F) PROVE FALSE
              OBVIOUS
            <7>1. y = b
              BY <3>38, <3>6, ComesIs
            <7> DEFINE c == Bare(F, l)
            <7>2. b = <<"&">> \o c
              BY <5>1, <5>3, BehindIs
            <7>3. c \in Seq(Word) /\ "&" \in Word
              BY <3>1, <3>33, ValueThen DEF Texts
            <7> HIDE DEF c
            <7>5. b # <<>>
              BY <7>2, <7>3, WordFirst
            <7> QED BY <6>1, <7>1, <7>5
          <6>3. Comes(y, FormEncode(F[l].value) \o Behind(F, l), whole)
            BY <3>6 DEF b
          <6>4. ValueAhead(y, r.token, F, list, whole)
            BY <3>1, <4>4, <4>6, <6>1, <6>2, <6>3 DEF ValueAhead
          <6> QED BY <3>6, <5>5, <6>4
        <5> QED BY <5>4, <5>5
      <4> QED BY <4>5, <4>6 DEF y
    <3> QED BY <3>4, <3>5, <3>6
  <2> QED BY <2>2, <2>3
<1> HIDE DEF r, x, y
<1>5. \/ \E k \in 0..Len(F), passed \in BOOLEAN :
            /\ PairsUpto(F, k, list)
            /\ passed => k > 0 /\ F[k].value = <<>>
            /\ Comes(x, NextFields(F, k, passed), whole)
      \/ ~whole /\ x = <<>> /\ (NoHole(F) => FirstFields(F, list))
  BY Zenon DEF KeyAhead, x
<1>6. ASSUME \E k \in 0..Len(F), passed \in BOOLEAN :
                /\ PairsUpto(F, k, list)
                /\ passed => k > 0 /\ F[k].value = <<>>
                /\ Comes(x, NextFields(F, k, passed), whole)
      PROVE  /\ ~r.found => PairsOf(F, list, whole)
             /\ r.found /\ Skips(r) => KeyAhead(y, F, list, whole)
             /\ r.found /\ ~Skips(r) => ValueAhead(y, r.token, F, list, whole)
  <2>1. PICK k \in 0..Len(F), passed \in BOOLEAN :
           /\ PairsUpto(F, k, list)
           /\ passed => k > 0 /\ F[k].value = <<>>
           /\ Comes(x, NextFields(F, k, passed), whole)
    BY <1>6, Zenon
  <2> QED BY <1>4, <2>1, Zenon
<1> QED BY <1>3, <1>5, <1>6, Zenon DEF r, y


\* What is decoded has as many words, and a name is not changed by it.
LEMMA DecodeIs ==
    /\ \A x \in Texts : UrlDecode(x) \in Texts
    /\ \A n \in PlainWord : UrlDecode(<<n>>) = <<n>>
<1>1. ASSUME NEW x \in Texts
      PROVE  UrlDecode(x) \in Texts
  <2>1. Len(x) \in Nat /\ DOMAIN x = 1..Len(x)
    BY <1>1, LenProperties DEF Texts
  <2>2. \A i \in 1..Len(x) : x[i] \in Word
    BY <1>1, ElementOfSeq DEF Texts
  <2> DEFINE d == [i \in 1..Len(x) |-> Read1(x[i])]
  <2>3. UrlDecode(x) = d
    BY <2>1 DEF UrlDecode, Read1
  <2>4. \A c \in Word : Read1(c) \in Word
    <3> TAKE c \in Word
    <3>1. CASE c = "+"
      <4>0. "+" \notin DOMAIN Escapes
        BY EscapesAre DEF EscapeWords
      <4>1. Read1(c) = " "
        BY <3>1, <4>0, Zenon DEF Read1
      <4>2. " " \in Word
        BY Zenon DEF Word, Spelled, Escaped
      <4> QED BY <4>1, <4>2
    <3>2. CASE c # "+" /\ c \in DOMAIN Escapes
      <4>1. Read1(c) = Escapes[c]
        BY <3>2, Zenon DEF Read1
      <4> QED BY <3>2, <4>1, EscapesAre
    <3>3. CASE c # "+" /\ c \notin DOMAIN Escapes
      <4>1. Read1(c) = c
        BY <3>3, Zenon DEF Read1
      <4> QED BY <4>1
    <3> QED BY <3>1, <3>2, <3>3
  <2>5. \A i \in 1..Len(x) : Read1(x[i]) \in Word
    BY <2>2, <2>4
  <2>6. d \in Seq(Word)
    BY <2>1, <2>5
  <2> QED BY <2>3, <2>6 DEF Texts
<1>2. ASSUME NEW n \in PlainWord
      PROVE  UrlDecode(<<n>>) = <<n>>
  <2>1. n # "+" /\ n \notin DOMAIN Escapes
    BY <1>2 DEF PlainWord, Marks
  <2>2. Read1(n) = n
    BY <2>1, Zenon DEF Read1
  <2>3. UrlDecode(<<n>>) = [i \in DOMAIN <<n>> |-> Read1(<<n>>[i])]
    BY Zenon DEF UrlDecode, Read1
  <2>4. DOMAIN <<n>> = 1..1 /\ \A i \in 1..1 : <<n>>[i] = n
    OBVIOUS
  <2>5. [i \in DOMAIN <<n>> |-> Read1(<<n>>[i])] = [i \in 1..1 |-> n]
    BY <2>2, <2>4
  <2>6. <<n>> = [i \in 1..1 |-> n]
    OBVIOUS
  <2> QED BY <2>3, <2>5, <2>6
<1> QED BY <1>1, <1>2

\* A value that has come is added to the pairs.
LEMMA ValueAll ==
    ASSUME NEW F \in Fields, NEW k \in 1..Len(F), NEW list \in PairList,
           PairsUpto(F, k - 1, list), F[k].value # <<>>, NEW name \in Texts,
           NoHole(F) => name = <<F[k].name>>
    PROVE  PairsUpto(F, k, AddPair(UrlDecode(name), UrlDecode(FormEncode(F[k].value)), list))
<1> DEFINE v == F[k].value
           e == FormEncode(v)
<1>1. F[k] \in FieldSet /\ v \in Seq(TypedWord) /\ e \in Seq(ValueWord)
  BY ValueThen
<1>2. F[k].name \in PlainWord
  BY <1>1 DEF FieldSet
<1>3. Comes(e, e, TRUE)
  BY <1>1, AllComes
<1>4. UrlDecode(e) = v
  BY <1>1, <1>3, DecodedIs
<1>5. UrlDecode(name) \in Texts
  BY DecodeIs
<1>6. NoHole(F) => UrlDecode(name) = <<F[k].name>>
  BY <1>2, DecodeIs
<1> HIDE DEF v, e
<1>7. PairsUpto(F, k, AddPair(UrlDecode(name), F[k].value, list))
  BY <1>5, <1>6, PairsAdd
<1> QED BY <1>4, <1>7 DEF v, e

\* Of a value that was cut off, the beginning is added.
LEMMA ValuePart ==
    ASSUME NEW F \in Fields, NEW k \in 1..Len(F), NEW list \in PairList,
           PairsUpto(F, k - 1, list), F[k].value # <<>>, NEW name \in Texts,
           NoHole(F) => name = <<F[k].name>>, NEW part,
           Comes(part, FormEncode(F[k].value), FALSE), part # <<>>, NoHole(F)
    PROVE  FirstFields(F, AddPair(UrlDecode(name), UrlDecode(part), list))
<1> DEFINE v == F[k].value
           e == FormEncode(v)
           u == UrlDecode(part)
           n == Len(part)
<1>1. F[k] \in FieldSet /\ v \in Seq(TypedWord) /\ e \in Seq(ValueWord)
  BY ValueThen
<1>2. F[k].name \in PlainWord
  BY <1>1 DEF FieldSet
<1>31. n \in 0..Len(v)
  BY <1>1, DecodedIs
<1>32. u = SubSeq(v, 1, n)
  BY <1>1, DecodedIs
<1>33. u \in Texts
  BY <1>1, DecodedIs
<1>34. Len(u) = n
  BY <1>1, DecodedIs
<1>4. UrlDecode(name) = <<F[k].name>>
  BY <1>2, DecodeIs
<1>5. part \in Seq(ValueWord)
  BY <1>1, ComesIs
<1>6. n # 0
  BY <1>5, EmptySeq
<1>7. u # <<>>
  BY <1>33, <1>34, <1>6 DEF Texts
<1> HIDE DEF v, e, u, n
<1>8. IsPrefix(u, v)
  BY <1>1, <1>31, <1>32, BeginningIsPrefix
<1>9. FirstFields(F, AddPair(<<F[k].name>>, u, list))
  BY <1>33, <1>7, <1>8, FirstPairsAdd DEF v
<1> QED BY <1>4, <1>9 DEF u


\* What parseQS reads for a value.
LEMMA ValueRead ==
    ASSUME NEW F \in Fields, NEW list \in PairList, NEW whole, NEW name \in Texts,
           NEW s \in Texts, NEW i \in 1..(Len(s) + 1),
           ValueAhead(Left(s, i), name, F, list, whole)
    PROVE  LET r == NextToken(s, i, {"&"})
               y == Left(r.text, r.next)
           IN  /\ ~r.found => PairsOf(F, list, whole)
               /\ r.found => KeyAhead(y, F, AddPair(UrlDecode(name), UrlDecode(r.token), list),
                                      whole)
<1> DEFINE r == NextToken(s, i, {"&"})
           y == Left(r.text, r.next)
           x == Left(s, i)
           longer == AddPair(UrlDecode(name), UrlDecode(r.token), list)
<1>1. s \in Seq(Word) /\ NUL \in Word /\ NUL \notin {"&"} /\ "&" \in Word
  BY WordsAre DEF Texts, NUL, Word, Spelled, Escaped
<1>01. F \in Seq(FieldSet)
  BY DEF Fields, FieldSet
<1>02. Len(F) \in Nat
  BY <1>01, LenProperties
<1>2. ASSUME x = <<>>
      PROVE  ~r.found
  BY <1>1, <1>2, NothingRead
<1>3. CASE ~whole /\ x = <<>> /\ (NoHole(F) => FirstFields(F, list))
  <2> HIDE DEF r, x, y
  <2>1. ~r.found
    BY <1>2, <1>3
  <2> QED BY <1>3, <2>1, Zenon DEF PairsOf, r
<1>4. ASSUME NEW k \in 1..Len(F), PairsUpto(F, k - 1, list),
             NoHole(F) /\ F[k].value # <<>> => name = <<F[k].name>>,
             F[k].value = <<>> => x = <<>> /\ (whole => k = Len(F)),
             Comes(x, FormEncode(F[k].value) \o Behind(F, k), whole)
      PROVE  /\ ~r.found => PairsOf(F, list, whole)
             /\ r.found => KeyAhead(y, F, longer, whole)
  <2> DEFINE v == F[k].value
             e == FormEncode(v)
             b == e \o Behind(F, k)
             c == Bare(F, k)
  <2>1. NoHole(F) => FirstFields(F, list)
    <3>1. k - 1 \in 0..Len(F)
      BY <1>02
    <3> QED BY <1>4, <3>1, FirstPairs
  <2>2. CASE v = <<>>
    <3> HIDE DEF x
    <3>1. x = <<>>
      BY <1>4, <2>2
    <3>2. ~r.found
      BY <1>2, <3>1
    <3>3. whole => PairsUpto(F, Len(F), list)
      <4>1. PairsUpto(F, k, list)
        BY <1>4, <2>2, PairsSkip
      <4> QED BY <1>4, <2>2, <4>1
    <3> HIDE DEF r, y
    <3> QED BY <2>1, <3>2, <3>3, Zenon DEF PairsOf
  <2>3. CASE v # <<>>
    <3>1. e \in Seq(Word) /\ c \in Seq(Word) /\ e # <<>>
      BY <2>3, ValueThen DEF Texts
    <3>2. Clear(e, {"&"})
      BY ValueThen
    <3>3. NoHole(F) => name = <<F[k].name>>
      BY <1>4, <2>3
    <3>4. PairsUpto(F, k, AddPair(UrlDecode(name), UrlDecode(e), list))
      BY <1>4, <2>3, <3>3, ValueAll
    <3>5. ASSUME r.token # <<>>, Comes(r.token, e, FALSE)
          PROVE  NoHole(F) => FirstFields(F, longer)
      <4> HIDE DEF r
      <4> QED BY <1>4, <2>3, <3>3, <3>5, ValuePart
    <3>6. Comes(x, b, whole)
      BY <1>4
    <3>7. k \in 0..Len(F)
      BY <1>02
    <3>8. CASE k # Len(F)
      <4>1. b = Joined(e, "&", c)
        BY <3>8, ValueThen
      <4> HIDE DEF b, e, c
      <4>2. Comes(x, Joined(e, "&", c), whole)
        BY <3>6, <4>1
      <4>3. "&" \in {"&"}
        OBVIOUS
      <4>4. /\ r.text \in Seq(Word) /\ r.next \in 1..(Len(r.text) + 1)
            /\ \/ r.found /\ r.cut /\ r.token = e /\ Comes(y, c, whole)
               \/ /\ ~whole /\ ~r.cut /\ Comes(r.token, e, FALSE)
                  /\ r.found <=> r.token # <<>>
                  /\ y = <<>>
        BY <1>1, <3>1, <3>2, <4>2, <4>3, TokenComes
      <4> HIDE DEF r, x, y
      <4>5. CASE r.found /\ r.token = e /\ Comes(y, c, whole)
        <5>1. PairsUpto(F, k, longer)
          BY <3>4, <4>5
        <5>2. NextFields(F, k, FALSE) = c
          BY DEF NextFields, c
        <5>3. Comes(y, NextFields(F, k, FALSE), whole)
          BY <4>5, <5>2
        <5> HIDE DEF longer
        <5>4. KeyAhead(y, F, longer, whole)
          BY <3>7, <5>1, <5>3 DEF KeyAhead
        <5> QED BY <4>5, <5>4
      <4>6. CASE /\ ~whole /\ Comes(r.token, e, FALSE) /\ y = <<>>
                 /\ r.found <=> r.token # <<>>
        <5>1. r.found => (NoHole(F) => FirstFields(F, longer))
          BY <3>5, <4>6
        <5> HIDE DEF longer
        <5> QED BY <2>1, <4>6, <5>1, Zenon DEF KeyAhead, PairsOf
      <4> QED BY <4>4, <4>5, <4>6, Zenon
    <3>9. CASE k = Len(F)
      <4>1. b = e
        BY <3>9, ValueThen
      <4> HIDE DEF b, e, c
      <4>2. Comes(x, e, whole)
        BY <3>6, <4>1
      <4>3. /\ Comes(r.token, e, whole)
            /\ r.found <=> r.token # <<>>
            /\ y = <<>>
        BY <1>1, <3>1, <3>2, <4>2, TokenEnds
      <4> HIDE DEF r, x, y
      <4>4. CASE whole
        <5>1. r.token = e
          BY <3>1, <4>3, <4>4, ComesIs
        <5>2. r.found
          BY <3>1, <4>3, <5>1
        <5>3. PairsUpto(F, k, longer)
          BY <3>4, <5>1
        <5>4. NextFields(F, k, FALSE) = <<>>
          BY <3>7, <3>9, BehindIs DEF NextFields
        <5>5. Comes(y, NextFields(F, k, FALSE), whole)
          <6>1. <<>> \in Seq(Word)
            OBVIOUS
          <6>2. Comes(<<>>, <<>>, whole)
            BY <6>1, AllComes
          <6> QED BY <4>3, <5>4, <6>2
        <5> HIDE DEF longer
        <5>6. KeyAhead(y, F, longer, whole)
          BY <3>7, <5>3, <5>5 DEF KeyAhead
        <5> QED BY <5>2, <5>6
      <4>5. CASE ~whole
        <5>1. Comes(r.token, e, FALSE)
          BY <4>3, <4>5 DEF Comes
        <5>2. r.found => (NoHole(F) => FirstFields(F, longer))
          BY <3>5, <4>3, <5>1
        <5> HIDE DEF longer
        <5> QED BY <2>1, <4>3, <4>5, <5>2, Zenon DEF KeyAhead, PairsOf
      <4> QED BY <4>4, <4>5
    <3> QED BY <3>8, <3>9
  <2> QED BY <2>2, <2>3
<1> HIDE DEF r, x, y
<1>5. \/ \E k \in 1..Len(F) :
            /\ PairsUpto(F, k - 1, list)
            /\ NoHole(F) /\ F[k].value # <<>> => name = <<F[k].name>>
            /\ F[k].value = <<>> => x = <<>> /\ (whole => k = Len(F))
            /\ Comes(x, FormEncode(F[k].value) \o Behind(F, k), whole)
      \/ ~whole /\ x = <<>> /\ (NoHole(F) => FirstFields(F, list))
  BY Zenon DEF ValueAhead, x
<1>6. ASSUME \E k \in 1..Len(F) :
                /\ PairsUpto(F, k - 1, list)
                /\ NoHole(F) /\ F[k].value # <<>> => name = <<F[k].name>>
                /\ F[k].value = <<>> => x = <<>> /\ (whole => k = Len(F))
                /\ Comes(x, FormEncode(F[k].value) \o Behind(F, k), whole)
      PROVE  /\ ~r.found => PairsOf(F, list, whole)
             /\ r.found => KeyAhead(y, F, longer, whole)
  <2>1. PICK k \in 1..Len(F) :
           /\ PairsUpto(F, k - 1, list)
           /\ NoHole(F) /\ F[k].value # <<>> => name = <<F[k].name>>
           /\ F[k].value = <<>> => x = <<>> /\ (whole => k = Len(F))
           /\ Comes(x, FormEncode(F[k].value) \o Behind(F, k), whole)
    BY <1>6, Zenon
  <2> HIDE DEF longer
  <2> QED BY <1>4, <2>1, Zenon
<1> QED BY <1>3, <1>5, <1>6, Zenon DEF r, y


-----------------------------------------------------------------------------
(* A call of strtok, when nobody else parses.                              *)

\* It goes on in the text that is there, and keeps the types.
LEMMA ReadIs ==
    ASSUME NEW t, Thread = {t}, live[t] \in SUBSET {"buff", "copy"}, mem \in MemType,
           NEW p \in SaveType, p.area \in live[t], p.pos \in 1..(Len(mem[t][p.area]) + 1),
           NEW delims, NUL \notin delims, NEW r \in Reads(p, delims), Moves(p, r)
    PROVE  LET s == mem[t][p.area]
           IN  /\ s \in Texts /\ r = NextToken(s, p.pos, delims)
               /\ r.token \in Texts /\ r.found \in BOOLEAN /\ (r.found <=> r.token # <<>>)
               /\ save' \in SaveType /\ mem' \in MemType
               /\ save'.thread = t /\ save'.area = p.area
               /\ save'.pos \in 1..(Len(mem'[t][p.area]) + 1)
               /\ Left(mem'[t][p.area], save'.pos) = Left(r.text, r.next)
<1> DEFINE s == mem[t][p.area]
<1>1. p.thread = t /\ p.area \in {"buff", "copy"}
  BY DEF SaveType
<1>2. mem[t] \in TextType
  BY DEF MemType
<1>3. s \in Texts
  BY <1>1, <1>2 DEF TextType
<1>4. r = NextToken(s, p.pos, delims)
  BY <1>1 DEF Reads
<1>5. s \in Seq(Word) /\ NUL \in Word
  BY <1>3, WordsAre DEF Texts
<1> HIDE DEF s
<1>61. r.text \in Seq(Word) /\ r.next \in 1..(Len(r.text) + 1)
  BY <1>4, <1>5, TokenType DEF s
<1>62. r.token \in Seq(Word) /\ r.found \in BOOLEAN /\ (r.found <=> r.token # <<>>)
  BY <1>4, <1>5, TokenType DEF s
<1>7. r.next \in Nat
  <2>1. Len(r.text) \in Nat
    BY <1>61, LenProperties
  <2> QED BY <1>61, <2>1
<1>8. save' = [p EXCEPT !.pos = r.next]
  BY DEF Moves
<1>9. /\ save' \in SaveType /\ save'.thread = t /\ save'.area = p.area
      /\ save'.pos = r.next
  BY <1>1, <1>7, <1>8 DEF SaveType
<1>10. mem' = [mem EXCEPT ![t][p.area] = r.text]
  BY <1>1 DEF Moves
<1> DEFINE text == r.text
           m == [mem[t] EXCEPT ![p.area] = text]
<1>11. m \in TextType /\ m[p.area] = text
  <2>1. text \in Texts
    BY <1>61 DEF Texts
  <2> HIDE DEF text
  <2>2. CASE p.area = "buff"
    BY <1>2, <2>1, <2>2 DEF TextType
  <2>3. CASE p.area = "copy"
    BY <1>2, <2>1, <2>3 DEF TextType
  <2> QED BY <1>1, <2>2, <2>3
<1>12. mem' = [mem EXCEPT ![t] = m]
  BY <1>10
<1> HIDE DEF m
<1>13. mem' \in MemType /\ mem'[t] = m
  BY <1>11, <1>12 DEF MemType
<1>14. mem'[t][p.area] = r.text
  BY <1>11, <1>13
<1>15. /\ save'.pos \in 1..(Len(mem'[t][p.area]) + 1)
       /\ Left(mem'[t][p.area], save'.pos) = Left(r.text, r.next)
  BY <1>61, <1>9, <1>14
<1> QED BY <1>3, <1>4, <1>62, <1>9, <1>13, <1>15 DEF Texts, s


\* The next call of strtok by t goes on where it is.
LEMMA ReadHere ==
    ASSUME NEW t, Thread = {t}, ParserType(t), ppc[t] \in {"method"} \cup BuffStep \cup CopyStep,
           NEW delims, NUL \notin delims, NEW p, p = Place(t), NEW r \in Reads(p, delims),
           Moves(p, r), NEW s, s = mem[p.thread][p.area]
    PROVE  /\ s \in Texts /\ p.pos \in 1..(Len(s) + 1) /\ Left(s, p.pos) = Coming(t)
           /\ r = NextToken(s, p.pos, delims)
           /\ r.token \in Texts /\ r.found \in BOOLEAN /\ (r.found <=> r.token # <<>>)
           /\ save' \in SaveType /\ mem' \in MemType
           /\ save'.area = p.area /\ p.area = (IF ppc[t] \in CopyStep THEN "copy" ELSE "buff")
           /\ save'.pos \in 1..(Len(mem'[save'.thread][save'.area]) + 1)
           /\ Left(mem'[save'.thread][save'.area], save'.pos) = Left(r.text, r.next)
<1>1. live[t] \in SUBSET {"buff", "copy"} /\ mem \in MemType /\ save \in SaveType
  BY DEF ParserType
<1>2. p \in SaveType
  BY <1>1 DEF Place, From, Start, SaveType
<1>3. p.thread = t
  BY <1>2 DEF SaveType
<1>4. s \in Texts
  BY <1>1, <1>2, <1>3 DEF SaveType, MemType, TextType
<1>5. Len(s) \in Nat
  BY <1>4, LenProperties DEF Texts
<1>6. p.area = (IF ppc[t] \in CopyStep THEN "copy" ELSE "buff")
  <2>1. CASE ppc[t] = "method"
    BY <2>1 DEF Place, Start, CopyStep
  <2>2. CASE ppc[t] \in BuffStep
    BY <2>2 DEF ParserType, SaveOK, BuffStep, CopyStep
  <2>3. CASE ppc[t] \in CopyStep
    BY <2>3 DEF ParserType, SaveOK, BuffStep, CopyStep
  <2> QED BY <2>1, <2>2, <2>3
<1>7. p.area \in live[t]
  BY <1>6 DEF ParserType, SaveOK, BuffStep, CopyStep
<1>8. p.pos \in 1..(Len(s) + 1)
  <2>1. CASE ppc[t] = "method"
    BY <2>1, <1>5 DEF Place, Start
  <2>2. CASE ppc[t] # "method"
    BY <2>2 DEF ParserType, SaveOK
  <2> QED BY <2>1, <2>2
<1>9. Left(s, p.pos) = Coming(t)
  BY DEF Coming
<1>10. s = mem[t][p.area]
  BY <1>3
<1>11. /\ r = NextToken(s, p.pos, delims)
       /\ r.token \in Texts /\ r.found \in BOOLEAN /\ (r.found <=> r.token # <<>>)
       /\ save' \in SaveType /\ mem' \in MemType
       /\ save'.thread = t /\ save'.area = p.area
       /\ save'.pos \in 1..(Len(mem'[t][p.area]) + 1)
       /\ Left(mem'[t][p.area], save'.pos) = Left(r.text, r.next)
  BY <1>1, <1>2, <1>7, <1>8, <1>10, ReadIs
<1> QED BY <1>4, <1>6, <1>8, <1>9, <1>11

\* The next one goes on where strtok was left.
LEMMA GoesOn ==
    ASSUME NEW t, Thread = {t}, ~fresh'[t], ppc'[t] # "method",
           save' \in SaveType, save'.pos \in 1..(Len(mem'[save'.thread][save'.area]) + 1)
    PROVE  /\ Place(t)' = save'
           /\ Coming(t)' = Left(mem'[save'.thread][save'.area], save'.pos)
<1>1. Place(t)' = save'
  BY DEF Place, From
<1> QED BY <1>1 DEF Coming

\* The parser's types after a call of strtok.
LEMMA TypeAfter ==
    ASSUME NEW t, Thread = {t}, ParserType(t), ppc[t] \in {"method"} \cup BuffStep \cup CopyStep,
           NEW label, ppc' = [ppc EXCEPT ![t] = label] \/ (ppc' = ppc /\ ppc[t] = label),
           label \in {"fail"} \cup IF ppc[t] \in CopyStep THEN CopyStep ELSE BuffStep,
           save' \in SaveType, mem' \in MemType,
           save'.area = (IF ppc[t] \in CopyStep THEN "copy" ELSE "buff"),
           save'.pos \in 1..(Len(mem'[save'.thread][save'.area]) + 1),
           live' = live, target' = target, fresh' \in [Thread -> BOOLEAN], ~fresh'[t],
           key' \in KeyType, parsed' \in ParsedType
    PROVE  /\ ParserType(t)' /\ ppc'[t] = label /\ label # "method" /\ label # "idle"
           /\ Coming(t)' = Left(mem'[save'.thread][save'.area], save'.pos)
<1>1. /\ DOMAIN ppc = Thread /\ DOMAIN target = Thread
      /\ live \in [Thread -> SUBSET {"buff", "copy"}] /\ "buff" \in live[t]
      /\ ppc[t] \in CopyStep => "copy" \in live[t]
  BY DEF ParserType, SaveOK, BuffStep, CopyStep
<1>2. ppc'[t] = label /\ label # "method" /\ label # "idle" /\ ~fresh'[t]
  BY <1>1 DEF BuffStep, CopyStep
<1>3. Place(t)' = save' /\ Coming(t)' = Left(mem'[save'.thread][save'.area], save'.pos)
  BY <1>2, GoesOn
<1>4. label \in CopyStep => ppc[t] \in CopyStep
  BY DEF BuffStep, CopyStep
<1>5. label \in BuffStep => ppc[t] \notin CopyStep
  BY DEF BuffStep, CopyStep
<1>6. SaveOK(t)'
  BY <1>1, <1>2, <1>3, <1>4, <1>5 DEF SaveOK
<1>7. DOMAIN ppc' = Thread
  BY <1>1
<1> QED BY <1>1, <1>2, <1>3, <1>6, <1>7 DEF ParserType


\* A token that has something behind it, unless it was cut off.
LEMMA TokenRead ==
    ASSUME NEW s, NEW i, NEW delims, NEW r, NEW x, NEW y, NEW w, NEW a, NEW d, NEW b,
           s \in Texts, i \in 1..(Len(s) + 1), NUL \notin delims,
           r = NextToken(s, i, delims), x = Left(s, i), y = Left(r.text, r.next),
           a \in Texts, a # <<>>, Clear(a, delims), d \in delims, d \in Word,
           b \in Texts, Comes(x, Joined(a, d, b), w)
    PROVE  \/ r.found /\ r.token = a /\ Comes(y, b, w)
           \/ /\ ~w /\ Comes(r.token, a, w) /\ y = <<>>
              /\ r.found <=> r.token # <<>>
<1>1. s \in Seq(Word) /\ a \in Seq(Word) /\ b \in Seq(Word) /\ NUL \in Word
  BY WordsAre DEF Texts
<1> DEFINE part == Comes(r.token, a, FALSE)
<1>2. \/ r.found /\ r.token = a /\ Comes(y, b, w)
      \/ ~w /\ part /\ y = <<>> /\ (r.found <=> r.token # <<>>)
  BY <1>1, TokenComes, ZenonT(60)
<1>3. ~w /\ part => Comes(r.token, a, w)
  BY DEF Comes
<1> HIDE DEF part
<1> QED BY <1>2, <1>3

\* Of a text that is one word all or nothing has come.
LEMMA WordComes ==
    ASSUME NEW c, NEW x, NEW w, c \in Word, Comes(x, <<c>>, w), x # <<>>
    PROVE  x = <<c>>
<1> DEFINE a == <<c>>
<1>1. a \in Seq(Word) /\ Len(a) = 1
  OBVIOUS
<1>2. PICK n \in 0..Len(a) : x = SubSeq(a, 1, n)
  BY DEF Comes
<1>3. SubSeq(a, 1, 0) = <<>>
  BY <1>1, SubSeqEmpty
<1>4. SubSeq(a, 1, 1) = a
  BY <1>1, SubSeqFull
<1> HIDE DEF a
<1>5. n = 1
  BY <1>1, <1>2, <1>3
<1> QED BY <1>2, <1>4, <1>5 DEF a

One(c) == <<c>>

\* The same of a token that is one word: it is there, or nothing is.
LEMMA WordRead ==
    ASSUME NEW s, NEW i, NEW delims, NEW r, NEW x, NEW y, NEW w, NEW c, NEW d, NEW b,
           s \in Texts, i \in 1..(Len(s) + 1), NUL \notin delims,
           r = NextToken(s, i, delims), x = Left(s, i), y = Left(r.text, r.next),
           c \in Word, c # NUL, c \notin delims, d \in delims, d \in Word,
           b \in Texts, Comes(x, Joined(One(c), d, b), w)
    PROVE  \/ r.found /\ r.token = One(c) /\ Comes(y, b, w)
           \/ ~w /\ ~r.found /\ y = <<>>
<1> DEFINE a == One(c)
<1>1. a \in Texts /\ a # <<>>
  BY DEF Texts, One
<1>2. Clear(a, delims)
  BY DEF Clear, One
<1>3. b \in Seq(Word)
  BY DEF Texts
<1> HIDE DEF a
<1>4. \/ r.found /\ r.token = a /\ Comes(y, b, w)
      \/ /\ ~w /\ Comes(r.token, a, w) /\ y = <<>>
         /\ r.found <=> r.token # <<>>
  <2>1. Comes(x, Joined(a, d, b), w)
    BY DEF a
  <2> QED BY <1>1, <1>2, <2>1, TokenRead
<1>5. Comes(r.token, a, w) /\ r.token # <<>> => r.token = a
  BY WordComes DEF a, One
<1>6. ~w => Comes(<<>>, b, w)
  BY <1>3, AllComes
<1> QED BY <1>4, <1>5, <1>6 DEF a

-----------------------------------------------------------------------------
(* The steps of requestNew.                                                *)

\* What a worker does with a request does not change while it is parsed.
LEMMA StillParsing ==
    ASSUME NEW t, ParsingInv(t), hpc[t] = "parsing", UNCHANGED handler, ppc'[t] # "idle",
           ParserType(t)', IF piece[t] = "rest" THEN LateAt(t)' ELSE Underway(t)'
    PROVE  ParsingInv(t)'
<1>1. /\ hpc' = hpc /\ asking' = asking /\ piece' = piece /\ unread' = unread
      /\ wire' = wire
  BY DEF handler
<1>2. HandleType(t)'
  BY <1>1 DEF ParsingInv, HandleType, UnreadOK
<1> QED BY <1>1, <1>2 DEF ParsingInv

\* What is parsed is a request, or the end of one.
LEMMA ParsingIs ==
    ASSUME NEW t, ParsingInv(t), hpc[t] = "parsing", UNCHANGED handler
    PROVE  /\ ParserType(t) /\ asking[t] \in Requests /\ ppc[t] # "idle"
           /\ piece[t] \in {"whole", "first", "rest"} /\ Whole(t) \in BOOLEAN
           /\ IF piece[t] = "rest" THEN LateAt(t) ELSE Underway(t)
           /\ asking' = asking /\ piece' = piece /\ Whole(t)' = Whole(t)
           /\ piece[t] = "rest" => ~Whole(t)
BY DEF ParsingInv, HandleType, handler, Whole

\* What is behind a token of what was late, up to a blank.
LEMMA LateRead ==
    ASSUME NEW s, NEW i, NEW r, NEW x, NEW y, s \in Texts, i \in 1..(Len(s) + 1),
           r = NextToken(s, i, BlankMark), x = Left(s, i), y = Left(r.text, r.next),
           Clear(x, {}), r.token # <<>>
    PROVE  /\ SpacedLate(x) => Spaced(y) /\ Clear(y, {})
           /\ Spaced(x) => y = <<>> \/ y[1] \in AfterBlank
<1>1. s \in Seq(Word) /\ NUL \in Word
  BY WordsAre DEF Texts
<1>2. NUL \notin BlankMark
  BY Zenon DEF NUL, BlankMark
<1>3. \/ y = <<>>
      \/ \E k, j \in 1..Len(x) :
            /\ k < j /\ x[k] \notin BlankMark /\ x[j] \in BlankMark
            /\ y = Left(x, j + 1)
  BY <1>1, <1>2, TokenLeaves
<1>4. x \in Seq(Word)
  BY <1>1, LeftIs
<1>5. Len(x) \in Nat
  BY <1>4, LenProperties
<1> HIDE DEF Left
<1>6. CASE y = <<>>
  BY <1>6 DEF Spaced, Clear
<1>7. ASSUME NEW k \in 1..Len(x), NEW j \in 1..Len(x), k < j, x[k] \notin BlankMark,
             x[j] \in BlankMark, y = Left(x, j + 1)
      PROVE  /\ SpacedLate(x) => Spaced(y) /\ Clear(y, {})
             /\ Spaced(x) => y = <<>> \/ y[1] \in AfterBlank
  <2> DEFINE z == Left(x, j + 1)
  <2>1. j + 1 \in 1..(Len(x) + 1)
    BY <1>5
  <2>2. Len(z) = Len(x) + 1 - (j + 1)
    BY <1>4, <2>1, LeftIs
  <2>3. \A l \in 1..(Len(x) + 1 - (j + 1)) : z[l] = x[(j + 1) + l - 1]
    BY ZenonT(60), <1>4, <2>1, LeftIs
  <2>4. z = y
    BY <1>7
  <2> HIDE DEF z
  <2>5. \A l \in 1..Len(y) : j + l \in 1..Len(x) /\ y[l] = x[j + l]
    BY <1>5, <2>2, <2>3, <2>4
  <2>6. Clear(y, {})
    BY <2>5 DEF Clear
  <2>7. SpacedLate(x) => Spaced(y)
    BY <1>7 DEF SpacedLate
  <2>8. Spaced(x) => y = <<>> \/ y[1] \in AfterBlank
    <3> SUFFICES ASSUME Spaced(x) PROVE y[1] \in AfterBlank
      OBVIOUS
    <3>1. j < Len(x) /\ x[j + 1] \in AfterBlank
      BY <1>7 DEF Spaced
    <3>2. 1 \in 1..Len(y)
      BY <1>5, <2>2, <2>4, <3>1
    <3> QED BY <2>5, <3>1, <3>2
  <2> QED BY <2>6, <2>7, <2>8
<1> QED BY <1>3, <1>6, <1>7

\* strtok for the method (request.c:165-169).
LEMMA MethodStep ==
    ASSUME NEW t, Thread = {t}, ParsingInv(t), hpc[t] = "parsing", UNCHANGED handler,
           ParseMethod(t)
    PROVE  ParsingInv(t)'
<1> DEFINE q == asking[t]
           p == Place(t)
           s == mem[p.thread][p.area]
           x == Coming(t)
           y == Coming(t)'
<1>1. /\ ParserType(t) /\ q \in Requests /\ Whole(t) \in BOOLEAN
      /\ IF piece[t] = "rest" THEN LateAt(t) ELSE Underway(t)
      /\ asking' = asking /\ piece' = piece /\ Whole(t)' = Whole(t)
      /\ piece[t] = "rest" => ~Whole(t)
  BY ParsingIs
<1>2. ppc[t] = "method" /\ p = Start(t, "buff") /\ ppc[t] \notin CopyStep
  BY DEF ParseMethod, Place, CopyStep
<1>3. PICK r \in Reads(p, BlankMark) :
         /\ Moves(p, r)
         /\ IF r.found /\ Len(r.token) = 1 /\ r.token[1] \in Methods
            THEN parsed' = [parsed EXCEPT ![t].method = r.token[1]] /\ To(t, "path")
            ELSE To(t, "fail") /\ UNCHANGED parsed
  BY <1>2, Zenon DEF ParseMethod, BlankMark
<1>4. UNCHANGED <<live, fresh, target, key>>
  BY DEF ParseMethod
<1>5. NUL \notin BlankMark
  BY Zenon DEF NUL, BlankMark
<1> DEFINE good == r.found /\ Len(r.token) = 1 /\ r.token[1] \in Methods
           label == IF good THEN "path" ELSE "fail"
<1>6. ppc' = [ppc EXCEPT ![t] = label]
  BY <1>3 DEF To
<1> HIDE DEF p
<1>7. /\ s \in Texts /\ p.pos \in 1..(Len(s) + 1) /\ Left(s, p.pos) = x
      /\ r = NextToken(s, p.pos, BlankMark)
      /\ r.token \in Texts /\ r.found \in BOOLEAN /\ (r.found <=> r.token # <<>>)
      /\ save' \in SaveType /\ mem' \in MemType
      /\ save'.area = "buff"
      /\ save'.pos \in 1..(Len(mem'[save'.thread][save'.area]) + 1)
      /\ Left(mem'[save'.thread][save'.area], save'.pos) = Left(r.text, r.next)
  BY <1>1, <1>2, <1>3, <1>5, ReadHere DEF p
<1>8. parsed' \in ParsedType
  <2>1. parsed \in ParsedType
    BY <1>1 DEF ParserType
  <2>2. CASE good
    <3>1. r.token[1] \in Word
      <4>1. 1 \in 1..Len(r.token)
        BY <2>2
      <4> QED BY <1>7, <4>1, ElementOfSeq DEF Texts
    <3>2. parsed' = [parsed EXCEPT ![t].method = r.token[1]]
      BY <1>3, <2>2
    <3> QED BY <2>1, <3>1, <3>2 DEF ParsedType
  <2>3. CASE ~good
    BY <1>3, <2>1, <2>3
  <2> QED BY <2>2, <2>3
<1>9. /\ ParserType(t)' /\ ppc'[t] = label /\ label # "idle"
      /\ y = Left(r.text, r.next)
  <2>1. fresh' \in [Thread -> BOOLEAN] /\ ~fresh'[t] /\ key' \in KeyType
    BY <1>1, <1>2, <1>4 DEF ParserType
  <2>2. label \in {"fail"} \cup BuffStep
    BY DEF BuffStep
  <2> HIDE DEF label
  <2> QED BY <1>1, <1>2, <1>4, <1>6, <1>7, <1>8, <2>1, <2>2, TypeAfter
<1>10. CASE piece[t] = "rest"
  <2>1. SpacedLate(x) /\ Clear(x, {})
    BY <1>1, <1>2, <1>10 DEF LateAt
  <2>2. good => Spaced(y) /\ Clear(y, {})
    <3> HIDE DEF s, x, y
    <3>1. r.found => Spaced(y) /\ Clear(y, {})
      BY <1>7, <1>9, <2>1, LateRead
    <3> QED BY <3>1
  <2>3. LateAt(t)'
    <3> HIDE DEF good
    <3> QED BY <1>9, <2>2 DEF LateAt
  <2> QED BY <1>9, <1>10, <2>3, StillParsing
<1>11. CASE piece[t] # "rest"
  <2> DEFINE w == Whole(t)
             b == FromTarget(q)
  <2>1. /\ Comes(x, Encode(q), w)
        /\ parsed[t].headers = <<>> /\ Unlisted(t)
    BY <1>1, <1>2, <1>11 DEF Underway, AtMethod, Remains
  <2>2. Comes(x, Joined(<<q.method>>, Space, b), w)
    BY <1>1, <2>1, EncodeIs
  <2>3. b \in Texts
    <3>1. b \in Seq(TextWord)
      BY <1>1, EncodeIs
    <3> QED BY <3>1, SeqMonotonic DEF TextWord, Texts
  <2>4. q.method \in Word /\ q.method # NUL /\ q.method \notin BlankMark
    <3>1. q.method \in FormWord
      BY <1>1, RequestIs
    <3> QED BY <3>1, Zenon DEF FormWord, BlankMark
  <2>5. Space \in BlankMark /\ Space \in Word
    BY Zenon DEF Space, BlankMark, Word, Spelled, Escaped
  <2> HIDE DEF s, y, x, b, w, q
  <2>52. \/ r.found /\ r.token = <<q.method>> /\ Comes(y, b, w)
         \/ ~w /\ ~r.found /\ y = <<>>
    <3> DEFINE i == p.pos
               c == q.method
    <3>1. i \in 1..(Len(s) + 1) /\ s \in Texts /\ x = Left(s, i) /\ r = NextToken(s, i, BlankMark)
      BY <1>7
    <3>2. y = Left(r.text, r.next)
      BY <1>7, <1>9
    <3>3. Comes(x, Joined(One(c), Space, b), w)
      BY <2>2 DEF One
    <3>4. c \in Word /\ c # NUL /\ c \notin BlankMark
      BY <2>4
    <3> HIDE DEF i, c
    <3>5. \/ r.found /\ r.token = One(c) /\ Comes(y, b, w)
          \/ ~w /\ ~r.found /\ y = <<>>
      BY <1>5, <2>3, <2>5, <3>1, <3>2, <3>3, <3>4, WordRead
    <3> QED BY <3>5 DEF c, One
  <2>6. CASE good
    <3>1. r.token = <<q.method>>
      BY <2>52, <2>6
    <3>2. Comes(y, b, w)
      BY <2>52, <2>6
    <3>3. r.token[1] = q.method
      BY <3>1
    <3>4. /\ parsed'[t].method = q.method /\ parsed'[t].headers = <<>>
          /\ parsed'[t].query = <<>> /\ parsed'[t].body = <<>> /\ parsed'[t].cookies = <<>>
      <4>1. parsed' = [parsed EXCEPT ![t].method = q.method]
        BY <1>3, <2>6, <3>3
      <4> QED BY <1>1, <2>1, <4>1 DEF ParserType, ParsedType, Unlisted
    <3>5. AtPath(t)'
      <4>1. asking'[t] = q
        BY <1>1 DEF q
      <4>2. MethodOK(t)' /\ Unlisted(t)' /\ parsed'[t].headers = <<>>
        BY <2>6, <3>3, <3>4, <4>1 DEF MethodOK, Unlisted
      <4>3. Comes(Coming(t)', FromTarget(asking'[t]), Whole(t)')
        BY <1>1, <3>2, <4>1, Zenon DEF y, b, w
      <4> QED BY <4>2, <4>3, Zenon DEF AtPath, Remains
    <3>6. ppc'[t] = "path"
      BY <1>9, <2>6
    <3>7. Underway(t)'
      BY <3>5, <3>6 DEF Underway
    <3> QED BY <1>9, <1>11, <3>7, StillParsing
  <2>7. CASE ~good
    <3>1. w => q.method \notin Methods
      BY <2>52, <2>7
    <3>2. AtFail(t)'
      BY <1>1, <3>1 DEF AtFail, Good, w, q
    <3>3. ppc'[t] = "fail"
      BY <1>9, <2>7
    <3>4. Underway(t)'
      BY <3>2, <3>3 DEF Underway
    <3> QED BY <1>9, <1>11, <3>4, StillParsing
  <2> QED BY <2>6, <2>7
<1> QED BY <1>10, <1>11


\* A request line's path is put in both its places.
LEMMA PathParsed ==
    ASSUME NEW p \in ParsedType, NEW t \in Thread, NEW x \in Texts
    PROVE  [p EXCEPT ![t].path = x, ![t].uri = x] \in ParsedType
BY DEF ParsedType

\* strtok for the path (request.c:182-187).
LEMMA PathStep ==
    ASSUME NEW t, Thread = {t}, ParsingInv(t), hpc[t] = "parsing", UNCHANGED handler,
           ParsePath(t)
    PROVE  ParsingInv(t)'
<1> DEFINE q == asking[t]
           p == Place(t)
           s == mem[p.thread][p.area]
           i == p.pos
           x == Coming(t)
           y == Coming(t)'
           w == Whole(t)
<1>1. /\ ParserType(t) /\ q \in Requests /\ w \in BOOLEAN
      /\ IF piece[t] = "rest" THEN LateAt(t) ELSE Underway(t)
      /\ asking' = asking /\ piece' = piece /\ Whole(t)' = w
      /\ piece[t] = "rest" => ~w
  BY ParsingIs
<1>2. ppc[t] = "path" /\ p = save /\ ppc[t] \notin CopyStep /\ ppc[t] \in BuffStep /\ ~fresh[t]
  BY <1>1 DEF ParsePath, Place, From, CopyStep, BuffStep, ParserType
<1>3. PICK r \in Reads(p, BlankMark) :
         /\ Moves(p, r)
         /\ IF r.found /\ ~Contains(r.token, "#")
            THEN parsed' = [parsed EXCEPT ![t].path = r.token, ![t].uri = r.token]
                 /\ To(t, "version")
            ELSE To(t, "fail") /\ UNCHANGED parsed
  BY <1>2, Zenon DEF ParsePath, BlankMark
<1>4. UNCHANGED <<live, fresh, target, key>>
  BY DEF ParsePath
<1>5. NUL \notin BlankMark
  BY Zenon DEF NUL, BlankMark
<1> DEFINE good == r.found /\ ~Contains(r.token, "#")
           label == IF good THEN "version" ELSE "fail"
<1>6. ppc' = [ppc EXCEPT ![t] = label]
  BY <1>3 DEF To
<1> HIDE DEF p
<1>7. /\ s \in Texts /\ i \in 1..(Len(s) + 1) /\ Left(s, i) = x
      /\ r = NextToken(s, i, BlankMark)
      /\ r.token \in Texts /\ r.found \in BOOLEAN /\ (r.found <=> r.token # <<>>)
      /\ save' \in SaveType /\ mem' \in MemType
      /\ save'.area = "buff"
      /\ save'.pos \in 1..(Len(mem'[save'.thread][save'.area]) + 1)
      /\ Left(mem'[save'.thread][save'.area], save'.pos) = Left(r.text, r.next)
  BY <1>1, <1>2, <1>3, <1>5, ReadHere DEF p
<1>8. parsed \in ParsedType /\ parsed' \in ParsedType
  <2>1. parsed \in ParsedType
    BY <1>1 DEF ParserType
  <2>2. CASE good
    <3>1. parsed' = [parsed EXCEPT ![t].path = r.token, ![t].uri = r.token]
      BY <1>3, <2>2
    <3> DEFINE word == r.token
    <3>2. word \in Texts
      BY <1>7
    <3>3. parsed' = [parsed EXCEPT ![t].path = word, ![t].uri = word]
      BY <3>1
    <3> HIDE DEF word
    <3> QED BY <2>1, <3>2, <3>3, PathParsed
  <2>3. CASE ~good
    BY <1>3, <2>1, <2>3
  <2> QED BY <2>1, <2>2, <2>3
<1>9. /\ ParserType(t)' /\ ppc'[t] = label /\ label # "idle"
      /\ y = Left(r.text, r.next)
  <2>1. fresh' \in [Thread -> BOOLEAN] /\ ~fresh'[t] /\ key' \in KeyType
    BY <1>1, <1>2, <1>4 DEF ParserType
  <2>2. label \in {"fail"} \cup BuffStep
    BY DEF BuffStep
  <2> HIDE DEF label
  <2> QED BY <1>1, <1>2, <1>4, <1>6, <1>7, <1>8, <2>1, <2>2, TypeAfter
<1>10. CASE piece[t] = "rest"
  <2>1. Spaced(x) /\ Clear(x, {})
    BY <1>1, <1>2, <1>10 DEF LateAt
  <2>2. good => y = <<>> \/ y[1] \in AfterBlank
    <3> HIDE DEF s, i, x, y
    <3>1. r.found => y = <<>> \/ y[1] \in AfterBlank
      BY <1>7, <1>9, <2>1, LateRead
    <3> QED BY <3>1
  <2>3. LateAt(t)'
    <3> HIDE DEF good
    <3> QED BY <1>9, <2>2 DEF LateAt
  <2> QED BY <1>9, <1>10, <2>3, StillParsing
<1>11. CASE piece[t] # "rest"
  <2> DEFINE a == Target(q)
             b == FromVersion(q)
  <2>1. /\ Comes(x, FromTarget(q), w) /\ MethodOK(t)
        /\ parsed[t].headers = <<>> /\ Unlisted(t)
    BY <1>1, <1>2, <1>11 DEF Underway, AtPath, Remains
  <2>2. Comes(x, Joined(a, Space, b), w)
    BY <2>1 DEF FromTarget
  <2>3. b \in Texts
    <3>1. b \in Seq(TextWord)
      BY <1>1, EncodeIs
    <3> QED BY <3>1, SeqMonotonic DEF TextWord, Texts
  <2>4. a \in Texts /\ a # <<>> /\ Clear(a, BlankMark)
    <3>1. a \in Seq(TextWord) /\ a # <<>> /\ Clear(a, BlankMark)
      BY <1>1, TargetIs
    <3> QED BY <3>1, SeqMonotonic DEF TextWord, Texts
  <2>5. Space \in BlankMark /\ Space \in Word
    BY Zenon DEF Space, BlankMark, Word, Spelled, Escaped
  <2>6. /\ Contains(a, "#") <=> q.fragment
        /\ ~q.fragment => a = PathAndQuery(q)
    BY <1>1, TargetIs
  <2> HIDE DEF s, i, y, x, a, b, w, q
  <2>7. \/ r.found /\ r.token = a /\ Comes(y, b, w)
        \/ ~w /\ y = <<>>
    BY <1>5, <1>7, <1>9, <2>2, <2>3, <2>4, <2>5, TokenRead
  <2>8. CASE good /\ r.token = a /\ Comes(y, b, w)
    <3>1. ~q.fragment /\ r.token = PathAndQuery(q)
      BY <2>6, <2>8
    <3>2. /\ parsed'[t].path = r.token /\ parsed'[t].uri = r.token
          /\ parsed'[t].method = parsed[t].method /\ parsed'[t].headers = <<>>
          /\ parsed'[t].query = <<>> /\ parsed'[t].body = <<>> /\ parsed'[t].cookies = <<>>
      BY <1>3, <1>8, <2>1, <2>8 DEF ParsedType, Unlisted
    <3>3. MethodOK(t)' /\ Unlisted(t)'
      BY <1>1, <2>1, <3>2 DEF MethodOK, Unlisted
    <3>4. Located(t)'
      BY <1>1, <3>1, <3>2, <3>3 DEF Located, q
    <3>5. Comes(Coming(t)', FromVersion(asking'[t]), Whole(t)')
      BY <1>1, <2>8, Zenon DEF y, b, w, q
    <3>6. AtVersion(t)'
      BY <3>2, <3>3, <3>4, <3>5, Zenon DEF AtVersion, Remains
    <3>7. ppc'[t] = "version"
      BY <1>9, <2>8
    <3>8. Underway(t)'
      BY <3>6, <3>7 DEF Underway
    <3> QED BY <1>9, <1>11, <3>8, StillParsing
  <2>9. CASE good /\ ~w /\ y = <<>>
    <3>1. AtVersion(t)'
      BY <1>1, <2>9 DEF AtVersion, y, w
    <3>2. ppc'[t] = "version"
      BY <1>9, <2>9
    <3>3. Underway(t)'
      BY <3>1, <3>2 DEF Underway
    <3> QED BY <1>9, <1>11, <3>3, StillParsing
  <2>10. CASE ~good
    <3>1. w => q.fragment
      BY <2>6, <2>7, <2>10
    <3>2. AtFail(t)'
      BY <1>1, <3>1 DEF AtFail, Good, w, q
    <3>3. ppc'[t] = "fail"
      BY <1>9, <2>10
    <3>4. Underway(t)'
      BY <3>2, <3>3 DEF Underway
    <3> QED BY <1>9, <1>11, <3>4, StillParsing
  <2> QED BY <2>7, <2>8, <2>9, <2>10
<1> QED BY <1>10, <1>11


\* Before any header is parsed.
LEMMA NoneHeaded ==
    ASSUME NEW t, Whole(t)' => asking'[t].version \in Versions, parsed'[t].headers = <<>>
    PROVE  Headed(t, 1)'
<1>1. \A i \in 1..3 : Lookup(parsed'[t].headers, <<HeaderName[i]>>) = NULL
  BY LookupNothing
<1> DEFINE v(i) == HeaderValue(asking'[t], i)
<1>2. \A i \in 1..3 : (IF i < 1 /\ v(i) # <<>> THEN v(i) ELSE NULL) = NULL
  OBVIOUS
<1> QED BY <1>1, <1>2 DEF Headed

\* strtok for the version (request.c:190-194).
LEMMA VersionStep ==
    ASSUME NEW t, Thread = {t}, ParsingInv(t), hpc[t] = "parsing", UNCHANGED handler,
           ParseVersion(t)
    PROVE  ParsingInv(t)'
<1> DEFINE q == asking[t]
           p == Place(t)
           s == mem[p.thread][p.area]
           i == p.pos
           x == Coming(t)
           y == Coming(t)'
           w == Whole(t)
<1>1. /\ ParserType(t) /\ q \in Requests /\ w \in BOOLEAN
      /\ IF piece[t] = "rest" THEN LateAt(t) ELSE Underway(t)
      /\ asking' = asking /\ piece' = piece /\ Whole(t)' = w
      /\ piece[t] = "rest" => ~w
  BY ParsingIs
<1>2. ppc[t] = "version" /\ p = save /\ ppc[t] \notin CopyStep /\ ppc[t] \in BuffStep /\ ~fresh[t]
  BY <1>1 DEF ParseVersion, Place, From, CopyStep, BuffStep, ParserType
<1>3. PICK r \in Reads(p, {"LF"}) :
         Moves(p, r) /\ To(t, IF r.found /\ r.token[1] \in Versions THEN "header" ELSE "fail")
  BY <1>2 DEF ParseVersion
<1>4. UNCHANGED <<live, fresh, target, key, parsed>>
  BY DEF ParseVersion
<1>5. NUL \notin {"LF"} /\ "LF" \in {"LF"} /\ "LF" \in Word
  BY DEF NUL, Word, Spelled
<1> DEFINE good == r.found /\ r.token[1] \in Versions
           label == IF good THEN "header" ELSE "fail"
<1>6. ppc' = [ppc EXCEPT ![t] = label]
  BY <1>3 DEF To
<1> HIDE DEF p
<1>7. /\ s \in Texts /\ i \in 1..(Len(s) + 1) /\ Left(s, i) = x
      /\ r = NextToken(s, i, {"LF"})
      /\ r.token \in Texts /\ r.found \in BOOLEAN /\ (r.found <=> r.token # <<>>)
      /\ save' \in SaveType /\ mem' \in MemType
      /\ save'.area = "buff"
      /\ save'.pos \in 1..(Len(mem'[save'.thread][save'.area]) + 1)
      /\ Left(mem'[save'.thread][save'.area], save'.pos) = Left(r.text, r.next)
  BY <1>1, <1>2, <1>3, <1>5, ReadHere DEF p
<1>9. /\ ParserType(t)' /\ ppc'[t] = label /\ label # "idle"
      /\ y = Left(r.text, r.next)
  <2>1. fresh' \in [Thread -> BOOLEAN] /\ ~fresh'[t] /\ key' \in KeyType /\ parsed' \in ParsedType
    BY <1>1, <1>2, <1>4 DEF ParserType
  <2>2. label \in {"fail"} \cup BuffStep
    BY DEF BuffStep
  <2> HIDE DEF label
  <2> QED BY <1>1, <1>2, <1>4, <1>6, <1>7, <2>1, <2>2, TypeAfter
<1>91. ASSUME x = <<>> PROVE ~good
  <2>1. ~r.found
    BY <1>5, <1>7, <1>91, NothingRead
  <2> QED BY <2>1
<1>10. CASE piece[t] = "rest"
  <2>1. x = <<>> \/ x[1] \in AfterBlank
    BY <1>1, <1>2, <1>10 DEF LateAt
  <2>2. ~good
    <3>1. SUFFICES ASSUME x # <<>>, x[1] \in AfterBlank PROVE ~good
      BY <1>91, <2>1
    <3>2. x[1] # NUL /\ x[1] \notin {"LF"} /\ x[1] \notin Versions
      BY <3>1 DEF AfterBlank, NUL, Versions, FormType
    <3>3. s \in Seq(Word) /\ NUL \in Word
      BY <1>7, WordsAre DEF Texts
    <3> HIDE DEF s, i, x
    <3>4. r.token[1] = x[1]
      BY <1>5, <1>7, <3>1, <3>2, <3>3, TokenFirst
    <3> QED BY <3>2, <3>4
  <2>3. LateAt(t)'
    BY <1>9, <2>2 DEF LateAt
  <2> QED BY <1>9, <1>10, <2>3, StillParsing
<1>11. CASE piece[t] # "rest" /\ ~w /\ x = <<>>
  <2>1. AtFail(t)'
    BY <1>1, <1>11 DEF AtFail
  <2>2. ppc'[t] = "fail"
    BY <1>9, <1>11, <1>91
  <2>3. Underway(t)'
    BY <2>1, <2>2 DEF Underway
  <2> QED BY <1>9, <1>11, <2>3, StillParsing
<1>12. CASE piece[t] # "rest" /\ ~(~w /\ x = <<>>)
  <2> DEFINE a == <<q.version, "CR">>
             b == Headers(q, 1)
  <2>1. /\ Comes(x, FromVersion(q), w) /\ Located(t) /\ parsed[t].uri = parsed[t].path
        /\ parsed[t].headers = <<>> /\ Unlisted(t)
    BY <1>1, <1>2, <1>12 DEF Underway, AtVersion, Remains
  <2>2. Comes(x, Joined(a, "LF", b), w)
    BY <2>1 DEF FromVersion
  <2>3. b \in Texts
    <3>1. 1 \in 1..4
      OBVIOUS
    <3>2. b \in Seq(TextWord)
      BY <1>1, <3>1, HeadersIs
    <3> QED BY <3>2, SeqMonotonic DEF TextWord, Texts
  <2>4. a \in Texts /\ a # <<>> /\ Clear(a, {"LF"})
    <3>1. a \in Seq(TextWord) /\ Clear(a, {"LF"})
      BY <1>1, EncodeIs
    <3> QED BY <3>1, SeqMonotonic DEF TextWord, Texts
  <2>5. a[1] = q.version
    OBVIOUS
  <2> HIDE DEF s, i, y, x, a, b, w, q
  <2>7. \/ r.found /\ r.token = a /\ Comes(y, b, w)
        \/ ~w /\ y = <<>>
    BY <1>5, <1>7, <1>9, <2>2, <2>3, <2>4, TokenRead
  <2>8. CASE good
    <3>1. Comes(y, b, w)
      <4>1. b \in Seq(Word)
        BY <2>3 DEF Texts
      <4>2. ~w => Comes(<<>>, b, w)
        BY <4>1, AllComes
      <4> QED BY <2>7, <4>2
    <3>2. w => q.version \in Versions
      BY <2>5, <2>7, <2>8
    <3>3. Located(t)' /\ Unlisted(t)' /\ parsed'[t].uri = parsed'[t].path
      BY <1>1, <1>4, <2>1, Zenon DEF Located, MethodOK, Unlisted, q
    <3>4. Headed(t, 1)'
      <4>1. (Whole(t)' => asking'[t].version \in Versions) /\ parsed'[t].headers = <<>>
        BY <1>1, <1>4, <2>1, <3>2 DEF w, q
      <4> QED BY <4>1, NoneHeaded
    <3>5. Comes(Coming(t)', Headers(asking'[t], 1), Whole(t)')
      BY <1>1, <3>1, Zenon DEF y, b, w, q
    <3>6. AtHeader(t)'
      <4>1. 1 \in 1..4
        OBVIOUS
      <4> QED BY <3>3, <3>4, <3>5, <4>1, Zenon DEF AtHeader, Remains
    <3>7. ppc'[t] = "header"
      BY <1>9, <2>8
    <3>8. Underway(t)'
      BY <3>6, <3>7 DEF Underway
    <3> QED BY <1>9, <1>12, <3>8, StillParsing
  <2>10. CASE ~good
    <3>1. w => q.version \notin Versions
      BY <2>5, <2>7, <2>10
    <3>2. AtFail(t)'
      BY <1>1, <3>1 DEF AtFail, Good, w, q
    <3>3. ppc'[t] = "fail"
      BY <1>9, <2>10
    <3>4. Underway(t)'
      BY <3>2, <3>3 DEF Underway
    <3> QED BY <1>9, <1>12, <3>4, StillParsing
  <2> QED BY <2>8, <2>10
<1> QED BY <1>10, <1>11, <1>12

\* A header without a value is left out.
LEMMA HeaderLeftOut ==
    ASSUME NEW t, NEW k, asking[t] \in Requests, k \in 1..3, Headed(t, k),
           HeaderValue(asking[t], k) = <<>>
    PROVE  Headed(t, k + 1) /\ Headers(asking[t], k) = Headers(asking[t], k + 1)
<1> DEFINE v(i) == HeaderValue(asking[t], i)
           seen(i) == Lookup(parsed[t].headers, <<HeaderName[i]>>)
<1>1. k \in 1..4 /\ k \in 1..3 /\ v(k) = <<>>
  OBVIOUS
<1>2. Headers(asking[t], k) = Headers(asking[t], k + 1)
  BY <1>1, HeadersIs
<1>3. Whole(t) => /\ asking[t].version \in Versions
                  /\ \A i \in 1..3 : seen(i) = IF i < k /\ v(i) # <<>> THEN v(i) ELSE NULL
  BY DEF Headed
<1> HIDE DEF v, seen
<1>4. \A i \in 1..3 : (IF i < k + 1 /\ v(i) # <<>> THEN v(i) ELSE NULL)
                      = (IF i < k /\ v(i) # <<>> THEN v(i) ELSE NULL)
  BY <1>1
<1>5. Whole(t) => /\ asking[t].version \in Versions
                  /\ \A i \in 1..3 : seen(i) = IF i < k + 1 /\ v(i) # <<>> THEN v(i) ELSE NULL
  BY <1>3, <1>4
<1> QED BY <1>2, <1>5 DEF Headed, v, seen

\* The next header is the first one from here that has a value, if there is one.
LEMMA NextHeader ==
    ASSUME NEW t, NEW k, asking[t] \in Requests, k \in 1..4, Headed(t, k)
    PROVE  \/ \E m \in 1..3 : /\ HeaderValue(asking[t], m) # <<>> /\ Headed(t, m)
                              /\ Headers(asking[t], k) = Headers(asking[t], m)
           \/ Headed(t, 4) /\ Headers(asking[t], k) = Headers(asking[t], 4)
<1> DEFINE goal(j) ==
             \/ \E m \in 1..3 : /\ HeaderValue(asking[t], m) # <<>> /\ Headed(t, m)
                                /\ Headers(asking[t], j) = Headers(asking[t], m)
             \/ Headed(t, 4) /\ Headers(asking[t], j) = Headers(asking[t], 4)
<1>1. Headed(t, 4) => goal(4)
  OBVIOUS
<1>2. ASSUME NEW j \in 1..3, Headed(t, j + 1) => goal(j + 1)
      PROVE  Headed(t, j) => goal(j)
  <2> SUFFICES ASSUME Headed(t, j) PROVE goal(j)
    OBVIOUS
  <2>1. CASE HeaderValue(asking[t], j) # <<>>
    BY <2>1
  <2>2. CASE HeaderValue(asking[t], j) = <<>>
    <3>1. Headed(t, j + 1) /\ Headers(asking[t], j) = Headers(asking[t], j + 1)
      BY <2>2, HeaderLeftOut
    <3>2. goal(j + 1)
      BY <1>2, <3>1
    <3> QED BY <3>1, <3>2
  <2> QED BY <2>1, <2>2
<1> HIDE DEF goal
<1>3. 3 \in 1..3 /\ 2 \in 1..3 /\ 1 \in 1..3 /\ 3 + 1 = 4 /\ 2 + 1 = 3 /\ 1 + 1 = 2
  OBVIOUS
<1>4. Headed(t, 3) => goal(3)
  BY <1>1, <1>2, <1>3
<1>5. Headed(t, 2) => goal(2)
  BY <1>2, <1>3, <1>4
<1>6. Headed(t, 1) => goal(1)
  BY <1>2, <1>3, <1>5
<1>7. k = 1 \/ k = 2 \/ k = 3 \/ k = 4
  OBVIOUS
<1>8. goal(k)
  BY <1>1, <1>4, <1>5, <1>6, <1>7
<1> QED BY <1>8 DEF goal

\* What the names of the headers are, as words.
LEMMA HeaderNames ==
    ASSUME NEW m, m \in 1..3
    PROVE  HeaderName[m] \in FormWord /\ HeaderName[m] \notin {"CR", ":", "LF"}
<1>1. HeaderName[m] \in {"Connection", "Cookie", "Content-Type"}
  <2>1. m = 1 \/ m = 2 \/ m = 3
    OBVIOUS
  <2> QED BY <2>1 DEF HeaderName
<1>2. HeaderName[m] \in FormWord
  BY <1>1, WordsAre
<1> QED BY <1>1, <1>2

\* Nothing late gets behind the version.
LEMMA NotLate ==
    ASSUME NEW t, IF piece[t] = "rest" THEN LateAt(t) ELSE Underway(t),
           ppc[t] \notin {"method", "path", "version", "fail"}
    PROVE  piece[t] # "rest" /\ Underway(t)
BY DEF LateAt

\* What is parsed of a request that has come in part.
LEMMA BodyReached ==
    ASSUME NEW t, Located(t)', Unlisted(t)', parsed'[t].uri = parsed'[t].path, Headed(t, 4)',
           Comes(Coming(t)', Fielded(asking'[t].form), Whole(t)')
    PROVE  AtBody(t)'
BY Zenon DEF AtBody, Remains

\* strtok for the name of a header, or for the blank line (request.c:7-28).
LEMMA HeaderNameStep ==
    ASSUME NEW t, Thread = {t}, ParsingInv(t), hpc[t] = "parsing", UNCHANGED handler,
           ParseHeaderName(t)
    PROVE  ParsingInv(t)'
<1> DEFINE q == asking[t]
           p == Place(t)
           s == mem[p.thread][p.area]
           i == p.pos
           x == Coming(t)
           y == Coming(t)'
           w == Whole(t)
           colon == {":", "LF"}
<1>1. /\ ParserType(t) /\ q \in Requests /\ w \in BOOLEAN
      /\ IF piece[t] = "rest" THEN LateAt(t) ELSE Underway(t)
      /\ asking' = asking /\ piece' = piece /\ Whole(t)' = w
  BY ParsingIs
<1>2. ppc[t] = "header" /\ p = save /\ ppc[t] \notin CopyStep /\ ppc[t] \in BuffStep /\ ~fresh[t]
  BY <1>1 DEF ParseHeaderName, Place, From, CopyStep, BuffStep, ParserType
<1>3. PICK r \in Reads(p, colon) :
         /\ Moves(p, r)
         /\ IF r.found /\ r.token[1] # "CR"
            THEN key' = [key EXCEPT ![t] = r.token] /\ To(t, "headerValue")
            ELSE To(t, "body") /\ UNCHANGED key
  BY <1>2, Zenon DEF ParseHeaderName
<1>4. UNCHANGED <<live, fresh, target, parsed>>
  BY DEF ParseHeaderName
<1>5. NUL \notin colon /\ ":" \in colon /\ "LF" \in colon /\ ":" \in Word /\ "LF" \in Word
  BY DEF NUL, Word, Spelled
<1> DEFINE good == r.found /\ r.token[1] # "CR"
           label == IF good THEN "headerValue" ELSE "body"
<1>6. ppc' = [ppc EXCEPT ![t] = label]
  BY <1>3 DEF To
<1> HIDE DEF p, colon
<1>7. /\ s \in Texts /\ i \in 1..(Len(s) + 1) /\ Left(s, i) = x
      /\ r = NextToken(s, i, colon)
      /\ r.token \in Texts /\ r.found \in BOOLEAN /\ (r.found <=> r.token # <<>>)
      /\ save' \in SaveType /\ mem' \in MemType
      /\ save'.area = "buff"
      /\ save'.pos \in 1..(Len(mem'[save'.thread][save'.area]) + 1)
      /\ Left(mem'[save'.thread][save'.area], save'.pos) = Left(r.text, r.next)
  BY <1>1, <1>2, <1>3, <1>5, ReadHere DEF p
<1>8. key' \in KeyType /\ (good => key'[t] = r.token) /\ parsed' \in ParsedType
  <2>1. key \in KeyType /\ parsed \in ParsedType
    BY <1>1 DEF ParserType
  <2>2. key' = key \/ key' = [key EXCEPT ![t] = r.token]
    BY <1>3
  <2>3. key' \in KeyType
    BY <1>7, <2>1, <2>2 DEF KeyType
  <2>4. good => key'[t] = r.token
    BY <1>3, <2>1 DEF KeyType
  <2> QED BY <1>4, <2>1, <2>3, <2>4
<1>9. /\ ParserType(t)' /\ ppc'[t] = label /\ label # "idle"
      /\ y = Left(r.text, r.next)
  <2>1. fresh' \in [Thread -> BOOLEAN] /\ ~fresh'[t]
    BY <1>1, <1>2, <1>4 DEF ParserType
  <2>2. label \in {"fail"} \cup BuffStep
    BY DEF BuffStep
  <2> HIDE DEF label
  <2> QED BY <1>1, <1>2, <1>4, <1>6, <1>7, <1>8, <2>1, <2>2, TypeAfter
<1>10. piece[t] # "rest" /\ Underway(t)
  BY <1>1, <1>2, NotLate
<1>11. /\ Located(t) /\ parsed[t].uri = parsed[t].path /\ Unlisted(t)
       /\ \E k \in 1..4 : Headed(t, k) /\ Comes(x, Headers(q, k), w)
  BY <1>2, <1>10, Zenon DEF Underway, AtHeader, Remains
<1>12. Located(t)' /\ parsed'[t].uri = parsed'[t].path /\ Unlisted(t)'
  BY <1>1, <1>4, <1>11, Zenon DEF Located, MethodOK, Unlisted
<1>13. PICK k \in 1..4 : Headed(t, k) /\ Comes(x, Headers(q, k), w)
  BY <1>11
<1>14. \A m : Headed(t, m) => Headed(t, m)'
  BY <1>1, <1>4 DEF Headed
<1> DEFINE form == Fielded(q.form)
<1>15. form \in Texts
  <2>1. q.form \in Fields
    BY <1>1, RequestIs
  <2>2. form \in Seq(FormWord)
    BY <2>1, FieldedIs
  <2>3. FormWord \subseteq Word
    BY WordsAre
  <2> QED BY <2>2, <2>3, SeqMonotonic DEF Texts
<1> HIDE DEF s, i, x, y, w, q, form
<1>16. ASSUME ~w, y = <<>>, ~good PROVE AtBody(t)'
  <2>1. form \in Seq(Word)
    BY <1>15 DEF Texts
  <2>2. Comes(y, form, w)
    BY <1>16, <2>1, AllComes
  <2>3. Headed(t, 4)'
    BY <1>1, <1>16 DEF Headed, w
  <2>4. Comes(Coming(t)', Fielded(asking'[t].form), Whole(t)')
    BY <1>1, <2>2, Zenon DEF y, w, q, form
  <2> QED BY <1>12, <2>3, <2>4, BodyReached
<1>17. ASSUME NEW m \in 1..3, HeaderValue(q, m) # <<>>, Headed(t, m), Headers(q, k) = Headers(q, m)
       PROVE  Underway(t)'
  <2> DEFINE v == HeaderValue(q, m)
             b == Joined(HeaderLine(v), "LF", Headers(q, m + 1))
             c == HeaderName[m]
  <2>1. Headers(q, m) = Joined(<<c>>, ":", b)
    <3>1. m \in 1..4 /\ q \in Requests
      BY <1>1 DEF q
    <3> QED BY <1>17, <3>1, HeadersIs
  <2>2. b \in Texts
    <3>1. q \in Requests /\ m + 1 \in 1..4
      BY <1>1 DEF q
    <3>2. v \in Seq(FormWord)
      BY <3>1, ValueIs
    <3>3. HeaderLine(v) \in Seq(LineWord)
      BY <3>2, LineIs
    <3>4. HeaderLine(v) \in Seq(TextWord)
      <4>1. LineWord \subseteq TextWord
        <5>1. FormWord \subseteq TextWord /\ {" ", "CR"} \subseteq TextWord
          BY WordsAre, Zenon
        <5> QED BY <5>1, Zenon DEF LineWord
      <4> QED BY <3>3, <4>1, SeqMonotonic
    <3>5. Headers(q, m + 1) \in Seq(TextWord)
      BY <3>1, HeadersIs
    <3>6. "LF" \in TextWord /\ TextWord \subseteq Word
      BY WordsAre
    <3>7. b \in Seq(TextWord)
      BY <3>4, <3>5, <3>6, JoinedIs
    <3> QED BY <3>6, <3>7, SeqMonotonic DEF Texts
  <2>3. c \in Word /\ c # NUL /\ c \notin colon /\ c # "CR"
    BY HeaderNames, WordsAre DEF colon, FormWord
  <2>4. Comes(x, Joined(One(c), ":", b), w)
    BY <1>13, <1>17, <2>1 DEF One
  <2> HIDE DEF b, c, v
  <2>5. \/ r.found /\ r.token = One(c) /\ Comes(y, b, w)
        \/ ~w /\ ~r.found /\ y = <<>>
    BY <1>5, <1>7, <1>9, <2>2, <2>3, <2>4, WordRead
  <2>6. CASE r.found /\ r.token = One(c) /\ Comes(y, b, w)
    <3>1. r.token[1] = c /\ good
      BY <2>3, <2>6 DEF One
    <3>2. ppc'[t] = "headerValue"
      BY <1>9, <3>1
    <3>3. key'[t] = <<c>>
      BY <1>8, <2>6, <3>1 DEF One
    <3>4. HeaderValue(asking'[t], m) # <<>> /\ Headed(t, m)' /\ key'[t] = <<HeaderName[m]>>
      BY <1>1, <1>14, <1>17, <3>3 DEF q, c
    <3>5. Comes(Coming(t)', Joined(HeaderLine(HeaderValue(asking'[t], m)), "LF",
                                   Headers(asking'[t], m + 1)), Whole(t)')
      BY <1>1, <2>6, Zenon DEF y, w, q, b, v
    <3>6. AtHeaderValue(t)'
      BY <1>12, <3>4, <3>5, Zenon DEF AtHeaderValue, Remains
    <3> QED BY <3>2, <3>6 DEF Underway
  <2>7. CASE ~w /\ ~r.found /\ y = <<>>
    <3>1. ~good
      BY <2>7
    <3>2. AtBody(t)' /\ ppc'[t] = "body"
      BY <1>9, <1>16, <2>7, <3>1
    <3> QED BY <3>2 DEF Underway
  <2> QED BY <2>5, <2>6, <2>7
<1>18. ASSUME Headed(t, 4), Headers(q, k) = Headers(q, 4)
       PROVE  Underway(t)'
  <2> DEFINE c == "CR"
  <2>1. Headers(q, 4) = Joined(<<c>>, "LF", form)
    <3>1. q \in Requests /\ 4 \in 1..4
      BY <1>1 DEF q
    <3> QED BY <3>1, HeadersIs DEF form
  <2>2. Comes(x, Joined(One(c), "LF", form), w)
    BY <1>13, <1>18, <2>1 DEF One
  <2>3. c \in Word /\ c # NUL /\ c \notin colon
    BY DEF Word, Spelled, NUL, colon
  <2>31. c = "CR"
    OBVIOUS
  <2> HIDE DEF c
  <2>4. \/ r.found /\ r.token = One(c) /\ Comes(y, form, w)
        \/ ~w /\ ~r.found /\ y = <<>>
    BY <1>5, <1>7, <1>9, <1>15, <2>2, <2>3, WordRead
  <2>5. ~good
    <3>1. r.token = One(c) => r.token[1] = "CR"
      BY <2>31 DEF One
    <3> QED BY <2>4, <3>1
  <2>6. CASE r.found /\ r.token = One(c) /\ Comes(y, form, w)
    <3>1. Headed(t, 4)'
      BY <1>14, <1>18
    <3>2. Comes(Coming(t)', Fielded(asking'[t].form), Whole(t)')
      BY <1>1, <2>6, Zenon DEF y, w, q, form
    <3>3. AtBody(t)' /\ ppc'[t] = "body"
      BY <1>9, <1>12, <2>5, <3>1, <3>2, BodyReached
    <3> QED BY <3>3 DEF Underway
  <2>7. CASE ~w /\ ~r.found /\ y = <<>>
    <3>1. AtBody(t)' /\ ppc'[t] = "body"
      BY <1>9, <1>16, <2>5, <2>7
    <3> QED BY <3>1 DEF Underway
  <2> QED BY <2>4, <2>6, <2>7
<1>19. Underway(t)'
  <2>1. \/ \E m \in 1..3 : /\ HeaderValue(q, m) # <<>> /\ Headed(t, m)
                           /\ Headers(q, k) = Headers(q, m)
        \/ Headed(t, 4) /\ Headers(q, k) = Headers(q, 4)
    BY <1>1, <1>13, NextHeader DEF q
  <2> QED BY <1>17, <1>18, <2>1
<1> QED BY <1>9, <1>10, <1>19, StillParsing

\* What is left of a line without its ends is a text.
LEMMA StrippedIs ==
    ASSUME NEW s, s \in Texts
    PROVE  Stripped(s) \in Texts
<1> DEFINE blank == s[1] = " "
           return == s[Len(s)] = "CR"
           from == IF blank THEN 2 ELSE 1
           to == IF return THEN Len(s) - 1 ELSE Len(s)
<1>1. Stripped(s) = SubSeq(s, from, to)
  BY Zenon DEF Stripped
<1> HIDE DEF blank, return
<1>2. Len(s) \in Nat
  BY LenProperties DEF Texts
<1>3. from \in Int /\ to \in Int /\ from >= 1 /\ to <= Len(s)
  BY <1>2
<1> HIDE DEF from, to
<1>4. \A i \in from..to : i \in 1..Len(s)
  BY <1>2, <1>3
<1>5. \A i \in from..to : s[i] \in Word
  BY <1>4, ElementOfSeq DEF Texts
<1>6. SubSeq(s, from, to) \in Seq(Word)
  BY <1>3, <1>5, SubSeqProperties
<1> QED BY <1>1, <1>6 DEF Texts

\* One more header is there, and the others are as they were.
LEMMA HeadedNext ==
    ASSUME NEW t, NEW k, k \in 1..3, Headed(t, k), NEW name, NEW v,
           parsed[t].headers \in PairList, name \in Texts, v \in Texts,
           v = HeaderValue(asking[t], k), v # <<>>,
           Whole(t) => name = <<HeaderName[k]>>, asking' = asking, piece' = piece,
           parsed'[t].headers = AddPair(name, v, parsed[t].headers)
    PROVE  Headed(t, k + 1)'
<1> SUFFICES ASSUME Whole(t)
             PROVE  /\ asking[t].version \in Versions
                    /\ \A i \in 1..3 :
                          LET value == HeaderValue(asking[t], i)
                          IN  Lookup(parsed'[t].headers, <<HeaderName[i]>>) =
                                  IF i < k + 1 /\ value # <<>> THEN value ELSE NULL
  BY DEF Headed, Whole
<1>1. asking[t].version \in Versions
  BY DEF Headed
<1> DEFINE list == parsed[t].headers
           K(i) == <<HeaderName[i]>>
           u(i) == HeaderValue(asking[t], i)
<1>2. \A i \in 1..3 : Lookup(list, K(i)) = IF i < k /\ u(i) # <<>> THEN u(i) ELSE NULL
  BY DEF Headed
<1>3. list \in Seq(Texts \X Texts) /\ <<name, v>> \in Texts \X Texts
  BY DEF PairList
<1>4. name = K(k) /\ v = u(k)
  OBVIOUS
<1>5. \A i \in 1..3 : i # k => K(i) # K(k)
  BY DEF HeaderName
<1> HIDE DEF K, u, list
<1>6. Lookup(AddPair(name, v, list), K(k)) = v
  BY <1>3, <1>4, LookupFirst
<1>7. \A i \in 1..3 : i # k => Lookup(AddPair(name, v, list), K(i)) = Lookup(list, K(i))
  <2> TAKE i \in 1..3
  <2> HAVE i # k
  <2> DEFINE l == K(i)
             key1 == K(k)
  <2>1. l # key1
    BY <1>5
  <2>2. <<key1, v>> \in Texts \X Texts
    BY <1>3, <1>4
  <2> HIDE DEF l, key1
  <2>3. Lookup(AddPair(key1, v, list), l) = Lookup(list, l)
    BY <1>3, <2>1, <2>2, LookupOther
  <2> QED BY <1>4, <2>3 DEF l, key1
<1>8. \A i \in 1..3 : Lookup(AddPair(name, v, list), K(i)) =
          IF i < k + 1 /\ u(i) # <<>> THEN u(i) ELSE NULL
  <2> TAKE i \in 1..3
  <2>1. CASE i = k
    BY <1>4, <1>6, <2>1
  <2>2. CASE i # k
    <3>1. Lookup(AddPair(name, v, list), K(i)) = Lookup(list, K(i))
      BY <1>7, <2>2
    <3>2. i < k + 1 <=> i < k
      BY <2>2
    <3> QED BY <1>2, <3>1, <3>2
  <2> QED BY <2>1, <2>2
<1> QED BY <1>1, <1>8 DEF K, u, list

\* strtok for the value of a header (request.c:29-43).
LEMMA HeaderValueStep ==
    ASSUME NEW t, Thread = {t}, ParsingInv(t), hpc[t] = "parsing", UNCHANGED handler,
           ParseHeaderValue(t)
    PROVE  ParsingInv(t)'
<1> DEFINE q == asking[t]
           p == Place(t)
           s == mem[p.thread][p.area]
           i == p.pos
           x == Coming(t)
           y == Coming(t)'
           w == Whole(t)
           feed == {"LF"}
<1>1. /\ ParserType(t) /\ q \in Requests /\ w \in BOOLEAN
      /\ IF piece[t] = "rest" THEN LateAt(t) ELSE Underway(t)
      /\ asking' = asking /\ piece' = piece /\ Whole(t)' = w
  BY ParsingIs
<1>2. ppc[t] = "headerValue" /\ p = save /\ ppc[t] \notin CopyStep /\ ppc[t] \in BuffStep /\ ~fresh[t]
  BY <1>1 DEF ParseHeaderValue, Place, From, CopyStep, BuffStep, ParserType
<1>3. PICK r \in Reads(p, feed) :
         /\ Moves(p, r)
         /\ IF r.found
            THEN /\ parsed' = [parsed EXCEPT ![t].headers = AddPair(key[t], Stripped(r.token), @)]
                 /\ To(t, "header")
            ELSE To(t, "body") /\ UNCHANGED parsed
  BY <1>2, Zenon DEF ParseHeaderValue
<1>4. UNCHANGED <<live, fresh, target, key>>
  BY DEF ParseHeaderValue
<1>5. NUL \notin feed /\ "LF" \in feed /\ "LF" \in Word
  BY DEF NUL, Word, Spelled
<1> DEFINE label == IF r.found THEN "header" ELSE "body"
<1>6. ppc' = [ppc EXCEPT ![t] = label]
  BY <1>3 DEF To
<1> HIDE DEF p, feed
<1>7. /\ s \in Texts /\ i \in 1..(Len(s) + 1) /\ Left(s, i) = x
      /\ r = NextToken(s, i, feed)
      /\ r.token \in Texts /\ r.found \in BOOLEAN /\ (r.found <=> r.token # <<>>)
      /\ save' \in SaveType /\ mem' \in MemType
      /\ save'.area = "buff"
      /\ save'.pos \in 1..(Len(mem'[save'.thread][save'.area]) + 1)
      /\ Left(mem'[save'.thread][save'.area], save'.pos) = Left(r.text, r.next)
  BY <1>1, <1>2, <1>3, <1>5, ReadHere DEF p
<1> DEFINE value == Stripped(r.token)
           list == AddPair(key[t], value, parsed[t].headers)
<1>80. key[t] \in Texts /\ value \in Texts /\ parsed[t].headers \in PairList
  <2>1. key \in KeyType /\ parsed \in ParsedType
    BY <1>1 DEF ParserType
  <2>2. value \in Texts
    BY <1>7, StrippedIs
  <2> QED BY <2>1, <2>2 DEF KeyType, ParsedType
<1>81. list \in PairList
  <2> HIDE DEF value
  <2>1. <<key[t], value>> \in Texts \X Texts
    BY <1>80
  <2> QED BY <1>80, <2>1, AddPairIs DEF PairList
<1>8. parsed' \in ParsedType /\ parsed'[t].method = parsed[t].method
      /\ parsed'[t].path = parsed[t].path /\ parsed'[t].uri = parsed[t].uri
      /\ parsed'[t].query = parsed[t].query /\ parsed'[t].body = parsed[t].body
      /\ parsed'[t].cookies = parsed[t].cookies
      /\ (r.found => parsed'[t].headers = list)
  <2>1. parsed \in ParsedType
    BY <1>1 DEF ParserType
  <2>2. r.found => parsed' = [parsed EXCEPT ![t].headers = list]
    BY <1>3
  <2>3. ~r.found => parsed' = parsed
    BY <1>3
  <2> HIDE DEF list
  <2>4. CASE r.found
    BY <1>81, <2>1, <2>2, <2>4 DEF ParsedType
  <2>5. CASE ~r.found
    BY <2>1, <2>3, <2>5
  <2> QED BY <2>4, <2>5
<1> HIDE DEF list, value
<1>9. /\ ParserType(t)' /\ ppc'[t] = label /\ label # "idle"
      /\ y = Left(r.text, r.next)
  <2>1. fresh' \in [Thread -> BOOLEAN] /\ ~fresh'[t] /\ key' \in KeyType
    BY <1>1, <1>2, <1>4 DEF ParserType
  <2>2. label \in {"fail"} \cup BuffStep
    BY DEF BuffStep
  <2> HIDE DEF label
  <2> QED BY <1>1, <1>2, <1>4, <1>6, <1>7, <1>8, <2>1, <2>2, TypeAfter
<1>10. piece[t] # "rest" /\ Underway(t)
  BY <1>1, <1>2, NotLate
<1>11. AtHeaderValue(t)
  BY <1>2, <1>10 DEF Underway
<1>12. Located(t)' /\ parsed'[t].uri = parsed'[t].path /\ Unlisted(t)'
  BY <1>1, <1>8, <1>11, Zenon DEF Located, MethodOK, Unlisted, AtHeaderValue
<1>13. PICK k \in 1..3 :
          /\ HeaderValue(q, k) # <<>> /\ Headed(t, k)
          /\ w => key[t] = <<HeaderName[k]>>
          /\ Comes(x, Joined(HeaderLine(HeaderValue(q, k)), "LF", Headers(q, k + 1)), w)
  BY <1>11, Zenon DEF AtHeaderValue, Remains
<1> DEFINE v == HeaderValue(q, k)
           a == HeaderLine(v)
           b == Headers(q, k + 1)
           form == Fielded(q.form)
           last == Headers(q, 4)
<1>14. form \in Texts
  <2>1. q.form \in Fields
    BY <1>1, RequestIs
  <2>2. form \in Seq(FormWord)
    BY <2>1, FieldedIs
  <2>3. FormWord \subseteq Word
    BY WordsAre
  <2> QED BY <2>2, <2>3, SeqMonotonic DEF Texts
<1>15. v \in Seq(FormWord)
  BY <1>1, ValueIs
<1>16. a \in Texts /\ a # <<>> /\ Clear(a, feed) /\ Stripped(a) = v
  <2>1. a \in Seq(LineWord) /\ a # <<>> /\ Stripped(a) = v
    BY <1>15, LineIs
  <2>2. \A c \in LineWord : c \in Word /\ c \notin feed /\ c # NUL
    <3>1. \A c \in FormWord : c \in Word /\ c \notin feed /\ c # NUL
      BY Zenon DEF FormWord, feed
    <3>2. " " \in Word /\ " " \notin feed /\ " " # NUL
      BY WordsAre, Zenon DEF Word, Spelled, Escaped, feed, NUL
    <3>3. "CR" \in Word /\ "CR" \notin feed /\ "CR" # NUL
      BY Zenon DEF Word, Spelled, feed, NUL
    <3> QED BY <3>1, <3>2, <3>3, Zenon DEF LineWord
  <2>3. Clear(a, feed)
    BY <2>1, <2>2, ClearIs
  <2>4. LineWord \subseteq Word
    BY <2>2
  <2> QED BY <2>1, <2>3, <2>4, SeqMonotonic DEF Texts
<1>17. b \in Texts /\ last \in Texts
  <2>1. k + 1 \in 1..4 /\ 4 \in 1..4
    OBVIOUS
  <2>2. b \in Seq(TextWord) /\ last \in Seq(TextWord)
    BY <1>1, <2>1, HeadersIs
  <2> QED BY <2>2, SeqMonotonic DEF TextWord, Texts
<1>18. Comes(x, Joined(a, "LF", b), w) /\ v # <<>>
  BY <1>13
<1> HIDE DEF s, i, x, y, w, q, form, v, a, b, last
<1>19. \/ r.found /\ r.token = a /\ Comes(y, b, w)
       \/ ~w /\ y = <<>>
  BY <1>5, <1>7, <1>9, <1>16, <1>17, <1>18, TokenRead
<1>20. CASE r.found /\ r.token = a /\ Comes(y, b, w)
  <2>1. value = v
    BY <1>16, <1>20 DEF value
  <2>2. Headed(t, k + 1)'
    <3>1. parsed'[t].headers = AddPair(key[t], v, parsed[t].headers)
      BY <1>8, <1>20, <2>1 DEF list
    <3>2. v \in Texts /\ v = HeaderValue(asking[t], k) /\ v # <<>>
      BY <1>80, <1>18, <2>1 DEF v, q
    <3>3. Whole(t) => key[t] = <<HeaderName[k]>>
      BY <1>13 DEF w
    <3>4. k \in 1..3 /\ Headed(t, k) /\ asking' = asking /\ piece' = piece
      BY <1>1, <1>13
    <3> QED BY <1>80, <3>1, <3>2, <3>3, <3>4, HeadedNext
  <2>3. Comes(Coming(t)', Headers(asking'[t], k + 1), Whole(t)')
    BY <1>1, <1>20, Zenon DEF y, w, q, b
  <2>4. k + 1 \in 1..4
    OBVIOUS
  <2>5. AtHeader(t)'
    BY <1>12, <2>2, <2>3, <2>4, Zenon DEF AtHeader, Remains
  <2>6. ppc'[t] = "header"
    BY <1>9, <1>20
  <2>7. Underway(t)'
    BY <2>5, <2>6 DEF Underway
  <2> QED BY <1>9, <1>10, <2>7, StillParsing
<1>21. CASE ~w /\ y = <<>>
  <2>1. Headed(t, 4)'
    BY <1>1, <1>21 DEF Headed, w
  <2>2. Comes(y, form, w) /\ Comes(y, last, w)
    BY <1>14, <1>17, <1>21, AllComes DEF Texts
  <2>3. CASE r.found
    <3>1. Comes(Coming(t)', Headers(asking'[t], 4), Whole(t)')
      BY <1>1, <2>2, Zenon DEF y, w, q, last
    <3>2. 4 \in 1..4
      OBVIOUS
    <3>3. AtHeader(t)'
      BY <1>12, <2>1, <3>1, <3>2, Zenon DEF AtHeader, Remains
    <3>4. ppc'[t] = "header"
      BY <1>9, <2>3
    <3>5. Underway(t)'
      BY <3>3, <3>4 DEF Underway
    <3> QED BY <1>9, <1>10, <3>5, StillParsing
  <2>4. CASE ~r.found
    <3>1. Comes(Coming(t)', Fielded(asking'[t].form), Whole(t)')
      BY <1>1, <2>2, Zenon DEF y, w, q, form
    <3>2. AtBody(t)'
      BY <1>12, <2>1, <3>1, BodyReached
    <3>3. ppc'[t] = "body"
      BY <1>9, <2>4
    <3>4. Underway(t)'
      BY <3>2, <3>3 DEF Underway
    <3> QED BY <1>9, <1>10, <3>4, StillParsing
  <2> QED BY <1>7, <2>3, <2>4
<1> QED BY <1>19, <1>20, <1>21

\* The parser's types when it leaves the texts alone from here on.
LEMMA TypeElse ==
    ASSUME NEW t, Thread = {t}, ParserType(t),
           NEW label, ppc' = [ppc EXCEPT ![t] = label],
           label \in {"query", "cookies", "parsed", "fail"},
           save' \in SaveType, mem' \in MemType,
           live' \in [Thread -> SUBSET {"buff", "copy"}], "buff" \in live'[t],
           DOMAIN target' = Thread, fresh' \in [Thread -> BOOLEAN], ~fresh'[t],
           key' \in KeyType, parsed' \in ParsedType
    PROVE  ParserType(t)' /\ ppc'[t] = label
<1>1. DOMAIN ppc = Thread
  BY DEF ParserType
<1>2. ppc'[t] = label /\ DOMAIN ppc' = Thread
  BY <1>1
<1>3. ppc'[t] \notin CopyStep /\ ppc'[t] \notin BuffStep
  BY <1>2 DEF CopyStep, BuffStep
<1>4. SaveOK(t)'
  BY <1>3 DEF SaveOK
<1> QED BY <1>2, <1>4 DEF ParserType

\* The parser's types when it begins with a copy of a text.
LEMMA CopyBegins ==
    ASSUME NEW t, Thread = {t}, ParserType(t), ppc[t] # "idle",
           NEW label, ppc' = [ppc EXCEPT ![t] = label], label \in {"pairKey", "cookieKey"},
           NEW text, text \in Texts, mem' = [mem EXCEPT ![t].copy = text],
           save' \in SaveType, live' = [live EXCEPT ![t] = @ \cup {"copy"}],
           DOMAIN target' = Thread, fresh' = [fresh EXCEPT ![t] = TRUE],
           key' = key, parsed' \in ParsedType
    PROVE  ParserType(t)' /\ ppc'[t] = label /\ Coming(t)' = text
<1>1. /\ DOMAIN ppc = Thread /\ live \in [Thread -> SUBSET {"buff", "copy"}]
      /\ fresh \in [Thread -> BOOLEAN] /\ mem \in MemType /\ key \in KeyType
      /\ "buff" \in live[t]
  BY DEF ParserType, SaveOK
<1>2. ppc'[t] = label /\ DOMAIN ppc' = Thread
  BY <1>1
<1>3. label \in CopyStep /\ label \notin BuffStep /\ label # "method"
  BY DEF CopyStep, BuffStep
<1>4. fresh' \in [Thread -> BOOLEAN] /\ fresh'[t] = TRUE
  BY <1>1
<1>5. /\ live' \in [Thread -> SUBSET {"buff", "copy"}]
      /\ "buff" \in live'[t] /\ "copy" \in live'[t]
  BY <1>1
<1>6. mem' \in MemType /\ mem'[t].copy = text
  BY <1>1 DEF MemType, TextType
<1>7. Place(t)' = [thread |-> t, area |-> "copy", pos |-> 1]
  BY <1>2, <1>3, <1>4 DEF Place, From, Start
<1>8. Coming(t)' = Left(text, 1)
  BY <1>6, <1>7 DEF Coming
<1>9. Left(text, 1) = text /\ Len(text) \in Nat
  BY SubSeqFull, LenProperties DEF Left, Texts
<1>10. SaveOK(t)'
  <2>1. Place(t)'.area = "copy" /\ Place(t)'.pos = 1
    BY <1>7
  <2>2. mem'[Place(t)'.thread][Place(t)'.area] = text
    BY <1>6, <1>7
  <2>3. Place(t)'.pos \in 1..(Len(mem'[Place(t)'.thread][Place(t)'.area]) + 1)
    BY <1>9, <2>1, <2>2
  <2> QED BY <1>2, <1>3, <1>5, <2>1, <2>3 DEF SaveOK
<1> QED BY <1>1, <1>2, <1>4, <1>5, <1>6, <1>8, <1>9, <1>10 DEF ParserType

\* All the fields are ahead of parseQS when it begins.
LEMMA KeysAhead ==
    ASSUME NEW F, NEW x, NEW w, F \in Fields, Comes(x, Fielded(F), w)
    PROVE  KeyAhead(x, F, <<>>, w)
<1> DEFINE no == FALSE
<1>1. no \in BOOLEAN /\ ~no
  OBVIOUS
<1> HIDE DEF no
<1>2. NextFields(F, 0, no) = Fielded(F)
  <2>1. NextFields(F, 0, no) = Bare(F, 0)
    BY <1>1 DEF NextFields
  <2> QED BY <2>1, FieldedIs
<1>3. Comes(x, NextFields(F, 0, no), w)
  BY <1>2
<1>4. PairsUpto(F, 0, <<>>)
  BY PairsNone
<1>5. 0 \in 0..Len(F)
  BY LenProperties DEF Fields
<1> QED BY <1>1, <1>3, <1>4, <1>5 DEF KeyAhead

\* What a request without a form has of it.
LEMMA FormNone ==
    ASSUME NEW F, NEW w, F \in Fields, w => F = <<>>
    PROVE  PairsOf(F, <<>>, w)
<1>1. PairsUpto(F, 0, <<>>)
  BY PairsNone
<1>2. CASE w
  BY <1>1, <1>2 DEF PairsOf
<1>3. CASE ~w
  <2>1. 0 \in 0..Len(F)
    BY LenProperties DEF Fields
  <2>2. NoHole(F) => FirstFields(F, <<>>)
    BY <1>1, <2>1, FirstPairs
  <2> QED BY <1>3, <2>2 DEF PairsOf
<1> QED BY <1>2, <1>3

\* The headers of a request that has come whole.
LEMMA HeaderIs ==
    ASSUME NEW t, asking[t] \in Requests, Headed(t, 4), Whole(t)
    PROVE  LET q == asking[t]
               h == parsed[t].headers
           IN  /\ q.version \in Versions
               /\ Lookup(h, <<"Connection">>) = IF q.keepAlive THEN <<"keep-alive">> ELSE NULL
               /\ Lookup(h, <<"Cookie">>) = IF q.sid # NULL THEN <<"sid", "=", q.sid>> ELSE NULL
               /\ Lookup(h, <<"Content-Type">>) = IF q.form # <<>> THEN <<FormType>> ELSE NULL
               /\ <<"keep-alive">> # NULL /\ <<FormType>> # NULL
               /\ q.sid # NULL => <<"sid", "=", q.sid>> # NULL
<1> DEFINE q == asking[t]
           h == parsed[t].headers
           v(i) == HeaderValue(q, i)
<1>1. q.version \in Versions
  BY DEF Headed
<1>2. \A i \in 1..3 : Lookup(h, <<HeaderName[i]>>) = IF v(i) # <<>> THEN v(i) ELSE NULL
  <2>1. \A i \in 1..3 : Lookup(h, <<HeaderName[i]>>) =
                            IF i < 4 /\ v(i) # <<>> THEN v(i) ELSE NULL
    BY DEF Headed
  <2> HIDE DEF v
  <2> QED BY <2>1
<1>3. /\ v(1) = When(q.keepAlive, <<"keep-alive">>)
      /\ v(2) = When(q.sid # NULL, <<"sid", "=", q.sid>>)
      /\ v(3) = When(q.form # <<>>, <<FormType>>)
  BY DEF HeaderValue
<1>4. HeaderName[1] = "Connection" /\ HeaderName[2] = "Cookie" /\ HeaderName[3] = "Content-Type"
  BY DEF HeaderName
<1> DEFINE S == STRING
<1>50. NULL \notin Seq(S) /\ {"keep-alive", "sid", "=", FormType} \subseteq S /\ STRING \subseteq S
  <2>1. {"keep-alive", "sid", "=", FormType} \subseteq Literal
    BY Zenon DEF Literal, Marks
  <2> QED BY <2>1, WordsAssumption, LiteralAssumption
<1> HIDE DEF S
<1>5. <<"keep-alive">> # NULL /\ <<FormType>> # NULL
  <2>1. <<"keep-alive">> \in Seq(S) /\ <<FormType>> \in Seq(S)
    BY <1>50
  <2> QED BY <1>50, <2>1
<1>6. q.sid # NULL => <<"sid", "=", q.sid>> # NULL
  <2>1. q.sid # NULL => q.sid \in STRING
    <3>1. q.sid \in PlainWord \cup {NULL}
      BY RequestIs
    <3> QED BY <3>1 DEF PlainWord
  <2>2. ASSUME q.sid # NULL PROVE <<"sid", "=", q.sid>> \in Seq(S)
    <3>1. q.sid \in S /\ "sid" \in S /\ "=" \in S
      BY <1>50, <2>1, <2>2
    <3> DEFINE a == "sid"
               b == "="
               c == q.sid
    <3>2. a \in S /\ b \in S /\ c \in S
      BY <3>1
    <3> HIDE DEF a, b, c
    <3>3. <<a, b, c>> \in Seq(S)
      BY <3>2
    <3> QED BY <3>3 DEF a, b, c
  <2> QED BY <1>50, <2>2
<1> HIDE DEF v, h
<1>7. Lookup(h, <<"Connection">>) = IF q.keepAlive THEN <<"keep-alive">> ELSE NULL
  BY <1>2, <1>3, <1>4 DEF When
<1>8. Lookup(h, <<"Cookie">>) = IF q.sid # NULL THEN <<"sid", "=", q.sid>> ELSE NULL
  BY <1>2, <1>3, <1>4 DEF When
<1>9. Lookup(h, <<"Content-Type">>) = IF q.form # <<>> THEN <<FormType>> ELSE NULL
  BY <1>2, <1>3, <1>4 DEF When
<1> QED BY <1>1, <1>5, <1>6, <1>7, <1>8, <1>9 DEF h

\* The text behind the headers of a whole request is looked at if it is a form.
LEMMA FormSeen ==
    ASSUME NEW t, asking[t] \in Requests, Headed(t, 4), Whole(t)
    PROVE  IsForm(parsed[t].headers) <=> asking[t].form # <<>>
<1> DEFINE type == Lookup(parsed[t].headers, <<"Content-Type">>)
           text == <<FormType>>
<1>1. /\ type = IF asking[t].form # <<>> THEN text ELSE NULL
      /\ text # NULL
  BY HeaderIs
<1>2. text # <<>> /\ text[1] = FormType
  OBVIOUS
<1> HIDE DEF type, text
<1>3. (type # NULL /\ type # <<>> /\ type[1] = FormType) <=> asking[t].form # <<>>
  BY <1>1, <1>2
<1> QED BY <1>3, Zenon DEF IsForm, type

\* Without a form there are no pairs of it (request.c:190-197).
LEMMA NoBodyStep ==
    ASSUME NEW t, Thread = {t}, ParsingInv(t), hpc[t] = "parsing", UNCHANGED handler,
           NoBody(t)
    PROVE  ParsingInv(t)'
<1> DEFINE q == asking[t]
           w == Whole(t)
<1>1. /\ ParserType(t) /\ q \in Requests /\ w \in BOOLEAN
      /\ IF piece[t] = "rest" THEN LateAt(t) ELSE Underway(t)
      /\ asking' = asking /\ piece' = piece /\ Whole(t)' = w
  BY ParsingIs
<1>2. /\ ppc[t] = "body" /\ ~IsForm(parsed[t].headers) /\ ppc' = [ppc EXCEPT ![t] = "query"]
      /\ UNCHANGED <<save, mem, live, fresh, target, key, parsed>>
  BY DEF NoBody, To
<1>3. piece[t] # "rest" /\ Underway(t)
  BY <1>1, <1>2, NotLate
<1>4. AtBody(t)
  BY <1>2, <1>3 DEF Underway
<1>5. ParserType(t)' /\ ppc'[t] = "query"
  <2>1. /\ save' \in SaveType /\ mem' \in MemType
        /\ live' \in [Thread -> SUBSET {"buff", "copy"}] /\ "buff" \in live'[t]
        /\ DOMAIN target' = Thread /\ fresh' \in [Thread -> BOOLEAN] /\ ~fresh'[t]
        /\ key' \in KeyType /\ parsed' \in ParsedType
    BY <1>1, <1>2 DEF ParserType, SaveOK
  <2> QED BY <1>1, <1>2, <2>1, TypeElse
<1>6. PairsOf(q.form, <<>>, w)
  <2>1. q.form \in Fields
    BY <1>1, RequestIs
  <2>2. w => q.form = <<>>
    BY <1>1, <1>2, <1>4, FormSeen DEF AtBody
  <2> HIDE DEF w
  <2> QED BY <2>1, <2>2, FormNone
<1>7. AtQuery(t)'
  <2>1. PairsOf(asking'[t].form, parsed'[t].body, Whole(t)')
    <3>1. parsed'[t].body = <<>>
      BY <1>2, <1>4 DEF AtBody, Unlisted
    <3> QED BY <1>1, <1>6, <3>1, Zenon
  <2>2. BodyOK(t)'
    BY <2>1, Zenon DEF BodyOK
  <2>3. Located(t)' /\ parsed'[t].uri = parsed'[t].path
    BY <1>1, <1>2, <1>4 DEF AtBody, Located, MethodOK
  <2>4. Headed(t, 4)'
    BY <1>1, <1>2, <1>4 DEF AtBody, Headed
  <2>5. parsed'[t].query = <<>> /\ parsed'[t].cookies = <<>>
    BY <1>2, <1>4 DEF AtBody, Unlisted
  <2> QED BY <2>2, <2>3, <2>4, <2>5 DEF AtQuery
<1>8. Underway(t)'
  BY <1>5, <1>7 DEF Underway
<1> QED BY <1>3, <1>5, <1>8, StillParsing

\* strtok without delimiters gives all of the form that has come (request.c:190-197).
LEMMA BodyStep ==
    ASSUME NEW t, Thread = {t}, ParsingInv(t), hpc[t] = "parsing", UNCHANGED handler,
           ParseBody(t)
    PROVE  ParsingInv(t)'
<1> DEFINE q == asking[t]
           p == Place(t)
           s == mem[p.thread][p.area]
           i == p.pos
           x == Coming(t)
           w == Whole(t)
           none == {}
           form == Fielded(q.form)
<1>1. /\ ParserType(t) /\ q \in Requests /\ w \in BOOLEAN
      /\ IF piece[t] = "rest" THEN LateAt(t) ELSE Underway(t)
      /\ asking' = asking /\ piece' = piece /\ Whole(t)' = w
  BY ParsingIs
<1>2. ppc[t] = "body" /\ p = save /\ ppc[t] \in BuffStep /\ ~fresh[t]
      /\ IsForm(parsed[t].headers)
  BY <1>1 DEF ParseBody, Place, From, BuffStep, ParserType
<1>3. PICK r \in Reads(p, none) :
         IF r.found
         THEN save' = [save EXCEPT !.pos = r.next] /\ Pairs(t, "body", r.token)
         ELSE To(t, "fail") /\ UNCHANGED <<save, mem, live, fresh, target>>
  BY <1>2, Zenon DEF ParseBody
<1>4. UNCHANGED <<key, parsed>>
  BY DEF ParseBody
<1>5. piece[t] # "rest" /\ Underway(t)
  BY <1>1, <1>2, NotLate
<1>6. AtBody(t)
  BY <1>2, <1>5 DEF Underway
<1>7. save \in SaveType /\ mem \in MemType /\ live[t] \in SUBSET {"buff", "copy"}
      /\ parsed \in ParsedType
  BY <1>1 DEF ParserType
<1>8. p.thread = t /\ p.area = "buff" /\ p.area \in live[t] /\ i \in 1..(Len(s) + 1)
  BY <1>1, <1>2, <1>7 DEF ParserType, SaveOK, SaveType, BuffStep
<1>9. s \in Texts
  BY <1>7, <1>8 DEF MemType, TextType
<1>10. r = NextToken(s, i, none)
  BY <1>3, <1>8 DEF Reads
<1>11. q.form \in Fields /\ form \in Texts /\ Clear(form, none)
  <2>1. q.form \in Fields
    BY <1>1, RequestIs
  <2>2. form \in Seq(FormWord)
    BY <2>1, FieldedIs
  <2>3. FormWord \subseteq Word /\ \A c \in FormWord : c \notin none /\ c # NUL
    BY WordsAre
  <2>4. Clear(form, none)
    BY <2>2, <2>3, ClearIs
  <2> QED BY <2>1, <2>2, <2>3, <2>4, SeqMonotonic DEF Texts
<1>12. Comes(x, form, w) /\ x = Left(s, i)
  BY <1>6, Zenon DEF AtBody, Remains, Coming
<1>13. Headed(t, 4)
  BY <1>6 DEF AtBody
<1> HIDE DEF s, i, x, w, q, form, none, p
<1>14. Comes(r.token, form, w) /\ (r.found <=> r.token # <<>>)
       /\ r.token \in Texts /\ r.next \in Nat
  <2>1. s \in Seq(Word) /\ NUL \in Word /\ NUL \notin none /\ form \in Seq(Word)
    BY <1>9, <1>11, WordsAre DEF Texts, none
  <2>2. Comes(Left(s, i), form, w)
    BY <1>12
  <2>3. /\ r.text \in Seq(Word) /\ r.next \in 1..(Len(r.text) + 1)
        /\ Comes(r.token, form, w) /\ (r.found <=> r.token # <<>>)
    BY <1>8, <1>10, <1>11, <2>1, <2>2, TokenEnds
  <2>4. r.next \in Nat
    BY <2>3, LenProperties
  <2>5. r.token \in Seq(Word)
    BY <1>8, <1>10, <2>1, TokenType
  <2> QED BY <2>3, <2>4, <2>5 DEF Texts
<1>15. CASE r.found
  <2> DEFINE text == r.token
  <2>1. /\ save' = [save EXCEPT !.pos = r.next] /\ mem' = [mem EXCEPT ![t].copy = text]
        /\ live' = [live EXCEPT ![t] = @ \cup {"copy"}] /\ fresh' = [fresh EXCEPT ![t] = TRUE]
        /\ target' = [target EXCEPT ![t] = "body"] /\ ppc' = [ppc EXCEPT ![t] = "pairKey"]
    BY <1>3, <1>15 DEF Pairs, To
  <2>2. save' \in SaveType
    BY <1>7, <1>14, <2>1 DEF SaveType
  <2>3. DOMAIN target' = Thread /\ target'[t] = "body" /\ text \in Texts /\ parsed' \in ParsedType
    BY <1>1, <1>4, <1>7, <1>14, <2>1 DEF ParserType
  <2> HIDE DEF text
  <2>4. ParserType(t)' /\ ppc'[t] = "pairKey" /\ Coming(t)' = text
    BY <1>1, <1>2, <1>4, <2>1, <2>2, <2>3, CopyBegins
  <2>5. KeyAhead(text, q.form, <<>>, w)
    BY <1>11, <1>14, KeysAhead DEF text, form
  <2>6. parsed'[t].body = <<>> /\ parsed'[t].query = <<>> /\ parsed'[t].cookies = <<>>
        /\ parsed'[t].uri = parsed'[t].path
    BY <1>4, <1>6 DEF AtBody, Unlisted
  <2>7. KeyAhead(Coming(t)', asking'[t].form, parsed'[t].body, Whole(t)')
    BY <1>1, <2>4, <2>5, <2>6, Zenon DEF q, w
  <2>8. OfBody(t)'
    BY <2>3, <2>6 DEF OfBody
  <2>9. Located(t)'
    BY <1>1, <1>4, <1>6 DEF AtBody, Located, MethodOK
  <2>10. Headed(t, 4)'
    BY <1>1, <1>4, <1>13 DEF Headed, w
  <2>11. AtPairKey(t)'
    BY <2>7, <2>8, <2>9, <2>10, Zenon DEF AtPairKey
  <2>12. Underway(t)' /\ ppc'[t] # "idle"
    BY <2>4, <2>11 DEF Underway
  <2> QED BY <1>5, <2>4, <2>12, StillParsing
<1>16. CASE ~r.found
  <2>1. ppc' = [ppc EXCEPT ![t] = "fail"] /\ UNCHANGED <<save, mem, live, fresh, target>>
    BY <1>3, <1>16 DEF To
  <2>2. ~w
    <3> SUFFICES ASSUME w PROVE FALSE
      OBVIOUS
    <3>1. r.token = form
      BY <1>11, <1>14, ComesIs DEF Texts
    <3>2. q.form = <<>>
      BY <1>11, <1>14, <1>16, <3>1, FieldedIs DEF form
    <3> QED BY <1>1, <1>2, <1>13, <3>2, FormSeen DEF q, w
  <2>3. ParserType(t)' /\ ppc'[t] = "fail"
    <3>1. /\ save' \in SaveType /\ mem' \in MemType
          /\ live' \in [Thread -> SUBSET {"buff", "copy"}] /\ "buff" \in live'[t]
          /\ DOMAIN target' = Thread /\ fresh' \in [Thread -> BOOLEAN] /\ ~fresh'[t]
          /\ key' \in KeyType /\ parsed' \in ParsedType
      BY <1>1, <1>2, <1>4, <2>1 DEF ParserType, SaveOK
    <3> QED BY <1>1, <2>1, <3>1, TypeElse
  <2>4. AtFail(t)'
    BY <1>1, <2>2 DEF AtFail, w
  <2>5. Underway(t)' /\ ppc'[t] # "idle"
    BY <2>3, <2>4 DEF Underway
  <2> QED BY <1>5, <2>3, <2>5, StillParsing
<1> QED BY <1>15, <1>16

\* The path is cut at its question mark, and parseQS begins (request.c:200-206).
LEMMA QueryStep ==
    ASSUME NEW t, Thread = {t}, ParsingInv(t), hpc[t] = "parsing", UNCHANGED handler,
           ParseQuery(t)
    PROVE  ParsingInv(t)'
<1> DEFINE q == asking[t]
           path == parsed[t].path
           mark == "?"
           query == Fielded(q.query)
           w == Whole(t)
<1>1. /\ ParserType(t) /\ q \in Requests /\ w \in BOOLEAN
      /\ IF piece[t] = "rest" THEN LateAt(t) ELSE Underway(t)
      /\ asking' = asking /\ piece' = piece /\ Whole(t)' = w
  BY ParsingIs
<1>2. /\ ppc[t] = "query" /\ UNCHANGED <<save, key>> /\ ~fresh[t]
      /\ IF Contains(path, mark)
         THEN /\ parsed' = [parsed EXCEPT ![t].uri = SubSeq(path, 1, PositionOf(path, mark) - 1)]
              /\ Pairs(t, "query", SubSeq(path, PositionOf(path, mark) + 1, Len(path)))
         ELSE /\ To(t, "cookies")
              /\ UNCHANGED <<parsed, mem, live, fresh, target>>
  BY <1>1 DEF ParseQuery, ParserType
<1>3. piece[t] # "rest" /\ Underway(t)
  BY <1>1, <1>2, NotLate
<1>4. AtQuery(t)
  BY <1>2, <1>3 DEF Underway
<1>5. parsed \in ParsedType /\ save \in SaveType
  BY <1>1 DEF ParserType
<1>6. path = PathAndQuery(q)
  BY <1>4 DEF AtQuery, Located
<1>7. /\ Contains(path, mark) <=> q.query # <<>>
      /\ q.query = <<>> => path = q.uri
      /\ q.query # <<>> => /\ SubSeq(path, 1, PositionOf(path, mark) - 1) = q.uri
                           /\ SubSeq(path, PositionOf(path, mark) + 1, Len(path)) = query
  BY <1>1, <1>6, PathIs
<1>8. q.query \in Fields /\ query \in Texts /\ q.uri \in Texts
  <2>1. q.query \in Fields /\ q.uri \in Seq(FormWord)
    BY <1>1, RequestIs
  <2>2. query \in Seq(FormWord)
    BY <2>1, FieldedIs
  <2>3. FormWord \subseteq Word
    BY WordsAre
  <2> QED BY <2>1, <2>2, <2>3, SeqMonotonic DEF Texts
<1>9. Headed(t, 4) /\ BodyOK(t)
  BY <1>4 DEF AtQuery
<1> HIDE DEF query, q, w, mark
<1>10. CASE q.query # <<>>
  <2>1. parsed' = [parsed EXCEPT ![t].uri = q.uri] /\ Pairs(t, "query", query)
    BY <1>2, <1>7, <1>10
  <2>2. /\ mem' = [mem EXCEPT ![t].copy = query]
        /\ live' = [live EXCEPT ![t] = @ \cup {"copy"}] /\ fresh' = [fresh EXCEPT ![t] = TRUE]
        /\ target' = [target EXCEPT ![t] = "query"] /\ ppc' = [ppc EXCEPT ![t] = "pairKey"]
    BY <2>1 DEF Pairs, To
  <2>3. /\ parsed' \in ParsedType /\ parsed'[t].uri = q.uri /\ parsed'[t].path = parsed[t].path
        /\ parsed'[t].method = parsed[t].method /\ parsed'[t].headers = parsed[t].headers
        /\ parsed'[t].body = parsed[t].body /\ parsed'[t].query = <<>> /\ parsed'[t].cookies = <<>>
    BY <1>4, <1>5, <1>8, <2>1 DEF ParsedType, AtQuery
  <2>4. DOMAIN target' = Thread /\ target'[t] = "query"
    BY <1>1, <2>2 DEF ParserType
  <2>5. ParserType(t)' /\ ppc'[t] = "pairKey" /\ Coming(t)' = query
    BY ZenonT(60), <1>1, <1>2, <1>5, <1>8, <2>2, <2>3, <2>4, CopyBegins
  <2>6. KeyAhead(query, q.query, <<>>, Entire)
    <3>1. Comes(query, query, Entire)
      BY <1>8, AllComes DEF Texts
    <3> QED BY <1>8, <3>1, KeysAhead DEF query
  <2>7. KeyAhead(Coming(t)', asking'[t].query, parsed'[t].query, Entire)
    BY <1>1, <2>3, <2>5, <2>6, Zenon DEF q
  <2>8. BodyOK(t)'
    <3>1. PairsOf(asking'[t].form, parsed'[t].body, Whole(t)')
      BY <1>1, <1>9, <2>3, Zenon DEF BodyOK, w
    <3> QED BY <3>1, Zenon DEF BodyOK
  <2>9. OfQuery(t)'
    BY <1>1, <1>10, <2>3, <2>4, <2>8 DEF OfQuery, q
  <2>10. Located(t)'
    BY <1>1, <1>4, <2>3 DEF AtQuery, Located, MethodOK
  <2>11. Headed(t, 4)'
    BY <1>1, <1>9, <2>3 DEF Headed, w
  <2>12. AtPairKey(t)'
    BY <2>7, <2>9, <2>10, <2>11, Zenon DEF AtPairKey
  <2>13. Underway(t)' /\ ppc'[t] # "idle"
    BY <2>5, <2>12 DEF Underway
  <2> QED BY <1>3, <2>5, <2>13, StillParsing
<1>11. CASE q.query = <<>>
  <2>1. ppc' = [ppc EXCEPT ![t] = "cookies"] /\ UNCHANGED <<parsed, save, key, mem, live, fresh, target>>
    BY <1>2, <1>7, <1>11 DEF To
  <2>2. ParserType(t)' /\ ppc'[t] = "cookies"
    <3>1. /\ save' \in SaveType /\ mem' \in MemType
          /\ live' \in [Thread -> SUBSET {"buff", "copy"}] /\ "buff" \in live'[t]
          /\ DOMAIN target' = Thread /\ fresh' \in [Thread -> BOOLEAN] /\ ~fresh'[t]
          /\ key' \in KeyType /\ parsed' \in ParsedType
      BY <1>1, <1>2, <2>1 DEF ParserType, SaveOK
    <3> QED BY <1>1, <2>1, <3>1, TypeElse
  <2>3. QueryOK(t)'
    <3>1. PairsOf(q.query, <<>>, Entire)
      BY <1>8, <1>11, FormNone
    <3>2. PairsOf(asking'[t].query, parsed'[t].query, Entire)
      BY <1>1, <1>4, <2>1, <3>1, Zenon DEF AtQuery, q
    <3>3. parsed'[t].uri = asking'[t].uri /\ asking'[t].query = <<>>
      BY <1>1, <1>4, <1>7, <1>11, <2>1 DEF AtQuery, q
    <3> QED BY <3>2, <3>3, Zenon DEF QueryOK
  <2>4. BodyOK(t)'
    <3>1. PairsOf(asking'[t].form, parsed'[t].body, Whole(t)')
      BY <1>1, <1>9, <2>1, Zenon DEF BodyOK, w
    <3> QED BY <3>1, Zenon DEF BodyOK
  <2>5. Located(t)' /\ parsed'[t].cookies = <<>>
    BY <1>1, <1>4, <2>1 DEF AtQuery, Located, MethodOK
  <2>6. Headed(t, 4)'
    BY <1>1, <1>9, <2>1 DEF Headed, w
  <2>7. AtCookies(t)'
    BY <2>3, <2>4, <2>5, <2>6, Zenon DEF AtCookies
  <2>8. Underway(t)' /\ ppc'[t] # "idle"
    BY <2>2, <2>7 DEF Underway
  <2> QED BY <1>3, <2>2, <2>8, StillParsing
<1> QED BY <1>10, <1>11

\* Taking cookies changes nothing else of the request.
LEMMA RestStays ==
    ASSUME NEW t, Located(t), Headed(t, 4), BodyOK(t), QueryOK(t),
           asking' = asking, piece' = piece,
           parsed'[t].method = parsed[t].method, parsed'[t].path = parsed[t].path,
           parsed'[t].uri = parsed[t].uri, parsed'[t].headers = parsed[t].headers,
           parsed'[t].query = parsed[t].query, parsed'[t].body = parsed[t].body
    PROVE  Located(t)' /\ Headed(t, 4)' /\ BodyOK(t)' /\ QueryOK(t)'
<1>1. Located(t)'
  BY DEF Located, MethodOK
<1>2. Headed(t, 4)'
  BY DEF Headed, Whole
<1>3. PairsOf(asking'[t].form, parsed'[t].body, Whole(t)')
  <2>1. Whole(t)' = Whole(t)
    BY DEF Whole
  <2> QED BY <2>1, Zenon DEF BodyOK
<1>4. PairsOf(asking'[t].query, parsed'[t].query, Entire)
  BY Zenon DEF QueryOK
<1>5. parsed'[t].uri = asking'[t].uri /\ (asking'[t].query # <<>> => parsed'[t].query # <<>>)
  BY DEF QueryOK
<1> QED BY <1>1, <1>2, <1>3, <1>4, <1>5, Zenon DEF BodyOK, QueryOK

\* The Cookie header is copied, if there is one (request.c:208-215).
LEMMA CookiesStep ==
    ASSUME NEW t, Thread = {t}, ParsingInv(t), hpc[t] = "parsing", UNCHANGED handler,
           ParseCookies(t)
    PROVE  ParsingInv(t)'
<1> DEFINE q == asking[t]
           w == Whole(t)
           header == Lookup(parsed[t].headers, <<"Cookie">>)
           text == <<"sid", "=", q.sid>>
<1>1. /\ ParserType(t) /\ q \in Requests /\ w \in BOOLEAN
      /\ IF piece[t] = "rest" THEN LateAt(t) ELSE Underway(t)
      /\ asking' = asking /\ piece' = piece /\ Whole(t)' = w
  BY ParsingIs
<1>2. /\ ppc[t] = "cookies" /\ UNCHANGED <<save, target, key, parsed>> /\ ~fresh[t]
      /\ IF header # NULL
         THEN /\ mem' = [mem EXCEPT ![t].copy = header]
              /\ live' = [live EXCEPT ![t] = @ \cup {"copy"}]
              /\ fresh' = [fresh EXCEPT ![t] = TRUE]
              /\ To(t, "cookieKey")
         ELSE To(t, "parsed") /\ UNCHANGED <<mem, live, fresh>>
  BY <1>1 DEF ParseCookies, ParserType
<1>3. piece[t] # "rest" /\ Underway(t)
  BY <1>1, <1>2, NotLate
<1>4. Located(t) /\ Headed(t, 4) /\ BodyOK(t) /\ QueryOK(t) /\ parsed[t].cookies = <<>>
  BY <1>2, <1>3 DEF Underway, AtCookies
<1>5. Located(t)' /\ Headed(t, 4)' /\ BodyOK(t)' /\ QueryOK(t)'
  BY <1>1, <1>2, <1>4, RestStays
<1>6. header \in Texts \cup {NULL}
  <2>1. parsed[t].headers \in Seq(Texts \X Texts)
    BY <1>1 DEF ParserType, ParsedType, PairList
  <2> QED BY <2>1, LookupIs
<1>7. w => header = IF q.sid # NULL THEN text ELSE NULL
  BY <1>1, <1>4, HeaderIs
<1>71. w /\ q.sid # NULL => text # NULL
  BY <1>1, <1>4, HeaderIs
<1> HIDE DEF header, text, q, w
<1>8. CASE header # NULL
  <2>1. /\ mem' = [mem EXCEPT ![t].copy = header]
        /\ live' = [live EXCEPT ![t] = @ \cup {"copy"}] /\ fresh' = [fresh EXCEPT ![t] = TRUE]
        /\ ppc' = [ppc EXCEPT ![t] = "cookieKey"]
    BY <1>2, <1>8 DEF To
  <2>2. /\ save' \in SaveType /\ parsed' \in ParsedType /\ DOMAIN target' = Thread
        /\ header \in Texts
    BY <1>1, <1>2, <1>6, <1>8 DEF ParserType
  <2>3. ParserType(t)' /\ ppc'[t] = "cookieKey" /\ Coming(t)' = header
    BY <1>1, <1>2, <2>1, <2>2, CopyBegins
  <2>4. w => q.sid # NULL /\ header = text
    BY <1>7, <1>8
  <2>5. Whole(t)' => asking'[t].sid # NULL /\ Coming(t)' = <<"sid", "=", asking'[t].sid>>
    BY <1>1, <2>3, <2>4 DEF q, w, text
  <2>6. parsed'[t].cookies = <<>>
    BY <1>2, <1>4
  <2>7. AtCookieKey(t)'
    BY <1>5, <2>5, <2>6 DEF AtCookieKey
  <2>8. Underway(t)' /\ ppc'[t] # "idle"
    BY <2>3, <2>7 DEF Underway
  <2> QED BY <1>3, <2>3, <2>8, StillParsing
<1>9. CASE header = NULL
  <2>1. ppc' = [ppc EXCEPT ![t] = "parsed"] /\ UNCHANGED <<mem, live, fresh>>
    BY <1>2, <1>9 DEF To
  <2>2. ParserType(t)' /\ ppc'[t] = "parsed"
    <3>1. /\ save' \in SaveType /\ mem' \in MemType
          /\ live' \in [Thread -> SUBSET {"buff", "copy"}] /\ "buff" \in live'[t]
          /\ DOMAIN target' = Thread /\ fresh' \in [Thread -> BOOLEAN] /\ ~fresh'[t]
          /\ key' \in KeyType /\ parsed' \in ParsedType
      BY <1>1, <1>2, <2>1 DEF ParserType, SaveOK
    <3> QED BY <1>1, <2>1, <3>1, TypeElse
  <2>3. w => q.sid = NULL
    BY <1>7, <1>71, <1>9
  <2>4. Whole(t)' => parsed'[t].cookies = SidPair(asking'[t])
    <3>1. q.sid = NULL => SidPair(q) = <<>>
      BY DEF SidPair, When
    <3> QED BY <1>1, <1>2, <1>4, <2>3, <3>1 DEF q, w
  <2>5. AtParsed(t)'
    BY <1>5, <2>4 DEF AtParsed
  <2>6. Underway(t)' /\ ppc'[t] # "idle"
    BY <2>2, <2>5 DEF Underway
  <2> QED BY <1>3, <2>2, <2>6, StillParsing
<1> QED BY <1>8, <1>9

\* The end of parseCookies, which refuses a Cookie header without a pair.
LEMMA CookiesEnd ==
    ASSUME NEW t, Thread = {t}, ParserType(t), ppc[t] \in CopyStep,
           PairsEnd(t, "cookies", "parsed"), save' \in SaveType, mem' \in MemType,
           target' = target, key' = key, parsed' = parsed, asking' = asking, piece' = piece,
           Located(t)', Headed(t, 4)', BodyOK(t)', QueryOK(t)',
           Whole(t) => parsed[t].cookies # <<>> /\ parsed[t].cookies = SidPair(asking[t])
    PROVE  ParserType(t)' /\ Underway(t)' /\ ppc'[t] # "idle"
<1> DEFINE label == IF parsed[t].cookies = <<>> THEN "fail" ELSE "parsed"
<1>1. /\ ppc' = [ppc EXCEPT ![t] = label]
      /\ live' = [live EXCEPT ![t] = @ \ {"copy"}] /\ fresh' = [fresh EXCEPT ![t] = FALSE]
  BY DEF PairsEnd, To
<1>2. label \in {"query", "cookies", "parsed", "fail"}
  OBVIOUS
<1>3. label = "parsed" \/ (label = "fail" /\ ~Whole(t))
  OBVIOUS
<1> HIDE DEF label
<1>4. ParserType(t)' /\ ppc'[t] = label
  <2>1. /\ live' \in [Thread -> SUBSET {"buff", "copy"}] /\ "buff" \in live'[t]
        /\ DOMAIN target' = Thread /\ fresh' \in [Thread -> BOOLEAN] /\ ~fresh'[t]
        /\ key' \in KeyType /\ parsed' \in ParsedType
    BY <1>1 DEF ParserType, SaveOK, CopyStep
  <2> QED BY <1>1, <1>2, <2>1, TypeElse
<1>5. Whole(t)' = Whole(t)
  BY DEF Whole
<1>6. CASE label = "parsed"
  <2>1. AtParsed(t)'
    BY <1>5 DEF AtParsed
  <2> QED BY <1>4, <1>6, <2>1 DEF Underway
<1>7. CASE label = "fail" /\ ~Whole(t)
  <2>1. AtFail(t)'
    BY <1>5, <1>7 DEF AtFail
  <2> QED BY <1>4, <1>7, <2>1 DEF Underway
<1> QED BY <1>3, <1>6, <1>7

\* Two words with a separator between them.
LEMMA WordsJoined ==
    ASSUME NEW c, NEW d, NEW e
    PROVE  Joined(<<c>>, d, <<e>>) = <<c, d, e>>
<1> DEFINE S == {c, d, e}
           one == <<c>>
           end == <<e>>
           all == <<c, d, e>>
           z == Joined(one, d, end)
<1>1. one \in Seq(S) /\ Len(one) = 1 /\ one[1] = c /\ end \in Seq(S) /\ Len(end) = 1 /\ end[1] = e
  OBVIOUS
<1>2. all \in Seq(S) /\ Len(all) = 3 /\ all[1] = c /\ all[2] = d /\ all[3] = e
  OBVIOUS
<1>3. d \in S
  OBVIOUS
<1> HIDE DEF S, one, end, all
<1>41. one \in Seq(S) /\ end \in Seq(S)
  BY <1>1
<1>42. z \in Seq(S)
  BY <1>3, <1>41, JoinedIs
<1>43. Len(z) = Len(one) + 1 + Len(end)
  BY <1>3, <1>41, JoinedIs
<1>44. \A j \in 1..Len(one) : z[j] = one[j]
  BY <1>3, <1>41, JoinedIs
<1>45. z[Len(one) + 1] = d
  BY <1>3, <1>41, JoinedIs
<1>46. \A j \in 1..Len(end) : z[Len(one) + 1 + j] = end[j]
  BY <1>3, <1>41, JoinedIs
<1> HIDE DEF z
<1>5. Len(z) = 3 /\ z[1] = c /\ z[2] = d /\ z[3] = e
  BY <1>1, <1>42, <1>43, <1>44, <1>45, <1>46
<1>6. \A j \in 1..Len(z) : z[j] = all[j]
  <2> TAKE j \in 1..Len(z)
  <2>1. j = 1 \/ j = 2 \/ j = 3
    BY <1>5
  <2> QED BY <1>2, <1>5, <2>1
<1>7. z = all
  BY <1>2, <1>42, <1>5, <1>6, SeqEqual
<1> QED BY <1>7 DEF z, one, end, all

\* strtok for the name of a cookie (request.c:107-125).
LEMMA CookieKeyStep ==
    ASSUME NEW t, Thread = {t}, ParsingInv(t), hpc[t] = "parsing", UNCHANGED handler,
           ParseCookieKey(t)
    PROVE  ParsingInv(t)'
<1> DEFINE q == asking[t]
           p == Place(t)
           s == mem[p.thread][p.area]
           i == p.pos
           x == Coming(t)
           y == Coming(t)'
           w == Whole(t)
           equal == {"="}
<1>1. /\ ParserType(t) /\ q \in Requests /\ w \in BOOLEAN
      /\ IF piece[t] = "rest" THEN LateAt(t) ELSE Underway(t)
      /\ asking' = asking /\ piece' = piece /\ Whole(t)' = w
  BY ParsingIs
<1>2. ppc[t] = "cookieKey" /\ p = From(t) /\ ppc[t] \in CopyStep
  BY DEF ParseCookieKey, Place, CopyStep
<1>3. PICK r \in Reads(p, equal) :
         /\ Moves(p, r)
         /\ IF r.found
            THEN /\ key' = [key EXCEPT ![t] = IF r.token[1] = " " THEN Tail(r.token) ELSE r.token]
                 /\ fresh' = [fresh EXCEPT ![t] = FALSE]
                 /\ To(t, "cookieValue")
                 /\ UNCHANGED live
            ELSE PairsEnd(t, "cookies", "parsed") /\ UNCHANGED key
  BY <1>2, Zenon DEF ParseCookieKey
<1>4. UNCHANGED <<target, parsed>>
  BY DEF ParseCookieKey
<1>5. NUL \notin equal /\ "=" \in equal /\ "=" \in Word
  BY DEF NUL, Word, Spelled, Escaped
<1> HIDE DEF p, equal
<1>7. /\ s \in Texts /\ i \in 1..(Len(s) + 1) /\ Left(s, i) = x
      /\ r = NextToken(s, i, equal)
      /\ r.token \in Texts /\ r.found \in BOOLEAN /\ (r.found <=> r.token # <<>>)
      /\ save' \in SaveType /\ mem' \in MemType
      /\ save'.area = "copy"
      /\ save'.pos \in 1..(Len(mem'[save'.thread][save'.area]) + 1)
      /\ Left(mem'[save'.thread][save'.area], save'.pos) = Left(r.text, r.next)
  <2>1. Moves(p, r)
    BY <1>3, Zenon
  <2> QED BY <1>1, <1>2, <1>5, <2>1, ReadHere DEF p
<1>8. piece[t] # "rest" /\ Underway(t)
  BY <1>1, <1>2, NotLate
<1>9. AtCookieKey(t)
  BY <1>2, <1>8 DEF Underway
<1>10. Located(t)' /\ Headed(t, 4)' /\ BodyOK(t)' /\ QueryOK(t)'
  BY <1>1, <1>4, <1>9, RestStays DEF AtCookieKey
<1> DEFINE c == "sid"
           b == <<q.sid>>
           end == Left(r.text, r.next)
<1>11. w => /\ q.sid # NULL
            /\ \/ parsed[t].cookies = <<>> /\ x = <<c, "=", q.sid>>
               \/ parsed[t].cookies = SidPair(q) /\ x = <<>>
  BY <1>9, Zenon DEF AtCookieKey
<1>12. q.sid # NULL => q.sid \in Word
  <2>1. q.sid \in FormWord \cup {NULL}
    BY <1>1, RequestIs
  <2> QED BY <2>1 DEF FormWord
<1>13. c \in Word /\ c # NUL /\ c \notin equal
  BY DEF Word, Spelled, NUL, equal
<1>14. Joined(One(c), "=", b) = <<c, "=", q.sid>>
  BY WordsJoined, Zenon DEF One
<1>15. q.sid # NULL => b \in Texts
  BY <1>12 DEF Texts
<1>16. q.sid # NULL => SidPair(q) # <<>>
  BY DEF SidPair, When
<1>161. c = "sid"
  OBVIOUS
<1> HIDE DEF s, i, x, y, w, q, c, b, end
<1>17. ASSUME w, parsed[t].cookies = <<>> /\ x = <<c, "=", q.sid>>
       PROVE  r.found /\ r.token = One(c) /\ end = b
  <2>1. x = Joined(One(c), "=", b) /\ b \in Texts
    BY <1>11, <1>14, <1>15, <1>17
  <2> DEFINE all == Joined(One(c), "=", b)
  <2>2. One(c) \in Seq(Word) /\ "=" \in Word /\ b \in Seq(Word)
    BY <1>5, <1>13, <2>1 DEF One, Texts
  <2>3. all \in Seq(Word)
    BY <2>2, JoinedIs
  <2> HIDE DEF all
  <2>4. Comes(all, all, w)
    BY <2>3, AllComes
  <2>5. Comes(x, Joined(One(c), "=", b), w)
    BY <2>1, <2>4 DEF all
  <2>6. \/ r.found /\ r.token = One(c) /\ Comes(end, b, w)
        \/ ~w /\ ~r.found /\ end = <<>>
    BY <1>5, <1>7, <1>13, <2>1, <2>5, WordRead DEF end
  <2>7. Comes(end, b, w) => end = b
    BY <1>17, <2>2, ComesIs
  <2> QED BY <1>17, <2>6, <2>7
<1>18. ASSUME w, parsed[t].cookies = SidPair(q) /\ x = <<>>
       PROVE  ~r.found
  <2>1. Left(s, i) = <<>>
    BY <1>7, <1>18
  <2> QED BY <1>5, <1>7, <2>1, NothingRead
<1>19. CASE r.found
  <2> DEFINE blank == r.token[1] = " "
             name == IF blank THEN Tail(r.token) ELSE r.token
  <2>1. /\ key' = [key EXCEPT ![t] = name] /\ fresh' = [fresh EXCEPT ![t] = FALSE]
        /\ ppc' = [ppc EXCEPT ![t] = "cookieValue"] /\ live' = live
    BY <1>3, <1>19, Zenon DEF To
  <2>2. r.token = One(c) => ~blank
    <3>1. r.token = One(c) => r.token[1] = "sid"
      BY <1>161 DEF One
    <3> QED BY <3>1, Zenon
  <2> HIDE DEF blank
  <2>3. name \in Texts
    <3>1. r.token \in Seq(Word) /\ r.token # <<>>
      BY <1>7, <1>19 DEF Texts
    <3>2. Tail(r.token) \in Seq(Word)
      BY <3>1, HeadTailProperties
    <3> QED BY <1>7, <3>2 DEF Texts
  <2>4. r.token = One(c) => name = One(c)
    BY <2>2
  <2> HIDE DEF name
  <2>5. key' \in KeyType /\ key'[t] = name /\ fresh' \in [Thread -> BOOLEAN] /\ ~fresh'[t]
        /\ parsed' \in ParsedType
    BY <1>1, <1>4, <2>1, <2>3 DEF ParserType, KeyType
  <2>6. "cookieValue" \in CopyStep
    BY DEF CopyStep
  <2>7. /\ ParserType(t)' /\ ppc'[t] = "cookieValue"
        /\ Coming(t)' = Left(mem'[save'.thread][save'.area], save'.pos)
    BY <1>1, <1>2, <1>4, <1>7, <2>1, <2>5, <2>6, TypeAfter
  <2>8. Coming(t)' = end
    BY <1>7, <2>7 DEF end
  <2>9. w => /\ q.sid # NULL /\ parsed[t].cookies = <<>> /\ end = b /\ r.token = One(c)
    BY <1>11, <1>17, <1>18, <1>19
  <2>10. Whole(t)' => /\ asking'[t].sid # NULL /\ key'[t] = <<"sid">>
                      /\ parsed'[t].cookies = <<>> /\ Coming(t)' = <<asking'[t].sid>>
    BY <1>1, <1>4, <1>161, <2>4, <2>5, <2>8, <2>9 DEF w, q, b, One
  <2>11. AtCookieValue(t)'
    BY <1>10, <2>10 DEF AtCookieValue
  <2>12. Underway(t)' /\ ppc'[t] # "idle"
    BY <2>7, <2>11 DEF Underway
  <2> QED BY <1>8, <2>7, <2>12, StillParsing
<1>20. CASE ~r.found
  <2>1. PairsEnd(t, "cookies", "parsed") /\ key' = key
    BY <1>3, <1>20, Zenon
  <2>2. w => parsed[t].cookies # <<>> /\ parsed[t].cookies = SidPair(q)
    BY <1>11, <1>16, <1>17, <1>20
  <2>3. Whole(t) => parsed[t].cookies # <<>> /\ parsed[t].cookies = SidPair(asking[t])
    BY <2>2 DEF w, q
  <2>4. ParserType(t)' /\ Underway(t)' /\ ppc'[t] # "idle"
    BY <1>1, <1>2, <1>4, <1>7, <1>10, <2>1, <2>3, CookiesEnd
  <2> QED BY <1>8, <2>4, StillParsing
<1> QED BY <1>19, <1>20

\* strtok for the value of a cookie (request.c:126-147).
LEMMA CookieValueStep ==
    ASSUME NEW t, Thread = {t}, ParsingInv(t), hpc[t] = "parsing", UNCHANGED handler,
           ParseCookieValue(t)
    PROVE  ParsingInv(t)'
<1> DEFINE q == asking[t]
           p == Place(t)
           s == mem[p.thread][p.area]
           i == p.pos
           x == Coming(t)
           y == Coming(t)'
           w == Whole(t)
           semi == {";"}
<1>1. /\ ParserType(t) /\ q \in Requests /\ w \in BOOLEAN
      /\ IF piece[t] = "rest" THEN LateAt(t) ELSE Underway(t)
      /\ asking' = asking /\ piece' = piece /\ Whole(t)' = w
  BY ParsingIs
<1>2. ppc[t] = "cookieValue" /\ p = save /\ ppc[t] \in CopyStep /\ ~fresh[t]
  BY <1>1 DEF ParseCookieValue, Place, From, CopyStep, ParserType
<1>3. PICK r \in Reads(p, semi) :
         /\ Moves(p, r)
         /\ IF r.found
            THEN /\ parsed' = [parsed EXCEPT ![t].cookies = AddPair(key[t], r.token, @)]
                 /\ To(t, "cookieKey")
                 /\ UNCHANGED <<live, fresh>>
            ELSE PairsEnd(t, "cookies", "parsed") /\ UNCHANGED parsed
  BY <1>2, Zenon DEF ParseCookieValue
<1>4. UNCHANGED <<target, key>>
  BY DEF ParseCookieValue
<1>5. NUL \notin semi
  BY DEF NUL
<1> HIDE DEF p, semi
<1>7. /\ s \in Texts /\ i \in 1..(Len(s) + 1) /\ Left(s, i) = x
      /\ r = NextToken(s, i, semi)
      /\ r.token \in Texts /\ r.found \in BOOLEAN /\ (r.found <=> r.token # <<>>)
      /\ save' \in SaveType /\ mem' \in MemType
      /\ save'.area = "copy"
      /\ save'.pos \in 1..(Len(mem'[save'.thread][save'.area]) + 1)
      /\ Left(mem'[save'.thread][save'.area], save'.pos) = Left(r.text, r.next)
  <2>1. Moves(p, r)
    BY <1>3, Zenon
  <2> QED BY <1>1, <1>2, <1>5, <2>1, ReadHere DEF p
<1>8. piece[t] # "rest" /\ Underway(t)
  BY <1>1, <1>2, NotLate
<1>9. AtCookieValue(t)
  BY <1>2, <1>8 DEF Underway
<1>10. Located(t) /\ Headed(t, 4) /\ BodyOK(t) /\ QueryOK(t)
  BY <1>9 DEF AtCookieValue
<1> DEFINE end == Left(r.text, r.next)
           text == <<q.sid>>
<1>11. w => /\ q.sid # NULL /\ key[t] = <<"sid">>
            /\ parsed[t].cookies = <<>> /\ x = text
  BY <1>9, Zenon DEF AtCookieValue
<1>12. q.sid # NULL => text \in Seq(Word) /\ Clear(text, semi) /\ text # <<>>
  <2> SUFFICES ASSUME q.sid # NULL PROVE text \in Seq(Word) /\ Clear(text, semi) /\ text # <<>>
    OBVIOUS
  <2>1. q.sid \in FormWord \cup {NULL} /\ q.sid \in PlainWord \cup {NULL}
    BY <1>1, RequestIs
  <2>2. q.sid \in Word /\ q.sid # NUL /\ q.sid \notin semi
    BY <2>1, Zenon DEF FormWord, PlainWord, Marks, semi
  <2> QED BY <2>2 DEF Clear
<1> HIDE DEF s, i, x, y, w, q, end, text
<1>13. w => r.found /\ r.token = text /\ end = <<>>
  <2> SUFFICES ASSUME w PROVE r.found /\ r.token = text /\ end = <<>>
    OBVIOUS
  <2>1. s \in Seq(Word) /\ NUL \in Word
    BY <1>7, WordsAre DEF Texts
  <2>2. Clear(Left(s, i), semi)
    BY <1>7, <1>11, <1>12
  <2>3. /\ r.found <=> Left(s, i) # <<>>
        /\ r.token = Left(s, i) /\ r.text = s /\ r.next = Len(s) + 1
    BY <1>5, <1>7, <2>1, <2>2, TokenLast
  <2>4. Left(s, Len(s) + 1) = <<>>
    BY <2>1, NothingLeft
  <2> QED BY <1>7, <1>11, <1>12, <2>3, <2>4 DEF end
<1>14. CASE r.found
  <2> DEFINE list == AddPair(key[t], r.token, parsed[t].cookies)
  <2>1. /\ parsed' = [parsed EXCEPT ![t].cookies = list]
        /\ ppc' = [ppc EXCEPT ![t] = "cookieKey"] /\ live' = live /\ fresh' = fresh
    BY <1>3, <1>14, Zenon DEF To
  <2>2. key[t] \in Texts /\ parsed[t].cookies \in PairList /\ parsed \in ParsedType
    BY <1>1 DEF ParserType, KeyType, ParsedType
  <2>3. list \in PairList
    <3>1. <<key[t], r.token>> \in Texts \X Texts
      BY <1>7, <2>2
    <3> QED BY <2>2, <3>1, AddPairIs DEF PairList
  <2>4. w => list = <<<<<<"sid">>, text>>>>
    <3> SUFFICES ASSUME w PROVE list = <<<<<<"sid">>, text>>>>
      OBVIOUS
    <3>1. list = AddPair(<<"sid">>, text, <<>>)
      BY <1>11, <1>13
    <3> DEFINE pair == <<<<"sid">>, text>>
    <3>2. AddPair(<<"sid">>, text, <<>>) = <<pair>> \o <<>>
      BY Zenon DEF AddPair
    <3>3. <<pair>> \in Seq({pair})
      <4> HIDE DEF pair
      <4> QED OBVIOUS
    <3>4. <<pair>> \o <<>> = <<pair>>
      <4> HIDE DEF pair
      <4> QED BY <3>3, ConcatEmptySeq
    <3> QED BY <3>1, <3>2, <3>4
  <2> HIDE DEF list
  <2>5. /\ parsed' \in ParsedType /\ parsed'[t].cookies = list
        /\ parsed'[t].method = parsed[t].method /\ parsed'[t].path = parsed[t].path
        /\ parsed'[t].uri = parsed[t].uri /\ parsed'[t].headers = parsed[t].headers
        /\ parsed'[t].query = parsed[t].query /\ parsed'[t].body = parsed[t].body
    BY <2>1, <2>2, <2>3 DEF ParsedType
  <2>6. Located(t)' /\ Headed(t, 4)' /\ BodyOK(t)' /\ QueryOK(t)'
    BY <1>1, <1>10, <2>5, RestStays
  <2>7. key' \in KeyType /\ fresh' \in [Thread -> BOOLEAN] /\ ~fresh'[t]
    BY <1>1, <1>2, <1>4, <2>1 DEF ParserType
  <2>8. "cookieKey" \in CopyStep
    BY DEF CopyStep
  <2>9. /\ ParserType(t)' /\ ppc'[t] = "cookieKey"
        /\ Coming(t)' = Left(mem'[save'.thread][save'.area], save'.pos)
    BY <1>1, <1>2, <1>4, <1>7, <2>1, <2>5, <2>7, <2>8, TypeAfter
  <2>10. Coming(t)' = end
    BY <1>7, <2>9 DEF end
  <2>11. Whole(t)' => /\ asking'[t].sid # NULL /\ parsed'[t].cookies = SidPair(asking'[t])
                      /\ Coming(t)' = <<>>
    <3>1. q.sid # NULL => SidPair(q) = <<<<<<"sid">>, text>>>>
      BY DEF SidPair, When, text
    <3> QED BY <1>1, <1>11, <1>13, <2>4, <2>5, <2>10, <3>1 DEF q, w
  <2>12. AtCookieKey(t)'
    BY <2>6, <2>11 DEF AtCookieKey
  <2>13. Underway(t)' /\ ppc'[t] # "idle"
    BY <2>9, <2>12 DEF Underway
  <2> QED BY <1>8, <2>9, <2>13, StillParsing
<1>15. CASE ~r.found
  <2>1. PairsEnd(t, "cookies", "parsed") /\ parsed' = parsed
    BY <1>3, <1>15, Zenon
  <2>2. Located(t)' /\ Headed(t, 4)' /\ BodyOK(t)' /\ QueryOK(t)'
    BY <1>1, <1>10, <2>1, RestStays
  <2>3. ~Whole(t)
    BY <1>13, <1>15 DEF w
  <2>4. ParserType(t)' /\ Underway(t)' /\ ppc'[t] # "idle"
    BY <1>1, <1>2, <1>4, <1>7, <2>1, <2>2, <2>3, CookiesEnd
  <2> QED BY <1>8, <2>4, StillParsing
<1> QED BY <1>7, <1>14, <1>15

\* What is left alone while parseQS is at work.
LEMMA PlaceStays ==
    ASSUME NEW t, Located(t), Headed(t, 4), asking' = asking, piece' = piece,
           parsed'[t].method = parsed[t].method, parsed'[t].path = parsed[t].path,
           parsed'[t].headers = parsed[t].headers
    PROVE  Located(t)' /\ Headed(t, 4)' /\ Whole(t)' = Whole(t)
<1>1. Located(t)'
  BY DEF Located, MethodOK
<1>2. Headed(t, 4)'
  BY DEF Headed, Whole
<1> QED BY <1>1, <1>2 DEF Whole

\* The end of parseQS, which refuses a query without a pair (request.c:97-103, 200-206).
LEMMA PairsEnded ==
    ASSUME NEW t, Thread = {t}, ParserType(t), asking[t] \in Requests, ppc[t] \in CopyStep,
           PairsEnd(t, target[t], AfterPairs(t)), save' \in SaveType, mem' \in MemType,
           target' = target, key' \in KeyType, parsed' = parsed, asking' = asking, piece' = piece,
           Located(t), Headed(t, 4),
           \/ OfBody(t) /\ PairsOf(asking[t].form, parsed[t].body, Whole(t))
           \/ OfQuery(t) /\ PairsOf(asking[t].query, parsed[t].query, Entire)
    PROVE  ParserType(t)' /\ Underway(t)' /\ ppc'[t] # "idle"
<1> DEFINE q == asking[t]
           label == IF target[t] # "body" /\ parsed[t][target[t]] = <<>> THEN "fail"
                    ELSE AfterPairs(t)
<1>1. /\ ppc' = [ppc EXCEPT ![t] = label]
      /\ live' = [live EXCEPT ![t] = @ \ {"copy"}] /\ fresh' = [fresh EXCEPT ![t] = FALSE]
  BY DEF PairsEnd, To
<1>2. label \in {"query", "cookies", "parsed", "fail"}
  BY DEF AfterPairs
<1>3. Located(t)' /\ Headed(t, 4)' /\ Whole(t)' = Whole(t)
  BY PlaceStays
<1>4. target[t] = "body" => label = "query"
  BY DEF AfterPairs
<1>5. target[t] = "query" => label = IF parsed[t].query = <<>> THEN "fail" ELSE "cookies"
  BY DEF AfterPairs
<1> HIDE DEF label
<1>6. ParserType(t)' /\ ppc'[t] = label
  <2>1. /\ live' \in [Thread -> SUBSET {"buff", "copy"}] /\ "buff" \in live'[t]
        /\ DOMAIN target' = Thread /\ fresh' \in [Thread -> BOOLEAN] /\ ~fresh'[t]
        /\ parsed' \in ParsedType
    BY <1>1 DEF ParserType, SaveOK, CopyStep
  <2> QED BY <1>1, <1>2, <2>1, TypeElse
<1>7. CASE OfBody(t) /\ PairsOf(asking[t].form, parsed[t].body, Whole(t))
  <2>1. ppc'[t] = "query"
    BY <1>4, <1>6, <1>7 DEF OfBody
  <2>2. BodyOK(t)'
    BY <1>3, <1>7, Zenon DEF BodyOK
  <2>3. AtQuery(t)'
    BY <1>3, <1>7, <2>2 DEF AtQuery, OfBody
  <2> QED BY <1>6, <2>1, <2>3 DEF Underway
<1>8. CASE OfQuery(t) /\ PairsOf(asking[t].query, parsed[t].query, Entire)
  <2>1. ppc'[t] = IF parsed[t].query = <<>> THEN "fail" ELSE "cookies"
    BY <1>5, <1>6, <1>8 DEF OfQuery
  <2>2. BodyOK(t)'
    <3>1. PairsOf(asking[t].form, parsed[t].body, Whole(t))
      BY <1>8 DEF OfQuery, BodyOK
    <3> QED BY <1>3, <3>1, Zenon DEF BodyOK
  <2>3. CASE parsed[t].query # <<>>
    <3>1. QueryOK(t)'
      <4>1. parsed'[t].uri = asking'[t].uri /\ parsed'[t].query # <<>>
        BY <1>8, <2>3 DEF OfQuery
      <4> QED BY <1>8, <4>1, Zenon DEF QueryOK
    <3>2. AtCookies(t)'
      BY <1>3, <1>8, <2>2, <3>1 DEF AtCookies, OfQuery
    <3> QED BY <1>6, <2>1, <2>3, <3>2 DEF Underway
  <2>4. CASE parsed[t].query = <<>>
    <3> DEFINE F == q.query
               list == parsed[t].query
    <3>1. PairsUpto(F, Len(F), list)
      <4>1. Entire
        BY DEF Entire
      <4> QED BY <1>8, <4>1 DEF PairsOf
    <3>2. \A i \in 1..Len(F) : F[i].value = <<>>
      BY <2>4, <3>1 DEF PairsUpto
    <3>3. F # <<>>
      BY <1>8 DEF OfQuery
    <3>4. DOMAIN F = 1..Len(F)
      <4>1. F \in Fields
        BY RequestIs
      <4> QED BY <4>1 DEF Fields
    <3> HIDE DEF F
    <3>5. ~(F # <<>> => \E i \in DOMAIN F : F[i].value # <<>>)
      BY <3>2, <3>3, <3>4
    <3>6. AtFail(t)'
      BY <3>5 DEF AtFail, Good, F
    <3> QED BY <1>6, <2>1, <2>4, <3>6 DEF Underway
  <2> QED BY <2>3, <2>4
<1> QED BY <1>7, <1>8

\* strtok for the name of a field (request.c:61-80).
LEMMA PairKeyStep ==
    ASSUME NEW t, Thread = {t}, ParsingInv(t), hpc[t] = "parsing", UNCHANGED handler,
           ParsePairKey(t)
    PROVE  ParsingInv(t)'
<1> DEFINE q == asking[t]
           p == Place(t)
           s == mem[p.thread][p.area]
           i == p.pos
           x == Coming(t)
           w == Whole(t)
           equal == {"="}
           end(r) == Left(r.text, r.next)
<1>1. /\ ParserType(t) /\ q \in Requests /\ w \in BOOLEAN
      /\ IF piece[t] = "rest" THEN LateAt(t) ELSE Underway(t)
      /\ asking' = asking /\ piece' = piece /\ Whole(t)' = w
  BY ParsingIs
<1>2. ppc[t] = "pairKey" /\ p = From(t) /\ ppc[t] \in CopyStep
  BY DEF ParsePairKey, Place, CopyStep
<1>3. PICK r \in Reads(p, equal) :
         /\ Moves(p, r)
         /\ IF ~r.found
            THEN PairsEnd(t, target[t], AfterPairs(t)) /\ UNCHANGED key
            ELSE /\ fresh' = [fresh EXCEPT ![t] = FALSE]
                 /\ UNCHANGED live
                 /\ IF Skips(r) THEN UNCHANGED <<key, ppc>>
                    ELSE key' = [key EXCEPT ![t] = r.token] /\ To(t, "pairValue")
  BY <1>2, Zenon DEF ParsePairKey
<1>4. UNCHANGED <<target, parsed>>
  BY DEF ParsePairKey
<1>5. NUL \notin equal
  BY DEF NUL
<1> HIDE DEF p, equal
<1>7. /\ s \in Texts /\ i \in 1..(Len(s) + 1) /\ Left(s, i) = x
      /\ r = NextToken(s, i, equal)
      /\ r.token \in Texts /\ r.found \in BOOLEAN /\ (r.found <=> r.token # <<>>)
      /\ save' \in SaveType /\ mem' \in MemType
      /\ save'.area = "copy"
      /\ save'.pos \in 1..(Len(mem'[save'.thread][save'.area]) + 1)
      /\ Left(mem'[save'.thread][save'.area], save'.pos) = end(r)
  <2>1. Moves(p, r)
    BY <1>3, Zenon
  <2> QED BY <1>1, <1>2, <1>5, <2>1, ReadHere DEF p
<1>8. piece[t] # "rest" /\ Underway(t)
  BY <1>1, <1>2, NotLate
<1>9. AtPairKey(t)
  BY <1>2, <1>8 DEF Underway
<1>10. Located(t) /\ Headed(t, 4)
  BY <1>9, Zenon DEF AtPairKey
<1>11. Located(t)' /\ Headed(t, 4)'
  BY <1>1, <1>4, <1>10, PlaceStays
<1>12. \/ OfBody(t) /\ KeyAhead(x, q.form, parsed[t].body, w)
       \/ OfQuery(t) /\ KeyAhead(x, q.query, parsed[t].query, Entire)
  BY <1>9, Zenon DEF AtPairKey
<1>13. q.form \in Fields /\ q.query \in Fields
  BY <1>1, RequestIs
<1>14. parsed[t].body \in PairList /\ parsed[t].query \in PairList
  BY <1>1 DEF ParserType, ParsedType
<1> DEFINE y == end(r)
           skip == Skips(r)
<1>15. ASSUME NEW F, F \in Fields, NEW list, list \in PairList, NEW whole,
              KeyAhead(x, F, list, whole)
       PROVE  /\ ~r.found => PairsOf(F, list, whole)
              /\ r.found /\ skip => KeyAhead(y, F, list, whole)
              /\ r.found /\ ~skip => ValueAhead(y, r.token, F, list, whole)
  <2>1. KeyAhead(Left(s, i), F, list, whole)
    BY <1>7, <1>15, Zenon
  <2> HIDE DEF s, i, x
  <2> QED BY <1>7, <1>15, <2>1, KeyRead DEF equal
<1> HIDE DEF s, i, x, y, w, q, skip
<1>16. CASE r.found
  <2> DEFINE label == IF skip THEN "pairKey" ELSE "pairValue"
  <2>1. fresh' = [fresh EXCEPT ![t] = FALSE] /\ live' = live
    BY <1>3, <1>16, Zenon
  <2>2. /\ skip => key' = key /\ ppc' = ppc
        /\ ~skip => key' = [key EXCEPT ![t] = r.token] /\ ppc' = [ppc EXCEPT ![t] = "pairValue"]
    BY <1>3, <1>16, Zenon DEF To, skip
  <2>3. ppc' = [ppc EXCEPT ![t] = label] \/ (ppc' = ppc /\ ppc[t] = label)
    BY <1>2, <2>2
  <2>4. key' \in KeyType /\ (~skip => key'[t] = r.token) /\ fresh' \in [Thread -> BOOLEAN]
        /\ ~fresh'[t] /\ parsed' \in ParsedType
    <3>1. key \in KeyType /\ fresh \in [Thread -> BOOLEAN] /\ parsed \in ParsedType
      BY <1>1 DEF ParserType
    <3> QED BY <1>4, <1>7, <2>1, <2>2, <3>1 DEF KeyType
  <2>5. label \in CopyStep /\ (skip => label = "pairKey") /\ (~skip => label = "pairValue")
    BY DEF CopyStep
  <2> HIDE DEF label
  <2>6. /\ ParserType(t)' /\ ppc'[t] = label
        /\ Coming(t)' = Left(mem'[save'.thread][save'.area], save'.pos)
    BY <1>1, <1>2, <1>4, <1>7, <2>1, <2>3, <2>4, <2>5, TypeAfter
  <2>7. Coming(t)' = y
    BY <1>7, <2>6 DEF y
  <2>8. CASE OfBody(t) /\ KeyAhead(x, q.form, parsed[t].body, w)
    <3>1. OfBody(t)'
      BY <1>4, <2>8 DEF OfBody
    <3>2. CASE skip
      <4>1. KeyAhead(y, q.form, parsed[t].body, w)
        BY <1>13, <1>14, <1>15, <1>16, <2>8, <3>2
      <4>2. KeyAhead(Coming(t)', asking'[t].form, parsed'[t].body, Whole(t)')
        BY <1>1, <1>4, <2>7, <4>1, Zenon DEF q, w
      <4>3. AtPairKey(t)'
        BY <1>11, <3>1, <4>2, Zenon DEF AtPairKey
      <4>4. Underway(t)' /\ ppc'[t] # "idle"
        BY <2>5, <2>6, <3>2, <4>3 DEF Underway
      <4> QED BY <1>8, <2>6, <4>4, StillParsing
    <3>3. CASE ~skip
      <4>1. ValueAhead(y, r.token, q.form, parsed[t].body, w)
        BY <1>13, <1>14, <1>15, <1>16, <2>8, <3>3
      <4>2. ValueAhead(Coming(t)', key'[t], asking'[t].form, parsed'[t].body, Whole(t)')
        BY <1>1, <1>4, <2>4, <2>7, <3>3, <4>1, Zenon DEF q, w
      <4>3. AtPairValue(t)'
        BY <1>11, <3>1, <4>2, Zenon DEF AtPairValue
      <4>4. Underway(t)' /\ ppc'[t] # "idle"
        BY <2>5, <2>6, <3>3, <4>3 DEF Underway
      <4> QED BY <1>8, <2>6, <4>4, StillParsing
    <3> QED BY <3>2, <3>3
  <2>9. CASE OfQuery(t) /\ KeyAhead(x, q.query, parsed[t].query, Entire)
    <3>1. OfQuery(t)'
      <4>1. BodyOK(t)'
        <5>1. PairsOf(asking'[t].form, parsed'[t].body, Whole(t)')
          BY <1>1, <1>4, <2>9, Zenon DEF OfQuery, BodyOK, w
        <5> QED BY <5>1, Zenon DEF BodyOK
      <4> QED BY <1>1, <1>4, <2>9, <4>1 DEF OfQuery
    <3>2. CASE skip
      <4>1. KeyAhead(y, q.query, parsed[t].query, Entire)
        BY <1>13, <1>14, <1>15, <1>16, <2>9, <3>2
      <4>2. KeyAhead(Coming(t)', asking'[t].query, parsed'[t].query, Entire)
        BY <1>1, <1>4, <2>7, <4>1, Zenon DEF q
      <4>3. AtPairKey(t)'
        BY <1>11, <3>1, <4>2, Zenon DEF AtPairKey
      <4>4. Underway(t)' /\ ppc'[t] # "idle"
        BY <2>5, <2>6, <3>2, <4>3 DEF Underway
      <4> QED BY <1>8, <2>6, <4>4, StillParsing
    <3>3. CASE ~skip
      <4>1. ValueAhead(y, r.token, q.query, parsed[t].query, Entire)
        BY <1>13, <1>14, <1>15, <1>16, <2>9, <3>3
      <4>2. ValueAhead(Coming(t)', key'[t], asking'[t].query, parsed'[t].query, Entire)
        BY <1>1, <1>4, <2>4, <2>7, <3>3, <4>1, Zenon DEF q
      <4>3. AtPairValue(t)'
        BY <1>11, <3>1, <4>2, Zenon DEF AtPairValue
      <4>4. Underway(t)' /\ ppc'[t] # "idle"
        BY <2>5, <2>6, <3>3, <4>3 DEF Underway
      <4> QED BY <1>8, <2>6, <4>4, StillParsing
    <3> QED BY <3>2, <3>3
  <2> QED BY <1>12, <2>8, <2>9
<1>17. CASE ~r.found
  <2>1. PairsEnd(t, target[t], AfterPairs(t)) /\ key' = key
    BY <1>3, <1>17, Zenon
  <2>2. key' \in KeyType
    BY <1>1, <2>1 DEF ParserType
  <2>3. \/ OfBody(t) /\ PairsOf(q.form, parsed[t].body, w)
        \/ OfQuery(t) /\ PairsOf(q.query, parsed[t].query, Entire)
    BY <1>12, <1>13, <1>14, <1>15, <1>17
  <2>4. ParserType(t)' /\ Underway(t)' /\ ppc'[t] # "idle"
    <3>1. \/ OfBody(t) /\ PairsOf(asking[t].form, parsed[t].body, Whole(t))
          \/ OfQuery(t) /\ PairsOf(asking[t].query, parsed[t].query, Entire)
      BY <2>3, Zenon DEF q, w
    <3>2. asking[t] \in Requests
      BY <1>1 DEF q
    <3> QED BY <1>1, <1>2, <1>4, <1>7, <1>10, <2>1, <2>2, <3>1, <3>2, PairsEnded
  <2> QED BY <1>8, <2>4, StillParsing
<1> QED BY <1>7, <1>16, <1>17

\* strtok for the value of a field (request.c:81-97).
LEMMA PairValueStep ==
    ASSUME NEW t, Thread = {t}, ParsingInv(t), hpc[t] = "parsing", UNCHANGED handler,
           ParsePairValue(t)
    PROVE  ParsingInv(t)'
<1> DEFINE q == asking[t]
           p == Place(t)
           s == mem[p.thread][p.area]
           i == p.pos
           x == Coming(t)
           w == Whole(t)
           amp == {"&"}
           end(r) == Left(r.text, r.next)
<1>1. /\ ParserType(t) /\ q \in Requests /\ w \in BOOLEAN
      /\ IF piece[t] = "rest" THEN LateAt(t) ELSE Underway(t)
      /\ asking' = asking /\ piece' = piece /\ Whole(t)' = w
  BY ParsingIs
<1>2. ppc[t] = "pairValue" /\ p = save /\ ppc[t] \in CopyStep /\ ~fresh[t]
  BY <1>1 DEF ParsePairValue, Place, From, CopyStep, ParserType
<1>3. PICK r \in Reads(p, amp) :
         /\ Moves(p, r)
         /\ IF r.found
            THEN /\ parsed' = [parsed EXCEPT ![t][target[t]] =
                                  AddPair(UrlDecode(key[t]), UrlDecode(r.token), @)]
                 /\ To(t, "pairKey")
                 /\ UNCHANGED <<live, fresh>>
            ELSE PairsEnd(t, target[t], AfterPairs(t)) /\ UNCHANGED parsed
  BY <1>2, Zenon DEF ParsePairValue
<1>4. UNCHANGED <<target, key>>
  BY DEF ParsePairValue
<1>5. NUL \notin amp
  BY DEF NUL
<1> HIDE DEF p, amp
<1>7. /\ s \in Texts /\ i \in 1..(Len(s) + 1) /\ Left(s, i) = x
      /\ r = NextToken(s, i, amp)
      /\ r.token \in Texts /\ r.found \in BOOLEAN /\ (r.found <=> r.token # <<>>)
      /\ save' \in SaveType /\ mem' \in MemType
      /\ save'.area = "copy"
      /\ save'.pos \in 1..(Len(mem'[save'.thread][save'.area]) + 1)
      /\ Left(mem'[save'.thread][save'.area], save'.pos) = end(r)
  <2>1. Moves(p, r)
    BY <1>3, Zenon
  <2> QED BY <1>1, <1>2, <1>5, <2>1, ReadHere DEF p
<1>8. piece[t] # "rest" /\ Underway(t)
  BY <1>1, <1>2, NotLate
<1>9. AtPairValue(t)
  BY <1>2, <1>8 DEF Underway
<1>10. Located(t) /\ Headed(t, 4)
  BY <1>9, Zenon DEF AtPairValue
<1> DEFINE name == key[t]
           k == UrlDecode(name)
           v == UrlDecode(r.token)
           y == end(r)
<1>11. \/ OfBody(t) /\ ValueAhead(x, name, q.form, parsed[t].body, w)
       \/ OfQuery(t) /\ ValueAhead(x, name, q.query, parsed[t].query, Entire)
  BY <1>9, Zenon DEF AtPairValue
<1>12. q.form \in Fields /\ q.query \in Fields
  BY <1>1, RequestIs
<1>13. parsed[t].body \in PairList /\ parsed[t].query \in PairList /\ parsed \in ParsedType
  BY <1>1 DEF ParserType, ParsedType
<1>14. name \in Texts /\ k \in Texts /\ v \in Texts /\ <<k, v>> \in Texts \X Texts
  <2>1. name \in Texts
    BY <1>1 DEF ParserType, KeyType
  <2>2. k \in Texts /\ v \in Texts
    BY <1>7, <2>1, DecodeIs
  <2> HIDE DEF k, v
  <2> QED BY <2>1, <2>2
<1>15. ASSUME NEW F, F \in Fields, NEW list, list \in PairList, NEW whole,
              ValueAhead(x, name, F, list, whole)
       PROVE  /\ ~r.found => PairsOf(F, list, whole)
              /\ r.found => KeyAhead(y, F, AddPair(k, v, list), whole)
              /\ AddPair(k, v, list) \in PairList
  <2>1. ValueAhead(Left(s, i), name, F, list, whole)
    BY <1>7, <1>15, Zenon
  <2>2. AddPair(k, v, list) \in PairList
    <3> HIDE DEF k, v
    <3> QED BY <1>14, <1>15, AddPairIs DEF PairList
  <2> HIDE DEF s, i, x, name
  <2> QED BY <1>7, <1>14, <1>15, <2>1, <2>2, ValueRead DEF amp
<1> HIDE DEF s, i, x, y, w, q, k, v, name
<1>16. CASE r.found
  <2> DEFINE form == AddPair(k, v, parsed[t].body)
             query == AddPair(k, v, parsed[t].query)
  <2>1. ppc' = [ppc EXCEPT ![t] = "pairKey"] /\ live' = live /\ fresh' = fresh
    BY <1>3, <1>16, Zenon DEF To
  <2>2. parsed' = [parsed EXCEPT ![t][target[t]] = AddPair(k, v, @)]
    BY <1>3, <1>16, Zenon DEF k, v, name
  <2>3. "pairKey" \in CopyStep
    BY DEF CopyStep
  <2>4. key' \in KeyType /\ fresh' \in [Thread -> BOOLEAN] /\ ~fresh'[t]
    BY <1>1, <1>2, <1>4, <2>1 DEF ParserType
  <2>5. ASSUME parsed' \in ParsedType
        PROVE  ParserType(t)' /\ ppc'[t] = "pairKey" /\ Coming(t)' = y
    <3>1. /\ ParserType(t)' /\ ppc'[t] = "pairKey"
          /\ Coming(t)' = Left(mem'[save'.thread][save'.area], save'.pos)
      BY <1>1, <1>2, <1>4, <1>7, <2>1, <2>3, <2>4, <2>5, TypeAfter
    <3> QED BY <1>7, <3>1 DEF y
  <2>6. CASE OfBody(t) /\ ValueAhead(x, name, q.form, parsed[t].body, w)
    <3>1. parsed' = [parsed EXCEPT ![t].body = form]
      BY <2>2, <2>6 DEF OfBody
    <3>2. form \in PairList /\ KeyAhead(y, q.form, form, w)
      BY <1>12, <1>13, <1>15, <1>16, <2>6
    <3> HIDE DEF form
    <3>3. /\ parsed' \in ParsedType /\ parsed'[t].body = form
          /\ parsed'[t].method = parsed[t].method /\ parsed'[t].path = parsed[t].path
          /\ parsed'[t].uri = parsed[t].uri /\ parsed'[t].headers = parsed[t].headers
          /\ parsed'[t].query = parsed[t].query /\ parsed'[t].cookies = parsed[t].cookies
      BY <1>13, <3>1, <3>2 DEF ParsedType
    <3>4. ParserType(t)' /\ ppc'[t] = "pairKey" /\ Coming(t)' = y
      BY <2>5, <3>3
    <3>5. Located(t)' /\ Headed(t, 4)'
      BY <1>1, <1>10, <3>3, PlaceStays
    <3>6. OfBody(t)'
      BY <1>4, <2>6, <3>3 DEF OfBody
    <3>7. KeyAhead(Coming(t)', asking'[t].form, parsed'[t].body, Whole(t)')
      BY <1>1, <3>2, <3>3, <3>4, Zenon DEF q, w
    <3>8. AtPairKey(t)'
      BY <3>5, <3>6, <3>7, Zenon DEF AtPairKey
    <3>9. Underway(t)' /\ ppc'[t] # "idle"
      BY <3>4, <3>8 DEF Underway
    <3> QED BY <1>8, <3>4, <3>9, StillParsing
  <2>7. CASE OfQuery(t) /\ ValueAhead(x, name, q.query, parsed[t].query, Entire)
    <3>1. parsed' = [parsed EXCEPT ![t].query = query]
      BY <2>2, <2>7 DEF OfQuery
    <3>2. query \in PairList /\ KeyAhead(y, q.query, query, Entire)
      BY <1>12, <1>13, <1>15, <1>16, <2>7
    <3> HIDE DEF query
    <3>3. /\ parsed' \in ParsedType /\ parsed'[t].query = query
          /\ parsed'[t].method = parsed[t].method /\ parsed'[t].path = parsed[t].path
          /\ parsed'[t].uri = parsed[t].uri /\ parsed'[t].headers = parsed[t].headers
          /\ parsed'[t].body = parsed[t].body /\ parsed'[t].cookies = parsed[t].cookies
      BY <1>13, <3>1, <3>2 DEF ParsedType
    <3>4. ParserType(t)' /\ ppc'[t] = "pairKey" /\ Coming(t)' = y
      BY <2>5, <3>3
    <3>5. Located(t)' /\ Headed(t, 4)'
      BY <1>1, <1>10, <3>3, PlaceStays
    <3>6. OfQuery(t)'
      <4>1. BodyOK(t)'
        <5>1. PairsOf(asking'[t].form, parsed'[t].body, Whole(t)')
          BY <1>1, <2>7, <3>3, Zenon DEF OfQuery, BodyOK, w
        <5> QED BY <5>1, Zenon DEF BodyOK
      <4> QED BY <1>1, <1>4, <2>7, <3>3, <4>1 DEF OfQuery
    <3>7. KeyAhead(Coming(t)', asking'[t].query, parsed'[t].query, Entire)
      BY <1>1, <3>2, <3>3, <3>4, Zenon DEF q
    <3>8. AtPairKey(t)'
      BY <3>5, <3>6, <3>7, Zenon DEF AtPairKey
    <3>9. Underway(t)' /\ ppc'[t] # "idle"
      BY <3>4, <3>8 DEF Underway
    <3> QED BY <1>8, <3>4, <3>9, StillParsing
  <2> QED BY <1>11, <2>6, <2>7
<1>17. CASE ~r.found
  <2>1. PairsEnd(t, target[t], AfterPairs(t)) /\ parsed' = parsed
    BY <1>3, <1>17, Zenon
  <2>2. key' \in KeyType
    BY <1>1, <1>4 DEF ParserType
  <2>3. \/ OfBody(t) /\ PairsOf(q.form, parsed[t].body, w)
        \/ OfQuery(t) /\ PairsOf(q.query, parsed[t].query, Entire)
    BY <1>11, <1>12, <1>13, <1>15, <1>17
  <2>4. ParserType(t)' /\ Underway(t)' /\ ppc'[t] # "idle"
    <3>1. \/ OfBody(t) /\ PairsOf(asking[t].form, parsed[t].body, Whole(t))
          \/ OfQuery(t) /\ PairsOf(asking[t].query, parsed[t].query, Entire)
      BY <2>3, Zenon DEF q, w
    <3>2. asking[t] \in Requests
      BY <1>1 DEF q
    <3> QED BY <1>1, <1>2, <1>4, <1>7, <1>10, <2>1, <2>2, <3>1, <3>2, PairsEnded
  <2> QED BY <1>8, <2>4, StillParsing
<1> QED BY <1>7, <1>16, <1>17

-----------------------------------------------------------------------------
(* The invariant of handle.                                                *)

\* A step of requestNew keeps it.
LEMMA ParseKeeps ==
    ASSUME NEW t, Thread = {t}, ParsingInv(t), hpc[t] = "parsing", UNCHANGED handler,
           ParseStep(t)
    PROVE  ParsingInv(t)'
<1>1. CASE ParseMethod(t)
  BY <1>1, MethodStep
<1>2. CASE ParsePath(t)
  BY <1>2, PathStep
<1>3. CASE ParseVersion(t)
  BY <1>3, VersionStep
<1>4. CASE ParseHeaderName(t)
  BY <1>4, HeaderNameStep
<1>5. CASE ParseHeaderValue(t)
  BY <1>5, HeaderValueStep
<1>6. CASE ParseBody(t)
  BY <1>6, BodyStep
<1>7. CASE NoBody(t)
  BY <1>7, NoBodyStep
<1>8. CASE ParseQuery(t)
  BY <1>8, QueryStep
<1>9. CASE ParseCookies(t)
  BY <1>9, CookiesStep
<1>10. CASE ParsePairKey(t)
  BY <1>10, PairKeyStep
<1>11. CASE ParsePairValue(t)
  BY <1>11, PairValueStep
<1>12. CASE ParseCookieKey(t)
  BY <1>12, CookieKeyStep
<1>13. CASE ParseCookieValue(t)
  BY <1>13, CookieValueStep
<1> QED BY <1>1, <1>2, <1>3, <1>4, <1>5, <1>6, <1>7, <1>8, <1>9, <1>10, <1>11, <1>12, <1>13
        DEF ParseStep

\* While the parser and its text are left alone, what is known of them holds.
LEMMA ParserStays ==
    ASSUME NEW t, UNCHANGED <<parser, asking, piece>>
    PROVE  /\ ParserType(t) => ParserType(t)'
           /\ Underway(t) => Underway(t)'
           /\ LateAt(t) => LateAt(t)'
<1>1. /\ save' = save /\ mem' = mem /\ live' = live /\ ppc' = ppc /\ fresh' = fresh
      /\ target' = target /\ key' = key /\ parsed' = parsed
      /\ asking' = asking /\ piece' = piece
  BY DEF parser
<1>2. Place(t)' = Place(t)
  BY <1>1 DEF Place, From, Start
<1>3. Coming(t)' = Coming(t)
  BY <1>1, <1>2, Zenon DEF Coming
<1>4. Whole(t)' = Whole(t)
  BY <1>1 DEF Whole
<1>5. ParserType(t) => ParserType(t)'
  <2>1. SaveOK(t) => SaveOK(t)'
    BY <1>1, <1>2, Zenon DEF SaveOK
  <2> QED BY <1>1, <2>1, Zenon DEF ParserType
<1>6. LateAt(t) => LateAt(t)'
  BY <1>1, <1>3, Zenon DEF LateAt
<1>7. (Located(t) => Located(t)') /\ (Unlisted(t) => Unlisted(t)') /\ (MethodOK(t) => MethodOK(t)')
  BY <1>1, Zenon DEF Located, Unlisted, MethodOK
<1>8. ASSUME NEW k PROVE Headed(t, k) => Headed(t, k)'
  BY <1>1, <1>4, Zenon DEF Headed
<1>9. (BodyOK(t) => BodyOK(t)') /\ (QueryOK(t) => QueryOK(t)')
  BY <1>1, <1>4, Zenon DEF BodyOK, QueryOK
<1>10. (OfBody(t) => OfBody(t)') /\ (OfQuery(t) => OfQuery(t)')
  BY <1>1, <1>9, Zenon DEF OfBody, OfQuery
<1>11. AtMethod(t) => AtMethod(t)'
  BY <1>1, <1>3, <1>4, <1>7, Zenon DEF AtMethod, Remains
<1>12. AtPath(t) => AtPath(t)'
  BY <1>1, <1>3, <1>4, <1>7, Zenon DEF AtPath, Remains
<1>13. AtVersion(t) => AtVersion(t)'
  BY <1>1, <1>3, <1>4, <1>7, Zenon DEF AtVersion, Remains
<1>14. AtHeader(t) => AtHeader(t)'
  BY <1>1, <1>3, <1>4, <1>7, <1>8, Zenon DEF AtHeader, Remains
<1>15. AtHeaderValue(t) => AtHeaderValue(t)'
  BY <1>1, <1>3, <1>4, <1>7, <1>8, Zenon DEF AtHeaderValue, Remains
<1>16. AtBody(t) => AtBody(t)'
  BY <1>1, <1>3, <1>4, <1>7, <1>8, Zenon DEF AtBody, Remains
<1>17. AtQuery(t) => AtQuery(t)'
  BY <1>1, <1>7, <1>8, <1>9, Zenon DEF AtQuery
<1>18. AtCookies(t) => AtCookies(t)'
  BY <1>1, <1>7, <1>8, <1>9, Zenon DEF AtCookies
<1>19. AtCookieKey(t) => AtCookieKey(t)'
  BY <1>1, <1>3, <1>4, <1>7, <1>8, <1>9, Zenon DEF AtCookieKey
<1>20. AtCookieValue(t) => AtCookieValue(t)'
  BY <1>1, <1>3, <1>4, <1>7, <1>8, <1>9, Zenon DEF AtCookieValue
<1>21. AtParsed(t) => AtParsed(t)'
  BY <1>1, <1>4, <1>7, <1>8, <1>9, Zenon DEF AtParsed
<1>22. AtPairKey(t) => AtPairKey(t)'
  BY <1>1, <1>3, <1>4, <1>7, <1>8, <1>10, Zenon DEF AtPairKey
<1>23. AtPairValue(t) => AtPairValue(t)'
  BY <1>1, <1>3, <1>4, <1>7, <1>8, <1>10, Zenon DEF AtPairValue
<1>24. AtFail(t) => AtFail(t)'
  BY <1>1, <1>4, Zenon DEF AtFail
<1>25. Underway(t) => Underway(t)'
  BY <1>1, <1>11, <1>12, <1>13, <1>14, <1>15, <1>16, <1>17, <1>18, <1>19, <1>20, <1>21, <1>22,
     <1>23, <1>24 DEF Underway
<1> QED BY <1>5, <1>6, <1>25

\* handle goes on with a request that is parsed, or stays where it is.
LEMMA HandlerGoesOn ==
    ASSUME NEW t, ParsingInv(t), UNCHANGED <<parser, asking, piece, unread>>,
           DOMAIN hpc' = Thread, DOMAIN wire' = Thread, hpc'[t] = "idle" <=> ppc[t] = "idle",
           hpc'[t] \in {"searching", "called"} => ppc[t] = "parsed",
           hpc'[t] = "sent" => ppc[t] \in {"parsed", "fail"}, hpc'[t] # "sent" => wire'[t] = NULL
    PROVE  ParsingInv(t)'
<1>1. /\ ParserType(t) => ParserType(t)'
      /\ Underway(t) => Underway(t)'
      /\ LateAt(t) => LateAt(t)'
  BY ParserStays
<1>2. ppc' = ppc /\ asking' = asking /\ piece' = piece /\ unread' = unread
  BY DEF parser
<1>3. HandleType(t) /\ ParserType(t) /\ (ppc[t] # "idle" => IF piece[t] = "rest" THEN LateAt(t) ELSE Underway(t))
  BY DEF ParsingInv
<1>4. HandleType(t)'
  BY <1>2, <1>3 DEF HandleType, UnreadOK
<1> QED BY <1>1, <1>2, <1>3, <1>4 DEF ParsingInv

\* requestNew begins with the bytes that came.
LEMMA ParseBegins ==
    ASSUME NEW t, Thread = {t}, ParserType(t), NEW bytes, bytes \in Texts, Parse(t, bytes)
    PROVE  /\ ParserType(t)' /\ ppc'[t] = "method" /\ Coming(t)' = bytes
           /\ parsed'[t] = Blank
<1>1. /\ ppc[t] = "idle" /\ mem' = [mem EXCEPT ![t].buff = bytes]
      /\ live' = [live EXCEPT ![t] = {"buff"}] /\ parsed' = [parsed EXCEPT ![t] = Blank]
      /\ ppc' = [ppc EXCEPT ![t] = "method"] /\ UNCHANGED <<save, fresh, target, key>>
  BY DEF Parse, To
<1>2. /\ DOMAIN ppc = Thread /\ live \in [Thread -> SUBSET {"buff", "copy"}]
      /\ mem \in MemType /\ parsed \in ParsedType /\ ~fresh[t]
  BY <1>1 DEF ParserType
<1>3. ppc'[t] = "method" /\ DOMAIN ppc' = Thread
  BY <1>1, <1>2
<1>4. live' \in [Thread -> SUBSET {"buff", "copy"}] /\ "buff" \in live'[t]
  BY <1>1, <1>2
<1>5. mem' \in MemType /\ mem'[t].buff = bytes
  BY <1>1, <1>2 DEF MemType, TextType
<1>6. Blank \in [method : Word, path : Texts, uri : Texts, headers : PairList,
                 query : PairList, body : PairList, cookies : PairList]
  <2>1. <<>> \in Texts /\ <<>> \in PairList
    BY EmptySeq DEF Texts, PairList
  <2>2. "UNKNOWN" \in Word
    BY DEF Word, Spelled
  <2> QED BY <2>1, <2>2 DEF Blank
<1>7. parsed' \in ParsedType /\ parsed'[t] = Blank
  <2> HIDE DEF Blank
  <2> QED BY <1>1, <1>2, <1>6 DEF ParsedType
<1>8. Coming(t)' = bytes
  <2>1. Place(t)' = [thread |-> t, area |-> "buff", pos |-> 1]
    BY <1>3 DEF Place, Start
  <2>2. Coming(t)' = Left(bytes, 1)
    BY <1>5, <2>1 DEF Coming
  <2>3. Left(bytes, 1) = bytes
    BY SubSeqFull DEF Left, Texts
  <2> QED BY <2>2, <2>3
<1>9. SaveOK(t)'
  BY <1>3, <1>4 DEF SaveOK, CopyStep, BuffStep
<1> QED BY <1>1, <1>2, <1>3, <1>4, <1>5, <1>7, <1>8, <1>9 DEF ParserType

\* No worker has begun.
LEMMA ParsingInit ==
    ASSUME NEW t, Thread = {t}, Init
    PROVE  ParsingInv(t)
<1>1. /\ save = NoSave /\ mem = NoText /\ live = [u \in Thread |-> {}]
      /\ ppc = [u \in Thread |-> "idle"] /\ fresh = [u \in Thread |-> FALSE]
      /\ target = [u \in Thread |-> "none"] /\ key = [u \in Thread |-> <<>>]
      /\ parsed = [u \in Thread |-> Blank]
  BY DEF Init, ParserInit
<1>2. /\ hpc = [u \in Thread |-> "idle"] /\ asking = [u \in Thread |-> NULL]
      /\ piece = [u \in Thread |-> "whole"] /\ unread = [u \in Thread |-> <<>>]
      /\ wire = [u \in Thread |-> NULL]
  BY DEF Init
<1>3. save \in SaveType
  BY <1>1 DEF NoSave, SaveType
<1>4. <<>> \in Texts /\ <<>> \in PairList /\ "UNKNOWN" \in Word
  BY EmptySeq DEF Texts, PairList, Word, Spelled
<1>5. mem \in MemType
  BY <1>1, <1>4 DEF NoText, MemType, TextType
<1>6. key \in KeyType
  BY <1>1, <1>4 DEF KeyType
<1>7. parsed \in ParsedType
  BY <1>1, <1>4 DEF ParsedType, Blank
<1>8. ppc[t] = "idle" /\ hpc[t] = "idle" /\ unread[t] = <<>> /\ wire[t] = NULL /\ piece[t] = "whole"
      /\ fresh[t] = FALSE
  BY <1>1, <1>2
<1>9. ParserType(t)
  <2>1. SaveOK(t)
    BY <1>8 DEF SaveOK, CopyStep, BuffStep
  <2>2. /\ live \in [Thread -> SUBSET {"buff", "copy"}] /\ DOMAIN ppc = Thread
        /\ DOMAIN target = Thread /\ fresh \in [Thread -> BOOLEAN]
    BY <1>1
  <2> QED BY <1>3, <1>5, <1>6, <1>7, <1>8, <2>1, <2>2 DEF ParserType
<1>10. HandleType(t)
  BY <1>2, <1>8 DEF HandleType, UnreadOK
<1> QED BY <1>8, <1>9, <1>10 DEF ParsingInv

\* A request comes, or its first piece.
LEMMA ReceiveKeeps ==
    ASSUME NEW t, Thread = {t}, ParsingInv(t), Receive(t)
    PROVE  ParsingInv(t)'
<1>1. PICK r \in Requests :
         LET text == Encode(r)
             come == Len(text) - r.late
         IN  /\ come > 0
             /\ asking' = [asking EXCEPT ![t] = r]
             /\ piece' = [piece EXCEPT ![t] = IF r.late = 0 THEN "whole" ELSE "first"]
             /\ unread' = [unread EXCEPT ![t] = SubSeq(text, come + 1, Len(text))]
             /\ Parse(t, SubSeq(text, 1, come))
  BY Zenon DEF Receive
<1>2. hpc[t] = "idle" /\ hpc' = [hpc EXCEPT ![t] = "parsing"] /\ wire' = wire
  BY DEF Receive, At, Step
<1>3. HandleType(t) /\ ParserType(t)
  BY DEF ParsingInv
<1> DEFINE text == Encode(r)
           come == Len(text) - r.late
           bytes == SubSeq(text, 1, come)
<1>4. text \in Seq(TextWord) /\ text \in Seq(Word)
  <2>1. text \in Seq(TextWord)
    BY EncodeIs
  <2> QED BY <2>1, SeqMonotonic DEF TextWord
<1>5. r.late \in Nat
  BY RequestsAssumption
<1>6. come > 0 /\ Len(text) \in Nat
  BY <1>1, <1>4, LenProperties
<1>7. come \in 1..Len(text) /\ come \in 0..Len(text) /\ (r.late = 0 <=> come = Len(text))
  <2> HIDE DEF text
  <2> QED BY <1>5, <1>6
<1>8. /\ asking' = [asking EXCEPT ![t] = r]
      /\ piece' = [piece EXCEPT ![t] = IF r.late = 0 THEN "whole" ELSE "first"]
      /\ unread' = [unread EXCEPT ![t] = Left(text, come + 1)]
      /\ Parse(t, bytes)
  BY <1>1, Zenon DEF Left
<1> HIDE DEF text, come
<1>9. bytes \in Texts
  <2>1. bytes \in Seq(Word)
    BY <1>4, <1>7, BeginningIs
  <2> QED BY <2>1 DEF Texts
<1> HIDE DEF bytes
<1>10. ParserType(t)' /\ ppc'[t] = "method" /\ Coming(t)' = bytes /\ parsed'[t] = Blank
  BY <1>3, <1>8, <1>9, ParseBegins
<1>11. /\ DOMAIN hpc' = Thread /\ DOMAIN asking' = Thread /\ DOMAIN piece' = Thread
       /\ DOMAIN unread' = Thread /\ DOMAIN wire' = Thread
       /\ hpc'[t] = "parsing" /\ asking'[t] = r /\ unread'[t] = Left(text, come + 1)
       /\ piece'[t] = (IF r.late = 0 THEN "whole" ELSE "first") /\ wire'[t] = NULL
  BY <1>2, <1>3, <1>8 DEF HandleType
<1>12. UnreadOK(t)'
  <2>1. \E n \in 1..Len(Encode(asking'[t])) : unread'[t] = Left(Encode(asking'[t]), n + 1)
    BY <1>7, <1>11, Zenon DEF text
  <2> QED BY <2>1, Zenon DEF UnreadOK
<1>13. HandleType(t)'
  <2>1. /\ DOMAIN hpc' = Thread /\ DOMAIN asking' = Thread /\ DOMAIN piece' = Thread
        /\ DOMAIN unread' = Thread /\ DOMAIN wire' = Thread
        /\ piece'[t] \in {"whole", "first", "rest"} /\ hpc'[t] = "parsing" /\ ppc'[t] = "method"
        /\ asking'[t] \in Requests /\ wire'[t] = NULL
    BY <1>10, <1>11
  <2> QED BY <1>12, <2>1 DEF HandleType
<1>14. AtMethod(t)'
  <2> DEFINE w == Whole(t)'
  <2>1. w => come = Len(text)
    BY <1>7, <1>11 DEF Whole
  <2> HIDE DEF w
  <2>2. Comes(bytes, text, w)
    BY <1>7, <2>1, Zenon DEF Comes, bytes
  <2>3. Comes(Coming(t)', Encode(asking'[t]), Whole(t)')
    BY <1>10, <1>11, <2>2, Zenon DEF text, w
  <2>4. parsed'[t].headers = <<>> /\ Unlisted(t)'
    BY <1>10 DEF Unlisted, Blank
  <2> QED BY <2>3, <2>4, Zenon DEF AtMethod, Remains
<1>15. Underway(t)'
  BY <1>10, <1>14 DEF Underway
<1>16. piece'[t] # "rest"
  BY <1>11
<1> QED BY <1>10, <1>13, <1>15, <1>16 DEF ParsingInv

\* What was late comes, and is taken for a request.
LEMMA ReceiveRestKeeps ==
    ASSUME NEW t, Thread = {t}, ParsingInv(t), ReceiveRest(t)
    PROVE  ParsingInv(t)'
<1>1. /\ hpc[t] = "idle" /\ unread[t] # <<>> /\ Parse(t, unread[t])
      /\ piece' = [piece EXCEPT ![t] = "rest"] /\ unread' = [unread EXCEPT ![t] = <<>>]
      /\ hpc' = [hpc EXCEPT ![t] = "parsing"] /\ wire' = wire /\ asking' = asking
  BY DEF ReceiveRest, At, Step
<1>2. HandleType(t) /\ ParserType(t)
  BY DEF ParsingInv
<1>3. asking[t] \in Requests
  BY <1>1, <1>2 DEF HandleType
<1>4. PICK n \in 1..Len(Encode(asking[t])) : unread[t] = Left(Encode(asking[t]), n + 1)
  BY <1>1, <1>2 DEF HandleType, UnreadOK
<1> DEFINE bytes == unread[t]
<1>5. bytes \in Texts /\ Clear(bytes, {}) /\ SpacedLate(bytes)
  BY <1>3, <1>4, LateIs
<1> HIDE DEF bytes
<1>6. ParserType(t)' /\ ppc'[t] = "method" /\ Coming(t)' = bytes
  BY <1>1, <1>2, <1>5, ParseBegins DEF bytes
<1>7. LateAt(t)'
  BY <1>5, <1>6 DEF LateAt
<1>8. /\ DOMAIN hpc' = Thread /\ DOMAIN asking' = Thread /\ DOMAIN piece' = Thread
      /\ DOMAIN unread' = Thread /\ DOMAIN wire' = Thread
      /\ hpc'[t] = "parsing" /\ asking'[t] \in Requests /\ unread'[t] = <<>>
      /\ piece'[t] = "rest" /\ wire'[t] = NULL
  BY <1>1, <1>2, <1>3 DEF HandleType
<1>9. HandleType(t)'
  BY <1>6, <1>8 DEF HandleType, UnreadOK
<1> QED BY <1>6, <1>7, <1>8, <1>9 DEF ParsingInv

\* The connection waits for the next request, or is closed.
LEMMA DoneKeeps ==
    ASSUME NEW t, Thread = {t}, ParsingInv(t), Done(t)
    PROVE  ParsingInv(t)'
<1>1. /\ hpc[t] = "sent" /\ Forget(t) /\ hpc' = [hpc EXCEPT ![t] = "idle"]
      /\ wire' = [wire EXCEPT ![t] = NULL] /\ piece' = [piece EXCEPT ![t] = "whole"]
      /\ \/ /\ asking' = [asking EXCEPT ![t] = IF unread[t] = <<>> THEN NULL ELSE @]
            /\ unread' = unread
         \/ /\ asking' = [asking EXCEPT ![t] = NULL]
            /\ unread' = [unread EXCEPT ![t] = <<>>]
  BY DEF Done, At, Step
<1>2. HandleType(t) /\ ParserType(t)
  BY DEF ParsingInv
<1>3. /\ save' = NoSave /\ mem' = NoText /\ live' = [live EXCEPT ![t] = {}]
      /\ fresh' = [fresh EXCEPT ![t] = FALSE] /\ target' = [target EXCEPT ![t] = "none"]
      /\ key' = [key EXCEPT ![t] = <<>>] /\ parsed' = [parsed EXCEPT ![t] = Blank]
      /\ ppc' = [ppc EXCEPT ![t] = "idle"]
  BY <1>1 DEF Forget, To
<1>4. <<>> \in Texts /\ <<>> \in PairList /\ "UNKNOWN" \in Word
  BY EmptySeq DEF Texts, PairList, Word, Spelled
<1>5. save' \in SaveType
  BY <1>3 DEF NoSave, SaveType
<1>6. mem' \in MemType
  BY <1>3, <1>4 DEF NoText, MemType, TextType
<1>7. key' \in KeyType
  BY <1>2, <1>3, <1>4 DEF KeyType, ParserType
<1>8. parsed' \in ParsedType
  BY <1>2, <1>3, <1>4 DEF ParsedType, ParserType, Blank
<1>9. ppc'[t] = "idle" /\ DOMAIN ppc' = Thread /\ DOMAIN target' = Thread
      /\ live' \in [Thread -> SUBSET {"buff", "copy"}]
      /\ fresh' \in [Thread -> BOOLEAN] /\ ~fresh'[t]
  BY <1>2, <1>3 DEF ParserType
<1>10. ParserType(t)'
  <2>1. SaveOK(t)'
    BY <1>9 DEF SaveOK, CopyStep, BuffStep
  <2> QED BY <1>5, <1>6, <1>7, <1>8, <1>9, <2>1 DEF ParserType
<1>11. /\ DOMAIN hpc' = Thread /\ DOMAIN asking' = Thread /\ DOMAIN piece' = Thread
       /\ DOMAIN unread' = Thread /\ DOMAIN wire' = Thread
       /\ hpc'[t] = "idle" /\ piece'[t] = "whole" /\ wire'[t] = NULL
  BY <1>1, <1>2 DEF HandleType
<1>12. unread'[t] # <<>> => unread'[t] = unread[t] /\ asking'[t] = asking[t]
  BY <1>1, <1>2 DEF HandleType
<1>13. asking[t] \in Requests /\ UnreadOK(t)
  BY <1>1, <1>2 DEF HandleType
<1>14. UnreadOK(t)'
  BY <1>12, <1>13 DEF UnreadOK
<1>15. HandleType(t)'
  BY <1>9, <1>11, <1>12, <1>13, <1>14 DEF HandleType
<1> QED BY <1>9, <1>10, <1>15 DEF ParsingInv

\* With one worker, whatever browsers send and wherever it is cut in two, the
\* parser is where the invariant says (request.c, cgi_event_dispatcher.c:244-317).
THEOREM ParsingInvariant ==
    ASSUME NEW t, Thread = {t}
    PROVE  Spec => []ParsingInv(t)
<1>1. Init => ParsingInv(t)
  BY ParsingInit
<1>2. ParsingInv(t) /\ [Next]_vars => ParsingInv(t)'
  <2> SUFFICES ASSUME ParsingInv(t), [Next]_vars
               PROVE  ParsingInv(t)'
    OBVIOUS
  <2>1. HandleType(t) /\ DOMAIN hpc = Thread /\ DOMAIN wire = Thread
    BY DEF ParsingInv, HandleType
  <2>2. ASSUME UNCHANGED <<parser, handler>> PROVE ParsingInv(t)'
    <3>1. UNCHANGED <<parser, asking, piece, unread>> /\ hpc' = hpc /\ wire' = wire
      BY <2>2 DEF handler
    <3> QED BY <2>1, <3>1, HandlerGoesOn DEF HandleType
  <2>3. CASE UNCHANGED vars
    BY <2>2, <2>3 DEF vars
  <2>4. CASE Loading
    BY <2>2, <2>4 DEF Loading
  <2>5. CASE Receive(t)
    BY <2>5, ReceiveKeeps
  <2>6. CASE ReceiveRest(t)
    BY <2>6, ReceiveRestKeeps
  <2>7. CASE Parsing(t)
    <3>1. hpc[t] = "parsing" /\ ParseStep(t) /\ UNCHANGED handler
      BY <2>7 DEF Parsing, At
    <3> QED BY <3>1, ParseKeeps
  <2>8. CASE BadRequest(t)
    <3>1. /\ hpc[t] = "parsing" /\ ppc[t] = "fail" /\ hpc' = [hpc EXCEPT ![t] = "sent"]
          /\ DOMAIN wire' = Thread /\ UNCHANGED <<parser, asking, piece, unread>>
      BY <2>1, <2>8 DEF BadRequest, At, Step
    <3>2. DOMAIN hpc' = Thread /\ hpc'[t] = "sent"
      BY <2>1, <3>1
    <3> QED BY <3>1, <3>2, HandlerGoesOn
  <2>9. CASE Session(t)
    <3>1. /\ hpc[t] = "parsing" /\ ppc[t] = "parsed" /\ hpc' = [hpc EXCEPT ![t] = "searching"]
          /\ wire' = wire /\ UNCHANGED <<parser, asking, piece, unread>>
      BY <2>9 DEF Session, At, Step
    <3>2. DOMAIN hpc' = Thread /\ hpc'[t] = "searching" /\ wire[t] = NULL
      BY <2>1, <3>1 DEF HandleType
    <3> QED BY <2>1, <3>1, <3>2, HandlerGoesOn
  <2>10. CASE SearchStep(t)
    BY <2>2, <2>10 DEF SearchStep
  <2>11. CASE NoHandler(t)
    BY <2>2, <2>11 DEF NoHandler
  <2>12. CASE Call(t)
    <3>1. /\ hpc[t] = "searching" /\ hpc' = [hpc EXCEPT ![t] = "called"]
          /\ wire' = wire /\ UNCHANGED <<parser, asking, piece, unread>>
      BY <2>12 DEF Call, At, Step
    <3>2. DOMAIN hpc' = Thread /\ hpc'[t] = "called" /\ wire[t] = NULL /\ ppc[t] = "parsed"
      BY <2>1, <3>1 DEF HandleType
    <3> QED BY <2>1, <3>1, <3>2, HandlerGoesOn
  <2>13. CASE NoResponse(t) \/ Write(t)
    <3>1. /\ hpc[t] = "called" /\ hpc' = [hpc EXCEPT ![t] = "sent"] /\ DOMAIN wire' = Thread
          /\ UNCHANGED <<parser, asking, piece, unread>>
      BY <2>1, <2>13 DEF NoResponse, Write, At, Step
    <3>2. DOMAIN hpc' = Thread /\ hpc'[t] = "sent" /\ ppc[t] = "parsed"
      BY <2>1, <3>1 DEF HandleType
    <3> QED BY <3>1, <3>2, HandlerGoesOn
  <2>14. CASE DoubleFree(t)
    BY <2>2, <2>14 DEF DoubleFree
  <2>15. CASE Done(t)
    BY <2>15, DoneKeeps
  <2>16. Next => \/ Loading \/ Receive(t) \/ ReceiveRest(t) \/ Parsing(t) \/ BadRequest(t)
                 \/ Session(t) \/ SearchStep(t) \/ NoHandler(t) \/ Call(t)
                 \/ NoResponse(t) \/ Write(t) \/ DoubleFree(t) \/ Done(t)
    BY DEF Next, Handle
  <2> QED BY <2>3, <2>4, <2>5, <2>6, <2>7, <2>8, <2>9, <2>10, <2>11, <2>12, <2>13, <2>14, <2>15,
             <2>16
<1> QED BY <1>1, <1>2, PTL DEF Spec


-----------------------------------------------------------------------------
(* What the handlers are given.                                            *)

\* A request that is taken up is not what came late, and all of its parts are
\* as they were sent.
LEMMA TakenUp ==
    ASSUME NEW t, ParsingInv(t), ppc[t] = "parsed"
    PROVE  AtParsed(t) /\ asking[t] \in Requests /\ piece[t] # "rest"
<1>1. IF piece[t] = "rest" THEN LateAt(t) ELSE Underway(t)
  BY DEF ParsingInv
<1>2. piece[t] # "rest" /\ Underway(t)
  BY <1>1, NotLate
<1>3. asking[t] \in Requests
  BY DEF ParsingInv, HandleType
<1> QED BY <1>2, <1>3 DEF Underway

\* The pairs of the query are those of its filled fields.
LEMMA QueryIs ==
    ASSUME NEW t, asking[t] \in Requests, QueryOK(t), NoHole(asking[t].query)
    PROVE  parsed[t].query = AsPairs(Filled(asking[t].query))
<1> DEFINE F == asking[t].query
           list == parsed[t].query
<1>1. F \in Fields
  BY RequestIs
<1>2. PairsUpto(F, Len(F), list)
  BY DEF QueryOK, PairsOf, Entire
<1> HIDE DEF F, list
<1>3. NoHole(F) => list = AsPairs(Filled(F))
  BY <1>1, <1>2, AllPairs
<1> QED BY <1>3 DEF F, list

\* So are those of a form that has come whole.
LEMMA FormIs ==
    ASSUME NEW t, asking[t] \in Requests, BodyOK(t), Whole(t), NoHole(asking[t].form)
    PROVE  parsed[t].body = AsPairs(Filled(asking[t].form))
<1> DEFINE F == asking[t].form
           list == parsed[t].body
<1>1. F \in Fields
  BY RequestIs
<1>2. PairsUpto(F, Len(F), list)
  BY DEF BodyOK, PairsOf
<1> HIDE DEF F, list
<1>3. NoHole(F) => list = AsPairs(Filled(F))
  BY <1>1, <1>2, AllPairs
<1> QED BY <1>3 DEF F, list

\* The wish to be kept alive is in the headers.
LEMMA KeepAliveIs ==
    ASSUME NEW t, asking[t] \in Requests, Headed(t, 4), Whole(t)
    PROVE  KeepAlive(parsed[t]) <=> asking[t].keepAlive
<1> DEFINE value == Lookup(parsed[t].headers, <<"Connection">>)
           alive == <<"keep-alive">>
<1>1. /\ value = IF asking[t].keepAlive THEN alive ELSE NULL
      /\ alive # NULL
  BY HeaderIs
<1> HIDE DEF value, alive
<1>2. value = alive <=> asking[t].keepAlive
  BY <1>1
<1> QED BY <1>2, Zenon DEF KeepAlive, value, alive

\* With one worker the path that is looked up is the one that was asked for,
\* also when the request comes in two pieces (request.c:178-186, 200-206).
THEOREM OneWorkerPathAsAsked ==
    ASSUME NEW t, Thread = {t}
    PROVE  Spec => []PathAsAsked
<1>1. ParsingInv(t) => PathAsAsked
  BY TakenUp DEF AtParsed, QueryOK, PathAsAsked
<1> QED BY <1>1, ParsingInvariant, PTL

\* With one worker a request that is taken up is the one that was sent
\* (request.c:7-147).
THEOREM OneWorkerParsedAsSent ==
    ASSUME NEW t, Thread = {t}
    PROVE  Spec => []ParsedAsSent
<1>1. ASSUME ParsingInv(t), AcceptedWhole(t), NoHole(asking[t].query), NoHole(asking[t].form)
      PROVE  LET p == parsed[t]
                 r == asking[t]
             IN  /\ p.method = r.method /\ p.uri = r.uri
                 /\ p.query = AsPairs(Filled(r.query)) /\ p.body = AsPairs(Filled(r.form))
                 /\ p.cookies = When(r.sid # NULL, <<<<<<"sid">>, <<r.sid>>>>>>)
                 /\ KeepAlive(p) = r.keepAlive
  <2>1. ppc[t] = "parsed" /\ Whole(t)
    BY <1>1 DEF AcceptedWhole, Accepted, Whole
  <2>2. AtParsed(t) /\ asking[t] \in Requests
    BY <1>1, <2>1, TakenUp
  <2>3. Located(t) /\ Headed(t, 4) /\ BodyOK(t) /\ QueryOK(t)
        /\ parsed[t].cookies = SidPair(asking[t])
    BY <2>1, <2>2 DEF AtParsed
  <2>4. parsed[t].method = asking[t].method /\ parsed[t].uri = asking[t].uri
    BY <2>3 DEF Located, MethodOK, QueryOK
  <2>5. parsed[t].query = AsPairs(Filled(asking[t].query))
    BY <1>1, <2>2, <2>3, QueryIs
  <2>6. parsed[t].body = AsPairs(Filled(asking[t].form))
    BY <1>1, <2>1, <2>2, <2>3, FormIs
  <2>7. KeepAlive(parsed[t]) = asking[t].keepAlive
    <3>1. KeepAlive(parsed[t]) <=> asking[t].keepAlive
      BY <2>1, <2>2, <2>3, KeepAliveIs
    <3>2. asking[t].keepAlive \in BOOLEAN
      BY <2>2, RequestsAssumption
    <3>3. KeepAlive(parsed[t]) \in BOOLEAN
      BY DEF KeepAlive
    <3> QED BY <3>1, <3>2, <3>3
  <2> QED BY <2>3, <2>4, <2>5, <2>6, <2>7 DEF SidPair
<1>2. ParsingInv(t) => ParsedAsSent
  BY <1>1, Zenon DEF ParsedAsSent
<1> QED BY <1>2, ParsingInvariant, PTL

\* With one worker a handler sees of a form that has come in part its first
\* fields (request.c:61-103, 190-197).
THEOREM OneWorkerFirstFieldsAsSent ==
    ASSUME NEW t, Thread = {t}
    PROVE  Spec => []FirstFieldsAsSent
<1>1. ASSUME ParsingInv(t), Accepted(t), piece[t] = "first", NoHole(asking[t].form)
      PROVE  FirstFields(asking[t].form, parsed[t].body)
  <2>1. ppc[t] = "parsed" /\ ~Whole(t)
    BY <1>1 DEF Accepted, Whole
  <2>2. BodyOK(t)
    BY <1>1, <2>1, TakenUp DEF AtParsed
  <2> QED BY <1>1, <2>1, <2>2 DEF BodyOK, PairsOf
<1>2. ParsingInv(t) => FirstFieldsAsSent
  BY <1>1, Zenon DEF FirstFieldsAsSent, FirstFields
<1> QED BY <1>2, ParsingInvariant, PTL
=============================================================================
