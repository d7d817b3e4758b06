------------------------------- MODULE Request ------------------------------
(***************************************************************************)
(* requestNew of src/request.c, as worker threads run it.  strtok keeps    *)
(* its position in one variable of the process, so a call of strtok is an  *)
(* action, and what a thread goes on with may be another's text.           *)
(*                                                                         *)
(* A text is a sequence of words and separators (see Tokens).  A thread    *)
(* has the buffer of handle, on its stack, and one copy at a time, which   *)
(* parseQS or parseCookies takes and frees.  What is read through a        *)
(* position in memory that was given back is what was left there, or       *)
(* nothing.                                                                *)
(***************************************************************************)
EXTENDS Tokens

VARIABLES
    save,     \* strtok's position: thread, area and index
    mem,      \* of each thread: the text in "buff" and "copy"
    live,     \* of each thread: the areas that are allocated
    ppc,      \* what requestNew does next
    fresh,    \* the next strtok call is the first one on the copy
    target,   \* the list parseQS fills
    key,      \* the first half of the pair that is being parsed
    parsed    \* the request as far as it is parsed

parser == <<save, mem, live, ppc, fresh, target, key, parsed>>

Methods == {"OPTIONS", "GET", "HEAD", "POST", "PUT", "DELETE", "TRACE", "CONNECT"}
Versions == {"HTTP/1.0", "HTTP/1.1"}
FormType == "application/x-www-form-urlencoded"
Blank == [method |-> "UNKNOWN", path |-> <<>>, uri |-> <<>>, headers |-> <<>>,
          query |-> <<>>, body |-> <<>>, cookies |-> <<>>]

NoSave == [thread |-> CHOOSE t \in Thread : TRUE, area |-> "buff", pos |-> 1]
NoText == [t \in Thread |-> [buff |-> <<>>, copy |-> <<>>]]

ParserInit ==
    /\ save = NoSave
    /\ mem = NoText
    /\ live = [t \in Thread |-> {}]
    /\ ppc = [t \in Thread |-> "idle"]
    /\ fresh = [t \in Thread |-> FALSE]
    /\ target = [t \in Thread |-> "none"]
    /\ key = [t \in Thread |-> <<>>]
    /\ parsed = [t \in Thread |-> Blank]

\* What strtok may give at p, and the rest of the call.
Reads(p, delims) ==
    {NextToken(s, p.pos, delims) :
        s \in {mem[p.thread][p.area]} \cup IF p.area \in live[p.thread] THEN {} ELSE {<<>>}}
Moves(p, r) ==
    /\ save' = [p EXCEPT !.pos = r.next]
    /\ mem' = [mem EXCEPT ![p.thread][p.area] = r.text]

To(t, label) == ppc' = [ppc EXCEPT ![t] = label]
Start(t, area) == [thread |-> t, area |-> area, pos |-> 1]
From(t) == IF fresh[t] THEN Start(t, "copy") ELSE save

\* handle has received bytes and calls requestNew.
Parse(t, bytes) ==
    /\ ppc[t] = "idle"
    /\ mem' = [mem EXCEPT ![t].buff = bytes]
    /\ live' = [live EXCEPT ![t] = {"buff"}]
    /\ parsed' = [parsed EXCEPT ![t] = Blank]
    /\ To(t, "method")
    /\ UNCHANGED <<save, fresh, target, key>>

-----------------------------------------------------------------------------
ParseMethod(t) ==
    /\ ppc[t] = "method"
    /\ \E r \in Reads(Start(t, "buff"), {" ", "TAB"}) :
          /\ Moves(Start(t, "buff"), r)
          /\ IF r.found /\ Len(r.token) = 1 /\ r.token[1] \in Methods
             THEN /\ parsed' = [parsed EXCEPT ![t].method = r.token[1]]
                  /\ To(t, "path")
             ELSE To(t, "fail") /\ UNCHANGED parsed
    /\ UNCHANGED <<live, fresh, target, key>>

ParsePath(t) ==
    /\ ppc[t] = "path"
    /\ \E r \in Reads(save, {" ", "TAB"}) :
          /\ Moves(save, r)
          /\ IF r.found /\ ~Contains(r.token, "#")
             THEN /\ parsed' = [parsed EXCEPT ![t].path = r.token, ![t].uri = r.token]
                  /\ To(t, "version")
             ELSE To(t, "fail") /\ UNCHANGED parsed
    /\ UNCHANGED <<live, fresh, target, key>>

ParseVersion(t) ==
    /\ ppc[t] = "version"
    /\ \E r \in Reads(save, {"LF"}) :
          /\ Moves(save, r)
          /\ To(t, IF r.found /\ r.token[1] \in Versions THEN "header" ELSE "fail")
    /\ UNCHANGED <<live, fresh, target, key, parsed>>

-----------------------------------------------------------------------------
\* parseHeaders
PastBlankLine(t) ==   \* mutant: the blank line is not looked for
    /\ ppc[t] = "header"
    /\ \E r \in Reads(save, {":", "LF"}) :
          /\ Moves(save, r)
          /\ IF r.found
             THEN /\ key' = [key EXCEPT ![t] = r.token]
                  /\ To(t, "headerValue")
             ELSE To(t, "body") /\ UNCHANGED key
    /\ UNCHANGED <<live, fresh, target, parsed>>

ParseHeaderName(t) ==
    /\ ppc[t] = "header"
    /\ \E r \in Reads(save, {":", "LF"}) :
          /\ Moves(save, r)
          /\ IF r.found /\ r.token[1] # "CR"
             THEN /\ key' = [key EXCEPT ![t] = r.token]
                  /\ To(t, "headerValue")
             ELSE To(t, "body") /\ UNCHANGED key
    /\ UNCHANGED <<live, fresh, target, parsed>>

\* One space before the value and a CR behind it are taken off.
Stripped(s) ==
    LET from == IF s[1] = " " THEN 2 ELSE 1
        to == IF s[Len(s)] = "CR" THEN Len(s) - 1 ELSE Len(s)
    IN  SubSeq(s, from, to)

ParseHeaderValue(t) ==
    /\ ppc[t] = "headerValue"
    /\ \E r \in Reads(save, {"LF"}) :
          /\ Moves(save, r)
          /\ IF r.found
             THEN /\ parsed' = [parsed EXCEPT ![t].headers =
                                   AddPair(key[t], Stripped(r.token), @)]
                  /\ To(t, "header")
             ELSE To(t, "body") /\ UNCHANGED parsed
    /\ UNCHANGED <<live, fresh, target, key>>

-----------------------------------------------------------------------------
\* parseQS takes a copy of s for the list named.
Pairs(t, list, s) ==
    /\ mem' = [mem EXCEPT ![t].copy = s]
    /\ live' = [live EXCEPT ![t] = @ \cup {"copy"}]
    /\ fresh' = [fresh EXCEPT ![t] = TRUE]
    /\ target' = [target EXCEPT ![t] = list]
    /\ To(t, "pairKey")

\* The text behind the headers is looked at when it is a form.
IsForm(headers) ==
    LET type == Lookup(headers, <<"Content-Type">>)
    IN  type # NULL /\ type # <<>> /\ type[1] = FormType

ParseBody(t) ==
    /\ ppc[t] = "body"
    /\ IsForm(parsed[t].headers)
    /\ \E r \in Reads(save, {}) :
          IF r.found
          THEN /\ save' = [save EXCEPT !.pos = r.next]
               /\ Pairs(t, "body", r.token)
          ELSE /\ To(t, "fail")
               /\ UNCHANGED <<save, mem, live, fresh, target>>
    /\ UNCHANGED <<key, parsed>>

NoBody(t) ==
    /\ ppc[t] = "body"
    /\ ~IsForm(parsed[t].headers)
    /\ To(t, "query")
    /\ UNCHANGED <<save, mem, live, fresh, target, key, parsed>>

MarkKept(t) ==   \* mutant: the path ends with the question mark
    /\ ppc[t] = "query"
    /\ LET path == parsed[t].path
       IN  IF Contains(path, "?")
           THEN /\ parsed' = [parsed EXCEPT ![t].uri = SubSeq(path, 1, PositionOf(path, "?"))]
                /\ Pairs(t, "query", SubSeq(path, PositionOf(path, "?") + 1, Len(path)))
           ELSE /\ To(t, "cookies")
                /\ UNCHANGED <<parsed, mem, live, fresh, target>>
    /\ UNCHANGED <<save, key>>

ParseQuery(t) ==
    /\ ppc[t] = "query"
    /\ LET path == parsed[t].path
       IN  IF Contains(path, "?")
           THEN /\ parsed' = [parsed EXCEPT ![t].uri = SubSeq(path, 1, PositionOf(path, "?") - 1)]
                /\ Pairs(t, "query", SubSeq(path, PositionOf(path, "?") + 1, Len(path)))
           ELSE /\ To(t, "cookies")
                /\ UNCHANGED <<parsed, mem, live, fresh, target>>
    /\ UNCHANGED <<save, key>>

ParseCookies(t) ==
    /\ ppc[t] = "cookies"
    /\ LET header == Lookup(parsed[t].headers, <<"Cookie">>)
       IN  IF header # NULL
           THEN /\ mem' = [mem EXCEPT ![t].copy = header]
                /\ live' = [live EXCEPT ![t] = @ \cup {"copy"}]
                /\ fresh' = [fresh EXCEPT ![t] = TRUE]
                /\ To(t, "cookieKey")
           ELSE To(t, "parsed") /\ UNCHANGED <<mem, live, fresh>>
    /\ UNCHANGED <<save, target, key, parsed>>

-----------------------------------------------------------------------------
\* The end of parseQS or parseCookies: the copy is freed, and a query string
\* or a Cookie header without pairs makes the request a bad one.
PairsEnd(t, list, next) ==
    /\ live' = [live EXCEPT ![t] = @ \ {"copy"}]
    /\ fresh' = [fresh EXCEPT ![t] = FALSE]
    /\ To(t, IF list # "body" /\ parsed[t][list] = <<>> THEN "fail" ELSE next)

AfterPairs(t) == IF target[t] = "body" THEN "query" ELSE "cookies"

\* A key with nothing behind its "=" is passed over, and the next one is
\* taken from the "&" on.
NeverSkips(r) == FALSE   \* mutant: an empty value is not looked for
Skips(r) == r.cut /\ CharAt(r.text, r.next) = "&"

ParsePairKey(t) ==
    /\ ppc[t] = "pairKey"
    /\ \E r \in Reads(From(t), {"="}) :
          /\ Moves(From(t), r)
          /\ IF ~r.found
             THEN PairsEnd(t, target[t], AfterPairs(t)) /\ UNCHANGED key
             ELSE /\ fresh' = [fresh EXCEPT ![t] = FALSE]
                  /\ UNCHANGED live
                  /\ IF Skips(r) THEN UNCHANGED <<key, ppc>>
                     ELSE /\ key' = [key EXCEPT ![t] = r.token]
                          /\ To(t, "pairValue")
    /\ UNCHANGED <<target, parsed>>

\* urldecode: one word of it at a time, and none twice.
Escapes == [c \in {"%20", "%23", "%25", "%26", "%2B", "%3B", "%3D", "%3F",
                 "%7B", "%7D"} |->
               CASE c = "%20" -> " " [] c = "%23" -> "#" [] c = "%25" -> "%"
                 [] c = "%26" -> "&" [] c = "%2B" -> "+" [] c = "%3B" -> ";"
                 [] c = "%3D" -> "=" [] c = "%3F" -> "?"
                 [] c = "%7B" -> "{" [] c = "%7D" -> "}"]

PlusLast(s) ==   \* mutant: "+" becomes a space after the escapes are replaced
    [i \in DOMAIN s |->
        LET c == IF s[i] \in DOMAIN Escapes THEN Escapes[s[i]] ELSE s[i]
        IN  IF c = "+" THEN " " ELSE c]

UrlDecode(s) ==
    [i \in DOMAIN s |-> CASE s[i] = "+" -> " "
                          [] s[i] \in DOMAIN Escapes -> Escapes[s[i]]
                          [] OTHER -> s[i]]

KeptEmpty(t) ==   \* mutant: a key with nothing behind it is a field, too
    /\ ppc[t] = "pairValue"
    /\ \E r \in Reads(save, {"&"}) :
          /\ Moves(save, r)
          /\ parsed' = [parsed EXCEPT ![t][target[t]] =
                           AddPair(UrlDecode(key[t]), UrlDecode(r.token), @)]
    /\ To(t, "pairKey")
    /\ UNCHANGED <<live, fresh, target, key>>

ParsePairValue(t) ==
    /\ ppc[t] = "pairValue"
    /\ \E r \in Reads(save, {"&"}) :
          /\ Moves(save, r)
          /\ IF r.found
             THEN /\ parsed' = [parsed EXCEPT ![t][target[t]] =
                                   AddPair(UrlDecode(key[t]), UrlDecode(r.token), @)]
                  /\ To(t, "pairKey")
                  /\ UNCHANGED <<live, fresh>>
             ELSE PairsEnd(t, target[t], AfterPairs(t)) /\ UNCHANGED parsed
    /\ UNCHANGED <<target, key>>

ParseCookieKey(t) ==
    /\ ppc[t] = "cookieKey"
    /\ \E r \in Reads(From(t), {"="}) :
          /\ Moves(From(t), r)
          /\ IF r.found
             THEN /\ key' = [key EXCEPT ![t] = IF r.token[1] = " " THEN Tail(r.token) ELSE r.token]
                  /\ fresh' = [fresh EXCEPT ![t] = FALSE]
                  /\ To(t, "cookieValue")
                  /\ UNCHANGED live
             ELSE PairsEnd(t, "cookies", "parsed") /\ UNCHANGED key
    /\ UNCHANGED <<target, parsed>>

ParseCookieValue(t) ==
    /\ ppc[t] = "cookieValue"
    /\ \E r \in Reads(save, {";"}) :
          /\ Moves(save, r)
          /\ IF r.found
             THEN /\ parsed' = [parsed EXCEPT ![t].cookies = AddPair(key[t], r.token, @)]
                  /\ To(t, "cookieKey")
                  /\ UNCHANGED <<live, fresh>>
             ELSE PairsEnd(t, "cookies", "parsed") /\ UNCHANGED parsed
    /\ UNCHANGED <<target, key>>

ParseStep(t) ==
    \/ ParseMethod(t) \/ ParsePath(t) \/ ParseVersion(t)
    \/ ParseHeaderName(t) \/ ParseHeaderValue(t)
    \/ ParseBody(t) \/ NoBody(t) \/ ParseQuery(t) \/ ParseCookies(t)
    \/ ParsePairKey(t) \/ ParsePairValue(t)
    \/ ParseCookieKey(t) \/ ParseCookieValue(t)

\* requestDel, and the end of handle.  When no thread is parsing, the next
\* one begins anew: what is left of save and mem is dropped.
Forget(t) ==
    /\ IF \A u \in Thread \ {t} : ppc[u] = "idle"
       THEN save' = NoSave /\ mem' = NoText
       ELSE UNCHANGED <<save, mem>>
    /\ live' = [live EXCEPT ![t] = {}]
    /\ fresh' = [fresh EXCEPT ![t] = FALSE]
    /\ target' = [target EXCEPT ![t] = "none"]
    /\ key' = [key EXCEPT ![t] = <<>>]
    /\ parsed' = [parsed EXCEPT ![t] = Blank]
    /\ To(t, "idle")
=============================================================================
