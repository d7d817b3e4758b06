------------------------------- MODULE Tokens -------------------------------
(***************************************************************************)
(* Texts, as src/request.c and src/template.c take them apart: strtok_r(3) *)
(* (strtok is strtok_r with one hidden save pointer) and the lists of      *)
(* pairs that src/kv.c searches.                                           *)
(*                                                                         *)
(* A text is a sequence of words and separators, each a string.  Behind    *)
(* its last one, and where a token was cut off, is the terminator.         *)
(***************************************************************************)
EXTENDS Uptime, Naturals, Sequences, SequencesExt, FiniteSetsExt

NUL == "NUL"

CharAt(s, i) == IF i \in DOMAIN s THEN s[i] ELSE NUL

\* Skip what is in delims, take what is not, and cut there.
NextToken(s, i, delims) ==
    LET from == Min({j \in i..(Len(s) + 1) : CharAt(s, j) \notin delims})
        to == Min({j \in from..(Len(s) + 1) : CharAt(s, j) \in delims \cup {NUL}})
        cut == CharAt(s, to) # NUL
    IN  [found |-> CharAt(s, from) # NUL,
         token |-> SubSeq(s, from, to - 1),
         cut |-> cut,
         next |-> IF cut THEN to + 1 ELSE to,
         text |-> IF cut THEN [s EXCEPT ![to] = NUL] ELSE s]

\* Two texts with a separator between them.
Joined(a, d, b) == a \o (<<d>> \o b)

\* strchr, where there is one
PositionOf(s, c) == Min({i \in DOMAIN s : s[i] = c})

\* strlen
CLength(s) == Min({i \in 1..(Len(s) + 1) : CharAt(s, i) = NUL}) - 1

\* A list of pairs: listCons puts the new one first, kvFindList takes the
\* first that fits.
AddPair(k, v, list) == <<<<k, v>>>> \o list

Matching(list, k) == {i \in DOMAIN list : list[i][1] = k}

Lookup(list, k) ==
    IF Matching(list, k) = {} THEN NULL ELSE list[Min(Matching(list, k))][2]
=============================================================================
