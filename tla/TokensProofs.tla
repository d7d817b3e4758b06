----------------------------- MODULE TokensProofs -----------------------------
(***************************************************************************)
(* What strtok_r gives of a text that is known up to where it was cut off, *)
(* and what a text is that was put together from parts: the facts that the *)
(* proofs about the request parser rest on.                                *)
(***************************************************************************)
EXTENDS Template, SequenceTheorems, WellFoundedInduction, TLAPS

\* What a call of strtok_r at i has before it.
Left(s, i) == SubSeq(s, i, Len(s))

\* x is what has come of a text: all of it, or a beginning.
Comes(x, text, whole) ==
    \E n \in 0..Len(text) : x = SubSeq(text, 1, n) /\ (whole => n = Len(text))

\* Text of which strtok_r takes all, once it has begun.
Clear(a, delims) == \A j \in 1..Len(a) : a[j] \notin delims \cup {NUL}

-----------------------------------------------------------------------------
(* Numbers and sequences.                                                  *)

\* A set of numbers has a least one.
LEMMA LeastNumber ==
    ASSUME NEW T, T \subseteq Nat, T # {}
    PROVE  \E x \in T : \A y \in T : x =< y
<1> DEFINE Less == {p \in Nat \X Nat : p[1] < p[2]}
<1>1. IsWellFoundedOn(Less, Nat)
  BY NatLessThanWellFounded, Zenon DEF OpToRel
<1> HIDE DEF Less
<1>2. PICK x \in T : \A y \in T : <<y, x>> \notin Less
  BY <1>1, WFMin
<1>3. \A y \in T : x =< y
  <2> TAKE y \in T
  <2>1. x \in Nat /\ y \in Nat
    OBVIOUS
  <2>2. ~(y < x)
    BY <1>2, <2>1 DEF Less
  <2> QED BY <2>1, <2>2
<1> QED BY <1>3

\* Min gives it.
LEMMA MinProperties ==
    ASSUME NEW T, T \subseteq Nat, T # {}
    PROVE  Min(T) \in T /\ \A y \in T : Min(T) =< y
BY LeastNumber DEF Min

\* And there is no other.
LEMMA MinIs ==
    ASSUME NEW T, T \subseteq Nat, NEW x \in T, \A y \in T : x =< y
    PROVE  Min(T) = x
<1>1. Min(T) \in T /\ Min(T) =< x /\ x =< Min(T)
  BY MinProperties
<1>2. Min(T) \in Nat /\ x \in Nat
  BY <1>1
<1> QED BY <1>1, <1>2

\* A set with 0 in it, and the successor of whatever is in it, has every number
\* in it.
LEMMA EveryNumber ==
    ASSUME NEW T, 0 \in T, \A n \in Nat : n \in T => n + 1 \in T
    PROVE  \A n \in Nat : n \in T
<1> SUFFICES ASSUME NEW m \in Nat, m \notin T PROVE FALSE
  OBVIOUS
<1>1. PICK x \in Nat \ T : \A y \in Nat \ T : x =< y
  <2>1. Nat \ T # {} /\ Nat \ T \subseteq Nat
    OBVIOUS
  <2> QED BY <2>1, LeastNumber, Zenon
<1>2. x # 0 /\ x - 1 \in Nat
  OBVIOUS
<1>3. x - 1 \in T
  BY <1>1, <1>2
<1>4. (x - 1) + 1 = x
  OBVIOUS
<1> QED BY <1>2, <1>3, <1>4

\* What is left of a text is a text.
LEMMA LeftIs ==
    ASSUME NEW S, NEW s \in Seq(S), NEW i \in 1..(Len(s) + 1)
    PROVE  /\ Left(s, i) \in Seq(S)
           /\ Len(Left(s, i)) = Len(s) + 1 - i
           /\ \A j \in 1..(Len(s) + 1 - i) : Left(s, i)[j] = s[i + j - 1]
<1>1. Len(s) \in Nat /\ \A j \in i..Len(s) : s[j] \in S
  BY LenProperties
<1>2. i \in Int /\ Len(s) \in Int
  BY <1>1
<1>3. /\ Left(s, i) \in Seq(S)
      /\ Len(Left(s, i)) = IF i <= Len(s) THEN Len(s) - i + 1 ELSE 0
      /\ \A j \in 1..(Len(s) - i + 1) : Left(s, i)[j] = s[i + j - 1]
  BY <1>1, <1>2, SubSeqProperties DEF Left
<1> QED BY <1>1, <1>2, <1>3

\* So is its beginning.
LEMMA BeginningIs ==
    ASSUME NEW S, NEW s \in Seq(S), NEW n \in 0..Len(s)
    PROVE  /\ SubSeq(s, 1, n) \in Seq(S)
           /\ Len(SubSeq(s, 1, n)) = n
           /\ \A j \in 1..n : SubSeq(s, 1, n)[j] = s[j]
<1>1. Len(s) \in Nat /\ \A j \in 1..n : s[j] \in S
  BY LenProperties
<1>2. n \in Int /\ 1 \in Int
  BY <1>1
<1>3. /\ SubSeq(s, 1, n) \in Seq(S)
      /\ Len(SubSeq(s, 1, n)) = IF 1 <= n THEN n - 1 + 1 ELSE 0
      /\ \A j \in 1..(n - 1 + 1) : SubSeq(s, 1, n)[j] = s[1 + j - 1]
  BY <1>1, <1>2, SubSeqProperties
<1> QED BY <1>1, <1>2, <1>3

-----------------------------------------------------------------------------
(* strtok_r.                                                               *)

\* A call that skips up to from and takes up to to.
LEMMA NextTokenIs ==
    ASSUME NEW S, NEW s \in Seq(S), NEW i \in 1..(Len(s) + 1), NEW delims,
           NEW from \in i..(Len(s) + 1), NEW to \in from..(Len(s) + 1),
           \A j \in i..(from - 1) : CharAt(s, j) \in delims,
           CharAt(s, from) \notin delims,
           \A j \in from..(to - 1) : CharAt(s, j) \notin delims \cup {NUL},
           CharAt(s, to) \in delims \cup {NUL}
    PROVE  NextToken(s, i, delims) =
               [found |-> CharAt(s, from) # NUL,
                token |-> SubSeq(s, from, to - 1),
                cut |-> CharAt(s, to) # NUL,
                next |-> IF CharAt(s, to) # NUL THEN to + 1 ELSE to,
                text |-> IF CharAt(s, to) # NUL THEN [s EXCEPT ![to] = NUL] ELSE s]
<1> DEFINE Kept == {j \in i..(Len(s) + 1) : CharAt(s, j) \notin delims}
           Stops == {j \in from..(Len(s) + 1) : CharAt(s, j) \in delims \cup {NUL}}
<1>1. Len(s) \in Nat
  BY LenProperties
<1>2. Min(Kept) = from
  <2>1. Kept \subseteq Nat /\ from \in Kept
    BY <1>1
  <2>2. \A y \in Kept : from =< y
    BY <1>1
  <2> HIDE DEF Kept
  <2> QED BY <2>1, <2>2, MinIs
<1>3. Min(Stops) = to
  <2>1. Stops \subseteq Nat /\ to \in Stops
    BY <1>1
  <2>2. \A y \in Stops : to =< y
    BY <1>1
  <2> HIDE DEF Stops
  <2> QED BY <2>1, <2>2, MinIs
<1> QED BY <1>2, <1>3, Zenon DEF NextToken

\* What is where in two texts, one behind the other.
LEMMA BothAre ==
    ASSUME NEW S, NEW a \in Seq(S), NEW b \in Seq(S)
    PROVE  /\ a \o b \in Seq(S) /\ Len(a \o b) = Len(a) + Len(b)
           /\ \A j \in 1..Len(a) : (a \o b)[j] = a[j]
           /\ \A j \in 1..Len(b) : (a \o b)[Len(a) + j] = b[j]
<1> DEFINE x == a \o b
           n == Len(a)
           m == Len(b)
<1>1. x \in Seq(S)
  BY ConcatProperties
<1>2. Len(x) = n + m
  BY ConcatProperties
<1>3. \A j \in 1..(n + m) : x[j] = IF j <= n THEN a[j] ELSE b[j - n]
  BY ConcatProperties
<1>4. n \in Nat /\ m \in Nat
  BY LenProperties
<1> HIDE DEF x, n, m
<1>5. \A j \in 1..n : x[j] = a[j]
  BY <1>3, <1>4
<1>6. \A j \in 1..m : x[n + j] = b[j]
  <2> TAKE j \in 1..m
  <2>1. n + j \in 1..(n + m) /\ ~(n + j <= n) /\ (n + j) - n = j
    BY <1>4
  <2> QED BY <2>1, <1>3
<1> QED BY <1>1, <1>2, <1>5, <1>6 DEF x, n, m

\* A text with a word in front of it.
LEMMA WordFirst ==
    ASSUME NEW S, NEW d \in S, NEW b \in Seq(S), NEW x, x = <<d>> \o b
    PROVE  x \in Seq(S) /\ x # <<>> /\ x[1] = d
<1> DEFINE one == <<d>>
<1>1. one \in Seq(S)
  OBVIOUS
<1>2. Len(one) = 1
  OBVIOUS
<1>3. one[1] = d
  OBVIOUS
<1>4. x = one \o b
  OBVIOUS
<1> HIDE DEF one
<1>5. x \in Seq(S)
  BY <1>1, <1>4, ConcatProperties
<1>6. \A j \in 1..Len(one) : (one \o b)[j] = one[j]
  BY <1>1, BothAre
<1>7. Len(one \o b) = Len(one) + Len(b)
  BY <1>1, BothAre
<1>8. Len(b) \in Nat
  BY LenProperties
<1>9. x[1] = d
  <2>1. 1 \in 1..Len(one)
    BY <1>2
  <2> QED BY <2>1, <1>3, <1>4, <1>6
<1>10. x # <<>>
  <2>1. Len(x) # 0
    BY <1>2, <1>4, <1>7, <1>8
  <2> QED BY <2>1, <1>5, EmptySeq
<1> QED BY <1>5, <1>9, <1>10

\* What is where in a text that was joined.
LEMMA JoinedIs ==
    ASSUME NEW S, NEW a \in Seq(S), NEW d \in S, NEW b \in Seq(S)
    PROVE  /\ Joined(a, d, b) \in Seq(S)
           /\ Len(Joined(a, d, b)) = Len(a) + 1 + Len(b)
           /\ \A j \in 1..Len(a) : Joined(a, d, b)[j] = a[j]
           /\ Joined(a, d, b)[Len(a) + 1] = d
           /\ \A j \in 1..Len(b) : Joined(a, d, b)[Len(a) + 1 + j] = b[j]
<1> DEFINE db == <<d>> \o b
<1>1. <<d>> \in Seq(S) /\ Len(<<d>>) = 1 /\ <<d>>[1] = d
  OBVIOUS
<1>2. /\ db \in Seq(S) /\ Len(db) = 1 + Len(b)
      /\ \A j \in 1..(1 + Len(b)) : db[j] = IF j <= 1 THEN <<d>>[j] ELSE b[j - 1]
  BY <1>1, ConcatProperties
<1>3. Len(a) \in Nat /\ Len(b) \in Nat
  BY LenProperties
<1>4. db[1] = d /\ \A j \in 1..Len(b) : db[1 + j] = b[j]
  <2> HIDE DEF db
  <2> QED BY <1>1, <1>2, <1>3
<1> HIDE DEF db
<1>5. /\ a \o db \in Seq(S) /\ Len(a \o db) = Len(a) + Len(db)
      /\ \A j \in 1..(Len(a) + Len(db)) :
            (a \o db)[j] = IF j <= Len(a) THEN a[j] ELSE db[j - Len(a)]
  BY <1>2, ConcatProperties
<1>6. Joined(a, d, b) = a \o db
  BY DEF Joined, db
<1> DEFINE all == a \o db
<1> HIDE DEF all
<1>7. Len(all) = Len(a) + 1 + Len(b) /\ all \in Seq(S)
  BY <1>2, <1>3, <1>5 DEF all
<1>8. \A j \in 1..Len(a) : all[j] = a[j]
  BY <1>2, <1>3, <1>5 DEF all
<1>9. all[Len(a) + 1] = d
  BY <1>2, <1>3, <1>4, <1>5 DEF all
<1>10. \A j \in 1..Len(b) : all[Len(a) + 1 + j] = b[j]
  <2> TAKE j \in 1..Len(b)
  <2>1. /\ Len(a) + 1 + j \in 1..(Len(a) + Len(db)) /\ ~(Len(a) + 1 + j <= Len(a))
        /\ Len(a) + 1 + j - Len(a) = 1 + j
    BY <1>2, <1>3
  <2> QED BY <2>1, <1>4, <1>5 DEF all
<1> QED BY <1>6, <1>7, <1>8, <1>9, <1>10 DEF all

\* The character that is read next.
LEMMA NextChar ==
    ASSUME NEW S, NEW s \in Seq(S), NEW i \in 1..(Len(s) + 1)
    PROVE  /\ Left(s, i) = <<>> => CharAt(s, i) = NUL
           /\ Left(s, i) # <<>> => CharAt(s, i) = Left(s, i)[1]
<1> DEFINE x == Left(s, i)
<1>1. Len(s) \in Nat /\ DOMAIN s = 1..Len(s)
  BY LenProperties
<1>2. x \in Seq(S)
  BY LeftIs
<1>3. Len(x) = Len(s) + 1 - i
  BY LeftIs
<1>4. \A j \in 1..(Len(s) + 1 - i) : x[j] = s[i + j - 1]
  BY LeftIs
<1> HIDE DEF x
<1>5. CASE x = <<>>
  <2>1. Len(x) = 0
    BY <1>5, EmptySeq
  <2>2. i \notin DOMAIN s
    BY <1>1, <1>3, <2>1
  <2> QED BY <1>5, <2>2 DEF CharAt, x
<1>6. CASE x # <<>>
  <2>1. Len(x) # 0
    BY <1>2, <1>6, EmptySeq
  <2>2. i \in DOMAIN s /\ 1 \in 1..(Len(s) + 1 - i) /\ i + 1 - 1 = i
    BY <1>1, <1>3, <2>1
  <2>3. x[1] = s[i]
    BY <1>4, <2>2
  <2> QED BY <1>6, <2>2, <2>3 DEF CharAt, x
<1> QED BY <1>5, <1>6

\* What is left of what was left.
LEMMA LeftLeft ==
    ASSUME NEW S, NEW s \in Seq(S), NEW i \in 1..(Len(s) + 1), NEW k \in Nat, k >= 1,
           i + k - 1 <= Len(s) + 1, NEW n, n = i + k - 1
    PROVE  Left(Left(s, i), k) = Left(s, n)
<1> DEFINE x == Left(s, i)
           u == Left(x, k)
           v == Left(s, n)
<1>1. Len(s) \in Nat
  BY LenProperties
<1>2. x \in Seq(S)
  BY LeftIs
<1>3. Len(x) = Len(s) + 1 - i
  BY LeftIs
<1>4. \A j \in 1..(Len(s) + 1 - i) : x[j] = s[i + j - 1]
  BY LeftIs
<1> HIDE DEF x
<1>5. k \in 1..(Len(x) + 1) /\ n \in 1..(Len(s) + 1)
  BY <1>1, <1>3
<1>6. u \in Seq(S)
  BY <1>2, <1>5, LeftIs
<1>7. Len(u) = Len(x) + 1 - k
  BY <1>2, <1>5, LeftIs
<1>8. \A j \in 1..(Len(x) + 1 - k) : u[j] = x[k + j - 1]
  BY <1>2, <1>5, LeftIs
<1>9. v \in Seq(S)
  BY <1>5, LeftIs
<1>10. Len(v) = Len(s) + 1 - n
  BY <1>5, LeftIs
<1>11. \A j \in 1..(Len(s) + 1 - n) : v[j] = s[n + j - 1]
  BY ZenonT(60), <1>5, LeftIs
<1> HIDE DEF u, v
<1>12. Len(u) = Len(v) /\ Len(x) + 1 - k = Len(u)
  BY <1>1, <1>3, <1>7, <1>10
<1>13. \A j \in 1..Len(u) : u[j] = v[j]
  <2> TAKE j \in 1..Len(u)
  <2>1. /\ j \in 1..(Len(x) + 1 - k) /\ j \in 1..(Len(s) + 1 - n)
        /\ k + j - 1 \in 1..(Len(s) + 1 - i) /\ i + (k + j - 1) - 1 = n + j - 1
    BY <1>1, <1>3, <1>5, <1>7, <1>12
  <2>2. u[j] = x[k + j - 1]
    BY <2>1, <1>8
  <2>3. x[k + j - 1] = s[n + j - 1]
    BY <2>1, <1>4
  <2>4. v[j] = s[n + j - 1]
    BY <2>1, <1>11
  <2> QED BY <2>2, <2>3, <2>4
<1>14. u = v
  BY <1>6, <1>9, <1>12, <1>13, SeqEqual
<1> QED BY <1>14 DEF u, v, x

\* What is left behind the separator is left of the text behind it.
LEMMA LeftJoined ==
    ASSUME NEW S, NEW a \in Seq(S), NEW d \in S, NEW b \in Seq(S),
           NEW k \in 1..(Len(b) + 1), NEW n, n = Len(a) + 1 + k
    PROVE  Left(Joined(a, d, b), n) = Left(b, k)
<1> DEFINE x == Joined(a, d, b)
           u == Left(x, n)
           v == Left(b, k)
<1>1. Len(a) \in Nat /\ Len(b) \in Nat
  BY LenProperties
<1>2. x \in Seq(S)
  BY JoinedIs
<1>3. Len(x) = Len(a) + 1 + Len(b)
  BY JoinedIs
<1>4. \A j \in 1..Len(b) : x[Len(a) + 1 + j] = b[j]
  BY JoinedIs
<1> HIDE DEF x
<1>5. n \in 1..(Len(x) + 1)
  BY <1>1, <1>3
<1>6. u \in Seq(S)
  BY <1>2, <1>5, LeftIs
<1>7. Len(u) = Len(x) + 1 - n
  BY <1>2, <1>5, LeftIs
<1>8. \A j \in 1..(Len(x) + 1 - n) : u[j] = x[n + j - 1]
  BY ZenonT(60), <1>2, <1>5, LeftIs
<1>9. v \in Seq(S)
  BY LeftIs
<1>10. Len(v) = Len(b) + 1 - k
  BY LeftIs
<1>11. \A j \in 1..(Len(b) + 1 - k) : v[j] = b[k + j - 1]
  BY LeftIs
<1> HIDE DEF u, v
<1>12. Len(u) = Len(v) /\ Len(x) + 1 - n = Len(u) /\ Len(b) + 1 - k = Len(u)
  BY <1>1, <1>3, <1>7, <1>10
<1>13. \A j \in 1..Len(u) : u[j] = v[j]
  <2> TAKE j \in 1..Len(u)
  <2>1. /\ j \in 1..(Len(x) + 1 - n) /\ j \in 1..(Len(b) + 1 - k)
        /\ k + j - 1 \in 1..Len(b) /\ n + j - 1 = Len(a) + 1 + (k + j - 1)
    BY <1>1, <1>12
  <2>2. u[j] = x[n + j - 1]
    BY <2>1, <1>8
  <2>3. x[n + j - 1] = b[k + j - 1]
    BY <2>1, <1>4
  <2>4. v[j] = b[k + j - 1]
    BY <2>1, <1>11
  <2> QED BY <2>2, <2>3, <2>4
<1>14. u = v
  BY <1>6, <1>9, <1>12, <1>13, SeqEqual
<1> QED BY <1>14 DEF u, v, x

\* A token with a delimiter behind it is taken, and what is behind that is left.
LEMMA TokenCut ==
    ASSUME NEW S, NUL \in S, NEW s \in Seq(S), NEW i \in 1..(Len(s) + 1), NEW delims,
           NEW a \in Seq(S), NEW d \in S, NEW b \in Seq(S),
           a # <<>>, Clear(a, delims), d \in delims, d # NUL, Left(s, i) = Joined(a, d, b)
    PROVE  LET r == NextToken(s, i, delims)
           IN  /\ r.found /\ r.cut /\ r.token = a /\ r.next = i + Len(a) + 1
               /\ r.text \in Seq(S) /\ r.next \in 1..(Len(r.text) + 1)
               /\ Left(r.text, r.next) = b
<1> DEFINE x == Joined(a, d, b)
           to == i + Len(a)
<1> HIDE DEF x
<1>1. /\ Len(s) \in Nat /\ Len(a) \in Nat /\ Len(b) \in Nat /\ Len(a) > 0
      /\ DOMAIN s = 1..Len(s)
  BY LenProperties, EmptySeq
<1>21. \A j \in 1..Len(a) : x[j] = a[j]
  BY <1>1, JoinedIs DEF x
<1>22. x[Len(a) + 1] = d
  BY <1>1, JoinedIs DEF x
<1>23. \A j \in 1..Len(b) : x[Len(a) + 1 + j] = b[j]
  BY <1>1, JoinedIs DEF x
<1>3. \A k \in 1..(Len(s) + 1 - i) : x[k] = s[i + k - 1]
  BY LeftIs DEF x
<1>4. to \in i..Len(s) /\ Len(s) = to + Len(b)
  <2>1. Len(x) = Len(a) + 1 + Len(b)
    BY JoinedIs DEF x
  <2>2. Len(x) = Len(s) + 1 - i
    BY LeftIs DEF x
  <2>3. Len(s) \in Int /\ Len(a) \in Int /\ Len(b) \in Int /\ i \in Int
    BY <1>1
  <2>4. Len(a) + 1 + Len(b) = Len(s) + 1 - i
    BY <2>1, <2>2
  <2>5. Len(s) = i + Len(a) + Len(b)
    BY <2>3, <2>4
  <2>6. Len(s) = to + Len(b)
    BY <2>5
  <2>7. to \in i..Len(s)
    BY <1>1, <2>3, <2>5
  <2> QED BY <2>6, <2>7
<1>5. \A j \in i..(to - 1) : CharAt(s, j) \notin delims \cup {NUL}
  <2> TAKE j \in i..(to - 1)
  <2>1. j \in DOMAIN s /\ j - i + 1 \in 1..Len(a) /\ i + (j - i + 1) - 1 = j
    BY <1>1, <1>4
  <2>2. j - i + 1 \in 1..(Len(s) + 1 - i)
    BY <1>1, <1>4
  <2>3. s[j] = x[j - i + 1]
    BY <1>3, <2>1, <2>2
  <2>4. CharAt(s, j) = a[j - i + 1]
    BY <1>21, <2>1, <2>3 DEF CharAt
  <2> QED BY <2>1, <2>4 DEF Clear
<1>6. CharAt(s, to) = d
  <2>1. to \in DOMAIN s /\ Len(a) + 1 \in 1..(Len(s) + 1 - i) /\ i + (Len(a) + 1) - 1 = to
    BY <1>1, <1>4
  <2>2. s[to] = x[Len(a) + 1]
    BY <1>3, <2>1
  <2> QED BY <1>22, <2>1, <2>2 DEF CharAt
<1> DEFINE text == [s EXCEPT ![to] = NUL]
<1>7. NextToken(s, i, delims) =
          [found |-> TRUE, token |-> SubSeq(s, i, to - 1), cut |-> TRUE, next |-> to + 1,
           text |-> text]
  <2>1. CharAt(s, i) \notin delims \cup {NUL}
    BY <1>1, <1>5
  <2>2. i \in i..(Len(s) + 1) /\ to \in i..(Len(s) + 1)
    BY <1>1, <1>4
  <2>3. \A j \in i..(i - 1) : CharAt(s, j) \in delims
    OBVIOUS
  <2>4. CharAt(s, to) \in delims \cup {NUL}
    BY <1>6
  <2> HIDE DEF to
  <2>5. NextToken(s, i, delims) =
            [found |-> CharAt(s, i) # NUL,
             token |-> SubSeq(s, i, to - 1),
             cut |-> CharAt(s, to) # NUL,
             next |-> IF CharAt(s, to) # NUL THEN to + 1 ELSE to,
             text |-> IF CharAt(s, to) # NUL THEN [s EXCEPT ![to] = NUL] ELSE s]
    BY <1>5, <2>1, <2>2, <2>3, <2>4, NextTokenIs
  <2>6. (CharAt(s, i) # NUL) = TRUE /\ (CharAt(s, to) # NUL) = TRUE
    BY <1>6, <2>1
  <2> QED BY <2>5, <2>6, Zenon
<1>8. SubSeq(s, i, to - 1) = a
  <2>1. \A j \in i..(to - 1) : s[j] \in S
    BY <1>1, <1>4, LenProperties
  <2>2. i \in Int /\ to - 1 \in Int
    BY <1>1, <1>4
  <2> DEFINE last == to - 1
  <2> HIDE DEF last
  <2>3. /\ SubSeq(s, i, last) \in Seq(S)
        /\ Len(SubSeq(s, i, last)) = IF i <= last THEN last - i + 1 ELSE 0
        /\ \A j \in 1..(last - i + 1) : SubSeq(s, i, last)[j] = s[i + j - 1]
    BY SMTT(40), <2>1, <2>2, SubSeqProperties DEF last
  <2>4. last - i + 1 = Len(a) /\ i <= last
    BY <1>1, <1>4 DEF last
  <2>5. \A j \in 1..Len(a) : SubSeq(s, i, last)[j] = a[j]
    <3> TAKE j \in 1..Len(a)
    <3>1. j \in 1..(Len(s) + 1 - i)
      BY <1>1, <1>4
    <3>2. s[i + j - 1] = x[j]
      BY <3>1, <1>3
    <3> QED BY <3>2, <2>3, <2>4, <1>21
  <2>6. SubSeq(s, i, last) = a
    BY <2>3, <2>4, <2>5, SeqEqual
  <2> QED BY <2>6 DEF last
<1>9. /\ text \in Seq(S) /\ Len(text) = Len(s)
      /\ \A j \in 1..Len(s) : text[j] = IF j = to THEN NUL ELSE s[j]
  BY <1>1, <1>4, ExceptSeq
<1>10. to + 1 \in 1..(Len(text) + 1)
  BY <1>1, <1>4, <1>9
<1>11. Left(text, to + 1) = b
  <2> DEFINE left == Left(text, to + 1)
             end == to + 1
  <2> HIDE DEF to, text, end, left
  <2>2. /\ Left(text, end) \in Seq(S)
        /\ Len(Left(text, end)) = Len(text) + 1 - end
        /\ \A j \in 1..(Len(text) + 1 - end) : Left(text, end)[j] = text[end + j - 1]
    BY ZenonT(60), <1>9, <1>10, LeftIs DEF end
  <2>3. left \in Seq(S) /\ Len(left) = Len(b)
    BY <2>2, <1>4, <1>9, <1>1 DEF left, end
  <2>4. \A j \in 1..Len(b) : left[j] = b[j]
    <3> TAKE j \in 1..Len(b)
    <3>1. /\ j \in 1..(Len(text) + 1 - end) /\ end + j - 1 = to + j
          /\ to + j \in 1..Len(s) /\ to + j # to
      BY <1>1, <1>4, <1>9 DEF end
    <3>2. left[j] = s[to + j]
      BY <3>1, <2>2, <1>9 DEF left, end
    <3>3. Len(a) + 1 + j \in 1..(Len(s) + 1 - i) /\ i + (Len(a) + 1 + j) - 1 = to + j
      BY <1>1, <1>4 DEF to
    <3>4. s[to + j] = x[Len(a) + 1 + j]
      BY <3>3, <1>3
    <3> QED BY <3>2, <3>4, <1>23
  <2>5. left = b
    BY <2>3, <2>4, SeqEqual
  <2> QED BY <2>5 DEF left
<1>12. to + 1 = i + Len(a) + 1
  OBVIOUS
<1> HIDE DEF to, text
<1> QED BY <1>7, <1>8, <1>9, <1>10, <1>11, <1>12

\* Nothing is left at the end.
LEMMA NothingLeft ==
    ASSUME NEW S, NEW s \in Seq(S)
    PROVE  Left(s, Len(s) + 1) = <<>>
<1>1. Len(s) \in Nat
  BY LenProperties
<1>2. Len(s) + 1 \in Int /\ Len(s) \in Int /\ Len(s) < Len(s) + 1
  BY <1>1
<1> QED BY <1>2, SubSeqEmpty DEF Left

\* Without a delimiter all that is left is taken.
LEMMA TokenLast ==
    ASSUME NEW S, NUL \in S, NEW s \in Seq(S), NEW i \in 1..(Len(s) + 1), NEW delims,
           NUL \notin delims, Clear(Left(s, i), delims)
    PROVE  LET r == NextToken(s, i, delims)
           IN  /\ r.found <=> Left(s, i) # <<>>
               /\ ~r.cut /\ r.token = Left(s, i)
               /\ r.text = s /\ r.next = Len(s) + 1
<1> DEFINE x == Left(s, i)
           to == Len(s) + 1
<1> HIDE DEF x
<1>1. Len(s) \in Nat /\ i \in Nat /\ i >= 1 /\ i <= to
  BY LenProperties
<1>2. DOMAIN s = 1..Len(s)
  BY LenProperties
<1>3. \A j \in 1..(Len(s) + 1 - i) : x[j] = s[i + j - 1]
  BY LeftIs DEF x
<1>4. Len(x) = Len(s) + 1 - i
  BY LeftIs DEF x
<1>5. CharAt(s, to) = NUL
  BY <1>1, <1>2 DEF CharAt
<1>6. \A j \in i..(to - 1) : CharAt(s, j) \notin delims \cup {NUL}
  <2> TAKE j \in i..(to - 1)
  <2>1. j \in DOMAIN s
    BY <1>1, <1>2
  <2>2. j - i + 1 \in 1..Len(x)
    BY <1>1, <1>4
  <2>3. i + (j - i + 1) - 1 = j
    BY <1>1
  <2>4. s[j] = x[j - i + 1]
    BY <2>2, <2>3, <1>3, <1>4
  <2> QED BY <2>1, <2>2, <2>4 DEF Clear, CharAt, x
<1>7. CharAt(s, i) \notin delims
  <2>1. CASE i = to
    BY <2>1, <1>5
  <2>2. CASE i # to
    <3>1. i \in i..(to - 1)
      BY <2>2, <1>1
    <3> QED BY <3>1, <1>6
  <2> QED BY <2>1, <2>2
<1>8. CharAt(s, i) # NUL <=> i # to
  <2>1. CASE i = to
    BY <2>1, <1>5
  <2>2. CASE i # to
    <3>1. i \in i..(to - 1)
      BY <2>2, <1>1
    <3> QED BY <2>2, <3>1, <1>6
  <2> QED BY <2>1, <2>2
<1>9. x # <<>> <=> i # to
  <2>1. x \in Seq(S)
    BY LeftIs DEF x
  <2>2. x # <<>> <=> Len(x) # 0
    BY <2>1, EmptySeq
  <2>3. Len(x) # 0 <=> i # to
    BY <1>1, <1>4
  <2> QED BY <2>2, <2>3
<1>10. NextToken(s, i, delims) =
           [found |-> CharAt(s, i) # NUL,
            token |-> SubSeq(s, i, to - 1),
            cut |-> CharAt(s, to) # NUL,
            next |-> IF CharAt(s, to) # NUL THEN to + 1 ELSE to,
            text |-> IF CharAt(s, to) # NUL THEN [s EXCEPT ![to] = NUL] ELSE s]
  <2>1. i \in i..(Len(s) + 1)
    BY <1>1
  <2>2. to \in i..(Len(s) + 1)
    BY <1>1
  <2>3. \A j \in i..(i - 1) : CharAt(s, j) \in delims
    OBVIOUS
  <2>4. CharAt(s, to) \in delims \cup {NUL}
    BY <1>5
  <2> HIDE DEF to
  <2> QED BY <1>6, <1>7, <2>1, <2>2, <2>3, <2>4, NextTokenIs
<1>11. to - 1 = Len(s)
  BY <1>1
<1>12. SubSeq(s, i, to - 1) = x
  BY <1>11 DEF x, Left
<1> HIDE DEF to
<1>13. ~(CharAt(s, to) # NUL)
  BY <1>5
<1>14. /\ NextToken(s, i, delims).found = (CharAt(s, i) # NUL)
       /\ NextToken(s, i, delims).token = x
       /\ NextToken(s, i, delims).cut = (CharAt(s, to) # NUL)
       /\ NextToken(s, i, delims).next = to
       /\ NextToken(s, i, delims).text = s
  BY <1>10, <1>12, <1>13
<1> QED BY <1>8, <1>9, <1>13, <1>14 DEF x, to

\* What has come of a text is a text.
LEMMA ComesIs ==
    ASSUME NEW S, NEW text \in Seq(S), NEW x, NEW whole, Comes(x, text, whole)
    PROVE  /\ x \in Seq(S) /\ Len(x) <= Len(text) /\ x = SubSeq(text, 1, Len(x))
           /\ \A j \in 1..Len(x) : x[j] = text[j]
           /\ whole => x = text
<1>1. PICK n \in 0..Len(text) : x = SubSeq(text, 1, n) /\ (whole => n = Len(text))
  BY DEF Comes
<1>2. Len(text) \in Nat
  BY LenProperties
<1>3. x \in Seq(S)
  BY <1>1, BeginningIs
<1>4. Len(x) = n
  BY <1>1, BeginningIs
<1>5. \A j \in 1..n : x[j] = text[j]
  BY <1>1, BeginningIs
<1>6. whole => x = text
  BY <1>1, SubSeqFull
<1> QED BY <1>1, <1>2, <1>3, <1>4, <1>5, <1>6

\* All of a text, a beginning, and nothing at all.
LEMMA AllComes ==
    ASSUME NEW S, NEW text \in Seq(S), NEW whole
    PROVE  /\ Comes(text, text, whole)
           /\ \A n \in 0..Len(text) : Comes(SubSeq(text, 1, n), text, FALSE)
           /\ ~whole => Comes(<<>>, text, whole)
<1>1. Len(text) \in Nat
  BY LenProperties
<1>2. Len(text) \in 0..Len(text) /\ 0 \in 0..Len(text)
  BY <1>1
<1>3. SubSeq(text, 1, Len(text)) = text
  BY SubSeqFull
<1>4. SubSeq(text, 1, 0) = <<>>
  BY SubSeqEmpty
<1> QED BY <1>2, <1>3, <1>4 DEF Comes

\* A beginning of what strtok_r takes whole is taken whole.
LEMMA ComesClear ==
    ASSUME NEW S, NEW a \in Seq(S), NEW x, NEW whole, Comes(x, a, whole),
           NEW delims, Clear(a, delims)
    PROVE  Clear(x, delims)
<1>1. Len(x) <= Len(a) /\ x \in Seq(S)
  BY ComesIs
<1>2. \A j \in 1..Len(x) : x[j] = a[j]
  BY ComesIs
<1>3. Len(x) \in Nat /\ Len(a) \in Nat
  BY <1>1, LenProperties
<1> QED BY <1>1, <1>2, <1>3 DEF Clear

\* What has come of a token with something behind it: the token, its delimiter
\* and the beginning of the rest, or only a beginning of the token.
LEMMA JoinedComes ==
    ASSUME NEW S, NEW a \in Seq(S), NEW d \in S, NEW b \in Seq(S),
           NEW x, NEW whole, Comes(x, Joined(a, d, b), whole)
    PROVE  \/ \E y : Comes(y, b, whole) /\ x = Joined(a, d, y)
           \/ ~whole /\ Comes(x, a, FALSE)
<1> DEFINE all == Joined(a, d, b)
           n == Len(x)
<1> HIDE DEF all
<1>1. Len(a) \in Nat /\ Len(b) \in Nat
  BY LenProperties
<1>2. all \in Seq(S)
  BY <1>1, JoinedIs DEF all
<1>3. Len(all) = Len(a) + 1 + Len(b)
  BY <1>1, JoinedIs DEF all
<1>4. \A j \in 1..Len(a) : all[j] = a[j]
  BY <1>1, JoinedIs DEF all
<1>5. all[Len(a) + 1] = d
  BY <1>1, JoinedIs DEF all
<1>6. \A j \in 1..Len(b) : all[Len(a) + 1 + j] = b[j]
  BY <1>1, JoinedIs DEF all
<1>7. x \in Seq(S) /\ n <= Len(all) /\ (whole => x = all)
  BY <1>2, ComesIs DEF all
<1>8. \A j \in 1..n : x[j] = all[j]
  BY <1>2, ComesIs DEF all
<1>9. n \in Nat
  BY <1>7, LenProperties
<1> HIDE DEF n
<1>10. CASE n <= Len(a)
  <2>1. ~whole
    BY <1>10, <1>1, <1>3, <1>7 DEF n
  <2>2. n \in 0..Len(a)
    BY <1>10, <1>1, <1>9
  <2>3. SubSeq(a, 1, n) \in Seq(S) /\ Len(SubSeq(a, 1, n)) = n
    BY <2>2, BeginningIs
  <2>4. \A j \in 1..n : SubSeq(a, 1, n)[j] = a[j]
    BY <2>2, BeginningIs
  <2>5. \A j \in 1..n : x[j] = a[j]
    BY <1>1, <1>4, <1>8, <1>9, <1>10
  <2>6. x = SubSeq(a, 1, n)
    BY <1>7, <2>3, <2>4, <2>5, SeqEqual DEF n
  <2> QED BY <2>1, <2>2, <2>6 DEF Comes
<1>11. CASE n > Len(a)
  <2> DEFINE m == n - Len(a) - 1
             y == SubSeq(b, 1, m)
  <2>1. m \in 0..Len(b)
    BY <1>1, <1>3, <1>7, <1>9, <1>11
  <2>2. n = Len(a) + 1 + m
    BY <1>1, <1>9, <1>11
  <2> HIDE DEF m
  <2>3. y \in Seq(S) /\ Len(y) = m
    BY <2>1, BeginningIs
  <2>4. \A j \in 1..m : y[j] = b[j]
    BY <2>1, BeginningIs
  <2>5. whole => m = Len(b)
    BY <1>1, <1>3, <1>7, <2>1, <2>2 DEF n
  <2>6. Comes(y, b, whole)
    BY <2>1, <2>5 DEF Comes
  <2> HIDE DEF y
  <2> DEFINE z == Joined(a, d, y)
  <2> HIDE DEF z
  <2>31. y \in Seq(S)
    BY <2>3
  <2>7. z \in Seq(S)
    BY <2>31, JoinedIs DEF z
  <2>8. Len(z) = Len(a) + 1 + Len(y)
    BY <2>31, JoinedIs DEF z
  <2>9. \A j \in 1..Len(a) : z[j] = a[j]
    BY <2>31, JoinedIs DEF z
  <2>10. z[Len(a) + 1] = d
    BY <2>31, JoinedIs DEF z
  <2>11. \A j \in 1..Len(y) : z[Len(a) + 1 + j] = y[j]
    BY <2>31, JoinedIs DEF z
  <2>12. \A j \in 1..n : x[j] = z[j]
    <3> TAKE j \in 1..n
    <3>1. CASE j <= Len(a)
      <4>1. j \in 1..Len(a)
        BY <3>1, <1>1
      <4> QED BY <4>1, <1>4, <1>8, <2>9
    <3>2. CASE j = Len(a) + 1
      BY <3>2, <1>5, <1>8, <2>10
    <3>3. CASE j > Len(a) + 1
      <4> DEFINE k == j - (Len(a) + 1)
      <4>1. k \in 1..m
        BY <3>3, <1>1, <1>9, <2>1, <2>2
      <4>2. j = Len(a) + 1 + k
        BY <3>3, <1>1, <1>9
      <4> HIDE DEF k
      <4>3. k \in 1..Len(b) /\ k \in 1..Len(y)
        BY <4>1, <2>1, <2>3, <1>1
      <4>4. all[j] = b[k] /\ z[j] = y[k]
        BY <4>2, <4>3, <1>6, <2>11
      <4> QED BY <4>1, <4>4, <1>8, <2>4
    <3> QED BY <3>1, <3>2, <3>3, <1>1, <1>9
  <2>13. x = z
    <3>1. Len(x) = Len(z)
      BY <2>2, <2>3, <2>8 DEF n
    <3>2. \A j \in 1..Len(x) : x[j] = z[j]
      BY <2>12 DEF n
    <3>3. x \in Seq(S)
      BY <1>7
    <3> QED BY <3>1, <3>2, <3>3, <2>7, SeqEqual
  <2> QED BY <2>6, <2>13 DEF z
<1>12. n <= Len(a) \/ n > Len(a)
  BY <1>1, <1>9
<1> QED BY <1>10, <1>11, <1>12, Zenon

\* A call of strtok_r on what has come of a token with something behind it.
LEMMA TokenComes ==
    ASSUME NEW S, NUL \in S, NEW s \in Seq(S), NEW i \in 1..(Len(s) + 1), NEW delims,
           NEW a \in Seq(S), NEW d \in S, NEW b \in Seq(S),
           a # <<>>, Clear(a, delims), d \in delims, NUL \notin delims,
           NEW whole, Comes(Left(s, i), Joined(a, d, b), whole)
    PROVE  LET r == NextToken(s, i, delims)
           IN  /\ r.text \in Seq(S) /\ r.next \in 1..(Len(r.text) + 1)
               /\ \/ r.found /\ r.cut /\ r.token = a /\ Comes(Left(r.text, r.next), b, whole)
                  \/ /\ ~whole /\ ~r.cut /\ Comes(r.token, a, FALSE)
                     /\ r.found <=> r.token # <<>>
                     /\ Left(r.text, r.next) = <<>>
<1> DEFINE r == NextToken(s, i, delims)
<1>1. CASE \E y : Comes(y, b, whole) /\ Left(s, i) = Joined(a, d, y)
  <2>1. PICK y : Comes(y, b, whole) /\ Left(s, i) = Joined(a, d, y)
    BY <1>1
  <2>2. y \in Seq(S)
    BY <2>1, ComesIs
  <2>3. /\ r.found /\ r.cut /\ r.token = a
        /\ r.text \in Seq(S) /\ r.next \in 1..(Len(r.text) + 1)
        /\ Left(r.text, r.next) = y
    BY <2>1, <2>2, TokenCut, SMTT(40)
  <2> HIDE DEF r
  <2> QED BY <2>1, <2>3 DEF r
<1>2. CASE ~whole /\ Comes(Left(s, i), a, FALSE)
  <2>1. Clear(Left(s, i), delims)
    BY <1>2, ComesClear
  <2>2. /\ r.found <=> Left(s, i) # <<>>
        /\ ~r.cut /\ r.token = Left(s, i)
        /\ r.text = s /\ r.next = Len(s) + 1
    BY <2>1, TokenLast
  <2> HIDE DEF r
  <2>3. Left(r.text, r.next) = <<>>
    BY <2>2, NothingLeft
  <2>4. r.next \in 1..(Len(r.text) + 1)
    BY <2>2, LenProperties
  <2> QED BY <1>2, <2>2, <2>3, <2>4 DEF r
<1>3. \/ \E y : Comes(y, b, whole) /\ Left(s, i) = Joined(a, d, y)
      \/ ~whole /\ Comes(Left(s, i), a, FALSE)
  BY JoinedComes
<1> QED BY <1>1, <1>2, <1>3

\* And on what has come of a token that is the last one.
LEMMA TokenEnds ==
    ASSUME NEW S, NUL \in S, NEW s \in Seq(S), NEW i \in 1..(Len(s) + 1), NEW delims,
           NEW a \in Seq(S), Clear(a, delims), NUL \notin delims,
           NEW whole, Comes(Left(s, i), a, whole)
    PROVE  LET r == NextToken(s, i, delims)
           IN  /\ r.text \in Seq(S) /\ r.next \in 1..(Len(r.text) + 1)
               /\ ~r.cut /\ Comes(r.token, a, whole)
               /\ r.found <=> r.token # <<>>
               /\ Left(r.text, r.next) = <<>>
<1> DEFINE r == NextToken(s, i, delims)
<1>1. Clear(Left(s, i), delims)
  BY ComesClear
<1>2. /\ r.found <=> Left(s, i) # <<>>
      /\ ~r.cut /\ r.token = Left(s, i)
      /\ r.text = s /\ r.next = Len(s) + 1
  BY <1>1, TokenLast
<1> HIDE DEF r
<1>3. Left(r.text, r.next) = <<>>
  BY <1>2, NothingLeft
<1>4. r.next \in 1..(Len(r.text) + 1)
  BY <1>2, LenProperties
<1> QED BY <1>2, <1>3, <1>4 DEF r

\* Where any call begins and ends.
LEMMA TokenPlace ==
    ASSUME NEW S, NEW s \in Seq(S), NEW i \in 1..(Len(s) + 1), NEW delims, NUL \notin delims
    PROVE  \E from \in i..(Len(s) + 1) : \E to \in from..(Len(s) + 1) :
              /\ \A j \in i..(from - 1) : CharAt(s, j) \in delims
              /\ CharAt(s, from) \notin delims
              /\ \A j \in from..(to - 1) : CharAt(s, j) \notin delims \cup {NUL}
              /\ CharAt(s, to) \in delims \cup {NUL}
<1>1. Len(s) \in Nat /\ DOMAIN s = 1..Len(s)
  BY LenProperties
<1>2. CharAt(s, Len(s) + 1) = NUL
  BY <1>1 DEF CharAt
<1> DEFINE Kept == {j \in i..(Len(s) + 1) : CharAt(s, j) \notin delims}
<1>3. Kept \subseteq Nat /\ Len(s) + 1 \in Kept
  BY <1>1, <1>2
<1>4. PICK from \in Kept : \A j \in Kept : from =< j
  BY <1>3, LeastNumber
<1> DEFINE Stops == {j \in from..(Len(s) + 1) : CharAt(s, j) \in delims \cup {NUL}}
<1>5. from \in i..(Len(s) + 1) /\ CharAt(s, from) \notin delims
  BY <1>4
<1>6. Stops \subseteq Nat /\ Len(s) + 1 \in Stops
  BY <1>1, <1>2, <1>5
<1>7. PICK to \in Stops : \A j \in Stops : to =< j
  BY <1>6, LeastNumber
<1>8. to \in from..(Len(s) + 1) /\ CharAt(s, to) \in delims \cup {NUL}
  BY <1>7
<1>9. \A j \in i..(from - 1) : CharAt(s, j) \in delims
  <2> TAKE j \in i..(from - 1)
  <2>1. j \in i..(Len(s) + 1) /\ ~(from =< j)
    BY <1>1, <1>5
  <2> QED BY <2>1, <1>4
<1>10. \A j \in from..(to - 1) : CharAt(s, j) \notin delims \cup {NUL}
  <2> TAKE j \in from..(to - 1)
  <2>1. j \in from..(Len(s) + 1) /\ ~(to =< j)
    BY <1>1, <1>5, <1>8
  <2> QED BY <2>1, <1>7
<1> QED BY <1>5, <1>8, <1>9, <1>10

\* Any call gives a text, and leaves one.
LEMMA TokenType ==
    ASSUME NEW S, NUL \in S, NEW s \in Seq(S), NEW i \in 1..(Len(s) + 1), NEW delims,
           NUL \notin delims
    PROVE  LET r == NextToken(s, i, delims)
           IN  /\ r.text \in Seq(S) /\ r.next \in 1..(Len(r.text) + 1)
               /\ r.token \in Seq(S) /\ r.found \in BOOLEAN
               /\ r.found <=> r.token # <<>>
               /\ r.found => r.token[1] \notin delims
<1>1. Len(s) \in Nat /\ DOMAIN s = 1..Len(s)
  BY LenProperties
<1>2. PICK from \in i..(Len(s) + 1), to \in i..(Len(s) + 1) :
         /\ from =< to
         /\ \A j \in i..(from - 1) : CharAt(s, j) \in delims
         /\ CharAt(s, from) \notin delims
         /\ \A j \in from..(to - 1) : CharAt(s, j) \notin delims \cup {NUL}
         /\ CharAt(s, to) \in delims \cup {NUL}
  BY <1>1, TokenPlace
<1>3. to \in from..(Len(s) + 1) /\ from \in Nat /\ to \in Nat
  BY <1>1, <1>2
<1>4. NextToken(s, i, delims) =
               [found |-> CharAt(s, from) # NUL,
                token |-> SubSeq(s, from, to - 1),
                cut |-> CharAt(s, to) # NUL,
                next |-> IF CharAt(s, to) # NUL THEN to + 1 ELSE to,
                text |-> IF CharAt(s, to) # NUL THEN [s EXCEPT ![to] = NUL] ELSE s]
  BY <1>2, <1>3, NextTokenIs
<1> DEFINE token == SubSeq(s, from, to - 1)
           text == IF CharAt(s, to) # NUL THEN [s EXCEPT ![to] = NUL] ELSE s
           next == IF CharAt(s, to) # NUL THEN to + 1 ELSE to
<1>5. \A j \in from..(to - 1) : s[j] \in S
  BY <1>1, <1>3, LenProperties
<1>6. token \in Seq(S)
  <2>1. from \in Int /\ to - 1 \in Int
    BY <1>3
  <2> QED BY <1>5, <2>1, SubSeqProperties
<1>7. Len(token) = to - from
  <2>1. from \in Int /\ to - 1 \in Int
    BY <1>3
  <2>2. Len(token) = IF from <= to - 1 THEN (to - 1) - from + 1 ELSE 0
    BY <1>5, <2>1, SubSeqProperties
  <2> HIDE DEF token
  <2> QED BY <2>2, <1>3
<1>8. from < to => token[1] = CharAt(s, from)
  <2> SUFFICES ASSUME from < to PROVE token[1] = CharAt(s, from)
    OBVIOUS
  <2>1. from \in Int /\ to - 1 \in Int /\ 1 \in 1..((to - 1) - from + 1) /\ from + 1 - 1 = from
    BY <1>3
  <2>2. \A j \in 1..((to - 1) - from + 1) : token[j] = s[from + j - 1]
    BY <1>5, <2>1, SubSeqProperties
  <2> HIDE DEF token
  <2>3. token[1] = s[from + 1 - 1]
    BY <2>1, <2>2
  <2>4. from \in DOMAIN s
    BY <1>1, <1>3
  <2> QED BY <2>1, <2>3, <2>4 DEF CharAt
<1>9. CharAt(s, from) # NUL <=> from < to
  <2>1. CASE from = to
    BY <2>1, <1>2, <1>3
  <2>2. CASE from # to
    <3>1. from \in from..(to - 1) /\ from < to
      BY <2>2, <1>3
    <3> QED BY <3>1, <1>2
  <2> QED BY <2>1, <2>2
<1> HIDE DEF token
<1>10. CharAt(s, from) # NUL <=> token # <<>>
  <2>1. token # <<>> <=> Len(token) # 0
    BY <1>6, EmptySeq
  <2> QED BY <2>1, <1>3, <1>7, <1>9
<1>11. text \in Seq(S) /\ next \in 1..(Len(text) + 1)
  <2>1. CASE CharAt(s, to) # NUL
    <3>1. to \in 1..Len(s)
      BY <2>1, <1>1, <1>3 DEF CharAt
    <3>2. [s EXCEPT ![to] = NUL] \in Seq(S) /\ Len([s EXCEPT ![to] = NUL]) = Len(s)
      BY <3>1, ExceptSeq
    <3> QED BY <2>1, <3>1, <3>2, <1>1
  <2>2. CASE ~(CharAt(s, to) # NUL)
    BY <2>2, <1>1, <1>3
  <2> QED BY <2>1, <2>2
<1> HIDE DEF text, next
<1>12. NextToken(s, i, delims) =
               [found |-> CharAt(s, from) # NUL, token |-> token, cut |-> CharAt(s, to) # NUL,
                next |-> next, text |-> text]
  BY <1>4 DEF token, text, next
<1>13. /\ NextToken(s, i, delims).found = (CharAt(s, from) # NUL)
       /\ NextToken(s, i, delims).token = token
       /\ NextToken(s, i, delims).next = next
       /\ NextToken(s, i, delims).text = text
  BY <1>12
<1>14. CharAt(s, from) # NUL => token[1] \notin delims
  BY <1>2, <1>8, <1>9
<1> DEFINE there == CharAt(s, from) # NUL
<1>15. there \in BOOLEAN
  OBVIOUS
<1>16. (there <=> token # <<>>) /\ (there => token[1] \notin delims)
  BY <1>10, <1>14
<1>17. NextToken(s, i, delims).found = there
  BY <1>13
<1> HIDE DEF there
<1> QED BY <1>6, <1>11, <1>13, <1>15, <1>16, <1>17

\* A token begins where the call is when there is no delimiter.
LEMMA TokenFirst ==
    ASSUME NEW S, NUL \in S, NEW s \in Seq(S), NEW i \in 1..(Len(s) + 1), NEW delims,
           NUL \notin delims, Left(s, i) # <<>>, Left(s, i)[1] # NUL, Left(s, i)[1] \notin delims
    PROVE  LET r == NextToken(s, i, delims)
           IN  r.token # <<>> /\ r.token[1] = Left(s, i)[1]
<1>1. Len(s) \in Nat /\ DOMAIN s = 1..Len(s)
  BY LenProperties
<1>2. PICK from \in i..(Len(s) + 1), to \in i..(Len(s) + 1) :
         /\ from =< to
         /\ \A j \in i..(from - 1) : CharAt(s, j) \in delims
         /\ CharAt(s, from) \notin delims
         /\ \A j \in from..(to - 1) : CharAt(s, j) \notin delims \cup {NUL}
         /\ CharAt(s, to) \in delims \cup {NUL}
  BY <1>1, TokenPlace
<1>3. to \in from..(Len(s) + 1) /\ from \in Nat /\ to \in Nat
  BY <1>1, <1>2
<1> DEFINE c == Left(s, i)[1]
<1>4. CharAt(s, i) = c
  BY NextChar
<1> HIDE DEF c
<1>5. c # NUL /\ c \notin delims
  BY DEF c
<1>6. from = i
  <2> SUFFICES ASSUME from # i PROVE FALSE
    OBVIOUS
  <2>1. i \in i..(from - 1)
    BY <1>1, <1>3
  <2>2. CharAt(s, i) \in delims
    BY <1>2, <2>1
  <2> QED BY <1>4, <1>5, <2>2
<1>7. from < to
  BY <1>2, <1>3, <1>4, <1>5, <1>6
<1> DEFINE token == SubSeq(s, from, to - 1)
<1>8. NextToken(s, i, delims) =
               [found |-> CharAt(s, from) # NUL,
                token |-> token,
                cut |-> CharAt(s, to) # NUL,
                next |-> IF CharAt(s, to) # NUL THEN to + 1 ELSE to,
                text |-> IF CharAt(s, to) # NUL THEN [s EXCEPT ![to] = NUL] ELSE s]
  BY <1>2, <1>3, NextTokenIs
<1>9. \A j \in from..(to - 1) : s[j] \in S
  BY <1>1, <1>3, LenProperties
<1>10. from \in Int /\ to - 1 \in Int /\ 1 \in 1..((to - 1) - from + 1) /\ from + 1 - 1 = from
  BY <1>3, <1>7
<1>11. token \in Seq(S)
  BY <1>9, <1>10, SubSeqProperties
<1>12. Len(token) = IF from <= to - 1 THEN (to - 1) - from + 1 ELSE 0
  BY <1>9, <1>10, SubSeqProperties
<1>13. \A j \in 1..((to - 1) - from + 1) : token[j] = s[from + j - 1]
  BY <1>9, <1>10, SubSeqProperties
<1> HIDE DEF token
<1>14. token[1] = s[from + 1 - 1]
  BY <1>10, <1>13
<1>15. token[1] = c
  <2>1. from \in DOMAIN s
    BY <1>1, <1>3, <1>7
  <2> QED BY <1>4, <1>6, <1>10, <1>14, <2>1 DEF CharAt
<1>16. token # <<>>
  <2>1. Len(token) # 0
    BY <1>3, <1>7, <1>12
  <2> QED BY <1>11, <2>1, EmptySeq
<1>17. NextToken(s, i, delims).token = token
  BY <1>8
<1> QED BY <1>15, <1>16, <1>17 DEF c

\* What a call leaves of a text without a terminator in it.
LEMMA TokenLeaves ==
    ASSUME NEW S, NUL \in S, NEW s \in Seq(S), NEW i \in 1..(Len(s) + 1), NEW delims,
           NUL \notin delims, Clear(Left(s, i), {}), NextToken(s, i, delims).token # <<>>
    PROVE  LET r == NextToken(s, i, delims)
           IN  \/ Left(r.text, r.next) = <<>>
               \/ \E k, j \in 1..Len(Left(s, i)) :
                     /\ k < j /\ Left(s, i)[k] \notin delims /\ Left(s, i)[j] \in delims
                     /\ Left(r.text, r.next) = Left(Left(s, i), j + 1)
<1> DEFINE x == Left(s, i)
<1>1. Len(s) \in Nat /\ DOMAIN s = 1..Len(s)
  BY LenProperties
<1>2. PICK from \in i..(Len(s) + 1), to \in i..(Len(s) + 1) :
         /\ from =< to
         /\ \A j \in i..(from - 1) : CharAt(s, j) \in delims
         /\ CharAt(s, from) \notin delims
         /\ \A j \in from..(to - 1) : CharAt(s, j) \notin delims \cup {NUL}
         /\ CharAt(s, to) \in delims \cup {NUL}
  BY <1>1, TokenPlace
<1>3. to \in from..(Len(s) + 1) /\ from \in Nat /\ to \in Nat
  BY <1>1, <1>2
<1>4. NextToken(s, i, delims) =
               [found |-> CharAt(s, from) # NUL,
                token |-> SubSeq(s, from, to - 1),
                cut |-> CharAt(s, to) # NUL,
                next |-> IF CharAt(s, to) # NUL THEN to + 1 ELSE to,
                text |-> IF CharAt(s, to) # NUL THEN [s EXCEPT ![to] = NUL] ELSE s]
  BY <1>2, <1>3, NextTokenIs
<1> HIDE DEF x
<1>51. x \in Seq(S)
  BY LeftIs DEF x
<1>52. Len(x) = Len(s) + 1 - i
  BY LeftIs DEF x
<1>53. \A j \in 1..(Len(s) + 1 - i) : x[j] = s[i + j - 1]
  BY LeftIs DEF x
<1>5. /\ x \in Seq(S) /\ Len(x) = Len(s) + 1 - i
      /\ \A j \in 1..(Len(s) + 1 - i) : x[j] = s[i + j - 1]
  BY <1>51, <1>52, <1>53
<1>6. \A j \in i..Len(s) : j - i + 1 \in 1..Len(x) /\ CharAt(s, j) = x[j - i + 1]
  <2> TAKE j \in i..Len(s)
  <2> DEFINE l == j - i + 1
  <2>1. l \in 1..(Len(s) + 1 - i) /\ i + l - 1 = j /\ j \in DOMAIN s
    BY <1>1
  <2> HIDE DEF l
  <2>2. x[l] = s[j]
    BY <2>1, <1>53
  <2>3. CharAt(s, j) = s[j]
    BY <2>1 DEF CharAt
  <2>4. l \in 1..Len(x)
    BY <2>1, <1>52
  <2>5. l \in 1..Len(x) /\ CharAt(s, j) = x[l]
    BY <2>2, <2>3, <2>4
  <2> QED BY <2>5 DEF l
<1>7. from < to
  <2>1. NextToken(s, i, delims).token = SubSeq(s, from, to - 1)
    BY <1>4
  <2> SUFFICES ASSUME from = to PROVE FALSE
    BY <1>2, <1>3
  <2>2. from \in Int /\ to - 1 \in Int /\ to - 1 < from
    BY <1>3
  <2>3. SubSeq(s, from, to - 1) = <<>>
    BY <2>2, SubSeqEmpty
  <2> QED BY <2>1, <2>3
<1>8. CASE to = Len(s) + 1
  <2>1. ~(CharAt(s, to) # NUL)
    BY <1>8, <1>1 DEF CharAt
  <2>2. NextToken(s, i, delims).next = to /\ NextToken(s, i, delims).text = s
    BY <1>4, <2>1
  <2>3. Left(s, to) = <<>>
    BY <1>8, NothingLeft
  <2> QED BY <2>2, <2>3
<1>9. CASE to # Len(s) + 1
  <2> DEFINE k == from - i + 1
             j == to - i + 1
             text == [s EXCEPT ![to] = NUL]
  <2>1. from \in i..Len(s) /\ to \in i..Len(s)
    BY <1>1, <1>3, <1>7, <1>9
  <2>2. k \in 1..Len(x) /\ j \in 1..Len(x) /\ CharAt(s, from) = x[k] /\ CharAt(s, to) = x[j]
    BY <1>6, <2>1
  <2>3. k < j
    BY <1>3, <1>7
  <2>4. CharAt(s, to) # NUL
    BY <2>2 DEF Clear, x
  <2>5. NextToken(s, i, delims).next = to + 1 /\ NextToken(s, i, delims).text = text
    BY <1>4, <2>4
  <2>6. /\ text \in Seq(S) /\ Len(text) = Len(s)
        /\ \A l \in 1..Len(s) : text[l] = IF l = to THEN NUL ELSE s[l]
    <3>1. to \in 1..Len(s)
      BY <2>1
    <3> QED BY <3>1, ExceptSeq
  <2> HIDE DEF text
  <2>7. to + 1 \in 1..(Len(text) + 1) /\ j + 1 \in 1..(Len(x) + 1)
    BY <2>1, <2>2, <2>6, <1>1
  <2> DEFINE u == Left(text, to + 1)
             v == Left(x, j + 1)
  <2> DEFINE p == to + 1
             q == j + 1
  <2> HIDE DEF u, v, p, q
  <2>81. u = Left(text, p) /\ v = Left(x, q)
    BY DEF u, v, p, q
  <2>82. p \in 1..(Len(text) + 1) /\ q \in 1..(Len(x) + 1) /\ text \in Seq(S) /\ x \in Seq(S)
    BY <2>6, <2>7, <1>51 DEF p, q
  <2>83. u \in Seq(S) /\ v \in Seq(S)
    BY <2>81, <2>82, LeftIs
  <2>84. Len(u) = Len(text) + 1 - p
    BY <2>81, <2>82, LeftIs
  <2>85. Len(v) = Len(x) + 1 - q
    BY <2>81, <2>82, LeftIs
  <2>8. \A l \in 1..(Len(text) + 1 - p) : u[l] = text[p + l - 1]
    BY SMTT(40), <2>81, <2>82, LeftIs
  <2>9. \A l \in 1..(Len(x) + 1 - q) : v[l] = x[q + l - 1]
    BY SMTT(40), <2>81, <2>82, LeftIs
  <2>10. Len(u) = Len(v) /\ Len(u) = Len(s) - to
    <3>1. Len(s) \in Int /\ i \in Int /\ to \in Int
      BY <1>1, <1>3
    <3>2. Len(u) = Len(s) - to
      BY <3>1, <2>6, <2>84 DEF p
    <3>3. Len(v) = Len(s) - to
      BY <3>1, <1>52, <2>85 DEF q, j
    <3> QED BY <3>2, <3>3
  <2>11. \A l \in 1..Len(u) : u[l] = v[l]
    <3> TAKE l \in 1..Len(u)
    <3>0. l \in 1..(Len(text) + 1 - p) /\ l \in 1..(Len(x) + 1 - q)
      BY <2>10, <2>84, <2>85
    <3>1. p + l - 1 = to + l /\ to + l \in 1..Len(s) /\ to + l # to
      BY <2>1, <2>10, <1>1 DEF p
    <3>2. u[l] = s[to + l]
      BY <3>0, <3>1, <2>6, <2>8
    <3>4. v[l] = x[q + l - 1]
      BY <3>0, <2>9
    <3>5. q + l - 1 \in 1..(Len(s) + 1 - i) /\ i + (q + l - 1) - 1 = to + l
      BY <2>1, <2>10, <1>1 DEF q, j
    <3>6. x[q + l - 1] = s[to + l]
      BY <3>5, <1>53
    <3> QED BY <3>2, <3>4, <3>6
  <2>12. u = v
    BY <2>83, <2>10, <2>11, SeqEqual
  <2>13. x[k] \notin delims /\ x[j] \in delims
    BY <1>2, <2>2, <2>4
  <2> HIDE DEF k, j
  <2>14. Left(NextToken(s, i, delims).text, NextToken(s, i, delims).next) = Left(x, j + 1)
    BY <2>5, <2>12 DEF u, v
  <2> QED BY <2>2, <2>3, <2>13, <2>14 DEF x
<1> QED BY <1>8, <1>9

-----------------------------------------------------------------------------
(* Texts that are put together from parts.                                 *)

\* The parts up to each one, put together.
Flat(seqs) ==
    CHOOSE flatten : flatten = [i \in 1..Len(seqs) |->
                                   IF i = 1 THEN seqs[i] ELSE flatten[i - 1] \o seqs[i]]

IsFlat(f, seqs) ==
    /\ DOMAIN f = 1..Len(seqs)
    /\ \A i \in 1..Len(seqs) : f[i] = IF i = 1 THEN seqs[i] ELSE f[i - 1] \o seqs[i]

\* The recursive function of FlattenSeq is this one.
LEMMA FlattenSeqIs ==
    ASSUME NEW seqs, Len(seqs) # 0
    PROVE  FlattenSeq(seqs) = Flat(seqs)[Len(seqs)]
BY DEF FlattenSeq, Flat

\* There is such a function.
LEMMA FlatExists ==
    ASSUME NEW S, NEW seqs \in Seq(Seq(S))
    PROVE  \E f \in [1..Len(seqs) -> Seq(S)] : IsFlat(f, seqs)
<1> DEFINE Upto(n) == {f \in [1..n -> Seq(S)] :
                          \A i \in 1..n : f[i] = IF i = 1 THEN seqs[i] ELSE f[i - 1] \o seqs[i]}
           T == {n \in Nat : n <= Len(seqs) => Upto(n) # {}}
<1>1. Len(seqs) \in Nat /\ \A i \in 1..Len(seqs) : seqs[i] \in Seq(S)
  BY LenProperties
<1>2. 0 \in T
  <2>1. [i \in 1..0 |-> <<>>] \in Upto(0)
    OBVIOUS
  <2> QED BY <2>1
<1>3. ASSUME NEW n \in Nat, n \in T
      PROVE  n + 1 \in T
  <2>0. SUFFICES ASSUME n + 1 <= Len(seqs) PROVE Upto(n + 1) # {}
    <3> HIDE DEF Upto
    <3>1. n + 1 \in Nat
      OBVIOUS
    <3> QED BY <3>1
  <2>1. n <= Len(seqs) /\ n + 1 \in 1..Len(seqs)
    BY <1>1, <2>0
  <2>2. PICK f \in [1..n -> Seq(S)] :
           \A i \in 1..n : f[i] = IF i = 1 THEN seqs[i] ELSE f[i - 1] \o seqs[i]
    BY <1>3, <2>1
  <2> DEFINE last == IF n + 1 = 1 THEN seqs[n + 1] ELSE f[n] \o seqs[n + 1]
             g == [i \in 1..(n + 1) |-> IF i = n + 1 THEN last ELSE f[i]]
  <2>3. last \in Seq(S)
    <3>1. seqs[n + 1] \in Seq(S)
      BY <1>1, <2>1
    <3>2. CASE n + 1 = 1
      BY <3>1, <3>2
    <3>3. CASE n + 1 # 1
      <4>1. n \in 1..n
        BY <3>3
      <4>2. f[n] \in Seq(S)
        BY <4>1
      <4> QED BY <3>1, <3>3, <4>2, ConcatProperties
    <3> QED BY <3>2, <3>3
  <2> HIDE DEF last
  <2>4. g \in [1..(n + 1) -> Seq(S)]
    BY <2>3
  <2>5. \A i \in 1..n : g[i] = f[i]
    OBVIOUS
  <2>6. g[n + 1] = last
    OBVIOUS
  <2> HIDE DEF g
  <2>7. \A i \in 1..(n + 1) : g[i] = IF i = 1 THEN seqs[i] ELSE g[i - 1] \o seqs[i]
    <3> TAKE i \in 1..(n + 1)
    <3>1. CASE i = n + 1
      <4>1. CASE i = 1
        BY <3>1, <4>1, <2>6 DEF last
      <4>2. CASE i # 1
        <5>1. n \in 1..n /\ i - 1 = n
          BY <3>1, <4>2
        <5>2. g[n] = f[n]
          BY <5>1, <2>5
        <5> QED BY <3>1, <4>2, <5>1, <5>2, <2>6 DEF last
      <4> QED BY <4>1, <4>2
    <3>2. CASE i # n + 1
      <4>1. i \in 1..n
        BY <3>2
      <4>2. g[i] = f[i]
        BY <4>1, <2>5
      <4>3. CASE i = 1
        BY <4>1, <4>2, <4>3, <2>2
      <4>4. CASE i # 1
        <5>1. i - 1 \in 1..n
          BY <4>1, <4>4
        <5>2. g[i - 1] = f[i - 1]
          BY <5>1, <2>5
        <5> QED BY <4>1, <4>2, <4>4, <5>2, <2>2
      <4> QED BY <4>3, <4>4
    <3> QED BY <3>1, <3>2
  <2>8. g \in Upto(n + 1)
    BY <2>4, <2>7
  <2> QED BY <2>8
<1>4. Len(seqs) \in T
  <2> HIDE DEF T
  <2> QED BY <1>1, <1>2, <1>3, EveryNumber
<1>5. PICK f : f \in Upto(Len(seqs))
  BY <1>1, <1>4
<1>6. IsFlat(f, seqs) /\ f \in [1..Len(seqs) -> Seq(S)]
  BY <1>5 DEF IsFlat
<1> QED BY <1>6

\* And it is the only one.
LEMMA FlatUnique ==
    ASSUME NEW S, NEW seqs \in Seq(Seq(S)), NEW f, IsFlat(f, seqs), NEW g, IsFlat(g, seqs)
    PROVE  \A i \in 1..Len(seqs) : f[i] = g[i]
<1> DEFINE T == {n \in Nat : n \in 1..Len(seqs) => f[n] = g[n]}
<1>1. Len(seqs) \in Nat
  BY LenProperties
<1>2. 0 \in T
  OBVIOUS
<1>3. ASSUME NEW n \in Nat, n \in T
      PROVE  n + 1 \in T
  <2> SUFFICES ASSUME n + 1 \in 1..Len(seqs) PROVE f[n + 1] = g[n + 1]
    OBVIOUS
  <2>1. CASE n = 0
    <3>1. n + 1 = 1
      BY <2>1
    <3>2. f[n + 1] = seqs[n + 1]
      BY <3>1 DEF IsFlat
    <3>3. g[n + 1] = seqs[n + 1]
      BY <3>1 DEF IsFlat
    <3> QED BY <3>2, <3>3
  <2>2. CASE n # 0
    <3>1. n \in 1..Len(seqs) /\ n + 1 # 1 /\ n + 1 - 1 = n
      BY <2>2, <1>1
    <3>2. f[n] = g[n]
      BY <1>3, <3>1
    <3> DEFINE k == n + 1
    <3>5. k \in 1..Len(seqs) /\ k # 1 /\ k - 1 = n
      BY <3>1
    <3> HIDE DEF k
    <3>6. f[k] = f[k - 1] \o seqs[k]
      BY <3>5, Zenon DEF IsFlat
    <3>7. g[k] = g[k - 1] \o seqs[k]
      BY <3>5, Zenon DEF IsFlat
    <3>3. f[n + 1] = f[n] \o seqs[n + 1]
      BY <3>5, <3>6 DEF k
    <3>4. g[n + 1] = g[n] \o seqs[n + 1]
      BY <3>5, <3>7 DEF k
    <3> QED BY <3>2, <3>3, <3>4
  <2> QED BY <2>1, <2>2
<1>4. \A n \in Nat : n \in T
  <2> HIDE DEF T
  <2> QED BY <1>2, <1>3, EveryNumber
<1> QED BY <1>1, <1>4

\* So Flat is that function.
LEMMA FlatIs ==
    ASSUME NEW S, NEW seqs \in Seq(Seq(S))
    PROVE  IsFlat(Flat(seqs), seqs) /\ Flat(seqs) \in [1..Len(seqs) -> Seq(S)]
<1>1. PICK f \in [1..Len(seqs) -> Seq(S)] : IsFlat(f, seqs)
  BY FlatExists
<1>2. f = [i \in 1..Len(seqs) |-> IF i = 1 THEN seqs[i] ELSE f[i - 1] \o seqs[i]]
  BY <1>1 DEF IsFlat
<1>3. Flat(seqs) = [i \in 1..Len(seqs) |->
                       IF i = 1 THEN seqs[i] ELSE Flat(seqs)[i - 1] \o seqs[i]]
  BY <1>2 DEF Flat
<1> DEFINE g == Flat(seqs)
<1>4. g = [i \in 1..Len(seqs) |-> IF i = 1 THEN seqs[i] ELSE g[i - 1] \o seqs[i]]
  BY <1>3
<1> HIDE DEF g
<1>5. IsFlat(g, seqs)
  BY <1>4 DEF IsFlat
<1>6. \A i \in 1..Len(seqs) : g[i] = f[i]
  BY <1>1, <1>5, FlatUnique
<1>7. g \in [1..Len(seqs) -> Seq(S)]
  BY <1>4, <1>6
<1> QED BY <1>5, <1>7 DEF g

\* Parts put together are a text.
LEMMA FlattenSeqType ==
    ASSUME NEW S, NEW seqs \in Seq(Seq(S))
    PROVE  FlattenSeq(seqs) \in Seq(S) /\ (seqs = <<>> => FlattenSeq(seqs) = <<>>)
<1>1. Len(seqs) \in Nat
  BY LenProperties
<1>2. CASE Len(seqs) = 0
  <2>1. seqs = <<>>
    BY <1>2, EmptySeq
  <2>2. FlattenSeq(seqs) = seqs
    BY <1>2 DEF FlattenSeq
  <2> QED BY <2>1, <2>2, EmptySeq
<1>3. CASE Len(seqs) # 0
  <2>1. FlattenSeq(seqs) = Flat(seqs)[Len(seqs)]
    BY <1>3, FlattenSeqIs
  <2>2. Flat(seqs) \in [1..Len(seqs) -> Seq(S)]
    BY FlatIs
  <2>3. Len(seqs) \in 1..Len(seqs)
    BY <1>1, <1>3
  <2>4. seqs # <<>>
    BY <1>3, EmptySeq
  <2> QED BY <2>1, <2>2, <2>3, <2>4
<1> QED BY <1>2, <1>3

\* They are the first part, and the others put together behind it.
LEMMA FlattenFirst ==
    ASSUME NEW S, NEW u \in Seq(Seq(S)), NEW v \in Seq(Seq(S)),
           Len(u) = Len(v) + 1, \A i \in 1..Len(v) : v[i] = u[i + 1]
    PROVE  FlattenSeq(u) = u[1] \o FlattenSeq(v)
<1> DEFINE f == Flat(u)
           g == Flat(v)
           T == {n \in Nat : n \in 1..Len(v) => f[n + 1] = u[1] \o g[n]}
<1>1. Len(v) \in Nat
  BY LenProperties
<1>2. /\ DOMAIN f = 1..Len(u)
      /\ \A i \in 1..Len(u) : f[i] = IF i = 1 THEN u[i] ELSE f[i - 1] \o u[i]
  BY FlatIs DEF IsFlat
<1>3. /\ DOMAIN g = 1..Len(v)
      /\ \A i \in 1..Len(v) : g[i] = IF i = 1 THEN v[i] ELSE g[i - 1] \o v[i]
  BY FlatIs DEF IsFlat
<1>4. g \in [1..Len(v) -> Seq(S)]
  BY FlatIs
<1>5. u[1] \in Seq(S) /\ \A i \in 1..Len(v) : v[i] \in Seq(S)
  <2>1. 1 \in 1..Len(u)
    BY <1>1
  <2> QED BY <2>1, ElementOfSeq
<1> HIDE DEF f, g
<1>6. 0 \in T
  OBVIOUS
<1>7. ASSUME NEW n \in Nat, n \in T
      PROVE  n + 1 \in T
  <2> DEFINE k == n + 1
             l == n + 2
  <2>1. SUFFICES ASSUME k \in 1..Len(v) PROVE f[l] = u[1] \o g[k]
    <3>1. k \in Nat /\ k + 1 = l
      OBVIOUS
    <3> HIDE DEF k, l
    <3>2. (k \in 1..Len(v) => f[k + 1] = u[1] \o g[k]) => k \in T
      BY <3>1, Zenon
    <3>3. k \in T
      BY <3>1, <3>2, <2>1, Zenon
    <3> QED BY <3>3 DEF k
  <2>2. l \in 1..Len(u) /\ l # 1 /\ l - 1 = k /\ k + 1 = l /\ k \in 1..Len(u)
    BY <2>1, <1>1
  <2>3. (n = 0 => k = 1) /\ (n # 0 => k # 1 /\ n \in 1..Len(v) /\ k - 1 = n)
    BY <2>1, <1>1
  <2> HIDE DEF k, l
  <2>4. f[l] = f[k] \o v[k]
    <3>1. f[l] = f[l - 1] \o u[l]
      BY <2>2, <1>2, Zenon
    <3>2. v[k] = u[k + 1]
      BY <2>1
    <3> QED BY <3>1, <3>2, <2>2
  <2>5. CASE n = 0
    <3>1. k = 1
      BY <2>5, <2>3
    <3>2. f[k] = u[1]
      BY <3>1, <2>2, <1>2, Zenon
    <3>3. g[k] = v[k]
      BY <3>1, <2>1, <1>3, Zenon
    <3> QED BY <2>4, <3>2, <3>3
  <2>6. CASE n # 0
    <3>1. f[k] = u[1] \o g[n]
      BY <1>7, <2>3, <2>6 DEF k
    <3>2. g[k] = g[k - 1] \o v[k]
      BY <2>1, <2>3, <2>6, <1>3, Zenon
    <3>3. g[k] = g[n] \o v[k]
      BY <3>2, <2>3, <2>6
    <3>4. g[n] \in Seq(S) /\ v[k] \in Seq(S)
      BY <2>1, <2>3, <2>6, <1>4, <1>5
    <3>5. (u[1] \o g[n]) \o v[k] = u[1] \o (g[n] \o v[k])
      <4> DEFINE p == u[1]
                 q == g[n]
                 w == v[k]
      <4>1. p \in Seq(S) /\ q \in Seq(S) /\ w \in Seq(S)
        BY <1>5, <3>4
      <4> HIDE DEF p, q, w
      <4>2. (p \o q) \o w = p \o (q \o w)
        BY <4>1, ConcatAssociative, SMTT(60)
      <4> QED BY <4>2 DEF p, q, w
    <3> QED BY <2>4, <3>1, <3>3, <3>5
  <2> QED BY <2>5, <2>6
<1>8. \A n \in Nat : n \in T
  <2> HIDE DEF T
  <2> QED BY <1>6, <1>7, EveryNumber
<1>9. FlattenSeq(u) = f[Len(u)]
  BY <1>1, FlattenSeqIs DEF f
<1>10. CASE Len(v) = 0
  <2>1. FlattenSeq(v) = <<>>
    BY <1>10, EmptySeq, FlattenSeqType
  <2>2. Len(u) = 1
    BY <1>10
  <2>3. f[1] = u[1]
    BY <2>2, <1>2
  <2> QED BY <1>5, <1>9, <2>1, <2>2, <2>3, ConcatEmptySeq
<1>11. CASE Len(v) # 0
  <2>1. FlattenSeq(v) = g[Len(v)]
    BY <1>11, FlattenSeqIs DEF g
  <2>2. Len(v) \in 1..Len(v)
    BY <1>1, <1>11
  <2>3. f[Len(v) + 1] = u[1] \o g[Len(v)]
    BY <1>1, <1>8, <2>2
  <2> QED BY <1>9, <2>1, <2>3
<1> QED BY <1>10, <1>11

-----------------------------------------------------------------------------
(* Lists of pairs.                                                         *)

\* A list with a pair more is such a list.
LEMMA AddPairIs ==
    ASSUME NEW S, NEW list \in Seq(S), NEW k, NEW v, <<k, v>> \in S
    PROVE  /\ AddPair(k, v, list) \in Seq(S)
           /\ Len(AddPair(k, v, list)) = Len(list) + 1
           /\ AddPair(k, v, list)[1] = <<k, v>>
           /\ \A i \in 1..Len(list) : AddPair(k, v, list)[i + 1] = list[i]
           /\ AddPair(k, v, list) # <<>>
<1> DEFINE one == <<<<k, v>>>>
           all == one \o list
<1>1. one \in Seq(S) /\ Len(one) = 1 /\ one[1] = <<k, v>>
  OBVIOUS
<1>2. AddPair(k, v, list) = all
  BY DEF AddPair
<1> HIDE DEF one
<1>12. one \in Seq(S)
  BY <1>1
<1>13. Len(one) = 1
  BY <1>1
<1>4. all \in Seq(S)
  BY <1>12, ConcatProperties
<1>51. Len(all) = Len(one) + Len(list)
  BY <1>12, ConcatProperties
<1>61. \A i \in 1..(Len(one) + Len(list)) :
          all[i] = IF i <= Len(one) THEN one[i] ELSE list[i - Len(one)]
  BY <1>12, ConcatProperties
<1>5. Len(all) = 1 + Len(list)
  BY <1>13, <1>51
<1>6. \A i \in 1..(1 + Len(list)) : all[i] = IF i <= 1 THEN one[i] ELSE list[i - 1]
  BY <1>13, <1>61
<1>7. Len(list) \in Nat
  BY LenProperties
<1> HIDE DEF all
<1>8. all[1] = <<k, v>>
  BY <1>1, <1>6, <1>7
<1>9. \A i \in 1..Len(list) : all[i + 1] = list[i]
  <2> TAKE i \in 1..Len(list)
  <2>1. i + 1 \in 1..(1 + Len(list)) /\ ~(i + 1 <= 1) /\ i + 1 - 1 = i
    BY <1>7
  <2> QED BY <2>1, <1>6
<1>10. all # <<>>
  BY <1>4, <1>5, <1>7, EmptySeq
<1>11. Len(all) = Len(list) + 1
  BY <1>5, <1>7
<1> QED BY <1>2, <1>4, <1>8, <1>9, <1>10, <1>11

\* What is looked up is the second half of a pair, or not there.
LEMMA LookupIs ==
    ASSUME NEW K, NEW V, NEW list \in Seq(K \X V), NEW k
    PROVE  Lookup(list, k) \in V \cup {NULL}
<1>1. DOMAIN list = 1..Len(list) /\ Len(list) \in Nat
  BY LenProperties
<1>2. CASE Matching(list, k) = {}
  BY <1>2 DEF Lookup
<1>3. CASE Matching(list, k) # {}
  <2>1. Matching(list, k) \subseteq DOMAIN list
    BY DEF Matching
  <2>2. Matching(list, k) \subseteq Nat
    BY <1>1, <2>1
  <2>3. Min(Matching(list, k)) \in DOMAIN list
    BY <1>3, <2>1, <2>2, MinProperties
  <2> DEFINE m == Min(Matching(list, k))
  <2> HIDE DEF m
  <2>4. list[m] \in K \X V
    BY <1>1, <2>3, ElementOfSeq DEF m
  <2>5. list[m][2] \in V
    BY <2>4
  <2> QED BY <1>3, <2>5 DEF Lookup, m
<1> QED BY <1>2, <1>3

\* Nothing is in the empty list.
LEMMA LookupNothing == \A k : Lookup(<<>>, k) = NULL
BY DEF Lookup, Matching

\* The pair that was put in front is found.
LEMMA LookupFirst ==
    ASSUME NEW S, NEW list \in Seq(S), NEW k, NEW v, <<k, v>> \in S
    PROVE  Lookup(AddPair(k, v, list), k) = v
<1> DEFINE all == AddPair(k, v, list)
<1> HIDE DEF all
<1>01. all \in Seq(S)
  BY AddPairIs DEF all
<1>02. Len(all) = Len(list) + 1
  BY AddPairIs DEF all
<1>03. all[1] = <<k, v>>
  BY AddPairIs DEF all
<1>1. all \in Seq(S) /\ Len(all) = Len(list) + 1 /\ all[1] = <<k, v>>
  BY <1>01, <1>02, <1>03
<1>2. DOMAIN all = 1..Len(all) /\ Len(list) \in Nat
  BY <1>1, LenProperties
<1> HIDE DEF all
<1>3. 1 \in Matching(all, k)
  BY <1>1, <1>2 DEF Matching
<1>4. Matching(all, k) \subseteq Nat /\ \A y \in Matching(all, k) : 1 =< y
  BY <1>1, <1>2 DEF Matching
<1>5. Min(Matching(all, k)) = 1
  BY <1>3, <1>4, MinIs
<1>6. Lookup(all, k) = all[1][2]
  BY <1>3, <1>5 DEF Lookup
<1> QED BY <1>1, <1>6 DEF all

\* It hides nothing else.
LEMMA LookupOther ==
    ASSUME NEW S, NEW list \in Seq(S), NEW k, NEW v, <<k, v>> \in S, NEW l, l # k
    PROVE  Lookup(AddPair(k, v, list), l) = Lookup(list, l)
<1> DEFINE all == AddPair(k, v, list)
           M == Matching(list, l)
           N == Matching(all, l)
<1> HIDE DEF all
<1>01. all \in Seq(S)
  BY AddPairIs DEF all
<1>02. Len(all) = Len(list) + 1
  BY AddPairIs DEF all
<1>03. all[1] = <<k, v>>
  BY AddPairIs DEF all
<1>04. \A i \in 1..Len(list) : all[i + 1] = list[i]
  BY AddPairIs DEF all
<1>1. /\ all \in Seq(S) /\ Len(all) = Len(list) + 1 /\ all[1] = <<k, v>>
      /\ \A i \in 1..Len(list) : all[i + 1] = list[i]
  BY <1>01, <1>02, <1>03, <1>04
<1>2. DOMAIN all = 1..Len(all) /\ Len(list) \in Nat /\ DOMAIN list = 1..Len(list)
  BY <1>1, LenProperties
<1> HIDE DEF all
<1>3. M \subseteq Nat /\ M \subseteq 1..Len(list) /\ N \subseteq Nat
  BY <1>2 DEF Matching
<1>4. \A i \in M : i + 1 \in N /\ all[i + 1] = list[i]
  BY <1>1, <1>2 DEF Matching
<1>5. \A i \in N : i # 1 /\ i - 1 \in M
  <2> TAKE i \in N
  <2>1. i \in 1..(Len(list) + 1) /\ all[i][1] = l
    BY <1>1, <1>2 DEF Matching
  <2>2. i # 1
    BY <1>1, <2>1
  <2>3. i - 1 \in 1..Len(list) /\ (i - 1) + 1 = i
    BY <1>2, <2>1, <2>2
  <2>4. all[i] = list[i - 1]
    BY <1>1, <2>3
  <2>5. i - 1 \in M
    BY <1>2, <2>1, <2>3, <2>4 DEF Matching
  <2> QED BY <2>2, <2>5
<1> HIDE DEF M, N
<1>6. CASE M = {}
  <2>1. N = {}
    BY <1>5, <1>6
  <2> QED BY <1>6, <2>1 DEF Lookup, M, N, all
<1>7. CASE M # {}
  <2>1. Min(M) \in M /\ \A y \in M : Min(M) =< y
    BY <1>3, <1>7, MinProperties
  <2> DEFINE m == Min(M)
             n == m + 1
  <2> HIDE DEF m
  <2>2. m \in M /\ m \in Nat /\ \A y \in M : m =< y
    BY <1>3, <2>1 DEF m
  <2>3. n \in N /\ all[n] = list[m]
    BY <1>4, <2>2
  <2>4. \A y \in N : n =< y
    BY <1>3, <1>5, <2>2
  <2> HIDE DEF n
  <2>5. Min(N) = n
    BY <1>3, <2>3, <2>4, MinIs
  <2>6. N # {}
    BY <2>3
  <2>7. Lookup(all, l) = all[n][2]
    BY <2>5, <2>6 DEF Lookup, N
  <2>8. Lookup(list, l) = list[m][2]
    BY <1>7 DEF Lookup, M, m
  <2> QED BY <2>3, <2>7, <2>8 DEF all
<1> QED BY <1>6, <1>7

\* The first of a mark in a text that was joined with it.
LEMMA MarkFound ==
    ASSUME NEW S, NEW a \in Seq(S), NEW d \in S, NEW b \in Seq(S),
           \A i \in 1..Len(a) : a[i] # d
    PROVE  LET s == Joined(a, d, b)
           IN  /\ Contains(s, d) /\ PositionOf(s, d) = Len(a) + 1
               /\ SubSeq(s, 1, Len(a)) = a
               /\ SubSeq(s, Len(a) + 2, Len(s)) = b
<1> DEFINE s == Joined(a, d, b)
           p == Len(a) + 2
<1> HIDE DEF s, p
<1>1. Len(a) \in Nat /\ Len(b) \in Nat
  BY LenProperties
<1>2. s \in Seq(S)
  BY JoinedIs DEF s
<1>3. Len(s) = Len(a) + 1 + Len(b)
  BY JoinedIs DEF s
<1>4. \A j \in 1..Len(a) : s[j] = a[j]
  BY JoinedIs DEF s
<1>5. s[Len(a) + 1] = d
  BY JoinedIs DEF s
<1>6. \A j \in 1..Len(b) : s[Len(a) + 1 + j] = b[j]
  BY JoinedIs DEF s
<1>7. DOMAIN s = 1..Len(s)
  BY <1>2, LenProperties
<1>8. Len(a) + 1 \in 1..Len(s)
  BY <1>1, <1>3
<1>9. Contains(s, d)
  BY <1>5, <1>8 DEF Contains
<1> DEFINE At1 == {i \in DOMAIN s : s[i] = d}
<1>10. Len(a) + 1 \in At1 /\ At1 \subseteq Nat
  BY <1>5, <1>7, <1>8
<1>11. \A y \in At1 : Len(a) + 1 =< y
  <2> SUFFICES ASSUME NEW y \in At1, y =< Len(a) PROVE FALSE
    BY <1>1, <1>7
  <2>1. y \in 1..Len(a)
    BY <1>1, <1>7
  <2> QED BY <2>1, <1>4
<1> HIDE DEF At1
<1>12. Min(At1) = Len(a) + 1
  BY <1>10, <1>11, MinIs
<1>13. PositionOf(s, d) = Len(a) + 1
  BY <1>12 DEF PositionOf, At1
<1>14. SubSeq(s, 1, Len(a)) = a
  <2>1. Len(a) \in 0..Len(s)
    BY <1>1, <1>3
  <2>2. SubSeq(s, 1, Len(a)) \in Seq(S)
    BY <1>2, <2>1, BeginningIs
  <2>3. Len(SubSeq(s, 1, Len(a))) = Len(a)
    BY <1>2, <2>1, BeginningIs
  <2>4. \A j \in 1..Len(a) : SubSeq(s, 1, Len(a))[j] = s[j]
    BY <1>2, <2>1, BeginningIs
  <2> QED BY <2>2, <2>3, <2>4, <1>4, SeqEqual
<1>15. Left(s, p) = b
  <2>1. p \in 1..(Len(s) + 1)
    BY <1>1, <1>3 DEF p
  <2> DEFINE u == Left(s, p)
  <2>2. u \in Seq(S)
    BY <1>2, <2>1, LeftIs
  <2>3. Len(u) = Len(s) + 1 - p
    BY <1>2, <2>1, LeftIs
  <2>4. \A j \in 1..(Len(s) + 1 - p) : u[j] = s[p + j - 1]
    BY <1>2, <2>1, LeftIs
  <2> HIDE DEF u
  <2>5. Len(u) = Len(b) /\ Len(s) + 1 - p = Len(b)
    BY <1>1, <1>3, <2>3 DEF p
  <2>6. \A j \in 1..Len(b) : u[j] = b[j]
    <3> TAKE j \in 1..Len(b)
    <3>1. p + j - 1 = Len(a) + 1 + j
      BY <1>1 DEF p
    <3>2. u[j] = s[p + j - 1]
      BY <2>4, <2>5
    <3> QED BY <3>1, <3>2, <1>6
  <2>7. u = b
    BY <2>2, <2>5, <2>6, SeqEqual
  <2> QED BY <2>7 DEF u
<1> QED BY <1>9, <1>13, <1>14, <1>15 DEF s, p, Left

\* All is left at the beginning.
LEMMA LeftAll ==
    ASSUME NEW S, NEW s \in Seq(S)
    PROVE  Left(s, 1) = s
<1>1. Len(s) \in Nat
  BY LenProperties
<1>2. 1 \in 1..(Len(s) + 1)
  BY <1>1
<1>3. /\ Left(s, 1) \in Seq(S) /\ Len(Left(s, 1)) = Len(s) + 1 - 1
      /\ \A j \in 1..(Len(s) + 1 - 1) : Left(s, 1)[j] = s[1 + j - 1]
  BY <1>2, LeftIs
<1>4. Len(s) + 1 - 1 = Len(s) /\ \A j \in 1..Len(s) : 1 + j - 1 = j
  BY <1>1
<1>5. \A j \in 1..Len(s) : Left(s, 1)[j] = s[j]
  BY <1>3, <1>4
<1> QED BY <1>3, <1>4, <1>5, SeqEqual

-----------------------------------------------------------------------------
(* Templates: what the loop of templateRender makes of a file.             *)

\* The same of a buffer in which nothing is overwritten: what is left is behind
\* the delimiter.
LEMMA TokenBefore ==
    ASSUME NEW S, NUL \in S, NEW s \in Seq(S), NEW i \in 1..(Len(s) + 1), NEW delims,
           NEW a \in Seq(S), NEW d \in S, NEW b \in Seq(S),
           a # <<>>, Clear(a, delims), d \in delims, d # NUL, Left(s, i) = Joined(a, d, b)
    PROVE  LET r == NextToken(s, i, delims)
           IN  /\ r.found /\ r.token = a
               /\ r.next \in 1..(Len(s) + 1) /\ Left(s, r.next) = b
<1> DEFINE x == Joined(a, d, b)
           k == Len(a) + 2
           n == i + Len(a) + 1
           r == NextToken(s, i, delims)
<1>2. Len(s) \in Nat /\ Len(a) \in Nat /\ Len(b) \in Nat
  BY LenProperties
<1>1. r.found /\ r.token = a /\ r.next = n
  <2>1. d # NUL /\ d \in delims
    OBVIOUS
  <2> QED BY <1>2, <2>1, TokenCut
<1>3. Len(x) = Len(a) + 1 + Len(b)
  BY JoinedIs
<1>4. Len(x) = Len(s) + 1 - i
  BY LeftIs
<1>5. /\ k \in Nat /\ k >= 1 /\ i + k - 1 <= Len(s) + 1 /\ n = i + k - 1
      /\ n \in 1..(Len(s) + 1) /\ k = Len(a) + 1 + 1
  BY <1>2, <1>3, <1>4
<1>6. 1 \in 1..(Len(b) + 1)
  BY <1>2
<1> HIDE DEF x, k, n, r
<1>7. Left(x, k) = Left(s, n)
  BY <1>5, LeftLeft DEF x
<1>8. Left(x, k) = Left(b, 1)
  BY <1>5, <1>6, LeftJoined DEF x
<1>9. Left(b, 1) = b
  BY LeftAll
<1> QED BY <1>1, <1>5, <1>7, <1>8, <1>9 DEF r

\* strtok_r goes ahead.
LEMMA TokenAhead ==
    ASSUME NEW S, NEW s \in Seq(S), NEW i \in 1..(Len(s) + 1), NEW delims, NUL \notin delims
    PROVE  LET r == NextToken(s, i, delims)
           IN  r.next \in i..(Len(s) + 1) /\ (r.found => r.next > i)
<1>1. Len(s) \in Nat /\ DOMAIN s = 1..Len(s)
  BY LenProperties
<1>2. PICK from \in i..(Len(s) + 1), to \in i..(Len(s) + 1) :
         /\ from =< to
         /\ \A j \in i..(from - 1) : CharAt(s, j) \in delims
         /\ CharAt(s, from) \notin delims
         /\ \A j \in from..(to - 1) : CharAt(s, j) \notin delims \cup {NUL}
         /\ CharAt(s, to) \in delims \cup {NUL}
  BY <1>1, TokenPlace
<1> DEFINE r == NextToken(s, i, delims)
<1>21. to \in from..(Len(s) + 1)
  BY <1>1, <1>2
<1>3. r = [found |-> CharAt(s, from) # NUL,
           token |-> SubSeq(s, from, to - 1),
           cut |-> CharAt(s, to) # NUL,
           next |-> IF CharAt(s, to) # NUL THEN to + 1 ELSE to,
           text |-> IF CharAt(s, to) # NUL THEN [s EXCEPT ![to] = NUL] ELSE s]
  BY <1>2, <1>21, NextTokenIs
<1>4. /\ r.found <=> CharAt(s, from) # NUL
      /\ r.next = IF CharAt(s, to) # NUL THEN to + 1 ELSE to
  <2>1. (CharAt(s, from) # NUL) \in BOOLEAN
    OBVIOUS
  <2> HIDE DEF r
  <2> QED BY <1>3, <2>1
<1> HIDE DEF r
<1>5. /\ i \in Nat /\ from \in Nat /\ to \in Nat /\ i <= from /\ from <= to
      /\ to <= Len(s) + 1
  BY <1>1, <1>2
<1>6. CharAt(s, to) # NUL => to # Len(s) + 1
  <2> SUFFICES ASSUME to = Len(s) + 1 PROVE CharAt(s, to) = NUL
    OBVIOUS
  <2>1. to \notin DOMAIN s
    BY <1>1, LenProperties
  <2> QED BY <2>1 DEF CharAt
<1>7. CharAt(s, from) # NUL /\ CharAt(s, to) = NUL => from # to
  OBVIOUS
<1> QED BY <1>1, <1>4, <1>5, <1>6, <1>7 DEF r

\* The braces, by name: the SMT backend does not take them as strings.
OpenSign == "{"
CloseSign == "}"
BlankSign == " "
Signs == {"{", "%"}

\* One turn of the loop, with what it makes of the rest.
Turn(buff, context, rendered, loop, i) ==
    LET r == NextToken(buff, i, {CloseSign})
        q == NextToken(buff, r.next, {OpenSign})
    IN  IF ~r.found THEN <<>>
        ELSE Expansion(r.token, context, rendered)
             \o IF q.found THEN Plain(r.token, q.token) \o loop[q.next] ELSE <<>>

IsLoop(f, buff, context, rendered) ==
    f = [i \in 1..(Len(buff) + 1) |-> Turn(buff, context, rendered, f, i)]

\* The loop is what its definition says.
LEMMA LoopChosen ==
    ASSUME NEW buff, NEW context, NEW rendered
    PROVE  Loop(buff, context, rendered) = CHOOSE f : IsLoop(f, buff, context, rendered)
BY DEF Loop, IsLoop, Turn, OpenSign, CloseSign

\* A turn uses only what the loop makes of a later position.
LEMMA TurnUses ==
    ASSUME NEW S, NEW buff \in Seq(S), NEW context, NEW rendered, NEW f, NEW g,
           NEW i \in 1..(Len(buff) + 1), \A j \in 1..(Len(buff) + 1) : j > i => f[j] = g[j]
    PROVE  Turn(buff, context, rendered, f, i) = Turn(buff, context, rendered, g, i)
<1> DEFINE r == NextToken(buff, i, {CloseSign})
           q == NextToken(buff, r.next, {OpenSign})
           n == r.next
           m == q.next
<1>1. Len(buff) \in Nat
  BY LenProperties
<1>2. NUL \notin {CloseSign} /\ NUL \notin {OpenSign}
  BY DEF NUL, OpenSign, CloseSign
<1>3. n \in i..(Len(buff) + 1) /\ (r.found => n > i)
  BY <1>1, <1>2, TokenAhead
<1>4. n \in 1..(Len(buff) + 1)
  <2>1. n \in i..(Len(buff) + 1)
    BY <1>3
  <2>2. i \in Nat /\ i >= 1
    BY <1>1
  <2> HIDE DEF n
  <2> QED BY <1>1, <2>1, <2>2
<1>5. m \in n..(Len(buff) + 1)
  BY <1>1, <1>2, <1>4, TokenAhead
<1> HIDE DEF r, q, n, m
<1>6. CASE r.found
  <2>1. m \in 1..(Len(buff) + 1) /\ m > i
    BY <1>1, <1>3, <1>4, <1>5, <1>6
  <2>2. f[m] = g[m]
    BY <2>1
  <2>3. f[q.next] = g[q.next]
    BY <2>2 DEF m
  <2> QED BY <2>3, Zenon DEF Turn, r, q, n
<1>7. CASE ~r.found
  BY <1>7 DEF Turn, r
<1> QED BY <1>6, <1>7

\* There is such a loop: what it makes of the last positions is found first.
LEMMA LoopExists ==
    ASSUME NEW S, NEW buff \in Seq(S), NEW context, NEW rendered
    PROVE  \E f : IsLoop(f, buff, context, rendered)
<1> DEFINE L == Len(buff)
           D == 1..(L + 1)
           E(f, i) == Turn(buff, context, rendered, f, i)
           T == {n \in Nat : \E f : DOMAIN f = D /\ f = [i \in D |-> f[i]]
                                    /\ \A i \in D : i > L + 1 - n => f[i] = E(f, i)}
<1>1. L \in Nat
  BY LenProperties
<1>2. 0 \in T
  <2> DEFINE f == [i \in D |-> <<>>]
  <2>1. DOMAIN f = D /\ f = [i \in D |-> f[i]]
    OBVIOUS
  <2>2. \A i \in D : ~(i > L + 1 - 0)
    BY <1>1
  <2> HIDE DEF f, D, E
  <2> QED BY <2>1, <2>2
<1>3. ASSUME NEW n \in Nat, n \in T PROVE n + 1 \in T
  <2>1. PICK f : \A i \in D : i > L + 1 - n => f[i] = E(f, i)
    BY <1>3
  <2> DEFINE g == [i \in D |-> E(f, i)]
  <2> HIDE DEF E
  <2>2. DOMAIN g = D /\ g = [i \in D |-> g[i]] /\ \A i \in D : g[i] = E(f, i)
    OBVIOUS
  <2> HIDE DEF g
  <2>3. ASSUME NEW i \in D, i > L + 1 - (n + 1)
        PROVE  g[i] = E(g, i)
    <3>1. ASSUME NEW j \in D, j > i PROVE f[j] = g[j]
      <4>1. j > L + 1 - n
        BY <1>1, <2>3, <3>1
      <4> QED BY <2>1, <2>2, <4>1
    <3>2. E(f, i) = E(g, i)
      BY <3>1, TurnUses DEF E
    <3> QED BY <2>2, <3>2
  <2> HIDE DEF D
  <2> QED BY <2>2, <2>3
<1>4. \A n \in Nat : n \in T
  <2> HIDE DEF T
  <2> QED BY <1>2, <1>3, EveryNumber
<1>5. L + 1 \in T
  <2> HIDE DEF T, L
  <2>1. L + 1 \in Nat
    BY <1>1
  <2> QED BY <1>4, <2>1
<1> HIDE DEF E
<1>6. PICK f : /\ f = [i \in D |-> f[i]]
               /\ \A i \in D : i > L + 1 - (L + 1) => f[i] = E(f, i)
  BY <1>5
<1>7. \A i \in D : i > L + 1 - (L + 1)
  BY <1>1
<1>8. \A i \in D : f[i] = E(f, i)
  BY <1>6, <1>7
<1> HIDE DEF D
<1>9. f = [i \in D |-> E(f, i)]
  BY <1>6, <1>8
<1> QED BY <1>9 DEF IsLoop, E, D

\* So each position of it is a turn.
LEMMA LoopIs ==
    ASSUME NEW S, NEW buff \in Seq(S), NEW context, NEW rendered,
           NEW i \in 1..(Len(buff) + 1)
    PROVE  LET loop == Loop(buff, context, rendered)
           IN  loop[i] = Turn(buff, context, rendered, loop, i)
<1> DEFINE loop == Loop(buff, context, rendered)
<1>1. \E f : IsLoop(f, buff, context, rendered)
  BY LoopExists
<1>2. loop = CHOOSE f : IsLoop(f, buff, context, rendered)
  BY LoopChosen
<1> HIDE DEF loop
<1>3. IsLoop(loop, buff, context, rendered)
  BY <1>1, <1>2
<1> QED BY <1>3 DEF IsLoop, loop

\* What files and pages are written with (the provers do not know that these
\* are strings), and what is between braces.
Glyph == STRING \cup {NUL, Exit, " ", "{", "}", "%", "include", "when"}
InnerGlyph == Glyph \ {NUL, "}"}

\* The words of an item in braces.
LEMMA WordsOf ==
    ASSUME NEW item \in Item, WellWritten(item), item.kind # "text"
    PROVE  /\ item.kind \in {"var", "include", "when"}
           /\ item.words[1] \in InnerGlyph
           /\ item.kind = "when" => item.words[2] \in InnerGlyph /\ item.words[3] \in InnerGlyph
<1> DEFINE w == item.words
<1>1. item.kind \in {"text", "var", "include", "when"} /\ w \in Seq(STRING)
  BY DEF Item
<1>2. (item.kind = "when" => Len(w) = 3) /\ (item.kind # "when" => Len(w) = 1)
  BY <1>1 DEF WellWritten
<1>3. ToSet(w) \cap {NUL, "}"} = {}
  BY <1>1 DEF WellWritten
<1>4. \A i \in 1..Len(w) : w[i] \in InnerGlyph
  <2> HIDE DEF w
  <2>1. DOMAIN w = 1..Len(w) /\ \A i \in 1..Len(w) : w[i] \in STRING
    BY <1>1, LenProperties, ElementOfSeq
  <2> QED BY <1>3, <2>1 DEF ToSet, InnerGlyph, Glyph
<1> HIDE DEF w
<1>5. CASE item.kind = "when"
  <2>1. Len(w) = 3
    BY <1>2, <1>5
  <2>2. 1 \in 1..Len(w) /\ 2 \in 1..Len(w) /\ 3 \in 1..Len(w)
    BY <2>1
  <2> QED BY <1>4, <1>5, <2>2 DEF w
<1>6. CASE item.kind # "when"
  <2>1. 1 \in 1..Len(w)
    BY <1>2, <1>6
  <2> QED BY <1>1, <1>4, <1>6, <2>1 DEF w
<1> QED BY <1>5, <1>6

\* A token may be made of these.
LEMMA InnerGlyphs == {" ", "{", "%", "include", "when"} \subseteq InnerGlyph
BY DEF InnerGlyph, Glyph, NUL

\* Tuples are texts.
LEMMA TupleTypes == \A S : \A a, b, c, d, e, f, g, h, i \in S :
    /\ <<a>> \in Seq(S) /\ <<a, b>> \in Seq(S)
    /\ <<a, b, c, d, e>> \in Seq(S)
    /\ <<a, b, c, d, e, f, g, h, i>> \in Seq(S)
OBVIOUS

\* What may be inside of a token does not close it.
LEMMA InnerClear ==
    ASSUME NEW x \in Seq(InnerGlyph)
    PROVE  Clear(x, {CloseSign})
<1> SUFFICES ASSUME NEW j \in 1..Len(x) PROVE x[j] \notin {CloseSign} \cup {NUL}
  BY DEF Clear
<1>1. x[j] \in InnerGlyph
  BY ElementOfSeq
<1> QED BY <1>1 DEF InnerGlyph, CloseSign

\* A variable is read up to its first closing brace, and replaced.
LEMMA VarRead ==
    ASSUME NEW item \in Item, WellWritten(item), item.kind = "var", NEW context, NEW rendered
    PROVE  LET x == Inside(item)
           IN  /\ x \in Seq(InnerGlyph) /\ x # <<>> /\ x[1] \in {"{", "%"}
               /\ Expansion(x, context, rendered) = ShownItem(item, context, rendered)
<1> DEFINE w == item.words[1]
           x == <<"{", w>>
<1>1. w \in InnerGlyph
  BY WordsOf
<1>2. Inside(item) = x
  BY DEF Inside
<1>3. ShownItem(item, context, rendered) = Value(context, w)
  BY DEF ShownItem
<1> HIDE DEF w
<1>4. x \in Seq(InnerGlyph)
  BY <1>1, InnerGlyphs, TupleTypes
<1>5. x # <<>> /\ x[1] = "{" /\ Tail(x)[1] = w
  OBVIOUS
<1> HIDE DEF x
<1>6. Expansion(x, context, rendered) = Value(context, w)
  BY <1>5 DEF Expansion
<1> QED BY <1>2, <1>3, <1>4, <1>5, <1>6

\* So is an inclusion of a file that is there.
LEMMA IncludeRead ==
    ASSUME NEW item \in Item, WellWritten(item), item.kind = "include", NEW context, NEW rendered,
           item.words[1] \in DOMAIN Shape
    PROVE  LET x == Inside(item)
           IN  /\ x \in Seq(InnerGlyph) /\ x # <<>> /\ x[1] \in {"{", "%"}
               /\ Expansion(x, context, rendered) = ShownItem(item, context, rendered)
<1> DEFINE w == item.words[1]
           x == <<"%", "include", " ", w, "%">>
<1>1. w \in InnerGlyph
  BY WordsOf
<1>2. Inside(item) = x
  BY DEF Inside
<1>3. ShownItem(item, context, rendered) = rendered[w]
  BY DEF ShownItem
<1>9. w \in DOMAIN File
  BY DEF File
<1> HIDE DEF w
<1>4. x \in Seq(InnerGlyph)
  BY <1>1, InnerGlyphs, TupleTypes
<1>5. x # <<>> /\ x[1] = "%" /\ Tail(x)[1] = "include" /\ Tail(x)[3] = w
  OBVIOUS
<1> HIDE DEF x
<1>6. Expansion(x, context, rendered) = rendered[w]
  BY <1>5, <1>9 DEF Expansion
<1> QED BY <1>2, <1>3, <1>4, <1>5, <1>6

\* And a when clause.
LEMMA WhenRead ==
    ASSUME NEW item \in Item, WellWritten(item), item.kind = "when", NEW context, NEW rendered
    PROVE  LET x == Inside(item)
           IN  /\ x \in Seq(InnerGlyph) /\ x # <<>> /\ x[1] \in {"{", "%"}
               /\ Expansion(x, context, rendered) = ShownItem(item, context, rendered)
<1> DEFINE u == item.words[1]
           v == item.words[2]
           w == item.words[3]
           x == <<"%", "when", " ", u, " ", v, " ", w, "%">>
<1>1. u \in InnerGlyph /\ v \in InnerGlyph /\ w \in InnerGlyph
  BY WordsOf
<1>2. Inside(item) = x
  BY DEF Inside
<1>3. ShownItem(item, context, rendered) = IF Lookup(context, u) = <<v>> THEN <<w>> ELSE <<>>
  BY DEF ShownItem
<1> HIDE DEF u, v, w
<1>4. x \in Seq(InnerGlyph)
  BY <1>1, InnerGlyphs, TupleTypes
<1>5. /\ x # <<>> /\ x[1] = "%" /\ Tail(x)[1] = "when" /\ Tail(x)[3] = u
      /\ Tail(x)[5] = v /\ Tail(x)[7] = w
  OBVIOUS
<1> HIDE DEF x
<1>6. Expansion(x, context, rendered) = IF Lookup(context, u) = <<v>> THEN <<w>> ELSE <<>>
  BY <1>5 DEF Expansion
<1> QED BY <1>2, <1>3, <1>4, <1>5, <1>6

WrittenParts(items) == [i \in DOMAIN items |-> Written(items[i])]
ShownParts(items, context, rendered) ==
    [i \in DOMAIN items |-> ShownItem(items[i], context, rendered)]

TextOf(items) == FlattenSeq(WrittenParts(items))

\* Items that can be read and shown, with a context that has texts.
Telling(context, S) == \A k : Lookup(context, k) \in Seq(S) \cup {NULL}

Fit(items, S, rendered) ==
    /\ items \in Seq(Item)
    /\ \A i \in 1..Len(items) :
          /\ WellWritten(items[i])
          /\ items[i].kind = "include" =>
                /\ items[i].words[1] \in DOMAIN Shape
                /\ rendered[items[i].words[1]] \in Seq(S)

\* What is between the braces of an item is a token.
LEMMA InsideType ==
    ASSUME NEW item \in Item, WellWritten(item), item.kind # "text"
    PROVE  Inside(item) \in Seq(InnerGlyph)
<1> DEFINE w == item.words[1]
           v == item.words[2]
           u == item.words[3]
<1>1. /\ item.kind \in {"var", "include", "when"} /\ w \in InnerGlyph
      /\ item.kind = "when" => v \in InnerGlyph /\ u \in InnerGlyph
  BY WordsOf
<1> HIDE DEF w, v, u
<1>2. CASE item.kind = "var"
  <2>1. Inside(item) = <<"{", w>>
    BY <1>2 DEF Inside, w
  <2>2. <<"{", w>> \in Seq(InnerGlyph)
    <3>1. "{" \in InnerGlyph
      BY InnerGlyphs
    <3>2. \A a, b \in InnerGlyph : <<a, b>> \in Seq(InnerGlyph)
      BY TupleTypes
    <3> QED BY <1>1, <3>1, <3>2, Zenon
  <2> QED BY <2>1, <2>2
<1>3. CASE item.kind = "include"
  <2>1. Inside(item) = <<"%", "include", " ", w, "%">>
    BY <1>3 DEF Inside, w
  <2>2. <<"%", "include", " ", w, "%">> \in Seq(InnerGlyph)
    BY <1>1, InnerGlyphs, TupleTypes
  <2> QED BY <2>1, <2>2
<1>4. CASE item.kind = "when"
  <2>1. Inside(item) = <<"%", "when", " ", w, " ", v, " ", u, "%">>
    BY <1>4 DEF Inside, w, v, u
  <2>2. <<"%", "when", " ", w, " ", v, " ", u, "%">> \in Seq(InnerGlyph)
    BY <1>1, <1>4, InnerGlyphs, TupleTypes
  <2> QED BY <2>1, <2>2
<1> QED BY <1>1, <1>2, <1>3, <1>4

\* What is written in a file for an item is a text, and what is shown is one.
LEMMA WrittenType ==
    ASSUME NEW item \in Item, WellWritten(item)
    PROVE  Written(item) \in Seq(Glyph)
<1>1. CASE item.kind = "text"
  <2>1. item.words \in Seq(STRING)
    BY DEF Item
  <2>2. item.words \in Seq(Glyph)
    BY <2>1, SeqMonotonic DEF Glyph
  <2> QED BY <1>1, <2>2 DEF Written
<1>2. CASE item.kind # "text"
  <2> DEFINE x == Inside(item)
             e == IF item.kind = "var" THEN "}" ELSE " "
             y == Joined(x, "}", <<e>>)
  <2>1. x \in Seq(InnerGlyph)
    BY <1>2, InsideType
  <2>2. x \in Seq(Glyph)
    BY <2>1, SeqMonotonic DEF InnerGlyph
  <2>3. "}" \in Glyph /\ "{" \in Glyph /\ e \in Glyph
    BY DEF Glyph
  <2>4. Written(item) = <<"{">> \o y
    BY <1>2 DEF Written
  <2> HIDE DEF x, e
  <2>5. <<e>> \in Seq(Glyph) /\ <<"{">> \in Seq(Glyph)
    BY <2>3, TupleTypes
  <2>6. y \in Seq(Glyph)
    BY <2>2, <2>3, <2>5, JoinedIs
  <2> HIDE DEF y
  <2> QED BY <2>4, <2>5, <2>6, ConcatProperties
<1> QED BY <1>1, <1>2

\* What is shown for an item is a text.
LEMMA ShownType ==
    ASSUME NEW S, Glyph \subseteq S, NEW context, Telling(context, S), NEW rendered,
           NEW item \in Item, WellWritten(item),
           item.kind = "include" => rendered[item.words[1]] \in Seq(S)
    PROVE  ShownItem(item, context, rendered) \in Seq(S)
<1>1. CASE item.kind = "text"
  <2>1. item.words \in Seq(STRING)
    BY DEF Item
  <2>2. item.words \in Seq(S)
    BY <2>1, SeqMonotonic DEF Glyph
  <2> QED BY <1>1, <2>2 DEF ShownItem
<1>2. CASE item.kind = "var"
  <2>1. Value(context, item.words[1]) \in Seq(S)
    BY DEF Value, Telling
  <2> QED BY <1>2, <2>1 DEF ShownItem
<1>3. CASE item.kind = "include"
  BY <1>3 DEF ShownItem
<1>4. CASE item.kind = "when"
  <2> DEFINE w == item.words[3]
  <2>1. w \in S
    BY <1>4, WordsOf DEF InnerGlyph
  <2>2. ShownItem(item, context, rendered) \in {<<w>>, <<>>}
    BY <1>4 DEF ShownItem
  <2> HIDE DEF w
  <2>3. <<w>> \in Seq(S) /\ <<>> \in Seq(S)
    BY <2>1, TupleTypes, EmptySeq
  <2> QED BY <2>2, <2>3
<1>5. item.kind \in {"text", "var", "include", "when"}
  BY DEF Item
<1> QED BY <1>1, <1>2, <1>3, <1>4, <1>5

\* A function of the numbers up to n is a sequence.
LEMMA SeqFrom ==
    ASSUME NEW T, NEW n \in Nat, NEW f \in [1..n -> T]
    PROVE  f \in Seq(T) /\ Len(f) = n
<1>1. f \in Seq(T)
  BY SeqDef
<1>2. DOMAIN f = 1..n /\ DOMAIN f = 1..Len(f) /\ Len(f) \in Nat
  BY <1>1, LenProperties
<1> QED BY <1>1, <1>2

\* The texts of items are such.
LEMMA PartsType ==
    ASSUME NEW S, Glyph \subseteq S, NEW context, Telling(context, S), NEW rendered,
           NEW items, Fit(items, S, rendered)
    PROVE  LET u == WrittenParts(items)
               v == ShownParts(items, context, rendered)
           IN  /\ Len(items) \in Nat /\ DOMAIN items = 1..Len(items)
               /\ u \in Seq(Seq(Glyph)) /\ Len(u) = Len(items)
               /\ v \in Seq(Seq(S)) /\ Len(v) = Len(items)
               /\ \A i \in 1..Len(items) :
                     u[i] = Written(items[i]) /\ v[i] = ShownItem(items[i], context, rendered)
<1> DEFINE u == WrittenParts(items)
           v == ShownParts(items, context, rendered)
           n == Len(items)
<1>1. items \in Seq(Item)
  BY DEF Fit
<1>2. n \in Nat /\ DOMAIN items = 1..n /\ \A i \in 1..n : items[i] \in Item
  BY <1>1, LenProperties, ElementOfSeq
<1>3. ASSUME NEW i \in 1..n PROVE Written(items[i]) \in Seq(Glyph)
  BY <1>2, WrittenType DEF Fit
<1>4. ASSUME NEW i \in 1..n PROVE ShownItem(items[i], context, rendered) \in Seq(S)
  BY <1>2, ShownType DEF Fit
<1> HIDE DEF n
<1>5. u \in [1..n -> Seq(Glyph)] /\ v \in [1..n -> Seq(S)]
  BY <1>2, <1>3, <1>4 DEF WrittenParts, ShownParts
<1>6. \A i \in 1..n : u[i] = Written(items[i]) /\ v[i] = ShownItem(items[i], context, rendered)
  BY <1>2 DEF WrittenParts, ShownParts
<1> HIDE DEF u, v
<1>7. u \in Seq(Seq(Glyph)) /\ Len(u) = n
  BY <1>2, <1>5, SeqFrom
<1>8. v \in Seq(Seq(S)) /\ Len(v) = n
  BY <1>2, <1>5, SeqFrom
<1> QED BY <1>2, <1>6, <1>7, <1>8 DEF n, u, v

\* What is written for items is a text of a file, and what is shown for them is a text.
LEMMA ItemsType ==
    ASSUME NEW S, Glyph \subseteq S, NEW context, Telling(context, S), NEW rendered,
           NEW items, Fit(items, S, rendered)
    PROVE  /\ TextOf(items) \in Seq(Glyph) /\ ShownItems(items, context, rendered) \in Seq(S)
           /\ items = <<>> => TextOf(items) = <<>> /\ ShownItems(items, context, rendered) = <<>>
<1> DEFINE u == WrittenParts(items)
           v == ShownParts(items, context, rendered)
<1>1. /\ u \in Seq(Seq(Glyph)) /\ Len(u) = Len(items)
      /\ v \in Seq(Seq(S)) /\ Len(v) = Len(items)
      /\ \A i \in 1..Len(items) :
            u[i] = Written(items[i]) /\ v[i] = ShownItem(items[i], context, rendered)
  BY PartsType
<1>2. TextOf(items) = FlattenSeq(u) /\ ShownItems(items, context, rendered) = FlattenSeq(v)
  BY DEF TextOf, ShownItems, ShownParts
<1> HIDE DEF u, v
<1>3. items = <<>> => u = <<>> /\ v = <<>>
  BY <1>1, EmptySeq
<1> QED BY <1>1, <1>2, <1>3, FlattenSeqType

\* They are the text of the first item, and those of the others behind it.
FirstShown(items, S, context, rendered) ==
    LET item == items[1]
        others == Tail(items)
    IN  /\ item \in Item /\ WellWritten(item)
        /\ item.kind = "include" =>
              item.words[1] \in DOMAIN Shape /\ rendered[item.words[1]] \in Seq(S)
        /\ Fit(others, S, rendered) /\ Len(others) = Len(items) - 1
        /\ TextOf(items) = Written(item) \o TextOf(others)
        /\ ShownItems(items, context, rendered) =
               ShownItem(item, context, rendered) \o ShownItems(others, context, rendered)

\* The first of the items, and the others.
LEMMA FirstItem ==
    ASSUME NEW S, Glyph \subseteq S, NEW context, Telling(context, S), NEW rendered,
           NEW items, Fit(items, S, rendered), items # <<>>
    PROVE  FirstShown(items, S, context, rendered)
<1> DEFINE others == Tail(items)
           u == WrittenParts(items)
           v == ShownParts(items, context, rendered)
           x == WrittenParts(others)
           y == ShownParts(others, context, rendered)
<1>1. items \in Seq(Item)
  BY DEF Fit
<1>2. /\ others \in Seq(Item) /\ Len(others) = Len(items) - 1
      /\ \A i \in 1..Len(others) : others[i] = items[i + 1]
  BY <1>1, HeadTailProperties
<1> HIDE DEF others
<1>3. Len(items) \in Nat /\ Len(items) # 0
  BY <1>1, EmptySeq, LenProperties
<1>4. 1 \in 1..Len(items) /\ \A i \in 1..Len(others) : i + 1 \in 1..Len(items)
  BY <1>2, <1>3
<1>5. Fit(others, S, rendered)
  BY <1>2, <1>4 DEF Fit
<1>6. /\ u \in Seq(Seq(Glyph)) /\ Len(u) = Len(items)
      /\ v \in Seq(Seq(S)) /\ Len(v) = Len(items)
      /\ \A i \in 1..Len(items) :
            u[i] = Written(items[i]) /\ v[i] = ShownItem(items[i], context, rendered)
  BY PartsType
<1>7. /\ x \in Seq(Seq(Glyph)) /\ Len(x) = Len(others)
      /\ y \in Seq(Seq(S)) /\ Len(y) = Len(others)
      /\ \A i \in 1..Len(others) :
            x[i] = Written(others[i]) /\ y[i] = ShownItem(others[i], context, rendered)
  BY <1>5, PartsType
<1>8. /\ TextOf(items) = FlattenSeq(u) /\ ShownItems(items, context, rendered) = FlattenSeq(v)
      /\ TextOf(others) = FlattenSeq(x) /\ ShownItems(others, context, rendered) = FlattenSeq(y)
  BY DEF TextOf, ShownItems, ShownParts
<1> HIDE DEF u, v, x, y
<1>9. Len(u) = Len(x) + 1 /\ Len(v) = Len(y) + 1
  BY <1>2, <1>3, <1>6, <1>7
<1>10. /\ \A i \in 1..Len(x) : x[i] = u[i + 1]
       /\ \A i \in 1..Len(y) : y[i] = v[i + 1]
  BY <1>2, <1>4, <1>6, <1>7
<1>11. FlattenSeq(u) = u[1] \o FlattenSeq(x)
  BY <1>6, <1>7, <1>9, <1>10, FlattenFirst
<1>12. FlattenSeq(v) = v[1] \o FlattenSeq(y)
  BY <1>6, <1>7, <1>9, <1>10, FlattenFirst
<1>13. items[1] \in Item
  BY <1>1, <1>4, ElementOfSeq
<1>14. /\ items[1] \in Item /\ WellWritten(items[1])
       /\ items[1].kind = "include" =>
             items[1].words[1] \in DOMAIN Shape /\ rendered[items[1].words[1]] \in Seq(S)
       /\ Fit(others, S, rendered) /\ Len(others) = Len(items) - 1
       /\ TextOf(items) = Written(items[1]) \o TextOf(others)
       /\ ShownItems(items, context, rendered) =
              ShownItem(items[1], context, rendered) \o ShownItems(others, context, rendered)
  BY <1>2, <1>4, <1>5, <1>6, <1>8, <1>11, <1>12, <1>13 DEF Fit
<1> QED BY <1>14, Zenon DEF FirstShown, others

\* What comes before the next brace, and what the loop makes of the rest, are
\* what a shows without its first character, and then what is to be shown.
Shows(buff, context, rendered, i, a, shown) ==
    LET q == NextToken(buff, i, {OpenSign})
        loop == Loop(buff, context, rendered)
    IN  /\ q.found /\ q.next \in 1..(Len(buff) + 1)
        /\ Tail(q.token) \o loop[q.next] = Tail(a) \o shown

\* What is behind the first character of two texts.
LEMMA TailOfBoth ==
    ASSUME NEW S, NEW a \in Seq(S), a # <<>>, NEW b \in Seq(S)
    PROVE  Tail(a \o b) = Tail(a) \o b
<1> DEFINE s == a \o b
           t == Tail(a) \o b
<1>1. Len(a) \in Nat /\ Len(a) # 0 /\ Len(b) \in Nat
  BY EmptySeq, LenProperties
<1>2. /\ s \in Seq(S) /\ Len(s) = Len(a) + Len(b)
      /\ \A i \in 1..(Len(a) + Len(b)) : s[i] = IF i <= Len(a) THEN a[i] ELSE b[i - Len(a)]
  BY ConcatProperties
<1>3. /\ Tail(a) \in Seq(S) /\ Len(Tail(a)) = Len(a) - 1
      /\ \A i \in 1..Len(Tail(a)) : Tail(a)[i] = a[i + 1]
  BY HeadTailProperties
<1>4. /\ t \in Seq(S) /\ Len(t) = Len(Tail(a)) + Len(b)
      /\ \A i \in 1..(Len(Tail(a)) + Len(b)) :
            t[i] = IF i <= Len(Tail(a)) THEN Tail(a)[i] ELSE b[i - Len(Tail(a))]
  BY <1>3, ConcatProperties
<1> HIDE DEF s, t
<1>5. s # <<>>
  BY <1>1, <1>2, EmptySeq
<1>6. /\ Tail(s) \in Seq(S) /\ Len(Tail(s)) = Len(s) - 1
      /\ \A i \in 1..Len(Tail(s)) : Tail(s)[i] = s[i + 1]
  BY <1>2, <1>5, HeadTailProperties
<1>7. Len(Tail(s)) = Len(t)
  BY <1>1, <1>2, <1>3, <1>4, <1>6
<1>8. ASSUME NEW i \in 1..Len(Tail(s)) PROVE Tail(s)[i] = t[i]
  <2>1. /\ i \in Nat /\ i + 1 \in 1..(Len(a) + Len(b)) /\ i \in 1..(Len(Tail(a)) + Len(b))
        /\ i + 1 <= Len(a) <=> i <= Len(Tail(a))
        /\ i <= Len(Tail(a)) => i \in 1..Len(Tail(a))
        /\ (i + 1) - Len(a) = i - Len(Tail(a))
    BY <1>1, <1>2, <1>3, <1>6
  <2>2. Tail(s)[i] = s[i + 1]
    BY <1>6
  <2> QED BY <1>2, <1>3, <1>4, <2>1, <2>2
<1>9. Tail(s) = t
  BY <1>4, <1>6, <1>7, <1>8, SeqEqual
<1> QED BY <1>9 DEF s, t

\* At the end there is nothing more to show.
LEMMA ShowsEnd ==
    ASSUME NEW S, Glyph \subseteq S, NEW context, NEW rendered, NEW buff \in Seq(Glyph),
           NEW i \in 1..(Len(buff) + 1), NEW a \in Seq(Glyph), a # <<>>, Clear(a, {OpenSign}),
           Left(buff, i) = a
    PROVE  Shows(buff, context, rendered, i, a, <<>>)
<1> DEFINE loop == Loop(buff, context, rendered)
           q == NextToken(buff, i, {OpenSign})
           n == Len(buff) + 1
           r == NextToken(buff, n, {CloseSign})
<1>1. NUL \in Glyph /\ NUL \notin {OpenSign} /\ NUL \notin {CloseSign}
  BY DEF Glyph, NUL, OpenSign, CloseSign
<1>2. q.found /\ q.token = a /\ q.next = n
  <2>1. Clear(Left(buff, i), {OpenSign}) /\ Left(buff, i) # <<>>
    OBVIOUS
  <2> QED BY <1>1, <2>1, TokenLast
<1>3. n \in 1..(Len(buff) + 1)
  <2>1. Len(buff) \in Nat
    BY LenProperties
  <2> QED BY <2>1
<1>4. Left(buff, n) = <<>>
  BY NothingLeft
<1>5. Clear(Left(buff, n), {CloseSign})
  <2>1. Len(<<>>) = 0
    OBVIOUS
  <2> QED BY <1>4, <2>1 DEF Clear
<1>6. ~r.found
  BY <1>1, <1>3, <1>4, <1>5, TokenLast
<1>7. loop[n] = Turn(buff, context, rendered, loop, n)
  BY <1>3, LoopIs
<1> HIDE DEF loop, q, n
<1>8. loop[n] = <<>>
  BY <1>6, <1>7 DEF Turn
<1> QED BY <1>2, <1>3, <1>8 DEF Shows, loop, q

\* Texts behind one another.
Associated(s, t, u) == (s \o t) \o u = s \o (t \o u)

\* Three texts can be joined in either order.
LEMMA AllAssociated ==
    ASSUME NEW S, NEW s \in Seq(S), NEW t \in Seq(S), NEW u \in Seq(S)
    PROVE  Associated(s, t, u)
BY ConcatAssociative DEF Associated

Reassociated(a, b, c, d, e) ==
    (a \o (b \o (c \o d))) \o e = a \o (b \o (c \o (d \o e)))

\* So can the four parts of a token, and what comes behind it.
LEMMA AllReassociated ==
    ASSUME NEW S, NEW a \in Seq(S), NEW b \in Seq(S), NEW c \in Seq(S), NEW d \in Seq(S),
           NEW e \in Seq(S)
    PROVE  Reassociated(a, b, c, d, e)
<1>1. c \o d \in Seq(S)
  BY ConcatProperties
<1>2. b \o (c \o d) \in Seq(S)
  BY <1>1, ConcatProperties
<1>3. Associated(c, d, e)
  BY AllAssociated
<1>4. Associated(b, c \o d, e)
  BY <1>1, AllAssociated
<1>5. Associated(a, b \o (c \o d), e)
  BY <1>2, AllAssociated
<1> QED BY <1>3, <1>4, <1>5, Zenon DEF Associated, Reassociated

\* Words are read along with what is before them.
LEMMA ShowsWords ==
    ASSUME NEW S, Glyph \subseteq S, NEW context, NEW rendered, NEW buff, NEW i,
           NEW a \in Seq(Glyph), a # <<>>, NEW w \in Seq(Glyph), NEW shown \in Seq(S),
           Shows(buff, context, rendered, i, a \o w, shown)
    PROVE  Shows(buff, context, rendered, i, a, w \o shown)
<1>1. Tail(a \o w) = Tail(a) \o w
  BY TailOfBoth
<1>2. Tail(a) \in Seq(S) /\ w \in Seq(S)
  BY HeadTailProperties, SeqMonotonic
<1>3. (Tail(a) \o w) \o shown = Tail(a) \o (w \o shown)
  <2>1. Associated(Tail(a), w, shown)
    BY <1>2, AllAssociated
  <2> QED BY <2>1 DEF Associated
<1> QED BY <1>1, <1>3 DEF Shows

\* An item in braces is read, and shown.
LEMMA ShowsItem ==
    ASSUME NEW S, Glyph \subseteq S, NEW context, NEW rendered, NEW buff \in Seq(Glyph),
           NEW i \in 1..(Len(buff) + 1), NEW a \in Seq(Glyph), a # <<>>, Clear(a, {OpenSign}),
           NEW item \in Item, WellWritten(item), item.kind # "text",
           item.kind = "include" => item.words[1] \in DOMAIN Shape,
           NEW text \in Seq(Glyph), NEW shown \in Seq(S),
           Left(buff, i) = a \o (Written(item) \o text),
           \A j \in 1..(Len(buff) + 1) : \A e \in Glyph \ {OpenSign, NUL} :
               Left(buff, j) = <<e>> \o text => Shows(buff, context, rendered, j, <<e>>, shown)
    PROVE  Shows(buff, context, rendered, i, a, ShownItem(item, context, rendered) \o shown)
<1> DEFINE loop == Loop(buff, context, rendered)
           x == Inside(item)
           e == IF item.kind = "var" THEN CloseSign ELSE BlankSign
           b == <<e>> \o text
           xb == Joined(x, CloseSign, b)
           p == NextToken(buff, i, {OpenSign})
           n == p.next
           r == NextToken(buff, n, {CloseSign})
           m == r.next
           q == NextToken(buff, m, {OpenSign})
<1>1. /\ x \in Seq(InnerGlyph) /\ x # <<>> /\ x[1] \in Signs
      /\ Expansion(x, context, rendered) = ShownItem(item, context, rendered)
  BY WordsOf, VarRead, IncludeRead, WhenRead, Zenon DEF Signs
<1>2. Clear(x, {CloseSign})
  BY <1>1, InnerClear
<1>3. x \in Seq(Glyph)
  BY <1>1, SeqMonotonic DEF InnerGlyph
<1>4. OpenSign \in Glyph /\ CloseSign \in Glyph /\ NUL \in Glyph /\ e \in Glyph /\ e \in Glyph \ {OpenSign, NUL}
  BY DEF Glyph, NUL, OpenSign, CloseSign, BlankSign
<1>5. OpenSign # NUL /\ CloseSign # NUL
  BY DEF NUL, OpenSign, CloseSign
<1>6. Written(item) = <<OpenSign>> \o Joined(x, CloseSign, <<e>>)
  BY DEF Written, OpenSign, CloseSign, BlankSign
<1> HIDE DEF x, e
<1>7. <<e>> \in Seq(Glyph) /\ <<OpenSign>> \in Seq(Glyph) /\ <<CloseSign>> \in Seq(Glyph)
  <2>1. \A g \in Glyph : <<g>> \in Seq(Glyph)
    BY TupleTypes
  <2> QED BY <1>4, <2>1
<1>8. b \in Seq(Glyph)
  BY <1>7, ConcatProperties
<1>9. xb \in Seq(Glyph)
  BY <1>3, <1>4, <1>8, JoinedIs
<1>10. a \o (Written(item) \o text) = Joined(a, OpenSign, xb)
  <2>1. (<<OpenSign>> \o (x \o (<<CloseSign>> \o <<e>>))) \o text
          = <<OpenSign>> \o (x \o (<<CloseSign>> \o (<<e>> \o text)))
    <3> DEFINE c == <<CloseSign>>
               d == <<e>>
               f == <<OpenSign>>
    <3>1. c \in Seq(Glyph) /\ d \in Seq(Glyph) /\ f \in Seq(Glyph)
      BY <1>7
    <3> HIDE DEF c, d, f
    <3>2. Reassociated(f, x, c, d, text)
      BY <1>3, <3>1, AllReassociated
    <3> QED BY <3>2 DEF Reassociated, c, d, f
  <2> QED BY <1>6, <2>1, Zenon DEF Joined
<1> HIDE DEF b, xb
<1>11. /\ p.found /\ p.token = a
       /\ n \in 1..(Len(buff) + 1) /\ Left(buff, n) = xb
  <2>1. OpenSign \in {OpenSign} /\ Left(buff, i) = Joined(a, OpenSign, xb)
    BY <1>10
  <2> QED BY <1>4, <1>5, <1>9, <2>1, TokenBefore
<1>12. /\ r.found /\ r.token = x
       /\ m \in 1..(Len(buff) + 1) /\ Left(buff, m) = b
  <2>1. CloseSign \in {CloseSign} /\ Left(buff, n) = Joined(x, CloseSign, b)
    BY <1>11 DEF xb
  <2> HIDE DEF n
  <2>2. n \in 1..(Len(buff) + 1)
    BY <1>11
  <2> QED BY <1>1, <1>2, <1>3, <1>4, <1>5, <1>8, <2>1, <2>2, TokenBefore
<1>13. loop[n] = Turn(buff, context, rendered, loop, n)
  <2> HIDE DEF n
  <2>1. n \in 1..(Len(buff) + 1)
    BY <1>11
  <2> QED BY <2>1, LoopIs
<1> HIDE DEF loop, p, n, m, r, q
<1>14. Shows(buff, context, rendered, m, <<e>>, shown)
  BY <1>4, <1>12 DEF b
<1>15. q.found /\ q.next \in 1..(Len(buff) + 1) /\ Tail(q.token) \o loop[q.next] = Tail(<<e>>) \o shown
  BY <1>14 DEF Shows, q, loop
<1>16. Tail(<<e>>) \o shown = shown
  <2>1. \A g : Tail(<<g>>) = <<>>
    OBVIOUS
  <2> QED BY <2>1, ConcatEmptySeq
<1>17. Plain(x, q.token) = Tail(q.token)
  BY <1>1 DEF Plain, Signs
<1>18. Turn(buff, context, rendered, loop, n)
         = Expansion(x, context, rendered) \o (Plain(x, q.token) \o loop[q.next])
  BY <1>12, <1>15, Zenon DEF Turn, r, q, m
<1>19. loop[n] = ShownItem(item, context, rendered) \o shown
  BY <1>1, <1>13, <1>15, <1>16, <1>17, <1>18
<1> QED BY <1>11, <1>19 DEF Shows, p, n, loop

\* The words of a text have no brace.
LEMMA TextClear ==
    ASSUME NEW item \in Item, WellWritten(item), item.kind = "text"
    PROVE  Clear(item.words, {OpenSign})
<1> DEFINE w == item.words
<1>1. w \in Seq(STRING)
  BY DEF Item
<1>2. ToSet(w) \cap {NUL, OpenSign} = {}
  BY DEF WellWritten, OpenSign
<1> HIDE DEF w
<1>3. DOMAIN w = 1..Len(w)
  BY <1>1, LenProperties
<1>4. Clear(w, {OpenSign})
  BY <1>2, <1>3 DEF Clear, ToSet
<1> QED BY <1>4 DEF w

\* Two texts are clear together.
LEMMA BothClear ==
    ASSUME NEW S, NEW delims, NEW a \in Seq(S), a # <<>>, Clear(a, delims),
           NEW b \in Seq(S), Clear(b, delims)
    PROVE  a \o b \in Seq(S) /\ a \o b # <<>> /\ Clear(a \o b, delims)
<1> DEFINE s == a \o b
<1>1. Len(a) \in Nat /\ Len(a) # 0 /\ Len(b) \in Nat
  BY EmptySeq, LenProperties
<1>2. /\ s \in Seq(S) /\ Len(s) = Len(a) + Len(b)
      /\ \A i \in 1..(Len(a) + Len(b)) : s[i] = IF i <= Len(a) THEN a[i] ELSE b[i - Len(a)]
  BY ConcatProperties
<1> HIDE DEF s
<1>3. s # <<>>
  BY <1>1, <1>2, EmptySeq
<1>4. ASSUME NEW i \in 1..Len(s) PROVE s[i] \notin delims \cup {NUL}
  <2>1. /\ i \in 1..(Len(a) + Len(b)) /\ i <= Len(a) => i \in 1..Len(a)
        /\ ~(i <= Len(a)) => i - Len(a) \in 1..Len(b)
    BY <1>1, <1>2
  <2>2. (i <= Len(a) => s[i] = a[i]) /\ (~(i <= Len(a)) => s[i] = b[i - Len(a)])
    BY <1>2, <2>1
  <2> QED BY <2>1, <2>2 DEF Clear
<1> QED BY <1>2, <1>3, <1>4 DEF Clear, s

\* So is what items show.
LEMMA AllShown ==
    ASSUME NEW S, Glyph \subseteq S, NEW context, Telling(context, S), NEW rendered,
           NEW buff \in Seq(Glyph)
    PROVE  \A items : Fit(items, S, rendered) =>
               \A i \in 1..(Len(buff) + 1), a \in Seq(Glyph) :
                   a # <<>> /\ Clear(a, {OpenSign}) /\ Left(buff, i) = a \o TextOf(items) =>
                       Shows(buff, context, rendered, i, a, ShownItems(items, context, rendered))
<1> DEFINE Walked(items) ==
               \A i \in 1..(Len(buff) + 1), a \in Seq(Glyph) :
                   a # <<>> /\ Clear(a, {OpenSign}) /\ Left(buff, i) = a \o TextOf(items) =>
                       Shows(buff, context, rendered, i, a, ShownItems(items, context, rendered))
           T == {n \in Nat : \A items : Fit(items, S, rendered) /\ Len(items) = n => Walked(items)}
<1>1. 0 \in T
  <2> SUFFICES ASSUME NEW items, Fit(items, S, rendered), Len(items) = 0 PROVE Walked(items)
    OBVIOUS
  <2>1. items = <<>>
    BY EmptySeq DEF Fit
  <2>2. TextOf(items) = <<>> /\ ShownItems(items, context, rendered) = <<>>
    BY <2>1, ItemsType
  <2> SUFFICES ASSUME NEW i \in 1..(Len(buff) + 1), NEW a \in Seq(Glyph),
                      a # <<>>, Clear(a, {OpenSign}), Left(buff, i) = a \o TextOf(items)
               PROVE  Shows(buff, context, rendered, i, a, ShownItems(items, context, rendered))
    BY Zenon
  <2>3. Left(buff, i) = a
    BY <2>2, ConcatEmptySeq
  <2> QED BY <2>2, <2>3, ShowsEnd
<1>2. ASSUME NEW n \in Nat, n \in T PROVE n + 1 \in T
  <2>10. n + 1 \in Nat
    OBVIOUS
  <2> SUFFICES ASSUME NEW items, Fit(items, S, rendered), Len(items) = n + 1 PROVE Walked(items)
    BY <2>10, Zenon
  <2> DEFINE item == items[1]
             others == Tail(items)
             shown == ShownItems(others, context, rendered)
             text == TextOf(others)
  <2>1. items # <<>>
    <3>1. n + 1 # 0
      OBVIOUS
    <3> QED BY <3>1
  <2>2. /\ item \in Item /\ WellWritten(item)
        /\ item.kind = "include" =>
              item.words[1] \in DOMAIN Shape /\ rendered[item.words[1]] \in Seq(S)
        /\ Fit(others, S, rendered) /\ Len(others) = Len(items) - 1
        /\ TextOf(items) = Written(item) \o text
        /\ ShownItems(items, context, rendered) = ShownItem(item, context, rendered) \o shown
    <3>1. FirstShown(items, S, context, rendered)
      BY <2>1, FirstItem
    <3> QED BY <3>1, Zenon DEF FirstShown
  <2> HIDE DEF item, others
  <2>3. Len(others) = n
    BY <2>2
  <2>4. text \in Seq(Glyph) /\ shown \in Seq(S)
    BY <2>2, ItemsType
  <2>5. Written(item) \in Seq(Glyph)
    BY <2>2, WrittenType
  <2> HIDE DEF text, shown
  <2>6. ASSUME NEW j \in 1..(Len(buff) + 1), NEW b \in Seq(Glyph),
               b # <<>>, Clear(b, {OpenSign}), Left(buff, j) = b \o text
        PROVE  Shows(buff, context, rendered, j, b, shown)
    <3>1. Walked(others)
      BY <1>2, <2>2, <2>3
    <3> HIDE DEF T
    <3> QED BY <2>6, <3>1, Zenon DEF text, shown
  <2> SUFFICES ASSUME NEW i \in 1..(Len(buff) + 1), NEW a \in Seq(Glyph),
                      a # <<>>, Clear(a, {OpenSign}), Left(buff, i) = a \o TextOf(items)
               PROVE  Shows(buff, context, rendered, i, a, ShownItems(items, context, rendered))
    BY Zenon
  <2> HIDE DEF T
  <2>7. CASE item.kind = "text"
    <3> DEFINE w == item.words
               b == a \o w
    <3>1. Written(item) = w /\ ShownItem(item, context, rendered) = w
      BY <2>7 DEF Written, ShownItem
    <3>2. Clear(w, {OpenSign})
      BY <2>2, <2>7, TextClear
    <3>3. w \in Seq(Glyph)
      BY <2>5, <3>1
    <3> HIDE DEF w
    <3>4. b \in Seq(Glyph) /\ b # <<>> /\ Clear(b, {OpenSign})
      BY <3>2, <3>3, BothClear
    <3>5. Left(buff, i) = b \o text
      <4>1. Associated(a, w, text)
        BY <2>4, <3>3, AllAssociated
      <4> QED BY <2>2, <3>1, <4>1 DEF Associated
    <3>6. Shows(buff, context, rendered, i, b, shown)
      BY <2>6, <3>4, <3>5
    <3>7. Shows(buff, context, rendered, i, a, w \o shown)
      BY <2>4, <3>3, <3>6, ShowsWords
    <3> QED BY <2>2, <3>1, <3>7
  <2>8. CASE item.kind # "text"
    <3>1. ASSUME NEW j \in 1..(Len(buff) + 1), NEW e \in Glyph \ {OpenSign, NUL},
                 Left(buff, j) = <<e>> \o text
          PROVE  Shows(buff, context, rendered, j, <<e>>, shown)
      <4> DEFINE b == <<e>>
      <4>1. b \in Seq(Glyph) /\ b # <<>> /\ Len(b) = 1 /\ b[1] = e
        OBVIOUS
      <4> HIDE DEF b
      <4>2. Clear(b, {OpenSign})
        BY <4>1 DEF Clear
      <4>3. Left(buff, j) = b \o text
        BY <3>1 DEF b
      <4>4. Shows(buff, context, rendered, j, b, shown)
        BY <2>6, <4>1, <4>2, <4>3
      <4> QED BY <4>4 DEF b
    <3>2. Left(buff, i) = a \o (Written(item) \o text)
      BY <2>2
    <3>3. Shows(buff, context, rendered, i, a, ShownItem(item, context, rendered) \o shown)
      BY <2>2, <2>4, <2>8, <3>1, <3>2, ShowsItem
    <3> QED BY <2>2, <3>3
  <2> QED BY <2>7, <2>8
<1>3. \A n \in Nat : n \in T
  <2> HIDE DEF T
  <2> QED BY <1>1, <1>2, EveryNumber
<1> SUFFICES ASSUME NEW items, Fit(items, S, rendered) PROVE Walked(items)
  BY Zenon
<1>4. Len(items) \in Nat
  BY LenProperties DEF Fit
<1>5. Len(items) \in T
  <2> HIDE DEF T
  <2> QED BY <1>3, <1>4
<1> HIDE DEF Walked
<1> QED BY <1>5

\* A whole file is what its items show, if those it includes are texts.
LEMMA FileIs ==
    ASSUME NEW S, Glyph \subseteq S, NEW context, Telling(context, S), NEW f \in DOMAIN Shape,
           NEW rendered, \A g \in Included(f) : rendered[g] \in Seq(S)
    PROVE  /\ Rendered(f, context, rendered) = ShownItems(Shape[f], context, rendered)
           /\ ShownItems(Shape[f], context, rendered) \in Seq(S)
<1> DEFINE items == Shape[f]
           a == <<BlankSign>>
           file == TextOf(items)
           buff == a \o file
           shown == ShownItems(items, context, rendered)
           q == NextToken(buff, 1, {OpenSign})
           loop == Loop(buff, context, rendered)
<1>1. items \in Seq(Item) /\ \A i \in 1..Len(items) : WellWritten(items[i])
  <2>1. items \in Seq(Item) /\ \A i \in DOMAIN items : WellWritten(items[i])
    BY ShapeAssumption
  <2> HIDE DEF items
  <2>2. DOMAIN items = 1..Len(items)
    BY <2>1, LenProperties
  <2> QED BY <2>1, <2>2
<1>2. ASSUME NEW i \in 1..Len(items), items[i].kind = "include"
      PROVE  items[i].words[1] \in DOMAIN Shape /\ rendered[items[i].words[1]] \in Seq(S)
  <2>1. i \in DOMAIN Shape[f]
    <3>1. DOMAIN items = 1..Len(items)
      BY <1>1, LenProperties
    <3> QED BY <3>1
  <2>2. items[i].words[1] \in Included(f)
    BY <1>2, <2>1 DEF Included
  <2> HIDE DEF items
  <2>3. \A g \in Included(f) : g \in DOMAIN Shape
    BY IncludesAssumption
  <2> QED BY <2>2, <2>3
<1>3. File[f] = file
  BY DEF File, TextOf, WrittenParts
<1> HIDE DEF items
<1>4. Fit(items, S, rendered)
  BY <1>1, <1>2 DEF Fit
<1>5. file \in Seq(Glyph) /\ shown \in Seq(S)
  BY <1>4, ItemsType
<1>6. a \in Seq(Glyph) /\ a # <<>> /\ Len(a) = 1 /\ a[1] = BlankSign /\ Tail(a) = <<>>
  <2>1. BlankSign \in Glyph
    BY DEF Glyph, BlankSign
  <2> QED BY <2>1
<1>7. BlankSign # OpenSign /\ BlankSign # NUL
  BY DEF BlankSign, OpenSign, NUL
<1> HIDE DEF a, file, shown
<1>8. buff \in Seq(Glyph)
  BY <1>5, <1>6, ConcatProperties
<1>9. Clear(a, {OpenSign})
  BY <1>6, <1>7 DEF Clear
<1>10. Rendered(f, context, rendered) = Tail(q.token) \o loop[q.next]
  BY <1>3, Zenon DEF Rendered, BlankSign, OpenSign, a
<1> HIDE DEF buff
<1>11. 1 \in 1..(Len(buff) + 1)
  <2>1. Len(buff) \in Nat
    BY <1>8, LenProperties
  <2> QED BY <2>1
<1>12. Left(buff, 1) = a \o TextOf(items)
  <2>1. Left(buff, 1) = buff
    BY <1>8, LeftAll
  <2> QED BY <2>1 DEF buff, file
<1>13. Shows(buff, context, rendered, 1, a, shown)
  BY <1>4, <1>6, <1>8, <1>9, <1>11, <1>12, AllShown, Zenon DEF shown
<1>14. Tail(q.token) \o loop[q.next] = <<>> \o shown
  BY <1>6, <1>13 DEF Shows
<1>15. <<>> \o shown = shown
  BY <1>5, ConcatEmptySeq
<1> QED BY <1>5, <1>10, <1>14, <1>15 DEF shown, items

\* What is said of a file if it is said of those it includes is said of all.
LEMMA EveryFile ==
    ASSUME NEW T, \A f \in DOMAIN Shape : Included(f) \subseteq T => f \in T
    PROVE  \A f \in DOMAIN Shape : f \in T
<1>1. PICK depth \in [DOMAIN Shape -> 0..2] :
         \A f \in DOMAIN Shape : \A g \in Included(f) : g \in DOMAIN Shape /\ depth[g] < depth[f]
  BY IncludesAssumption
<1>2. ASSUME NEW f \in DOMAIN Shape, depth[f] = 0 PROVE f \in T
  <2>1. \A g \in Included(f) : depth[g] \in 0..2 /\ depth[g] < 0
    BY <1>1, <1>2
  <2> QED BY <2>1
<1>3. ASSUME NEW f \in DOMAIN Shape, depth[f] = 1 PROVE f \in T
  <2>1. \A g \in Included(f) : g \in DOMAIN Shape /\ depth[g] \in 0..2 /\ depth[g] < 1
    BY <1>1, <1>3
  <2> QED BY <1>2, <2>1
<1>4. ASSUME NEW f \in DOMAIN Shape, depth[f] = 2 PROVE f \in T
  <2>1. \A g \in Included(f) : g \in DOMAIN Shape /\ depth[g] \in 0..2 /\ depth[g] < 2
    BY <1>1, <1>4
  <2> QED BY <1>2, <1>3, <2>1
<1>5. \A f \in DOMAIN Shape : depth[f] \in {0, 1, 2}
  BY <1>1
<1> QED BY <1>2, <1>3, <1>4, <1>5

\* What a file shows depends on those it includes alone.
LEMMA ShownUses ==
    ASSUME NEW context, NEW f \in DOMAIN Shape, NEW g, NEW h,
           \A k \in Included(f) : g[k] = h[k]
    PROVE  ShownItems(Shape[f], context, g) = ShownItems(Shape[f], context, h)
<1> DEFINE items == Shape[f]
<1>1. ASSUME NEW i \in DOMAIN items
      PROVE  ShownItem(items[i], context, g) = ShownItem(items[i], context, h)
  <2> DEFINE item == items[i]
  <2>1. item.kind = "include" => item.words[1] \in Included(f)
    BY DEF Included
  <2>4. item.kind \in {"text", "var", "include", "when"}
    <3>1. Shape[f] \in Seq(Item)
      BY ShapeAssumption
    <3>2. item \in Item
      BY <3>1, LenProperties, ElementOfSeq
    <3> QED BY <3>2 DEF Item
  <2> HIDE DEF item
  <2>2. CASE item.kind = "include"
    <3>1. ShownItem(item, context, g) = g[item.words[1]]
      BY <2>2 DEF ShownItem
    <3>2. ShownItem(item, context, h) = h[item.words[1]]
      BY <2>2 DEF ShownItem
    <3> QED BY <2>1, <2>2, <3>1, <3>2 DEF item
  <2>3. CASE item.kind \in {"text", "var", "when"}
    <3>1. ShownItem(item, context, g) = ShownItem(item, context, h)
      BY <2>3 DEF ShownItem
    <3> QED BY <3>1 DEF item
  <2> QED BY <2>2, <2>3, <2>4
<1> HIDE DEF items
<1>2. [i \in DOMAIN items |-> ShownItem(items[i], context, g)]
        = [i \in DOMAIN items |-> ShownItem(items[i], context, h)]
  BY <1>1, Zenon
<1> QED BY <1>2, Zenon DEF ShownItems, items

IsShown(f, context) == f = [g \in DOMAIN Shape |-> ShownItems(Shape[g], context, f)]
IsRendered(f, context) == f = [g \in DOMAIN File |-> Rendered(g, context, f)]

\* There is a function of what is to be shown.
LEMMA ShownExists ==
    ASSUME NEW context
    PROVE  \E f : IsShown(f, context)
<1> DEFINE D == DOMAIN Shape
           Next(f) == [g \in D |-> ShownItems(Shape[g], context, f)]
           f0 == [g \in D |-> <<>>]
           f1 == Next(f0)
           f2 == Next(f1)
           f3 == Next(f2)
           f4 == Next(f3)
<1>1. PICK depth \in [D -> 0..2] :
         \A f \in D : \A g \in Included(f) : g \in D /\ depth[g] < depth[f]
  BY IncludesAssumption
<1>2. \A f, h : \A g \in D : (\A k \in Included(g) : f[k] = h[k]) => Next(f)[g] = Next(h)[g]
  BY ShownUses
<1>3. \A f : DOMAIN Next(f) = D
  OBVIOUS
<1> HIDE DEF Next, D, f0
<1>4. \A g \in D : depth[g] \in 0..2
  BY <1>1
<1>5. ASSUME NEW g \in D, depth[g] = 0 PROVE f1[g] = f2[g]
  <2>1. \A k \in Included(g) : FALSE
    BY <1>1, <1>4, <1>5
  <2> QED BY <1>2, <2>1
<1>6. ASSUME NEW g \in D, depth[g] <= 1 PROVE f2[g] = f3[g]
  <2>1. \A k \in Included(g) : k \in D /\ depth[k] = 0
    BY <1>1, <1>4, <1>6
  <2>2. \A k \in Included(g) : f1[k] = f2[k]
    BY <1>5, <2>1
  <2> HIDE DEF f1, f2
  <2>3. Next(f1)[g] = Next(f2)[g]
    BY <1>2, <2>2
  <2> QED BY <2>3 DEF f2
<1>7. ASSUME NEW g \in D PROVE f3[g] = f4[g]
  <2>1. \A k \in Included(g) : k \in D /\ depth[k] <= 1
    BY <1>1, <1>4, <1>7
  <2>2. \A k \in Included(g) : f2[k] = f3[k]
    BY <1>6, <2>1
  <2> HIDE DEF f2, f3
  <2>3. Next(f2)[g] = Next(f3)[g]
    BY <1>2, <2>2
  <2> QED BY <2>3 DEF f3
<1> HIDE DEF f2
<1>8. f3 = [g \in D |-> f3[g]] /\ f4 = [g \in D |-> f4[g]]
  <2> HIDE DEF f3
  <2>1. \A f : Next(f) = [g \in D |-> Next(f)[g]]
    BY DEF Next
  <2> QED BY <2>1, Zenon DEF f3, f4
<1>9. f3 = f4
  <2> HIDE DEF f3, f4
  <2>1. [g \in D |-> f3[g]] = [g \in D |-> f4[g]]
    BY <1>7, Zenon
  <2> QED BY <1>8, <2>1
<1> QED BY <1>9, Zenon DEF f4, Next, D, IsShown

\* There is one only.
LEMMA ShownUnique ==
    ASSUME NEW context, NEW f, NEW h, IsShown(f, context), IsShown(h, context)
    PROVE  f = h
<1> DEFINE T == {g \in DOMAIN Shape : f[g] = h[g]}
<1>1. /\ f = [g \in DOMAIN Shape |-> f[g]] /\ h = [g \in DOMAIN Shape |-> h[g]]
      /\ \A g \in DOMAIN Shape : f[g] = ShownItems(Shape[g], context, f)
      /\ \A g \in DOMAIN Shape : h[g] = ShownItems(Shape[g], context, h)
  <2>1. \A k : IsShown(k, context) => /\ k = [g \in DOMAIN Shape |-> k[g]]
                                      /\ \A g \in DOMAIN Shape : k[g] = ShownItems(Shape[g], context, k)
    BY DEF IsShown
  <2> QED BY <2>1, Zenon
<1>2. ASSUME NEW g \in DOMAIN Shape, Included(g) \subseteq T PROVE g \in T
  <2>1. ShownItems(Shape[g], context, f) = ShownItems(Shape[g], context, h)
    BY <1>2, ShownUses
  <2> QED BY <1>1, <2>1
<1>3. \A g \in DOMAIN Shape : g \in T
  <2> HIDE DEF T
  <2> QED BY <1>2, EveryFile
<1>4. [g \in DOMAIN Shape |-> f[g]] = [g \in DOMAIN Shape |-> h[g]]
  BY <1>3
<1> QED BY <1>1, <1>4

\* It is of texts, and the one that the loop is about.
LEMMA ShownTexts ==
    ASSUME NEW S, Glyph \subseteq S, NEW context, Telling(context, S), NEW f, IsShown(f, context)
    PROVE  (\A g \in DOMAIN Shape : f[g] \in Seq(S)) /\ IsRendered(f, context)
<1> DEFINE T == {g \in DOMAIN Shape : f[g] \in Seq(S)}
<1>1. \A g \in DOMAIN Shape : f[g] = ShownItems(Shape[g], context, f)
  BY DEF IsShown
<1>2. ASSUME NEW g \in DOMAIN Shape, Included(g) \subseteq T PROVE g \in T
  <2>1. ShownItems(Shape[g], context, f) \in Seq(S)
    BY <1>2, FileIs
  <2> QED BY <1>1, <2>1
<1>3. \A g \in DOMAIN Shape : g \in T
  <2> HIDE DEF T
  <2> QED BY <1>2, EveryFile
<1>4. ASSUME NEW g \in DOMAIN Shape
      PROVE  Rendered(g, context, f) = ShownItems(Shape[g], context, f)
  <2>1. \A k \in Included(g) : f[k] \in Seq(S)
    BY <1>3, IncludesAssumption
  <2> QED BY <2>1, FileIs
<1>5. [g \in DOMAIN Shape |-> ShownItems(Shape[g], context, f)]
        = [g \in DOMAIN Shape |-> Rendered(g, context, f)]
  BY <1>4, Zenon
<1>6. DOMAIN File = DOMAIN Shape
  BY DEF File
<1>7. IsRendered(f, context)
  BY <1>5, <1>6, Zenon DEF IsRendered, IsShown
<1> QED BY <1>3, <1>7

\* What is rendered is shown: a file is a text since the files that it includes are.
LEMMA RenderedTexts ==
    ASSUME NEW S, Glyph \subseteq S, NEW context, Telling(context, S), NEW f,
           IsRendered(f, context)
    PROVE  IsShown(f, context)
<1> DEFINE T == {g \in DOMAIN Shape : f[g] \in Seq(S)}
<1>6. DOMAIN File = DOMAIN Shape
  BY DEF File
<1>1. \A g \in DOMAIN Shape : f[g] = Rendered(g, context, f)
  BY <1>6 DEF IsRendered
<1>2. ASSUME NEW g \in DOMAIN Shape, Included(g) \subseteq T PROVE g \in T
  <2>1. Rendered(g, context, f) \in Seq(S)
    BY <1>2, FileIs
  <2> QED BY <1>1, <2>1
<1>3. \A g \in DOMAIN Shape : g \in T
  <2> HIDE DEF T
  <2> QED BY <1>2, EveryFile
<1>4. ASSUME NEW g \in DOMAIN Shape
      PROVE  Rendered(g, context, f) = ShownItems(Shape[g], context, f)
  <2>1. \A k \in Included(g) : f[k] \in Seq(S)
    BY <1>3, IncludesAssumption
  <2> QED BY <2>1, FileIs
<1>5. [g \in DOMAIN Shape |-> ShownItems(Shape[g], context, f)]
        = [g \in DOMAIN Shape |-> Rendered(g, context, f)]
  BY <1>4, Zenon
<1> QED BY <1>5, <1>6, Zenon DEF IsRendered, IsShown

\* A page is what its file says item by item: templateRender does what it is
\* written for.
THEOREM RenderShows ==
    ASSUME NEW S, Glyph \subseteq S, NEW context, Telling(context, S), NEW f \in DOMAIN Shape
    PROVE  Render(f, context) = Shown(f, context) /\ Render(f, context) \in Seq(S)
<1> DEFINE g == CHOOSE h : IsRendered(h, context)
           k == CHOOSE h : IsShown(h, context)
<1>1. f \in DOMAIN File
  BY DEF File
<1>2. Render(f, context) = g[f]
  BY <1>1, Zenon DEF Render, IsRendered
<1>3. Shown(f, context) = k[f]
  BY Zenon DEF Shown, IsShown
<1> HIDE DEF g, k
<1>4. \E h : IsShown(h, context)
  BY ShownExists
<1>5. IsShown(k, context)
  BY <1>4, Zenon DEF k
<1>6. IsRendered(k, context) /\ k[f] \in Seq(S)
  BY <1>5, ShownTexts
<1>7. IsRendered(g, context)
  BY <1>6, Zenon DEF g
<1>8. g = k
  BY <1>5, <1>7, RenderedTexts, ShownUnique
<1> QED BY <1>2, <1>3, <1>6, <1>8
=============================================================================
