------------------------- MODULE TokenRangesProofs -------------------------
(***************************************************************************)
(* Theorems about TokenRanges, for any token space, any nodes and any      *)
(* number of tokens, in whatever order the nodes answer.                   *)
(***************************************************************************)
EXTENDS TokenRanges, FiniteSetTheorems, SequenceTheorems, WellFoundedInduction, TLAPS

USE TokenAssumption

Entry == [token : Tokens, host : Hosts]

\* The tokens ascend, no token twice.
Sorted(s) == \A i, j \in 1..Len(s) : i < j => s[i].token < s[j].token

\* T is an ascending list of n tokens.
Ascending(T, n) ==
  /\ \A i \in 1..n : T[i] \in Tokens
  /\ \A i, j \in 1..n : i < j => T[i] < T[j]

\* From the least token over the n tokens of T to the greatest one.
RangesOver(T, n) ==
  Unless(T[1] = MinToken, <<MinToken, T[1]>>)
    \o [i \in 1..(n - 1) |-> <<T[i], T[i + 1]>>]
    \o <<<<T[n], MaxToken>>>>

\* The inductive invariant: the tokens are in order at every moment of their collection,
\* and the C++ ranges, once generated, are those over all tokens but the last one.
RingInv ==
  /\ tokensInCluster \in Seq(Entry)
  /\ Sorted(tokensInCluster)
  /\ phase # "collect" => N > 0
  /\ phase # "collect" /\ N > 2 => token_ranges = RangesOver(RingTokens, N - 1)

-----------------------------------------------------------------------------
(* Least elements and prefixes. *)

\* A nonempty set of naturals has a least element.
LEMMA Least ==
  ASSUME NEW S \in SUBSET Nat, S # {}
  PROVE  \E m \in S : \A i \in S : m <= i
<1>1. \E x \in S : \A y \in S : ~ (<<y, x>> \in OpToRel(<, Nat))
  BY NatLessThanWellFounded, WFMin
<1>2. PICK m \in S : \A y \in S : ~ (<<y, m>> \in OpToRel(<, Nat))
  BY <1>1
<1>3. OpToRel(<, Nat) = {ss \in Nat \X Nat : ss[1] < ss[2]}
  BY DEF OpToRel
<1>4. ASSUME NEW i \in S
      PROVE  m <= i
  <2>1. ~ (i < m)
    <3>1. SUFFICES ASSUME i < m PROVE FALSE
      OBVIOUS
    <3>2. <<i, m>> \in {ss \in Nat \X Nat : ss[1] < ss[2]}
      BY <3>1
    <3> QED
      BY <1>2, <1>3, <3>2
  <2> QED
    BY <2>1
<1> QED
  BY <1>4

\* The choice of the first element picks a least element.
LEMMA FirstOf ==
  ASSUME NEW S \in SUBSET Nat, S # {}
  PROVE  /\ (CHOOSE i \in S : \A j \in S : i <= j) \in S
         /\ \A j \in S : (CHOOSE i \in S : \A k \in S : i <= k) <= j
BY Least

\* The elements of an ascending list that do not exceed t are a prefix of it.
LEMMA PrefixUpTo ==
  ASSUME NEW T, NEW n \in Nat, NEW t \in Int,
         \A i \in 1..n : T[i] \in Int,
         \A i, j \in 1..n : i < j => T[i] < T[j]
  PROVE  \E k \in 0..n : \A i \in 1..n : T[i] <= t <=> i <= k
<1> DEFINE G == {i \in 1..n : ~ (T[i] <= t)}
<1>1. CASE G = {}
  <2>1. \A i \in 1..n : T[i] <= t <=> i <= n
    BY <1>1
  <2> QED
    BY <2>1
<1>2. CASE G # {}
  <2>0. G \in SUBSET Nat
    OBVIOUS
  <2>1. PICK m \in G : \A i \in G : m <= i
    <3> HIDE DEF G
    <3> QED
      BY <1>2, <2>0, Least
  <2>2. m - 1 \in 0..n
    BY <2>1
  <2>3. \A i \in 1..n : T[i] <= t <=> i <= m - 1
    BY <2>1
  <2> QED
    BY <2>2, <2>3
<1> QED
  BY <1>1, <1>2

-----------------------------------------------------------------------------
(* The tokens stay in order. *)

\* A token is an integer.
LEMMA TokenInt ==
  /\ \A t \in Tokens : t \in Int
  /\ \A e \in Entry : e.token \in Tokens
BY DEF Tokens, Entry

\* The place of a new token in an ordered ring: all up to UpTo(t) are not greater, all
\* beyond it are.
LEMMA UpToPlace ==
  ASSUME tokensInCluster \in Seq(Entry), Sorted(tokensInCluster), NEW t \in Tokens
  PROVE  /\ UpTo(t) \in 0..N
         /\ \A i \in 1..N : Token(i) <= t <=> i <= UpTo(t)
<1> DEFINE T == [i \in 1..N |-> Token(i)]
<1>0. N \in Nat /\ DOMAIN tokensInCluster = 1..N
  BY DEF N
<1>1. \A i \in 1..N : T[i] \in Int
  <2> SUFFICES ASSUME NEW i \in 1..N PROVE T[i] \in Int
    OBVIOUS
  <2>1. tokensInCluster[i] \in Entry
    BY <1>0
  <2>2. T[i] = tokensInCluster[i].token
    BY DEF Token
  <2> QED
    BY <2>1, <2>2, TokenInt
<1>2. \A i, j \in 1..N : i < j => T[i] < T[j]
  BY DEF Sorted, Token, N
<1>3. t \in Int
  BY DEF Tokens
<1>4. PICK k \in 0..N : \A i \in 1..N : T[i] <= t <=> i <= k
  <2> HIDE DEF T
  <2> QED
    BY <1>0, <1>1, <1>2, <1>3, PrefixUpTo
<1>5. \A i \in 1..N : Token(i) <= t <=> i <= k
  BY <1>4
<1>6. {i \in DOMAIN tokensInCluster : tokensInCluster[i].token <= t} = 1..k
  BY <1>0, <1>4, <1>5 DEF Token
<1>7. Cardinality(1..k) = k
  BY <1>0, <1>4, FS_Interval
<1>8. UpTo(t) = k
  BY <1>6, <1>7 DEF UpTo
<1> QED
  BY <1>4, <1>5, <1>8

\* insert_token keeps the ring ordered, wherever the new token belongs.
LEMMA InsertInOrder ==
  ASSUME tokensInCluster \in Seq(Entry), Sorted(tokensInCluster),
         NEW t \in Tokens, NEW h \in Hosts, insert_token(t, h)
  PROVE  tokensInCluster' \in Seq(Entry) /\ Sorted(tokensInCluster')
<1> DEFINE s == tokensInCluster
           k == UpTo(t)
           e == [token |-> t, host |-> h]
           a == SubSeq(s, 1, k)
           b == SubSeq(s, k + 1, N)
<1>0. N \in Nat /\ N = Len(s) /\ \A i \in 1..N : s[i] \in Entry
  BY DEF N
<1>1. k \in 0..N /\ \A i \in 1..N : s[i].token <= t <=> i <= k
  BY UpToPlace DEF Token
<1>2. e \in Entry
  BY DEF Entry
<1>3. tokensInCluster' = a \o <<e>> \o b
  BY DEF insert_token, N
<1>4. \A i \in 1..N : s[i].token # t
  BY <1>0 DEF insert_token
<1>5. /\ \A i \in 1..N : s[i].token \in Int
      /\ \A i, j \in 1..N : i < j => s[i].token < s[j].token
      /\ t \in Int /\ e.token = t
  <2>1. \A i \in 1..N : s[i].token \in Int
    BY <1>0, TokenInt
  <2>2. \A i, j \in 1..N : i < j => s[i].token < s[j].token
    BY <1>0 DEF Sorted
  <2> QED
    BY <2>1, <2>2, TokenInt
<1>6. a \in Seq(Entry) /\ Len(a) = k /\ \A i \in 1..k : a[i] = s[i]
  <2> HIDE DEF k, s
  <2>1. \A i \in 1..k : s[i] \in Entry
    BY <1>0, <1>1
  <2> QED
    BY <1>1, <2>1, SubSeqProperties
<1>7. b \in Seq(Entry) /\ Len(b) = N - k /\ \A i \in 1..(N - k) : b[i] = s[k + i]
  <2> HIDE DEF k, s
  <2>1. \A i \in (k + 1)..N : s[i] \in Entry
    BY <1>0, <1>1
  <2> QED
    BY <1>0, <1>1, <2>1, SubSeqProperties
<1> HIDE DEF k, s, e, a, b
<1> DEFINE c == a \o <<e>>
           r == c \o b
<1>8. c \in Seq(Entry) /\ Len(c) = k + 1 /\ \A i \in 1..(k + 1) : c[i] = IF i <= k THEN s[i] ELSE e
  <2>1. <<e>> \in Seq(Entry) /\ Len(<<e>>) = 1 /\ <<e>>[1] = e
    BY <1>2
  <2> QED
    BY <1>1, <1>6, <2>1, ConcatProperties
<1> HIDE DEF c
<1>9. r \in Seq(Entry) /\ Len(r) = N + 1
      /\ \A i \in 1..(N + 1) : r[i] = IF i <= k + 1 THEN c[i] ELSE b[i - (k + 1)]
  <2>1. Len(c) + Len(b) = N + 1
    BY <1>0, <1>1, <1>7, <1>8
  <2>2. /\ c \o b \in Seq(Entry) /\ Len(c \o b) = Len(c) + Len(b)
        /\ \A i \in 1..(Len(c) + Len(b)) :
             (c \o b)[i] = IF i <= Len(c) THEN c[i] ELSE b[i - Len(c)]
    <3>1. c \in Seq(Entry) /\ b \in Seq(Entry)
      BY <1>7, <1>8
    <3> QED
      BY <3>1, ConcatProperties
  <2> QED
    BY <1>8, <2>1, <2>2
<1> HIDE DEF r
<1>10. \A i \in 1..(N + 1) : r[i] = IF i <= k THEN s[i] ELSE IF i = k + 1 THEN e ELSE s[i - 1]
  <2> SUFFICES ASSUME NEW i \in 1..(N + 1)
               PROVE  r[i] = IF i <= k THEN s[i] ELSE IF i = k + 1 THEN e ELSE s[i - 1]
    OBVIOUS
  <2>1. CASE i <= k + 1
    BY <2>1, <1>0, <1>1, <1>8, <1>9
  <2>2. CASE i > k + 1
    <3>1. i - (k + 1) \in 1..(N - k) /\ k + (i - (k + 1)) = i - 1
      BY <2>2, <1>0, <1>1
    <3>2. r[i] = b[i - (k + 1)]
      BY <2>2, <1>0, <1>1, <1>9
    <3>3. b[i - (k + 1)] = s[k + (i - (k + 1))]
      BY <3>1, <1>7
    <3> QED
      BY <2>2, <3>1, <3>2, <3>3, <1>0, <1>1
  <2> QED
    BY <2>1, <2>2, <1>1, <1>0
<1>11. ASSUME NEW i \in 1..(N + 1), NEW j \in 1..(N + 1), i < j
       PROVE  r[i].token < r[j].token
  <2>1. CASE j <= k
    BY <2>1, <1>0, <1>1, <1>5, <1>10, <1>11
  <2>2. CASE j = k + 1
    <3>1. r[j] = e /\ i \in 1..N /\ i <= k /\ r[i] = s[i]
      BY <2>2, <1>0, <1>1, <1>10, <1>11
    <3>2. s[i].token <= t /\ s[i].token # t
      BY <3>1, <1>1, <1>4
    <3> QED
      BY <3>1, <3>2, <1>5
  <2>3. CASE j > k + 1
    <3>1. r[j] = s[j - 1] /\ j - 1 \in 1..N /\ ~ (j - 1 <= k)
      BY <2>3, <1>0, <1>1, <1>10
    <3>2. CASE i <= k
      <4>1. r[i] = s[i] /\ i \in 1..N /\ i < j - 1
        BY <3>2, <2>3, <1>0, <1>1, <1>10
      <4> QED
        BY <4>1, <3>1, <1>5
    <3>3. CASE i = k + 1
      <4>1. r[i] = e /\ ~ (s[j - 1].token <= t)
        BY <3>1, <3>3, <1>1, <1>10
      <4> QED
        BY <4>1, <3>1, <1>5
    <3>4. CASE i > k + 1
      <4>1. r[i] = s[i - 1] /\ i - 1 \in 1..N /\ i - 1 < j - 1
        BY <3>4, <1>0, <1>1, <1>10, <1>11
      <4> QED
        BY <4>1, <3>1, <1>5
    <3> QED
      BY <3>2, <3>3, <3>4, <1>0, <1>1
  <2> QED
    BY <2>1, <2>2, <2>3, <1>0, <1>1
<1>12. tokensInCluster' = r
  BY <1>3 DEF r, c
<1> QED
  BY <1>9, <1>11, <1>12 DEF Sorted

-----------------------------------------------------------------------------
(* Ranges over ascending tokens. *)

\* What the ranges over n tokens are: one that ends at the first token unless that is the
\* least one, one between each token and the next, and the last one up to the greatest.
RangesShape(T, n, r, d) ==
  /\ d \in {0, 1}
  /\ d = 0 <=> T[1] = MinToken
  /\ Len(r) = d + n /\ DOMAIN r = 1..(d + n)
  /\ d = 1 => r[1] = <<MinToken, T[1]>>
  /\ \A i \in 1..(n - 1) : r[d + i] = <<T[i], T[i + 1]>>
  /\ r[d + n] = <<T[n], MaxToken>>

LEMMA ShapeOfRanges ==
  ASSUME NEW T, NEW n \in Nat \ {0}, Ascending(T, n)
  PROVE  \E d : RangesShape(T, n, RangesOver(T, n), d)
<1> DEFINE head == Unless(T[1] = MinToken, <<MinToken, T[1]>>)
           mid == [i \in 1..(n - 1) |-> <<T[i], T[i + 1]>>]
           last == <<<<T[n], MaxToken>>>>
           d == IF T[1] = MinToken THEN 0 ELSE 1
           P == Int \X Int
<1>0. \A i \in 1..n : T[i] \in Int
  BY TokenInt DEF Ascending
<1>1. head \in Seq(P) /\ Len(head) = d /\ (d = 1 => head[1] = <<MinToken, T[1]>>)
  <2>1. <<MinToken, T[1]>> \in P
    BY <1>0
  <2>2. CASE T[1] = MinToken
    BY <2>2 DEF Unless
  <2>3. CASE T[1] # MinToken
    BY <2>1, <2>3 DEF Unless
  <2> QED
    BY <2>2, <2>3
<1>2. mid \in Seq(P) /\ Len(mid) = n - 1
  <2>1. \A i \in 1..(n - 1) : <<T[i], T[i + 1]>> \in P
    BY <1>0
  <2>2. mid \in [1..(n - 1) -> P]
    BY <2>1
  <2>3. n - 1 \in Nat
    OBVIOUS
  <2> HIDE DEF mid, P
  <2> QED
    BY <2>2, <2>3, LenProperties
<1>3. \A i \in 1..(n - 1) : mid[i] = <<T[i], T[i + 1]>>
  OBVIOUS
<1>4. last \in Seq(P) /\ Len(last) = 1 /\ last[1] = <<T[n], MaxToken>>
  BY <1>0
<1>5. d \in {0, 1} /\ (d = 0 <=> T[1] = MinToken)
  OBVIOUS
<1>6. RangesOver(T, n) = head \o mid \o last
  BY DEF RangesOver
<1> HIDE DEF head, mid, last, d, P
<1> DEFINE hm == head \o mid
<1>7. /\ hm \in Seq(P) /\ Len(hm) = d + (n - 1)
      /\ \A i \in 1..(d + (n - 1)) : hm[i] = IF i <= d THEN head[i] ELSE mid[i - d]
  <2>1. /\ hm \in Seq(P) /\ Len(hm) = Len(head) + Len(mid)
        /\ \A i \in 1..(Len(head) + Len(mid)) :
             hm[i] = IF i <= Len(head) THEN head[i] ELSE mid[i - Len(head)]
    BY <1>1, <1>2, ConcatProperties, Zenon
  <2> HIDE DEF hm
  <2> QED BY <1>1, <1>2, <2>1
<1> HIDE DEF hm
<1> DEFINE r == hm \o last
<1>8. /\ r \in Seq(P) /\ Len(r) = d + n
      /\ \A i \in 1..(d + n) : r[i] = IF i <= d + (n - 1) THEN hm[i] ELSE last[i - (d + (n - 1))]
  <2>1. Len(hm) + Len(last) = d + n
    BY <1>4, <1>5, <1>7
  <2>2. /\ hm \o last \in Seq(P) /\ Len(hm \o last) = Len(hm) + Len(last)
        /\ \A i \in 1..(Len(hm) + Len(last)) :
             (hm \o last)[i] = IF i <= Len(hm) THEN hm[i] ELSE last[i - Len(hm)]
    BY <1>4, <1>7, ConcatProperties
  <2> QED
    BY <1>7, <2>1, <2>2
<1> HIDE DEF r
<1>9. d = 1 => r[1] = <<MinToken, T[1]>>
  <2>1. SUFFICES ASSUME d = 1 PROVE r[1] = <<MinToken, T[1]>>
    OBVIOUS
  <2>2. r[1] = hm[1] /\ hm[1] = head[1]
    BY <2>1, <1>7, <1>8
  <2> QED
    BY <2>1, <2>2, <1>1
<1>10. ASSUME NEW i \in 1..(n - 1)
       PROVE  r[d + i] = <<T[i], T[i + 1]>>
  <2>1. d + i \in 1..(d + n) /\ d + i <= d + (n - 1) /\ ~ (d + i <= d) /\ (d + i) - d = i
    BY <1>5
  <2>2. r[d + i] = hm[d + i]
    BY <2>1, <1>8
  <2>3. d + i \in 1..(d + (n - 1))
    BY <1>5
  <2>4. hm[d + i] = mid[i]
    BY <2>1, <2>3, <1>7
  <2> QED
    BY <2>2, <2>4, <1>3
<1>11. r[d + n] = <<T[n], MaxToken>>
  <2>1. d + n \in 1..(d + n) /\ ~ (d + n <= d + (n - 1)) /\ (d + n) - (d + (n - 1)) = 1
    BY <1>5
  <2>2. r[d + n] = last[1]
    BY <2>1, <1>8
  <2> QED
    BY <2>2, <1>4
<1>12. DOMAIN r = 1..(d + n)
  BY <1>8
<1>13. RangesShape(T, n, r, d)
  BY <1>5, <1>8, <1>9, <1>10, <1>11, <1>12 DEF RangesShape
<1> QED
  BY <1>6, <1>13 DEF r, hm

\* Every token is in just one of the ranges.
Once(r) ==
  \A t \in MinToken..(MaxToken - 1) :
    \E m \in DOMAIN r : \A i \in DOMAIN r : Within(t, r[i]) <=> i = m

LEMMA OnceCovers ==
  ASSUME NEW r, Once(r)
  PROVE  CoverOnce(r)
<1> SUFFICES ASSUME NEW t \in MinToken..(MaxToken - 1)
             PROVE  Cardinality({i \in DOMAIN r : Within(t, r[i])}) = 1
  BY DEF CoverOnce
<1>1. PICK m \in DOMAIN r : \A i \in DOMAIN r : Within(t, r[i]) <=> i = m
  BY DEF Once
<1>2. {i \in DOMAIN r : Within(t, r[i])} = {m}
  BY <1>1
<1> QED
  BY <1>2, FS_Singleton

\* The ranges over ascending tokens cover every token once.
LEMMA RangesOnce ==
  ASSUME NEW T, NEW n \in Nat \ {0}, Ascending(T, n)
  PROVE  Once(RangesOver(T, n))
<1> DEFINE r == RangesOver(T, n)
<1>1. PICK d : RangesShape(T, n, r, d)
  BY ShapeOfRanges
<1> HIDE DEF r
<1> SUFFICES ASSUME NEW t \in MinToken..(MaxToken - 1)
             PROVE  \E m \in DOMAIN r : \A i \in DOMAIN r : Within(t, r[i]) <=> i = m
  BY DEF Once, r
<1>2. /\ \A i \in 1..n : T[i] \in Int /\ MinToken <= T[i]
      /\ \A i, j \in 1..n : i < j => T[i] < T[j]
  BY DEF Ascending, Tokens
<1>3. t \in Int /\ MinToken <= t /\ t < MaxToken
  OBVIOUS
<1>4. PICK k \in 0..n : \A i \in 1..n : T[i] <= t <=> i <= k
  BY <1>2, <1>3, PrefixUpTo
<1>5. d \in {0, 1} /\ DOMAIN r = 1..(d + n)
  BY <1>1 DEF RangesShape
<1>6. \A i \in 1..n : Within(t, r[d + i]) <=> i = k
  <2> SUFFICES ASSUME NEW i \in 1..n
               PROVE  Within(t, r[d + i]) <=> i = k
    OBVIOUS
  <2>1. CASE i < n
    <3>0. i \in 1..(n - 1) /\ i + 1 \in 1..n
      BY <2>1
    <3>1. r[d + i] = <<T[i], T[i + 1]>> /\ i + 1 \in 1..n
      BY <3>0, <1>1 DEF RangesShape
    <3>2. Within(t, r[d + i]) <=> T[i] <= t /\ t < T[i + 1]
      BY <3>1 DEF Within
    <3>3. t < T[i + 1] <=> ~ (T[i + 1] <= t)
      BY <3>1, <1>2, <1>3
    <3> QED
      BY <3>1, <3>2, <3>3, <1>4
  <2>2. CASE i = n
    <3>1. r[d + i] = <<T[n], MaxToken>>
      BY <2>2, <1>1 DEF RangesShape
    <3>2. Within(t, r[d + i]) <=> T[n] <= t
      BY <3>1, <1>3 DEF Within
    <3> QED
      BY <2>2, <3>2, <1>4
  <2> QED
    BY <2>1, <2>2
<1>7. d = 1 => (Within(t, r[1]) <=> k = 0)
  <2>1. SUFFICES ASSUME d = 1 PROVE Within(t, r[1]) <=> k = 0
    OBVIOUS
  <2>2. r[1] = <<MinToken, T[1]>>
    BY <2>1, <1>1 DEF RangesShape
  <2>3. Within(t, r[1]) <=> ~ (T[1] <= t)
    BY <2>2, <1>2, <1>3 DEF Within
  <2> QED
    BY <2>3, <1>4
<1>8. k = 0 => d = 1
  <2>1. SUFFICES ASSUME k = 0, d = 0 PROVE FALSE
    BY <1>5
  <2>2. T[1] = MinToken
    BY <2>1, <1>1 DEF RangesShape
  <2> QED
    BY <2>1, <2>2, <1>3, <1>4
<1> DEFINE m == IF k = 0 THEN 1 ELSE d + k
<1>9. m \in DOMAIN r
  BY <1>4, <1>5
<1>10. ASSUME NEW i \in DOMAIN r
       PROVE  Within(t, r[i]) <=> i = m
  <2>1. CASE d = 1 /\ i = 1
    BY <2>1, <1>4, <1>7
  <2>2. CASE ~ (d = 1 /\ i = 1)
    <3>1. i - d \in 1..n /\ d + (i - d) = i
      BY <2>2, <1>5
    <3>2. Within(t, r[i]) <=> i - d = k
      BY <3>1, <1>6
    <3> QED
      BY <3>1, <3>2, <1>4, <1>5, <1>8, <2>2
  <2> QED
    BY <2>1, <2>2
<1> HIDE DEF m
<1> QED
  BY <1>9, <1>10

LEMMA RangesCover ==
  ASSUME NEW T, NEW n \in Nat \ {0}, Ascending(T, n)
  PROVE  CoverOnce(RangesOver(T, n))
BY RangesOnce, OnceCovers

-----------------------------------------------------------------------------
(* The invariant. *)

LEMMA RingAscends ==
  ASSUME tokensInCluster \in Seq(Entry), Sorted(tokensInCluster)
  PROVE  /\ N \in Nat
         /\ \A n \in 0..N : Ascending(RingTokens, n)
         /\ \A i \in 1..N : RingTokens[i] = Token(i) /\ Token(i) \in Tokens
<1>1. N \in Nat /\ \A i \in 1..N : tokensInCluster[i] \in Entry
  BY DEF N
<1>2. \A i \in 1..N : RingTokens[i] = Token(i) /\ Token(i) \in Tokens
  BY <1>1, TokenInt DEF RingTokens, Token
<1>3. \A i, j \in 1..N : i < j => Token(i) < Token(j)
  BY DEF Sorted, Token, N
<1> QED
  BY <1>1, <1>2, <1>3 DEF Ascending

\* On more than two tokens, generate_token_ranges makes the ranges over all but the last:
\* the last token it visits is less than the greatest token, so the last range is there.
LEMMA GenerateRanges ==
  ASSUME RingInv, generate_token_ranges, N > 2
  PROVE  token_ranges' = RangesOver(RingTokens, N - 1)
<1>0. tokensInCluster \in Seq(Entry) /\ Sorted(tokensInCluster)
  BY DEF RingInv
<1>1. N \in Nat /\ \A i \in 1..N : RingTokens[i] = Token(i) /\ Token(i) \in Tokens
  BY <1>0, RingAscends
<1>2. Token(N - 1) # MaxToken
  <2>1. Token(N - 1) < Token(N)
    BY <1>0, <1>1 DEF Sorted, Token, N
  <2>2. Token(N) \in Tokens /\ Token(N - 1) \in Tokens
    BY <1>1
  <2> QED
    BY <2>1, <2>2 DEF Tokens
<1>3. token_ranges' = Unless(Token(1) = MinToken, <<MinToken, Token(1)>>)
                        \o [i \in 1..(N - 2) |-> <<Token(i), Token(i + 1)>>]
                        \o Unless(Token(N - 1) = MaxToken, <<Token(N - 1), MaxToken>>)
  BY DEF generate_token_ranges
<1>4. Unless(Token(N - 1) = MaxToken, <<Token(N - 1), MaxToken>>) = <<<<Token(N - 1), MaxToken>>>>
  BY <1>2 DEF Unless
<1>5. RingTokens[1] = Token(1) /\ RingTokens[N - 1] = Token(N - 1)
  BY <1>1
<1>6. [i \in 1..(N - 2) |-> <<Token(i), Token(i + 1)>>]
        = [i \in 1..((N - 1) - 1) |-> <<RingTokens[i], RingTokens[i + 1]>>]
  <2>1. (N - 1) - 1 = N - 2
    BY <1>1
  <2>2. \A i \in 1..(N - 2) : Token(i) = RingTokens[i] /\ Token(i + 1) = RingTokens[i + 1]
    BY <1>1
  <2> QED
    BY <2>1, <2>2
<1> QED
  BY <1>3, <1>4, <1>5, <1>6 DEF RangesOver

LEMMA RingInit == Init => RingInv
BY DEF Init, RingInv, Sorted, N

LEMMA RingStep == RingInv /\ [Next]_vars => RingInv'
<1> SUFFICES ASSUME RingInv, [Next]_vars PROVE RingInv'
  OBVIOUS
<1>1. ASSUME NEW t \in Tokens, NEW h \in Hosts, insert_token(t, h)
      PROVE  RingInv'
  <2>1. tokensInCluster' \in Seq(Entry) /\ Sorted(tokensInCluster')
    BY <1>1, InsertInOrder DEF RingInv
  <2>2. phase' = "collect"
    BY <1>1 DEF insert_token
  <2> QED
    BY <2>1, <2>2 DEF RingInv
<1>2. CASE generate_token_ranges
  <2>1. tokensInCluster' = tokensInCluster /\ N > 0
    BY <1>2 DEF generate_token_ranges
  <2>2. N' = N /\ RingTokens' = RingTokens
    BY <2>1 DEF N, RingTokens, Token
  <2>3. N > 2 => token_ranges' = RangesOver(RingTokens, N - 1)
    BY <1>2, GenerateRanges
  <2> QED
    BY <2>1, <2>2, <2>3 DEF RingInv, RangesOver
<1>3. ASSUME UNCHANGED <<tokensInCluster, token_ranges>>,
             phase' = phase \/ phase = "ready"
      PROVE  RingInv'
  <2>1. N' = N /\ RingTokens' = RingTokens
    BY <1>3 DEF N, RingTokens, Token
  <2> QED
    BY <1>3, <2>1 DEF RingInv, RangesOver
<1>4. ASSUME NEW splits \in SplitsPerNode, NEW step \in 1..MaxToken,
             tokens_partitions(splits, step)
      PROVE  RingInv'
  <2>1. UNCHANGED <<tokensInCluster, token_ranges>> /\ phase = "ready"
    BY <1>4 DEF tokens_partitions
  <2> QED
    BY <1>3, <2>1
<1>5. CASE done \/ UNCHANGED vars
  BY <1>3, <1>5 DEF done, vars
<1> QED
  BY <1>1, <1>2, <1>4, <1>5 DEF Next

LEMMA RingInvariant == Spec => []RingInv
BY RingInit, RingStep, PTL DEF Spec

-----------------------------------------------------------------------------
(* The theorems. *)

\* In an ordered ring i tokens are not greater than the i-th one.
LEMMA RankOf ==
  ASSUME RingInv, NEW i \in 1..N
  PROVE  Cardinality({u \in {RingTokens[k] : k \in 1..N} : u <= RingTokens[i]}) = i
<1> DEFINE S == {RingTokens[k] : k \in 1..N}
           below == {u \in S : u <= RingTokens[i]}
           f == [k \in 1..i |-> RingTokens[k]]
<1>1. N \in Nat /\ Ascending(RingTokens, N) /\ i \in Nat /\ i <= N
  BY RingAscends DEF RingInv
<1>2. ASSUME NEW j \in 1..N PROVE RingTokens[j] \in Int
  BY <1>1 DEF Ascending, Tokens
<1>3. ASSUME NEW j \in 1..N, NEW k \in 1..N PROVE j < k => RingTokens[j] < RingTokens[k]
  BY <1>1 DEF Ascending
<1> HIDE DEF RingTokens
<1>4. \A j \in 1..N : RingTokens[j] <= RingTokens[i] <=> j <= i
  <2>1. ASSUME NEW j \in 1..N PROVE RingTokens[j] <= RingTokens[i] <=> j <= i
    <3>1. j \in Int /\ i \in Int /\ RingTokens[j] \in Int /\ RingTokens[i] \in Int
      BY <1>1, <1>2
    <3>2. (j < i => RingTokens[j] < RingTokens[i]) /\ (i < j => RingTokens[i] < RingTokens[j])
      BY <1>3
    <3>3. j = i => RingTokens[j] = RingTokens[i]
      OBVIOUS
    <3> QED BY <3>1, <3>2, <3>3
  <2> QED BY <2>1
<1>5. \A k \in 1..i : k \in 1..N /\ f[k] = RingTokens[k] /\ f[k] \in below
  BY <1>1, <1>4
<1>6. \A t \in below : \E k \in 1..i : f[k] = t
  <2>1. ASSUME NEW t \in below PROVE \E k \in 1..i : f[k] = t
    <3>1. PICK k \in 1..N : t = RingTokens[k]
      OBVIOUS
    <3>2. k \in 1..i
      BY <1>1, <1>4, <3>1
    <3> QED BY <3>1, <3>2
  <2> QED BY <2>1
<1>7. \A k, l \in 1..i : f[k] = f[l] => k = l
  <2>1. ASSUME NEW k \in 1..i, NEW l \in 1..i, f[k] = f[l] PROVE k = l
    <3>1. k \in 1..N /\ l \in 1..N /\ k \in Int /\ l \in Int /\ RingTokens[k] = RingTokens[l]
      BY <1>5, <2>1
    <3>2. (k < l => RingTokens[k] < RingTokens[l]) /\ (l < k => RingTokens[l] < RingTokens[k])
      BY <1>3, <3>1
    <3>3. RingTokens[k] \in Int
      BY <1>2, <3>1
    <3> QED BY <3>1, <3>2, <3>3
  <2> QED BY <2>1
<1>8. f \in [1..i -> below]
  BY <1>5
<1> HIDE DEF f, below
<1>9. f \in Bijection(1..i, below)
  BY <1>6, <1>7, <1>8 DEF Bijection, Injection, IsInjective, Surjection
<1>10. IsFiniteSet(1..i) /\ Cardinality(1..i) = i
  BY <1>1, FS_Interval
<1>11. Cardinality(below) = Cardinality(1..i)
  BY <1>9, <1>10, FS_Bijection DEF ExistsBijection
<1> QED
  BY <1>10, <1>11 DEF below

\* tokens.sort() puts the tokens of the ring in the order of the ring.
LEMMA SortRing ==
  ASSUME RingInv, NEW tokens \in Orders
  PROVE  sort(tokens) = RingTokens /\ Len(tokens) = N
<1> DEFINE S == {RingTokens[k] : k \in 1..N}
<1>1. N \in Nat /\ \A i \in 1..N : RingTokens[i] = Token(i)
  BY RingAscends DEF RingInv
<1>2. /\ DOMAIN tokens = 1..N
      /\ \A k \in 1..N : \E j \in 1..N : tokens[k] = Token(j)
      /\ \A i \in 1..N : \E j \in 1..N : tokens[j] = Token(i)
  BY DEF Orders
<1>3. {tokens[k] : k \in DOMAIN tokens} = S
  <2>1. ASSUME NEW k \in DOMAIN tokens PROVE tokens[k] \in S
    <3>1. PICK j \in 1..N : tokens[k] = Token(j)
      BY <1>2
    <3> QED BY <1>1, <3>1
  <2>2. ASSUME NEW i \in 1..N PROVE RingTokens[i] \in {tokens[k] : k \in DOMAIN tokens}
    <3>1. PICK j \in 1..N : tokens[j] = Token(i)
      BY <1>2
    <3> QED BY <1>1, <1>2, <3>1
  <2> QED BY <2>1, <2>2
<1>4. Len(tokens) = N
  <2>1. tokens \in [1..N -> {Token(k) : k \in 1..N}]
    BY DEF Orders
  <2>2. tokens \in Seq({Token(k) : k \in 1..N})
    <3> DEFINE T == {Token(k) : k \in 1..N}
    <3>1. tokens \in [1..N -> T] /\ N \in Nat
      BY <1>1, <2>1
    <3> HIDE DEF T
    <3>2. tokens \in UNION {[1..n -> T] : n \in Nat}
      BY <3>1
    <3> QED BY <3>2, SeqDef DEF T
  <2> QED BY <1>1, <1>2, <2>2, LenProperties
<1>5. \A i \in 1..N : RingTokens[i] \in S /\ Cardinality({u \in S : u <= RingTokens[i]}) = i
  BY RankOf
<1>6. \A t \in S : \E j \in 1..N : t = RingTokens[j]
  OBVIOUS
<1> HIDE DEF S
<1>7. ASSUME NEW i \in 1..N
      PROVE  (CHOOSE t \in S : Cardinality({u \in S : u <= t}) = i) = RingTokens[i]
  <2> DEFINE c == CHOOSE t \in S : Cardinality({u \in S : u <= t}) = i
  <2>1. c \in S /\ Cardinality({u \in S : u <= c}) = i
    BY <1>5
  <2> HIDE DEF c
  <2>2. PICK j \in 1..N : c = RingTokens[j]
    BY <1>6, <2>1
  <2>3. j = i
    BY <1>5, <2>1, <2>2
  <2> QED BY <2>2, <2>3 DEF c
<1>8. sort(tokens) = [i \in 1..N |-> CHOOSE t \in S : Cardinality({u \in S : u <= t}) = i]
  <2>1. sort(tokens) = [i \in DOMAIN tokens |->
           CHOOSE t \in {tokens[k] : k \in DOMAIN tokens} :
             Cardinality({u \in {tokens[k] : k \in DOMAIN tokens} : u <= t}) = i]
    BY DEF sort
  <2> QED BY <1>2, <1>3, <2>1
<1>9. sort(tokens) = [i \in 1..N |-> RingTokens[i]]
  BY <1>7, <1>8
<1> QED
  BY <1>1, <1>4, <1>9 DEF RingTokens

\* discrete_token_ranges makes the ranges over all tokens.
LEMMA DiscreteRanges ==
  ASSUME RingInv, phase # "collect"
  PROVE  /\ N \in Nat \ {0} /\ Ascending(RingTokens, N)
         /\ \A tokens \in Orders : discrete_token_ranges(tokens) = RangesOver(RingTokens, N)
         /\ generate_token_ring_ranges = RangesOver(RingTokens, N)
<1>1. /\ N \in Nat /\ Ascending(RingTokens, N)
      /\ \A i \in 1..N : RingTokens[i] = Token(i)
  BY RingAscends DEF RingInv
<1>2. N \in Nat \ {0}
  BY <1>1 DEF RingInv
<1>3. ASSUME NEW tokens \in Orders PROVE discrete_token_ranges(tokens) = RangesOver(RingTokens, N)
  <2>1. sort(tokens) = RingTokens /\ Len(tokens) = N /\ N # 0
    BY <1>2, SortRing
  <2> QED
    BY <2>1 DEF discrete_token_ranges, RangesOver
<1>4. RingTokens \in Orders
  BY <1>1 DEF Orders, RingTokens
<1> QED
  BY <1>1, <1>2, <1>3, <1>4 DEF generate_token_ring_ranges

LEMMA DiscreteCovers == RingInv => DiscreteRangesCover
BY DiscreteRanges, RangesCover DEF DiscreteRangesCover

LEMMA CppCovers == RingInv => CppRangesCover
<1> SUFFICES ASSUME RingInv, phase # "collect", N > 2 PROVE CoverOnce(token_ranges)
  BY DEF CppRangesCover
<1>1. N \in Nat /\ \A n \in 0..N : Ascending(RingTokens, n)
  BY RingAscends DEF RingInv
<1>2. N - 1 \in Nat \ {0} /\ Ascending(RingTokens, N - 1)
  BY <1>1
<1>3. token_ranges = RangesOver(RingTokens, N - 1)
  BY DEF RingInv
<1> QED
  BY <1>2, <1>3, RangesCover

LEMMA HostOwns == RingInv => HostOwnsToken
<1> SUFFICES ASSUME RingInv, phase # "collect", NEW t \in MinToken..Token(N)
             PROVE  get_host_per_token(t) = Owner(t)
  BY DEF HostOwnsToken
<1>1. N \in Nat /\ N > 0 /\ \A i \in 1..N : Token(i) \in Int
  BY RingAscends, TokenInt DEF RingInv
<1> DEFINE C == {i \in 1..(N - 1) : Token(i) >= t}
           D == {i \in 1..N : Token(i) >= t}
           First(S) == CHOOSE i \in S : \A j \in S : i <= j
<1>2. C \in SUBSET Nat /\ D \in SUBSET Nat
  BY <1>1
<1>3. N \in D /\ D = C \cup {N} /\ t \in Int /\ \A i \in C : i < N
  BY <1>1
<1>4. (IF C = {} THEN N ELSE First(C)) = (IF D = {} THEN 1 ELSE First(D))
  <2>1. D # {}
    BY <1>3
  <2> HIDE DEF C, D
  <2>2. First(D) \in D /\ \A j \in D : First(D) <= j
    BY <1>2, <2>1, FirstOf
  <2>3. CASE C = {}
    <3>1. D = {N}
      BY <1>3, <2>3
    <3> QED
      BY <2>1, <2>2, <2>3, <3>1
  <2>4. CASE C # {}
    <3>1. First(C) \in C /\ \A j \in C : First(C) <= j
      BY <1>2, <2>4, FirstOf
    <3>2. ASSUME NEW c \in C, \A j \in C : c <= j, NEW d \in D, \A j \in D : d <= j
          PROVE  c = d
      <4>1. c \in D /\ c \in Nat /\ d \in Nat /\ c < N
        BY <1>2, <1>3
      <4>2. d <= c
        BY <4>1, <3>2
      <4>3. d # N
        BY <1>1, <4>1, <4>2
      <4>4. c <= d
        BY <1>3, <3>2, <4>3
      <4> QED
        BY <4>1, <4>2, <4>4
    <3> HIDE DEF First
    <3>3. First(C) = First(D)
      BY <2>2, <3>1, <3>2
    <3> QED
      BY <2>1, <2>4, <3>3
  <2> QED
    BY <2>3, <2>4
<1> QED
  BY <1>4 DEF get_host_per_token, Owner

\* The iteration of tools.py over the whole ring reads every row exactly once: for any
\* number of nodes and tokens, collected in any order, discrete_token_ranges covers every
\* token below LONG_MAX by exactly one range.
THEOREM DiscreteRangesTheorem == Spec => []DiscreteRangesCover
BY RingInvariant, DiscreteCovers, PTL

\* generate_token_ranges stops before the last token of the ring, yet on every ring of
\* more than two tokens its ranges cover every token below LONG_MAX exactly once: the last
\* token visited is never LONG_MAX, so the closing range is always there.
THEOREM CppRangesTheorem == Spec => []CppRangesCover
BY RingInvariant, CppCovers, PTL

\* get_host_per_token, whose loop leaves out the last token, names the node that stores a
\* token, for every token up to the last one of the ring.
THEOREM HostTheorem == Spec => []HostOwnsToken
BY RingInvariant, HostOwns, PTL

-----------------------------------------------------------------------------
(* The pieces of a range.  Recursion over the tokens is unfolded with a    *)
(* least counterexample, counted from the greatest token.                  *)

Pair == Tokens \X Tokens

\* The tokens that are at most n below the greatest one.
Upper(n) == {a \in Tokens : a >= MaxToken - n}

\* One turn of the loop that cuts a range that ends at b.
CutBody(f, a, b, step) ==
  IF a < b - step THEN <<<<a, a + step>>>> \o f[a + step] ELSE <<<<a, b>>>>

CutFcn(b, step) == CHOOSE f : f = [a \in Tokens |-> CutBody(f, a, b, step)]

LEMMA CutBodyType ==
  ASSUME NEW b \in Tokens, NEW step \in Nat \ {0}, NEW a \in Tokens, NEW f,
         a < b - step => f[a + step] \in Seq(Pair)
  PROVE  CutBody(f, a, b, step) \in Seq(Pair)
<1>1. CASE a < b - step
  <2>1. a + step \in Tokens
    BY <1>1 DEF Tokens
  <2>2. <<<<a, a + step>>>> \in Seq(Pair)
    BY <2>1 DEF Pair
  <2>3. f[a + step] \in Seq(Pair)
    BY <1>1
  <2>4. <<<<a, a + step>>>> \o f[a + step] \in Seq(Pair)
    BY <2>2, <2>3, ConcatProperties
  <2> QED
    BY <1>1, <2>4 DEF CutBody
<1>2. CASE ~ (a < b - step)
  <2>1. <<<<a, b>>>> \in Seq(Pair)
    BY DEF Pair
  <2> QED
    BY <1>2, <2>1 DEF CutBody
<1> QED
  BY <1>1, <1>2

\* The loop has a result from each of the upper n tokens on.
LEMMA CutUpper ==
  ASSUME NEW b \in Tokens, NEW step \in Nat \ {0}, NEW n \in Nat
  PROVE  \E f \in [Upper(n) -> Seq(Pair)] : \A a \in Upper(n) : f[a] = CutBody(f, a, b, step)
<1> DEFINE Has(k) == \E f \in [Upper(k) -> Seq(Pair)] :
                       \A a \in Upper(k) : f[a] = CutBody(f, a, b, step)
           Bad == {k \in Nat : ~ Has(k)}
<1>0. \A x \in Tokens : x \in Int /\ x <= MaxToken
  BY DEF Tokens
<1> SUFFICES ASSUME Bad # {} PROVE FALSE
  OBVIOUS
<1>1. PICK m \in Bad : \A k \in Bad : m <= k
  BY Least
<1>2. m # 0
  <2>1. SUFFICES Has(0)
    BY <1>1
  <2>2. \A a \in Upper(0) : ~ (a < b - step)
    BY <1>0 DEF Upper
  <2> DEFINE f == [a \in Upper(0) |-> <<<<a, b>>>>]
  <2>3. f \in [Upper(0) -> Seq(Pair)]
    BY DEF Upper, Pair
  <2>4. \A a \in Upper(0) : f[a] = CutBody(f, a, b, step)
    BY <2>2 DEF CutBody
  <2> QED
    BY <2>3, <2>4
<1>3. Has(m - 1) /\ m \in Nat \ {0}
  <2> HIDE DEF Has
  <2>1. m \in Nat \ {0}
    BY <1>1, <1>2
  <2>2. m - 1 \in Nat /\ ~ (m <= m - 1)
    BY <2>1
  <2>3. m - 1 \notin Bad
    BY <1>1, <2>2
  <2> QED
    BY <2>1, <2>2, <2>3
<1>4. PICK f \in [Upper(m - 1) -> Seq(Pair)] :
        \A a \in Upper(m - 1) : f[a] = CutBody(f, a, b, step)
  BY <1>3
<1> DEFINE h == [a \in Upper(m) |-> CutBody(f, a, b, step)]
<1>5. \A a \in Upper(m) : a \in Tokens /\ (a < b - step => a + step \in Upper(m - 1))
  BY <1>0, <1>3 DEF Upper, Tokens
<1>6. \A a \in Upper(m) : CutBody(f, a, b, step) \in Seq(Pair)
  BY <1>4, <1>5, CutBodyType
<1>7. h \in [Upper(m) -> Seq(Pair)]
  BY <1>6
<1>8. Upper(m - 1) \subseteq Upper(m)
  BY <1>0, <1>3 DEF Upper
<1>9. \A a \in Upper(m - 1) : h[a] = f[a]
  BY <1>4, <1>8
<1>10. \A a \in Upper(m) : h[a] = CutBody(h, a, b, step)
  <2> SUFFICES ASSUME NEW a \in Upper(m) PROVE h[a] = CutBody(h, a, b, step)
    OBVIOUS
  <2>1. h[a] = CutBody(f, a, b, step)
    OBVIOUS
  <2>2. a < b - step => h[a + step] = f[a + step]
    BY <1>5, <1>9
  <2> HIDE DEF h
  <2> QED
    BY <2>1, <2>2 DEF CutBody
<1> QED
  BY <1>1, <1>7, <1>10

\* So it has one from every token on.
LEMMA CutUnfolds ==
  ASSUME NEW b \in Tokens, NEW step \in Nat \ {0}
  PROVE  \A a \in Tokens : CutFcn(b, step)[a] = CutBody(CutFcn(b, step), a, b, step)
<1>1. MaxToken - MinToken \in Nat /\ Upper(MaxToken - MinToken) = Tokens
  BY DEF Upper, Tokens
<1> DEFINE n == MaxToken - MinToken
<1>2. PICK f \in [Tokens -> Seq(Pair)] : \A a \in Tokens : f[a] = CutBody(f, a, b, step)
  <2> HIDE DEF n
  <2>1. n \in Nat /\ Upper(n) = Tokens
    BY <1>1 DEF n
  <2>2. \E f \in [Upper(n) -> Seq(Pair)] : \A a \in Upper(n) : f[a] = CutBody(f, a, b, step)
    BY <2>1, CutUpper
  <2> QED
    BY <2>1, <2>2
<1>3. f = [a \in Tokens |-> CutBody(f, a, b, step)]
  BY <1>2
<1>4. CutFcn(b, step) = [a \in Tokens |-> CutBody(CutFcn(b, step), a, b, step)]
  BY <1>3 DEF CutFcn
<1> QED
  BY <1>4

\* The pieces s of what lies between a and b: each lies in between, and every token in
\* between is in exactly one.
CutOK(s, a, b) ==
  /\ s \in Seq(Pair)
  /\ \A i \in DOMAIN s : a <= s[i][1] /\ s[i][2] <= b
  /\ \A t \in Int : a <= t /\ t < b => \E i \in DOMAIN s : \A j \in DOMAIN s : Within(t, s[j]) <=> j = i

LEMMA CutOne ==
  ASSUME NEW a \in Tokens, NEW b \in Tokens
  PROVE  CutOK(<<<<a, b>>>>, a, b)
<1> DEFINE s == <<<<a, b>>>>
<1>0. a \in Int /\ b \in Int
  BY TokenInt
<1>1. s \in Seq(Pair) /\ DOMAIN s = {1} /\ s[1] = <<a, b>>
  BY DEF Pair
<1> HIDE DEF s
<1>2. \A t \in Int : a <= t /\ t < b => Within(t, s[1])
  BY <1>1 DEF Within
<1>3. CutOK(s, a, b)
  BY <1>0, <1>1, <1>2 DEF CutOK
<1> QED
  BY <1>3 DEF s

LEMMA CutCons ==
  ASSUME NEW a \in Tokens, NEW b \in Tokens, NEW c \in Tokens, NEW s, a < c, c <= b, CutOK(s, c, b)
  PROVE  CutOK(<<<<a, c>>>> \o s, a, b)
<1> DEFINE e == <<<<a, c>>>>
           r == e \o s
<1>0. a \in Int /\ b \in Int /\ c \in Int
  BY TokenInt
<1>1. e \in Seq(Pair) /\ Len(e) = 1 /\ e[1] = <<a, c>> /\ s \in Seq(Pair)
  BY DEF Pair, CutOK
<1> HIDE DEF e
<1>2. /\ r \in Seq(Pair) /\ Len(r) = 1 + Len(s)
      /\ \A i \in 1..(1 + Len(s)) : r[i] = IF i <= 1 THEN e[i] ELSE s[i - 1]
  <2>1. e \in Seq(Pair) /\ s \in Seq(Pair)
    BY <1>1
  <2>2. /\ e \o s \in Seq(Pair) /\ Len(e \o s) = Len(e) + Len(s)
        /\ \A i \in 1..(Len(e) + Len(s)) :
             (e \o s)[i] = IF i <= Len(e) THEN e[i] ELSE s[i - Len(e)]
    BY <2>1, ConcatProperties
  <2>3. Len(e) = 1
    BY <1>1
  <2> QED
    BY <2>2, <2>3
<1> HIDE DEF r
<1>3. Len(s) \in Nat /\ DOMAIN s = 1..Len(s) /\ DOMAIN r = 1..(1 + Len(s))
  BY <1>1, <1>2
<1>4. r[1] = <<a, c>>
  BY <1>1, <1>2, <1>3
<1>5. \A i \in DOMAIN s : i + 1 \in DOMAIN r /\ r[i + 1] = s[i]
  BY <1>2, <1>3
<1>6. \A i \in DOMAIN r : i = 1 \/ (i - 1 \in DOMAIN s /\ r[i] = s[i - 1])
  BY <1>2, <1>3
<1>7. /\ \A i \in DOMAIN s : c <= s[i][1] /\ s[i][2] <= b /\ s[i][1] \in Int /\ s[i][2] \in Int
      /\ \A t \in Int : c <= t /\ t < b =>
           \E i \in DOMAIN s : \A j \in DOMAIN s : Within(t, s[j]) <=> j = i
  <2>1. \A i \in DOMAIN s : s[i] \in Pair
    BY <1>1
  <2>2. \A x \in Pair : x[1] \in Int /\ x[2] \in Int
    BY TokenInt DEF Pair
  <2> QED
    BY <2>1, <2>2 DEF CutOK
<1>8. \A i \in DOMAIN r : a <= r[i][1] /\ r[i][2] <= b
  <2> SUFFICES ASSUME NEW i \in DOMAIN r PROVE a <= r[i][1] /\ r[i][2] <= b
    OBVIOUS
  <2>1. CASE i = 1
    BY <2>1, <1>0, <1>4
  <2>2. CASE i - 1 \in DOMAIN s /\ r[i] = s[i - 1]
    BY <2>2, <1>0, <1>7
  <2> QED
    BY <2>1, <2>2, <1>6
<1>9. ASSUME NEW t \in Int, a <= t, t < b
      PROVE  \E i \in DOMAIN r : \A j \in DOMAIN r : Within(t, r[j]) <=> j = i
  <2>0. Within(t, r[1]) <=> t < c
    BY <1>4, <1>9 DEF Within
  <2>1. CASE t < c
    <3>1. \A j \in DOMAIN s : ~ Within(t, s[j])
      BY <2>1, <1>0, <1>7 DEF Within
    <3>2. \A j \in DOMAIN r : Within(t, r[j]) <=> j = 1
      BY <2>0, <2>1, <3>1, <1>6
    <3>3. 1 \in DOMAIN r
      BY <1>3
    <3> QED
      BY <3>2, <3>3
  <2>2. CASE ~ (t < c)
    <3>1. PICK i \in DOMAIN s : \A j \in DOMAIN s : Within(t, s[j]) <=> j = i
      BY <2>2, <1>0, <1>7, <1>9
    <3>2. \A j \in DOMAIN r : Within(t, r[j]) <=> j = i + 1
      <4> SUFFICES ASSUME NEW j \in DOMAIN r PROVE Within(t, r[j]) <=> j = i + 1
        OBVIOUS
      <4>0. i \in Nat \ {0} /\ j \in Nat
        BY <1>3
      <4>1. CASE j = 1
        BY <4>0, <4>1, <2>0, <2>2
      <4>2. CASE j - 1 \in DOMAIN s /\ r[j] = s[j - 1]
        BY <4>0, <4>2, <3>1
      <4> QED
        BY <4>1, <4>2, <1>6
    <3> QED
      BY <3>1, <3>2, <1>5
  <2> QED
    BY <2>1, <2>2
<1>10. CutOK(r, a, b)
  BY <1>2, <1>8, <1>9 DEF CutOK
<1> QED
  BY <1>10 DEF r, e

\* The loop cuts a range into pieces that hold each of its tokens once.
LEMMA CutCovers ==
  ASSUME NEW b \in Tokens, NEW step \in Nat \ {0}, NEW a \in Tokens
  PROVE  CutOK(CutFcn(b, step)[a], a, b)
<1> DEFINE f == CutFcn(b, step)
           Bad == {k \in Nat : \E x \in Tokens : x = MaxToken - k /\ ~ CutOK(f[x], x, b)}
<1>0. \A x \in Tokens : x \in Int /\ x <= MaxToken
  BY DEF Tokens
<1>1. \A x \in Tokens : f[x] = CutBody(f, x, b, step)
  BY CutUnfolds
<1> HIDE DEF f
<1>2. Bad = {}
  <2> SUFFICES ASSUME Bad # {} PROVE FALSE
    OBVIOUS
  <2>1. PICK m \in Bad : \A k \in Bad : m <= k
    BY Least
  <2>2. PICK x \in Tokens : x = MaxToken - m /\ ~ CutOK(f[x], x, b)
    BY <2>1
  <2>3. CASE x < b - step
    <3>1. x + step \in Tokens /\ x < x + step /\ x + step <= b
      BY <2>3, <1>0 DEF Tokens
    <3>2. m - step \in Nat /\ x + step = MaxToken - (m - step) /\ ~ (m <= m - step)
      BY <3>1, <2>1, <2>2, <1>0
    <3>3. CutOK(f[x + step], x + step, b)
      BY <3>1, <3>2, <2>1
    <3>4. f[x] = <<<<x, x + step>>>> \o f[x + step]
      BY <2>3, <1>1 DEF CutBody
    <3> QED
      BY <3>1, <3>3, <3>4, <2>2, CutCons
  <2>4. CASE ~ (x < b - step)
    <3>1. f[x] = <<<<x, b>>>>
      BY <2>4, <1>1 DEF CutBody
    <3> QED
      BY <3>1, <2>2, CutOne
  <2> QED
    BY <2>3, <2>4
<1>3. MaxToken - a \in Nat /\ a = MaxToken - (MaxToken - a)
  BY <1>0
<1>4. CutOK(f[a], a, b)
  BY <1>2, <1>3
<1> QED
  BY <1>4 DEF f

LEMMA PiecesCover ==
  ASSUME NEW range \in Pair, NEW step \in Nat \ {0}
  PROVE  CutOK(Pieces(range, step), range[1], range[2])
<1>1. range[1] \in Tokens /\ range[2] \in Tokens
  BY DEF Pair
<1>2. Pieces(range, step) = CutFcn(range[2], step)[range[1]]
  BY DEF Pieces, CutFcn, CutBody
<1> QED
  BY <1>1, <1>2, CutCovers

-----------------------------------------------------------------------------
(* The pieces of a node, and their groups. *)

LEMMA RangesType ==
  ASSUME NEW T, NEW n \in Nat \ {0}, Ascending(T, n)
  PROVE  RangesOver(T, n) \in Seq(Pair)
<1> DEFINE r == RangesOver(T, n)
<1>1. PICK d : RangesShape(T, n, r, d)
  BY ShapeOfRanges
<1>2. \A i \in 1..n : T[i] \in Tokens
  BY DEF Ascending
<1>3. MinToken \in Tokens /\ MaxToken \in Tokens
  BY DEF Tokens
<1>4. Unless(T[1] = MinToken, <<MinToken, T[1]>>) \in Seq(Pair)
  <2>1. <<MinToken, T[1]>> \in Pair
    BY <1>2, <1>3 DEF Pair
  <2> QED
    BY <2>1 DEF Unless
<1>5. [i \in 1..(n - 1) |-> <<T[i], T[i + 1]>>] \in Seq(Pair)
  <2>1. \A i \in 1..(n - 1) : <<T[i], T[i + 1]>> \in Pair
    BY <1>2 DEF Pair
  <2>2. n - 1 \in Nat
    OBVIOUS
  <2>3. [i \in 1..(n - 1) |-> <<T[i], T[i + 1]>>] \in [1..(n - 1) -> Pair]
    BY <2>1
  <2> QED
    BY <2>2, <2>3, IsASeq
<1>6. <<<<T[n], MaxToken>>>> \in Seq(Pair)
  BY <1>2, <1>3 DEF Pair
<1> QED
  BY <1>4, <1>5, <1>6, ConcatProperties DEF RangesOver

\* What a range of the ring adds to the pieces of a node.
PiecesAt(i, h, step) ==
  IF NodeOf(generate_token_ring_ranges[i]) = h THEN Pieces(generate_token_ring_ranges[i], step) ELSE <<>>

UptoBody(f, i, h, step) == IF i = 0 THEN <<>> ELSE f[i - 1] \o PiecesAt(i, h, step)

UptoFcn(h, step) ==
  CHOOSE f : f = [i \in 0..Len(generate_token_ring_ranges) |-> UptoBody(f, i, h, step)]

LEMMA PiecesAtType ==
  ASSUME generate_token_ring_ranges \in Seq(Pair), NEW h, NEW step \in Nat \ {0},
         NEW i \in 1..Len(generate_token_ring_ranges)
  PROVE  PiecesAt(i, h, step) \in Seq(Pair)
<1>1. generate_token_ring_ranges[i] \in Pair
  OBVIOUS
<1>2. Pieces(generate_token_ring_ranges[i], step) \in Seq(Pair)
  BY <1>1, PiecesCover DEF CutOK
<1> QED
  BY <1>2 DEF PiecesAt

LEMMA UptoExists ==
  ASSUME generate_token_ring_ranges \in Seq(Pair), NEW h, NEW step \in Nat \ {0},
         NEW n \in 0..Len(generate_token_ring_ranges)
  PROVE  \E f \in [0..n -> Seq(Pair)] : \A i \in 0..n : f[i] = UptoBody(f, i, h, step)
<1> DEFINE L == Len(generate_token_ring_ranges)
           Has(k) == \E f \in [0..k -> Seq(Pair)] : \A i \in 0..k : f[i] = UptoBody(f, i, h, step)
           Bad == {k \in 0..L : ~ Has(k)}
<1>0. L \in Nat
  OBVIOUS
<1> SUFFICES ASSUME Bad # {} PROVE FALSE
  OBVIOUS
<1>1. PICK m \in Bad : \A k \in Bad : m <= k
  <2>1. Bad \in SUBSET Nat
    OBVIOUS
  <2> QED
    BY <2>1, Least
<1>2. m # 0
  <2>1. SUFFICES Has(0)
    BY <1>1
  <2> DEFINE f == [i \in 0..0 |-> <<>>]
  <2>2. f \in [0..0 -> Seq(Pair)]
    OBVIOUS
  <2>3. \A i \in 0..0 : f[i] = UptoBody(f, i, h, step)
    BY DEF UptoBody
  <2> QED
    BY <2>2, <2>3
<1>3. Has(m - 1) /\ m \in 1..L
  <2> HIDE DEF Has, L
  <2>1. m \in 1..L
    BY <1>0, <1>1, <1>2
  <2>2. m - 1 \in 0..L /\ ~ (m <= m - 1)
    BY <1>0, <2>1
  <2>3. m - 1 \notin Bad
    BY <1>1, <2>2
  <2> QED
    BY <2>1, <2>2, <2>3
<1>4. PICK f \in [0..(m - 1) -> Seq(Pair)] : \A i \in 0..(m - 1) : f[i] = UptoBody(f, i, h, step)
  BY <1>3
<1> DEFINE u == [i \in 0..m |-> UptoBody(f, i, h, step)]
<1>5. \A i \in 0..m : UptoBody(f, i, h, step) \in Seq(Pair)
  <2> SUFFICES ASSUME NEW i \in 0..m PROVE UptoBody(f, i, h, step) \in Seq(Pair)
    OBVIOUS
  <2>1. CASE i = 0
    BY <2>1 DEF UptoBody
  <2>2. CASE i # 0
    <3>1. i - 1 \in 0..(m - 1) /\ i \in 1..L
      BY <2>2, <1>0, <1>3
    <3>2. f[i - 1] \in Seq(Pair) /\ PiecesAt(i, h, step) \in Seq(Pair)
      BY <3>1, <1>4, PiecesAtType
    <3>3. f[i - 1] \o PiecesAt(i, h, step) \in Seq(Pair)
      BY <3>2, ConcatProperties
    <3> QED
      BY <2>2, <3>3 DEF UptoBody
  <2> QED
    BY <2>1, <2>2
<1>6. u \in [0..m -> Seq(Pair)]
  BY <1>5
<1>7. \A i \in 0..(m - 1) : u[i] = f[i]
  BY <1>3, <1>4
<1>8. \A i \in 0..m : u[i] = UptoBody(u, i, h, step)
  <2> SUFFICES ASSUME NEW i \in 0..m PROVE u[i] = UptoBody(u, i, h, step)
    OBVIOUS
  <2>1. u[i] = UptoBody(f, i, h, step)
    OBVIOUS
  <2>2. i # 0 => u[i - 1] = f[i - 1]
    <3>1. i # 0 => i - 1 \in 0..(m - 1)
      BY <1>3
    <3> HIDE DEF u
    <3> QED
      BY <3>1, <1>7
  <2> HIDE DEF u
  <2> QED
    BY <2>1, <2>2 DEF UptoBody
<1> QED
  BY <1>1, <1>6, <1>8

LEMMA UptoUnfolds ==
  ASSUME generate_token_ring_ranges \in Seq(Pair), NEW h, NEW step \in Nat \ {0}
  PROVE  \A i \in 0..Len(generate_token_ring_ranges) :
           UptoFcn(h, step)[i] = UptoBody(UptoFcn(h, step), i, h, step)
<1> DEFINE L == Len(generate_token_ring_ranges)
<1>1. L \in 0..L
  OBVIOUS
<1>2. PICK f \in [0..L -> Seq(Pair)] : \A i \in 0..L : f[i] = UptoBody(f, i, h, step)
  BY <1>1, UptoExists
<1>3. f = [i \in 0..L |-> UptoBody(f, i, h, step)]
  BY <1>2
<1>4. UptoFcn(h, step) = [i \in 0..L |-> UptoBody(UptoFcn(h, step), i, h, step)]
  BY <1>3 DEF UptoFcn
<1> QED
  BY <1>4

\* s holds the pieces of node h in the first n ranges: each piece lies in a range of the
\* node, and every token of such a range is in exactly one piece.
NodeOK(s, n, h) ==
  /\ s \in Seq(Pair)
  /\ \A i \in DOMAIN s : \E x \in 1..n :
       /\ NodeOf(generate_token_ring_ranges[x]) = h
       /\ generate_token_ring_ranges[x][1] <= s[i][1] /\ s[i][2] <= generate_token_ring_ranges[x][2]
  /\ \A t \in MinToken..(MaxToken - 1), x \in 1..n :
       NodeOf(generate_token_ring_ranges[x]) = h /\ Within(t, generate_token_ring_ranges[x]) =>
         \E i \in DOMAIN s : \A j \in DOMAIN s : Within(t, s[j]) <=> j = i

\* A piece holds only tokens of its range.
LEMMA PieceWithin ==
  ASSUME NEW p \in Pair, NEW r \in Pair, r[1] <= p[1], p[2] <= r[2], NEW t \in Int, Within(t, p)
  PROVE  Within(t, r)
<1>1. p[1] \in Int /\ p[2] \in Int /\ r[1] \in Int /\ r[2] \in Int
  BY TokenInt DEF Pair
<1> QED
  BY <1>1 DEF Within

\* The pieces of the next range join those of the ranges before it.
LEMMA NodeNext ==
  ASSUME generate_token_ring_ranges \in Seq(Pair), Once(generate_token_ring_ranges),
         NEW h, NEW step \in Nat \ {0}, NEW n \in 1..Len(generate_token_ring_ranges),
         NEW s, NodeOK(s, n - 1, h)
  PROVE  NodeOK(s \o PiecesAt(n, h, step), n, h)
<1> DEFINE R == generate_token_ring_ranges
           p == PiecesAt(n, h, step)
           r == s \o p
<1>0. \A i \in 1..Len(R) : R[i] \in Pair
  OBVIOUS
<1>1. s \in Seq(Pair) /\ p \in Seq(Pair)
  BY PiecesAtType DEF NodeOK
<1>2. NodeOf(R[n]) = h => CutOK(p, R[n][1], R[n][2])
  BY <1>0, PiecesCover DEF PiecesAt
<1>3. NodeOf(R[n]) # h => p = <<>>
  BY DEF PiecesAt
<1> HIDE DEF p
<1>4. /\ r \in Seq(Pair) /\ Len(r) = Len(s) + Len(p)
      /\ \A i \in 1..(Len(s) + Len(p)) : r[i] = IF i <= Len(s) THEN s[i] ELSE p[i - Len(s)]
  BY <1>1, ConcatProperties
<1> HIDE DEF r
<1>5. /\ Len(s) \in Nat /\ Len(p) \in Nat
      /\ DOMAIN s = 1..Len(s) /\ DOMAIN p = 1..Len(p) /\ DOMAIN r = 1..(Len(s) + Len(p))
  BY <1>1, <1>4
<1>6. \A i \in DOMAIN r : \/ i \in DOMAIN s /\ r[i] = s[i]
                          \/ i - Len(s) \in DOMAIN p /\ r[i] = p[i - Len(s)] /\ i \notin DOMAIN s
  BY <1>4, <1>5
<1>7. /\ \A i \in DOMAIN s : i \in DOMAIN r /\ r[i] = s[i]
      /\ \A i \in DOMAIN p : i + Len(s) \in DOMAIN r
  BY <1>4, <1>5
<1>8. \A i \in DOMAIN p : /\ NodeOf(R[n]) = h
                          /\ R[n][1] <= p[i][1] /\ p[i][2] <= R[n][2]
  <2>1. NodeOf(R[n]) # h => DOMAIN p = {}
    BY <1>3
  <2> QED
    BY <2>1, <1>2 DEF CutOK
<1>9. \A i \in DOMAIN s : \E x \in 1..(n - 1) :
        NodeOf(R[x]) = h /\ R[x][1] <= s[i][1] /\ s[i][2] <= R[x][2]
  BY DEF NodeOK
<1>10. \A i \in DOMAIN r : \E x \in 1..n :
         NodeOf(R[x]) = h /\ R[x][1] <= r[i][1] /\ r[i][2] <= R[x][2]
  <2> SUFFICES ASSUME NEW i \in DOMAIN r
               PROVE  \E x \in 1..n : NodeOf(R[x]) = h /\ R[x][1] <= r[i][1] /\ r[i][2] <= R[x][2]
    OBVIOUS
  <2>0. n \in 1..n /\ \A x \in 1..(n - 1) : x \in 1..n
    OBVIOUS
  <2>1. CASE i \in DOMAIN s /\ r[i] = s[i]
    BY <2>0, <2>1, <1>9
  <2>2. CASE i - Len(s) \in DOMAIN p /\ r[i] = p[i - Len(s)]
    BY <2>0, <2>2, <1>8
  <2> QED
    BY <2>1, <2>2, <1>6
<1>11. ASSUME NEW t \in MinToken..(MaxToken - 1), NEW x \in 1..n,
              NodeOf(R[x]) = h, Within(t, R[x])
       PROVE  \E i \in DOMAIN r : \A j \in DOMAIN r : Within(t, r[j]) <=> j = i
  <2>0. t \in Int
    OBVIOUS
  <2>1. PICK m \in DOMAIN R : \A i \in DOMAIN R : Within(t, R[i]) <=> i = m
    BY DEF Once
  <2>2. x \in DOMAIN R /\ x = m /\ n \in DOMAIN R
    BY <2>1, <1>11
  <2>3. \A i \in DOMAIN s : Within(t, s[i]) => x # n
    <3> SUFFICES ASSUME NEW i \in DOMAIN s, Within(t, s[i]) PROVE x # n
      OBVIOUS
    <3>1. PICK y \in 1..(n - 1) : R[y][1] <= s[i][1] /\ s[i][2] <= R[y][2]
      BY <1>9
    <3>2. y \in DOMAIN R /\ y # n
      OBVIOUS
    <3>3. s[i] \in Pair /\ R[y] \in Pair
      BY <1>1, <3>2
    <3>4. Within(t, R[y])
      BY <2>0, <3>1, <3>3, PieceWithin
    <3> QED
      BY <2>1, <2>2, <3>2, <3>4
  <2>4. \A i \in DOMAIN p : Within(t, p[i]) => x = n
    <3> SUFFICES ASSUME NEW i \in DOMAIN p, Within(t, p[i]) PROVE x = n
      OBVIOUS
    <3>1. R[n][1] <= p[i][1] /\ p[i][2] <= R[n][2]
      BY <1>8
    <3>2. p[i] \in Pair /\ R[n] \in Pair
      BY <1>0, <1>1
    <3>3. Within(t, R[n])
      BY <2>0, <3>1, <3>2, PieceWithin
    <3> QED
      BY <2>1, <2>2, <3>3
  <2>5. CASE x = n
    <3>1. CutOK(p, R[n][1], R[n][2]) /\ R[n][1] <= t /\ t < R[n][2]
      BY <2>5, <1>2, <1>11 DEF Within
    <3>2. PICK i \in DOMAIN p : \A j \in DOMAIN p : Within(t, p[j]) <=> j = i
      BY <2>0, <3>1 DEF CutOK
    <3>3. \A j \in DOMAIN r : Within(t, r[j]) <=> j = i + Len(s)
      <4> SUFFICES ASSUME NEW j \in DOMAIN r PROVE Within(t, r[j]) <=> j = i + Len(s)
        OBVIOUS
      <4>0. i \in Nat \ {0} /\ j \in Nat
        BY <1>5
      <4>1. CASE j \in DOMAIN s /\ r[j] = s[j]
        BY <4>0, <4>1, <2>3, <2>5, <1>5
      <4>2. CASE j - Len(s) \in DOMAIN p /\ r[j] = p[j - Len(s)]
        BY <4>0, <4>2, <3>2, <1>5
      <4> QED
        BY <4>1, <4>2, <1>6
    <3> QED
      BY <3>2, <3>3, <1>7
  <2>6. CASE x # n
    <3>1. x \in 1..(n - 1)
      BY <2>6
    <3>2. PICK i \in DOMAIN s : \A j \in DOMAIN s : Within(t, s[j]) <=> j = i
      BY <3>1, <1>11 DEF NodeOK
    <3>3. \A j \in DOMAIN r : Within(t, r[j]) <=> j = i
      <4> SUFFICES ASSUME NEW j \in DOMAIN r PROVE Within(t, r[j]) <=> j = i
        OBVIOUS
      <4>1. CASE j \in DOMAIN s /\ r[j] = s[j]
        BY <4>1, <3>2
      <4>2. CASE j - Len(s) \in DOMAIN p /\ r[j] = p[j - Len(s)] /\ j \notin DOMAIN s
        BY <4>2, <2>4, <2>6
      <4> QED
        BY <4>1, <4>2, <1>6
    <3> QED
      BY <3>2, <3>3, <1>7
  <2> QED
    BY <2>5, <2>6
<1>12. NodeOK(r, n, h)
  BY <1>4, <1>10, <1>11 DEF NodeOK
<1> QED
  BY <1>12 DEF r, p

\* AllPieces is right for every node.
LEMMA AllPiecesOK ==
  ASSUME generate_token_ring_ranges \in Seq(Pair), Once(generate_token_ring_ranges),
         NEW h, NEW step \in Nat \ {0}
  PROVE  NodeOK(AllPieces(h, step), Len(generate_token_ring_ranges), h)
<1> DEFINE L == Len(generate_token_ring_ranges)
           f == UptoFcn(h, step)
           Bad == {k \in 0..L : ~ NodeOK(f[k], k, h)}
<1>0. L \in Nat
  OBVIOUS
<1>1. \A i \in 0..L : f[i] = UptoBody(f, i, h, step)
  BY UptoUnfolds
<1>2. AllPieces(h, step) = f[L]
  BY DEF AllPieces, UptoFcn, UptoBody, PiecesAt
<1> HIDE DEF f
<1>3. Bad = {}
  <2> SUFFICES ASSUME Bad # {} PROVE FALSE
    OBVIOUS
  <2>1. PICK m \in Bad : \A k \in Bad : m <= k
    <3>1. Bad \in SUBSET Nat
      OBVIOUS
    <3> QED
      BY <3>1, Least
  <2>2. CASE m = 0
    <3>1. f[m] = <<>>
      BY <2>1, <2>2, <1>1 DEF UptoBody
    <3>2. NodeOK(<<>>, 0, h)
      BY DEF NodeOK
    <3> QED
      BY <2>1, <2>2, <3>1, <3>2
  <2>3. CASE m # 0
    <3> HIDE DEF L
    <3>1. m \in 1..L /\ m - 1 \in 0..L /\ ~ (m <= m - 1)
      BY <1>0, <2>1, <2>3
    <3>2. NodeOK(f[m - 1], m - 1, h)
      BY <2>1, <3>1
    <3>3. f[m] = f[m - 1] \o PiecesAt(m, h, step)
      BY <2>1, <2>3, <1>1 DEF UptoBody
    <3>4. NodeOK(f[m], m, h)
      BY <3>1, <3>2, <3>3, NodeNext DEF L
    <3> QED
      BY <2>1, <3>4
  <2> QED
    BY <2>2, <2>3
<1>4. NodeOK(f[L], L, h)
  BY <1>0, <1>3
<1> QED
  BY <1>2, <1>4

\* Where group_size cuts the pieces: each one is in exactly one group.
LEMMA GroupStart ==
  ASSUME NEW g \in Nat \ {0}, NEW i \in Nat \ {0}
  PROVE  /\ \E j \in 1..i : (j - 1) % g = 0 /\ i <= j + g - 1
         /\ \A j, k \in 1..i :
              /\ (j - 1) % g = 0 /\ i <= j + g - 1
              /\ (k - 1) % g = 0 /\ i <= k + g - 1
              => j = k
<1>1. \E j \in 1..i : (j - 1) % g = 0 /\ i <= j + g - 1
  <2> DEFINE q == (i - 1) \div g
             m == (i - 1) % g
  <2>1. q \in Int /\ m \in 0..(g - 1) /\ i - 1 = g * q + m
    OBVIOUS
  <2>2. q >= 0
    BY <2>1
  <2> HIDE DEF q, m
  <2>3. g * q \in Nat
    BY <2>1, <2>2
  <2>4. (g * q) % g = 0
    BY <2>1, <2>2
  <2> DEFINE j == g * q + 1
  <2>5. j \in 1..i /\ j - 1 = g * q /\ i <= j + g - 1
    BY <2>1, <2>3
  <2> QED
    BY <2>4, <2>5
<1>2. ASSUME NEW j \in 1..i, NEW k \in 1..i, (j - 1) % g = 0, i <= j + g - 1,
             (k - 1) % g = 0, i <= k + g - 1, j < k
      PROVE  FALSE
  <2>1. PICK a \in Int : j - 1 = g * a
    <3> DEFINE q == (j - 1) \div g
               m == (j - 1) % g
    <3>1. q \in Int /\ m \in Int /\ j - 1 = g * q + m
      OBVIOUS
    <3>2. m = 0
      BY <1>2
    <3> HIDE DEF q, m
    <3>3. g * q \in Int
      BY <3>1
    <3>4. j - 1 = g * q
      BY <3>1, <3>2, <3>3
    <3> QED
      BY <3>1, <3>4
  <2>2. PICK b \in Int : k - 1 = g * b
    <3> DEFINE q == (k - 1) \div g
               m == (k - 1) % g
    <3>1. q \in Int /\ m \in Int /\ k - 1 = g * q + m
      OBVIOUS
    <3>2. m = 0
      BY <1>2
    <3> HIDE DEF q, m
    <3>3. g * q \in Int
      BY <3>1
    <3>4. k - 1 = g * q
      BY <3>1, <3>2, <3>3
    <3> QED
      BY <3>1, <3>4
  <2>3. g * a < g * b /\ g * b < g * a + g
    BY <1>2, <2>1, <2>2
  <2>4. a < b
    BY <2>3
  <2>5. g * b >= g * (a + 1)
    BY <2>4
  <2>6. g * (a + 1) = g * a + g
    OBVIOUS
  <2> QED
    BY <2>3, <2>5, <2>6
<1>3. ASSUME NEW j \in 1..i, NEW k \in 1..i, (j - 1) % g = 0, i <= j + g - 1,
             (k - 1) % g = 0, i <= k + g - 1
      PROVE  j = k
  BY <1>2, <1>3
<1> QED
  BY <1>1, <1>3

\* A token is in one range of one group of G.
InOneGroup(t, G) ==
  \E s \in G : /\ Cardinality({k \in DOMAIN s : Within(t, s[k])}) = 1
               /\ \A u \in G : (\E k \in DOMAIN u : Within(t, u[k])) => u = s

\* Grouping keeps what every piece holds: a token that is in one piece is in one range of
\* one group, and a group holds nothing but pieces.
LEMMA GroupsOK ==
  ASSUME NEW all \in Seq(Pair), NEW g \in Nat \ {0}
  PROVE  /\ \A s \in Groups(all, g) :
              s \in Seq(Pair) /\ \A i \in DOMAIN s : \E k \in DOMAIN all : s[i] = all[k]
         /\ \A t \in Int, i \in DOMAIN all :
              (\A k \in DOMAIN all : Within(t, all[k]) <=> k = i) => InOneGroup(t, Groups(all, g))
<1> DEFINE n == Len(all)
           Start == {j \in DOMAIN all : (j - 1) % g = 0}
           Last(j) == IF j + g - 1 <= n THEN j + g - 1 ELSE n
           Group(j) == SubSeq(all, j, Last(j))
<1>0. n \in Nat /\ DOMAIN all = 1..n /\ \A k \in 1..n : all[k] \in Pair
  OBVIOUS
<1>1. Groups(all, g) = {Group(j) : j \in Start}
  BY DEF Groups
<1>2. \A j \in Start : j \in 1..n /\ Last(j) \in j..n /\ (j - 1) % g = 0
  BY <1>0
<1>3. \A j \in Start : /\ Group(j) \in Seq(Pair) /\ Len(Group(j)) = Last(j) - j + 1
                       /\ \A k \in 1..(Last(j) - j + 1) : Group(j)[k] = all[j + k - 1]
  <2> SUFFICES ASSUME NEW j \in Start
               PROVE  /\ Group(j) \in Seq(Pair) /\ Len(Group(j)) = Last(j) - j + 1
                      /\ \A k \in 1..(Last(j) - j + 1) : Group(j)[k] = all[j + k - 1]
    OBVIOUS
  <2>1. Last(j) \in Int /\ j \in Int /\ j <= Last(j) /\ \A k \in j..Last(j) : all[k] \in Pair
    BY <1>0, <1>2
  <2> HIDE DEF Last, Start
  <2> QED
    BY <2>1, SubSeqProperties
<1> HIDE DEF Group
<1>4. \A j \in Start : DOMAIN Group(j) = 1..(Last(j) - j + 1)
  BY <1>3
<1>5. ASSUME NEW s \in Groups(all, g)
      PROVE  s \in Seq(Pair) /\ \A i \in DOMAIN s : \E k \in DOMAIN all : s[i] = all[k]
  <2>1. PICK j \in Start : s = Group(j)
    BY <1>1
  <2>2. \A i \in DOMAIN s : j + i - 1 \in DOMAIN all /\ s[i] = all[j + i - 1]
    <3> SUFFICES ASSUME NEW i \in DOMAIN s
                 PROVE  j + i - 1 \in DOMAIN all /\ s[i] = all[j + i - 1]
      OBVIOUS
    <3>1. j \in 1..n /\ Last(j) \in j..n /\ i \in 1..(Last(j) - j + 1)
      BY <2>1, <1>2, <1>4
    <3>2. s[i] = all[j + i - 1]
      BY <2>1, <3>1, <1>3
    <3> HIDE DEF Last, n
    <3> QED
      BY <3>1, <3>2, <1>0
  <2> QED
    BY <2>1, <2>2, <1>3
<1>6. ASSUME NEW t \in Int, NEW i \in DOMAIN all, \A k \in DOMAIN all : Within(t, all[k]) <=> k = i
      PROVE  InOneGroup(t, Groups(all, g))
  <2>0. i \in Nat \ {0} /\ i <= n
    BY <1>0
  <2>1. PICK j \in 1..i : (j - 1) % g = 0 /\ i <= j + g - 1
    BY <2>0, GroupStart
  <2>2. j \in Start /\ i <= Last(j)
    BY <2>0, <2>1, <1>0
  <2>3. ASSUME NEW m \in Start, NEW k \in DOMAIN Group(m), Within(t, Group(m)[k])
        PROVE  m = j /\ k = i - j + 1
    <3>1. k \in 1..(Last(m) - m + 1) /\ m \in 1..n /\ Last(m) \in m..n
      BY <1>2, <1>4
    <3>2. m + k - 1 \in DOMAIN all
      <4> HIDE DEF Last, n
      <4>1. m + k - 1 \in 1..n
        BY <1>0, <3>1
      <4> QED
        BY <1>0, <4>1
    <3>3. Within(t, all[m + k - 1])
      BY <1>3, <2>3, <3>1
    <3>4. m + k - 1 = i
      BY <1>6, <3>2, <3>3
    <3>5. Last(m) <= m + g - 1
      OBVIOUS
    <3>6. m \in 1..i /\ i <= m + g - 1
      <4> HIDE DEF Last, n
      <4> QED
        BY <3>1, <3>4, <3>5, <2>0
    <3>7. m = j
      BY <2>0, <2>1, <3>6, <1>2, GroupStart
    <3> QED
      BY <3>1, <3>4, <3>7, <2>0
  <2>4. i - j + 1 \in DOMAIN Group(j) /\ Within(t, Group(j)[i - j + 1])
    <3>1. i - j + 1 \in 1..(Last(j) - j + 1) /\ j + (i - j + 1) - 1 = i
      BY <2>0, <2>1, <2>2, <1>2
    <3>2. Group(j)[i - j + 1] = all[j + (i - j + 1) - 1]
      BY <3>1, <2>2, <1>3
    <3>3. Within(t, all[i])
      BY <1>6
    <3> QED
      BY <3>1, <3>2, <3>3, <2>2, <1>4
  <2>5. {k \in DOMAIN Group(j) : Within(t, Group(j)[k])} = {i - j + 1}
    BY <2>2, <2>3, <2>4
  <2>6. Cardinality({k \in DOMAIN Group(j) : Within(t, Group(j)[k])}) = 1
    BY <2>5, FS_Singleton
  <2>7. \A u \in Groups(all, g) : (\E k \in DOMAIN u : Within(t, u[k])) => u = Group(j)
    BY <1>1, <2>3
  <2>8. Group(j) \in Groups(all, g)
    BY <1>1, <2>2
  <2> QED
    BY <2>6, <2>7, <2>8 DEF InOneGroup
<1> QED
  BY <1>5, <1>6

-----------------------------------------------------------------------------
(* The partitions. *)

PartInv ==
  /\ RingInv
  /\ phase # "split" => partitions = {}
  /\ phase = "split" =>
       \E splits \in Nat \ {0}, step \in Nat \ {0} : partitions = Partitions(splits, step)

LEMMA PartStep == PartInv /\ [Next]_vars => PartInv'
<1> SUFFICES ASSUME PartInv, [Next]_vars PROVE PartInv'
  OBVIOUS
<1>0. RingInv'
  BY RingStep DEF PartInv
<1>1. ASSUME NEW t \in Tokens, NEW h \in Hosts, insert_token(t, h)
      PROVE  PartInv'
  BY <1>0, <1>1 DEF PartInv, insert_token
<1>2. CASE generate_token_ranges
  BY <1>0, <1>2 DEF PartInv, generate_token_ranges
<1>3. ASSUME NEW splits \in SplitsPerNode, NEW step \in 1..MaxToken,
             tokens_partitions(splits, step)
      PROVE  PartInv'
  <2>1. splits \in Nat \ {0} /\ step \in Nat \ {0}
    OBVIOUS
  <2>2. tokensInCluster' = tokensInCluster /\ phase' = "split"
        /\ partitions' = Partitions(splits, step)
    BY <1>3 DEF tokens_partitions
  <2>3. Partitions(splits, step)' = Partitions(splits, step)
    <3>1. tokensInCluster' = tokensInCluster
      BY <2>2
    <3> QED
      BY <3>1 DEF Partitions, Nodes, AllPieces, NodeOf, UpTo, generate_token_ring_ranges,
         discrete_token_ranges, sort, RingTokens, N, Token
  <2> QED
    BY <1>0, <2>1, <2>2, <2>3 DEF PartInv
<1>4. CASE done \/ UNCHANGED vars
  <2>1. UNCHANGED vars
    BY <1>4 DEF done
  <2>2. ASSUME NEW splits, NEW step
        PROVE  Partitions(splits, step)' = Partitions(splits, step)
    BY <2>1 DEF vars, Partitions, Nodes, AllPieces, NodeOf, UpTo, generate_token_ring_ranges,
         discrete_token_ranges, sort, RingTokens, N, Token
  <2> QED
    BY <1>0, <2>1, <2>2 DEF PartInv, vars
<1> QED
  BY <1>1, <1>2, <1>3, <1>4 DEF Next

LEMMA PartInvariant == Spec => []PartInv
<1>1. Init => PartInv
  BY RingInit DEF Init, PartInv
<1> QED
  BY <1>1, PartStep, PTL DEF Spec

\* What tokens_partitions cuts: ranges of the ring, of which every token is in one.
LEMMA RingRanges ==
  ASSUME RingInv, phase # "collect"
  PROVE  generate_token_ring_ranges \in Seq(Pair) /\ Once(generate_token_ring_ranges)
BY DiscreteRanges, RangesType, RangesOnce

\* A partition is a group of the pieces of its node.
GroupSize(h, splits, step) ==
  LET size == Len(AllPieces(h, step)) \div splits IN IF size > 1 THEN size ELSE 1

LEMMA PartitionOf ==
  ASSUME NEW splits \in Nat \ {0}, NEW step \in Nat \ {0},
         generate_token_ring_ranges \in Seq(Pair), Once(generate_token_ring_ranges)
  PROVE  /\ \A h : GroupSize(h, splits, step) \in Nat \ {0} /\ AllPieces(h, step) \in Seq(Pair)
         /\ \A p : p \in Partitions(splits, step) <=>
              \E h \in Nodes : \E g \in Groups(AllPieces(h, step), GroupSize(h, splits, step)) :
                p = [host |-> h, ranges |-> g]
<1>1. ASSUME NEW h
      PROVE  GroupSize(h, splits, step) \in Nat \ {0} /\ AllPieces(h, step) \in Seq(Pair)
  <2>1. AllPieces(h, step) \in Seq(Pair)
    BY AllPiecesOK DEF NodeOK
  <2>2. Len(AllPieces(h, step)) \in Nat
    BY <2>1
  <2> DEFINE size == Len(AllPieces(h, step)) \div splits
  <2>3. size \in Int
    BY <2>2
  <2> HIDE DEF size
  <2>4. GroupSize(h, splits, step) = IF size > 1 THEN size ELSE 1
    BY DEF GroupSize, size
  <2> QED
    BY <2>1, <2>3, <2>4
<1>2. ASSUME NEW p
      PROVE  p \in Partitions(splits, step) <=>
              \E h \in Nodes : \E g \in Groups(AllPieces(h, step), GroupSize(h, splits, step)) :
                p = [host |-> h, ranges |-> g]
  BY DEF Partitions, GroupSize
<1> QED
  BY <1>1, <1>2

LEMMA PartCovers == PartInv => PartitionsCover
<1> SUFFICES ASSUME PartInv, phase = "split", NEW t \in MinToken..(MaxToken - 1)
             PROVE  \E p \in partitions :
                      /\ Cardinality({i \in DOMAIN p.ranges : Within(t, p.ranges[i])}) = 1
                      /\ \A q \in partitions :
                           (\E i \in DOMAIN q.ranges : Within(t, q.ranges[i])) => q = p
  BY DEF PartitionsCover
<1> DEFINE R == generate_token_ring_ranges
<1>0. t \in Int
  OBVIOUS
<1>1. R \in Seq(Pair) /\ Once(R)
  BY RingRanges DEF PartInv
<1>2. PICK splits \in Nat \ {0}, step \in Nat \ {0} : partitions = Partitions(splits, step)
  BY DEF PartInv
<1>3. PICK x \in DOMAIN R : \A i \in DOMAIN R : Within(t, R[i]) <=> i = x
  BY <1>1 DEF Once
<1> DEFINE h == NodeOf(R[x])
           All(d) == AllPieces(d, step)
           Size(d) == GroupSize(d, splits, step)
<1>4. h \in Nodes
  BY <1>3 DEF Nodes
<1>5. \A d : NodeOK(All(d), Len(R), d)
  BY <1>1, AllPiecesOK
<1>6. /\ \A d : Size(d) \in Nat \ {0} /\ All(d) \in Seq(Pair)
      /\ \A p : p \in partitions <=> \E d \in Nodes : \E g \in Groups(All(d), Size(d)) :
                                       p = [host |-> d, ranges |-> g]
  BY <1>1, <1>2, PartitionOf
<1>7. x \in 1..Len(R) /\ DOMAIN R = 1..Len(R) /\ Within(t, R[x])
  BY <1>1, <1>3
<1>8. PICK i \in DOMAIN All(h) : \A k \in DOMAIN All(h) : Within(t, All(h)[k]) <=> k = i
  BY <1>5, <1>7 DEF NodeOK
<1>9. PICK s \in Groups(All(h), Size(h)) :
        /\ Cardinality({k \in DOMAIN s : Within(t, s[k])}) = 1
        /\ \A u \in Groups(All(h), Size(h)) : (\E k \in DOMAIN u : Within(t, u[k])) => u = s
  <2> HIDE DEF All, Size, h
  <2>1. All(h) \in Seq(Pair) /\ Size(h) \in Nat \ {0}
    BY <1>6
  <2>2. InOneGroup(t, Groups(All(h), Size(h)))
    BY <1>0, <1>8, <2>1, GroupsOK
  <2> QED
    BY <2>2 DEF InOneGroup
<1>10. ASSUME NEW d \in Nodes, NEW u \in Groups(All(d), Size(d)), NEW k \in DOMAIN u, Within(t, u[k])
       PROVE  d = h
  <2> HIDE DEF All, Size, h
  <2>1. u \in Seq(Pair) /\ \E m \in DOMAIN All(d) : u[k] = All(d)[m]
    BY <1>6, GroupsOK
  <2>2. PICK m \in DOMAIN All(d) : u[k] = All(d)[m]
    BY <2>1
  <2>3. PICK y \in 1..Len(R) : /\ NodeOf(R[y]) = d
                               /\ R[y][1] <= All(d)[m][1] /\ All(d)[m][2] <= R[y][2]
    BY <1>5 DEF NodeOK
  <2>4. u[k] \in Pair /\ R[y] \in Pair
    BY <1>1, <2>1
  <2>5. Within(t, R[y])
    BY <1>0, <1>10, <2>2, <2>3, <2>4, PieceWithin
  <2>6. y = x
    BY <1>3, <1>7, <2>5
  <2> QED
    BY <2>3, <2>6 DEF h
<1> DEFINE p == [host |-> h, ranges |-> s]
<1>11. p \in partitions
  BY <1>4, <1>6, <1>9
<1>12. ASSUME NEW q \in partitions, NEW k \in DOMAIN q.ranges, Within(t, q.ranges[k])
       PROVE  q = p
  <2> HIDE DEF All, Size, h
  <2>0. PICK d \in Nodes : \E g \in Groups(All(d), Size(d)) : q = [host |-> d, ranges |-> g]
    BY <1>6
  <2>1. PICK g \in Groups(All(d), Size(d)) : q = [host |-> d, ranges |-> g]
    BY <2>0
  <2>2. q.ranges = g
    BY <2>1
  <2>3. d = h
    BY <1>10, <1>12, <2>2
  <2>4. g = s
    BY <1>9, <1>12, <2>2, <2>3
  <2> QED
    BY <2>1, <2>3, <2>4
<1>13. p.ranges = s
  OBVIOUS
<1> QED
  BY <1>9, <1>11, <1>12, <1>13

-----------------------------------------------------------------------------
(* Locality. *)

\* Who owns a token: the node before which all tokens of the ring are less, or the first
\* one when all of them are.
LEMMA OwnerOf ==
  ASSUME RingInv, phase # "collect", NEW t \in Int
  PROVE  /\ \A k \in 1..N : Token(k) >= t /\ (\A i \in 1..(k - 1) : Token(i) < t) =>
              Owner(t) = tokensInCluster[k].host
         /\ (\A i \in 1..N : Token(i) < t) => Owner(t) = tokensInCluster[1].host
<1>1. N \in Nat /\ N > 0 /\ \A i \in 1..N : Token(i) \in Int
  BY RingAscends, TokenInt DEF RingInv
<1> DEFINE D == {i \in 1..N : Token(i) >= t}
           First == CHOOSE i \in D : \A j \in D : i <= j
<1>2. Owner(t) = tokensInCluster[IF D = {} THEN 1 ELSE First].host
  BY DEF Owner
<1>3. ASSUME NEW k \in 1..N, Token(k) >= t, \A i \in 1..(k - 1) : Token(i) < t
      PROVE  Owner(t) = tokensInCluster[k].host
  <2>1. D \in SUBSET Nat /\ k \in D
    BY <1>1, <1>3
  <2>2. \A i \in D : k <= i
    <3> SUFFICES ASSUME NEW i \in D, ~ (k <= i) PROVE FALSE
      OBVIOUS
    <3>1. i \in 1..(k - 1) /\ Token(i) >= t /\ Token(i) \in Int
      BY <1>1
    <3> QED
      BY <1>3, <3>1
  <2> HIDE DEF D
  <2>3. First \in D /\ \A j \in D : First <= j
    BY <2>1, FirstOf
  <2> HIDE DEF First
  <2>4. First = k
    BY <2>1, <2>2, <2>3
  <2> QED
    BY <1>2, <2>1, <2>4
<1>4. ASSUME \A i \in 1..N : Token(i) < t
      PROVE  Owner(t) = tokensInCluster[1].host
  <2>1. D = {}
    BY <1>1, <1>4
  <2> QED
    BY <1>2, <2>1
<1> QED
  BY <1>3, <1>4

\* A range belongs to the node that stores all of it but its first token: NodeOf (the
\* bisection in tokens_partitions) agrees with Cassandra on every range, the ones at both
\* ends of the token space included.
LEMMA RangeLocal ==
  ASSUME RingInv, phase # "collect", NEW x \in DOMAIN generate_token_ring_ranges, NEW t \in Int,
         generate_token_ring_ranges[x][1] < t, t < generate_token_ring_ranges[x][2]
  PROVE  Owner(t) = NodeOf(generate_token_ring_ranges[x])
<1> DEFINE T == RingTokens
           R == generate_token_ring_ranges
<1>1. N \in Nat \ {0} /\ Ascending(T, N) /\ R = RangesOver(T, N)
  BY DiscreteRanges
<1>2. PICK d : RangesShape(T, N, R, d)
  BY <1>1, ShapeOfRanges
<1>3. /\ \A i \in 1..N : T[i] = Token(i) /\ Token(i) \in Int /\ Token(i) \in Tokens
      /\ \A i, j \in 1..N : i < j => Token(i) < Token(j)
  BY <1>1, RingAscends, TokenInt DEF Ascending, RingInv
<1>4. ASSUME NEW k \in 1..N
      PROVE  UpTo(Token(k)) = k
  <2>1. /\ UpTo(Token(k)) \in 0..N
        /\ \A i \in 1..N : Token(i) <= Token(k) <=> i <= UpTo(Token(k))
    BY <1>3, UpToPlace DEF RingInv
  <2>2. k <= UpTo(Token(k))
    BY <1>3, <2>1
  <2>3. ASSUME k < UpTo(Token(k)) PROVE FALSE
    <3>1. k + 1 \in 1..N /\ k + 1 <= UpTo(Token(k)) /\ k < k + 1
      BY <1>1, <2>1, <2>3
    <3>2. Token(k + 1) <= Token(k) /\ Token(k) < Token(k + 1)
      BY <1>3, <2>1, <3>1
    <3> QED
      BY <1>3, <3>1, <3>2
  <2> QED
    BY <2>1, <2>2, <2>3
<1> HIDE DEF T, R
<1>5. R[x][1] < t /\ t < R[x][2] /\ x \in 1..(d + N) /\ d \in {0, 1}
  BY <1>2 DEF RangesShape, R
<1>6. CASE d = 1 /\ x = 1
  <2>1. R[x] = <<MinToken, Token(1)>> /\ Token(1) # MinToken
    BY <1>1, <1>2, <1>3, <1>6 DEF RangesShape
  <2>2. MinToken \in Tokens /\ MinToken \in Int
    BY DEF Tokens
  <2>3. UpTo(MinToken) \in 0..N /\ \A i \in 1..N : Token(i) <= MinToken <=> i <= UpTo(MinToken)
    BY <2>2, UpToPlace DEF RingInv
  <2>4. Token(1) >= MinToken
    BY <1>1, <1>3 DEF Tokens
  <2>5. UpTo(MinToken) = 0
    BY <1>1, <1>3, <2>1, <2>2, <2>3, <2>4
  <2>6. NodeOf(R[x]) = tokensInCluster[1].host
    BY <1>1, <2>1, <2>5 DEF NodeOf
  <2>7. 1 \in 1..N /\ Token(1) >= t /\ \A i \in 1..(1 - 1) : Token(i) < t
    BY <1>1, <1>3, <1>5, <2>1
  <2> QED
    BY <2>6, <2>7, OwnerOf DEF R
<1>7. CASE x = d + N
  <2>1. R[x] = <<Token(N), MaxToken>>
    BY <1>1, <1>2, <1>3, <1>7 DEF RangesShape
  <2>2. NodeOf(R[x]) = tokensInCluster[1].host
    BY <1>1, <1>4, <2>1 DEF NodeOf
  <2>3. Token(N) < t /\ \A i \in 1..N : i < N => Token(i) < Token(N)
    BY <1>1, <1>3, <1>5, <2>1
  <2>4. \A i \in 1..N : Token(i) < t
    BY <1>1, <1>3, <2>3
  <2> QED
    BY <2>2, <2>4, OwnerOf DEF R
<1>8. CASE x # d + N /\ ~ (d = 1 /\ x = 1)
  <2> DEFINE k == x - d
  <2>0. k \in 1..(N - 1) /\ d + k = x
    BY <1>1, <1>5, <1>8
  <2> HIDE DEF k
  <2>1. R[x] = <<Token(k), Token(k + 1)>>
    <3>1. R[d + k] = <<T[k], T[k + 1]>>
      BY <1>2, <2>0 DEF RangesShape
    <3> QED
      BY <1>1, <1>3, <2>0, <3>1
  <2>2. k \in 1..N /\ k + 1 \in 1..N /\ k # N
    BY <1>1, <2>0
  <2>3. NodeOf(R[x]) = tokensInCluster[k + 1].host
    BY <1>4, <2>1, <2>2 DEF NodeOf
  <2>4. Token(k) < t /\ Token(k + 1) >= t
    BY <1>3, <1>5, <2>1, <2>2
  <2>5. \A i \in 1..((k + 1) - 1) : Token(i) < t
    <3> SUFFICES ASSUME NEW i \in 1..((k + 1) - 1) PROVE Token(i) < t
      OBVIOUS
    <3>1. i \in 1..N /\ (i = k \/ i < k)
      BY <1>1, <2>2
    <3> QED
      BY <1>3, <2>2, <2>4, <3>1
  <2> QED
    BY <2>2, <2>3, <2>4, <2>5, OwnerOf DEF R
<1> QED
  BY <1>6, <1>7, <1>8

LEMMA PartLocal == PartInv => PartitionsLocal
<1> SUFFICES ASSUME PartInv, NEW q \in partitions, NEW k \in DOMAIN q.ranges,
                    NEW t \in (q.ranges[k][1] + 1)..(q.ranges[k][2] - 1)
             PROVE  Owner(t) = q.host
  BY DEF PartitionsLocal
<1> DEFINE R == generate_token_ring_ranges
<1>0. phase = "split"
  BY DEF PartInv
<1>1. R \in Seq(Pair) /\ Once(R)
  BY <1>0, RingRanges DEF PartInv
<1>2. PICK splits \in Nat \ {0}, step \in Nat \ {0} : partitions = Partitions(splits, step)
  BY <1>0 DEF PartInv
<1> DEFINE All(d) == AllPieces(d, step)
           Size(d) == GroupSize(d, splits, step)
<1>3. \A d : Size(d) \in Nat \ {0} /\ All(d) \in Seq(Pair)
  BY <1>1, PartitionOf
<1>4. PICK d \in Nodes : \E g \in Groups(All(d), Size(d)) : q = [host |-> d, ranges |-> g]
  BY <1>1, <1>2, PartitionOf
<1>5. PICK g \in Groups(All(d), Size(d)) : q = [host |-> d, ranges |-> g]
  BY <1>4
<1>6. NodeOK(All(d), Len(R), d)
  BY <1>1, AllPiecesOK
<1> HIDE DEF All, Size, R
<1>7. g \in Seq(Pair) /\ k \in DOMAIN g /\ \E m \in DOMAIN All(d) : g[k] = All(d)[m]
  BY <1>3, <1>5, GroupsOK
<1>8. PICK m \in DOMAIN All(d) : g[k] = All(d)[m]
  BY <1>7
<1>9. PICK y \in 1..Len(R) : /\ NodeOf(R[y]) = d
                             /\ R[y][1] <= All(d)[m][1] /\ All(d)[m][2] <= R[y][2]
  BY <1>6 DEF NodeOK, R
<1>10. g[k] \in Pair /\ R[y] \in Pair /\ y \in DOMAIN R
  BY <1>1, <1>7
<1>11. g[k][1] \in Int /\ g[k][2] \in Int /\ R[y][1] \in Int /\ R[y][2] \in Int
  BY <1>10, TokenInt DEF Pair
<1>12. t \in (g[k][1] + 1)..(g[k][2] - 1)
  BY <1>5
<1>13. t \in Int /\ R[y][1] < t /\ t < R[y][2]
  BY <1>8, <1>9, <1>11, <1>12
<1>14. Owner(t) = NodeOf(R[y])
  BY <1>0, <1>10, <1>13, RangeLocal DEF PartInv, R
<1> QED
  BY <1>5, <1>9, <1>14

\* IStorage.split hands out the whole ring: for any ring, any number of splits per node and
\* any step, every token below LONG_MAX is in exactly one range of exactly one of the
\* partitions that tokens_partitions yields, so every row is read by exactly one of the
\* split objects.
THEOREM PartitionsTheorem == Spec => []PartitionsCover
BY PartInvariant, PartCovers, PTL

\* The partitions are local: whatever tokens_partitions gives to a node, the first token
\* of each range aside, is stored on that node.
THEOREM LocalityTheorem == Spec => []PartitionsLocal
BY PartInvariant, PartLocal, PTL

=============================================================================
