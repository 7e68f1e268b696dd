---------------------------- MODULE TokenRanges ----------------------------
(***************************************************************************)
(* How hecuba divides the token ring of Cassandra into the ranges that its *)
(* iterators and splits read.                                              *)
(*                                                                         *)
(* C++ (StorageInterface): query_tokens collects the tokens of the nodes   *)
(* in order, generate_token_ranges turns them into ranges,                 *)
(* get_host_per_token finds the node of a token.                           *)
(* Python (tools.py): discrete_token_ranges does the same from the         *)
(* driver's ring, tokens_partitions cuts the ranges into the partitions    *)
(* that IStorage.split hands out.                                          *)
(*                                                                         *)
(* A range <<a, b>> stands for the query token >= a AND token < b.  The    *)
(* token space MinToken..MaxToken stands for the 64-bit one.               *)
(***************************************************************************)
EXTENDS Integers, Sequences, FiniteSets

CONSTANTS
  MinToken,        \* LONG_MIN, _min_token
  MaxToken,        \* LONG_MAX, _max_token
  Hosts,           \* the nodes
  RingSize,        \* bound: tokens in the cluster
  SplitsPerNode,   \* config.splits_per_node: the values tried
  TokenRangeSize   \* config.token_range_size: the values tried, 0 if not set

Tokens == MinToken..MaxToken

ASSUME TokenAssumption ==
  /\ MinToken \in Int /\ MaxToken \in Nat /\ MinToken < 0
  /\ RingSize \in Nat
  /\ SplitsPerNode \subseteq Nat \ {0}
  /\ TokenRangeSize \subseteq Nat

VARIABLES
  tokensInCluster,   \* [token, host], in ascending order of token
  token_ranges,      \* StorageInterface::token_ranges
  partitions,        \* what tokens_partitions yielded: [host, ranges]
  phase              \* "collect", then "ready", then "split"

vars == <<tokensInCluster, token_ranges, partitions, phase>>

TokenRange == Tokens \X Tokens

TypeOK ==
  /\ tokensInCluster \in Seq([token : Tokens, host : Hosts])
  /\ token_ranges \in Seq(TokenRange)
  /\ \A p \in partitions : p.host \in Hosts /\ p.ranges \in Seq(TokenRange)
  /\ phase \in {"collect", "ready", "split"}

Init ==
  /\ tokensInCluster = <<>>
  /\ token_ranges = <<>>
  /\ partitions = {}
  /\ phase = "collect"

-----------------------------------------------------------------------------
(* StorageInterface *)

\* The number of collected tokens that are not greater than t.
UpTo(t) == Cardinality({i \in DOMAIN tokensInCluster : tokensInCluster[i].token <= t})

\* One token of the answer to query_tokens: inserted before the first greater
\* one, or at the end.  The nodes answer in any order, and no token twice.
insert_token(t, h) ==
  /\ phase = "collect"
  /\ Len(tokensInCluster) < RingSize
  /\ \A i \in DOMAIN tokensInCluster : tokensInCluster[i].token # t
  /\ tokensInCluster' = SubSeq(tokensInCluster, 1, UpTo(t))
                          \o <<[token |-> t, host |-> h]>>
                          \o SubSeq(tokensInCluster, UpTo(t) + 1, Len(tokensInCluster))
  /\ UNCHANGED <<token_ranges, partitions, phase>>

N == Len(tokensInCluster)
Token(i) == tokensInCluster[i].token

Unless(cond, range) == IF cond THEN <<>> ELSE <<range>>

\* A plausible bug: the loop over the tokens starts one too late.
generate_token_ranges_skips ==
  /\ phase = "collect" /\ N > 0
  /\ phase' = "ready"
  /\ \E token2 \in IF N > 2 THEN {Token(N - 1)} ELSE Tokens :
       token_ranges' = Unless(Token(1) = MinToken, <<MinToken, Token(1)>>)
                         \o [i \in 1..(IF N > 3 THEN N - 3 ELSE 0) |-> <<Token(i + 1), Token(i + 2)>>]
                         \o Unless(token2 = MaxToken, <<token2, MaxToken>>)
  /\ UNCHANGED <<tokensInCluster, partitions>>

\* generate_token_ranges.  The loop stops before the last token; with one or two
\* tokens it does not run at all and token2 is read uninitialised.
generate_token_ranges ==
  /\ phase = "collect" /\ N > 0
  /\ phase' = "ready"
  /\ \E token2 \in IF N > 2 THEN {Token(N - 1)} ELSE Tokens :
       token_ranges' = Unless(Token(1) = MinToken, <<MinToken, Token(1)>>)
                         \o [i \in 1..(IF N > 2 THEN N - 2 ELSE 0) |-> <<Token(i), Token(i + 1)>>]
                         \o Unless(token2 = MaxToken, <<token2, MaxToken>>)
  /\ UNCHANGED <<tokensInCluster, partitions>>

\* A plausible bug: the token of a node itself is given to the next node.
get_host_per_token_strict(t) ==
  LET C == {i \in 1..(N - 1) : Token(i) > t}
  IN  tokensInCluster[IF C = {} THEN N ELSE CHOOSE i \in C : \A j \in C : i <= j].host

\* get_host_per_token: the first token that is not less, or else the last one.
get_host_per_token(t) ==
  LET C == {i \in 1..(N - 1) : Token(i) >= t}
  IN  tokensInCluster[IF C = {} THEN N ELSE CHOOSE i \in C : \A j \in C : i <= j].host

-----------------------------------------------------------------------------
(* tools.py *)

\* tokens.sort(), of tokens that are all different: in place i the token with i up to it.
sort_not(tokens) == tokens                  \* a plausible bug: the ring is taken as it comes
sort(tokens) ==
  LET all == {tokens[i] : i \in DOMAIN tokens}
  IN  [i \in DOMAIN tokens |-> CHOOSE t \in all : Cardinality({u \in all : u <= t}) = i]

discrete_token_ranges(tokens) ==
  LET s == sort(tokens)
      n == Len(tokens)
  IN  IF n = 0 THEN <<>>
      ELSE Unless(s[1] = MinToken, <<MinToken, s[1]>>)
             \o [i \in 1..(n - 1) |-> <<s[i], s[i + 1]>>]
             \o <<<<s[n], MaxToken>>>>

\* The ranges of the driver's ring.
RingTokens == [i \in 1..N |-> Token(i)]
generate_token_ring_ranges == discrete_token_ranges(RingTokens)

\* A plausible bug: bisect_left instead of bisect_right.
NodeOf_left(range) ==
  LET n == Cardinality({i \in 1..N : Token(i) < range[1]})
  IN  tokensInCluster[IF n = N THEN 1 ELSE n + 1].host

\* The primary replica that tokens_partitions gives a range to: the node of the
\* first ring token greater than the range's start (bisect_right), or the first.
NodeOf(range) ==
  tokensInCluster[IF UpTo(range[1]) = N THEN 1 ELSE UpTo(range[1]) + 1].host

\* The pieces that the inner loop cuts a range into.
Pieces(range, step) ==
  LET cut[a \in Tokens] ==
        IF a < range[2] - step THEN <<<<a, a + step>>>> \o cut[a + step]
        ELSE <<<<a, range[2]>>>>
  IN  cut[range[1]]

\* The pieces of the ranges of a node, one range after the other.
AllPieces(h, step) ==
  LET ranges == generate_token_ring_ranges
      upto[i \in 0..Len(ranges)] ==
        IF i = 0 THEN <<>>
        ELSE upto[i - 1] \o IF NodeOf(ranges[i]) = h THEN Pieces(ranges[i], step) ELSE <<>>
  IN  upto[Len(ranges)]

\* A plausible bug: consecutive groups share a piece.
Groups_overlap(all, g) ==
  {SubSeq(all, i, IF i + g <= Len(all) THEN i + g ELSE Len(all)) :
     i \in {j \in DOMAIN all : (j - 1) % g = 0}}

\* partition[i:i + group_size] for i in range(0, len(partition), group_size)
Groups(all, g) ==
  {SubSeq(all, i, IF i + g - 1 <= Len(all) THEN i + g - 1 ELSE Len(all)) :
     i \in {j \in DOMAIN all : (j - 1) % g = 0}}

\* The step sizes: token_range_size, or an equal share of the token space for at
\* least splits_per_node pieces per node (more if the size estimates say so).
StepSizes(splits, nodes) ==
  {s \in TokenRangeSize : s > 0}
    \cup IF 0 \in TokenRangeSize
         THEN {MaxToken \div p : p \in (splits * nodes)..MaxToken} \ {0}
         ELSE {}

\* The nodes that got a range: the keys of tokens_per_node.
Nodes == {NodeOf(generate_token_ring_ranges[i]) : i \in DOMAIN generate_token_ring_ranges}

\* What is yielded: the pieces of each node, in groups.
Partitions(splits, step) ==
  LET groups(h) == LET all == AllPieces(h, step)
                       size == Len(all) \div splits
                   IN  Groups(all, IF size > 1 THEN size ELSE 1)
  IN  UNION {{[host |-> h, ranges |-> g] : g \in groups(h)} : h \in Nodes}

\* tokens_partitions of the whole ring.
tokens_partitions(splits, step) ==
  /\ phase = "ready"
  /\ phase' = "split"
  /\ step \in StepSizes(splits, Cardinality(Nodes))
  /\ partitions' = Partitions(splits, step)
  /\ UNCHANGED <<tokensInCluster, token_ranges>>

done == phase = "split" /\ UNCHANGED vars

Next ==
  \/ \E t \in Tokens, h \in Hosts : insert_token(t, h)
  \/ generate_token_ranges
  \/ \E splits \in SplitsPerNode, step \in 1..MaxToken : tokens_partitions(splits, step)
  \/ done

Spec == Init /\ [][Next]_vars

-----------------------------------------------------------------------------
(* Properties. *)

Within(t, range) == range[1] <= t /\ t < range[2]

\* Every token is in exactly one of the ranges.  LONG_MAX itself is in none,
\* since a range excludes its end.
CoverOnce(ranges) ==
  \A t \in MinToken..(MaxToken - 1) :
    Cardinality({i \in DOMAIN ranges : Within(t, ranges[i])}) = 1

\* Who stores a token: the node of the first ring token not less than it, and the
\* first node beyond the last one (Cassandra).
Owner(t) ==
  LET C == {i \in 1..N : Token(i) >= t}
  IN  tokensInCluster[IF C = {} THEN 1 ELSE CHOOSE i \in C : \A j \in C : i <= j].host

\* The tokens of the ring in any order.
Orders == {s \in [1..N -> {Token(i) : i \in 1..N}] : \A i \in 1..N : \E j \in 1..N : s[j] = Token(i)}

\* The Python iteration over the whole ring reads every row exactly once, in whatever order
\* discrete_token_ranges is given the tokens.
DiscreteRangesCover ==
  phase # "collect" => \A tokens \in Orders : CoverOnce(discrete_token_ranges(tokens))

\* So does the C++ iteration, on a ring of at least three tokens.
CppRangesCover == phase # "collect" /\ N > 2 => CoverOnce(token_ranges)

\* IStorage.split: every row is in exactly one range of exactly one partition,
\* whatever the number of splits and the step size.
PartitionsCover ==
  phase = "split" =>
    \A t \in MinToken..(MaxToken - 1) :
      \E p \in partitions :
        /\ Cardinality({i \in DOMAIN p.ranges : Within(t, p.ranges[i])}) = 1
        /\ \A q \in partitions : (\E i \in DOMAIN q.ranges : Within(t, q.ranges[i])) => q = p

\* Locality: what a partition reads is stored on one node.  The first token of a
\* range is left out: Cassandra's ranges exclude their start, hecuba's their end.
PartitionsLocal ==
  \A p \in partitions : \A i \in DOMAIN p.ranges :
    \A t \in (p.ranges[i][1] + 1)..(p.ranges[i][2] - 1) : Owner(t) = p.host

\* "Given a list of tokens [-1, 0, 10] Returns a rationalized list
\* [(min, -1) (-1, 0),(0,10),(10, max)]": generate_token_ranges computes what
\* discrete_token_ranges computes.
RangesAsDocumented == phase # "collect" => token_ranges = generate_token_ring_ranges

\* "Returns the host associated to a 'token'": get_host_per_token finds the node that
\* stores it, for every token.
HostOfEveryToken ==
  phase # "collect" => \A t \in Tokens : get_host_per_token(t) = Owner(t)

\* get_host_per_token finds the node that stores a token, up to the last token of
\* the ring; beyond it the ring wraps around to the first node, which
\* get_host_per_token does not do.
HostOwnsToken ==
  phase # "collect" => \A t \in MinToken..Token(N) : get_host_per_token(t) = Owner(t)
=============================================================================
