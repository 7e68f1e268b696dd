--------------------------- MODULE MCTokenRanges ---------------------------
(* A token space of eight tokens for TokenRanges. *)
EXTENDS TokenRanges

Lowest == -4
=============================================================================
