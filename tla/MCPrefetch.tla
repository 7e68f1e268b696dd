----------------------------- MODULE MCPrefetch -----------------------------
(* Small instances of Prefetch for TLC. *)
EXTENDS Prefetch

\* Three token ranges: two rows, none, two rows.
ThreeRanges == <<2, 2, 4>>
=============================================================================
