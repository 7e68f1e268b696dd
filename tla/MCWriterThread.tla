--------------------------- MODULE MCWriterThread ---------------------------
(* Small instances of WriterThread for TLC. *)
EXTENDS WriterThread, TLC

\* Writers, keys and I/O threads are interchangeable.
Symmetry == Permutations(Writers) \cup Permutations(Keys) \cup Permutations(IOThreads)
=============================================================================
