-------------------------- MODULE MCVersionCommit --------------------------
(***************************************************************************)
(* Small instances of VersionCommit for TLC.                               *)
(***************************************************************************)
EXTENDS VersionCommit, TLC

CONSTANTS f1, f2, a, b, r1, r2, r3

\* Two blocks in both orders, so that two commits can lock them crosswise,
\* and a list that repeats a block.
CrossedLists == {<<a>>, <<a, b>>, <<b, a>>, <<a, a>>}

\* Properties without an order among requests, files or hashes.
Interchangeable == Permutations(Requests) \cup Permutations(Files)
=============================================================================
