--------------------------- MODULE MCBlockServer ---------------------------
(***************************************************************************)
(* Small instances of BlockServer for TLC.                                 *)
(***************************************************************************)
EXTENDS BlockServer, TLC

CONSTANTS a, b, u1, u2, u3, g1, g2

\* For invariants only.
Interchangeable ==
  Permutations(Uploads) \cup Permutations(Reads) \cup Permutations(Hashes)
=============================================================================
