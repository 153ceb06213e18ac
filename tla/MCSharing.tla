----------------------------- MODULE MCSharing -----------------------------
(***************************************************************************)
(* Small instances of Sharing for TLC.                                     *)
(***************************************************************************)
EXTENDS Sharing, TLC

CONSTANTS u1, u2, f1, f2, x1, c1, c2, c3

\* No expiry, and one and two units of time.
ShortTTLs == {0, 1, 2}

Interchangeable ==
  Permutations(Users) \cup Permutations(Folders) \cup Permutations(Calls)
=============================================================================
