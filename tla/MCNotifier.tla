----------------------------- MODULE MCNotifier -----------------------------
(***************************************************************************)
(* Small instances of Notifier for TLC.                                    *)
(***************************************************************************)
EXTENDS Notifier, TLC

CONSTANTS f1, f2, s1, s2, p1, p2

\* For invariants only.
Interchangeable ==
  Permutations(Files) \cup Permutations(Sockets) \cup Permutations(Commits)
=============================================================================
