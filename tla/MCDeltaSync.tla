---------------------------- MODULE MCDeltaSync ----------------------------
(***************************************************************************)
(* Small instances of DeltaSync for TLC.                                   *)
(***************************************************************************)
EXTENDS DeltaSync, TLC

CONSTANTS a, b, f1, f2, d1, d2, c1, c2, c3

\* A later version may add a block, drop one, or bring one back.
Lists == {<<a>>, <<b, a>>}

\* A device may name the version of another file, of which there is one.
Versions == [f \in Files |-> IF f = f1 THEN 2 ELSE 1]
TwoVersions == [f \in Files |-> 2]

\* For invariants only.
Interchangeable == Permutations(Devices) \cup Permutations(Calls)
=============================================================================
