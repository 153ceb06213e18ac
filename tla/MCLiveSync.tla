----------------------------- MODULE MCLiveSync -----------------------------
(***************************************************************************)
(* Small instances of LiveSync for TLC.                                    *)
(***************************************************************************)
EXTENDS LiveSync

CONSTANTS f1, s1, s2, p1, p2
=============================================================================
