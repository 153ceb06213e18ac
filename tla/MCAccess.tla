------------------------------ MODULE MCAccess ------------------------------
(***************************************************************************)
(* Small instances of Access for TLC.                                      *)
(***************************************************************************)
EXTENDS Access, TLC

CONSTANTS e1, e2, p1, p2, r1, r2, l1, l2, q1, q2

Interchangeable ==
  Permutations(Emails) \cup Permutations(Passwords) \cup Permutations(Registrations)
    \cup Permutations(Logins) \cup Permutations(Requests)
=============================================================================
