--------------------------- MODULE VersionHistory ---------------------------
(***************************************************************************)
(* What the Metadata Service promises about versions, with no transaction, *)
(* lock or statement in sight: every file has a history, a list of         *)
(* versions numbered 1, 2, 3, ..., each an ordered list of block hashes.   *)
(* A commit appends one version in one step, never rewrites one, and only  *)
(* names blocks that have been uploaded.  VersionCommit implements this.   *)
(***************************************************************************)
EXTENDS Integers, Sequences

CONSTANTS
  Files,       \* rows of the files table
  Hashes,      \* SHA-256 block hashes
  BlockLists   \* the block_hashes a commit may carry

ASSUME ListsAssumption == BlockLists \subseteq Seq(Hashes) \ {<<>>}

VARIABLES
  history,     \* history[f]: the block lists of f's versions, oldest first
  removed,     \* the soft-deleted files
  uploaded     \* the hashes the Block Server has a row for

vars == <<history, removed, uploaded>>

TypeOK ==
  /\ history \in [Files -> Seq(BlockLists)]
  /\ removed \subseteq Files
  /\ uploaded \subseteq Hashes

Init ==
  /\ history = [f \in Files |-> <<>>]
  /\ removed = {}
  /\ uploaded = {}

UploadBlock(h) ==
  /\ uploaded' = uploaded \cup {h}
  /\ UNCHANGED <<history, removed>>

\* A removed file may still gain the versions of commits that were admitted
\* before the removal, so removal does not disable the step.
CommitVersion(f, blocks) ==
  /\ \A i \in DOMAIN blocks : blocks[i] \in uploaded
  /\ history' = [history EXCEPT ![f] = Append(@, blocks)]
  /\ UNCHANGED <<removed, uploaded>>

\* Mutant: DELETE FROM files, which cascades to the versions.
DropFile(f) ==
  /\ f \notin removed
  /\ removed' = removed \cup {f}
  /\ history' = [history EXCEPT ![f] = <<>>]
  /\ UNCHANGED uploaded

\* A soft deletion: the versions stay.
RemoveFile(f) ==
  /\ f \notin removed
  /\ removed' = removed \cup {f}
  /\ UNCHANGED <<history, uploaded>>

Next ==
  \/ \E h \in Hashes : UploadBlock(h)
  \/ \E f \in Files, blocks \in BlockLists : CommitVersion(f, blocks)
  \/ \E f \in Files : RemoveFile(f)

Spec == Init /\ [][Next]_vars

-----------------------------------------------------------------------------

CurrentVersion(f) == Len(history[f])

\* The hashes of version n of file f; version 0 stands for "no version".
BlocksOf(f, n) ==
  IF n = 0 THEN {} ELSE {history[f][n][i] : i \in DOMAIN history[f][n]}
=============================================================================
