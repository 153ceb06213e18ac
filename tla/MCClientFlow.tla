---------------------------- MODULE MCClientFlow ----------------------------
(***************************************************************************)
(* Small instances of ClientFlow for TLC.                                  *)
(***************************************************************************)
EXTENDS ClientFlow

CONSTANTS x, y, f1

UploadCalls == Blocks \X (1 .. MaxAttempts)

\* A short last block, two blocks, and the same block twice.
TwoChunks == {<<x, y, x>>, <<x, y, x, y>>}

ChunksOfThese == UNION {{ChunkFile(c)[i] : i \in DOMAIN ChunkFile(c)} : c \in Contents}
=============================================================================
