------------------------------ MODULE FileSaves ------------------------------
(***************************************************************************)
(* What the user of a client sees of the whole way of a file, with no      *)
(* block, attempt, row, lock or service in sight: the upload comes to its  *)
(* end once, and every save after it adds the file as it is, in one step   *)
(* and for good.  ClientFlow implements this.                              *)
(***************************************************************************)

CONSTANTS
  Contents,    \* what the file may contain
  Saves        \* the times that the file is saved

VARIABLES
  content,     \* what the file contains
  upload,      \* what chunk_and_upload has come to
  saved        \* the versions: which save, and what is read back of it

vars == <<content, upload, saved>>

Init ==
  /\ content \in Contents
  /\ upload = "running"
  /\ saved = {}

EndUpload ==
  /\ upload = "running"
  /\ upload' \in {"returned", "raised"}
  /\ UNCHANGED <<content, saved>>

\* A save appears whole, and leaves those before it as they are.
Save(s) ==
  /\ upload = "returned"
  /\ \A version \in saved : version.save # s
  /\ saved' = saved \cup {[save |-> s, bytes |-> content]}
  /\ UNCHANGED <<content, upload>>

Next == EndUpload \/ \E s \in Saves : Save(s)

Spec == Init /\ [][Next]_vars
=============================================================================
