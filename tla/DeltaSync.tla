------------------------------ MODULE DeltaSync ------------------------------
(***************************************************************************)
(* SyncService.GetMissingBlocks: a device that has the blocks of one       *)
(* version of a file asks which blocks it misses for the current version,  *)
(* and the service moves the device's cursor.  The handler runs three      *)
(* statements outside any transaction; commits and deletions of the file,  *)
(* and other calls of the same device, may come between them.              *)
(*                                                                         *)
(* Commits are the atomic ones of VersionHistory, which VersionCommit      *)
(* implements.  A version is known by its number, 0 stands for NULL.       *)
(***************************************************************************)
EXTENDS VersionHistory, FiniteSets

CONSTANTS
  Devices,
  Calls,       \* calls of GetMissingBlocks, each made once
  MaxVersions  \* bound on the versions of each file

ASSUME VersionsAssumption == MaxVersions \in [Files -> Nat]

VARIABLES
  cursor,      \* device_cursors.last_seen_version, by device and file
  call,        \* the arguments of each call: device, file, and the version the
               \* device has, by its file (known) and number (from; 0 for none)
  pc,          \* the next statement of each call
  missing,     \* get_missing_blocks' result
  seen,        \* get_current_version_id's result
  \* history variables
  asked,       \* the file's current version when the call was admitted
  basis,       \* the version that get_missing_blocks compared with
  removedFirst,\* the file was removed before get_missing_blocks ran
  overlapped   \* calls under way together with another of their device

locals == <<call, pc, missing, seen>>
observed == <<asked, basis, removedFirst, overlapped>>
syncVars == <<cursor, locals, observed>>
allVars == <<vars, syncVars>>

Active == {"missing", "current", "cursor", "answer"}
Finished == {"done", "failed"}
NoCall == {none \in [device : Devices, file : Files, known : Files, from : {0}] :
             none.known = none.file}

SyncInit ==
  /\ Init
  /\ cursor = [df \in Devices \X Files |-> 0]
  /\ call \in [Calls -> NoCall]
  /\ pc = [c \in Calls |-> "idle"]
  /\ missing = [c \in Calls |-> {}]
  /\ seen = [c \in Calls |-> 0]
  /\ asked = [c \in Calls |-> 0]
  /\ basis = [c \in Calls |-> 0]
  /\ removedFirst = [c \in Calls |-> FALSE]
  /\ overlapped = {}

Goto(c, label) == pc' = [pc EXCEPT ![c] = label]

\* The version the statements of the handler can see: none of a removed file.
Visible(f) == IF f \in removed THEN 0 ELSE CurrentVersion(f)

ActiveCalls(d, f) ==
  {c \in Calls : pc[c] \in Active /\ call[c].device = d /\ call[c].file = f}

-----------------------------------------------------------------------------
(* The handler.                                                            *)

\* The device belongs to the user, the file is not deleted, the user may read
\* its folder.  The client names a version it has, or none, and nothing checks
\* that it is one of this file.  A refused call changes nothing.
Admit(c) ==
  /\ pc[c] = "idle"
  /\ LET f == call[c].file
         others == ActiveCalls(call[c].device, f)
     IN
       /\ f \notin removed
       /\ overlapped' = overlapped \cup others \cup
            (IF others = {} THEN {} ELSE {c})
       /\ \E g \in Files : \E n \in 0 .. CurrentVersion(g) :
            /\ n = 0 => g = f
            /\ call' = [call EXCEPT ![c].known = g, ![c].from = n]
       /\ asked' = [asked EXCEPT ![c] = CurrentVersion(f)]
  /\ Goto(c, "missing")
  /\ UNCHANGED <<vars, cursor, missing, seen, basis, removedFirst>>

\* NOT_FOUND or PERMISSION_DENIED.
Refuse(c) ==
  /\ pc[c] = "idle"
  /\ Goto(c, "failed")
  /\ UNCHANGED <<vars, cursor, call, missing, seen, observed>>

\* Mutant: the device is taken to have every version up to the one it names.
ReadMissingSinceFirst(c) ==
  /\ pc[c] = "missing"
  /\ LET f == call[c].file IN
       /\ missing' = [missing EXCEPT ![c] = BlocksOf(f, Visible(f)) \
                       UNION {BlocksOf(call[c].known, n) : n \in 0 .. call[c].from}]
       /\ basis' = [basis EXCEPT ![c] = Visible(f)]
       /\ removedFirst' = [removedFirst EXCEPT ![c] = f \in removed]
  /\ Goto(c, "current")
  /\ UNCHANGED <<vars, cursor, call, seen, asked, overlapped>>

\* get_missing_blocks: the set difference, in one statement.
ReadMissing(c) ==
  /\ pc[c] = "missing"
  /\ LET f == call[c].file IN
       /\ missing' = [missing EXCEPT ![c] =
                       BlocksOf(f, Visible(f)) \ BlocksOf(call[c].known, call[c].from)]
       /\ basis' = [basis EXCEPT ![c] = Visible(f)]
       /\ removedFirst' = [removedFirst EXCEPT ![c] = f \in removed]
  /\ Goto(c, "current")
  /\ UNCHANGED <<vars, cursor, call, seen, asked, overlapped>>

\* Mutant: the version found at admission is good enough for the cursor.
ReuseAdmitted(c) ==
  /\ pc[c] = "current"
  /\ seen' = [seen EXCEPT ![c] = asked[c]]
  /\ Goto(c, IF seen'[c] = 0 THEN "answer" ELSE "cursor")
  /\ UNCHANGED <<vars, cursor, call, missing, observed>>

\* get_current_version_id: a second look at the file, for the cursor.
ReadCurrent(c) ==
  /\ pc[c] = "current"
  /\ seen' = [seen EXCEPT ![c] = Visible(call[c].file)]
  /\ Goto(c, IF seen'[c] = 0 THEN "answer" ELSE "cursor")
  /\ UNCHANGED <<vars, cursor, call, missing, observed>>

\* Mutant: the cursor is set to the version the client named.
UpsertNamed(c) ==
  /\ pc[c] = "cursor"
  /\ cursor' = [cursor EXCEPT ![<<call[c].device, call[c].file>>] = call[c].from]
  /\ Goto(c, "answer")
  /\ UNCHANGED <<vars, call, missing, seen, observed>>

\* upsert_device_cursor overwrites whatever is there.
UpsertCursor(c) ==
  /\ pc[c] = "cursor"
  /\ cursor' = [cursor EXCEPT ![<<call[c].device, call[c].file>>] = seen[c]]
  /\ Goto(c, "answer")
  /\ UNCHANGED <<vars, call, missing, seen, observed>>

Answer(c) ==
  /\ pc[c] = "answer"
  /\ Goto(c, "done")
  /\ UNCHANGED <<vars, cursor, call, missing, seen, observed>>

\* INTERNAL, or the answer is lost on its way: the cursor stays as it is.
Fail(c) ==
  /\ pc[c] \in Active
  /\ Goto(c, "failed")
  /\ UNCHANGED <<vars, cursor, call, missing, seen, observed>>

-----------------------------------------------------------------------------
(* The rest of the service.                                                *)

HistoryStep ==
  /\ \/ \E h \in Hashes : UploadBlock(h)
     \/ \E f \in Files, blocks \in BlockLists :
          CurrentVersion(f) < MaxVersions[f] /\ CommitVersion(f, blocks)
     \/ \E f \in Files : RemoveFile(f)
  /\ UNCHANGED syncVars

\* Every call is over: the service waits for new ones.
Idle ==
  /\ \A c \in Calls : pc[c] \in Finished
  /\ UNCHANGED allVars

SyncNext ==
  \/ HistoryStep
  \/ \E c \in Calls :
       \/ Admit(c)
       \/ Refuse(c)
       \/ ReadMissing(c)
       \/ ReadCurrent(c)
       \/ UpsertCursor(c)
       \/ Answer(c)
       \/ Fail(c)
  \/ Idle

SyncSpec == SyncInit /\ [][SyncNext]_allVars

-----------------------------------------------------------------------------
(* Properties.                                                             *)

\* Every version a cursor or a call names exists.
SyncTypeOK ==
  /\ TypeOK
  /\ cursor \in [Devices \X Files -> Nat]
  /\ \A d \in Devices, f \in Files : cursor[<<d, f>>] <= CurrentVersion(f)
  /\ call \in [Calls -> [device : Devices, file : Files, known : Files, from : Nat]]
  /\ pc \in [Calls -> Active \cup Finished \cup {"idle"}]
  /\ missing \in [Calls -> SUBSET Hashes]
  /\ seen \in [Calls -> Nat]
  /\ asked \in [Calls -> Nat]
  /\ basis \in [Calls -> Nat]
  /\ removedFirst \in [Calls -> BOOLEAN]
  /\ overlapped \subseteq Calls
  /\ \A c \in Calls :
       /\ call[c].from <= CurrentVersion(call[c].known)
       /\ {seen[c], asked[c], basis[c]} \subseteq 0 .. CurrentVersion(call[c].file)

\* With what it named and what it is told, the device can build a version
\* that was current during its call, and is told no block it has, whatever
\* is committed meanwhile.  (A file removed between the admission and the
\* query gives an empty answer instead.)
AnswerCompletesVersion ==
  \A c \in Calls : pc[c] \in {"current", "cursor", "answer", "done"} =>
    LET f == call[c].file
        held == BlocksOf(call[c].known, call[c].from)
    IN  /\ missing[c] \cap held = {}
        /\ ~removedFirst[c] =>
             basis[c] >= asked[c] /\ BlocksOf(f, basis[c]) \subseteq held \cup missing[c]

\* The cursor a call writes is never older than the version its answer leads
\* to, because the version is read after the answer.
CursorNotBehindAnswer ==
  \A c \in Calls : pc[c] \in {"cursor", "answer", "done"} /\ seen[c] # 0 =>
    seen[c] >= basis[c]

\* Calls that a device makes one after the other never move its cursor back,
\* whatever is committed or removed between their statements.
CursorGoesBackOnlyByOverlap ==
  [][\A c \in Calls \ overlapped : pc[c] = "cursor" =>
       LET df == <<call[c].device, call[c].file>>
       IN  cursor'[df] >= cursor[df]]_allVars

\* "Advance cursor to current version (device has downloaded all blocks)":
\* with its answer, a device has every block of the version its call wrote.
CursorCoversDevice ==
  \A c \in Calls : pc[c] = "done" /\ seen[c] # 0 =>
    LET f == call[c].file
    IN  BlocksOf(f, seen[c]) \subseteq
          BlocksOf(call[c].known, call[c].from) \cup missing[c]
=============================================================================
