---------------------------- MODULE ChunkUpload ----------------------------
(***************************************************************************)
(* chunk_and_upload against the Block Server: one task per block of the    *)
(* file, a semaphore around each task, and up to three attempts per task,  *)
(* each of which is an upload call of BlockServer.                         *)
(*                                                                         *)
(* Client and server part ways in time: the server may have counted a      *)
(* block whose answer is lost, and may still be working on a call that the *)
(* client has given up and sent again.  ClientFlow puts the steps of the   *)
(* client, of the server and of the commit that follows together.          *)
(***************************************************************************)
EXTENDS BlockServer

CONSTANTS
  Blocks,      \* block indices of the file
  MaxAttempts, \* stop_after_attempt
  Concurrency  \* the value of the semaphore

ASSUME AttemptsAssumption == MaxAttempts \in Nat \ {0} /\ Concurrency \in Nat \ {0}
ASSUME CallsAssumption ==
  Uploads = Blocks \X (1 .. MaxAttempts) /\ Reads = {}
\* enumerate numbers the chunks from 0.
ASSUME BlocksAssumption ==
  IsFiniteSet(Blocks) /\ Blocks = 0 .. Cardinality(Blocks) - 1

VARIABLES
  task,        \* what the task of each block is doing
  attempt,     \* the attempt it is at; 0 before the first
  result       \* what chunk_and_upload has come to

clientVars == <<task, attempt, result>>
allVars == <<vars, clientVars>>

Ended == {"ok", "error"}

\* The call of a task's present attempt.
Call(i) == <<i, attempt[i]>>

\* Every attempt of a block carries the same bytes.
ClientInit ==
  /\ Init
  /\ \A i \in Blocks, k \in 1 .. MaxAttempts : hash[<<i, k>>] = hash[<<i, 1>>]
  /\ task = [i \in Blocks |-> "waiting"]
  /\ attempt = [i \in Blocks |-> 0]
  /\ result = "running"

Become(i, state) == task' = [task EXCEPT ![i] = state]

-----------------------------------------------------------------------------
(* The client.                                                             *)

\* Mutant: the semaphore is released only on success.
HoldersUntilOk == {i \in Blocks : task[i] \in {"sending", "backoff", "error"}}

\* async with sem surrounds the retries: a task that backs off keeps its slot.
Holders == {i \in Blocks : task[i] \in {"sending", "backoff"}}

Send(i) ==
  /\ attempt' = [attempt EXCEPT ![i] = @ + 1]
  /\ Become(i, "sending")
  /\ UNCHANGED <<vars, result>>

Acquire(i) ==
  /\ task[i] = "waiting"
  /\ Cardinality(Holders) < Concurrency
  /\ Send(i)

\* A 200 answer arrives.
Succeed(i) ==
  /\ task[i] = "sending"
  /\ pc[Call(i)] = "done"
  /\ Become(i, "ok")
  /\ UNCHANGED <<vars, attempt, result>>

\* aiohttp.ClientError: an error answer, or the connection breaks, whatever
\* the server has done with the call or is still going to do.  The last
\* attempt re-raises.
ClientError(i) ==
  /\ task[i] = "sending"
  /\ Become(i, IF attempt[i] < MaxAttempts THEN "backoff" ELSE "error")
  /\ UNCHANGED <<vars, attempt, result>>

\* The wait of the exponential backoff is over.
Retry(i) ==
  /\ task[i] = "backoff"
  /\ Send(i)

\* ClientTimeout(total = 60) raises asyncio.TimeoutError, which is neither a
\* ClientError nor a ServerTimeoutError: it is not retried.
TimeOut(i) ==
  /\ task[i] = "sending"
  /\ Become(i, "error")
  /\ UNCHANGED <<vars, attempt, result>>

\* Mutant: failures are filtered out of the results and nothing is raised.
GatherSome ==
  /\ result = "running"
  /\ \A i \in Blocks : task[i] \in Ended
  /\ result' = "returned"
  /\ UNCHANGED <<vars, task, attempt>>

\* gather waits for all tasks; one failure among them raises RuntimeError.
Gather ==
  /\ result = "running"
  /\ \A i \in Blocks : task[i] \in Ended
  /\ result' = IF \A i \in Blocks : task[i] = "ok" THEN "returned" ELSE "raised"
  /\ UNCHANGED <<vars, task, attempt>>

\* The calls that the server may be working on.
Sent == {c \in Uploads : c[2] <= attempt[c[1]]}

\* What a task does by itself or when its request ends.
TaskStep(i) ==
  \/ Acquire(i)
  \/ Succeed(i)
  \/ ClientError(i)
  \/ Retry(i)
  \/ TimeOut(i)

-----------------------------------------------------------------------------
(* Properties.                                                             *)

BlocksWith(h) == {i \in Blocks : hash[<<i, 1>>] = h}

\* When chunk_and_upload returns, every block of the file has a row, and each
\* position of the file is counted, whatever attempts were lost or repeated.
ReturnMeansStored ==
  result = "returned" =>
    \A h \in Hashes : BlocksWith(h) # {} =>
      /\ h \in rows
      /\ refs[h] >= Cardinality(BlocksWith(h))

\* The upload comes to an end whatever server and network do, even when there
\* are more blocks than slots and all of them fail.
UploadEnds == result = "running" ~> result # "running"
=============================================================================
