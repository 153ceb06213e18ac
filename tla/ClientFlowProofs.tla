-------------------------- MODULE ClientFlowProofs --------------------------
(***************************************************************************)
(* Proofs about the whole way of a file, from its blocks to its versions,  *)
(* for any number of blocks, attempts, slots and commits: what has been    *)
(* uploaded is stored, no commit meets an unknown block, counts add up     *)
(* over both services, the commits are those of VersionCommit although the *)
(* statements of uploads come in between, and the whole is FileSaves.      *)
(***************************************************************************)
EXTENDS ClientFlow, BlockServerProofs, SequenceTheorems, WellFoundedInduction

(***************************************************************************)
(* Cutting up and putting together.  ChunkFile and Flatten are recursive   *)
(* functions.  That the functions exist, and what they compute, is shown   *)
(* by induction over the naturals, which here is a lemma about sets: a set *)
(* that leaves out a number leaves out a least one.                        *)
(***************************************************************************)

\* A set with 0 and the successor of each of its numbers has all numbers.
LEMMA Induction ==
  ASSUME NEW S, 0 \in S, \A n \in Nat : n \in S => n + 1 \in S
  PROVE  Nat \subseteq S
<1> SUFFICES ASSUME Nat \ S # {} PROVE FALSE
  OBVIOUS
<1> DEFINE R == OpToRel(<, Nat)
<1>1. IsWellFoundedOn(R, Nat)
  BY NatLessThanWellFounded
<1>2. \A n, m \in Nat : n < m => <<n, m>> \in R
  BY DEF OpToRel
<1> HIDE DEF R
<1>3. PICK least \in Nat \ S : \A n \in Nat \ S : ~(<<n, least>> \in R)
  <2>1. Nat \ S \subseteq Nat
    OBVIOUS
  <2> QED BY <1>1, <2>1, WFMin
<1>4. least - 1 \in Nat /\ least - 1 < least /\ (least - 1) + 1 = least
  <2>1. least # 0
    BY <1>3
  <2> QED BY <1>3, <2>1
<1>5. least - 1 \in S
  BY <1>2, <1>3, <1>4
<1> QED BY <1>3, <1>4, <1>5

\* One step of Flatten: what comes before list n, and then the list.
Joined(lists, upto, n) == IF n = 0 THEN <<>> ELSE upto[n - 1] \o lists[n]

\* The function by which Flatten goes through the lists.
IsUpto(lists, upto) == upto = [n \in 0 .. Len(lists) |-> Joined(lists, upto, n)]

\* What it does at each list.
LEMMA UptoStep ==
  ASSUME NEW lists, NEW upto, IsUpto(lists, upto), NEW n \in 1 .. Len(lists)
  PROVE  upto[n] = upto[n - 1] \o lists[n]
<1>1. n \in 0 .. Len(lists) /\ n # 0
  OBVIOUS
<1>2. upto = [m \in 0 .. Len(lists) |-> Joined(lists, upto, m)]
  BY DEF IsUpto
<1>3. upto[n] = Joined(lists, upto, n)
  BY <1>1, <1>2
<1> QED BY <1>1, <1>3 DEF Joined

\* The function exists: it can be carried on from each list to the next.
LEMMA UptoExists ==
  ASSUME NEW lists, Len(lists) \in Nat
  PROVE  \E upto : IsUpto(lists, upto)
<1> DEFINE Reach(n) == \E u : u = [m \in 0 .. n |-> Joined(lists, u, m)]
           S == {n \in Nat : Reach(n)}
<1>1. 0 \in S
  <2> DEFINE u == [m \in 0 .. 0 |-> <<>>]
  <2>1. u = [m \in 0 .. 0 |-> Joined(lists, u, m)]
    BY DEF Joined
  <2> HIDE DEF u
  <2> QED BY <2>1
<1>2. ASSUME NEW n \in Nat, n \in S PROVE n + 1 \in S
  <2>1. PICK u : u = [m \in 0 .. n |-> Joined(lists, u, m)]
    BY <1>2
  <2> DEFINE w == [m \in 0 .. n + 1 |-> Joined(lists, u, m)]
  <2>2. \A m \in 0 .. n : w[m] = u[m]
    BY <2>1
  <2>3. \A m \in 0 .. n + 1 : Joined(lists, w, m) = Joined(lists, u, m)
    <3> SUFFICES ASSUME NEW m \in 0 .. n + 1 PROVE Joined(lists, w, m) = Joined(lists, u, m)
      OBVIOUS
    <3>1. m # 0 => w[m - 1] = u[m - 1]
      BY <2>2
    <3> QED BY <3>1 DEF Joined
  <2>4. w = [m \in 0 .. n + 1 |-> Joined(lists, w, m)]
    BY <2>3
  <2> HIDE DEF w
  <2> QED BY <2>4
<1>3. Nat \subseteq S
  <2> HIDE DEF S
  <2> QED BY <1>1, <1>2, Induction
<1> QED BY <1>3 DEF IsUpto

\* Flatten is the last value of such a function.
LEMMA FlattenUpto ==
  ASSUME NEW lists, Len(lists) \in Nat
  PROVE  \E upto : IsUpto(lists, upto) /\ Flatten(lists) = upto[Len(lists)]
<1> DEFINE F == CHOOSE upto : upto = [n \in 0 .. Len(lists) |-> Joined(lists, upto, n)]
<1>1. \E upto : upto = [n \in 0 .. Len(lists) |-> Joined(lists, upto, n)]
  BY UptoExists DEF IsUpto
<1>2. F = [n \in 0 .. Len(lists) |-> Joined(lists, F, n)]
  BY <1>1
<1>3. Flatten(lists) = F[Len(lists)]
  BY DEF Flatten, Joined
<1> QED BY <1>2, <1>3 DEF IsUpto

\* No lists, no elements.
LEMMA FlattenNone == Flatten(<<>>) = <<>>
<1>1. Len(<<>>) = 0
  OBVIOUS
<1>2. PICK u : IsUpto(<<>>, u) /\ Flatten(<<>>) = u[0]
  BY <1>1, FlattenUpto
<1> QED BY <1>1, <1>2 DEF IsUpto, Joined

\* ConcatAssociative, for use under other names.
LEMMA Associative ==
  ASSUME NEW S, NEW a \in Seq(S), NEW b \in Seq(S), NEW c \in Seq(S)
  PROVE  (a \o b) \o c = a \o (b \o c)
BY ConcatAssociative

\* Flatten goes from left to right, but can be read from right to left.
LEMMA FlattenFirst ==
  ASSUME NEW S, NEW first \in Seq(S), NEW rest \in Seq(Seq(S))
  PROVE  Flatten(<<first>> \o rest) = first \o Flatten(rest)
<1> DEFINE all == <<first>> \o rest
           k == Len(rest)
<1>1. /\ all \in Seq(Seq(S)) /\ k \in Nat /\ Len(all) = k + 1
      /\ all[1] = first
      /\ \A n \in 1 .. k : all[n + 1] = rest[n] /\ rest[n] \in Seq(S)
  OBVIOUS
<1>2. PICK u : IsUpto(all, u) /\ Flatten(all) = u[k + 1]
  <2> HIDE DEF all, k
  <2>1. Len(all) \in Nat
    BY <1>1
  <2>2. \E u : IsUpto(all, u) /\ Flatten(all) = u[Len(all)]
    BY <2>1, FlattenUpto
  <2> QED BY <1>1, <2>2
<1>3. PICK w : IsUpto(rest, w) /\ Flatten(rest) = w[k]
  BY <1>1, FlattenUpto
<1> HIDE DEF all, k
<1> DEFINE T == {n \in Nat : n <= k => w[n] \in Seq(S) /\ u[n + 1] = first \o w[n]}
<1>4. 0 \in T
  <2>1. w[0] = <<>>
    BY <1>1, <1>3 DEF IsUpto, Joined, k
  <2>2. u[0] = <<>>
    BY <1>1, <1>2 DEF IsUpto, Joined
  <2>3. u[1] = u[1 - 1] \o all[1]
    <3>1. 1 \in 1 .. Len(all)
      BY <1>1
    <3> QED BY <1>2, <3>1, UptoStep
  <2>4. u[0 + 1] = first \o w[0]
    <3>1. u[1] = <<>> \o first /\ <<>> \o first = first /\ first \o <<>> = first
      BY <1>1, <2>2, <2>3, ConcatEmptySeq
    <3> QED BY <2>1, <3>1
  <2>5. w[0] \in Seq(S)
    BY <2>1, EmptySeq
  <2> QED BY <2>4, <2>5
<1>5. ASSUME NEW n \in Nat, n \in T PROVE n + 1 \in T
  <2> SUFFICES ASSUME n + 1 <= k
               PROVE  w[n + 1] \in Seq(S) /\ u[(n + 1) + 1] = first \o w[n + 1]
    OBVIOUS
  <2>1. w[n] \in Seq(S) /\ u[n + 1] = first \o w[n]
    BY <1>1, <1>5
  <2>2. w[n + 1] = w[(n + 1) - 1] \o rest[n + 1]
    <3>1. n + 1 \in 1 .. Len(rest)
      BY <1>1 DEF k
    <3> QED BY <1>3, <3>1, UptoStep
  <2>3. u[(n + 1) + 1] = u[((n + 1) + 1) - 1] \o all[(n + 1) + 1]
    <3>1. (n + 1) + 1 \in 1 .. Len(all)
      BY <1>1
    <3> QED BY <1>2, <3>1, UptoStep
  <2>4. all[(n + 1) + 1] = rest[n + 1] /\ rest[n + 1] \in Seq(S)
    BY <1>1
  <2>5. (n + 1) - 1 = n /\ ((n + 1) + 1) - 1 = n + 1
    OBVIOUS
  <2>6. w[n + 1] = w[n] \o rest[n + 1] /\ w[n + 1] \in Seq(S)
    BY <2>1, <2>2, <2>4, <2>5, ConcatProperties
  <2>7. u[(n + 1) + 1] = (first \o w[n]) \o rest[n + 1]
    BY <2>1, <2>3, <2>4, <2>5
  <2>8. (first \o w[n]) \o rest[n + 1] = first \o (w[n] \o rest[n + 1])
    <3>1. w[n] \in Seq(S) /\ rest[n + 1] \in Seq(S)
      BY <2>1, <2>4
    <3>2. \A x, y \in Seq(S) : (first \o x) \o y = first \o (x \o y)
      BY Associative
    <3> QED BY <3>1, <3>2
  <2> QED BY <2>6, <2>7, <2>8
<1>6. Nat \subseteq T
  <2> HIDE DEF T
  <2> QED BY <1>4, <1>5, Induction
<1>7. u[k + 1] = first \o w[k]
  BY <1>1, <1>6
<1> QED BY <1>2, <1>3, <1>7 DEF all

\* Where the block that starts at pos ends.
EndOf(bytes, pos) ==
  IF pos + ChunkSize < Len(bytes) THEN pos + ChunkSize ELSE Len(bytes)

BlockAt(bytes, pos) == SubSeq(bytes, pos + 1, EndOf(bytes, pos))

\* One step of ChunkFile: the block at pos, and then the rest.
CutFrom(bytes, rest, pos) ==
  IF BlockAt(bytes, pos) = <<>> THEN <<>> ELSE <<BlockAt(bytes, pos)>> \o rest[EndOf(bytes, pos)]

\* The function by which ChunkFile goes through the file.
IsRest(bytes, rest) ==
  rest = [pos \in 0 .. Len(bytes) + ChunkSize |-> CutFrom(bytes, rest, pos)]

\* Where a block is: it is empty at the end of the file alone.
LEMMA BlockPlaces ==
  ASSUME NEW S, NEW bytes \in Seq(S), NEW pos \in Nat
  PROVE  /\ Len(bytes) \in Nat
         /\ EndOf(bytes, pos) \in 0 .. Len(bytes)
         /\ pos >= Len(bytes) => BlockAt(bytes, pos) = <<>>
         /\ pos < Len(bytes) => /\ EndOf(bytes, pos) > pos
                                /\ BlockAt(bytes, pos) \in Seq(S)
                                /\ BlockAt(bytes, pos) # <<>>
<1>1. Len(bytes) \in Nat /\ \A i \in 1 .. Len(bytes) : bytes[i] \in S
  OBVIOUS
<1>2. /\ EndOf(bytes, pos) \in 0 .. Len(bytes)
      /\ pos >= Len(bytes) => EndOf(bytes, pos) < pos + 1
      /\ pos < Len(bytes) => EndOf(bytes, pos) > pos
  BY <1>1, SizeAssumption DEF EndOf
<1>3. ASSUME pos >= Len(bytes) PROVE BlockAt(bytes, pos) = <<>>
  BY <1>2, <1>3, SubSeqEmpty DEF BlockAt
<1>4. ASSUME pos < Len(bytes)
      PROVE  BlockAt(bytes, pos) \in Seq(S) /\ BlockAt(bytes, pos) # <<>>
  <2> DEFINE end == EndOf(bytes, pos)
  <2>1. end \in Int /\ pos + 1 \in Int /\ pos + 1 <= end /\ end <= Len(bytes)
    BY <1>1, <1>2, <1>4
  <2> HIDE DEF end
  <2>2. \A i \in pos + 1 .. end : bytes[i] \in S
    BY <1>1, <2>1
  <2>3. /\ SubSeq(bytes, pos + 1, end) \in Seq(S)
        /\ Len(SubSeq(bytes, pos + 1, end)) = end - (pos + 1) + 1
    BY <2>1, <2>2, SubSeqProperties
  <2>4. Len(SubSeq(bytes, pos + 1, end)) # 0
    BY <2>1, <2>3
  <2> QED BY <2>3, <2>4, EmptySeq DEF BlockAt, end
<1> QED BY <1>1, <1>2, <1>3, <1>4

\* The function exists: it can be carried on from the end of the file back.
LEMMA RestExists ==
  ASSUME NEW S, NEW bytes \in Seq(S)
  PROVE  \E rest : IsRest(bytes, rest)
<1> DEFINE L == Len(bytes)
           From(n) == {pos \in 0 .. L + ChunkSize : pos + n >= L}
           T == {n \in Nat : \E g : g = [pos \in From(n) |-> CutFrom(bytes, g, pos)]}
<1>1. L \in Nat /\ ChunkSize \in Nat
  BY SizeAssumption
<1> HIDE DEF L
<1>2. 0 \in T
  <2> DEFINE g == [pos \in From(0) |-> <<>>]
  <2>1. \A pos \in From(0) : CutFrom(bytes, g, pos) = <<>>
    <3> SUFFICES ASSUME NEW pos \in From(0) PROVE BlockAt(bytes, pos) = <<>>
      BY DEF CutFrom
    <3>1. pos \in Nat /\ pos >= L
      BY <1>1
    <3> QED BY <3>1, BlockPlaces DEF L
  <2>2. g = [pos \in From(0) |-> CutFrom(bytes, g, pos)]
    BY <2>1
  <2> HIDE DEF g
  <2> QED BY <2>2
<1>3. ASSUME NEW n \in Nat, n \in T PROVE n + 1 \in T
  <2>1. PICK g : g = [pos \in From(n) |-> CutFrom(bytes, g, pos)]
    BY <1>3
  <2> DEFINE w == [pos \in From(n + 1) |-> CutFrom(bytes, g, pos)]
  <2>2. \A pos \in From(n) : w[pos] = g[pos]
    <3> SUFFICES ASSUME NEW pos \in From(n) PROVE w[pos] = g[pos]
      OBVIOUS
    <3>1. pos \in From(n + 1)
      BY <1>1
    <3>2. g[pos] = CutFrom(bytes, g, pos)
      <4> HIDE DEF From
      <4> QED BY <2>1
    <3> QED BY <3>1, <3>2
  <2>3. \A pos \in From(n + 1) : CutFrom(bytes, w, pos) = CutFrom(bytes, g, pos)
    <3> SUFFICES ASSUME NEW pos \in From(n + 1), BlockAt(bytes, pos) # <<>>
                 PROVE  w[EndOf(bytes, pos)] = g[EndOf(bytes, pos)]
      <4> HIDE DEF w, From
      <4> QED BY DEF CutFrom
    <3> DEFINE end == EndOf(bytes, pos)
    <3>1. pos \in Nat /\ pos + (n + 1) >= L
      BY <1>1
    <3>2. end > pos /\ end \in 0 .. L
      BY <1>1, <3>1, BlockPlaces DEF L
    <3> HIDE DEF end
    <3>3. end \in From(n)
      BY <1>1, <3>1, <3>2
    <3> HIDE DEF w, From
    <3> QED BY <2>2, <3>3 DEF end
  <2>4. w = [pos \in From(n + 1) |-> CutFrom(bytes, w, pos)]
    BY <2>3
  <2> HIDE DEF w, From
  <2> QED BY <2>4
<1>4. L \in T
  <2> HIDE DEF T
  <2> QED BY <1>1, <1>2, <1>3, Induction
<1>5. From(L) = 0 .. L + ChunkSize
  BY <1>1
<1> QED
  <2>1. PICK g : g = [pos \in From(L) |-> CutFrom(bytes, g, pos)]
    BY <1>4
  <2> QED BY <1>5, <2>1 DEF IsRest, L

\* ChunkFile is the first value of such a function.
LEMMA ChunkFileRest ==
  ASSUME NEW S, NEW bytes \in Seq(S)
  PROVE  \E rest : IsRest(bytes, rest) /\ ChunkFile(bytes) = rest[0]
<1> DEFINE F == CHOOSE g : g = [pos \in 0 .. Len(bytes) + ChunkSize |-> CutFrom(bytes, g, pos)]
<1>1. \E g : g = [pos \in 0 .. Len(bytes) + ChunkSize |-> CutFrom(bytes, g, pos)]
  BY RestExists DEF IsRest
<1>2. F = [pos \in 0 .. Len(bytes) + ChunkSize |-> CutFrom(bytes, F, pos)]
  BY <1>1
<1>3. ChunkFile(bytes) = F[0]
  BY DEF ChunkFile, CutFrom, BlockAt, EndOf
<1> QED BY <1>2, <1>3 DEF IsRest

\* The blocks of a file, in their order, are the file, whatever its length
\* and the block size are, and however short the last block is.
THEOREM ChunksJoin ==
  ASSUME NEW S, NEW bytes \in Seq(S)
  PROVE  /\ ChunkFile(bytes) \in Seq(Seq(S))
         /\ Flatten(ChunkFile(bytes)) = bytes
<1> DEFINE L == Len(bytes)
<1>1. L \in Nat /\ ChunkSize \in Nat \ {0}
  BY SizeAssumption
<1>2. PICK rest : IsRest(bytes, rest) /\ ChunkFile(bytes) = rest[0]
  BY ChunkFileRest
<1> HIDE DEF L
<1>3. \A pos \in 0 .. L : rest[pos] = CutFrom(bytes, rest, pos)
  <2> SUFFICES ASSUME NEW pos \in 0 .. L PROVE rest[pos] = CutFrom(bytes, rest, pos)
    OBVIOUS
  <2>1. pos \in 0 .. L + ChunkSize
    BY <1>1
  <2> QED BY <1>2, <2>1 DEF IsRest, L
<1> DEFINE Right(pos) == /\ rest[pos] \in Seq(Seq(S))
                         /\ Flatten(rest[pos]) = SubSeq(bytes, pos + 1, L)
           T == {n \in Nat : \A pos \in 0 .. L : pos + n >= L => Right(pos)}
<1>4. 0 \in T
  <2> SUFFICES ASSUME NEW pos \in 0 .. L, pos >= L PROVE Right(pos)
    BY <1>1
  <2>1. pos = L /\ pos \in Nat
    BY <1>1
  <2>2. BlockAt(bytes, pos) = <<>>
    BY <2>1, BlockPlaces DEF L
  <2>3. rest[pos] = <<>>
    BY <1>3, <2>2 DEF CutFrom
  <2>4. SubSeq(bytes, pos + 1, L) = <<>>
    BY <1>1, <2>1, SubSeqEmpty
  <2> QED BY <2>3, <2>4, FlattenNone, EmptySeq
<1>5. ASSUME NEW n \in Nat, n \in T PROVE n + 1 \in T
  <2> SUFFICES ASSUME NEW pos \in 0 .. L, pos + (n + 1) >= L PROVE Right(pos)
    OBVIOUS
  <2>1. CASE pos + n >= L
    BY <1>5, <2>1
  <2>2. CASE ~(pos + n >= L)
    <3> DEFINE end == EndOf(bytes, pos)
    <3>1. pos \in Nat /\ pos < L
      BY <1>1, <2>2
    <3>2. /\ end \in 0 .. L /\ end > pos
          /\ BlockAt(bytes, pos) \in Seq(S) /\ BlockAt(bytes, pos) # <<>>
      BY <3>1, BlockPlaces DEF L
    <3> HIDE DEF end
    <3>3. end + n >= L
      BY <1>1, <3>1, <3>2
    <3>4. Right(end)
      BY <1>5, <3>2, <3>3
    <3>5. rest[pos] = <<BlockAt(bytes, pos)>> \o rest[end]
      BY <1>3, <3>2 DEF CutFrom, end
    <3>6. rest[pos] \in Seq(Seq(S))
      BY <3>2, <3>4, <3>5
    <3>7. Flatten(rest[pos]) = BlockAt(bytes, pos) \o SubSeq(bytes, end + 1, L)
      BY <3>2, <3>4, <3>5, FlattenFirst
    <3>8. SubSeq(bytes, pos + 1, end) \o SubSeq(bytes, end + 1, L) = SubSeq(bytes, pos + 1, L)
      <4>1. /\ pos + 1 \in 1 .. Len(bytes) + 1 /\ end \in (pos + 1) - 1 .. Len(bytes)
            /\ L \in end .. Len(bytes)
        BY <1>1, <3>1, <3>2 DEF L
      <4> QED BY <4>1, ConcatAdjacentSubSeq
    <3> QED BY <3>6, <3>7, <3>8 DEF BlockAt, end
  <2> QED BY <2>1, <2>2
<1>6. L \in T
  <2> HIDE DEF T
  <2> QED BY <1>1, <1>4, <1>5, Induction
<1>7. Right(0)
  BY <1>1, <1>6
<1>8. SubSeq(bytes, 1, L) = bytes
  BY SubSeqFull DEF L
<1> QED BY <1>2, <1>7, <1>8

-----------------------------------------------------------------------------
(***************************************************************************)
(* The inductive invariant, on top of that of BlockServer.  The client     *)
(* knows of the server only what an answer told it, and the commit knows   *)
(* of the uploads only that the client has returned: the invariant passes  *)
(* on, from answer to task, from task to return and from return to commit, *)
(* that the rows are there.                                                *)
(***************************************************************************)

\* A task that is to send has an attempt left, one that has sent has made one.
ClientTypeOK ==
  /\ task \in [Blocks -> {"waiting", "sending", "backoff", "ok", "error"}]
  /\ attempt \in [Blocks -> 0 .. MaxAttempts]
  /\ \A i \in Blocks :
       /\ task[i] \in {"waiting", "backoff"} => attempt[i] < MaxAttempts
       /\ task[i] \in {"sending", "ok"} => attempt[i] >= 1
  /\ result \in {"running", "returned", "raised"}

\* A task is ok, and the client returns, on answers of the server alone.
AnswersBehindReturn ==
  /\ \A c \in Uploads : hash[c] = hash[<<c[1], 1>>]
  /\ \A i \in Blocks : task[i] = "ok" => pc[Call(i)] = "done"
  /\ result = "returned" => \A i \in Blocks : task[i] = "ok"

\* Every commit carries the blocks of the file, and starts after the return.
CommitsAfterReturn ==
  /\ req \in [Commits -> [file : {File}, blocks : [1 .. Cardinality(Blocks) -> Hashes]]]
  /\ \A r \in Commits : req[r].blocks = BlockHashes
  /\ step \in [Commits -> Service!Waiting \cup Service!InTransaction \cup Service!Finished]
  /\ idx \in [Commits -> 1 .. Cardinality(Blocks)]
  /\ \A r \in Commits : step[r] # "lookup" => result = "returned"

\* The versions and their links belong to commits that are done.
LinksOfVersions ==
  /\ IsFiniteSet(links)
  /\ \A l \in links : l.version \in Commits /\ step[l.version] = "done"
  /\ \A v \in versions :
       /\ v.id \in Commits /\ step[v.id] = "done"
       /\ {l \in links : l.version = v.id} = Service!NewLinks(v.id)

BeforeCount == {"lookup", "increment", "open", "write", "insert"}

\* The attempts that were sent and are past their statement, or have failed.
Through(h) == {c \in Sent : hash[c] = h /\ pc[c] \notin BeforeCount}

\* A row counts its uploads and its links, and no attempt counts twice.
Accounts ==
  /\ counted \in [Hashes -> Nat]
  /\ \A h \in Hashes :
       /\ counted[h] <= Cardinality(Through(h))
       /\ refs[h] = counted[h] + Cardinality(Service!LinksTo(h))
       /\ h \notin rows => refs[h] = 0

FlowInv ==
  /\ IInv
  /\ NothingReleased
  /\ ClientTypeOK
  /\ AnswersBehindReturn
  /\ CommitsAfterReturn
  /\ LinksOfVersions
  /\ Accounts

-----------------------------------------------------------------------------
(* Blocks, attempts and rows.                                              *)

\* The instance counts as FiniteSets does.
LEMMA SameCardinality == \A S : Service!Cardinality(S) = Cardinality(S)
BY DEF Service!Cardinality, Cardinality

\* There are as many blocks as the list of their hashes is long.
LEMMA BlockCount ==
  /\ Cardinality(Blocks) \in Nat \ {0}
  /\ \A n \in 1 .. Cardinality(Blocks) : n - 1 \in Blocks
  /\ \A i \in Blocks : i \in Nat /\ <<i, 1>> \in Uploads
<1>1. Cardinality(Blocks) \in Nat
  BY BlocksAssumption, FS_CardinalityType
<1>2. Cardinality(Blocks) # 0
  BY BlocksAssumption, NotEmptyAssumption, FS_EmptySet
<1>3. \A n \in 1 .. Cardinality(Blocks) : n - 1 \in Blocks
  BY <1>1, BlocksAssumption
<1>4. \A i \in Blocks : i \in Nat
  BY <1>1, BlocksAssumption
<1>5. \A i \in Blocks : <<i, 1>> \in Uploads
  BY AttemptsAssumption, CallsAssumption
<1> QED BY <1>1, <1>2, <1>3, <1>4, <1>5

\* The attempts that there may be are finitely many.
LEMMA AttemptsFinite ==
  /\ IsFiniteSet(Uploads)
  /\ Cardinality(Uploads) \in Nat
<1>1. IsFiniteSet(1 .. MaxAttempts)
  BY AttemptsAssumption, FS_Interval
<1>2. IsFiniteSet(Uploads)
  BY <1>1, BlocksAssumption, CallsAssumption, FS_Product
<1> QED BY <1>2, FS_CardinalityType

\* The attempts that are through are among them.
LEMMA ThroughFinite ==
  ASSUME NEW h
  PROVE  /\ Through(h) \subseteq Uploads
         /\ IsFiniteSet(Through(h))
         /\ Cardinality(Through(h)) \in Nat
<1>1. Through(h) \subseteq Uploads
  BY DEF Through, Sent
<1>2. IsFiniteSet(Through(h))
  BY <1>1, AttemptsFinite, FS_Subset
<1> QED BY <1>1, <1>2, FS_CardinalityType

\* Attempts that are through stay so.
LEMMA ThroughGrows ==
  ASSUME NEW h, Through(h) \subseteq Through(h)'
  PROVE  /\ Cardinality(Through(h)) \in Nat
         /\ Cardinality(Through(h)') \in Nat
         /\ Cardinality(Through(h)) <= Cardinality(Through(h)')
<1>1. /\ IsFiniteSet(Through(h)) /\ Cardinality(Through(h)) \in Nat
  BY ThroughFinite
<1>2. Through(h)' \subseteq Uploads
  BY DEF Through, Sent
<1>3. IsFiniteSet(Through(h)') /\ Cardinality(Through(h)') \in Nat
  BY <1>2, AttemptsFinite, FS_Subset, FS_CardinalityType
<1> QED BY <1>1, <1>3, FS_Subset

\* A task that is ok has its answered call.
LEMMA OkIsCounted ==
  ASSUME TypeOK, ClientTypeOK, AnswersBehindReturn, NEW i \in Blocks, task[i] = "ok"
  PROVE  /\ Call(i) \in Uploads
         /\ hash[Call(i)] = hash[<<i, 1>>]
         /\ hash[<<i, 1>>] \in Hashes
         /\ Call(i) \in CountedUploads(hash[<<i, 1>>])
<1>1. attempt[i] \in 1 .. MaxAttempts
  BY AttemptsAssumption DEF ClientTypeOK
<1>2. Call(i) \in Uploads /\ Call(i)[1] = i
  BY <1>1, CallsAssumption DEF Call
<1>3. hash[Call(i)] = hash[<<i, 1>>]
  BY <1>2 DEF AnswersBehindReturn
<1>4. hash[<<i, 1>>] \in Hashes
  BY BlockCount DEF TypeOK, Calls
<1>5. pc[Call(i)] = "done"
  BY DEF AnswersBehindReturn
<1> QED BY <1>2, <1>3, <1>4, <1>5 DEF CountedUploads

\* Once the client has returned, all the blocks that it commits have rows.
LEMMA ReturnedHaveRows ==
  ASSUME IInv, NothingReleased, ClientTypeOK, AnswersBehindReturn, result = "returned"
  PROVE  /\ BlockHashes \in [1 .. Cardinality(Blocks) -> Hashes]
         /\ \A n \in 1 .. Cardinality(Blocks) : BlockHashes[n] \in rows
<1>1. TypeOK /\ UploadsCounted
  BY DEF IInv, Deployed
<1>2. ASSUME NEW n \in 1 .. Cardinality(Blocks) PROVE hash[<<n - 1, 1>>] \in rows
  <2>1. n - 1 \in Blocks
    BY BlockCount
  <2>2. task[n - 1] = "ok"
    BY <2>1 DEF AnswersBehindReturn
  <2>3. /\ hash[<<n - 1, 1>>] \in Hashes
        /\ Call(n - 1) \in CountedUploads(hash[<<n - 1, 1>>])
    BY <1>1, <2>1, <2>2, OkIsCounted
  <2> QED BY <1>1, <2>3 DEF UploadsCounted
<1>3. rows \subseteq Hashes
  BY <1>1 DEF TypeOK
<1> QED BY <1>2, <1>3 DEF BlockHashes

\* Nothing is sent, stored or committed at first.
LEMMA FlowInitEstablishes == FlowInit => FlowInv
<1> SUFFICES ASSUME FlowInit PROVE FlowInv
  OBVIOUS
<1>1. Init /\ ClientInit /\ Service!Init
  BY DEF FlowInit, ClientInit
<1>2. IInv /\ NothingReleased
  BY <1>1, InitTyped, InitDeployed DEF IInv, Init, NothingReleased
<1>3. ClientTypeOK
  BY <1>1, AttemptsAssumption DEF ClientInit, ClientTypeOK
<1>4. AnswersBehindReturn
  <2>1. ASSUME NEW c \in Uploads PROVE hash[c] = hash[<<c[1], 1>>]
    <3>1. PICK i \in Blocks, k \in 1 .. MaxAttempts : c = <<i, k>>
      BY CallsAssumption
    <3> QED BY <1>1, <3>1 DEF ClientInit
  <2> QED BY <1>1, <2>1 DEF ClientInit, AnswersBehindReturn
<1>5. CommitsAfterReturn
  BY <1>1, BlockCount
     DEF FlowInit, CommitsAfterReturn, Service!Init, Service!Waiting
<1>6. LinksOfVersions
  BY <1>1, FS_EmptySet DEF LinksOfVersions, Service!Init
<1>7. Accounts
  <2>1. ASSUME NEW h \in Hashes PROVE Cardinality(Service!LinksTo(h)) = 0
    <3>1. Service!LinksTo(h) = {}
      BY <1>1 DEF Service!LinksTo, Service!Init
    <3> QED BY <3>1, FS_EmptySet
  <2>2. ASSUME NEW h \in Hashes PROVE 0 <= Cardinality(Through(h))
    BY ThroughFinite
  <2> QED BY <1>1, <2>1, <2>2 DEF Accounts, Service!Init, Init
<1> QED BY <1>2, <1>3, <1>4, <1>5, <1>6, <1>7 DEF FlowInv

-----------------------------------------------------------------------------
(* The steps of the client.                                                *)

\* What the commits keep does not change with the client.
LEMMA CommitsUntouched ==
  ASSUME CommitsAfterReturn, LinksOfVersions,
         UNCHANGED <<commitVars, hash>>, result = "returned" => result' = "returned"
  PROVE  CommitsAfterReturn' /\ LinksOfVersions'
<1>1. UNCHANGED <<versions, links, req, step, idx>>
  BY DEF commitVars
<1>2. BlockHashes' = BlockHashes
  BY DEF BlockHashes
<1>3. CommitsAfterReturn'
  BY <1>1, <1>2 DEF CommitsAfterReturn
<1>4. LinksOfVersions'
  BY <1>1 DEF LinksOfVersions, Service!NewLinks, Service!BlocksOf
<1> QED BY <1>3, <1>4

\* Nor do the counts: an attempt that is sent is counted later, if at all.
LEMMA AccountsUntouched ==
  ASSUME Accounts, UNCHANGED <<counted, refs, rows, links>>,
         \A h \in Hashes : Through(h) \subseteq Through(h)'
  PROVE  Accounts'
<1>1. ASSUME NEW h \in Hashes PROVE counted[h] <= Cardinality(Through(h)')
  <2>1. counted[h] \in Nat /\ counted[h] <= Cardinality(Through(h))
    BY DEF Accounts
  <2>2. /\ Cardinality(Through(h)) \in Nat /\ Cardinality(Through(h)') \in Nat
        /\ Cardinality(Through(h)) <= Cardinality(Through(h)')
    BY ThroughGrows
  <2> QED BY <2>1, <2>2
<1> QED BY <1>1 DEF Accounts, Service!LinksTo

\* A task sends an attempt only if it has one left, and is ok on its answer.
LEMMA TaskOutcome ==
  ASSUME TypeOK, ClientTypeOK, AnswersBehindReturn, NEW i \in Blocks, TaskStep(i)
  PROVE  ClientTypeOK' /\ AnswersBehindReturn' /\ \A j \in Blocks : attempt[j] <= attempt'[j]
<1>1. UNCHANGED <<vars, result>>
  BY DEF TaskStep, Acquire, Succeed, ClientError, Retry, TimeOut, Send
<1>2. UNCHANGED <<hash, pc>>
  BY <1>1 DEF vars, calls
<1>3. CASE Acquire(i) \/ Retry(i)
  <2>1. /\ task[i] \in {"waiting", "backoff"}
        /\ attempt' = [attempt EXCEPT ![i] = attempt[i] + 1]
        /\ task' = [task EXCEPT ![i] = "sending"]
    BY <1>3 DEF Acquire, Retry, Send, Become
  <2>2. attempt[i] \in 0 .. MaxAttempts /\ attempt[i] < MaxAttempts /\ MaxAttempts \in Nat
    BY <2>1, AttemptsAssumption DEF ClientTypeOK
  <2>3. attempt[i] + 1 \in 0 .. MaxAttempts /\ attempt[i] + 1 >= 1 /\ attempt[i] <= attempt[i] + 1
    BY <2>2
  <2>4. /\ attempt' \in [Blocks -> 0 .. MaxAttempts]
        /\ attempt'[i] >= 1 /\ attempt[i] <= attempt'[i]
        /\ \A j \in Blocks \ {i} : attempt'[j] = attempt[j]
    BY <2>1, <2>3 DEF ClientTypeOK
  <2>5. /\ task' \in [Blocks -> {"waiting", "sending", "backoff", "ok", "error"}]
        /\ task'[i] = "sending"
        /\ \A j \in Blocks \ {i} : task'[j] = task[j]
    BY <2>1 DEF ClientTypeOK
  <2>6. ClientTypeOK'
    BY <1>1, <2>4, <2>5 DEF ClientTypeOK
  <2>7. AnswersBehindReturn'
    BY <1>1, <1>2, <2>1, <2>4, <2>5 DEF AnswersBehindReturn, Call
  <2>8. ASSUME NEW j \in Blocks PROVE attempt[j] <= attempt'[j]
    <3>1. CASE j = i
      BY <2>4, <3>1
    <3>2. CASE j # i
      <4>1. attempt'[j] = attempt[j] /\ attempt[j] \in 0 .. MaxAttempts
        BY <2>4, <3>2 DEF ClientTypeOK
      <4> QED BY <4>1
    <3> QED BY <3>1, <3>2
  <2> QED BY <2>6, <2>7, <2>8
<1>4. CASE Succeed(i) \/ ClientError(i) \/ TimeOut(i)
  <2>1. PICK state \in {"ok", "backoff", "error"} :
          /\ task' = [task EXCEPT ![i] = state]
          /\ task[i] = "sending"
          /\ attempt' = attempt
          /\ state = "ok" => pc[Call(i)] = "done"
          /\ state = "backoff" => attempt[i] < MaxAttempts
    BY <1>4 DEF Succeed, ClientError, TimeOut, Become
  <2>2. /\ task' \in [Blocks -> {"waiting", "sending", "backoff", "ok", "error"}]
        /\ task'[i] = state
        /\ \A j \in Blocks \ {i} : task'[j] = task[j]
    BY <2>1 DEF ClientTypeOK
  <2>3. ClientTypeOK'
    BY <1>1, <2>1, <2>2 DEF ClientTypeOK
  <2>4. AnswersBehindReturn'
    BY <1>1, <1>2, <2>1, <2>2 DEF AnswersBehindReturn, Call
  <2>5. \A j \in Blocks : attempt[j] <= attempt'[j]
    BY <2>1 DEF ClientTypeOK
  <2> QED BY <2>3, <2>4, <2>5
<1> QED BY <1>3, <1>4 DEF TaskStep

\* The steps of tasks keep the invariant.
LEMMA ClientStepKeeps ==
  ASSUME FlowInv, NEW i \in Blocks, ClientStep(i)
  PROVE  FlowInv'
<1>1. /\ TaskStep(i) /\ UNCHANGED <<vars, result>>
      /\ UNCHANGED <<commitVars, counted>>
  BY DEF ClientStep, TaskStep, Acquire, Succeed, ClientError, Retry, TimeOut, Send
<1>2. UNCHANGED <<rows, refs, hash, pc, releases, links>>
  BY <1>1 DEF vars, db, calls, collector, commitVars
<1>3. TypeOK /\ IInv /\ NothingReleased /\ ClientTypeOK /\ AnswersBehindReturn
      /\ CommitsAfterReturn /\ LinksOfVersions /\ Accounts
  BY DEF FlowInv, IInv
<1>4. ClientTypeOK' /\ AnswersBehindReturn' /\ \A j \in Blocks : attempt[j] <= attempt'[j]
  BY <1>1, <1>3, TaskOutcome
<1>5. IInv' /\ NothingReleased'
  BY <1>1, <1>2, <1>3, InvariantStep DEF NothingReleased
<1>6. CommitsAfterReturn' /\ LinksOfVersions'
  BY <1>1, <1>2, <1>3, CommitsUntouched
<1>7. ASSUME NEW h \in Hashes PROVE Through(h) \subseteq Through(h)'
  <2>1. ASSUME NEW c \in Sent PROVE c \in Sent'
    <3>1. PICK j \in Blocks, k \in 1 .. MaxAttempts : c = <<j, k>>
      BY CallsAssumption DEF Sent
    <3>2. k \in Nat /\ attempt[j] \in Nat /\ attempt'[j] \in Nat /\ k <= attempt[j]
      BY <1>3, <1>4, <3>1 DEF Sent, ClientTypeOK
    <3>3. k <= attempt'[j]
      BY <1>4, <3>2
    <3> QED BY <3>1, <3>3 DEF Sent
  <2> QED BY <1>2, <2>1 DEF Through
<1>8. Accounts'
  BY <1>1, <1>2, <1>3, <1>7, AccountsUntouched
<1> QED BY <1>4, <1>5, <1>6, <1>8 DEF FlowInv

\* Gather returns only if all tasks are ok.
LEMMA GatherKeeps ==
  ASSUME FlowInv, AllUploaded
  PROVE  FlowInv'
<1>1. /\ UNCHANGED <<vars, task, attempt, commitVars, counted>>
      /\ result = "running"
      /\ result' \in {"returned", "raised"}
      /\ result' = "returned" => \A i \in Blocks : task[i] = "ok"
  BY DEF AllUploaded, Gather
<1>2. UNCHANGED <<rows, refs, hash, pc, releases, links>>
  BY <1>1 DEF vars, db, calls, collector, commitVars
<1>3. IInv' /\ NothingReleased'
  BY <1>1, <1>2, InvariantStep DEF NothingReleased, FlowInv
<1>4. ClientTypeOK'
  BY <1>1 DEF FlowInv, ClientTypeOK
<1>5. AnswersBehindReturn'
  BY <1>1, <1>2 DEF FlowInv, AnswersBehindReturn, Call
<1>6. CommitsAfterReturn' /\ LinksOfVersions'
  BY <1>1, <1>2, CommitsUntouched DEF FlowInv
<1>7. Accounts'
  BY <1>1, <1>2, AccountsUntouched DEF FlowInv, Through, Sent
<1> QED BY <1>3, <1>4, <1>5, <1>6, <1>7 DEF FlowInv

-----------------------------------------------------------------------------
(* The steps of the Block Server.                                          *)

\* A server that counts nothing only lets attempts through.
LEMMA OtherServerStepKeeps ==
  ASSUME FlowInv, NEW c \in Uploads,
         Lookup(c) \/ OpenFile(c) \/ WriteBytes(c) \/ Answer(c) \/ Fail(c),
         UNCHANGED <<clientVars, commitVars, counted>>
  PROVE  FlowInv'
<1>1. /\ TypeOK /\ IInv /\ NothingReleased /\ ClientTypeOK /\ AnswersBehindReturn
      /\ CommitsAfterReturn /\ LinksOfVersions /\ Accounts
  BY DEF FlowInv, IInv
<1>2. UNCHANGED <<task, attempt, result, links>>
  BY DEF clientVars, commitVars
<1>3. /\ UNCHANGED <<rows, refs, hash, releases>>
      /\ \A d \in Uploads \ {c} : pc'[d] = pc[d]
      /\ pc[c] # "done"
      /\ pc[c] \in BeforeCount \/ pc'[c] \notin BeforeCount
  BY <1>1 DEF Lookup, OpenFile, WriteBytes, Answer, Fail, Goto, db, collector, TypeOK,
              BeforeCount, Finished, Calls
<1>4. IInv'
  <2>1. [Next]_vars
    BY DEF Next, Upload, Calls
  <2> QED BY <1>1, <2>1, InvariantStep
<1>5. NothingReleased'
  BY <1>1, <1>3 DEF NothingReleased
<1>6. ClientTypeOK'
  BY <1>1, <1>2 DEF ClientTypeOK
<1>7. AnswersBehindReturn'
  <2>1. ASSUME NEW i \in Blocks, task[i] = "ok" PROVE pc'[Call(i)] = "done"
    <3>1. pc[Call(i)] = "done" /\ Call(i) \in Uploads
      BY <1>1, <2>1, OkIsCounted DEF AnswersBehindReturn
    <3> QED BY <1>3, <3>1
  <2> QED BY <1>1, <1>2, <1>3, <2>1 DEF AnswersBehindReturn, Call
<1>8. CommitsAfterReturn' /\ LinksOfVersions'
  BY <1>1, <1>2, <1>3, CommitsUntouched
<1>9. ASSUME NEW h \in Hashes PROVE Through(h) \subseteq Through(h)'
  <2>1. ASSUME NEW d \in Uploads, pc[d] \notin BeforeCount PROVE pc'[d] \notin BeforeCount
    BY <1>3, <2>1
  <2> QED BY <1>2, <1>3, <2>1 DEF Through, Sent
<1>10. Accounts'
  BY <1>1, <1>2, <1>3, <1>9, AccountsUntouched
<1> QED BY <1>4, <1>5, <1>6, <1>7, <1>8, <1>10 DEF FlowInv

\* The statement of an upload counts its row up by one, and an attempt of its
\* block is through which was not before.
LEMMA CountOutcome ==
  ASSUME FlowInv, NEW c \in Sent, CountBlock(c)
  PROVE  /\ c \in Uploads /\ hash[c] \in Hashes
         /\ rowLock[hash[c]] = Nobody
         /\ rows' = rows \cup {hash[c]}
         /\ refs' = [refs EXCEPT ![hash[c]] = refs[hash[c]] + 1]
         /\ counted' = [counted EXCEPT ![hash[c]] = counted[hash[c]] + 1]
         /\ pc[c] \in BeforeCount /\ pc' = [pc EXCEPT ![c] = "answer"]
         /\ UNCHANGED <<backend, disk, hash, doomed, releases>>
<1>1. c \in Uploads /\ hash[c] \in Hashes
  BY DEF Sent, FlowInv, IInv, TypeOK, Calls
<1>2. /\ rowLock[hash[c]] = Nobody
      /\ counted' = [counted EXCEPT ![hash[c]] = counted[hash[c]] + 1]
      /\ pc[c] \in BeforeCount /\ pc' = [pc EXCEPT ![c] = "answer"]
      /\ UNCHANGED <<backend, disk, hash, doomed, releases>>
  BY DEF CountBlock, Increment, Insert, Goto, BeforeCount, collector
<1>3. CASE Increment(c)
  <2>1. hash[c] \in rows
    BY <1>1, <1>3 DEF Increment, FlowInv, IInv, Deployed, FoundRows, Calls
  <2>2. rows' = rows /\ refs' = [refs EXCEPT ![hash[c]] = refs[hash[c]] + 1]
    BY <1>3, <2>1 DEF Increment
  <2> QED BY <1>1, <1>2, <2>1, <2>2
<1>4. CASE Insert(c)
  <2>1. hash[c] \notin rows => refs[hash[c]] = 0
    BY <1>1 DEF FlowInv, Accounts
  <2>2. /\ rows' = rows \cup {hash[c]}
        /\ refs' = [refs EXCEPT ![hash[c]] =
                      IF hash[c] \in rows THEN refs[hash[c]] + 1 ELSE 1]
    BY <1>4 DEF Insert
  <2>3. refs' = [refs EXCEPT ![hash[c]] = refs[hash[c]] + 1]
    <3>1. CASE hash[c] \in rows
      BY <2>2, <3>1
    <3>2. CASE hash[c] \notin rows
      <4>1. refs[hash[c]] + 1 = 1
        BY <2>1, <3>2
      <4> QED BY <2>2, <3>2, <4>1
    <3> QED BY <3>1, <3>2
  <2> QED BY <1>1, <1>2, <2>2, <2>3
<1> QED BY <1>3, <1>4 DEF CountBlock

\* One more attempt is through.
LEMMA OneMoreThrough ==
  ASSUME FlowInv, NEW c \in Sent, CountBlock(c), UNCHANGED clientVars,
         NEW g, g = hash[c]
  PROVE  /\ c \notin Through(g)
         /\ Cardinality(Through(g)) \in Nat
         /\ Cardinality(Through(g)') = Cardinality(Through(g)) + 1
         /\ Cardinality(Through(g)) + 1 <= Cardinality(Uploads)
         /\ \A h \in Hashes \ {g} : Through(h)' = Through(h)
<1>1. /\ c \in Uploads
      /\ pc[c] \in BeforeCount /\ pc' = [pc EXCEPT ![c] = "answer"]
      /\ hash' = hash
  BY CountOutcome
<1>2. Sent' = Sent
  BY DEF clientVars, Sent
<1>3. pc'[c] = "answer" /\ \A d \in Uploads \ {c} : pc'[d] = pc[d]
  BY <1>1 DEF FlowInv, IInv, TypeOK, Calls
<1>4. c \notin Through(g)
  BY <1>1 DEF Through
<1>5. Through(g)' = Through(g) \cup {c}
  BY <1>1, <1>2, <1>3 DEF Through, Sent, BeforeCount
<1>6. /\ IsFiniteSet(Through(g)) /\ Cardinality(Through(g)) \in Nat
      /\ Through(g) \subseteq Uploads
  BY ThroughFinite
<1>7. Cardinality(Through(g) \cup {c}) = Cardinality(Through(g)) + 1
  BY <1>4, <1>6, FS_AddElement
<1>8. Cardinality(Through(g) \cup {c}) <= Cardinality(Uploads)
  <2>1. Through(g) \cup {c} \subseteq Uploads
    BY <1>1, <1>6
  <2> QED BY <2>1, AttemptsFinite, FS_Subset
<1>9. \A h \in Hashes \ {g} : Through(h)' = Through(h)
  BY <1>1, <1>2, <1>3 DEF Through, Sent
<1> QED BY <1>4, <1>5, <1>6, <1>7, <1>8, <1>9

\* A statement that counts keeps the invariant.
LEMMA CountKeeps ==
  ASSUME FlowInv, NEW c \in Sent, CountBlock(c), UNCHANGED <<clientVars, commitVars>>
  PROVE  FlowInv'
<1>1. /\ TypeOK /\ IInv /\ NothingReleased /\ ClientTypeOK /\ AnswersBehindReturn
      /\ CommitsAfterReturn /\ LinksOfVersions /\ Accounts
  BY DEF FlowInv, IInv
<1>2. UNCHANGED <<task, attempt, result, links>>
  BY DEF clientVars, commitVars
<1>3. /\ c \in Uploads /\ hash[c] \in Hashes
      /\ rows' = rows \cup {hash[c]}
      /\ refs' = [refs EXCEPT ![hash[c]] = refs[hash[c]] + 1]
      /\ counted' = [counted EXCEPT ![hash[c]] = counted[hash[c]] + 1]
      /\ pc[c] \in BeforeCount /\ pc' = [pc EXCEPT ![c] = "answer"]
      /\ UNCHANGED <<hash, releases>>
  BY CountOutcome
<1>4. IInv' /\ NothingReleased'
  <2>1. [Next]_vars
    BY <1>3 DEF CountBlock, Next, Upload
  <2> QED BY <1>1, <1>3, <2>1, InvariantStep DEF NothingReleased
<1>5. ClientTypeOK'
  BY <1>1, <1>2 DEF ClientTypeOK
<1>6. AnswersBehindReturn'
  <2>1. ASSUME NEW i \in Blocks, task[i] = "ok" PROVE pc'[Call(i)] = "done"
    <3>1. pc[Call(i)] = "done" /\ Call(i) # c
      BY <1>1, <1>3, <2>1 DEF AnswersBehindReturn, BeforeCount
    <3> QED BY <1>3, <3>1
  <2> QED BY <1>1, <1>2, <1>3, <2>1 DEF AnswersBehindReturn, Call
<1>7. CommitsAfterReturn' /\ LinksOfVersions'
  BY <1>1, <1>2, <1>3, CommitsUntouched
<1>8. Accounts'
  <2>1. counted' \in [Hashes -> Nat]
    BY <1>1, <1>3 DEF Accounts
  <2>2. ASSUME NEW h \in Hashes
        PROVE  /\ counted'[h] <= Cardinality(Through(h)')
               /\ refs'[h] = counted'[h] + Cardinality(Service!LinksTo(h))
               /\ h \notin rows' => refs'[h] = 0
    <3>1. /\ counted[h] \in Nat /\ counted[h] <= Cardinality(Through(h))
          /\ refs[h] = counted[h] + Cardinality(Service!LinksTo(h))
          /\ h \notin rows => refs[h] = 0
      BY <1>1 DEF Accounts
    <3>2. refs[h] \in Nat
      BY <1>1 DEF TypeOK
    <3>3. CASE h # hash[c]
      <4>1. Through(h)' = Through(h)
        BY <3>3, OneMoreThrough
      <4> QED BY <1>1, <1>3, <3>1, <3>3, <4>1 DEF Accounts, TypeOK
    <3>4. CASE h = hash[c]
      <4>1. counted'[h] = counted[h] + 1 /\ refs'[h] = refs[h] + 1 /\ h \in rows'
        BY <1>1, <1>3, <3>4 DEF Accounts, TypeOK
      <4>2. /\ Cardinality(Through(h)) \in Nat
            /\ Cardinality(Through(h)') = Cardinality(Through(h)) + 1
        BY <3>4, OneMoreThrough
      <4>3. Cardinality(Service!LinksTo(h)) \in Nat
        BY <1>1, FS_Subset, FS_CardinalityType DEF LinksOfVersions, Service!LinksTo
      <4> QED BY <3>1, <4>1, <4>2, <4>3
    <3> QED BY <3>3, <3>4
  <2> QED BY <1>2, <2>1, <2>2 DEF Accounts, Service!LinksTo
<1> QED BY <1>4, <1>5, <1>6, <1>7, <1>8 DEF FlowInv

-----------------------------------------------------------------------------
(* The steps of the commits.                                               *)

\* The list of a commit is as long as the file has blocks.
LEMMA ListLength ==
  ASSUME CommitsAfterReturn, NEW r \in Commits
  PROVE  /\ Service!BlocksOf(r) = BlockHashes
         /\ Len(Service!BlocksOf(r)) = Cardinality(Blocks)
         /\ DOMAIN Service!BlocksOf(r) = 1 .. Cardinality(Blocks)
<1>1. Service!BlocksOf(r) = BlockHashes
  BY DEF CommitsAfterReturn, Service!BlocksOf
<1>2. Cardinality(Blocks) \in Nat /\ DOMAIN BlockHashes = 1 .. Cardinality(Blocks)
  BY BlockCount DEF BlockHashes
<1> QED BY <1>1, <1>2

\* What every step of a commit leaves alone, and where it may lead.
LEMMA CommitStepOutcome ==
  ASSUME CommitsAfterReturn, NEW r \in Commits, CommitStep(r)
  PROVE  /\ result = "returned"
         /\ UNCHANGED <<backend, disk, hash, pc, doomed, releases, task, attempt, result,
                        content, rows, counted, req>>
         /\ step[r] # "done"
         /\ step' \in [Commits -> Service!Waiting \cup Service!InTransaction
                                    \cup Service!Finished]
         /\ \A s \in Commits \ {r} : step'[s] = step[s]
         /\ idx' \in [Commits -> 1 .. Cardinality(Blocks)]
         /\ UNCHANGED <<refs, links, versions>> \/ Service!Commit(r)
<1> USE DEF Service!Waiting, Service!InTransaction, Service!Finished, Service!Goto,
            Service!tables, Service!locks
<1>1. /\ step[r] = "lookup" => result = "returned"
      /\ UNCHANGED <<backend, disk, hash, pc, doomed, releases, task, attempt, result, content>>
      /\ Service!Lookup(r) \/ Service!Statement(r) \/ Service!StatementFails(r)
  BY DEF CommitStep, MayCommit, calls, collector, clientVars
<1>2. result = "returned"
  BY <1>1 DEF CommitsAfterReturn
<1> DEFINE Stages == Service!Waiting \cup Service!InTransaction \cup Service!Finished
<1>3. ASSUME NEW label \in Stages, Service!Turn(r, label)
      PROVE  /\ idx' \in [Commits -> 1 .. Cardinality(Blocks)]
             /\ step' \in [Commits -> Stages]
             /\ \A s \in Commits \ {r} : step'[s] = step[s]
  <2>1. Len(Service!BlocksOf(r)) = Cardinality(Blocks) /\ Cardinality(Blocks) \in Nat \ {0}
    BY ListLength, BlockCount
  <2>2. idx \in [Commits -> 1 .. Cardinality(Blocks)] /\ step \in [Commits -> Stages]
    BY DEF CommitsAfterReturn
  <2> HIDE DEF Stages
  <2>3. CASE idx[r] < Cardinality(Blocks)
    <3>1. idx' = [idx EXCEPT ![r] = idx[r] + 1] /\ step' = step
      BY <1>3, <2>1, <2>3 DEF Service!Turn
    <3>2. idx[r] + 1 \in 1 .. Cardinality(Blocks)
      BY <2>1, <2>2, <2>3
    <3> QED BY <2>2, <3>1, <3>2
  <2>4. CASE ~(idx[r] < Cardinality(Blocks))
    <3>1. idx' = [idx EXCEPT ![r] = 1] /\ step' = [step EXCEPT ![r] = label]
      BY <1>3, <2>1, <2>4 DEF Service!Turn
    <3> QED BY <2>1, <2>2, <3>1
  <2> QED BY <2>3, <2>4
<1>4. CASE Service!Lookup(r) \/ Service!Authorize(r) \/ Service!LockFile(r) \/ Service!ReadMax(r)
  BY <1>1, <1>2, <1>4
     DEF Service!Lookup, Service!Authorize, Service!LockFile, Service!ReadMax,
         CommitsAfterReturn
<1>5. CASE Service!LinkBlock(r) \/ Service!IncrementRef(r)
  <2>1. \/ Service!Turn(r, "incr")
        \/ Service!Turn(r, "commit")
    BY <1>5 DEF Service!LinkBlock, Service!IncrementRef
  <2>2. /\ idx' \in [Commits -> 1 .. Cardinality(Blocks)]
        /\ step' \in [Commits -> Stages]
        /\ \A s \in Commits \ {r} : step'[s] = step[s]
    BY <1>3, <2>1
  <2>3. step[r] # "done" /\ UNCHANGED <<rows, counted, req, refs, links, versions>>
    BY <1>5 DEF Service!LinkBlock, Service!IncrementRef
  <2> QED BY <1>1, <1>2, <2>2, <2>3
<1>6. CASE Service!UnknownBlock(r) \/ Service!StatementFails(r)
  BY <1>1, <1>2, <1>6
     DEF Service!UnknownBlock, Service!StatementFails, Service!Rollback, CommitsAfterReturn
<1>7. CASE Service!Commit(r)
  BY <1>1, <1>2, <1>7 DEF Service!Commit, CommitsAfterReturn
<1> QED BY <1>1, <1>4, <1>5, <1>6, <1>7 DEF Service!Statement

\* To the Block Server a commit only makes counts grow.
LEMMA ServerUnderCommit ==
  ASSUME IInv, NothingReleased,
         UNCHANGED <<backend, disk, hash, pc, doomed, releases, rows>>,
         refs' \in [Hashes -> Nat], \A h \in Hashes : refs[h] <= refs'[h]
  PROVE  IInv' /\ NothingReleased'
<1>1. TypeOK /\ Deployed
  BY DEF IInv
<1>2. TypeOK'
  BY <1>1 DEF TypeOK
<1>3. NothingReleased'
  BY DEF NothingReleased
<1>4. NothingToCollect'
  <2>1. ASSUME NEW h \in rows PROVE refs'[h] >= 1
    <3>1. h \in Hashes /\ refs[h] \in Nat /\ refs[h] >= 1 /\ refs'[h] \in Nat
          /\ refs[h] <= refs'[h]
      BY <1>1 DEF TypeOK, Deployed, NothingToCollect
    <3> QED BY <3>1
  <2> QED BY <1>1, <2>1 DEF Deployed, NothingToCollect
<1>5. UploadsCounted'
  <2>1. ASSUME NEW h \in Hashes PROVE refs'[h] >= Cardinality(CountedUploads(h))
    <3>1. /\ refs[h] \in Nat /\ refs[h] >= Cardinality(CountedUploads(h))
          /\ Cardinality(CountedUploads(h)) \in Nat
          /\ refs'[h] \in Nat /\ refs[h] <= refs'[h]
      BY <1>1, FS_CardinalityType DEF TypeOK, Deployed, UploadsCounted
    <3> QED BY <3>1
  <2>2. \A h \in Hashes : CountedUploads(h)' = CountedUploads(h)
    BY DEF CountedUploads
  <2> QED BY <1>1, <2>1, <2>2 DEF Deployed, UploadsCounted
<1>6. FilesBeforeRows' /\ DamageHasCause' /\ FoundRows' /\ UploadPaths' /\ NoneMissing'
  BY <1>1 DEF Deployed, FilesBeforeRows, DamageHasCause, MayBeDamaged, FoundRows,
              UploadPaths, NoneMissing
<1> QED BY <1>2, <1>3, <1>4, <1>5, <1>6 DEF IInv, Deployed

\* The links that a commit adds: finitely many, its own, and to blocks of the file.
LEMMA NewLinksOfFile ==
  ASSUME CommitsAfterReturn, NEW r \in Commits
  PROVE  /\ IsFiniteSet(Service!NewLinks(r))
         /\ \A l \in Service!NewLinks(r) :
              /\ l.version = r
              /\ \E n \in 1 .. Cardinality(Blocks) : l.hash = BlockHashes[n]
         /\ \A h : Service!Increments(r, h) \in Nat
<1>1. Service!NewLinks(r) =
        {[version |-> r, index |-> n, hash |-> BlockHashes[n]] : n \in 1 .. Cardinality(Blocks)}
  BY ListLength DEF Service!NewLinks
<1> DEFINE row == [n \in 1 .. Cardinality(Blocks) |->
                     [version |-> r, index |-> n, hash |-> BlockHashes[n]]]
<1>2. row \in Surjection(1 .. Cardinality(Blocks), Service!NewLinks(r))
  BY <1>1 DEF Surjection
<1>3. IsFiniteSet(Service!NewLinks(r))
  BY <1>2, BlockCount, FS_Interval, FS_Surjection
<1>4. ASSUME NEW h PROVE Service!Increments(r, h) \in Nat
  <2>1. IsFiniteSet({l \in Service!NewLinks(r) : l.hash = h})
    BY <1>3, FS_Subset
  <2> QED BY <2>1, FS_CardinalityType, SameCardinality DEF Service!Increments
<1> QED BY <1>1, <1>3, <1>4

\* COMMIT adds as many links of a block as it adds to its count, and only of
\* blocks that have rows.
LEMMA AccountsAfterCommit ==
  ASSUME FlowInv, NEW r \in Commits, CommitStep(r), Service!Commit(r)
  PROVE  /\ Accounts'
         /\ refs' \in [Hashes -> Nat]
         /\ \A h \in Hashes : refs[h] <= refs'[h]
<1>1. /\ result = "returned" /\ step[r] # "done"
      /\ UNCHANGED <<hash, pc, attempt, rows, counted>>
  BY CommitStepOutcome DEF FlowInv
<1>2. /\ links' = links \cup Service!NewLinks(r)
      /\ refs' = [h \in Hashes |-> refs[h] + Service!Increments(r, h)]
  BY DEF Service!Commit
<1>3. /\ IsFiniteSet(Service!NewLinks(r))
      /\ \A l \in Service!NewLinks(r) : l.version = r /\ l.hash \in rows
      /\ \A h : Service!Increments(r, h) \in Nat
  BY <1>1, NewLinksOfFile, ReturnedHaveRows DEF FlowInv
<1>4. ASSUME NEW h \in Hashes
      PROVE  /\ refs[h] \in Nat /\ refs'[h] \in Nat /\ refs[h] <= refs'[h]
             /\ counted[h] <= Cardinality(Through(h))
             /\ refs'[h] = counted[h] + Cardinality(Service!LinksTo(h)')
             /\ h \notin rows => refs'[h] = 0
  <2>1. /\ refs[h] \in Nat /\ counted[h] \in Nat
        /\ counted[h] <= Cardinality(Through(h))
        /\ refs[h] = counted[h] + Cardinality(Service!LinksTo(h))
        /\ h \notin rows => refs[h] = 0
    BY DEF FlowInv, IInv, TypeOK, Accounts
  <2>2. refs'[h] = refs[h] + Service!Increments(r, h) /\ Service!Increments(r, h) \in Nat
    BY <1>2, <1>3
  <2> DEFINE added == {l \in Service!NewLinks(r) : l.hash = h}
  <2>3. Service!Increments(r, h) = Cardinality(added)
    BY SameCardinality DEF Service!Increments
  <2>4. IsFiniteSet(Service!LinksTo(h)) /\ IsFiniteSet(added)
    BY <1>3, FS_Subset DEF FlowInv, LinksOfVersions, Service!LinksTo
  <2>5. Service!LinksTo(h) \cap added = {}
    BY <1>1, <1>3 DEF FlowInv, LinksOfVersions, Service!LinksTo
  <2>6. Service!LinksTo(h)' = Service!LinksTo(h) \cup added
    BY <1>2 DEF Service!LinksTo
  <2>7. Cardinality(Service!LinksTo(h) \cup added)
          = Cardinality(Service!LinksTo(h)) + Cardinality(added)
    <3> HIDE DEF added
    <3>1. Cardinality(Service!LinksTo(h) \cap added) = 0
      BY <2>5, FS_EmptySet
    <3>2. Cardinality(Service!LinksTo(h)) \in Nat /\ Cardinality(added) \in Nat
      BY <2>4, FS_CardinalityType
    <3>3. Cardinality(Service!LinksTo(h) \cup added)
            = Cardinality(Service!LinksTo(h)) + Cardinality(added)
                - Cardinality(Service!LinksTo(h) \cap added)
      BY <2>4, FS_Union
    <3> QED BY <3>1, <3>2, <3>3
  <2>8. h \notin rows => Service!Increments(r, h) = 0
    <3> SUFFICES ASSUME h \notin rows PROVE Service!Increments(r, h) = 0
      OBVIOUS
    <3>1. added = {}
      BY <1>3
    <3> QED BY <2>3, <3>1, FS_EmptySet
  <2>9. Cardinality(Service!LinksTo(h)) \in Nat /\ Cardinality(added) \in Nat
    BY <2>4, FS_CardinalityType
  <2>10. refs'[h] = counted[h] + Cardinality(Service!LinksTo(h)')
    <3> HIDE DEF added
    <3> QED BY <2>1, <2>2, <2>3, <2>6, <2>7, <2>9
  <2> QED BY <2>1, <2>2, <2>8, <2>10
<1>5. \A h \in Hashes : Through(h)' = Through(h)
  BY <1>1 DEF Through, Sent
<1>6. refs' \in [Hashes -> Nat]
  BY <1>2, <1>4
<1>7. Accounts'
  BY <1>1, <1>4, <1>5 DEF FlowInv, Accounts
<1> QED BY <1>4, <1>6, <1>7

\* The rows and links of a version are visible at once, and stay.
LEMMA LinksAfterCommitStep ==
  ASSUME FlowInv, NEW r \in Commits, CommitStep(r)
  PROVE  LinksOfVersions'
<1>1. /\ step[r] # "done" /\ req' = req
      /\ step' \in [Commits -> Service!Waiting \cup Service!InTransaction \cup Service!Finished]
      /\ \A s \in Commits \ {r} : step'[s] = step[s]
      /\ UNCHANGED <<links, versions>> \/ Service!Commit(r)
  BY CommitStepOutcome DEF FlowInv
<1>2. \A s \in Commits : Service!NewLinks(s)' = Service!NewLinks(s)
  BY <1>1 DEF Service!NewLinks, Service!BlocksOf
<1>3. /\ IsFiniteSet(links)
      /\ \A l \in links : l.version \in Commits /\ l.version # r /\ step'[l.version] = "done"
      /\ \A v \in versions :
           /\ v.id \in Commits /\ v.id # r /\ step'[v.id] = "done"
           /\ {l \in links : l.version = v.id} = Service!NewLinks(v.id)
  BY <1>1 DEF FlowInv, LinksOfVersions
<1>4. CASE UNCHANGED <<links, versions>>
  BY <1>2, <1>3, <1>4 DEF LinksOfVersions
<1>5. CASE Service!Commit(r)
  <2>1. /\ step'[r] = "done"
        /\ links' = links \cup Service!NewLinks(r)
        /\ \A v \in versions' : v \in versions \/ v.id = r
    BY <1>1, <1>5
       DEF Service!Commit, Service!Goto, Service!FileOf, FlowInv, CommitsAfterReturn
  <2>2. IsFiniteSet(Service!NewLinks(r)) /\ \A l \in Service!NewLinks(r) : l.version = r
    BY NewLinksOfFile DEF FlowInv
  <2>3. IsFiniteSet(links')
    BY <1>3, <2>1, <2>2, FS_Union
  <2>4. \A l \in links' : l.version \in Commits /\ step'[l.version] = "done"
    BY <1>3, <2>1, <2>2
  <2>5. ASSUME NEW v \in versions'
        PROVE  /\ v.id \in Commits /\ step'[v.id] = "done"
               /\ {l \in links' : l.version = v.id} = Service!NewLinks(v.id)
    <3>1. CASE v.id = r
      BY <1>3, <2>1, <2>2, <3>1
    <3>2. CASE v \in versions
      BY <1>3, <2>1, <2>2, <3>2
    <3> QED BY <2>1, <3>1, <3>2
  <2>6. ASSUME NEW v \in versions'
        PROVE  {l \in links' : l.version = v.id} = Service!NewLinks(v.id)'
    <3>1. v.id \in Commits
      BY <2>5
    <3>2. Service!NewLinks(v.id)' = Service!NewLinks(v.id)
      BY <1>2, <3>1
    <3> QED BY <2>5, <3>2
  <2> QED BY <2>3, <2>4, <2>5, <2>6 DEF LinksOfVersions
<1> QED BY <1>1, <1>4, <1>5

\* Every statement of a commit keeps the invariant.
LEMMA CommitStepKeeps ==
  ASSUME FlowInv, NEW r \in Commits, CommitStep(r)
  PROVE  FlowInv'
<1>1. /\ result = "returned"
      /\ UNCHANGED <<backend, disk, hash, pc, doomed, releases, task, attempt, result,
                     rows, counted, req>>
      /\ step' \in [Commits -> Service!Waiting \cup Service!InTransaction \cup Service!Finished]
      /\ idx' \in [Commits -> 1 .. Cardinality(Blocks)]
      /\ UNCHANGED <<refs, links, versions>> \/ Service!Commit(r)
  BY CommitStepOutcome DEF FlowInv
<1>2. /\ Accounts'
      /\ refs' \in [Hashes -> Nat]
      /\ \A h \in Hashes : refs[h] <= refs'[h]
  <2>1. CASE UNCHANGED <<refs, links>>
    <3>1. Accounts'
      BY <1>1, <2>1, AccountsUntouched DEF FlowInv, Through, Sent
    <3> QED BY <2>1, <3>1 DEF FlowInv, IInv, TypeOK
  <2> QED BY <1>1, <2>1, AccountsAfterCommit
<1>3. IInv' /\ NothingReleased'
  BY <1>1, <1>2, ServerUnderCommit DEF FlowInv
<1>4. ClientTypeOK'
  BY <1>1 DEF FlowInv, ClientTypeOK
<1>5. AnswersBehindReturn'
  BY <1>1 DEF FlowInv, AnswersBehindReturn, Call
<1>6. CommitsAfterReturn'
  BY <1>1 DEF FlowInv, CommitsAfterReturn, BlockHashes
<1>7. LinksOfVersions'
  BY LinksAfterCommitStep
<1> QED BY <1>2, <1>3, <1>4, <1>5, <1>6, <1>7 DEF FlowInv

-----------------------------------------------------------------------------
(* The invariant, and what follows from it.                                *)

\* A step of the Block Server works on an attempt that was sent.
LEMMA ServerStepKeeps ==
  ASSUME FlowInv, NEW c \in Uploads, ServerStep(c)
  PROVE  FlowInv'
<1>1. c \in Sent /\ UNCHANGED <<clientVars, content, commitVars>>
  BY DEF ServerStep
<1>2. CASE CountBlock(c)
  BY <1>1, <1>2, CountKeeps
<1>3. CASE ~CountBlock(c)
  BY <1>1, <1>3, OtherServerStepKeeps DEF ServerStep
<1> QED BY <1>2, <1>3

\* Every step keeps the invariant.
LEMMA FlowInvStep ==
  ASSUME FlowInv, [FlowNext]_flowVars
  PROVE  FlowInv'
<1>1. CASE FlowNext /\ ~FlowOver
  BY <1>1, ClientStepKeeps, GatherKeeps, ServerStepKeeps, CommitStepKeeps DEF FlowNext
<1>2. CASE UNCHANGED flowVars
  <2>1. UNCHANGED <<vars, task, attempt, result, commitVars, counted>>
    BY <1>2 DEF flowVars, allVars, clientVars
  <2>2. UNCHANGED <<rows, refs, hash, pc, releases, links>>
    BY <2>1 DEF vars, db, calls, collector, commitVars
  <2>3. IInv' /\ NothingReleased'
    BY <2>1, <2>2, InvariantStep DEF FlowInv, NothingReleased
  <2>4. ClientTypeOK'
    BY <2>1 DEF FlowInv, ClientTypeOK
  <2>5. AnswersBehindReturn'
    BY <2>1, <2>2 DEF FlowInv, AnswersBehindReturn, Call
  <2>6. CommitsAfterReturn' /\ LinksOfVersions'
    BY <2>1, <2>2, CommitsUntouched DEF FlowInv
  <2>7. Accounts'
    BY <2>1, <2>2, AccountsUntouched DEF FlowInv, Through, Sent
  <2> QED BY <2>3, <2>4, <2>5, <2>6, <2>7 DEF FlowInv
<1> QED BY <1>1, <1>2 DEF FlowOver

\* The inductive invariant holds in every reachable state of the whole way.
THEOREM FlowInvariance == FlowSpec => []FlowInv
<1>1. FlowInv /\ [FlowNext]_flowVars => FlowInv'
  BY FlowInvStep
<1> QED BY <1>1, FlowInitEstablishes, PTL DEF FlowSpec

\* When chunk_and_upload returns, every block of the file has a row, which
\* counts every position of the file that the block is at.
THEOREM ReturnedIsStored == FlowSpec => []ReturnMeansStored
<1>1. FlowInv => ReturnMeansStored
  <2> SUFFICES ASSUME FlowInv, result = "returned", NEW h \in Hashes, BlocksWith(h) # {}
               PROVE  h \in rows /\ refs[h] >= Cardinality(BlocksWith(h))
    BY DEF ReturnMeansStored
  <2>1. TypeOK /\ ClientTypeOK /\ AnswersBehindReturn /\ UploadsCounted
    BY DEF FlowInv, IInv, Deployed
  <2>2. ASSUME NEW i \in BlocksWith(h) PROVE Call(i) \in CountedUploads(h)
    <3>1. i \in Blocks /\ hash[<<i, 1>>] = h /\ task[i] = "ok"
      BY <2>1 DEF BlocksWith, AnswersBehindReturn
    <3> QED BY <2>1, <3>1, OkIsCounted
  <2>3. /\ IsFiniteSet(CountedUploads(h))
        /\ refs[h] \in Nat /\ refs[h] >= Cardinality(CountedUploads(h))
        /\ h \in rows
    BY <2>1, <2>2 DEF UploadsCounted, TypeOK
  <2> DEFINE call == [i \in BlocksWith(h) |-> Call(i)]
  <2>4. call \in Injection(BlocksWith(h), CountedUploads(h))
    <3>1. call \in [BlocksWith(h) -> CountedUploads(h)]
      BY <2>2
    <3>2. \A i, j \in BlocksWith(h) : call[i] = call[j] => i = j
      BY DEF Call
    <3> HIDE DEF call
    <3> QED BY <3>1, <3>2 DEF Injection, IsInjective
  <2>5. /\ IsFiniteSet(BlocksWith(h))
        /\ Cardinality(BlocksWith(h)) <= Cardinality(CountedUploads(h))
    <3> HIDE DEF call
    <3> QED BY <2>3, <2>4, FS_Injection
  <2>6. Cardinality(BlocksWith(h)) \in Nat /\ Cardinality(CountedUploads(h)) \in Nat
    BY <2>3, <2>5, FS_CardinalityType
  <2> QED BY <2>3, <2>5, <2>6
<1> QED BY <1>1, FlowInvariance, PTL

\* A commit that follows the return of chunk_and_upload finds a row for every
\* hash, so it is never refused for an unknown block.
THEOREM BlocksAreKnown == FlowSpec => []NoUnknownBlock
<1>1. FlowInv => NoUnknownBlock
  <2> SUFFICES ASSUME FlowInv, NEW r \in Commits, step[r] = "link"
               PROVE  Service!NextHash(r) \in rows
    BY DEF NoUnknownBlock
  <2>1. result = "returned" /\ idx[r] \in 1 .. Cardinality(Blocks)
    BY DEF FlowInv, CommitsAfterReturn
  <2>2. Service!NextHash(r) = BlockHashes[idx[r]]
    BY ListLength DEF FlowInv, Service!NextHash
  <2> QED BY <2>1, <2>2, ReturnedHaveRows DEF FlowInv
<1> QED BY <1>1, FlowInvariance, PTL

\* Over both services, a row counts each attempt that reached its statement
\* once, and each link of a version once, and nothing else.
THEOREM CountsExplained == FlowSpec => []CountsAreExplained
<1>1. FlowInv => CountsAreExplained
  <2> SUFFICES ASSUME FlowInv, NEW h \in Hashes
               PROVE  /\ counted[h] <= Cardinality({c \in Sent : hash[c] = h})
                      /\ refs[h] = counted[h] + Cardinality(Service!LinksTo(h))
    BY DEF CountsAreExplained
  <2>1. /\ counted[h] \in Nat
        /\ counted[h] <= Cardinality(Through(h))
        /\ refs[h] = counted[h] + Cardinality(Service!LinksTo(h))
    BY DEF FlowInv, Accounts
  <2> DEFINE sent == {c \in Sent : hash[c] = h}
  <2>2. Through(h) \subseteq sent /\ sent \subseteq Uploads
    BY DEF Through, Sent
  <2>3. IsFiniteSet(sent) /\ IsFiniteSet(Through(h))
    BY <2>2, AttemptsFinite, FS_Subset
  <2>4. /\ Cardinality(Through(h)) <= Cardinality(sent)
        /\ Cardinality(Through(h)) \in Nat /\ Cardinality(sent) \in Nat
    BY <2>2, <2>3, FS_Subset, FS_CardinalityType
  <2> QED BY <2>1, <2>4
<1> QED BY <1>1, FlowInvariance, PTL

-----------------------------------------------------------------------------
(* The refinement of VersionCommit.                                        *)

\* The statement of an upload is the one upload action of VersionCommit, and
\* an attempt is left to count it.
LEMMA CountIsUpload ==
  ASSUME FlowInv, NEW c \in Sent, CountBlock(c), UNCHANGED <<clientVars, commitVars>>
  PROVE  hash[c] \in Hashes /\ Service!UploadBlock(hash[c])
<1> DEFINE h == hash[c]
<1>1. /\ c \in Uploads /\ h \in Hashes
      /\ rowLock[h] = Nobody
      /\ rows' = rows \cup {h}
      /\ refs' = [refs EXCEPT ![h] = refs[h] + 1]
      /\ counted' = [counted EXCEPT ![h] = counted[h] + 1]
  BY CountOutcome
<1>2. counted[h] < Cardinality(Uploads)
  <2>1. counted[h] \in Nat /\ counted[h] <= Cardinality(Through(h))
    BY <1>1 DEF FlowInv, Accounts
  <2>2. /\ Cardinality(Through(h)) \in Nat
        /\ Cardinality(Through(h)) + 1 <= Cardinality(Uploads)
    BY OneMoreThrough
  <2> QED BY <2>1, <2>2, AttemptsFinite
<1>3. Service!Cardinality(Uploads) = Cardinality(Uploads)
  BY SameCardinality
<1> QED BY <1>1, <1>2, <1>3
        DEF Service!UploadBlock, Service!locks, Service!locals, commitVars

\* Every step is a step of VersionCommit, or one that it does not see.
LEMMA FlowStepRefines ==
  ASSUME FlowInv, [FlowNext]_flowVars
  PROVE  [Service!Next]_Service!vars
<1> USE DEF Service!vars, Service!tables, Service!locks, Service!locals
<1>1. ASSUME UNCHANGED <<rows, refs, commitVars, counted>>
      PROVE  UNCHANGED Service!vars
  BY <1>1 DEF commitVars
<1>2. ASSUME NEW i \in Blocks, ClientStep(i) PROVE UNCHANGED <<rows, refs, commitVars, counted>>
  BY <1>2 DEF ClientStep, TaskStep, Acquire, Succeed, ClientError, Retry, TimeOut, Send, vars, db
<1>3. CASE AllUploaded
  BY <1>1, <1>3 DEF AllUploaded, Gather, vars, db
<1>4. ASSUME NEW c \in Uploads, ServerStep(c) PROVE [Service!Next]_Service!vars
  <2>1. c \in Sent /\ UNCHANGED <<clientVars, commitVars>>
    BY <1>4 DEF ServerStep
  <2>2. CASE CountBlock(c)
    BY <2>1, <2>2, CountIsUpload DEF Service!Next
  <2>3. CASE ~CountBlock(c)
    <3>1. UNCHANGED <<rows, refs, commitVars, counted>>
      BY <1>4, <2>3 DEF ServerStep, Lookup, OpenFile, WriteBytes, Answer, Fail, db
    <3> QED BY <1>1, <3>1
  <2> QED BY <2>2, <2>3
<1>5. ASSUME NEW r \in Commits, CommitStep(r) PROVE Service!Next
  BY <1>5 DEF CommitStep, Service!Next, Commits
<1>6. CASE UNCHANGED flowVars
  <2>1. UNCHANGED <<rows, refs, commitVars, counted>>
    BY <1>6 DEF flowVars, allVars, vars, db
  <2> QED BY <1>1, <2>1
<1> QED BY <1>1, <1>2, <1>3, <1>4, <1>5, <1>6 DEF FlowNext, FlowOver

\* The commits keep every promise of VersionCommit, with the uploads of the
\* real Block Server in the place of its one upload action.
THEOREM CommitsRefined == FlowSpec => CommitsAsSpecified
<1>1. FlowInit => Service!Init
  BY DEF FlowInit
<1>2. FlowInv /\ [FlowNext]_flowVars => [Service!Next]_Service!vars
  BY FlowStepRefines
<1> QED BY <1>1, <1>2, FlowInvariance, PTL DEF FlowSpec, CommitsAsSpecified, Service!Spec

-----------------------------------------------------------------------------
(* Every version is the file.                                              *)

\* The blocks that are uploaded are those that the file was cut into.
BlocksOfContent ==
  /\ content \in Contents
  /\ \A i \in Blocks : hash[<<i, 1>>] = ChunkFile(content)[i + 1]

\* No step changes the file, or what a call uploads.
LEMMA ContentStays ==
  ASSUME [FlowNext]_flowVars
  PROVE  UNCHANGED <<content, hash>>
<1> USE DEF vars, calls
<1>1. ASSUME NEW i \in Blocks, ClientStep(i) PROVE UNCHANGED <<content, hash>>
  BY <1>1 DEF ClientStep, TaskStep, Acquire, Succeed, ClientError, Retry, TimeOut, Send
<1>2. CASE AllUploaded
  BY <1>2 DEF AllUploaded, Gather
<1>3. ASSUME NEW c \in Uploads, ServerStep(c) PROVE UNCHANGED <<content, hash>>
  BY <1>3 DEF ServerStep, CountBlock, Increment, Insert, Lookup, OpenFile, WriteBytes,
              Answer, Fail
<1>4. ASSUME NEW r \in Commits, CommitStep(r) PROVE UNCHANGED <<content, hash>>
  BY <1>4 DEF CommitStep
<1>5. CASE UNCHANGED flowVars
  BY <1>5 DEF flowVars, allVars
<1> QED BY <1>1, <1>2, <1>3, <1>4, <1>5 DEF FlowNext, FlowOver

\* Sorted by index, the hashes are the list of the blocks.
LEMMA HashesAreBlocks ==
  ASSUME BlocksOfContent
  PROVE  /\ BlockHashes = ChunkFile(content)
         /\ Flatten(ChunkFile(content)) = content
<1>1. content \in Seq(Bytes) /\ Len(ChunkFile(content)) = Cardinality(Blocks)
  BY ContentsAssumption DEF BlocksOfContent
<1>2. ChunkFile(content) \in Seq(Seq(Bytes)) /\ Flatten(ChunkFile(content)) = content
  BY <1>1, ChunksJoin
<1>3. \A n \in 1 .. Cardinality(Blocks) : hash[<<n - 1, 1>>] = ChunkFile(content)[n]
  <2> SUFFICES ASSUME NEW n \in 1 .. Cardinality(Blocks)
               PROVE  hash[<<n - 1, 1>>] = ChunkFile(content)[n]
    OBVIOUS
  <2>1. n - 1 \in Blocks /\ (n - 1) + 1 = n
    BY BlockCount
  <2>2. hash[<<n - 1, 1>>] = ChunkFile(content)[(n - 1) + 1]
    BY <2>1 DEF BlocksOfContent
  <2> QED BY <2>1, <2>2
<1>4. ChunkFile(content) = [n \in 1 .. Cardinality(Blocks) |-> ChunkFile(content)[n]]
  BY <1>1, <1>2, LenProperties
<1>5. BlockHashes = [n \in 1 .. Cardinality(Blocks) |-> ChunkFile(content)[n]]
  BY <1>3 DEF BlockHashes
<1> QED BY <1>2, <1>4, <1>5

\* The links of a version, in the order of their indices, are the list that
\* its commit carried.
LEMMA VersionLists ==
  ASSUME FlowInv, NEW v \in versions
  PROVE  Service!BlockListOf(v.id) = BlockHashes
<1> DEFINE r == v.id
           k == Cardinality(Blocks)
           mine == {l \in links : l.version = r}
           row == [n \in 1 .. k |-> [version |-> r, index |-> n, hash |-> BlockHashes[n]]]
<1>1. r \in Commits /\ mine = Service!NewLinks(r)
  BY DEF FlowInv, LinksOfVersions
<1>2. mine = {[version |-> r, index |-> n, hash |-> BlockHashes[n]] : n \in 1 .. k}
  BY <1>1, ListLength DEF Service!NewLinks, FlowInv
<1>3. k \in Nat
  BY BlockCount
<1>4. Cardinality(mine) = k
  <2>1. ExistsBijection(1 .. k, mine)
    <3>1. row \in Surjection(1 .. k, mine)
      BY <1>2 DEF Surjection
    <3>2. \A m, n \in 1 .. k : row[m] = row[n] => m = n
      OBVIOUS
    <3> HIDE DEF row, mine, k
    <3> QED BY <3>1, <3>2 DEF Bijection, Injection, Surjection, IsInjective, ExistsBijection
  <2> HIDE DEF row, mine, k
  <2> QED BY <1>3, <2>1, FS_CountingElements
<1>5. ASSUME NEW n \in 1 .. k
      PROVE  (CHOOSE l \in links : l.version = r /\ l.index = n).hash = BlockHashes[n]
  <2>1. \E l \in links : l.version = r /\ l.index = n
    <3>1. [version |-> r, index |-> n, hash |-> BlockHashes[n]] \in mine
      BY <1>2
    <3> QED BY <3>1
  <2>2. \A l \in links : l.version = r /\ l.index = n => l.hash = BlockHashes[n]
    BY <1>2
  <2> HIDE DEF r, k
  <2> QED BY <2>1, <2>2
<1>6. Service!BlockListOf(r) = [n \in 1 .. k |-> BlockHashes[n]]
  BY <1>4, <1>5, SameCardinality DEF Service!BlockListOf
<1> QED BY <1>6 DEF BlockHashes

\* Every version that a client commits after its upload, also the second one
\* of a repeated commit, is the file that was cut up, and the files of its
\* blocks are there, and whole unless an upload writes them or has failed.
THEOREM VersionsAreTheFile == FlowSpec => []VersionsRebuildFile
<1>1. FlowInit => BlocksOfContent
  BY DEF FlowInit, BlocksOfContent
<1>2. BlocksOfContent /\ [FlowNext]_flowVars => BlocksOfContent'
  BY ContentStays DEF BlocksOfContent
<1>3. FlowInv /\ BlocksOfContent => VersionsRebuildFile
  <2> SUFFICES ASSUME FlowInv, BlocksOfContent, NEW v \in versions
               PROVE  LET blocks == Service!BlockListOf(v.id)
                      IN  /\ Flatten(blocks) = content
                          /\ \A i \in DOMAIN blocks :
                               /\ blocks[i] \in rows
                               /\ \/ disk[blocks[i]] = "whole"
                                  \/ disk[blocks[i]] = "partial" /\ MayBeDamaged(blocks[i])
    BY DEF VersionsRebuildFile
  <2>1. Service!BlockListOf(v.id) = BlockHashes
    BY VersionLists
  <2>2. Flatten(BlockHashes) = content
    BY HashesAreBlocks
  <2>3. result = "returned"
    BY DEF FlowInv, LinksOfVersions, CommitsAfterReturn
  <2>4. \A i \in DOMAIN BlockHashes : BlockHashes[i] \in rows
    BY <2>3, ReturnedHaveRows DEF FlowInv, BlockHashes
  <2>5. \A h \in rows : disk[h] = "whole" \/ (disk[h] = "partial" /\ MayBeDamaged(h))
    <3> SUFFICES ASSUME NEW h \in rows
                 PROVE  disk[h] = "whole" \/ (disk[h] = "partial" /\ MayBeDamaged(h))
      OBVIOUS
    <3>1. h \in Hashes /\ disk[h] \in {"partial", "whole"}
      BY DEF FlowInv, IInv, TypeOK, Deployed, FilesBeforeRows
    <3> QED BY <3>1 DEF FlowInv, IInv, Deployed, DamageHasCause
  <2> QED BY <2>1, <2>2, <2>4, <2>5
<1> QED BY <1>1, <1>2, <1>3, FlowInvariance, PTL DEF FlowSpec

-----------------------------------------------------------------------------
(* The refinement of FileSaves.                                            *)

\* Each version reads as the file.
SavedAre == Saved = {[save |-> v.id, bytes |-> content] : v \in versions}

LEMMA SavedAreContent == FlowSpec => []SavedAre
<1>1. FlowInit => BlocksOfContent
  BY DEF FlowInit, BlocksOfContent
<1>2. BlocksOfContent /\ [FlowNext]_flowVars => BlocksOfContent'
  BY ContentStays DEF BlocksOfContent
<1>3. FlowInv /\ BlocksOfContent => SavedAre
  <2> SUFFICES ASSUME FlowInv, BlocksOfContent PROVE SavedAre
    OBVIOUS
  <2>1. ASSUME NEW v \in versions PROVE Flatten(Service!BlockListOf(v.id)) = content
    BY VersionLists, HashesAreBlocks
  <2> QED BY <2>1 DEF Saved, SavedAre
<1> QED BY <1>1, <1>2, <1>3, FlowInvariance, PTL DEF FlowSpec

\* Whatever adds no version and does not end the upload is not seen.
LEMMA UnseenStep ==
  ASSUME SavedAre, SavedAre', UNCHANGED <<content, result, versions>>
  PROVE  UNCHANGED Saves!vars
BY DEF SavedAre, Saves!vars

\* COMMIT is a save; every other step is the end of the upload, or not seen.
LEMMA FlowStepSaves ==
  ASSUME FlowInv, SavedAre, SavedAre', [FlowNext]_flowVars
  PROVE  [Saves!Next]_Saves!vars
<1>1. UNCHANGED content
  BY ContentStays
<1>2. ASSUME NEW i \in Blocks, ClientStep(i) PROVE UNCHANGED <<result, versions>>
  BY <1>2 DEF ClientStep, TaskStep, Acquire, Succeed, ClientError, Retry, TimeOut, Send,
              commitVars
<1>3. CASE AllUploaded
  <2>1. /\ result = "running" /\ result' \in {"returned", "raised"}
        /\ UNCHANGED versions
    BY <1>3 DEF AllUploaded, Gather, commitVars
  <2> QED BY <1>1, <2>1 DEF SavedAre, Saves!EndUpload, Saves!Next
<1>4. ASSUME NEW c \in Uploads, ServerStep(c) PROVE UNCHANGED <<result, versions>>
  BY <1>4 DEF ServerStep, clientVars, commitVars
<1>5. ASSUME NEW r \in Commits, CommitStep(r) PROVE [Saves!Next]_Saves!vars
  <2>1. /\ result = "returned" /\ result' = result /\ step[r] # "done"
        /\ UNCHANGED versions \/ Service!Commit(r)
    BY <1>5, CommitStepOutcome DEF FlowInv
  <2>2. CASE UNCHANGED versions
    BY <1>1, <2>1, <2>2, UnseenStep
  <2>3. CASE Service!Commit(r)
    <3>1. versions' = versions \cup
            {[id |-> r, file |-> Service!FileOf(r), number |-> nextVer[r]]}
      BY <2>3 DEF Service!Commit
    <3>2. Saved' = Saved \cup {[save |-> r, bytes |-> content]}
      <4> DEFINE read(v) == [save |-> v.id, bytes |-> content]
                 new == [id |-> r, file |-> Service!FileOf(r), number |-> nextVer[r]]
      <4>1. Saved = {read(v) : v \in versions} /\ Saved' = {read(v) : v \in versions'}
        BY <1>1 DEF SavedAre
      <4>2. versions' = versions \cup {new} /\ read(new) = [save |-> r, bytes |-> content]
        BY <3>1
      <4> HIDE DEF read, new
      <4> QED BY <4>1, <4>2
    <3>3. \A version \in Saved : version.save # r
      <4>1. \A v \in versions : v.id # r
        BY <2>1 DEF FlowInv, LinksOfVersions
      <4> QED BY <4>1 DEF SavedAre
    <3> QED BY <1>1, <2>1, <3>2, <3>3 DEF Saves!Save, Saves!Next
  <2> QED BY <2>1, <2>2, <2>3
<1>6. CASE UNCHANGED flowVars
  BY <1>6, UnseenStep DEF flowVars, allVars, clientVars, commitVars
<1> QED BY <1>1, <1>2, <1>3, <1>4, <1>5, <1>6, UnseenStep DEF FlowNext, FlowOver

\* The uploads and transactions of both services are, to the user, saves in
\* one step: whole, once per commit, with the bytes of the file, and for good.
THEOREM FlowSaves == FlowSpec => SavesTheFile
<1>1. FlowInit => Saves!Init
  BY DEF FlowInit, ClientInit, Service!Init, Saved, Saves!Init
<1>2. FlowInv /\ SavedAre /\ SavedAre' /\ [FlowNext]_flowVars => [Saves!Next]_Saves!vars
  BY FlowStepSaves
<1> QED BY <1>1, <1>2, FlowInvariance, SavedAreContent, PTL
        DEF FlowSpec, SavesTheFile, Saves!Spec
=============================================================================
