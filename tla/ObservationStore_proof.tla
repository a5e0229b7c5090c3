----------------------- MODULE ObservationStore_proof -----------------------
(***************************************************************************)
(* Proofs about the observation file for any lines, processes, retention   *)
(* and number of appends.  An inode only ever grows, so that a load keeps  *)
(* what it has taken the boundary of; only a short write leaves a line     *)
(* that is not JSON; and while one process uses the file, an acknowledged  *)
(* batch moves from inode to inode for as long as it counts.               *)
(***************************************************************************)
EXTENDS ObservationStore, FiniteSetTheorems, TLAPS

\* The lines an inode holds.
Stored(inode) == ToSet(inode.lines) \union ToSet(inode.tail)

\* The elements of a sequence that is made of others.
LEMMA ToSetConcat ==
    ASSUME NEW S, NEW s \in Seq(S), NEW t \in Seq(S)
    PROVE  s \o t \in Seq(S) /\ ToSet(s \o t) = ToSet(s) \union ToSet(t)
<1>1. \A i \in 1 .. Len(t) : (s \o t)[Len(s) + i] = t[i] /\ Len(s) + i \in 1 .. Len(s \o t)
    OBVIOUS
<1>2. \A i \in 1 .. Len(s) : (s \o t)[i] = s[i] /\ i \in 1 .. Len(s \o t)
    OBVIOUS
<1>3. \A i \in 1 .. Len(s \o t) : i \in 1 .. Len(s) \/ i - Len(s) \in 1 .. Len(t)
    OBVIOUS
<1>4. \A i \in 1 .. Len(s \o t) : (s \o t)[i] \in ToSet(s) \union ToSet(t)
  <2> TAKE i \in 1 .. Len(s \o t)
  <2>1. CASE i \in 1 .. Len(s)
    BY <1>2, <2>1 DEF ToSet
  <2>2. CASE i - Len(s) \in 1 .. Len(t)
    <3>1. (s \o t)[i] = t[i - Len(s)]
      BY <2>2
    <3> QED
      BY <2>2, <3>1 DEF ToSet
  <2> QED
    BY <1>3, <2>1, <2>2
<1>5. /\ s \o t \in Seq(S) /\ DOMAIN (s \o t) = 1 .. Len(s \o t)
      /\ DOMAIN s = 1 .. Len(s) /\ DOMAIN t = 1 .. Len(t)
    OBVIOUS
<1>6. ToSet(s) \subseteq ToSet(s \o t) /\ ToSet(t) \subseteq ToSet(s \o t)
  <2>1. ASSUME NEW i \in 1 .. Len(s) PROVE s[i] \in ToSet(s \o t)
    BY <1>2, <1>5 DEF ToSet
  <2>2. ASSUME NEW i \in 1 .. Len(t) PROVE t[i] \in ToSet(s \o t)
    BY <1>1, <1>5, Zenon DEF ToSet
  <2> QED
    BY <1>5, <2>1, <2>2 DEF ToSet
<1> QED
    BY <1>4, <1>5, <1>6 DEF ToSet

\* An element appended is added to the set.
LEMMA ToSetAppend ==
    ASSUME NEW S, NEW s \in Seq(S), NEW x \in S
    PROVE  Append(s, x) \in Seq(S) /\ ToSet(Append(s, x)) = ToSet(s) \union {x}
<1>1. /\ Append(s, x) \in Seq(S)
      /\ DOMAIN Append(s, x) = 1 .. Len(s) + 1
      /\ \A i \in 1 .. Len(s) : Append(s, x)[i] = s[i]
      /\ Append(s, x)[Len(s) + 1] = x
      /\ DOMAIN s = 1 .. Len(s)
    OBVIOUS
<1>2. \A i \in 1 .. Len(s) + 1 : i \in 1 .. Len(s) \/ i = Len(s) + 1
    OBVIOUS
<1> QED
    BY <1>1, <1>2 DEF ToSet

\* The empty sequence and the sequence of one element.
LEMMA ToSetSmall ==
    /\ ToSet(<<>>) = {}
    /\ \A x : ToSet(<<x>>) = {x}
<1>1. ASSUME NEW x PROVE DOMAIN <<x>> = {1} /\ <<x>>[1] = x
    OBVIOUS
<1> QED
    BY <1>1 DEF ToSet

\* The lines at some positions are these lines: each position has its rank.
LEMMA LinesAtKeeps ==
    ASSUME NEW S, NEW s \in Seq(S), NEW P \in SUBSET DOMAIN s
    PROVE  /\ LinesAt(s, P) \in Seq(S)
           /\ ToSet(LinesAt(s, P)) = {s[i] : i \in P}
<1> DEFINE Rank(i) == Cardinality({j \in P : j <= i})
           rank == [i \in P |-> Rank(i)]
           Nth(n) == CHOOSE i \in P : Rank(i) = n
           N == Cardinality(P)
<1>1. IsFiniteSet(P) /\ N \in Nat /\ P \in SUBSET Nat
  <2>1. DOMAIN s = 1 .. Len(s) /\ Len(s) \in Nat
    OBVIOUS
  <2> QED
    <3>1. IsFiniteSet(1 .. Len(s))
      BY <2>1, FS_Interval
    <3> QED
      BY <2>1, <3>1, FS_Subset, FS_CardinalityType
<1>2. \A i \in P : Rank(i) \in 1 .. N
  <2> TAKE i \in P
  <2>1. {j \in P : j <= i} \in SUBSET P /\ i \in {j \in P : j <= i}
    BY <1>1
  <2>2. IsFiniteSet({j \in P : j <= i}) /\ Rank(i) \in Nat /\ Rank(i) <= N
    BY <1>1, <2>1, FS_Subset, FS_CardinalityType
  <2>3. Rank(i) # 0
    BY <2>1, <2>2, FS_EmptySet
  <2> QED
    BY <1>1, <2>2, <2>3
<1>3. \A i, k \in P : i < k => Rank(i) < Rank(k)
  <2> SUFFICES ASSUME NEW i \in P, NEW k \in P, i < k PROVE Rank(i) < Rank(k)
    OBVIOUS
  <2> DEFINE A == {j \in P : j <= i}
             B == {j \in P : j <= k}
  <2>1. A \subseteq B /\ k \in B /\ k \notin A /\ B \subseteq P
    BY <1>1
  <2>2. IsFiniteSet(B)
    BY <1>1, <2>1, FS_Subset
  <2> QED
    BY <2>1, <2>2, FS_Subset, FS_CardinalityType
<1>4. \A i, k \in P : Rank(i) = Rank(k) => i = k
  <2> SUFFICES ASSUME NEW i \in P, NEW k \in P, Rank(i) = Rank(k) PROVE i = k
    OBVIOUS
  <2>1. i \in Nat /\ k \in Nat /\ Rank(i) \in Nat /\ ~(Rank(i) < Rank(k)) /\ ~(Rank(k) < Rank(i))
    BY <1>1, <1>2
  <2>2. ~(i < k) /\ ~(k < i)
    BY <1>3, <2>1
  <2> QED
    BY <2>1, <2>2
<1>5. \A n \in 1 .. N : \E i \in P : Rank(i) = n
  <2>1. rank \in Injection(P, 1 .. N)
    <3>1. rank \in [P -> 1 .. N]
      BY <1>2
    <3>2. \A i, k \in DOMAIN rank : rank[i] = rank[k] => i = k
      BY <1>4
    <3> QED
      BY <3>1, <3>2, Zenon DEF Injection, IsInjective
  <2>2. IsFiniteSet(1 .. N) /\ Cardinality(1 .. N) = N
    BY <1>1, FS_Interval
  <2>3. rank \in Surjection(P, 1 .. N)
    BY <2>1, <2>2, FS_Injection, Zenon
  <2>4. \A n \in 1 .. N : \E i \in P : rank[i] = n
    BY <2>3 DEF Surjection
  <2> QED
    BY <2>4
<1>6. \A n \in 1 .. N : Nth(n) \in P /\ Rank(Nth(n)) = n
    BY <1>5
<1>7. \A i \in P : Nth(Rank(i)) = i
    BY <1>2, <1>4, <1>6
<1>8. LinesAt(s, P) = [n \in 1 .. N |-> s[Nth(n)]]
    BY DEF LinesAt
<1> HIDE DEF Rank, Nth, N
<1>9. \A n \in 1 .. N : s[Nth(n)] \in S
    BY <1>6
<1>10. LinesAt(s, P) \in Seq(S) /\ DOMAIN LinesAt(s, P) = 1 .. N
    BY <1>1, <1>8, <1>9 DEF N
<1>11. \A n \in 1 .. N : LinesAt(s, P)[n] = s[Nth(n)]
    BY <1>8
<1>12. ToSet(LinesAt(s, P)) = {s[i] : i \in P}
    BY <1>2, <1>6, <1>7, <1>10, <1>11 DEF ToSet
<1> QED
    BY <1>10, <1>12
-----------------------------------------------------------------------------
\* What an append leaves of an inode is an inode with one line more.
LEMMA WrittenInode ==
    ASSUME NEW inode \in Inode, NEW line \in Lines
    PROVE  /\ Written(inode, line) \in Inode
           /\ Written(inode, line).tail = <<>>
           /\ Written(inode, line).lines =
                Append(inode.lines, IF inode.tail = <<>> THEN line ELSE Broken)
<1>1. Append(inode.lines, IF inode.tail = <<>> THEN line ELSE Broken) \in Seq(Lines)
    BY DEF Inode, Lines
<1> QED
    BY <1>1 DEF Written, Inode

\* An inode without its torn tail has its lines alone.
LEMMA TailOnly ==
    ASSUME NEW S, NEW T, NEW inode \in [lines : S, tail : T], NEW end
    PROVE  [inode EXCEPT !.tail = end] = [lines |-> inode.lines, tail |-> end]
OBVIOUS

\* The content of the path is a sequence of lines.
LEMMA ContentLines ==
    ASSUME TypeOK
    PROVE  /\ Content(path) \in Seq(Lines)
           /\ path = 0 => ToSet(Content(path)) = {}
           /\ path # 0 => /\ path \in 1 .. Len(disk) /\ disk[path] \in Inode
                          /\ ToSet(Content(path)) = Stored(disk[path])
<1>1. CASE path = 0
    BY <1>1, ToSetSmall DEF Content
<1>2. CASE path # 0
  <2>1. path \in 1 .. Len(disk) /\ disk[path] \in Inode
    BY <1>2 DEF TypeOK
  <2>2. disk[path].lines \in Seq(Lines) /\ disk[path].tail \in Seq(Lines)
    BY <2>1 DEF Inode
  <2> QED
    BY <1>2, <2>1, <2>2, ToSetConcat DEF Content, Stored
<1> QED
    BY <1>1, <1>2

\* What a compaction copies: the lines of the path that are not expired.
LEMMA CopiedLines ==
    ASSUME TypeOK, StartCompaction
    PROVE  \E kept \in Seq(Batches) :
              /\ copy' = [copy EXCEPT ![Serve] = kept]
              /\ ToSet(kept) = {line \in ToSet(Content(path)) : ~Expired(line)}
<1> DEFINE lines == Content(path)
           kept == {i \in DOMAIN lines : ~Expired(lines[i])}
           copied == LinesAt(lines, kept)
<1>1. lines \in Seq(Lines) /\ Broken \notin ToSet(lines)
    BY ContentLines DEF StartCompaction
<1>2. copied \in Seq(Lines) /\ ToSet(copied) = {lines[i] : i \in kept}
    BY <1>1, LinesAtKeeps
<1>3. {lines[i] : i \in kept} = {line \in ToSet(lines) : ~Expired(line)}
    BY DEF ToSet
<1>4. \A i \in DOMAIN copied : copied[i] \in Batches
  <2>1. ToSet(lines) \subseteq Batches \union Legacy
    BY <1>1 DEF ToSet, Lines
  <2>2. ToSet(copied) \subseteq Batches
    BY <1>2, <1>3, <2>1 DEF Expired
  <2> QED
    BY <2>2 DEF ToSet
<1>5. copied \in Seq(Batches)
    BY <1>2, <1>4
<1>6. copy' = [copy EXCEPT ![Serve] = copied]
    BY DEF StartCompaction
<1> QED
    BY <1>2, <1>3, <1>5, <1>6

\* The types hold at the start, whatever file exists.
LEMMA InitTypes == Init => TypeOK
<1> SUFFICES ASSUME Init PROVE TypeOK
    OBVIOUS
<1>1. disk \in Seq(Inode) /\ path \in 0 .. Len(disk)
  <2>1. CASE path = 0 /\ disk = <<>>
    BY <2>1
  <2>2. ASSUME NEW lines \in [1 .. Cardinality(Legacy) -> Legacy], path = 1,
               disk = <<[lines |-> lines, tail |-> <<>>]>>
        PROVE  disk \in Seq(Inode) /\ path \in 0 .. Len(disk)
    <3>1. lines \in Seq(Lines)
      BY LinesAssumption, FS_CardinalityType DEF Lines
    <3>2. [lines |-> lines, tail |-> <<>>] \in Inode
      BY <3>1 DEF Inode
    <3> QED
      BY <2>2, <3>2
  <2> QED
    BY <2>1, <2>2 DEF Init
<1>2. copy \in [Processes -> Seq(Batches)]
    BY DEF Init
<1>3. /\ now \in 1 .. MaxTime
      /\ observed \in [Batches -> 0 .. MaxTime]
      /\ appends \in 0 .. MaxAppends
    BY TimesAssumption DEF Init
<1> QED
    BY <1>1, <1>2, <1>3 DEF Init, TypeOK

\* Giving the mutex back keeps the types.
LEMMA UnlockTypes ==
    ASSUME TypeOK, NEW p \in Processes, Unlock(p)
    PROVE  /\ holds' \in [Processes -> {"nothing", "append", "sync", "compact"}]
           /\ fd' \in [Processes -> Nat]
           /\ batch' \in [Processes -> Batches \union {Nothing}]
           /\ copy' \in [Processes -> Seq(Batches)]
           /\ \A q \in Processes : holds'[q] # "nothing" =>
                 q # p /\ holds'[q] = holds[q] /\ fd'[q] = fd[q] /\ batch'[q] = batch[q]
                 /\ copy'[q] = copy[q]
BY DEF TypeOK, Unlock

\* The types are inductive.
LEMMA TypeInductive == TypeOK /\ [Next]_vars => TypeOK'
<1> SUFFICES ASSUME TypeOK, [Next]_vars PROVE TypeOK'
    OBVIOUS
<1> USE TimesAssumption
<1>1. ASSUME NEW p \in Processes, NEW b \in Batches, OpenForAppend(p, b) PROVE TypeOK'
  <2>1. disk' \in Seq(Inode) /\ path' \in 1 .. Len(disk') /\ Len(disk) <= Len(disk')
    <3>1. EmptyFile \in Inode
      BY DEF EmptyFile, Inode
    <3>2. disk \in Seq(Inode) /\ path \in 0 .. Len(disk)
      BY DEF TypeOK
    <3>3. CASE path = 0
      <4>1. disk' = Append(disk, EmptyFile) /\ path' = Len(disk) + 1
        BY <1>1, <3>3 DEF OpenForAppend, OpenPath
      <4> QED
        BY <3>1, <3>2, <4>1
    <3>4. CASE path # 0
      BY <1>1, <3>2, <3>4 DEF OpenForAppend, OpenPath
    <3> QED
      BY <3>3, <3>4
  <2> QED
    BY <1>1, <2>1 DEF OpenForAppend, TypeOK, readVars
<1>2. ASSUME NEW p \in Processes, WriteLine(p) PROVE TypeOK'
  <2>1. fd[p] \in 1 .. Len(disk) /\ batch[p] \in Lines /\ disk[fd[p]] \in Inode
    BY <1>2 DEF WriteLine, TypeOK, Lines
  <2>2. disk' \in Seq(Inode) /\ Len(disk') = Len(disk)
    BY <1>2, <2>1, WrittenInode DEF WriteLine, TypeOK
  <2> QED
    BY <1>2, <2>2 DEF WriteLine, TypeOK, readVars
<1>3. ASSUME NEW p \in Processes, WriteShort(p) PROVE TypeOK'
  <2>1. fd[p] \in 1 .. Len(disk) /\ batch[p] \in Lines /\ disk[fd[p]] \in Inode /\ Broken \in Lines
    BY <1>3 DEF WriteShort, TypeOK, Lines
  <2>2. PICK part \in Lines :
            disk' = [disk EXCEPT ![fd[p]].tail = <<IF @ = <<>> THEN part ELSE Broken>>]
    BY <1>3, <2>1 DEF WriteShort
  <2>3. disk' \in Seq(Inode) /\ Len(disk') = Len(disk)
    <3> DEFINE tail == <<IF disk[fd[p]].tail = <<>> THEN part ELSE Broken>>
               inode == [lines |-> disk[fd[p]].lines, tail |-> tail]
    <3>1. tail \in Seq(Lines)
      BY <2>1
    <3>2. inode \in Inode
      BY <2>1, <3>1 DEF Inode
    <3>3. [disk[fd[p]] EXCEPT !.tail = tail] = inode
      BY <2>1, TailOnly DEF Inode
    <3>4. disk' = [disk EXCEPT ![fd[p]] = [disk[fd[p]] EXCEPT !.tail = tail]]
      BY <2>1, <2>2 DEF TypeOK
    <3> QED
      BY <2>1, <3>2, <3>3, <3>4 DEF TypeOK
  <2> QED
    BY <1>3, <2>3, UnlockTypes DEF WriteShort, TypeOK, readVars
<1>4. ASSUME NEW p \in Processes, WriteFails(p) \/ SyncLine(p) \/ SyncFails(p) PROVE TypeOK'
    BY <1>4, UnlockTypes DEF WriteFails, SyncLine, SyncFails, TypeOK, readVars
<1>5. ASSUME NEW p \in Processes, Restart(p) PROVE TypeOK'
    BY <1>5, UnlockTypes DEF Restart, TypeOK
<1>6. CASE Snapshot \/ FinishRead
    BY <1>6 DEF Snapshot, FinishRead, TypeOK, lockVars
<1>7. CASE StartCompaction
  <2>1. PICK kept \in Seq(Batches) : copy' = [copy EXCEPT ![Serve] = kept]
    BY <1>7, CopiedLines
  <2>2. copy' \in [Processes -> Seq(Batches)]
    BY <2>1 DEF TypeOK
  <2> QED
    BY <1>7, <2>2 DEF StartCompaction, TypeOK, readVars
<1>8. CASE CompactionFails
    BY <1>8, UnlockTypes DEF CompactionFails, TypeOK, readVars, Processes
<1>9. CASE Rename
  <2>1. Serve \in Processes
    BY DEF Processes
  <2>2. [lines |-> copy[Serve], tail |-> <<>>] \in Inode
    BY <2>1 DEF Inode, Lines, TypeOK
  <2>3. /\ disk' \in Seq(Inode) /\ Len(disk') = Len(disk) + 1
        /\ path' = Len(disk')
    BY <1>9, <2>2 DEF Rename, TypeOK
  <2>4. \A q \in Processes : fd[q] \in 1 .. Len(disk) => fd[q] \in 1 .. Len(disk')
    BY <2>3 DEF TypeOK
  <2>5. path' \in 0 .. Len(disk')
    BY <2>3
  <2>6. Unlock(Serve) /\ UNCHANGED <<now, observed, acked, appends, torn>>
    BY <1>9 DEF Rename
  <2> QED
    BY <2>1, <2>3, <2>4, <2>5, <2>6, UnlockTypes DEF TypeOK
<1>10. CASE Tick
    BY <1>10 DEF Tick, TypeOK, lockVars, readVars
<1>11. CASE UNCHANGED vars
    BY <1>11 DEF vars, TypeOK, lockVars, readVars
<1> QED
    BY <1>1, <1>2, <1>3, <1>4, <1>5, <1>6, <1>7, <1>8, <1>9, <1>10, <1>11 DEF Next

\* The types hold for any lines, processes and number of appends.
THEOREM TypeCorrect == Spec => []TypeOK
<1> QED
    BY InitTypes, TypeInductive, PTL DEF Spec
-----------------------------------------------------------------------------
\* What the two writes do to the file.
LEMMA LineWritten ==
    ASSUME TypeOK, NEW p \in Processes, WriteLine(p)
    PROVE  LET old == disk[fd[p]]
               line == IF old.tail = <<>> THEN batch[p] ELSE Broken
           IN  /\ fd[p] \in 1 .. Len(disk) /\ old \in Inode /\ line \in Lines /\ batch[p] \in Batches
               /\ [lines |-> Append(old.lines, line), tail |-> <<>>] \in Inode
               /\ disk' = [disk EXCEPT ![fd[p]] = [lines |-> Append(old.lines, line), tail |-> <<>>]]
<1>1. fd[p] \in 1 .. Len(disk) /\ batch[p] \in Batches /\ disk[fd[p]] \in Inode
    BY DEF WriteLine, TypeOK
<1>2. (IF disk[fd[p]].tail = <<>> THEN batch[p] ELSE Broken) \in Lines
    BY <1>1 DEF Lines
<1>3. Written(disk[fd[p]], batch[p]) \in Inode
    BY <1>1, WrittenInode DEF Lines
<1> QED
    BY <1>1, <1>2, <1>3 DEF WriteLine, Written

\* A short write leaves the lines as they are, and a torn tail.
LEMMA ShortWritten ==
    ASSUME TypeOK, NEW p \in Processes, WriteShort(p)
    PROVE  /\ fd[p] \in 1 .. Len(disk) /\ disk[fd[p]] \in Inode /\ batch[p] \in Batches
           /\ \E part \in {batch[p], Broken} :
                LET old == disk[fd[p]]
                    last == IF old.tail = <<>> THEN part ELSE Broken
                IN  /\ [lines |-> old.lines, tail |-> <<last>>] \in Inode
                    /\ disk' = [disk EXCEPT ![fd[p]] = [lines |-> old.lines, tail |-> <<last>>]]
<1>1. fd[p] \in 1 .. Len(disk) /\ batch[p] \in Batches /\ disk[fd[p]] \in Inode
    BY DEF WriteShort, TypeOK
<1>2. PICK part \in {batch[p], Broken} :
          disk' = [disk EXCEPT ![fd[p]].tail = <<IF @ = <<>> THEN part ELSE Broken>>]
    BY DEF WriteShort
<1> DEFINE tail == <<IF disk[fd[p]].tail = <<>> THEN part ELSE Broken>>
<1>3. disk' = [disk EXCEPT ![fd[p]] = [disk[fd[p]] EXCEPT !.tail = tail]]
    BY <1>1, <1>2 DEF TypeOK
<1>4. [disk[fd[p]] EXCEPT !.tail = tail] = [lines |-> disk[fd[p]].lines, tail |-> tail]
    BY <1>1, TailOnly DEF Inode
<1>5. [lines |-> disk[fd[p]].lines, tail |-> tail] \in Inode
    BY <1>1 DEF Inode, Lines
<1> QED
    BY <1>1, <1>3, <1>4, <1>5

\* A file is created: the inodes there are stay as they are.
Created(inode) == disk' = Append(disk, inode) /\ path' = Len(disk) + 1

\* What a step may do to inodes and path.
LEMMA DiskSteps ==
    ASSUME TypeOK, [Next]_vars
    PROVE  \/ UNCHANGED <<disk, path>>
           \/ path = 0 /\ Created(EmptyFile) /\ \E p \in Processes, b \in Batches : OpenForAppend(p, b)
           \/ path' = path /\ \E p \in Processes : WriteLine(p) \/ WriteShort(p)
           \/ Created([lines |-> copy[Serve], tail |-> <<>>]) /\ Rename
<1>1. ASSUME NEW p \in Processes, NEW b \in Batches, OpenForAppend(p, b)
      PROVE  UNCHANGED <<disk, path>> \/ (path = 0 /\ Created(EmptyFile))
    BY <1>1 DEF OpenForAppend, OpenPath, Created
<1>2. ASSUME NEW p \in Processes, WriteLine(p) \/ WriteShort(p) PROVE path' = path
    BY <1>2 DEF WriteLine, WriteShort
<1>3. ASSUME NEW p \in Processes, WriteFails(p) \/ SyncLine(p) \/ SyncFails(p) \/ Restart(p)
      PROVE  UNCHANGED <<disk, path>>
    BY <1>3 DEF WriteFails, SyncLine, SyncFails, Restart
<1>4. CASE Snapshot \/ FinishRead \/ StartCompaction \/ CompactionFails \/ Tick
    BY <1>4 DEF Snapshot, FinishRead, StartCompaction, CompactionFails, Tick
<1>5. ASSUME Rename PROVE Created([lines |-> copy[Serve], tail |-> <<>>])
    BY <1>5 DEF Rename, Created
<1>6. CASE UNCHANGED vars
    BY <1>6 DEF vars
<1> QED
    BY <1>1, <1>2, <1>3, <1>4, <1>5, <1>6 DEF Next

\* A new version of one inode touches no other.
LEMMA OneReplaced ==
    ASSUME NEW S, NEW s \in Seq(S), NEW i \in 1 .. Len(s), NEW x \in S
    PROVE  /\ [s EXCEPT ![i] = x] \in Seq(S)
           /\ Len([s EXCEPT ![i] = x]) = Len(s)
           /\ [s EXCEPT ![i] = x][i] = x
           /\ \A j \in 1 .. Len(s) : j # i => [s EXCEPT ![i] = x][j] = s[j]
OBVIOUS

\* An inode is never cut, nor are its lines changed: what was its beginning stays so.
LEMMA InodesGrow ==
    ASSUME TypeOK, [Next]_vars, NEW i \in 1 .. Len(disk), NEW n \in 0 .. Len(disk[i].lines)
    PROVE  /\ i \in 1 .. Len(disk')
           /\ n \in 0 .. Len(disk'[i].lines)
           /\ SubSeq(disk'[i].lines, 1, n) = SubSeq(disk[i].lines, 1, n)
<1>0. disk \in Seq(Inode) /\ disk[i] \in Inode
    BY DEF TypeOK
<1>1. disk[i].lines \in Seq(Lines)
    BY <1>0 DEF Inode
<1>2. ASSUME NEW inode, Created(inode) PROVE i \in 1 .. Len(disk') /\ disk'[i] = disk[i]
    BY <1>0, <1>2 DEF Created
<1>3. ASSUME NEW p \in Processes, WriteLine(p)
      PROVE  /\ i \in 1 .. Len(disk')
             /\ disk'[i].lines = disk[i].lines
                \/ \E line \in Lines : disk'[i].lines = Append(disk[i].lines, line)
  <2> DEFINE line == IF disk[fd[p]].tail = <<>> THEN batch[p] ELSE Broken
             new == [lines |-> Append(disk[fd[p]].lines, line), tail |-> <<>>]
  <2>1. fd[p] \in 1 .. Len(disk) /\ line \in Lines /\ new \in Inode /\ disk' = [disk EXCEPT ![fd[p]] = new]
    BY <1>3, LineWritten
  <2>2. /\ Len(disk') = Len(disk)
        /\ disk'[i] = IF i = fd[p] THEN new ELSE disk[i]
    BY <1>0, <2>1, OneReplaced
  <2>3. new.lines = Append(disk[fd[p]].lines, line)
    OBVIOUS
  <2> QED
    BY <2>1, <2>2, <2>3
<1>4. ASSUME NEW p \in Processes, WriteShort(p)
      PROVE  i \in 1 .. Len(disk') /\ disk'[i].lines = disk[i].lines
  <2>1. PICK new \in Inode : /\ fd[p] \in 1 .. Len(disk)
                            /\ new.lines = disk[fd[p]].lines
                            /\ disk' = [disk EXCEPT ![fd[p]] = new]
    BY <1>4, ShortWritten
  <2>2. /\ Len(disk') = Len(disk)
        /\ disk'[i] = IF i = fd[p] THEN new ELSE disk[i]
    BY <1>0, <2>1, OneReplaced
  <2> QED
    BY <2>1, <2>2
<1>5. \A line \in Lines :
          /\ n \in 0 .. Len(Append(disk[i].lines, line))
          /\ SubSeq(Append(disk[i].lines, line), 1, n) = SubSeq(disk[i].lines, 1, n)
    BY <1>1
<1> QED
    BY <1>2, <1>3, <1>4, <1>5, DiskSteps
-----------------------------------------------------------------------------
\* Until a write stops half-way, every line ends and can be decoded.
WholeUnlessTorn ==
    ~torn => \A i \in 1 .. Len(disk) : disk[i].tail = <<>> /\ Broken \notin ToSet(disk[i].lines)

\* An existing file is whole.
LEMMA WholeInit == Init => WholeUnlessTorn
<1> SUFFICES ASSUME Init PROVE WholeUnlessTorn
    OBVIOUS
<1>1. CASE disk = <<>>
    BY <1>1 DEF WholeUnlessTorn
<1>2. ASSUME NEW lines \in [1 .. Cardinality(Legacy) -> Legacy],
             disk = <<[lines |-> lines, tail |-> <<>>]>>
      PROVE  WholeUnlessTorn
  <2>1. Broken \notin ToSet(lines)
    BY LinesAssumption DEF ToSet
  <2> QED
    BY <1>2, <2>1 DEF WholeUnlessTorn
<1> QED
    BY <1>1, <1>2 DEF Init

\* No step but a short write, or an append to a torn line, breaks a line.
LEMMA WholeInductive == TypeOK /\ WholeUnlessTorn /\ [Next]_vars => WholeUnlessTorn'
<1> SUFFICES ASSUME TypeOK, WholeUnlessTorn, [Next]_vars, ~torn' PROVE WholeUnlessTorn'
    BY DEF WholeUnlessTorn
<1> USE LinesAssumption DEF WholeUnlessTorn
<1>1. ~torn /\ \A p \in Processes : ~WriteShort(p)
  <2>1. \A p \in Processes : WriteShort(p) => torn'
    BY DEF WriteShort
  <2>2. \A p \in Processes : ~WriteShort(p)
    BY <2>1
  <2>3. ASSUME NEW p \in Processes,
               \/ \E b \in Batches : OpenForAppend(p, b)
               \/ WriteLine(p) \/ WriteFails(p) \/ SyncLine(p) \/ SyncFails(p) \/ Restart(p)
        PROVE  torn' = torn
    BY <2>3 DEF OpenForAppend, WriteLine, WriteFails, SyncLine, SyncFails, Restart
  <2>4. ASSUME Snapshot \/ FinishRead \/ StartCompaction \/ CompactionFails \/ Rename \/ Tick
        PROVE  torn' = torn
    BY <2>4 DEF Snapshot, FinishRead, StartCompaction, CompactionFails, Rename, Tick
  <2>5. ASSUME UNCHANGED vars PROVE torn' = torn
    BY <2>5 DEF vars
  <2>6. torn' = torn
    BY <2>2, <2>3, <2>4, <2>5 DEF Next
  <2> QED
    BY <2>2, <2>6
<1>2. ASSUME NEW inode \in Inode, Created(inode), inode.tail = <<>>, Broken \notin ToSet(inode.lines)
      PROVE  WholeUnlessTorn'
    BY <1>1, <1>2 DEF Created, TypeOK
<1>3. ASSUME NEW p \in Processes, WriteLine(p) PROVE WholeUnlessTorn'
  <2> DEFINE old == disk[fd[p]]
  <2>1. old.tail = <<>> /\ Broken \notin ToSet(old.lines) /\ old.lines \in Seq(Lines)
    BY <1>1, <1>3, LineWritten DEF Inode
  <2>2. /\ batch[p] \in Batches /\ fd[p] \in 1 .. Len(disk)
        /\ disk' = [disk EXCEPT ![fd[p]] = [lines |-> Append(old.lines, batch[p]), tail |-> <<>>]]
    BY <1>3, <2>1, LineWritten
  <2>3. Broken \notin ToSet(Append(old.lines, batch[p]))
    BY <2>1, <2>2, ToSetAppend DEF Lines
  <2> QED
    BY <1>1, <2>2, <2>3 DEF TypeOK
<1>4. EmptyFile \in Inode /\ EmptyFile.tail = <<>> /\ Broken \notin ToSet(EmptyFile.lines)
    BY ToSetSmall DEF EmptyFile, Inode
<1>5. [lines |-> copy[Serve], tail |-> <<>>] \in Inode /\ Broken \notin ToSet(copy[Serve])
  <2>1. copy[Serve] \in Seq(Batches)
    BY DEF TypeOK, Processes
  <2> QED
    BY <2>1 DEF Inode, Lines, ToSet
<1> QED
    BY <1>1, <1>2, <1>3, <1>4, <1>5, DiskSteps

\* Only a write that stopped half-way makes the file unreadable, for any lines and
\* processes: no retry, failure, compaction or crash does.
THEOREM OnlyTorn == Spec => []OnlyTornIsUnreadable
<1>1. TypeOK /\ WholeUnlessTorn => OnlyTornIsUnreadable
  <2> SUFFICES ASSUME TypeOK, WholeUnlessTorn, Visible = Broken PROVE torn
    BY DEF OnlyTornIsUnreadable
  <2>1. Broken \in ToSet(Content(path))
    <3>1. ToSet(Content(path)) \subseteq Lines
      BY ContentLines DEF ToSet
    <3> DEFINE result == {line \in ToSet(Content(path)) \ Legacy : observed[line] + Retention >= now}
    <3>2. ASSUME Broken \notin ToSet(Content(path)) PROVE FALSE
      <4>1. result \in SUBSET Batches /\ Visible = result
        BY <3>1, <3>2 DEF Visible, LoadResult, Lines
      <4> QED
        BY <4>1, LinesAssumption
    <3> QED
      BY <3>2
  <2>2. path \in 1 .. Len(disk) /\ Broken \in Stored(disk[path])
    BY <2>1, ContentLines
  <2> QED
    BY <2>2, ToSetSmall DEF Stored, WholeUnlessTorn, TypeOK
<1> QED
    BY <1>1, WholeInit, WholeInductive, TypeCorrect, PTL DEF Spec
-----------------------------------------------------------------------------
\* The batches that were observed at some time.
Known == {b \in Batches : observed[b] # 0}

\* Whatever is in a file, or is on its way there, was observed.
LinesAreKnown ==
    /\ \A i \in 1 .. Len(disk) : Stored(disk[i]) \cap Batches \subseteq Known
    /\ \A p \in Processes : holds[p] \in {"append", "sync"} => batch[p] \in Known
    /\ \A p \in Processes : ToSet(copy[p]) \subseteq Known

\* What was observed keeps its time.
LEMMA ObservedStays ==
    ASSUME TypeOK, [Next]_vars
    PROVE  Known \subseteq Known' /\ \A b \in Known : observed'[b] = observed[b]
<1>1. ASSUME NEW p \in Processes, NEW b \in Batches, OpenForAppend(p, b)
      PROVE  \A c \in Known : observed'[c] = observed[c]
    BY <1>1 DEF OpenForAppend, TypeOK, Known
<1>2. ASSUME NEW p \in Processes,
             WriteLine(p) \/ WriteShort(p) \/ WriteFails(p) \/ SyncLine(p) \/ SyncFails(p) \/ Restart(p)
      PROVE  observed' = observed
    BY <1>2 DEF WriteLine, WriteShort, WriteFails, SyncLine, SyncFails, Restart
<1>3. ASSUME Snapshot \/ FinishRead \/ StartCompaction \/ CompactionFails \/ Rename \/ Tick
      PROVE  observed' = observed
    BY <1>3 DEF Snapshot, FinishRead, StartCompaction, CompactionFails, Rename, Tick
<1>4. ASSUME UNCHANGED vars PROVE observed' = observed
    BY <1>4 DEF vars
<1>5. \A b \in Known : observed'[b] = observed[b]
    BY <1>1, <1>2, <1>3, <1>4 DEF Next
<1> QED
    BY <1>5 DEF Known

\* The lines of an existing file were observed before the start.
LEMMA KnownInit == Init => LinesAreKnown
<1> SUFFICES ASSUME Init PROVE LinesAreKnown
    OBVIOUS
<1>1. \A i \in 1 .. Len(disk) : Stored(disk[i]) \cap Batches = {}
  <2>1. CASE disk = <<>>
    BY <2>1
  <2>2. ASSUME NEW lines \in [1 .. Cardinality(Legacy) -> Legacy],
               disk = <<[lines |-> lines, tail |-> <<>>]>>
        PROVE  \A i \in 1 .. Len(disk) : Stored(disk[i]) \cap Batches = {}
    <3>1. ToSet(lines) \subseteq Legacy
      BY DEF ToSet
    <3> QED
      BY <2>2, <3>1, ToSetSmall, LinesAssumption DEF Stored
  <2> QED
    BY <2>1, <2>2 DEF Init
<1>2. \A p \in Processes : holds[p] = "nothing" /\ copy[p] = <<>>
    BY DEF Init
<1> QED
    BY <1>1, <1>2, ToSetSmall DEF LinesAreKnown

\* The batches of the inodes, after any step, were observed before it or are being appended.
LEMMA StoredStaysKnown ==
    ASSUME TypeOK, LinesAreKnown, [Next]_vars
    PROVE  \A i \in 1 .. Len(disk') : Stored(disk'[i]) \cap Batches \subseteq Known
<1>0. disk \in Seq(Inode) /\ \A i \in 1 .. Len(disk) : Stored(disk[i]) \cap Batches \subseteq Known
    BY DEF LinesAreKnown, TypeOK
<1>1. ASSUME NEW inode \in Inode, Created(inode), Stored(inode) \cap Batches \subseteq Known
      PROVE  \A i \in 1 .. Len(disk') : Stored(disk'[i]) \cap Batches \subseteq Known
  <2>1. \A i \in 1 .. Len(disk') : disk'[i] = inode \/ (i \in 1 .. Len(disk) /\ disk'[i] = disk[i])
    BY <1>0, <1>1 DEF Created
  <2> QED
    BY <1>0, <1>1, <2>1
<1>2. ASSUME NEW i \in 1 .. Len(disk), NEW inode \in Inode, disk' = [disk EXCEPT ![i] = inode],
             Stored(inode) \cap Batches \subseteq Known
      PROVE  \A j \in 1 .. Len(disk') : Stored(disk'[j]) \cap Batches \subseteq Known
  <2>1. \A j \in 1 .. Len(disk') : disk'[j] = inode \/ (j \in 1 .. Len(disk) /\ disk'[j] = disk[j])
    BY <1>0, <1>2, OneReplaced
  <2> QED
    BY <1>0, <1>2, <2>1
<1>3. ASSUME NEW p \in Processes, WriteLine(p)
      PROVE  \A j \in 1 .. Len(disk') : Stored(disk'[j]) \cap Batches \subseteq Known
  <2> DEFINE old == disk[fd[p]]
             line == IF old.tail = <<>> THEN batch[p] ELSE Broken
             new == [lines |-> Append(old.lines, line), tail |-> <<>>]
  <2>1. /\ fd[p] \in 1 .. Len(disk) /\ line \in Lines /\ new \in Inode
        /\ disk' = [disk EXCEPT ![fd[p]] = new] /\ old \in Inode
    BY <1>3, LineWritten
  <2>2. Stored(new) = ToSet(old.lines) \union {line}
    BY <2>1, ToSetAppend, ToSetSmall DEF Stored, Inode
  <2>3. line = Broken \/ line \in Known
    BY <1>3 DEF WriteLine, LinesAreKnown
  <2>4. Stored(new) \cap Batches \subseteq Known
    BY <1>0, <2>1, <2>2, <2>3, LinesAssumption DEF Stored
  <2> QED
    BY <1>2, <2>1, <2>4
<1>4. ASSUME NEW p \in Processes, WriteShort(p)
      PROVE  \A j \in 1 .. Len(disk') : Stored(disk'[j]) \cap Batches \subseteq Known
  <2>1. PICK last \in {batch[p], Broken} :
            /\ fd[p] \in 1 .. Len(disk)
            /\ [lines |-> disk[fd[p]].lines, tail |-> <<last>>] \in Inode
            /\ disk' = [disk EXCEPT ![fd[p]] = [lines |-> disk[fd[p]].lines, tail |-> <<last>>]]
    BY <1>4, ShortWritten
  <2> DEFINE new == [lines |-> disk[fd[p]].lines, tail |-> <<last>>]
  <2>2. Stored(new) = ToSet(disk[fd[p]].lines) \union {last}
    BY ToSetSmall DEF Stored
  <2>3. last = Broken \/ last \in Known
    BY <1>4 DEF WriteShort, LinesAreKnown
  <2>4. Stored(new) \cap Batches \subseteq Known
    BY <1>0, <2>1, <2>2, <2>3, LinesAssumption DEF Stored
  <2> QED
    BY <1>2, <2>1, <2>4
<1>5. EmptyFile \in Inode /\ Stored(EmptyFile) = {}
    BY ToSetSmall DEF EmptyFile, Inode, Stored
<1>6. /\ [lines |-> copy[Serve], tail |-> <<>>] \in Inode
      /\ Stored([lines |-> copy[Serve], tail |-> <<>>]) \subseteq Known
  <2>1. copy[Serve] \in Seq(Batches) /\ ToSet(copy[Serve]) \subseteq Known
    BY DEF TypeOK, Processes, LinesAreKnown
  <2> QED
    BY <2>1, ToSetSmall DEF Inode, Lines, Stored
<1> QED
    BY <1>0, <1>1, <1>3, <1>4, <1>5, <1>6, DiskSteps

\* No step stores a batch that was never observed.
LEMMA KnownInductive == TypeOK /\ LinesAreKnown /\ [Next]_vars => LinesAreKnown'
<1> SUFFICES ASSUME TypeOK, LinesAreKnown, [Next]_vars PROVE LinesAreKnown'
    OBVIOUS
<1>1. \A i \in 1 .. Len(disk') : Stored(disk'[i]) \cap Batches \subseteq Known'
    BY StoredStaysKnown, ObservedStays
<1>2. /\ \A p \in Processes : holds'[p] \in {"append", "sync"} => batch'[p] \in Known'
      /\ \A p \in Processes : ToSet(copy'[p]) \subseteq Known'
  <2> USE ObservedStays DEF LinesAreKnown, TypeOK
  <2>1. ASSUME NEW p \in Processes, Unlock(p)
        PROVE  /\ \A q \in Processes : holds'[q] \in {"append", "sync"} => batch'[q] \in Known'
               /\ \A q \in Processes : ToSet(copy'[q]) \subseteq Known'
    BY <2>1, ToSetSmall DEF Unlock
  <2>2. ASSUME NEW p \in Processes, NEW b \in Batches, OpenForAppend(p, b)
        PROVE  /\ \A q \in Processes : holds'[q] \in {"append", "sync"} => batch'[q] \in Known'
               /\ \A q \in Processes : ToSet(copy'[q]) \subseteq Known'
    <3>1. b \in Known'
      BY <2>2, TimesAssumption DEF OpenForAppend, Known
    <3> QED
      BY <2>2, <3>1 DEF OpenForAppend
  <2>3. ASSUME NEW p \in Processes, WriteLine(p)
        PROVE  /\ \A q \in Processes : holds'[q] \in {"append", "sync"} => batch'[q] \in Known'
               /\ \A q \in Processes : ToSet(copy'[q]) \subseteq Known'
    BY <2>3 DEF WriteLine
  <2>4. CASE StartCompaction
    <3>1. PICK kept \in Seq(Batches) : /\ copy' = [copy EXCEPT ![Serve] = kept]
                                       /\ ToSet(kept) \subseteq ToSet(Content(path))
      BY <2>4, CopiedLines
    <3>2. ToSet(kept) \subseteq Batches
      BY DEF ToSet
    <3>3. ToSet(kept) \subseteq Known
      BY <3>1, <3>2, ContentLines
    <3> QED
      BY <2>4, <3>1, <3>3 DEF StartCompaction
  <2>5. CASE UNCHANGED lockVars
    BY <2>5 DEF lockVars
  <2>6. ASSUME NEW p \in Processes,
               WriteShort(p) \/ WriteFails(p) \/ SyncLine(p) \/ SyncFails(p) \/ Restart(p)
        PROVE  Unlock(p)
    BY <2>6 DEF WriteShort, WriteFails, SyncLine, SyncFails, Restart
  <2>7. ASSUME CompactionFails \/ Rename PROVE Unlock(Serve) /\ Serve \in Processes
    BY <2>7 DEF CompactionFails, Rename, Processes
  <2>8. ASSUME Snapshot \/ FinishRead \/ Tick \/ UNCHANGED vars PROVE UNCHANGED lockVars
    BY <2>8 DEF Snapshot, FinishRead, Tick, vars
  <2> HIDE ObservedStays DEF LinesAreKnown, TypeOK
  <2> QED
    BY <2>1, <2>2, <2>3, <2>4, <2>5, <2>6, <2>7, <2>8 DEF Next
<1> QED
    BY <1>1, <1>2 DEF LinesAreKnown
-----------------------------------------------------------------------------
\* The lines that a load decodes after the mutex.
ReadLines == SubSeq(disk[reader.inode].lines, 1, reader.lines) \o reader.tail

\* A load has an inode, a boundary in it, and an answer it owes.
ReaderInv ==
    reader # Nothing =>
        /\ reader.inode \in 1 .. Len(disk)
        /\ reader.lines \in 0 .. Len(disk[reader.inode].lines)
        /\ ToSet(ReadLines) \cap Batches \subseteq Known
        /\ ToSet(ReadLines) \subseteq Lines
        /\ ReadsItsSnapshot

\* A load in progress is not touched by others.
LEMMA ReaderStays ==
    ASSUME TypeOK, ReaderInv, [Next]_vars, UNCHANGED <<reader, owed>>
    PROVE  ReaderInv'
<1> SUFFICES ASSUME reader # Nothing PROVE ReaderInv'
    BY DEF ReaderInv
<1> DEFINE read == ToSet(ReadLines)
<1>1. /\ reader.inode \in 1 .. Len(disk')
      /\ reader.lines \in 0 .. Len(disk'[reader.inode].lines)
      /\ SubSeq(disk'[reader.inode].lines, 1, reader.lines)
            = SubSeq(disk[reader.inode].lines, 1, reader.lines)
    BY InodesGrow DEF ReaderInv
<1>2. ReadLines' = ReadLines
    BY <1>1 DEF ReadLines
<1>3. ReadLines' \in {ReadLines} /\ read \cap Batches \subseteq Known' /\ read \subseteq Lines
    BY <1>2, ObservedStays DEF ReaderInv
<1>4. Decoded' = Decoded
  <2>1. \A line \in read \ Legacy : line # Broken => observed'[line] = observed[line]
    BY ObservedStays DEF ReaderInv, Lines
  <2>2. Decoded = LoadResult(ReadLines, reader.time)
    BY DEF Decoded, ReadLines
  <2>3. Decoded' = IF Broken \in ToSet(ReadLines) THEN Broken
                   ELSE {line \in ToSet(ReadLines) \ Legacy : observed'[line] + Retention >= reader.time}
    BY <1>2 DEF Decoded, ReadLines, LoadResult
  <2> QED
    BY <2>1, <2>2, <2>3 DEF LoadResult
<1> QED
    BY <1>1, <1>2, <1>3, <1>4 DEF ReaderInv, ReadsItsSnapshot

\* A load keeps the beginning that its snapshot measured.
LEMMA ReaderInductive == TypeOK /\ LinesAreKnown /\ ReaderInv /\ [Next]_vars => ReaderInv'
<1> SUFFICES ASSUME TypeOK, LinesAreKnown, ReaderInv, [Next]_vars PROVE ReaderInv'
    OBVIOUS
<1>1. ASSUME NEW p \in Processes,
             \/ \E b \in Batches : OpenForAppend(p, b)
             \/ WriteLine(p) \/ WriteShort(p) \/ WriteFails(p) \/ SyncLine(p) \/ SyncFails(p)
      PROVE  UNCHANGED <<reader, owed>>
    BY <1>1 DEF OpenForAppend, WriteLine, WriteShort, WriteFails, SyncLine, SyncFails, readVars
<1>2. ASSUME NEW p \in Processes, Restart(p)
      PROVE  UNCHANGED <<reader, owed>> \/ reader' = Nothing
    BY <1>2 DEF Restart, readVars
<1>3. ASSUME StartCompaction \/ CompactionFails \/ Rename \/ Tick \/ UNCHANGED vars
      PROVE  UNCHANGED <<reader, owed>>
    BY <1>3 DEF StartCompaction, CompactionFails, Rename, Tick, vars, readVars
<1>4. ASSUME FinishRead PROVE reader' = Nothing
    BY <1>4 DEF FinishRead
<1>5. CASE Snapshot
  <2> SUFFICES ASSUME reader' # Nothing PROVE ReaderInv'
    BY DEF ReaderInv
  <2>1. /\ path \in 1 .. Len(disk) /\ disk[path] \in Inode
        /\ ToSet(Content(path)) = Stored(disk[path]) /\ Content(path) \in Seq(Lines)
        /\ Content(path) = disk[path].lines \o disk[path].tail
    BY <1>5, ContentLines DEF Snapshot, Content
  <2>2. /\ disk[path].lines \in Seq(Lines)
        /\ SubSeq(disk[path].lines, 1, Len(disk[path].lines)) = disk[path].lines
        /\ Len(disk[path].lines) \in 0 .. Len(disk[path].lines)
    BY <2>1 DEF Inode
  <2>3. /\ reader'.inode = path /\ reader'.lines = Len(disk[path].lines)
        /\ reader'.tail = disk[path].tail /\ reader'.time = now
        /\ UNCHANGED <<disk, observed>> /\ owed' = Visible
    BY <1>5 DEF Snapshot
  <2>4. ReadLines' = Content(path)
    BY <2>1, <2>2, <2>3 DEF ReadLines
  <2>5. Decoded' = owed'
    BY <2>3, <2>4 DEF Decoded, ReadLines, Visible, LoadResult
  <2>6. ToSet(Content(path)) \subseteq Lines /\ ToSet(Content(path)) \cap Batches \subseteq Known'
    <3>1. ToSet(Content(path)) \subseteq Lines
      BY ContentLines DEF ToSet
    <3>2. Known' = Known
      BY <2>3 DEF Known
    <3> QED
      BY <2>1, <3>1, <3>2 DEF LinesAreKnown
  <2> QED
    BY <2>1, <2>2, <2>3, <2>4, <2>5, <2>6 DEF ReaderInv, ReadsItsSnapshot
<1>6. ASSUME reader' = Nothing PROVE ReaderInv'
    BY <1>6 DEF ReaderInv
<1> QED
    BY <1>1, <1>2, <1>3, <1>4, <1>5, <1>6, ReaderStays DEF Next

\* A load returns what the file held when it took its boundary: whatever is appended
\* by any process, and whatever compaction renames over the path, while it decodes.
THEOREM ReadsSnapshot == Spec => []ReadsItsSnapshot
<1>1. Init => ReaderInv
    BY DEF Init, ReaderInv
<1>2. ReaderInv => ReadsItsSnapshot
    BY DEF ReaderInv, ReadsItsSnapshot
<1> QED
    BY <1>1, <1>2, KnownInit, KnownInductive, ReaderInductive, TypeCorrect, PTL DEF Spec
-----------------------------------------------------------------------------
\* The lines the path leads to.
Held == ToSet(Content(path))

\* A batch that reports may still use.
Counts(b) == observed[b] + Retention >= now

\* While one process uses the file, it appends to the inode the path names, and what
\* it copies for a compaction is all that counts there.
KeptInv ==
    /\ acked \subseteq Known
    /\ holds[Serve] \in {"append", "sync"} => path # 0 /\ fd[Serve] = path
    /\ holds[Serve] = "compact" =>
            /\ Broken \notin Held
            /\ ToSet(copy[Serve]) \subseteq Held
            /\ \A b \in Held \cap Batches : Counts(b) => b \in ToSet(copy[Serve])
    /\ \/ Broken \in Held
       \/ /\ \A b \in acked : Counts(b) => b \in Held
          /\ holds[Serve] = "sync" => batch[Serve] \in Held

HeldByPath == IF path = 0 THEN Held = {} ELSE Held = Stored(disk[path])

\* The path holds lines, whatever was written to it.
LEMMA HeldLines == TypeOK => HeldByPath
BY ContentLines DEF Held, HeldByPath

\* So it does after a step.
LEMMA HeldLinesNext == TypeOK' => HeldByPath'
BY HeldLines, PTL

\* Time only passes: what does not count any more never counts again.
LEMMA CountsLess ==
    ASSUME TypeOK, [Next]_vars, NEW b \in Known, Counts(b)'
    PROVE  Counts(b)
<1>1. now <= now'
  <2>1. ASSUME NEW p \in Processes,
               \/ \E c \in Batches : OpenForAppend(p, c)
               \/ WriteLine(p) \/ WriteShort(p) \/ WriteFails(p) \/ SyncLine(p) \/ SyncFails(p)
               \/ Restart(p)
        PROVE  now' = now
    BY <2>1 DEF OpenForAppend, WriteLine, WriteShort, WriteFails, SyncLine, SyncFails, Restart
  <2>2. ASSUME Snapshot \/ FinishRead \/ StartCompaction \/ CompactionFails \/ Rename \/ UNCHANGED vars
        PROVE  now' = now
    BY <2>2 DEF Snapshot, FinishRead, StartCompaction, CompactionFails, Rename, vars
  <2>3. Tick => now' = now + 1
    BY DEF Tick
  <2>4. now \in Nat
    BY TimesAssumption DEF TypeOK
  <2> QED
    BY <2>1, <2>2, <2>3, <2>4 DEF Next
<1>2. now \in Nat /\ now' \in Nat /\ observed[b] \in Nat /\ observed'[b] = observed[b]
    BY ObservedStays, TypeInductive, TimesAssumption DEF TypeOK, Known
<1> QED
    BY <1>1, <1>2, TimesAssumption DEF Counts

\* But for a rename, what the path leads to only grows, or cannot be decoded; and it
\* only changes while a line is written.
LEMMA PathGrows ==
    ASSUME TypeOK, KeptInv, Processes = {Serve}, [Next]_vars, ~Rename
    PROVE  /\ Held \subseteq Held' \/ Broken \in Held'
           /\ holds[Serve] # "append" => Held' = Held
           /\ WriteLine(Serve) => batch[Serve] \in Held' \/ Broken \in Held'
<1>1. TypeOK'
    BY TypeInductive
<1>2. ASSUME UNCHANGED <<disk, path>> PROVE Held' = Held
    BY <1>2 DEF Held, Content
<1>3. ASSUME path = 0, Created(EmptyFile) PROVE Held' = Held
  <2>1. path' = Len(disk) + 1 /\ disk'[path'] = EmptyFile /\ path' # 0
    BY <1>3 DEF Created, TypeOK
  <2>2. Stored(EmptyFile) = {}
    BY ToSetSmall DEF EmptyFile, Stored
  <2> QED
    BY <1>1, <1>3, <2>1, <2>2, HeldLines, HeldLinesNext DEF HeldByPath
<1>4. ASSUME NEW inode \in Inode, path' = path, path # 0, disk' = [disk EXCEPT ![path] = inode]
      PROVE  Held = Stored(disk[path]) /\ Held' = Stored(inode)
  <2>1. disk'[path'] = inode
    BY <1>4 DEF TypeOK
  <2> QED
    BY <1>1, <1>4, <2>1, HeldLines, HeldLinesNext DEF HeldByPath
<1>5. ASSUME WriteLine(Serve)
      PROVE  \/ Held \subseteq Held' /\ batch[Serve] \in Held'
             \/ Broken \in Held'
  <2> DEFINE old == disk[path]
             line == IF old.tail = <<>> THEN batch[Serve] ELSE Broken
             new == [lines |-> Append(old.lines, line), tail |-> <<>>]
  <2>0. Serve \in Processes
    BY DEF Processes
  <2>1. path' = path /\ path # 0 /\ fd[Serve] = path
    BY <1>5 DEF WriteLine, KeptInv
  <2>2. line \in Lines /\ new \in Inode /\ disk' = [disk EXCEPT ![path] = new] /\ old \in Inode
    BY <1>5, <2>0, <2>1, LineWritten
  <2>3. Held = Stored(old) /\ Held' = Stored(new)
    BY <1>4, <2>1, <2>2
  <2>4. Stored(new) = ToSet(old.lines) \union {line}
    BY <2>2, ToSetAppend, ToSetSmall DEF Stored, Inode
  <2>5. old.tail = <<>> => Stored(old) = ToSet(old.lines)
    BY ToSetSmall DEF Stored
  <2> QED
    BY <2>3, <2>4, <2>5
<1>6. ASSUME WriteShort(Serve)
      PROVE  Held \subseteq Held' \/ Broken \in Held'
  <2>0. Serve \in Processes
    BY DEF Processes
  <2>1. path' = path /\ path # 0 /\ fd[Serve] = path
    BY <1>6 DEF WriteShort, KeptInv
  <2>2. PICK part \in {batch[Serve], Broken} :
            LET last == IF disk[path].tail = <<>> THEN part ELSE Broken
            IN  /\ [lines |-> disk[path].lines, tail |-> <<last>>] \in Inode
                /\ disk' = [disk EXCEPT ![path] = [lines |-> disk[path].lines, tail |-> <<last>>]]
    BY <1>6, <2>0, <2>1, ShortWritten
  <2> DEFINE last == IF disk[path].tail = <<>> THEN part ELSE Broken
             new == [lines |-> disk[path].lines, tail |-> <<last>>]
  <2>3. Held = Stored(disk[path]) /\ Held' = Stored(new)
    BY <1>4, <2>1, <2>2
  <2>4. Stored(new) = ToSet(disk[path].lines) \union {last}
    BY ToSetSmall DEF Stored
  <2>5. disk[path].tail = <<>> => Stored(disk[path]) = ToSet(disk[path].lines)
    BY ToSetSmall DEF Stored
  <2> QED
    BY <2>3, <2>4, <2>5
<1>7. WriteLine(Serve) \/ WriteShort(Serve) => holds[Serve] = "append"
    BY DEF WriteLine, WriteShort
<1>8. \/ UNCHANGED <<disk, path>>
      \/ path = 0 /\ Created(EmptyFile)
      \/ WriteLine(Serve) \/ WriteShort(Serve)
    BY DiskSteps
<1> QED
    BY <1>2, <1>3, <1>5, <1>6, <1>7, <1>8

\* With one process, every step keeps what the path and the copy of a compaction hold.
LEMMA KeptInductive ==
    TypeOK /\ LinesAreKnown /\ KeptInv /\ Processes = {Serve} /\ [Next]_vars => KeptInv'
<1> SUFFICES ASSUME TypeOK, LinesAreKnown, KeptInv, Processes = {Serve}, [Next]_vars
             PROVE  KeptInv'
    OBVIOUS
<1> DEFINE Readable(lines) ==
        /\ \A b \in acked' : Counts(b)' => b \in lines
        /\ holds'[Serve] = "sync" => batch'[Serve] \in lines
<1>0. Serve \in Processes
    BY DEF Processes
<1>1. acked' \subseteq Known'
  <2>1. acked' = acked \/ (holds[Serve] = "sync" /\ acked' = acked \union {batch[Serve]})
    <3>1. ASSUME NEW p \in Processes,
                 \/ \E c \in Batches : OpenForAppend(p, c)
                 \/ WriteLine(p) \/ WriteShort(p) \/ WriteFails(p) \/ SyncFails(p) \/ Restart(p)
          PROVE  acked' = acked
      BY <3>1 DEF OpenForAppend, WriteLine, WriteShort, WriteFails, SyncFails, Restart
    <3>2. ASSUME NEW p \in Processes, SyncLine(p)
          PROVE  holds[Serve] = "sync" /\ acked' = acked \union {batch[Serve]}
      BY <3>2 DEF SyncLine
    <3>3. ASSUME Snapshot \/ FinishRead \/ StartCompaction \/ CompactionFails \/ Rename \/ Tick
                 \/ UNCHANGED vars
          PROVE  acked' = acked
      BY <3>3 DEF Snapshot, FinishRead, StartCompaction, CompactionFails, Rename, Tick, vars
    <3> QED
      BY <3>1, <3>2, <3>3 DEF Next
  <2> QED
    BY <1>0, <2>1, ObservedStays DEF KeptInv, LinesAreKnown
<1>2. ASSUME Held \subseteq Held' \/ Broken \in Held', Broken \in Held => Broken \in Held',
             acked' = acked, holds'[Serve] # "sync"
      PROVE  Broken \in Held' \/ Readable(Held')
  <2>1. \A b \in acked : Counts(b)' => Counts(b)
    BY CountsLess DEF KeptInv
  <2> QED
    BY <1>2, <2>1 DEF KeptInv
<1>3. ASSUME UNCHANGED <<disk, path>> PROVE Held' = Held
    BY <1>3 DEF Held, Content
<1>4. CASE Rename
  <2>1. Held' = ToSet(copy[Serve])
    <3>1. path' = Len(disk) + 1 /\ disk'[path'] = [lines |-> copy[Serve], tail |-> <<>>]
      BY <1>4 DEF Rename, TypeOK
    <3>2. TypeOK' /\ path' # 0
      BY <3>1, TypeInductive DEF TypeOK
    <3>3. Stored([lines |-> copy[Serve], tail |-> <<>>]) = ToSet(copy[Serve])
      BY ToSetSmall DEF Stored
    <3> QED
      BY <3>1, <3>2, <3>3, HeldLinesNext DEF HeldByPath
  <2>2. holds[Serve] = "compact" /\ holds'[Serve] = "nothing" /\ acked' = acked
    BY <1>0, <1>4 DEF Rename, Unlock, TypeOK
  <2>3. \A b \in acked : Counts(b)' => b \in ToSet(copy[Serve])
    <3> SUFFICES ASSUME NEW b \in acked, Counts(b)' PROVE b \in ToSet(copy[Serve])
      OBVIOUS
    <3>1. Counts(b)
      BY CountsLess DEF KeptInv
    <3>2. b \in Held /\ b \in Batches
      BY <2>2, <3>1 DEF KeptInv, TypeOK
    <3> QED
      BY <2>2, <3>1, <3>2 DEF KeptInv
  <2> QED
    BY <1>1, <2>1, <2>2, <2>3 DEF KeptInv
<1>5. CASE StartCompaction
  <2>1. PICK kept \in Seq(Batches) : /\ copy' = [copy EXCEPT ![Serve] = kept]
                                     /\ ToSet(kept) = {line \in Held : ~Expired(line)}
    BY <1>5, CopiedLines DEF Held
  <2>2. /\ Held' = Held /\ acked' = acked /\ observed' = observed /\ now' = now
        /\ holds'[Serve] = "compact" /\ Broken \notin Held /\ copy'[Serve] = kept
    BY <1>0, <1>3, <1>5, <2>1 DEF StartCompaction, TypeOK, Held
  <2>3. \A b \in Held \cap Batches : Counts(b)' => b \in ToSet(kept)
    <3> SUFFICES ASSUME NEW b \in Held \cap Batches, Counts(b)' PROVE ~Expired(b)
      BY <2>1
    <3>1. b \notin Legacy /\ observed[b] \in Nat /\ now \in Nat
      BY LinesAssumption, TimesAssumption DEF TypeOK
    <3> QED
      BY <2>2, <3>1, TimesAssumption DEF Counts, Expired, ObservedAt
  <2> QED
    BY <1>1, <1>2, <2>1, <2>2, <2>3 DEF KeptInv
<1>6. CASE Snapshot \/ FinishRead \/ Tick \/ UNCHANGED vars
  <2>1. UNCHANGED <<disk, path, holds, fd, batch, copy, acked>>
    BY <1>6 DEF Snapshot, FinishRead, Tick, vars, lockVars
  <2>2. Held' = Held
    BY <1>3, <2>1
  <2>3. \A b \in (Held \cap Batches) \union acked : b \in Known
    <3>1. Held \cap Batches \subseteq Known
      BY HeldLines DEF HeldByPath, LinesAreKnown, TypeOK
    <3> QED
      BY <3>1 DEF KeptInv
  <2>4. \A b \in (Held \cap Batches) \union acked : Counts(b)' => Counts(b)
    BY <2>3, CountsLess
  <2> QED
    BY <1>1, <2>1, <2>2, <2>4 DEF KeptInv
<1>7. ASSUME NEW b \in Batches, OpenForAppend(Serve, b), ~Rename PROVE KeptInv'
  <2>1. /\ holds'[Serve] = "append" /\ path' # 0 /\ fd'[Serve] = path' /\ acked' = acked
    BY <1>0, <1>7 DEF OpenForAppend, OpenPath, TypeOK
  <2>2. holds[Serve] # "append"
    BY <1>7 DEF OpenForAppend
  <2>3. Held' = Held
    BY <1>7, <2>2, PathGrows
  <2> QED
    BY <1>1, <1>2, <2>1, <2>3 DEF KeptInv
<1>8. ASSUME WriteLine(Serve), ~Rename PROVE KeptInv'
  <2>1. /\ holds[Serve] = "append" /\ holds'[Serve] = "sync"
        /\ UNCHANGED <<path, fd, batch, acked>>
    BY <1>0, <1>8 DEF WriteLine, TypeOK
  <2>2. \/ Broken \in Held'
        \/ Held \subseteq Held' /\ batch[Serve] \in Held'
    BY <1>8, PathGrows
  <2>3. \A b \in acked : Counts(b)' => Counts(b)
    BY CountsLess DEF KeptInv
  <2>4. Broken \in Held' \/ \A b \in acked : Counts(b)' => b \in Held'
    BY <2>2, <2>3 DEF KeptInv
  <2> QED
    BY <1>1, <2>1, <2>2, <2>4 DEF KeptInv
<1>9. ASSUME WriteShort(Serve) \/ WriteFails(Serve) \/ SyncFails(Serve) \/ CompactionFails \/ Restart(Serve),
             ~Rename
      PROVE  KeptInv'
  <2>1. holds'[Serve] = "nothing" /\ acked' = acked
    BY <1>0, <1>9 DEF WriteShort, WriteFails, SyncFails, CompactionFails, Restart, Unlock,
        TypeOK
  <2>2. Held \subseteq Held' \/ Broken \in Held'
    BY <1>9, PathGrows
  <2> QED
    BY <1>1, <1>2, <2>1, <2>2 DEF KeptInv
<1>10. ASSUME SyncLine(Serve), ~Rename PROVE KeptInv'
  <2>1. /\ holds[Serve] = "sync" /\ holds'[Serve] = "nothing"
        /\ acked' = acked \union {batch[Serve]} /\ UNCHANGED <<disk, path>>
    BY <1>0, <1>10 DEF SyncLine, Unlock, TypeOK
  <2>2. Held' = Held
    BY <1>3, <2>1
  <2>3. \A b \in acked : Counts(b)' => Counts(b)
    BY CountsLess DEF KeptInv
  <2>4. \/ Broken \in Held'
        \/ \A b \in acked' : Counts(b)' => b \in Held'
    BY <2>1, <2>2, <2>3 DEF KeptInv
  <2> QED
    BY <1>1, <2>1, <2>4 DEF KeptInv
<1> QED
    BY <1>4, <1>5, <1>6, <1>7, <1>8, <1>9, <1>10 DEF Next

\* What a load of the path returns.
LEMMA VisibleLines ==
    TypeOK => Visible = IF Broken \in Held THEN Broken ELSE {b \in Held \ Legacy : Counts(b)}
BY DEF Visible, LoadResult, Held, Counts

\* With one process on the file, for any batches, retention and number of retries:
\* what Append acknowledged is returned by every load for as long as reports use it,
\* through failures, compactions and restarts, or the whole file is unreadable.
THEOREM AckedStay ==
    ASSUME Collectors = {}
    PROVE  Spec => []AckedIsKept
<1>1. Processes = {Serve}
    BY DEF Processes
<1>2. Init => KeptInv
  <2>1. Init => acked = {} /\ \A p \in Processes : holds[p] = "nothing"
    BY DEF Init
  <2> QED
    BY <2>1 DEF KeptInv, Processes
<1>3. TypeOK /\ KeptInv => AckedIsKept
  <2> SUFFICES ASSUME TypeOK, KeptInv, Visible # Broken, NEW b \in acked, Counts(b)
               PROVE  b \in Visible
    BY DEF AckedIsKept, Counts
  <2>1. Broken \notin Held
    BY VisibleLines
  <2>2. b \in Held /\ b \notin Legacy
    BY <2>1, LinesAssumption DEF KeptInv, TypeOK
  <2> QED
    BY <2>1, <2>2, VisibleLines
<1>4. TypeOK /\ LinesAreKnown /\ KeptInv /\ [Next]_vars => KeptInv'
    BY <1>1, KeptInductive
<1> QED
    BY <1>2, <1>3, <1>4, KnownInit, KnownInductive, TypeCorrect, PTL DEF Spec

\* A compaction that has the file to itself changes nothing that a load returns.
THEOREM CompactionInvisible ==
    ASSUME Collectors = {}
    PROVE  Spec => CompactionIsInvisible
<1>1. Processes = {Serve}
    BY DEF Processes
<1>2. Init => KeptInv
  <2>1. Init => acked = {} /\ \A p \in Processes : holds[p] = "nothing"
    BY DEF Init
  <2> QED
    BY <2>1 DEF KeptInv, Processes
<1>3. TypeOK /\ TypeOK' /\ LinesAreKnown /\ KeptInv /\ [Next]_vars => [Rename => Visible' = Visible]_vars
  <2> SUFFICES ASSUME TypeOK, TypeOK', KeptInv, Rename PROVE Visible' = Visible
    OBVIOUS
  <2>1. Held' = ToSet(copy[Serve])
    <3>1. path' = Len(disk) + 1 /\ path' # 0 /\ disk'[path'] = [lines |-> copy[Serve], tail |-> <<>>]
      BY DEF Rename, TypeOK
    <3>2. Stored([lines |-> copy[Serve], tail |-> <<>>]) = ToSet(copy[Serve])
      BY ToSetSmall DEF Stored
    <3> QED
      BY <3>1, <3>2, HeldLinesNext DEF HeldByPath
  <2>2. observed' = observed /\ now' = now /\ holds[Serve] = "compact"
    BY DEF Rename
  <2>3. Held \subseteq Lines /\ Held' \subseteq Held
    <3>1. Held \subseteq Lines
      BY ContentLines DEF ToSet, Held
    <3> QED
      BY <2>1, <2>2, <3>1 DEF KeptInv
  <2>4. Broken \notin Held /\ \A b \in Held \cap Batches : Counts(b) => b \in Held'
    BY <2>1, <2>2 DEF KeptInv
  <2>5. {b \in Held' \ Legacy : Counts(b)'} = {b \in Held \ Legacy : Counts(b)}
    BY <2>2, <2>3, <2>4 DEF Lines, Counts
  <2>6. Visible' = {b \in Held' \ Legacy : Counts(b)'}
    BY <2>3, <2>4 DEF Visible, LoadResult, Held, Counts
  <2> QED
    BY <2>4, <2>5, <2>6, VisibleLines
<1>4. TypeOK /\ LinesAreKnown /\ KeptInv /\ [Next]_vars => KeptInv'
    BY <1>1, KeptInductive
<1> QED
    BY <1>2, <1>3, <1>4, KnownInit, KnownInductive, TypeCorrect, PTL
    DEF Spec, CompactionIsInvisible
=============================================================================
