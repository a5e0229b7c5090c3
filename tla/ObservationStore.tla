-------------------------- MODULE ObservationStore --------------------------
(***************************************************************************)
(* The JSONL observation file (internal/store) and the processes that use  *)
(* it.  Each process serialises its own appends, snapshots and compactions *)
(* with the mutex of its Appender; the file itself is shared.  The path    *)
(* names an inode, a compaction puts another inode under the path, and a   *)
(* descriptor that was opened before keeps the old one.                    *)
(***************************************************************************)
EXTENDS Naturals, FiniteSets, SequencesExt

CONSTANTS
    Serve,          \* the server: it appends, loads and compacts
    Collectors,     \* collect processes given the same path: they append only
    Batches,        \* observations to append, each a line of the file
    Legacy,         \* lines of an earlier schema version found in the file
    Broken,         \* a line that is not JSON
    Nothing,        \* no batch, no snapshot
    Retention,      \* ticks an observation is reported for: thirty days
    MaxTime,        \* bound on the clock
    MaxAppends      \* bound on the calls of Append, retries included

ASSUME TimesAssumption ==
    /\ Retention \in Nat
    /\ MaxTime \in Nat \ {0}
    /\ MaxAppends \in Nat
ASSUME LinesAssumption ==
    /\ Legacy \cap Batches = {}
    /\ Broken \notin Batches \union Legacy
    /\ Nothing \notin Batches
    /\ \A result \in SUBSET Batches : Broken # result
    /\ IsFiniteSet(Legacy)

Processes == {Serve} \union Collectors

VARIABLES
    disk,       \* the inodes, in the order they were created
    path,       \* the inode the path names, 0 while there is no file
    now,        \* the clock, from 1
    observed,   \* ObservedAt of each batch, 0 before it exists
    holds,      \* what each process does under its mutex
    fd,         \* the inode it has opened there
    batch,      \* the batch it appends there
    copy,       \* the lines it has copied to its temporary file there
    reader,     \* the snapshot the server decodes after its mutex
    owed,       \* history: what that decoding has to return
    acked,      \* batches whose Append returned no error
    appends,    \* calls of Append so far
    torn        \* history: a write has stopped before the end of its line

lockVars == <<holds, fd, batch, copy>>
readVars == <<reader, owed>>
vars == <<disk, path, now, observed, lockVars, readVars, acked, appends, torn>>

\* The lines of an inode, the unterminated one included.
Content(inode) == IF inode = 0 THEN <<>> ELSE disk[inode].lines \o disk[inode].tail

ObservedAt(line) == IF line \in Legacy THEN 1 ELSE observed[line]

\* loadSinceReader: a broken line is an error; other schemas and old lines are skipped.
LoadResult(lines, time) ==
    IF Broken \in ToSet(lines) THEN Broken
    ELSE {line \in ToSet(lines) \ Legacy : observed[line] + Retention >= time}

\* The lines at these positions, in their order.
LinesAt(lines, positions) ==
    LET Nth(n) == CHOOSE i \in positions : Cardinality({j \in positions : j <= i}) = n
    IN [n \in 1 .. Cardinality(positions) |-> lines[Nth(n)]]

\* What a load of the path would return now.
Visible == LoadResult(Content(path), now)
-----------------------------------------------------------------------------
Init ==
    /\ now = 1
    /\ observed = [b \in Batches |-> 0]
    /\ \/ path = 0 /\ disk = <<>>
       \/ \E lines \in [1 .. Cardinality(Legacy) -> Legacy] :
            path = 1 /\ disk = <<[lines |-> lines, tail |-> <<>>]>>
    /\ holds = [p \in Processes |-> "nothing"]
    /\ fd = [p \in Processes |-> 0]
    /\ batch = [p \in Processes |-> Nothing]
    /\ copy = [p \in Processes |-> <<>>]
    /\ reader = Nothing
    /\ owed = {}
    /\ acked = {}
    /\ appends = 0
    /\ torn = FALSE

\* Append returns and the mutex is free again.
Unlock(p) ==
    /\ holds' = [holds EXCEPT ![p] = "nothing"]
    /\ fd' = [fd EXCEPT ![p] = 0]
    /\ batch' = [batch EXCEPT ![p] = Nothing]
    /\ copy' = [copy EXCEPT ![p] = <<>>]

EmptyFile == [lines |-> <<>>, tail |-> <<>>]

\* The path is opened to append, and created if there is no file.
OpenPath ==
    IF path = 0
    THEN disk' = Append(disk, EmptyFile) /\ path' = Len(disk) + 1
    ELSE UNCHANGED <<disk, path>>

\* Append takes the mutex and opens the path.
\* The batch is new, or one whose Append failed before.
OpenForAppend(p, b) ==
    /\ holds[p] = "nothing"
    /\ appends < MaxAppends
    /\ b \notin acked /\ \A q \in Processes : batch[q] # b
    /\ OpenPath
    /\ observed' = [observed EXCEPT ![b] = IF @ = 0 THEN now ELSE @]
    /\ holds' = [holds EXCEPT ![p] = "append"]
    /\ fd' = [fd EXCEPT ![p] = path']
    /\ batch' = [batch EXCEPT ![p] = b]
    /\ appends' = appends + 1
    /\ UNCHANGED <<now, copy, readVars, acked, torn>>

\* An inode after a complete line is written at its end: a line without an end is
\* continued by it, and neither can be decoded.
Written(inode, line) ==
    [lines |-> Append(inode.lines, IF inode.tail = <<>> THEN line ELSE Broken), tail |-> <<>>]

\* One write with O_APPEND; Sync comes next.
WriteLine(p) ==
    /\ holds[p] = "append"
    /\ disk' = [disk EXCEPT ![fd[p]] = Written(@, batch[p])]
    /\ holds' = [holds EXCEPT ![p] = "sync"]
    /\ UNCHANGED <<path, now, observed, fd, batch, copy, readVars, acked, appends, torn>>

\* The write stops within the line, perhaps just before its end: Append fails.
WriteShort(p) ==
    /\ holds[p] = "append"
    /\ torn' = TRUE
    /\ \E part \in {batch[p], Broken} :
        disk' = [disk EXCEPT ![fd[p]].tail = <<IF @ = <<>> THEN part ELSE Broken>>]
    /\ Unlock(p)
    /\ UNCHANGED <<path, now, observed, readVars, acked, appends>>

\* Mutant of WriteFails: the batch is encoded straight into the file, and the
\* encoding fails half-way.
EncodingFails(p) ==
    /\ holds[p] = "append"
    /\ disk' = [disk EXCEPT ![fd[p]].tail = <<Broken>>]
    /\ Unlock(p)
    /\ UNCHANGED <<path, now, observed, readVars, acked, appends, torn>>

\* The write fails at once.
WriteFails(p) ==
    /\ holds[p] = "append"
    /\ Unlock(p)
    /\ UNCHANGED <<disk, path, now, observed, readVars, acked, appends, torn>>

\* Append returns nil.
SyncLine(p) ==
    /\ holds[p] = "sync"
    /\ acked' = acked \union {batch[p]}
    /\ Unlock(p)
    /\ UNCHANGED <<disk, path, now, observed, readVars, appends, torn>>

\* Sync fails: Append fails though the line is in the file.
SyncFails(p) ==
    /\ holds[p] = "sync"
    /\ Unlock(p)
    /\ UNCHANGED <<disk, path, now, observed, readVars, acked, appends, torn>>

\* LoadSince opens the path and takes its size under the mutex.
Snapshot ==
    /\ holds[Serve] = "nothing"
    /\ reader = Nothing
    /\ path # 0
    /\ reader' = [inode |-> path, lines |-> Len(disk[path].lines), tail |-> disk[path].tail,
                  time |-> now]
    /\ owed' = Visible
    /\ UNCHANGED <<disk, path, now, observed, lockVars, acked, appends, torn>>

\* Mutant of Decoded: the reader is not limited to the size.
DecodedToTheEnd == LoadResult(Content(reader.inode), reader.time)

\* What it decodes after the mutex: the inode it has open, up to the size it took.
\* A line that had no end then ends there, whatever continues it now.
Decoded ==
    LET written == disk[reader.inode].lines IN
    LoadResult(SubSeq(written, 1, reader.lines) \o reader.tail, reader.time)

FinishRead ==
    /\ reader # Nothing
    /\ reader' = Nothing
    /\ owed' = {}
    /\ UNCHANGED <<disk, path, now, observed, lockVars, acked, appends, torn>>

\* Mutant of Expired: lines exactly at the cutoff go too.
ExpiredAtCutoff(line) == line \in Legacy \/ ObservedAt(line) + Retention <= now

\* The line is before the cutoff, or of another schema version.
Expired(line) == line \in Legacy \/ ObservedAt(line) + Retention < now

\* Mutant of StartCompaction: a broken line is skipped, not an error.
CompactAround ==
    /\ holds[Serve] = "nothing"
    /\ path # 0
    /\ \E line \in ToSet(Content(path)) \ {Broken} : ObservedAt(line) + Retention < now
    /\ copy' = [copy EXCEPT ![Serve] =
            LET lines == Content(path)
            IN LinesAt(lines, {i \in DOMAIN lines : lines[i] # Broken /\ ~Expired(lines[i])})]
    /\ holds' = [holds EXCEPT ![Serve] = "compact"]
    /\ UNCHANGED <<disk, path, now, observed, fd, batch, readVars, acked, appends, torn>>

\* CompactBefore: the oldest line, of any version, is before the trigger (a week
\* more at startup, which is a case of this one); the lines worth keeping are
\* copied to a temporary file.  A broken line is an error.
StartCompaction ==
    /\ holds[Serve] = "nothing"
    /\ path # 0
    /\ LET lines == Content(path) IN
        /\ Broken \notin ToSet(lines)
        /\ \E line \in ToSet(lines) : ObservedAt(line) + Retention < now
        /\ copy' = [copy EXCEPT ![Serve] =
                LinesAt(lines, {i \in DOMAIN lines : ~Expired(lines[i])})]
    /\ holds' = [holds EXCEPT ![Serve] = "compact"]
    /\ UNCHANGED <<disk, path, now, observed, fd, batch, readVars, acked, appends, torn>>

\* Writing or syncing the temporary file fails; it is removed.
CompactionFails ==
    /\ holds[Serve] = "compact"
    /\ Unlock(Serve)
    /\ UNCHANGED <<disk, path, now, observed, readVars, acked, appends, torn>>

\* The temporary file is renamed to the path.
Rename ==
    /\ holds[Serve] = "compact"
    /\ disk' = Append(disk, [lines |-> copy[Serve], tail |-> <<>>])
    /\ path' = Len(disk) + 1
    /\ Unlock(Serve)
    /\ UNCHANGED <<now, observed, readVars, acked, appends, torn>>

\* A process dies and is started again; its descriptors and mutex are gone.
Restart(p) ==
    /\ Unlock(p)
    /\ IF p = Serve THEN reader' = Nothing /\ owed' = {} ELSE UNCHANGED readVars
    /\ UNCHANGED <<disk, path, now, observed, acked, appends, torn>>

Tick ==
    /\ now < MaxTime
    /\ now' = now + 1
    /\ UNCHANGED <<disk, path, observed, lockVars, readVars, acked, appends, torn>>

Next ==
    \/ \E p \in Processes :
        \/ \E b \in Batches : OpenForAppend(p, b)
        \/ WriteLine(p) \/ WriteShort(p) \/ WriteFails(p) \/ SyncLine(p) \/ SyncFails(p)
        \/ Restart(p)
    \/ Snapshot \/ FinishRead
    \/ StartCompaction \/ CompactionFails \/ Rename
    \/ Tick

Spec == Init /\ [][Next]_vars
-----------------------------------------------------------------------------
Lines == Batches \union Legacy \union {Broken}
Inode == [lines : Seq(Lines), tail : Seq(Lines)]

\* Types; the path names an inode that exists, and so does what is appended to.
TypeOK ==
    /\ disk \in Seq(Inode)
    /\ path \in 0 .. Len(disk)
    /\ now \in 1 .. MaxTime
    /\ observed \in [Batches -> 0 .. MaxTime]
    /\ holds \in [Processes -> {"nothing", "append", "sync", "compact"}]
    /\ fd \in [Processes -> Nat]
    /\ batch \in [Processes -> Batches \union {Nothing}]
    /\ \A p \in Processes : holds[p] \in {"append", "sync"} =>
            fd[p] \in 1 .. Len(disk) /\ batch[p] \in Batches
    /\ copy \in [Processes -> Seq(Batches)]
    /\ acked \subseteq Batches
    /\ appends \in 0 .. MaxAppends
    /\ torn \in BOOLEAN

\* What Append acknowledged stays in the file for as long as reports may use it,
\* through retries, compactions and restarts, unless a torn line has made the
\* whole file unreadable.
AckedIsKept ==
    Visible = Broken \/ \A b \in acked : observed[b] + Retention >= now => b \in Visible

\* Nothing but a write that stopped half-way makes the file unreadable: no retry,
\* failure, compaction or crash elsewhere does.
OnlyTornIsUnreadable == Visible = Broken => torn

\* A load returns what the file held when its boundary was taken, whatever is
\* appended, and whatever is renamed over the path, while it decodes.
ReadsItsSnapshot == reader # Nothing => Decoded = owed

\* A compaction removes nothing that a load would have returned.
CompactionIsInvisible ==
    [][Rename => Visible' = Visible]_vars
=============================================================================
