--------------------------- MODULE Registry_proof ---------------------------
(***************************************************************************)
(* Proofs about PoolRegistry and LiveDashboard.                            *)
(*                                                                         *)
(* The registry: what the receiver accepts follows from its shape, which   *)
(* knows the current registry, which never expires, and at most one other, *)
(* the one that was replaced last, which does.  That every caller past the *)
(* mutex holds a registry makes the shape inductive.  That the file and    *)
(* the live registry agree at rest follows from who is due to bring them   *)
(* together again while they differ.                                       *)
(*                                                                         *)
(* The dashboard: at rest only stragglers are missing from the live pages, *)
(* unless the last refresh failed, and a live handler keeps its data, for  *)
(* any number of registries.                                               *)
(***************************************************************************)
EXTENDS PoolRegistry, LiveDashboard, TLAPS

\* Who is at work in apply() has a registry in hand.
WantedIsRegistry == \A caller \in Callers : pc[caller] # "idle" => wanted[caller] \in Registries

\* The receiver knows the current registry and perhaps its predecessor.
ReceiverShape ==
    /\ RevisionOf(current) \in DOMAIN receiver.pools
    /\ RevisionOf(current) \notin DOMAIN receiver.expiry
    /\ \A revision \in DOMAIN receiver.pools :
          /\ revision \in Rosters
          /\ receiver.pools[revision] \in Registries
          /\ RevisionOf(receiver.pools[revision]) = revision
          /\ revision # RevisionOf(current) =>
                /\ revision = prior
                /\ revision \in DOMAIN receiver.expiry
                /\ receiver.expiry[revision] = priorUntil
    /\ prior # None /\ ~relabelled => prior \in DOMAIN receiver.pools
    /\ DOMAIN receiver.expiry \subseteq DOMAIN receiver.pools

\* The types the shape rests on.
Typed ==
    /\ file \in Registries \union {Invalid}
    /\ current \in Registries
    /\ signal \in BOOLEAN
    /\ mutex \in Callers \union {Nobody}
    /\ pc \in [Callers -> {"idle", "apply", "write", "rewrite", "activate"}]
    /\ wanted \in [Callers -> Registries \union {None}]
    /\ builtAt \in 0 .. clock
    /\ clock \in 0 .. MaxClock
    /\ prior \in Rosters \union {None}
    /\ priorUntil \in Nat
    /\ relabelled \in BOOLEAN

InductiveInv ==
    /\ Typed
    /\ WantedIsRegistry
    /\ ReceiverShape

\* A registry's revision is one of the rosters.
LEMMA RevisionIsRoster == \A registry \in Registries : RevisionOf(registry) \in Rosters
BY DEF Registries, RevisionOf

\* A fresh receiver knows its registry and lets nothing expire.
LEMMA NewReceiverShape ==
    ASSUME NEW registry
    PROVE  /\ DOMAIN NewReceiver(registry).pools = {RevisionOf(registry)}
           /\ NewReceiver(registry).pools[RevisionOf(registry)] = registry
           /\ DOMAIN NewReceiver(registry).expiry = {}
BY DEF NewReceiver

\* buildRegistry: what the receiver built for another revision knows.
LEMMA BuildShape ==
    ASSUME NEW next, NEW previous, NEW now,
           RevisionOf(next) # RevisionOf(previous)
    PROVE  LET built == Build(next, previous, now) IN
           /\ DOMAIN built.pools = {RevisionOf(next), RevisionOf(previous)}
           /\ built.pools[RevisionOf(next)] = next
           /\ built.pools[RevisionOf(previous)] = previous
           /\ DOMAIN built.expiry = {RevisionOf(previous)}
           /\ built.expiry[RevisionOf(previous)] = now + Grace
BY DEF Build

LEMMA InitEstablishes == Init => InductiveInv
<1> SUFFICES ASSUME Init
             PROVE  InductiveInv
    OBVIOUS
<1>1. file \in Registries /\ current = file /\ receiver = NewReceiver(current) /\ prior = None
    BY DEF Init, StartFrom
<1>2. ReceiverShape
    BY <1>1, NewReceiverShape, RevisionIsRoster DEF ReceiverShape
<1>3. builtAt \in 0 .. clock /\ clock \in 0 .. MaxClock /\ priorUntil \in Nat
    BY MaxClockAssumption DEF Init, StartFrom
<1>4. \A caller \in Callers : pc[caller] = "idle"
    BY DEF Init, StartFrom
<1>5. Typed
    BY <1>1, <1>3 DEF Init, StartFrom, Typed
<1>. QED
    BY <1>2, <1>4, <1>5 DEF InductiveInv, WantedIsRegistry

\* A step that leaves the receiver's side alone keeps the shape.
LEMMA ShapeKept == ReceiverShape /\ UNCHANGED liveVars => ReceiverShape'
BY DEF ReceiverShape, liveVars

LEMMA TypedStep == InductiveInv /\ [Next]_vars => Typed' /\ WantedIsRegistry'
<1> SUFFICES ASSUME Typed, WantedIsRegistry, [Next]_vars
             PROVE  Typed' /\ WantedIsRegistry'
    BY DEF InductiveInv
<1> USE GraceAssumption, MaxClockAssumption, NamesAssumption
<1>1. CASE Edit
    BY <1>1 DEF Edit, Typed, WantedIsRegistry, liveVars, callerVars
<1>2. CASE Signal
    BY <1>2 DEF Signal, Typed, WantedIsRegistry, liveVars, callerVars
<1>3. ASSUME NEW saver \in Savers, Save(saver)
      PROVE  Typed' /\ WantedIsRegistry'
    BY <1>3 DEF Save, Typed, WantedIsRegistry, liveVars, Callers
<1>4. CASE Restart
    <2>1. file' \in Registries /\ current' \in Registries /\ clock' = clock
        BY <1>4 DEF Restart, Typed
    <2>2. builtAt' \in 0 .. clock' /\ priorUntil' \in Nat
        BY <1>4 DEF Restart, Typed
    <2>3. \A caller \in Callers : pc'[caller] = "idle"
        BY <1>4 DEF Restart
    <2>. QED
        BY <1>4, <2>1, <2>2, <2>3 DEF Restart, Typed, WantedIsRegistry
<1>5. CASE Tick
    BY <1>5 DEF Tick, Typed, WantedIsRegistry, liveVars, callerVars
<1>6. CASE Reload
    BY <1>6 DEF Reload, Typed, WantedIsRegistry, liveVars, Callers
<1>7. ASSUME NEW caller \in Callers, Lock(caller)
      PROVE  Typed' /\ WantedIsRegistry'
    <2>1. builtAt' \in 0 .. clock
        BY <1>7 DEF Lock, Typed
    <2>2. CASE Return(caller)
        BY <1>7, <2>1, <2>2 DEF Lock, Return, Typed, WantedIsRegistry, liveVars
    <2>3. ASSUME NEW place \in {"activate", "write", "rewrite"}, Goto(caller, place)
          PROVE  Typed' /\ WantedIsRegistry'
        BY <1>7, <2>1, <2>3 DEF Lock, Goto, Typed, WantedIsRegistry, liveVars
    <2>. QED
        BY <1>7, <2>2, <2>3 DEF Lock
<1>8. ASSUME NEW caller \in Callers, Fail(caller)
      PROVE  Typed' /\ WantedIsRegistry'
    BY <1>8 DEF Fail, Return, Typed, WantedIsRegistry, liveVars
<1>9. ASSUME NEW caller \in Callers, FailAfterRename(caller)
      PROVE  Typed' /\ WantedIsRegistry'
    BY <1>9 DEF FailAfterRename, Return, Typed, WantedIsRegistry, liveVars
<1>10. ASSUME NEW caller \in Callers, Write(caller)
       PROVE  Typed' /\ WantedIsRegistry'
    BY <1>10 DEF Write, Return, Goto, Typed, WantedIsRegistry, liveVars
<1>11. ASSUME NEW caller \in Callers, Activate(caller)
       PROVE  Typed' /\ WantedIsRegistry'
    <2>1. RevisionOf(current) \in Rosters
        BY RevisionIsRoster DEF Typed
    <2>2. builtAt + Grace \in Nat
        BY DEF Typed
    <2>. QED
        BY <1>11, <2>1, <2>2 DEF Activate, Return, Typed, WantedIsRegistry
<1>12. CASE UNCHANGED vars
    BY <1>12 DEF vars, Typed, WantedIsRegistry, liveVars, callerVars
<1>. QED
    BY <1>1, <1>2, <1>3, <1>4, <1>5, <1>6, <1>7, <1>8, <1>9, <1>10, <1>11, <1>12
       DEF Next, Environment, ApplyStep

LEMMA ShapeStep == InductiveInv /\ [Next]_vars => ReceiverShape'
<1> SUFFICES ASSUME Typed, WantedIsRegistry, ReceiverShape, [Next]_vars
             PROVE  ReceiverShape'
    BY DEF InductiveInv
<1>1. CASE Restart
    <2>1. file \in Registries /\ current' = file /\ receiver' = NewReceiver(file)
        BY <1>1 DEF Restart, Typed
    <2>. QED
        BY <1>1, <2>1, NewReceiverShape, RevisionIsRoster DEF ReceiverShape, Restart
<1>2. ASSUME NEW caller \in Callers, Activate(caller)
      PROVE  ReceiverShape'
    <2> DEFINE next == wanted[caller]
    <2>1. next \in Registries /\ current \in Registries
        BY <1>2 DEF Activate, WantedIsRegistry, Typed
    <2>2. /\ current' = next
          /\ receiver' = Build(next, current, builtAt)
        BY <1>2 DEF Activate
    <2>3. CASE RevisionOf(next) = RevisionOf(current)
        <3>1. receiver' = NewReceiver(next) /\ relabelled'
            BY <1>2, <2>2, <2>3 DEF Build, Activate
        <3>. QED
            BY <2>1, <2>2, <3>1, NewReceiverShape, RevisionIsRoster DEF ReceiverShape
    <2>4. CASE RevisionOf(next) # RevisionOf(current)
        <3>1. prior' = RevisionOf(current) /\ priorUntil' = builtAt + Grace
            BY <1>2, <2>4 DEF Activate
        <3>. QED
            BY <2>1, <2>2, <2>4, <3>1, BuildShape, RevisionIsRoster DEF ReceiverShape
    <2>. QED
        BY <2>3, <2>4
<1>3. CASE Edit \/ Signal \/ Tick \/ Reload \/ UNCHANGED vars
    BY <1>3, ShapeKept DEF Edit, Signal, Tick, Reload, vars
<1>4. ASSUME NEW saver \in Savers, Save(saver)
      PROVE  ReceiverShape'
    BY <1>4, ShapeKept DEF Save
<1>5. ASSUME NEW caller \in Callers,
             Lock(caller) \/ Fail(caller) \/ FailAfterRename(caller) \/ Write(caller)
      PROVE  ReceiverShape'
    BY <1>5, ShapeKept DEF Lock, Fail, FailAfterRename, Write
<1>. QED
    BY <1>1, <1>2, <1>3, <1>4, <1>5 DEF Next, Environment, ApplyStep

\* The registry never leaves the states of InductiveInv.
THEOREM Invariance == Spec => []InductiveInv
<1>1. InductiveInv /\ [Next]_vars => InductiveInv'
    BY TypedStep, ShapeStep DEF InductiveInv
<1>. QED
    BY InitEstablishes, <1>1, PTL DEF Spec

\* For any registries, savers and grace: the current revision is always accepted,
\* after every sequence of edits, saves, reloads, failures and restarts.
THEOREM CurrentAccepted == Spec => []CurrentIsAccepted
<1>1. InductiveInv => CurrentIsAccepted
    BY DEF InductiveInv, ReceiverShape, CurrentIsAccepted, Accepts
<1>. QED
    BY Invariance, <1>1, PTL

\* A batch is validated against the registry of its own revision.
THEOREM RostersMatch == Spec => []RosterMatchesRevision
<1>1. InductiveInv => RosterMatchesRevision
    BY DEF InductiveInv, ReceiverShape, RosterMatchesRevision
<1>. QED
    BY Invariance, <1>1, PTL

\* Beside the current revision, none but the one it replaced is accepted, and that
\* one no longer than its grace.
THEOREM GraceOnly == Spec => []OnlyGraceIsAccepted
<1>1. InductiveInv => OnlyGraceIsAccepted
    BY DEF InductiveInv, ReceiverShape, OnlyGraceIsAccepted, Accepts
<1>. QED
    BY Invariance, <1>1, PTL

\* And that one is accepted until its grace is over, unless a registry with the
\* current revision was applied meanwhile.
THEOREM GraceKept == Spec => []GraceUnlessRelabelled
<1>1. InductiveInv => GraceUnlessRelabelled
    BY DEF InductiveInv, ReceiverShape, GraceUnlessRelabelled, GraceIsHonoured, Accepts
<1>. QED
    BY Invariance, <1>1, PTL
-----------------------------------------------------------------------------
(* The file and the live registry.                                         *)

\* Who is past the lock of apply() holds the mutex, and who rewrites the file does
\* so with the current registry.
MutexHeld ==
    /\ \A caller \in Callers :
          /\ pc[caller] \in {"write", "rewrite", "activate"} <=> mutex = caller
          /\ pc[caller] = "rewrite" => wanted[caller] = current
    /\ astray \in {"no", "touched", "overtaken"}

\* The registry that is live once the save that has written the file is done.
Target ==
    IF mutex \in Savers /\ pc[mutex] = "activate" THEN wanted[mutex] ELSE current

\* A reload is to come, or is under way with what the file says.
Reloading ==
    signal \/ (pc[Reloader] \in {"apply", "activate"} /\ wanted[Reloader] = file)

\* If nothing has set them apart, the live registry is or becomes the one in the
\* file.
FileIsLiveSoon ==
    astray = "no" /\ file # Invalid => Reloading \/ file = Target

LEMMA MutexStep ==
    ASSUME Typed, MutexHeld, [Next]_vars
    PROVE  MutexHeld'
<1> USE NamesAssumption
<1>1. Reloader \in Callers /\ Nobody \notin Callers
    BY DEF Callers
<1>2. CASE Edit \/ Signal \/ Tick \/ UNCHANGED vars
    BY <1>2 DEF Edit, Signal, Tick, vars, MutexHeld, callerVars, liveVars
<1>3. ASSUME NEW saver \in Savers, Save(saver)
      PROVE  MutexHeld'
    BY <1>3 DEF Save, MutexHeld, liveVars, Callers, Typed
<1>4. CASE Restart
    BY <1>1, <1>4 DEF Restart, MutexHeld
<1>5. CASE Reload
    BY <1>1, <1>5 DEF Reload, MutexHeld, liveVars, Typed
<1>6. ASSUME NEW caller \in Callers, Lock(caller)
      PROVE  MutexHeld'
    <2>1. mutex = Nobody /\ pc[caller] = "apply" /\ current' = current /\ astray' = astray
        BY <1>6 DEF Lock, liveVars
    <2>2. \A other \in Callers : pc[other] \notin {"write", "rewrite", "activate"}
        BY <1>1, <2>1 DEF MutexHeld
    <2>3. CASE Return(caller)
        BY <1>1, <2>1, <2>2, <2>3 DEF Return, MutexHeld, Typed
    <2>4. ASSUME NEW place \in {"activate", "write", "rewrite"}, Goto(caller, place),
                 place = "rewrite" => wanted[caller] = current
          PROVE  MutexHeld'
        BY <1>1, <2>1, <2>2, <2>4 DEF Goto, MutexHeld, Typed
    <2> QED
        BY <1>6, <2>3, <2>4 DEF Lock
<1>7. ASSUME NEW caller \in Callers, Fail(caller) \/ FailAfterRename(caller)
      PROVE  MutexHeld'
    <2>1. mutex = caller /\ current' = current /\ Return(caller) /\ astray' \in {astray, "touched"}
        BY <1>7 DEF Fail, FailAfterRename, MutexHeld, liveVars
    <2> QED
        BY <1>1, <2>1 DEF Return, MutexHeld, Typed
<1>8. ASSUME NEW caller \in Callers, Write(caller)
      PROVE  MutexHeld'
    <2>1. mutex = caller /\ current' = current /\ astray' = "no"
        BY <1>8 DEF Write, MutexHeld, liveVars
    <2> QED
        BY <1>1, <1>8, <2>1 DEF Write, Return, Goto, MutexHeld, Typed
<1>9. ASSUME NEW caller \in Callers, Activate(caller)
      PROVE  MutexHeld'
    <2>1. mutex = caller /\ Return(caller) /\ astray' \in {astray, "overtaken"}
        BY <1>9 DEF Activate, Astray, MutexHeld
    <2> QED
        BY <1>1, <2>1 DEF Return, MutexHeld, Typed
<1> QED
    BY <1>2, <1>3, <1>4, <1>5, <1>6, <1>7, <1>8, <1>9 DEF Next, Environment, ApplyStep

LEMMA FileStep ==
    ASSUME Typed, MutexHeld, FileIsLiveSoon, [Next]_vars
    PROVE  FileIsLiveSoon'
<1> USE NamesAssumption
<1>1. Reloader \in Callers /\ Nobody \notin Callers /\ Savers \subseteq Callers
    BY DEF Callers
<1>2. CASE Tick \/ UNCHANGED vars
    BY <1>2 DEF Tick, vars, callerVars, liveVars, FileIsLiveSoon, Target, Reloading
<1>3. CASE Edit \/ Signal
    BY <1>3 DEF Edit, Signal, FileIsLiveSoon, Reloading
<1>4. CASE Restart
    BY <1>4 DEF Restart, FileIsLiveSoon, Target
<1>5. ASSUME NEW saver \in Savers, Save(saver)
      PROVE  FileIsLiveSoon'
    <2>1. mutex' = mutex /\ current' = current /\ file' = file /\ signal' = signal
          /\ astray' = astray /\ mutex # saver
        BY <1>1, <1>5 DEF Save, MutexHeld, liveVars
    <2>2. \A other \in Callers \ {saver} : pc'[other] = pc[other] /\ wanted'[other] = wanted[other]
        BY <1>5 DEF Save, Typed
    <2>3. Target' = Target
        BY <1>1, <2>1, <2>2 DEF Target
    <2>4. Reloading => Reloading'
        BY <1>1, <2>1, <2>2 DEF Reloading
    <2> QED
        BY <2>1, <2>3, <2>4 DEF FileIsLiveSoon
<1>6. CASE Reload
    <2>1. mutex' = mutex /\ current' = current /\ file' = file
          /\ (file # Invalid => Reloading')
        BY <1>1, <1>6 DEF Reload, Reloading, Typed, liveVars
    <2> QED
        BY <2>1 DEF FileIsLiveSoon
<1>7. ASSUME NEW caller \in Callers, Lock(caller)
      PROVE  FileIsLiveSoon'
    <2>1. mutex = Nobody /\ pc[caller] = "apply" /\ current' = current /\ file' = file
          /\ signal' = signal /\ astray' = astray
        BY <1>7 DEF Lock, liveVars
    <2>2. Target = current
        BY <1>1, <2>1 DEF Target
    <2>3. CASE Return(caller) /\ wanted[caller] = current
        <3>1. Target' = current
            BY <1>1, <2>1, <2>3 DEF Return, Target
        <3>2. Reloading => Reloading' \/ file = current
            BY <1>1, <2>1, <2>3 DEF Return, Reloading, Typed
        <3> QED
            BY <2>1, <2>2, <3>1, <3>2 DEF FileIsLiveSoon
    <2>4. CASE caller = Reloader /\ Goto(caller, "activate")
        <3>1. Target' = current
            BY <1>1, <2>1, <2>4 DEF Goto, Target
        <3>2. Reloading => Reloading'
            BY <1>1, <2>1, <2>4 DEF Goto, Reloading, Typed
        <3> QED
            BY <2>1, <2>2, <3>1, <3>2 DEF FileIsLiveSoon
    <2>5. ASSUME caller # Reloader,
                 NEW place \in {"write", "rewrite"}, Goto(caller, place)
          PROVE  FileIsLiveSoon'
        <3>1. Target' = current
            BY <1>1, <2>1, <2>5 DEF Goto, Target, Typed
        <3>2. Reloading => Reloading'
            BY <1>1, <2>1, <2>5 DEF Goto, Reloading, Typed
        <3> QED
            BY <2>1, <2>2, <3>1, <3>2 DEF FileIsLiveSoon
    <2> QED
        BY <1>7, <2>3, <2>4, <2>5 DEF Lock
<1>8. ASSUME NEW caller \in Callers, Fail(caller)
      PROVE  FileIsLiveSoon'
    <2>1. CASE caller = Reloader
        BY <1>8, <2>1 DEF Fail, FileIsLiveSoon
    <2>2. CASE caller # Reloader
        <3>1. mutex = caller /\ pc[caller] # "activate"
            BY <1>8, <2>2 DEF Fail, MutexHeld
        <3>2. Target = current /\ Target' = current'
            BY <1>1, <1>8, <3>1 DEF Fail, Return, Target
        <3>3. Reloading => Reloading'
            BY <1>1, <1>8, <2>2 DEF Fail, Return, Reloading, Typed
        <3> QED
            BY <1>8, <2>2, <3>2, <3>3 DEF Fail, FileIsLiveSoon, liveVars
    <2> QED
        BY <2>1, <2>2
<1>9. ASSUME NEW caller \in Callers, FailAfterRename(caller)
      PROVE  FileIsLiveSoon'
    BY <1>9 DEF FailAfterRename, FileIsLiveSoon
<1>10. ASSUME NEW caller \in Callers, Write(caller)
       PROVE  FileIsLiveSoon'
    <2>1. file' = wanted[caller] /\ current' = current
        BY <1>10 DEF Write, liveVars
    <2>2. CASE pc[caller] = "rewrite" /\ Return(caller)
        BY <1>1, <2>1, <2>2 DEF Return, Target, MutexHeld, FileIsLiveSoon
    <2>3. CASE Goto(caller, "activate") /\ caller = Reloader
        BY <1>1, <2>1, <2>3 DEF Goto, Reloading, Typed, FileIsLiveSoon
    <2>4. CASE Goto(caller, "activate") /\ caller # Reloader
        <3>1. caller \in Savers
            BY <2>4 DEF Callers
        <3>2. Target' = wanted[caller]
            BY <2>4, <3>1 DEF Goto, Target, Typed
        <3> QED
            BY <2>1, <3>2 DEF FileIsLiveSoon
    <2> QED
        BY <1>10, <2>2, <2>3, <2>4 DEF Write
<1>11. ASSUME NEW caller \in Callers, Activate(caller)
       PROVE  FileIsLiveSoon'
    <2>1. mutex = caller /\ pc[caller] = "activate" /\ file' = file /\ signal' = signal
          /\ current' = wanted[caller] /\ astray' = Astray(caller) /\ Return(caller)
        BY <1>11 DEF Activate, MutexHeld
    <2>2. Target' = wanted[caller]
        BY <1>1, <2>1 DEF Return, Target
    <2>3. CASE caller = Reloader
        BY <2>1, <2>2, <2>3 DEF Astray, FileIsLiveSoon
    <2>4. CASE caller # Reloader
        <3>1. caller \in Savers
            BY <2>4 DEF Callers
        <3>2. Target = wanted[caller]
            BY <2>1, <3>1 DEF Target
        <3>3. Reloading => Reloading'
            BY <1>1, <2>1, <2>4 DEF Return, Reloading, Typed
        <3> QED
            BY <2>1, <2>2, <2>4, <3>2, <3>3 DEF Astray, FileIsLiveSoon
    <2> QED
        BY <2>3, <2>4
<1> QED
    BY <1>2, <1>3, <1>4, <1>5, <1>6, <1>7, <1>8, <1>9, <1>10, <1>11
       DEF Next, Environment, ApplyStep

\* However saves, edits and signals interleave, when all is quiet the live registry
\* is the one in the file, unless a save overtook a reload or a fault set them apart.
THEOREM LiveFollowsFile == Spec => []LiveIsFileUnlessOvertaken
<1>1. Init => MutexHeld /\ FileIsLiveSoon
    BY NamesAssumption DEF Init, StartFrom, MutexHeld, FileIsLiveSoon, Target, Callers
<1>2. Typed /\ MutexHeld /\ FileIsLiveSoon /\ [Next]_vars => (MutexHeld /\ FileIsLiveSoon)'
    BY MutexStep, FileStep
<1>3. InductiveInv => Typed
    BY DEF InductiveInv
<1>4. MutexHeld /\ FileIsLiveSoon => LiveIsFileUnlessOvertaken
  <2> SUFFICES ASSUME MutexHeld, FileIsLiveSoon, AtRest, file # Invalid, astray = "no"
               PROVE  file = current
      BY DEF LiveIsFileUnlessOvertaken, LiveIsFile, MutexHeld
  <2>1. Target = current
      BY DEF AtRest, Target, Callers
  <2> QED
      BY <2>1 DEF AtRest, FileIsLiveSoon, Reloading, Callers
<1> QED
    BY <1>1, <1>2, <1>3, <1>4, Invariance, PTL DEF Spec

\* Types; the receiver knows rosters only, and lets none expire that it does not know.
THEOREM TypeCorrect == Spec => []TypeOK
<1>1. Init => MutexHeld
    BY NamesAssumption DEF Init, StartFrom, MutexHeld, Callers
<1>2. Typed /\ MutexHeld /\ [Next]_vars => MutexHeld'
    BY MutexStep
<1>3. InductiveInv => Typed
    BY DEF InductiveInv
<1>4. InductiveInv /\ MutexHeld => TypeOK
    BY DEF InductiveInv, Typed, ReceiverShape, MutexHeld, TypeOK
<1> QED
    BY <1>1, <1>2, <1>3, <1>4, Invariance, PTL DEF Spec
-----------------------------------------------------------------------------
(* The dashboard across registry changes. *)

\* A request is routed to the handler that is live, and never looks back.
RoutedToPast ==
    \A batch \in Batches :
        /\ routed[batch] <= live
        /\ request[batch] # "coming" => routed[batch] \in Handlers

\* Exactly the stored requests are on disk.
StoredIsAccepted ==
    \A batch \in Batches : batch \in accepted <=> request[batch] \in {"stored", "done"}

\* Nothing is shown or loaded that is not on disk, and a rebuild loses nothing.
OnlyAccepted ==
    \A handler \in Handlers :
        /\ entries[handler] \subseteq accepted
        /\ loaded[handler] \subseteq accepted
        /\ run[handler] = "publish" => entries[handler] \subseteq loaded[handler]

\* An apply in progress builds a handler within the bound.
BuildInRange == applying => NextHandler \in Handlers

\* A handler that is not live yet has no refresh to do.
FutureIsIdle ==
    \A handler \in Handlers : handler > live => run[handler] = "off"

\* What a handler was asked to show is shown, or the run at work will show it
\* (it has yet to load, has loaded it, or will go round once more), or the last
\* refresh failed.
AskedIsComing ==
    \A batch \in Batches, handler \in Handlers :
        request[batch] = "done" /\ routed[batch] = handler =>
            \/ batch \in entries[handler]
            \/ run[handler] \in {"sleep", "load", "failed"}
            \/ run[handler] = "publish" /\ (dirty[handler] \/ batch \in loaded[handler])

DashboardInv ==
    /\ LiveTypeOK
    /\ RoutedToPast
    /\ StoredIsAccepted
    /\ OnlyAccepted
    /\ BuildInRange
    /\ FutureIsIdle
    /\ AskedIsComing
-----------------------------------------------------------------------------
\* One handler is live and nothing has happened yet.
LEMMA DashboardInitInv == LiveInit => DashboardInv
<1> SUFFICES ASSUME LiveInit PROVE DashboardInv
    OBVIOUS
<1>1. 1 \in Handlers /\ \A handler \in Handlers : handler \in Nat
    BY MaxHandlersAssumption DEF Handlers
<1>2. LiveTypeOK
    BY <1>1 DEF LiveInit, LiveTypeOK, Stopped
<1>3. RoutedToPast /\ StoredIsAccepted /\ OnlyAccepted /\ BuildInRange /\ FutureIsIdle
    BY DEF LiveInit, RoutedToPast, StoredIsAccepted, OnlyAccepted, BuildInRange, FutureIsIdle
<1>4. AskedIsComing
    BY DEF LiveInit, AskedIsComing
<1> QED
    BY <1>2, <1>3, <1>4 DEF DashboardInv

\* Routing looks only at the live handler.
LEMMA RouteInv ==
    ASSUME DashboardInv, NEW batch \in Batches, Route(batch)
    PROVE  DashboardInv'
<1> USE DEF DashboardInv, Route, requestVars, refreshVars
<1>1. LiveTypeOK'
    BY MaxHandlersAssumption DEF LiveTypeOK
<1>2. RoutedToPast'
    BY MaxHandlersAssumption DEF LiveTypeOK, RoutedToPast, Handlers
<1>3. StoredIsAccepted'
    BY MaxHandlersAssumption DEF LiveTypeOK, StoredIsAccepted
<1>4. OnlyAccepted'
    BY MaxHandlersAssumption DEF LiveTypeOK, OnlyAccepted
<1>5. FutureIsIdle'
    BY MaxHandlersAssumption DEF LiveTypeOK, FutureIsIdle, Handlers
<1>7. BuildInRange'
    BY MaxHandlersAssumption DEF LiveTypeOK, BuildInRange, NextHandler, Handlers
<1>6. AskedIsComing'
    BY MaxHandlersAssumption DEF LiveTypeOK, AskedIsComing
<1> QED
    BY <1>1, <1>2, <1>3, <1>4, <1>5, <1>6, <1>7

\* A new batch on disk is not asked for yet.
LEMMA StoreInv ==
    ASSUME DashboardInv, NEW batch \in Batches, Store(batch)
    PROVE  DashboardInv'
<1> USE DEF DashboardInv, Store, requestVars, refreshVars
<1>1. LiveTypeOK'
    BY MaxHandlersAssumption DEF LiveTypeOK
<1>2. RoutedToPast'
    BY MaxHandlersAssumption DEF LiveTypeOK, RoutedToPast, Handlers
<1>3. StoredIsAccepted'
    BY MaxHandlersAssumption DEF LiveTypeOK, StoredIsAccepted
<1>4. OnlyAccepted'
    BY MaxHandlersAssumption DEF LiveTypeOK, OnlyAccepted
<1>5. FutureIsIdle'
    BY MaxHandlersAssumption DEF LiveTypeOK, FutureIsIdle, Handlers
<1>7. BuildInRange'
    BY MaxHandlersAssumption DEF LiveTypeOK, BuildInRange, NextHandler, Handlers
<1>6. AskedIsComing'
    BY MaxHandlersAssumption DEF LiveTypeOK, AskedIsComing
<1> QED
    BY <1>1, <1>2, <1>3, <1>4, <1>5, <1>6, <1>7

\* Asking wakes the handler or marks its run dirty.
LEMMA ScheduleInv ==
    ASSUME DashboardInv, NEW batch \in Batches, Schedule(batch)
    PROVE  DashboardInv'
<1> USE DEF DashboardInv, Schedule, requestVars, refreshVars
<1>1. LiveTypeOK'
    BY MaxHandlersAssumption DEF LiveTypeOK, RoutedToPast, Handlers
<1>2. RoutedToPast'
    BY MaxHandlersAssumption DEF LiveTypeOK, RoutedToPast, Handlers
<1>3. StoredIsAccepted'
    BY MaxHandlersAssumption DEF LiveTypeOK, StoredIsAccepted, Handlers
<1>4. OnlyAccepted'
    BY MaxHandlersAssumption DEF LiveTypeOK, OnlyAccepted, RoutedToPast, Handlers
<1>5. FutureIsIdle'
    BY MaxHandlersAssumption DEF LiveTypeOK, FutureIsIdle, RoutedToPast, Handlers
<1>7. BuildInRange'
    BY MaxHandlersAssumption DEF LiveTypeOK, BuildInRange, NextHandler, Handlers
<1>6. AskedIsComing'
    BY MaxHandlersAssumption DEF LiveTypeOK, AskedIsComing, RoutedToPast, Handlers
<1> QED
    BY <1>1, <1>2, <1>3, <1>4, <1>5, <1>6, <1>7

\* A run that has read the generation has still to load.
LEMMA WakeInv ==
    ASSUME DashboardInv, NEW handler \in Handlers, Wake(handler)
    PROVE  DashboardInv'
<1> USE DEF DashboardInv, Wake, requestVars, refreshVars
<1>1. LiveTypeOK'
    BY MaxHandlersAssumption DEF LiveTypeOK
<1>2. RoutedToPast'
    BY MaxHandlersAssumption DEF LiveTypeOK, RoutedToPast, Handlers
<1>3. StoredIsAccepted'
    BY MaxHandlersAssumption DEF LiveTypeOK, StoredIsAccepted
<1>4. OnlyAccepted'
    BY MaxHandlersAssumption DEF LiveTypeOK, OnlyAccepted
<1>5. FutureIsIdle'
    BY MaxHandlersAssumption DEF LiveTypeOK, FutureIsIdle, Handlers
<1>7. BuildInRange'
    BY MaxHandlersAssumption DEF LiveTypeOK, BuildInRange, NextHandler, Handlers
<1>6. AskedIsComing'
    BY MaxHandlersAssumption DEF LiveTypeOK, AskedIsComing
<1> QED
    BY <1>1, <1>2, <1>3, <1>4, <1>5, <1>6, <1>7

\* The load has everything on disk.
LEMMA LoadStoreInv ==
    ASSUME DashboardInv, NEW handler \in Handlers, LoadStore(handler)
    PROVE  DashboardInv'
<1> USE DEF DashboardInv, LoadStore, requestVars, refreshVars
<1>1. LiveTypeOK'
    BY MaxHandlersAssumption DEF LiveTypeOK
<1>2. RoutedToPast'
    BY MaxHandlersAssumption DEF LiveTypeOK, RoutedToPast, Handlers
<1>3. StoredIsAccepted'
    BY MaxHandlersAssumption DEF LiveTypeOK, StoredIsAccepted
<1>4. OnlyAccepted'
    BY MaxHandlersAssumption DEF LiveTypeOK, OnlyAccepted
<1>5. FutureIsIdle'
    BY MaxHandlersAssumption DEF LiveTypeOK, FutureIsIdle, Handlers
<1>7. BuildInRange'
    BY MaxHandlersAssumption DEF LiveTypeOK, BuildInRange, NextHandler, Handlers
<1>6. AskedIsComing'
    BY MaxHandlersAssumption DEF LiveTypeOK, AskedIsComing, StoredIsAccepted
<1> QED
    BY <1>1, <1>2, <1>3, <1>4, <1>5, <1>6, <1>7

\* The pages take over what was loaded.
LEMMA PublishInv ==
    ASSUME DashboardInv, NEW handler \in Handlers, Publish(handler)
    PROVE  DashboardInv'
<1> USE DEF DashboardInv, Publish, requestVars, refreshVars
<1>1. LiveTypeOK'
    BY MaxHandlersAssumption DEF LiveTypeOK, Stopped
<1>2. RoutedToPast'
    BY MaxHandlersAssumption DEF LiveTypeOK, RoutedToPast, Handlers
<1>3. StoredIsAccepted'
    BY MaxHandlersAssumption DEF LiveTypeOK, StoredIsAccepted
<1>4. OnlyAccepted'
    BY MaxHandlersAssumption DEF LiveTypeOK, OnlyAccepted
<1>5. FutureIsIdle'
    BY MaxHandlersAssumption DEF LiveTypeOK, FutureIsIdle, Handlers
<1>7. BuildInRange'
    BY MaxHandlersAssumption DEF LiveTypeOK, BuildInRange, NextHandler, Handlers
<1>6. AskedIsComing'
    BY MaxHandlersAssumption DEF LiveTypeOK, AskedIsComing, OnlyAccepted
<1> QED
    BY <1>1, <1>2, <1>3, <1>4, <1>5, <1>6, <1>7

\* A failed refresh keeps the pages; its run stops only if nobody asked meanwhile.
LEMMA RefreshFailsInv ==
    ASSUME DashboardInv, NEW handler \in Handlers, RefreshFails(handler)
    PROVE  DashboardInv'
<1> USE DEF DashboardInv, RefreshFails, requestVars, refreshVars
<1>1. LiveTypeOK'
    BY MaxHandlersAssumption DEF LiveTypeOK, Stopped
<1>2. RoutedToPast'
    BY MaxHandlersAssumption DEF LiveTypeOK, RoutedToPast, Handlers
<1>3. StoredIsAccepted'
    BY MaxHandlersAssumption DEF LiveTypeOK, StoredIsAccepted
<1>4. OnlyAccepted'
    BY MaxHandlersAssumption DEF LiveTypeOK, OnlyAccepted
<1>5. FutureIsIdle'
    BY MaxHandlersAssumption DEF LiveTypeOK, FutureIsIdle, Handlers
<1>7. BuildInRange'
    BY MaxHandlersAssumption DEF LiveTypeOK, BuildInRange, NextHandler, Handlers
<1>6. AskedIsComing'
    BY MaxHandlersAssumption DEF LiveTypeOK, AskedIsComing, Stopped
<1> QED
    BY <1>1, <1>2, <1>3, <1>4, <1>5, <1>6, <1>7

\* Building touches no handler that was ever live.
LEMMA BuildInv ==
    ASSUME DashboardInv, BuildHandler
    PROVE  DashboardInv'
<1> USE DEF DashboardInv, BuildHandler, requestVars, refreshVars
<1>1. LiveTypeOK'
    BY MaxHandlersAssumption DEF LiveTypeOK, NextHandler, Handlers
<1>2. RoutedToPast'
    BY MaxHandlersAssumption DEF LiveTypeOK, RoutedToPast, NextHandler, Handlers
<1>3. StoredIsAccepted'
    BY MaxHandlersAssumption DEF LiveTypeOK, StoredIsAccepted, NextHandler, Handlers
<1>4. OnlyAccepted'
    BY MaxHandlersAssumption DEF LiveTypeOK, OnlyAccepted, FutureIsIdle, NextHandler, Handlers
<1>5. FutureIsIdle'
    BY MaxHandlersAssumption DEF LiveTypeOK, FutureIsIdle, NextHandler, Handlers
<1>7. BuildInRange'
    BY MaxHandlersAssumption DEF LiveTypeOK, BuildInRange, NextHandler, Handlers
<1>6. AskedIsComing'
    BY MaxHandlersAssumption DEF LiveTypeOK, AskedIsComing, FutureIsIdle, RoutedToPast, NextHandler, Handlers
<1> QED
    BY <1>1, <1>2, <1>3, <1>4, <1>5, <1>6, <1>7

\* A failed build changes nothing but the lock.
LEMMA BuildFailsInv ==
    ASSUME DashboardInv, BuildFails
    PROVE  DashboardInv'
<1> USE DEF DashboardInv, BuildFails, requestVars, refreshVars
<1>1. LiveTypeOK'
    BY MaxHandlersAssumption DEF LiveTypeOK, NextHandler
<1>2. RoutedToPast'
    BY MaxHandlersAssumption DEF LiveTypeOK, RoutedToPast, NextHandler, Handlers
<1>3. StoredIsAccepted'
    BY MaxHandlersAssumption DEF LiveTypeOK, StoredIsAccepted, NextHandler
<1>4. OnlyAccepted'
    BY MaxHandlersAssumption DEF LiveTypeOK, OnlyAccepted, NextHandler
<1>5. FutureIsIdle'
    BY MaxHandlersAssumption DEF LiveTypeOK, FutureIsIdle, NextHandler, Handlers
<1>7. BuildInRange'
    BY MaxHandlersAssumption DEF LiveTypeOK, BuildInRange, NextHandler, Handlers
<1>6. AskedIsComing'
    BY MaxHandlersAssumption DEF LiveTypeOK, AskedIsComing, NextHandler
<1> QED
    BY <1>1, <1>2, <1>3, <1>4, <1>5, <1>6, <1>7

\* The new handler has no request yet.
LEMMA SwapInv ==
    ASSUME DashboardInv, Swap
    PROVE  DashboardInv'
<1> USE DEF DashboardInv, Swap, requestVars, refreshVars
<1>1. LiveTypeOK'
    BY MaxHandlersAssumption DEF LiveTypeOK, BuildInRange, NextHandler, Handlers
<1>2. RoutedToPast'
    BY MaxHandlersAssumption DEF LiveTypeOK, RoutedToPast, NextHandler, Handlers
<1>3. StoredIsAccepted'
    BY MaxHandlersAssumption DEF LiveTypeOK, StoredIsAccepted, NextHandler, Handlers
<1>4. OnlyAccepted'
    BY MaxHandlersAssumption DEF LiveTypeOK, OnlyAccepted, NextHandler, Handlers
<1>5. FutureIsIdle'
    BY MaxHandlersAssumption DEF LiveTypeOK, FutureIsIdle, NextHandler, Handlers
<1>7. BuildInRange'
    BY MaxHandlersAssumption DEF LiveTypeOK, BuildInRange, NextHandler, Handlers
<1>6. AskedIsComing'
    BY MaxHandlersAssumption DEF LiveTypeOK, AskedIsComing, RoutedToPast, FutureIsIdle, NextHandler, Handlers
<1> QED
    BY <1>1, <1>2, <1>3, <1>4, <1>5, <1>6, <1>7

\* DashboardInv is inductive.
LEMMA DashboardInductive == DashboardInv /\ [LiveNext]_dashboardVars => DashboardInv'
<1> SUFFICES ASSUME DashboardInv, [LiveNext]_dashboardVars PROVE DashboardInv'
    OBVIOUS
<1>1. ASSUME NEW batch \in Batches, Route(batch) \/ RequestStep(batch) PROVE DashboardInv'
    BY <1>1, RouteInv, StoreInv, ScheduleInv DEF RequestStep
<1>2. ASSUME NEW handler \in Handlers, RunStep(handler) PROVE DashboardInv'
    BY <1>2, WakeInv, LoadStoreInv, PublishInv, RefreshFailsInv DEF RunStep
<1>3. CASE BuildHandler \/ ApplyEnds
    BY <1>3, BuildInv, BuildFailsInv, SwapInv DEF ApplyEnds
<1>4. CASE UNCHANGED dashboardVars
    BY <1>4 DEF dashboardVars, requestVars, refreshVars, DashboardInv, LiveTypeOK, RoutedToPast, StoredIsAccepted,
        OnlyAccepted, BuildInRange, NextHandler, FutureIsIdle, AskedIsComing
<1> QED
    BY <1>1, <1>2, <1>3, <1>4 DEF LiveNext

\* DashboardInv holds in every behaviour.
THEOREM LiveInvariance == LiveSpec => []DashboardInv
<1> QED
    BY DashboardInitInv, DashboardInductive, PTL DEF LiveSpec

\* Types, for any batches and any number of registries.
THEOREM LiveTypeCorrect == LiveSpec => []LiveTypeOK
BY LiveInvariance, PTL DEF DashboardInv

\* At rest after a refresh that did not fail the live pages lack only stragglers,
\* whatever the order of requests, refreshes, their failures and registry changes.
THEOREM OnlyStragglers == LiveSpec => []OnlyStragglersAreMissing
<1>1. ASSUME DashboardInv, run[live] = "off", NEW batch \in accepted \ entries[live]
      PROVE  routed[batch] < live \/ request[batch] = "stored"
  <2>1. batch \in Batches /\ live \in Handlers /\ live \in Nat
      BY <1>1, MaxHandlersAssumption DEF DashboardInv, LiveTypeOK, Handlers
  <2>2. request[batch] # "stored" => routed[batch] # live
      BY <1>1, <2>1 DEF DashboardInv, StoredIsAccepted, AskedIsComing
  <2>3. routed[batch] <= live /\ routed[batch] \in Nat
      BY <1>1, <2>1, MaxHandlersAssumption DEF DashboardInv, LiveTypeOK, RoutedToPast, Handlers
  <2> QED
      BY <2>1, <2>2, <2>3
<1>2. DashboardInv => OnlyStragglersAreMissing
    BY <1>1 DEF OnlyStragglersAreMissing
<1> QED
    BY <1>2, LiveInvariance, PTL

\* A live handler never loses a batch, and starts with what its build loaded.
THEOREM LiveKeepsData == LiveSpec => LiveHandlerKeepsData
<1> DEFINE Keeps ==
        \A batch \in Batches :
            batch \in (IF live' = live THEN entries[live] ELSE loaded[live'])
                => batch \in entries'[live']
<1>1. DashboardInv /\ [LiveNext]_dashboardVars => [Keeps]_dashboardVars
  <2> SUFFICES ASSUME DashboardInv, LiveNext PROVE Keeps
      OBVIOUS
  <2>0. live \in Nat /\ NextHandler # live
      BY MaxHandlersAssumption DEF DashboardInv, LiveTypeOK, Handlers, NextHandler
  <2>1. CASE Swap
      BY <2>0, <2>1 DEF Swap, DashboardInv, LiveTypeOK, BuildInRange
  <2>2. ASSUME NEW handler \in Handlers, Publish(handler) PROVE Keeps
      BY <2>2 DEF Publish, DashboardInv, LiveTypeOK, OnlyAccepted
  <2>3. CASE UNCHANGED <<live, entries>>
      BY <2>3
  <2>4. ASSUME NEW batch \in Batches, Route(batch) \/ RequestStep(batch) PROVE UNCHANGED <<live, entries>>
      BY <2>4 DEF Route, RequestStep, Store, Schedule
  <2>5. ASSUME NEW handler \in Handlers, Wake(handler) \/ LoadStore(handler) \/ RefreshFails(handler)
             PROVE UNCHANGED <<live, entries>>
      BY <2>5 DEF Wake, LoadStore, RefreshFails
  <2>6. CASE BuildHandler \/ BuildFails
      BY <2>6 DEF BuildHandler, BuildFails
  <2> QED
      BY <2>1, <2>2, <2>3, <2>4, <2>5, <2>6 DEF LiveNext, RunStep, ApplyEnds
<1> QED
    BY <1>1, LiveInvariance, PTL DEF LiveSpec, LiveHandlerKeepsData
=============================================================================
