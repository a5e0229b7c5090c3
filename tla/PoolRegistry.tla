---------------------------- MODULE PoolRegistry ----------------------------
(***************************************************************************)
(* The pool registry of a running server (internal/app): the file, the     *)
(* registry in memory, and the revisions of it that the ingest receiver    *)
(* accepts.  The file is edited from outside and announced by SIGUSR1, or  *)
(* saved by an administrator; reload() and save() read their registry      *)
(* first and only then queue for the manager's mutex in apply().           *)
(***************************************************************************)
EXTENDS Naturals

CONSTANTS
    Rosters,    \* what a probe sees of a registry: pool ids and endpoints
    Labels,     \* all else in a registry: names, web sites, categories
    Savers,     \* administrator requests that may save at the same time
    Reloader,   \* the goroutine that reloads on SIGUSR1
    Nobody,     \* the manager's mutex is free
    Invalid,    \* a file that loadConfig rejects
    None,       \* nothing: no revision, no registry in hand
    May,        \* what may happen beside saves: edits, signals, failures, restarts
    Grace,      \* ticks of the one-hour grace window
    MaxClock    \* bound on the clock

ASSUME MayAssumption == May \subseteq {"edit", "signal", "failure", "restart"}
ASSUME GraceAssumption == Grace \in Nat
ASSUME MaxClockAssumption == MaxClock \in Nat
ASSUME NamesAssumption ==
    /\ Reloader \notin Savers
    /\ Nobody \notin Savers \union {Reloader}
    /\ None \notin Rosters
    /\ \A roster \in Rosters, labels \in Labels :
          [roster |-> roster, labels |-> labels] \notin {None, Invalid}

Registries == [roster : Rosters, labels : Labels]
Callers == Savers \union {Reloader}

\* BuildProbeConfig hashes ids and endpoints and nothing else.
RevisionOf(registry) == registry.roster

VARIABLES
    file,       \* the registry file
    current,    \* manager.current; manager.revision is RevisionOf(current)
    receiver,   \* revisions the live receiver knows: its PoolRevisions and RevisionExpiry
    signal,     \* reloadSignals, a channel of capacity one
    mutex,      \* holder of manager.mu
    pc,         \* where reload() and each save() are
    wanted,     \* the registry each of them has read
    builtAt,    \* when the holder of the mutex built its handler
    clock,
    prior,      \* history: the revision replaced by the current one, or None
    priorUntil, \* history: when its grace ends
    relabelled, \* history: a registry with the same revision was applied since then
    astray      \* history: what may have set file and current apart, if anything

callerVars == <<mutex, pc, wanted, builtAt>>
liveVars == <<current, receiver, prior, priorUntil, relabelled>>
vars == <<file, liveVars, signal, callerVars, clock, astray>>

\* A receiver: the registry behind each revision, and when some revisions expire.
NewReceiver(registry) ==
    [pools |-> [revision \in {RevisionOf(registry)} |-> registry],
     expiry |-> [revision \in {} |-> 0]]

\* allowedConfiguration: known, and not expired if it can expire.
Accepts(revision) ==
    /\ revision \in DOMAIN receiver.pools
    /\ revision \in DOMAIN receiver.expiry => clock < receiver.expiry[revision]

\* Mutant of Build: the revisions of both registries are not compared.
BuildAnyway(next, previous, now) ==
    [pools |-> [revision \in {RevisionOf(next), RevisionOf(previous)} |->
                   IF revision = RevisionOf(next) THEN next ELSE previous],
     expiry |-> [revision \in {RevisionOf(previous)} |-> now + Grace]]

\* Mutant of Build: the previous revision stays for ever.
BuildForever(next, previous, now) ==
    [pools |-> [revision \in {RevisionOf(next), RevisionOf(previous)} |->
                   IF revision = RevisionOf(next) THEN next ELSE previous],
     expiry |-> [revision \in {} |-> 0]]

\* Mutant of Build: the previous registry is forgotten.
BuildAlone(next, previous, now) == NewReceiver(next)

\* buildRegistry: the previous revision, if it is another one, gets an hour.
Build(next, previous, now) ==
    IF RevisionOf(next) = RevisionOf(previous) THEN NewReceiver(next)
    ELSE [pools |-> [revision \in {RevisionOf(next), RevisionOf(previous)} |->
                       IF revision = RevisionOf(next) THEN next ELSE previous],
          expiry |-> [revision \in {RevisionOf(previous)} |-> now + Grace]]
-----------------------------------------------------------------------------
\* serve() starts from the file, with no previous registry.
StartFrom(registry) ==
    /\ current = registry
    /\ receiver = NewReceiver(registry)
    /\ prior = None
    /\ priorUntil = 0
    /\ relabelled = FALSE
    /\ astray = "no"
    /\ signal = FALSE
    /\ mutex = Nobody
    /\ pc = [caller \in Callers |-> "idle"]
    /\ wanted = [caller \in Callers |-> None]
    /\ builtAt = 0

Init ==
    /\ file \in Registries
    /\ StartFrom(file)
    /\ clock = 0

\* The deployment script, or an operator, replaces the file.
Edit ==
    /\ "edit" \in May
    /\ file' \in Registries \union {Invalid}
    /\ astray' = "touched"
    /\ UNCHANGED <<liveVars, signal, callerVars, clock>>

\* SIGUSR1; a signal that finds the channel full is dropped.
Signal ==
    /\ "signal" \in May
    /\ signal' = TRUE
    /\ astray' = "no"
    /\ UNCHANGED <<file, liveVars, callerVars, clock>>

\* reload() reads the file, and rejects what does not decode.
Reload ==
    /\ signal
    /\ pc[Reloader] = "idle"
    /\ signal' = FALSE
    /\ \/ /\ file # Invalid
          /\ wanted' = [wanted EXCEPT ![Reloader] = file]
          /\ pc' = [pc EXCEPT ![Reloader] = "apply"]
       \/ /\ file = Invalid
          /\ UNCHANGED <<wanted, pc>>
    /\ UNCHANGED <<file, liveVars, mutex, builtAt, clock, astray>>

\* save() decodes what an administrator posted.
Save(saver) ==
    /\ pc[saver] = "idle"
    /\ \E registry \in Registries : wanted' = [wanted EXCEPT ![saver] = registry]
    /\ pc' = [pc EXCEPT ![saver] = "apply"]
    /\ UNCHANGED <<file, liveVars, signal, mutex, builtAt, clock, astray>>

\* The caller holds the mutex and goes on, or frees it and is done.
Goto(caller, place) ==
    /\ pc' = [pc EXCEPT ![caller] = place]
    /\ mutex' = caller
    /\ UNCHANGED wanted

Return(caller) ==
    /\ pc' = [pc EXCEPT ![caller] = "idle"]
    /\ mutex' = Nobody
    /\ wanted' = [wanted EXCEPT ![caller] = None]

\* apply() takes the mutex.  A registry equal to the current one is at most
\* written again; another one gets a handler built for it.
Lock(caller) ==
    /\ pc[caller] = "apply"
    /\ mutex = Nobody
    /\ IF wanted[caller] # current
       THEN /\ Goto(caller, IF caller = Reloader THEN "activate" ELSE "write")
            /\ builtAt' = clock
       ELSE /\ IF caller = Reloader THEN Return(caller) ELSE Goto(caller, "rewrite")
            /\ UNCHANGED builtAt
    /\ UNCHANGED <<file, liveVars, signal, clock, astray>>

\* The build fails, or a write fails before its rename: the live registry stays.
Fail(caller) ==
    /\ "failure" \in May
    /\ \/ pc[caller] \in {"write", "rewrite"}
       \/ caller = Reloader /\ pc[caller] = "activate"
    /\ Return(caller)
    /\ astray' = IF caller = Reloader THEN "touched" ELSE astray
    /\ UNCHANGED <<file, liveVars, signal, builtAt, clock>>

\* writeConfigAtomically renames, then fails to sync the directory.
FailAfterRename(caller) ==
    /\ "failure" \in May
    /\ pc[caller] \in {"write", "rewrite"}
    /\ file' = wanted[caller]
    /\ astray' = "touched"
    /\ Return(caller)
    /\ UNCHANGED <<liveVars, signal, builtAt, clock>>

\* Mutant of Write: the mutex is freed before the registry is activated.
WriteUnlocked(caller) ==
    /\ pc[caller] \in {"write", "rewrite"}
    /\ file' = wanted[caller]
    /\ astray' = "no"
    /\ mutex' = Nobody
    /\ pc' = [pc EXCEPT ![caller] = IF @ = "write" THEN "activate" ELSE "idle"]
    /\ UNCHANGED <<liveVars, signal, wanted, builtAt, clock>>

\* writeConfigAtomically succeeds.
Write(caller) ==
    /\ file' = wanted[caller]
    /\ astray' = "no"
    /\ \/ pc[caller] = "write" /\ Goto(caller, "activate")
       \/ pc[caller] = "rewrite" /\ Return(caller)
    /\ UNCHANGED <<liveVars, signal, builtAt, clock>>

\* A reload may have read the file before somebody else wrote it.
Astray(caller) ==
    IF caller = Reloader /\ wanted[caller] # file THEN "overtaken" ELSE astray

\* The new registry and its handler become the current ones.
Activate(caller) ==
    LET replaced == RevisionOf(current) IN
    /\ pc[caller] = "activate"
    /\ current' = wanted[caller]
    /\ receiver' = Build(wanted[caller], current, builtAt)
    /\ IF RevisionOf(wanted[caller]) = replaced
       THEN relabelled' = TRUE /\ UNCHANGED <<prior, priorUntil>>
       ELSE relabelled' = FALSE /\ prior' = replaced /\ priorUntil' = builtAt + Grace
    /\ astray' = Astray(caller)
    /\ Return(caller)
    /\ UNCHANGED <<file, signal, builtAt, clock>>

\* The process ends at any point and is started again from the file.
Restart ==
    /\ "restart" \in May
    /\ file # Invalid
    /\ current' = file
    /\ receiver' = NewReceiver(file)
    /\ prior' = None
    /\ priorUntil' = 0
    /\ relabelled' = FALSE
    /\ astray' = "no"
    /\ signal' = FALSE
    /\ mutex' = Nobody
    /\ pc' = [caller \in Callers |-> "idle"]
    /\ wanted' = [caller \in Callers |-> None]
    /\ builtAt' = 0
    /\ UNCHANGED <<file, clock>>

Tick ==
    /\ clock < MaxClock
    /\ clock' = clock + 1
    /\ UNCHANGED <<file, liveVars, signal, callerVars, astray>>

ApplyStep(caller) ==
    Lock(caller) \/ Fail(caller) \/ FailAfterRename(caller) \/ Write(caller) \/ Activate(caller)

\* What happens to a server: edits, signals, administrators, restarts, time.
Environment ==
    \/ Edit
    \/ Signal
    \/ \E saver \in Savers : Save(saver)
    \/ Restart
    \/ Tick

Next ==
    \/ Environment
    \/ Reload
    \/ \E caller \in Callers : ApplyStep(caller)

Spec == Init /\ [][Next]_vars
-----------------------------------------------------------------------------
\* Types.
TypeOK ==
    /\ file \in Registries \union {Invalid}
    /\ current \in Registries
    /\ DOMAIN receiver.pools \subseteq Rosters
    /\ DOMAIN receiver.expiry \subseteq DOMAIN receiver.pools
    /\ signal \in BOOLEAN
    /\ mutex \in Callers \union {Nobody}
    /\ pc \in [Callers -> {"idle", "apply", "write", "rewrite", "activate"}]
    /\ wanted \in [Callers -> Registries \union {None}]
    /\ builtAt \in 0 .. clock
    /\ clock \in 0 .. MaxClock
    /\ prior \in Rosters \union {None}
    /\ priorUntil \in Nat
    /\ relabelled \in BOOLEAN
    /\ astray \in {"no", "touched", "overtaken"}

\* A probe that works from the current registry is always heard: whatever was
\* applied, re-applied or undone before, the current revision never expires.
CurrentIsAccepted == Accepts(RevisionOf(current))

\* A batch is checked against the registry its probe had, never against another.
RosterMatchesRevision ==
    \A revision \in DOMAIN receiver.pools : RevisionOf(receiver.pools[revision]) = revision

\* Beside the current revision at most the one it replaced is accepted, within its hour.
OnlyGraceIsAccepted ==
    \A revision \in Rosters :
        Accepts(revision) =>
            revision = RevisionOf(current) \/ (revision = prior /\ clock < priorUntil)

\* The documented promise: the revision that the current one replaced is accepted
\* for the whole hour.  It fails when a change of labels is applied meanwhile.
GraceIsHonoured == prior # None /\ clock < priorUntil => Accepts(prior)

\* It is accepted for the whole hour unless the registry was changed again, by
\* something that is not in the revision.
GraceUnlessRelabelled == ~relabelled => GraceIsHonoured

AtRest == ~signal /\ \A caller \in Callers : pc[caller] = "idle"

\* The documented promise of a save and of a signal: what is saved goes to the file
\* and live at once, and so does an edit that was announced.  Nothing but an edit
\* that was not announced, a reload that failed or a write that half failed leaves
\* the server with another registry than its file.  It fails when a save overtakes
\* a reload.
LiveIsFile == AtRest /\ file # Invalid /\ astray # "touched" => file = current

\* Whatever edits, signals and saves do to each other, when all is quiet the live
\* registry is the one in the file, unless a reload was overtaken by a save or one
\* of the faults above has happened since.
LiveIsFileUnlessOvertaken == astray # "overtaken" => LiveIsFile
=============================================================================
