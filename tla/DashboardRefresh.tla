-------------------------- MODULE DashboardRefresh --------------------------
(***************************************************************************)
(* The dashboard of one HTTP handler: the snapshot cache over the store,   *)
(* the response cache the browser reads, and the scheduler that coalesces  *)
(* accepted ingest requests into rebuilds (internal/web).                  *)
(*                                                                         *)
(* A step is what the code does under one hold of a mutex.  The ten-second *)
(* coalescing sleep is a state a run stays in as long as it likes.         *)
(***************************************************************************)
EXTENDS Naturals

CONSTANTS
    Batches,    \* batches ingest may accept, each at most once
    Pages,      \* vantage x transport keys of the response cache
    Runs,       \* goroutines that may execute scheduler.run
    NoData,     \* cache.prepared = nil
    Nobody      \* the rebuild mutex is free

ASSUME NoDataAssumption == \A loaded \in SUBSET Batches : loaded # NoData
ASSUME NobodyAssumption == Nobody \notin Runs

VARIABLES
    accepted,     \* batches on disk: the answer 202 is certain
    unscheduled,  \* accepted, but their request has not called schedule() yet
    generation,   \* scheduler.generation
    running,      \* scheduler.running
    pc,           \* where each goroutine of run() is
    captured,     \* the local variable generation of run()
    prepared,     \* snapshotCache.prepared: the batches loaded, or NoData
    rebuild,      \* holder of dashboardResponseCache.rebuild
    building,     \* the local map entries of rebuildFrom
    entries,      \* dashboardResponseCache.entries
    refreshed,    \* history: the generation captured by the latest refresh
    failed        \* history: the latest refresh returned an error

schedulerVars == <<generation, running, pc, captured>>
cacheVars == <<prepared, rebuild, building, entries>>
vars == <<accepted, unscheduled, schedulerVars, cacheVars, refreshed, failed>>

Locations == {"off", "sleep", "invalidate", "lock", "build", "check"}

\* Batches whose request has called schedule(): the dashboard owes them a refresh.
Requested == accepted \ unscheduled

\* A rebuild in progress: a map from the pages built so far.
Partial == UNION {[ready -> SUBSET Batches] : ready \in SUBSET Pages}
EmptyMap == [page \in {} |-> {}]
-----------------------------------------------------------------------------
\* Server.Handler rebuilds from the store before the handler serves anyone.
Init ==
    /\ accepted \in SUBSET Batches
    /\ unscheduled = {}
    /\ generation = 0
    /\ running = FALSE
    /\ pc = [run \in Runs |-> "off"]
    /\ captured = [run \in Runs |-> 0]
    /\ prepared = accepted
    /\ rebuild = Nobody
    /\ building = [run \in Runs |-> EmptyMap]
    /\ entries = [page \in Pages |-> accepted]
    /\ refreshed = 0
    /\ failed = FALSE

\* The wrapped receiver stores a batch and answers 202.
Accept(batch) ==
    /\ batch \notin accepted
    /\ accepted' = accepted \union {batch}
    /\ unscheduled' = unscheduled \union {batch}
    /\ UNCHANGED <<schedulerVars, cacheVars, refreshed, failed>>

\* Its request goroutine, later, asks for a refresh.
Schedule(batch) ==
    /\ batch \in unscheduled
    /\ unscheduled' = unscheduled \ {batch}
    /\ generation' = generation + 1
    /\ \/ running /\ UNCHANGED <<running, pc>>
       \/ /\ ~running
          /\ running' = TRUE
          /\ \E run \in Runs :
                /\ pc[run] = "off"
                /\ pc' = [pc EXCEPT ![run] = "sleep"]
    /\ UNCHANGED <<accepted, captured, cacheVars, refreshed, failed>>

\* The sleep ends; run() reads the generation it is about to serve.
Wake(run) ==
    /\ pc[run] = "sleep"
    /\ captured' = [captured EXCEPT ![run] = generation]
    /\ refreshed' = generation
    /\ pc' = [pc EXCEPT ![run] = "invalidate"]
    /\ UNCHANGED <<accepted, unscheduled, generation, running, cacheVars, failed>>

\* Mutant of Invalidate: the prepared data is kept.
InvalidateNothing(run) ==
    /\ pc[run] = "invalidate"
    /\ pc' = [pc EXCEPT ![run] = "lock"]
    /\ UNCHANGED <<accepted, unscheduled, generation, running, captured, cacheVars, refreshed,
                   failed>>

\* refresh() drops the prepared data; the rebuild mutex is not held here.
Invalidate(run) ==
    /\ pc[run] = "invalidate"
    /\ prepared' = NoData
    /\ pc' = [pc EXCEPT ![run] = "lock"]
    /\ UNCHANGED <<accepted, unscheduled, generation, running, captured,
                   rebuild, building, entries, refreshed, failed>>

\* snapshotCache.refresh: load only when nothing is prepared.
Load == IF prepared = NoData THEN accepted ELSE prepared

\* rebuildFrom takes its mutex and reads the records.
BeginRebuild(run) ==
    /\ pc[run] = "lock"
    /\ rebuild = Nobody
    /\ rebuild' = run
    /\ prepared' = Load
    /\ building' = [building EXCEPT ![run] = EmptyMap]
    /\ pc' = [pc EXCEPT ![run] = "build"]
    /\ UNCHANGED <<accepted, unscheduled, generation, running, captured, entries,
                   refreshed, failed>>

\* Mutant of BuildPage: pages are replaced in place, one by one.
BuildPageInPlace(run, page) ==
    /\ pc[run] = "build"
    /\ page \notin DOMAIN building[run]
    /\ prepared' = Load
    /\ building' = [building EXCEPT ![run] =
            [p \in DOMAIN building[run] \union {page} |->
                IF p = page THEN Load ELSE building[run][p]]]
    /\ entries' = [entries EXCEPT ![page] = Load]
    /\ UNCHANGED <<accepted, unscheduled, schedulerVars, rebuild, refreshed, failed>>

\* One page: the snapshot it renders reloads if another run has invalidated.
BuildPage(run, page) ==
    /\ pc[run] = "build"
    /\ page \notin DOMAIN building[run]
    /\ prepared' = Load
    /\ building' = [building EXCEPT ![run] =
            [p \in DOMAIN building[run] \union {page} |->
                IF p = page THEN Load ELSE building[run][p]]]
    /\ UNCHANGED <<accepted, unscheduled, schedulerVars, rebuild, entries, refreshed, failed>>

\* The complete set of pages replaces the old one in one assignment.
Publish(run) ==
    /\ pc[run] = "build"
    /\ DOMAIN building[run] = Pages
    /\ entries' = building[run]
    /\ rebuild' = Nobody
    /\ failed' = FALSE
    /\ pc' = [pc EXCEPT ![run] = "check"]
    /\ UNCHANGED <<accepted, unscheduled, generation, running, captured, prepared, building,
                   refreshed>>

\* Reading the store fails: prepared stays nil, the old pages stay up.
LoadFails(run) ==
    /\ pc[run] = "lock"
    /\ rebuild = Nobody
    /\ prepared = NoData
    /\ failed' = TRUE
    /\ pc' = [pc EXCEPT ![run] = "check"]
    /\ UNCHANGED <<accepted, unscheduled, generation, running, captured, cacheVars, refreshed>>

\* Encoding a page fails: what was built is dropped.
BuildFails(run) ==
    /\ pc[run] = "build"
    /\ DOMAIN building[run] # Pages
    /\ rebuild' = Nobody
    /\ failed' = TRUE
    /\ pc' = [pc EXCEPT ![run] = "check"]
    /\ UNCHANGED <<accepted, unscheduled, generation, running, captured, prepared, building,
                   entries, refreshed>>

\* Mutant of Finish: the run stops without looking at the generation.
FinishBlindly(run) ==
    /\ pc[run] = "check"
    /\ running' = FALSE
    /\ pc' = [pc EXCEPT ![run] = "off"]
    /\ UNCHANGED <<accepted, unscheduled, generation, captured, cacheVars, refreshed, failed>>

\* Mutant of Finish: the run rebuilds again when nothing came in.
FinishNever(run) ==
    /\ pc[run] = "check"
    /\ pc' = [pc EXCEPT ![run] = "sleep"]
    /\ UNCHANGED <<accepted, unscheduled, generation, running, captured, cacheVars, refreshed,
                   failed>>

\* run() stops only when nobody asked since it read the generation.
Finish(run) ==
    /\ pc[run] = "check"
    /\ \/ /\ generation = captured[run]
          /\ running' = FALSE
          /\ pc' = [pc EXCEPT ![run] = "off"]
       \/ /\ generation # captured[run]
          /\ pc' = [pc EXCEPT ![run] = "sleep"]
          /\ UNCHANGED running
    /\ UNCHANGED <<accepted, unscheduled, generation, captured, cacheVars, refreshed, failed>>

RunStep(run) ==
    \/ Wake(run) \/ Invalidate(run) \/ BeginRebuild(run) \/ Publish(run)
    \/ LoadFails(run) \/ BuildFails(run) \/ Finish(run)
    \/ \E page \in Pages : BuildPage(run, page)

Next ==
    \/ \E batch \in Batches : Accept(batch) \/ Schedule(batch)
    \/ \E run \in Runs : RunStep(run)

\* Goroutines are scheduled: a request that was answered reaches schedule(),
\* and a run keeps going (its sleep is finite).  New batches need not come.
Fairness ==
    /\ \A batch \in Batches : WF_vars(Schedule(batch))
    /\ \A run \in Runs : WF_vars(RunStep(run))

Spec == Init /\ [][Next]_vars
FairSpec == Spec /\ Fairness
-----------------------------------------------------------------------------
\* Every variable has the type its Go declaration gives it.
TypeOK ==
    /\ accepted \in SUBSET Batches
    /\ unscheduled \in SUBSET accepted
    /\ generation \in Nat
    /\ running \in BOOLEAN
    /\ pc \in [Runs -> Locations]
    /\ captured \in [Runs -> Nat]
    /\ prepared = NoData \/ prepared \in SUBSET Batches
    /\ rebuild \in Runs \union {Nobody}
    /\ building \in [Runs -> Partial]
    /\ entries \in [Pages -> SUBSET Batches]
    /\ refreshed \in Nat
    /\ failed \in BOOLEAN

\* No accepted batch is forgotten: when the scheduler is at rest and its last
\* refresh did not fail, every batch whose request called schedule() is on every
\* page.  This is what the generation counter of run() is for.
NoLostRequest ==
    ~running /\ ~failed => \A page \in Pages : Requested \subseteq entries[page]

\* The pages a browser can fetch were all computed from one load of the store:
\* switching region or transport never mixes two states of the data.  The code
\* relies on there being one run only, since invalidate() ignores the rebuild mutex.
OneLoadPerPublication ==
    \A p, q \in Pages : entries[p] = entries[q]

\* A rebuild is started only when a request came in after the previous one read
\* the generation: bursts cost one rebuild and at most one follow-up.
NoIdleRebuild ==
    [][\A run \in Runs : pc[run] = "sleep" /\ pc'[run] = "invalidate" => generation > refreshed]_vars

\* A requested batch is eventually shown, unless the refresh meant to show it fails.
RequestedIsShown ==
    \A batch \in Batches :
        batch \in Requested ~> (failed \/ \A page \in Pages : batch \in entries[page])

\* The pages keep the promise of FreshView.
View == INSTANCE FreshView WITH view <- entries
FreshViewSpec == View!Spec
=============================================================================
