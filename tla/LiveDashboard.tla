---------------------------- MODULE LiveDashboard ----------------------------
(***************************************************************************)
(* The dashboard across registry changes (internal/app with internal/web). *)
(* Every registry that is applied gets a handler of its own, with its own  *)
(* caches and refresh scheduler over the one store; swapHandler says which *)
(* of them is live.  A request keeps the handler it was routed to, however *)
(* often the registry changes meanwhile, and asks that handler to refresh. *)
(*                                                                         *)
(* DashboardRefresh has the scheduler and the rebuild in detail; here a    *)
(* rebuild is a load and a publication, either of which may fail, and      *)
(* "dirty" says whether the generation moved since the run read it.        *)
(***************************************************************************)
EXTENDS Naturals

CONSTANTS
    Batches,        \* batches ingest may accept
    MaxHandlers     \* bound: registries applied, the first included

ASSUME MaxHandlersAssumption == MaxHandlers \in Nat \ {0}

Handlers == 1 .. MaxHandlers

VARIABLES
    accepted,   \* batches on disk
    request,    \* where the request of each batch is
    routed,     \* the handler each request was routed to, 0 before
    live,       \* swapHandler.current
    applying,   \* registryManager.apply is between build and swap
    run,        \* where the refresh goroutine of each handler is; a run that
                \* stopped because its last refresh failed is "failed"
    dirty,      \* schedule() was called since the run read the generation
    loaded,     \* what the rebuild in progress of each handler has loaded
    entries     \* the response cache of each handler

requestVars == <<request, routed>>
refreshVars == <<run, dirty>>
dashboardVars == <<accepted, requestVars, live, applying, refreshVars, loaded, entries>>

\* The handler an apply in progress is building, or would build.
NextHandler == live + 1

\* No goroutine is at work: running is FALSE.
Stopped == {"off", "failed"}

LiveInit ==
    /\ accepted = {}
    /\ request = [batch \in Batches |-> "coming"]
    /\ routed = [batch \in Batches |-> 0]
    /\ live = 1
    /\ applying = FALSE
    /\ run = [handler \in Handlers |-> "off"]
    /\ dirty = [handler \in Handlers |-> FALSE]
    /\ loaded = [handler \in Handlers |-> {}]
    /\ entries = [handler \in Handlers |-> {}]
-----------------------------------------------------------------------------
\* swapHandler.ServeHTTP loads the current handler once per request.
Route(batch) ==
    /\ request[batch] = "coming"
    /\ request' = [request EXCEPT ![batch] = "routed"]
    /\ routed' = [routed EXCEPT ![batch] = live]
    /\ UNCHANGED <<accepted, live, applying, refreshVars, loaded, entries>>

\* The receiver appends the batch and answers 202.
Store(batch) ==
    /\ request[batch] = "routed"
    /\ request' = [request EXCEPT ![batch] = "stored"]
    /\ accepted' = accepted \union {batch}
    /\ UNCHANGED <<routed, live, applying, refreshVars, loaded, entries>>

\* Mutant of Schedule: the generation does not move while a run is at work.
ScheduleIfIdle(batch) ==
    LET handler == routed[batch] IN
    /\ request[batch] = "stored"
    /\ request' = [request EXCEPT ![batch] = "done"]
    /\ dirty' = [dirty EXCEPT ![handler] = @ \/ run[handler] \in Stopped]
    /\ run' = [run EXCEPT ![handler] = IF @ \in Stopped THEN "sleep" ELSE @]
    /\ UNCHANGED <<accepted, routed, live, applying, loaded, entries>>

\* schedule() is called on the scheduler of the handler that served the request.
Schedule(batch) ==
    LET handler == routed[batch] IN
    /\ request[batch] = "stored"
    /\ request' = [request EXCEPT ![batch] = "done"]
    /\ dirty' = [dirty EXCEPT ![handler] = TRUE]
    /\ run' = [run EXCEPT ![handler] = IF @ \in Stopped THEN "sleep" ELSE @]
    /\ UNCHANGED <<accepted, routed, live, applying, loaded, entries>>

\* A run reads its scheduler's generation.
Wake(handler) ==
    /\ run[handler] = "sleep"
    /\ run' = [run EXCEPT ![handler] = "load"]
    /\ dirty' = [dirty EXCEPT ![handler] = FALSE]
    /\ UNCHANGED <<accepted, requestVars, live, applying, loaded, entries>>

\* Mutant of LoadStore: the data prepared before is kept.
LoadNothing(handler) ==
    /\ run[handler] = "load"
    /\ run' = [run EXCEPT ![handler] = "publish"]
    /\ UNCHANGED <<accepted, requestVars, live, applying, dirty, loaded, entries>>

\* invalidate() and the load that follows.
LoadStore(handler) ==
    /\ run[handler] = "load"
    /\ run' = [run EXCEPT ![handler] = "publish"]
    /\ loaded' = [loaded EXCEPT ![handler] = accepted]
    /\ UNCHANGED <<accepted, requestVars, live, applying, dirty, entries>>

\* The pages are replaced; the run goes on if it was asked to meanwhile.
Publish(handler) ==
    /\ run[handler] = "publish"
    /\ entries' = [entries EXCEPT ![handler] = loaded[handler]]
    /\ run' = [run EXCEPT ![handler] = IF dirty[handler] THEN "sleep" ELSE "off"]
    /\ UNCHANGED <<accepted, requestVars, live, applying, dirty, loaded>>

\* Reading the store or building a page fails: the error is logged, the old pages
\* stay, and the run stops unless it was asked to go on meanwhile.
RefreshFails(handler) ==
    /\ run[handler] \in {"load", "publish"}
    /\ run' = [run EXCEPT ![handler] = IF dirty[handler] THEN "sleep" ELSE "failed"]
    /\ UNCHANGED <<accepted, requestVars, live, applying, dirty, loaded, entries>>

\* apply: the replacement handler is built from what is stored now.
BuildHandler ==
    /\ ~applying
    /\ NextHandler \in Handlers
    /\ applying' = TRUE
    /\ loaded' = [loaded EXCEPT ![NextHandler] = accepted]
    /\ UNCHANGED <<accepted, requestVars, live, refreshVars, entries>>

\* Mutant of BuildFails: the half-built handler goes live.
BuildFailsLive ==
    /\ applying
    /\ applying' = FALSE
    /\ live' = NextHandler
    /\ UNCHANGED <<accepted, requestVars, refreshVars, loaded, entries>>

\* The build, or writing the file, fails: the live handler stays.
BuildFails ==
    /\ applying
    /\ applying' = FALSE
    /\ UNCHANGED <<accepted, requestVars, live, refreshVars, loaded, entries>>

\* Its first pages are in place before the swap.
Swap ==
    /\ applying
    /\ applying' = FALSE
    /\ entries' = [entries EXCEPT ![NextHandler] = loaded[NextHandler]]
    /\ live' = NextHandler
    /\ UNCHANGED <<accepted, requestVars, refreshVars, loaded>>

RequestStep(batch) == Store(batch) \/ Schedule(batch)
RunStep(handler) ==
    Wake(handler) \/ LoadStore(handler) \/ Publish(handler) \/ RefreshFails(handler)
ApplyEnds == BuildFails \/ Swap

LiveNext ==
    \/ \E batch \in Batches : Route(batch) \/ RequestStep(batch)
    \/ \E handler \in Handlers : RunStep(handler)
    \/ BuildHandler
    \/ ApplyEnds

\* What has begun goes on; nobody has to send a batch or change the registry.
Fairness ==
    /\ \A batch \in Batches : WF_dashboardVars(RequestStep(batch))
    /\ \A handler \in Handlers : WF_dashboardVars(RunStep(handler))
    /\ WF_dashboardVars(ApplyEnds)

LiveSpec == LiveInit /\ [][LiveNext]_dashboardVars
LiveFairSpec == LiveSpec /\ Fairness
-----------------------------------------------------------------------------
\* Every variable has the type its Go declaration gives it.
LiveTypeOK ==
    /\ accepted \in SUBSET Batches
    /\ request \in [Batches -> {"coming", "routed", "stored", "done"}]
    /\ routed \in [Batches -> Handlers \union {0}]
    /\ live \in Handlers
    /\ applying \in BOOLEAN
    /\ run \in [Handlers -> Stopped \union {"sleep", "load", "publish"}]
    /\ dirty \in [Handlers -> BOOLEAN]
    /\ loaded \in [Handlers -> SUBSET Batches]
    /\ entries \in [Handlers -> SUBSET Batches]

\* What the live dashboard can lack at rest, when its last refresh did not fail: a
\* batch that came in through an earlier handler, or one whose request has not
\* asked for its refresh yet.  All that the live handler was asked to show since
\* it was built is shown, also what an earlier refresh failed to.
OnlyStragglersAreMissing ==
    run[live] = "off" =>
        \A batch \in accepted \ entries[live] :
            routed[batch] < live \/ request[batch] = "stored"

\* A handler goes live with everything its build loaded, and while it is live
\* its pages never lose a batch.
LiveHandlerKeepsData ==
    [][\A batch \in Batches :
          batch \in (IF live' = live THEN entries[live] ELSE loaded[live'])
              => batch \in entries'[live']]_dashboardVars

\* A straggler is shown with the next batch the live handler accepts: if some
\* request routed to the live handler asks for a refresh after the straggler was
\* stored, the straggler gets to that handler's pages.  Only a failure of the last
\* refresh that was asked for keeps it off: nothing retries that one.
NextBatchBringsStragglers ==
    \A batch, other \in Batches, handler \in Handlers :
        (batch \in accepted /\ request[other] = "stored" /\ routed[other] = handler)
            ~> \/ batch \in entries[handler]
               \/ request[other] = "done" /\ run[handler] = "failed"
=============================================================================
