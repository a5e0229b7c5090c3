----------------------- MODULE DashboardRefresh_proof -----------------------
(***************************************************************************)
(* Proofs about DashboardRefresh, for every set of batches, pages and      *)
(* goroutines: its types, that no requested refresh is lost, that the      *)
(* pages always come from one load, and that it implements FreshView.      *)
(***************************************************************************)
EXTENDS DashboardRefresh, TLAPS

Active(run) == pc[run] # "off"

\* schedule() starts a goroutine only when none is running.
OneRun ==
    /\ \A run \in Runs : Active(run) => running
    /\ \A run, other \in Runs : Active(run) /\ Active(other) => run = other

\* The rebuild mutex is held exactly during a rebuild.
RebuildLock == \A run \in Runs : rebuild = run <=> pc[run] = "build"

\* A run never reads a generation ahead of the counter.
CapturedInPast == \A run \in Runs : captured[run] <= generation

\* Nothing shown or prepared was not accepted.
OnlyAccepted ==
    /\ prepared # NoData => prepared \subseteq accepted
    /\ \A page \in Pages : entries[page] \subseteq accepted

\* Nobody prepares data between a run's invalidation and its own load.
InvalidatedUntilLoad == \A run \in Runs : pc[run] = "lock" => prepared = NoData

\* The pages of a rebuild are made from the one load it began with, which loses
\* nothing shown and, if nobody has asked since, has every requested batch.
BuildFromOneLoad ==
    \A run \in Runs : pc[run] = "build" =>
        /\ prepared # NoData
        /\ \A page \in DOMAIN building[run] : building[run][page] = prepared
        /\ \A page \in Pages : entries[page] \subseteq prepared
        /\ captured[run] = generation => Requested \subseteq prepared

\* After a successful publication the same holds of the pages.
PublishedBeforeCheck ==
    \A run \in Runs : pc[run] = "check" /\ ~failed /\ captured[run] = generation =>
        \A page \in Pages : Requested \subseteq entries[page]

\* A sleeping run is there for a request newer than the latest refresh.
RefreshDue ==
    /\ refreshed <= generation
    /\ \A run \in Runs : pc[run] = "sleep" => refreshed < generation
    /\ \A run \in Runs : pc[run] \in {"invalidate", "lock", "build", "check"} =>
                              captured[run] = refreshed

Inv ==
    /\ TypeOK
    /\ OneRun
    /\ RebuildLock
    /\ CapturedInPast
    /\ RefreshDue
    /\ OnlyAccepted
    /\ InvalidatedUntilLoad
    /\ BuildFromOneLoad
    /\ PublishedBeforeCheck
    /\ NoLostRequest
    /\ OneLoadPerPublication
-----------------------------------------------------------------------------
\* What it means to be a map from some pages to sets of batches.
LEMMA PartialMap ==
    /\ \A ready \in SUBSET Pages : [ready -> SUBSET Batches] \subseteq Partial
    /\ \A map \in Partial : /\ DOMAIN map \subseteq Pages
                           /\ map \in [DOMAIN map -> SUBSET Batches]
    BY DEF Partial

\* A rebuild starts from the empty map.
LEMMA EmptyMapPartial == EmptyMap \in Partial
<1>1. EmptyMap \in [{} -> SUBSET Batches]
    BY DEF EmptyMap
<1> QED
    BY <1>1, PartialMap

\* The handler starts with Inv: its first rebuild happened before it serves.
LEMMA InitInv == Init => Inv
<1> SUFFICES ASSUME Init PROVE Inv
    OBVIOUS
<1>1. TypeOK
    BY EmptyMapPartial DEF Init, TypeOK, Locations
<1>2. QED
    BY <1>1, NoDataAssumption, NobodyAssumption
    DEF Init, Inv, OneRun, Active, RebuildLock, CapturedInPast, RefreshDue, OnlyAccepted,
        InvalidatedUntilLoad, BuildFromOneLoad, PublishedBeforeCheck, NoLostRequest,
        OneLoadPerPublication, Requested

\* An append adds to the disk what nobody has requested yet.
LEMMA AcceptInv ==
    ASSUME Inv, NEW batch \in Batches, Accept(batch)
    PROVE  Inv'
<1> USE DEF Inv, Accept, schedulerVars, cacheVars
<1>1. TypeOK'
    BY DEF TypeOK, Locations
<1>2. OneRun'
    BY DEF TypeOK, OneRun, Active
<1>3. RebuildLock'
    BY NobodyAssumption DEF TypeOK, RebuildLock
<1>4. CapturedInPast'
    BY DEF TypeOK, CapturedInPast
<1>5. RefreshDue'
    BY DEF TypeOK, RefreshDue
<1>6. OnlyAccepted'
    BY DEF TypeOK, OnlyAccepted
<1>7. InvalidatedUntilLoad'
    BY DEF TypeOK, InvalidatedUntilLoad
<1>8. BuildFromOneLoad'
    BY DEF TypeOK, BuildFromOneLoad, Requested
<1>9. PublishedBeforeCheck'
    BY DEF TypeOK, PublishedBeforeCheck, Requested
<1>10. NoLostRequest'
    BY DEF TypeOK, NoLostRequest, Requested
<1>11. OneLoadPerPublication'
    BY DEF TypeOK, OneLoadPerPublication
<1> QED
    BY <1>1, <1>2, <1>3, <1>4, <1>5, <1>6, <1>7, <1>8, <1>9, <1>10, <1>11

\* A request makes every captured generation a past one.
LEMMA ScheduleInv ==
    ASSUME Inv, NEW batch \in Batches, Schedule(batch)
    PROVE  Inv'
<1> USE DEF Inv, Schedule, schedulerVars, cacheVars
<1>1. TypeOK'
  <2>1. CASE running
    BY <2>1 DEF TypeOK
  <2>2. CASE ~running
    <3>1. PICK run \in Runs : pc' = [pc EXCEPT ![run] = "sleep"]
      BY <2>2
    <3>2. pc' \in [Runs -> Locations]
      BY <3>1 DEF TypeOK, Locations
    <3>3. running' = TRUE
      BY <2>2
    <3> QED
      BY <3>2, <3>3 DEF TypeOK
  <2> QED
    BY <2>1, <2>2
<1>2. OneRun'
    BY DEF TypeOK, OneRun, Active
<1>3. RebuildLock'
    BY NobodyAssumption DEF TypeOK, RebuildLock
<1>4. CapturedInPast'
    BY DEF TypeOK, CapturedInPast
<1>5. RefreshDue'
    BY DEF TypeOK, RefreshDue, OneRun, Active
<1>6. OnlyAccepted'
    BY DEF TypeOK, OnlyAccepted
<1>7. InvalidatedUntilLoad'
    BY DEF TypeOK, InvalidatedUntilLoad
<1>8. BuildFromOneLoad'
    BY DEF TypeOK, BuildFromOneLoad, Requested, CapturedInPast
<1>9. PublishedBeforeCheck'
    BY DEF TypeOK, PublishedBeforeCheck, Requested, CapturedInPast
<1>10. NoLostRequest'
    BY DEF TypeOK, NoLostRequest, Requested
<1>11. OneLoadPerPublication'
    BY DEF TypeOK, OneLoadPerPublication
<1> QED
    BY <1>1, <1>2, <1>3, <1>4, <1>5, <1>6, <1>7, <1>8, <1>9, <1>10, <1>11

\* Reading the generation touches no data.
LEMMA WakeInv ==
    ASSUME Inv, NEW run \in Runs, Wake(run)
    PROVE  Inv'
<1> USE DEF Inv, Wake, schedulerVars, cacheVars
<1>1. TypeOK'
    BY DEF TypeOK, Locations
<1>2. OneRun'
    BY DEF TypeOK, OneRun, Active
<1>3. RebuildLock'
    BY NobodyAssumption DEF TypeOK, RebuildLock
<1>4. CapturedInPast'
    BY DEF TypeOK, CapturedInPast
<1>5. RefreshDue'
    BY DEF TypeOK, RefreshDue, OneRun, Active
<1>6. OnlyAccepted'
    BY DEF TypeOK, OnlyAccepted
<1>7. InvalidatedUntilLoad'
    BY DEF TypeOK, InvalidatedUntilLoad
<1>8. BuildFromOneLoad'
    BY DEF TypeOK, BuildFromOneLoad, Requested, OneRun, Active
<1>9. PublishedBeforeCheck'
    BY DEF TypeOK, PublishedBeforeCheck, Requested, OneRun, Active
<1>10. NoLostRequest'
    BY DEF TypeOK, NoLostRequest, Requested
<1>11. OneLoadPerPublication'
    BY DEF TypeOK, OneLoadPerPublication
<1> QED
    BY <1>1, <1>2, <1>3, <1>4, <1>5, <1>6, <1>7, <1>8, <1>9, <1>10, <1>11

\* Only the one active run can invalidate, so nobody is building.
LEMMA InvalidateInv ==
    ASSUME Inv, NEW run \in Runs, Invalidate(run)
    PROVE  Inv'
<1> USE DEF Inv, Invalidate, schedulerVars, cacheVars
<1>1. TypeOK'
    BY DEF TypeOK, Locations
<1>2. OneRun'
    BY DEF TypeOK, OneRun, Active
<1>3. RebuildLock'
    BY NobodyAssumption DEF TypeOK, RebuildLock
<1>4. CapturedInPast'
    BY DEF TypeOK, CapturedInPast
<1>5. RefreshDue'
    BY DEF TypeOK, RefreshDue
<1>6. OnlyAccepted'
    BY NoDataAssumption DEF TypeOK, OnlyAccepted
<1>7. InvalidatedUntilLoad'
    BY DEF TypeOK, InvalidatedUntilLoad
<1>8. BuildFromOneLoad'
    BY DEF TypeOK, BuildFromOneLoad, Requested, OneRun, Active
<1>9. PublishedBeforeCheck'
    BY DEF TypeOK, PublishedBeforeCheck, Requested
<1>10. NoLostRequest'
    BY DEF TypeOK, NoLostRequest, Requested
<1>11. OneLoadPerPublication'
    BY DEF TypeOK, OneLoadPerPublication
<1> QED
    BY <1>1, <1>2, <1>3, <1>4, <1>5, <1>6, <1>7, <1>8, <1>9, <1>10, <1>11

\* The load made under the mutex has everything accepted so far.
LEMMA BeginRebuildInv ==
    ASSUME Inv, NEW run \in Runs, BeginRebuild(run)
    PROVE  Inv'
<1> USE DEF Inv, BeginRebuild, schedulerVars, cacheVars
<1>1. TypeOK'
  <2>1. building' \in [Runs -> Partial]
    BY EmptyMapPartial DEF TypeOK
  <2>2. prepared' = NoData \/ prepared' \in SUBSET Batches
    BY DEF TypeOK, Load
  <2> QED
    BY <2>1, <2>2 DEF TypeOK, Locations
<1>2. OneRun'
    BY DEF TypeOK, OneRun, Active
<1>3. RebuildLock'
    BY NobodyAssumption DEF TypeOK, RebuildLock
<1>4. CapturedInPast'
    BY DEF TypeOK, CapturedInPast
<1>5. RefreshDue'
    BY DEF TypeOK, RefreshDue, Load
<1>6. OnlyAccepted'
    BY DEF TypeOK, OnlyAccepted, Load
<1>7. InvalidatedUntilLoad'
    BY NoDataAssumption DEF TypeOK, InvalidatedUntilLoad, OneRun, Active, Load
<1>8. BuildFromOneLoad'
    BY NoDataAssumption DEF TypeOK, BuildFromOneLoad, Requested, InvalidatedUntilLoad, OnlyAccepted, OneRun, Active, EmptyMap, Load
<1>9. PublishedBeforeCheck'
    BY DEF TypeOK, PublishedBeforeCheck, Requested, Load
<1>10. NoLostRequest'
    BY DEF TypeOK, NoLostRequest, Requested
<1>11. OneLoadPerPublication'
    BY DEF TypeOK, OneLoadPerPublication
<1> QED
    BY <1>1, <1>2, <1>3, <1>4, <1>5, <1>6, <1>7, <1>8, <1>9, <1>10, <1>11

\* A page is built from the load the rebuild began with.
LEMMA BuildPageInv ==
    ASSUME Inv, NEW run \in Runs, NEW page \in Pages, BuildPage(run, page)
    PROVE  Inv'
<1> USE DEF Inv, BuildPage, schedulerVars, cacheVars
<1>1. TypeOK'
  <2> DEFINE ready == DOMAIN building[run] \union {page}
             map == [p \in ready |-> IF p = page THEN Load ELSE building[run][p]]
  <2>1. Load \in SUBSET Batches
    BY DEF TypeOK, Load, BuildFromOneLoad
  <2>2. /\ DOMAIN building[run] \subseteq Pages
        /\ building[run] \in [DOMAIN building[run] -> SUBSET Batches]
    BY PartialMap DEF TypeOK
  <2>3. map \in [ready -> SUBSET Batches]
    BY <2>1, <2>2
  <2>4. map \in Partial
    BY <2>2, <2>3, PartialMap
  <2>5. building' \in [Runs -> Partial]
    BY <2>4 DEF TypeOK
  <2> QED
    BY <2>1, <2>5 DEF TypeOK
<1>2. OneRun'
    BY DEF TypeOK, OneRun, Active
<1>3. RebuildLock'
    BY NobodyAssumption DEF TypeOK, RebuildLock
<1>4. CapturedInPast'
    BY DEF TypeOK, CapturedInPast
<1>5. RefreshDue'
    BY DEF TypeOK, RefreshDue, Load
<1>6. OnlyAccepted'
    BY DEF TypeOK, OnlyAccepted, BuildFromOneLoad, Load
<1>7. InvalidatedUntilLoad'
    BY NoDataAssumption DEF TypeOK, InvalidatedUntilLoad, OneRun, Active, Load
<1>8. BuildFromOneLoad'
    BY NoDataAssumption DEF TypeOK, BuildFromOneLoad, Requested, Load
<1>9. PublishedBeforeCheck'
    BY DEF TypeOK, PublishedBeforeCheck, Requested, Load
<1>10. NoLostRequest'
    BY DEF TypeOK, NoLostRequest, Requested
<1>11. OneLoadPerPublication'
    BY DEF TypeOK, OneLoadPerPublication
<1> QED
    BY <1>1, <1>2, <1>3, <1>4, <1>5, <1>6, <1>7, <1>8, <1>9, <1>10, <1>11

\* Publication moves what is known of the built map to the pages.
LEMMA PublishInv ==
    ASSUME Inv, NEW run \in Runs, Publish(run)
    PROVE  Inv'
<1> USE DEF Inv, Publish, schedulerVars, cacheVars
<1>1. TypeOK'
  <2>1. building[run] \in [Pages -> SUBSET Batches]
    BY PartialMap DEF TypeOK
  <2> QED
    BY <2>1 DEF TypeOK, Locations
<1>2. OneRun'
    BY DEF TypeOK, OneRun, Active
<1>3. RebuildLock'
    BY NobodyAssumption DEF TypeOK, RebuildLock
<1>4. CapturedInPast'
    BY DEF TypeOK, CapturedInPast
<1>5. RefreshDue'
    BY DEF TypeOK, RefreshDue
<1>6. OnlyAccepted'
    BY DEF TypeOK, OnlyAccepted, BuildFromOneLoad
<1>7. InvalidatedUntilLoad'
    BY DEF TypeOK, InvalidatedUntilLoad
<1>8. BuildFromOneLoad'
    BY DEF TypeOK, BuildFromOneLoad, Requested, OneRun, Active
<1>9. PublishedBeforeCheck'
    BY DEF TypeOK, PublishedBeforeCheck, Requested, OneRun, Active, BuildFromOneLoad
<1>10. NoLostRequest'
    BY DEF TypeOK, NoLostRequest, Requested, OneRun, Active
<1>11. OneLoadPerPublication'
    BY DEF TypeOK, OneLoadPerPublication, BuildFromOneLoad
<1> QED
    BY <1>1, <1>2, <1>3, <1>4, <1>5, <1>6, <1>7, <1>8, <1>9, <1>10, <1>11

\* A failed load leaves the pages and marks the failure.
LEMMA LoadFailsInv ==
    ASSUME Inv, NEW run \in Runs, LoadFails(run)
    PROVE  Inv'
<1> USE DEF Inv, LoadFails, schedulerVars, cacheVars
<1>1. TypeOK'
    BY DEF TypeOK, Locations
<1>2. OneRun'
    BY DEF TypeOK, OneRun, Active
<1>3. RebuildLock'
    BY NobodyAssumption DEF TypeOK, RebuildLock
<1>4. CapturedInPast'
    BY DEF TypeOK, CapturedInPast
<1>5. RefreshDue'
    BY DEF TypeOK, RefreshDue
<1>6. OnlyAccepted'
    BY DEF TypeOK, OnlyAccepted
<1>7. InvalidatedUntilLoad'
    BY DEF TypeOK, InvalidatedUntilLoad
<1>8. BuildFromOneLoad'
    BY DEF TypeOK, BuildFromOneLoad, Requested
<1>9. PublishedBeforeCheck'
    BY DEF TypeOK, PublishedBeforeCheck, Requested
<1>10. NoLostRequest'
    BY DEF TypeOK, NoLostRequest, Requested, OneRun, Active
<1>11. OneLoadPerPublication'
    BY DEF TypeOK, OneLoadPerPublication
<1> QED
    BY <1>1, <1>2, <1>3, <1>4, <1>5, <1>6, <1>7, <1>8, <1>9, <1>10, <1>11

\* A failed encoding leaves the pages and marks the failure.
LEMMA BuildFailsInv ==
    ASSUME Inv, NEW run \in Runs, BuildFails(run)
    PROVE  Inv'
<1> USE DEF Inv, BuildFails, schedulerVars, cacheVars
<1>1. TypeOK'
    BY DEF TypeOK, Locations
<1>2. OneRun'
    BY DEF TypeOK, OneRun, Active
<1>3. RebuildLock'
    BY NobodyAssumption DEF TypeOK, RebuildLock
<1>4. CapturedInPast'
    BY DEF TypeOK, CapturedInPast
<1>5. RefreshDue'
    BY DEF TypeOK, RefreshDue
<1>6. OnlyAccepted'
    BY DEF TypeOK, OnlyAccepted
<1>7. InvalidatedUntilLoad'
    BY DEF TypeOK, InvalidatedUntilLoad
<1>8. BuildFromOneLoad'
    BY DEF TypeOK, BuildFromOneLoad, Requested
<1>9. PublishedBeforeCheck'
    BY DEF TypeOK, PublishedBeforeCheck, Requested
<1>10. NoLostRequest'
    BY DEF TypeOK, NoLostRequest, Requested, OneRun, Active
<1>11. OneLoadPerPublication'
    BY DEF TypeOK, OneLoadPerPublication
<1> QED
    BY <1>1, <1>2, <1>3, <1>4, <1>5, <1>6, <1>7, <1>8, <1>9, <1>10, <1>11

\* The run stops only when it served the current generation.
LEMMA FinishInv ==
    ASSUME Inv, NEW run \in Runs, Finish(run)
    PROVE  Inv'
<1> USE DEF Inv, Finish, schedulerVars, cacheVars
<1>1. TypeOK'
    BY DEF TypeOK, Locations
<1>2. OneRun'
    BY DEF TypeOK, OneRun, Active
<1>3. RebuildLock'
    BY NobodyAssumption DEF TypeOK, RebuildLock
<1>4. CapturedInPast'
    BY DEF TypeOK, CapturedInPast
<1>5. RefreshDue'
    BY DEF TypeOK, RefreshDue, CapturedInPast
<1>6. OnlyAccepted'
    BY DEF TypeOK, OnlyAccepted
<1>7. InvalidatedUntilLoad'
    BY DEF TypeOK, InvalidatedUntilLoad
<1>8. BuildFromOneLoad'
    BY DEF TypeOK, BuildFromOneLoad, Requested
<1>9. PublishedBeforeCheck'
    BY DEF TypeOK, PublishedBeforeCheck, Requested
<1>10. NoLostRequest'
    BY DEF TypeOK, NoLostRequest, Requested, PublishedBeforeCheck
<1>11. OneLoadPerPublication'
    BY DEF TypeOK, OneLoadPerPublication
<1> QED
    BY <1>1, <1>2, <1>3, <1>4, <1>5, <1>6, <1>7, <1>8, <1>9, <1>10, <1>11

\* Inv is inductive: every step of the dashboard, or a stutter, keeps it.
LEMMA Inductive == Inv /\ [Next]_vars => Inv'
<1> SUFFICES ASSUME Inv, [Next]_vars PROVE Inv'
    OBVIOUS
<1>1. CASE \E batch \in Batches : Accept(batch) \/ Schedule(batch)
    BY <1>1, AcceptInv, ScheduleInv
<1>2. ASSUME NEW run \in Runs, RunStep(run) PROVE Inv'
    BY <1>2, WakeInv, InvalidateInv, BeginRebuildInv, BuildPageInv, PublishInv,
       LoadFailsInv, BuildFailsInv, FinishInv DEF RunStep
<1>3. CASE UNCHANGED vars
    BY <1>3 DEF vars, schedulerVars, cacheVars, Inv, TypeOK, OneRun, Active, RebuildLock,
        CapturedInPast, RefreshDue, OnlyAccepted, InvalidatedUntilLoad, BuildFromOneLoad,
        PublishedBeforeCheck, NoLostRequest, OneLoadPerPublication, Requested
<1> QED
    BY <1>1, <1>2, <1>3 DEF Next

\* Inv holds in every behaviour of the dashboard.
THEOREM Invariance == Spec => []Inv
<1> QED
    BY InitInv, Inductive, PTL DEF Spec

\* Every variable keeps its type.
THEOREM TypeCorrect == Spec => []TypeOK
<1>1. Inv => TypeOK
    BY DEF Inv
<1> QED
    BY <1>1, Invariance, PTL

\* Once the scheduler rests after a refresh that worked, no accepted batch whose
\* request asked for a refresh is missing from any page, however requests,
\* refreshes and failures interleaved before.
THEOREM NoRequestIsLost == Spec => []NoLostRequest
<1>1. Inv => NoLostRequest
    BY DEF Inv
<1> QED
    BY <1>1, Invariance, PTL

\* All pages always come from one load of the store.
THEOREM PagesAgree == Spec => []OneLoadPerPublication
<1>1. Inv => OneLoadPerPublication
    BY DEF Inv
<1> QED
    BY <1>1, Invariance, PTL
-----------------------------------------------------------------------------
\* The dashboard implements FreshView: an accepted batch is Accept, a publication
\* is Replace, and every other step changes nothing that FreshView can see.
THEOREM ImplementsFreshView == Spec => FreshViewSpec
<1>1. Init => View!Init
    BY DEF Init, View!Init
<1>2. Inv /\ [Next]_vars => [View!Next]_(View!vars)
  <2> SUFFICES ASSUME Inv, [Next]_vars PROVE [View!Next]_(View!vars)
    OBVIOUS
  <2>1. ASSUME NEW batch \in Batches, Accept(batch) PROVE View!Next
    BY <2>1 DEF Accept, cacheVars, View!Next, View!Accept
  <2>2. ASSUME NEW run \in Runs, Publish(run) PROVE View!Next
    <3>1. /\ prepared \in SUBSET accepted
          /\ \A page \in Pages : building[run][page] = prepared /\ entries[page] \subseteq prepared
      BY <2>2 DEF Publish, Inv, BuildFromOneLoad, OnlyAccepted
    <3>2. building[run] \in [Pages -> SUBSET Batches]
      BY <2>2, PartialMap DEF Publish, Inv, TypeOK
    <3>3. entries' = [page \in Pages |-> prepared] /\ UNCHANGED accepted
      BY <2>2, <3>1, <3>2 DEF Publish
    <3> QED
      BY <3>1, <3>3 DEF View!Next, View!Replace
  <2>3. ASSUME NEW batch \in Batches, Schedule(batch) PROVE UNCHANGED <<accepted, entries>>
    BY <2>3 DEF Schedule, cacheVars
  <2>4. ASSUME NEW run \in Runs, RunStep(run), ~Publish(run) PROVE UNCHANGED <<accepted, entries>>
    BY <2>4 DEF RunStep, Wake, Invalidate, BeginRebuild, BuildPage, LoadFails, BuildFails,
        Finish, schedulerVars, cacheVars
  <2>5. CASE UNCHANGED vars
    BY <2>5 DEF vars, cacheVars, View!vars
  <2> QED
    BY <2>1, <2>2, <2>3, <2>4, <2>5 DEF Next, View!vars
<1> QED
    BY <1>1, <1>2, Invariance, PTL DEF Spec, FreshViewSpec, View!Spec

\* A rebuild is only ever started for a request that the previous one, which read
\* the generation earlier, has not served.
THEOREM RebuildsAreRequested == Spec => NoIdleRebuild
<1> DEFINE OnRequest ==
        \A run \in Runs : pc[run] = "sleep" /\ pc'[run] = "invalidate" => generation > refreshed
<1>1. Inv /\ [Next]_vars => [OnRequest]_vars
    BY DEF Inv, RefreshDue, TypeOK
<1> QED
    BY <1>1, Invariance, PTL DEF Spec, NoIdleRebuild

=============================================================================
