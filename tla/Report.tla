------------------------------- MODULE Report -------------------------------
(***************************************************************************)
(* What the report engine counts (internal/report/report.go).  The log of  *)
(* observations, the configured endpoints and the clock determine a global *)
(* report and one for every set of vantages; this module models the        *)
(* pipeline between them: retention, de-duplication, expansion of block    *)
(* samples, the canonical window of a block at a vantage, the exclusion of *)
(* cohorts an observer failed for, and the regional selection; and the     *)
(* status of each region, which decides whether its page is offered        *)
(* (internal/web/regional.go).                                             *)
(*                                                                         *)
(* A record of the log is what is appended at once: the block sample of a  *)
(* scheduled probe, or the batch a local collector emits for one block.    *)
(* The offsets, coinbases and connection setups that ride on it are its    *)
(* facts: this module carries them, Scores computes with them.             *)
(***************************************************************************)
EXTENDS Naturals, Sequences, FiniteSets

CONSTANTS
  Regions,          \* the vantages of the production probes
  Collectors,       \* the vantages local collectors are started for
  Labelled,         \* the vantages the dashboard has a page for
  Blocks,           \* hashes of previous blocks
  Endpoints,        \* pool, address and transport
  PoolOf,           \* the pool of each endpoint
  Rosters,          \* the sets of endpoints a registry may configure
  Outcomes,         \* what one block sample may say: [eligible, arrived, facts]
  MinPools,         \* regionalCohortMinPools
  MissPct,          \* regionalCohortMissPct
  RetentionWindow,  \* RetentionWindow, in units of the clock
  StaleAfter,       \* vantageStaleAfter, in the same units
  MaxTime,          \* bound on the clock
  MaxLog            \* bound on the length of the log

ASSUME ReportAssumption ==
  /\ DOMAIN PoolOf = Endpoints /\ IsFiniteSet(Endpoints)
  /\ Rosters \subseteq SUBSET Endpoints
  /\ Regions \subseteq Labelled
  /\ \A o \in Outcomes :
       o.eligible \subseteq Endpoints /\ o.arrived \subseteq o.eligible /\ o.arrived # {}
  /\ MinPools \in Nat \ {0} /\ MissPct \in Nat \ {0}
  /\ RetentionWindow \in Nat /\ StaleAfter \in Nat /\ MaxTime \in Nat /\ MaxLog \in Nat

Vantages == Regions \cup Collectors

VARIABLES
  log,    \* the observation store, oldest line first
  pools,  \* the endpoints of the live registry
  now     \* the clock, in the unit a receive time may lie ahead

vars == <<log, pools, now>>

Remote == "remote_scheduled"
Local  == "local"

(* Records have the identity uniqueObservations compares.  A probe's is    *)
(* its batch, one for a region and a block; a collector numbers its lines. *)
Identities == (Regions \X Blocks) \cup ({Local} \X Nat)
Records ==
  [id : Identities, source : {Remote, Local}, vantage : Vantages, block : Blocks,
   at : Nat, eligible : SUBSET Endpoints, arrived : SUBSET Endpoints,
   facts : {o.facts : o \in Outcomes}]

Record(id, source, v, b, t, o) ==
  [id |-> id, source |-> source, vantage |-> v, block |-> b,
   at |-> t, eligible |-> o.eligible, arrived |-> o.arrived, facts |-> o.facts]

Init == log = <<>> /\ pools \in Rosters /\ now = 0

(* The receiver accepts times up to one second ahead of the server's clock *)
(* and as old as they like.                                                *)
Instants == {t \in 0 .. MaxTime : t <= now + 1}

(* Receiver.validateBlockEnvelope: the time of a sample is its first       *)
(* arrival.                                                                *)
Upload(v, b, t, o) ==
  /\ Len(log) < MaxLog
  /\ log' = Append(log, Record(<<v, b>>, Remote, v, b, t, o))
  /\ UNCHANGED <<pools, now>>

(* collect: the batch of a window, with fresh identities, under the        *)
(* vantage the collector was started for.  Its setups are records of their *)
(* own, which are left out.                                                *)
Emit(v, b, t, o) ==
  /\ Len(log) < MaxLog
  /\ t <= now /\ \A s \in o.facts : s.setup = {}
  /\ log' = Append(log, Record(<<Local, Len(log)>>, Local, v, b, t, o))
  /\ UNCHANGED <<pools, now>>

(* A new registry goes live; what it drops stays in the log.               *)
Reconfigure(r) ==
  /\ pools' = r
  /\ UNCHANGED <<log, now>>

Advance ==
  /\ now < MaxTime
  /\ now' = now + 1
  /\ UNCHANGED <<log, pools>>

Next ==
  \/ \E b \in Blocks, t \in Instants, o \in Outcomes :
        \/ \E v \in Regions : Upload(v, b, t, o)
        \/ \E v \in Collectors : Emit(v, b, t, o)
  \/ \E r \in Rosters : Reconfigure(r)
  \/ Advance

Spec == Init /\ [][Next]_vars

-----------------------------------------------------------------------------
(* The pipeline.  A report is computed from a set of records: identities   *)
(* are unique after de-duplication and the order decides nothing.          *)

(* The lines LoadSince returns, and those of them reports use.             *)
loaded   == {i \in DOMAIN log : log[i].at + RetentionWindow >= now}
retained == {i \in loaded : log[i].at <= now}

\* Mutant of FirstOfIdentity: every line is kept.
AnyOfIdentity(I, i) == TRUE

FirstOfIdentity(I, i) == \A j \in I : j < i => log[j].id # log[i].id

uniqueObservations(I) == {log[i] : i \in {j \in I : FirstOfIdentity(I, j)}}

prepareObservations == uniqueObservations(retained)

Known(o)  == o.eligible \cap pools
Cohort(o) == <<o.vantage, o.block>>

\* Mutant of Canonical: windows are compared at the vantage, whatever the block.
CanonicalAtVantage(obs, o) ==
  /\ Known(o) # {}
  /\ \A p \in obs : p.vantage = o.vantage /\ Known(p) # {} => o.at <= p.at

(* Only the earliest window of a block at a vantage is scored.             *)
Canonical(obs, o) ==
  /\ Known(o) # {}
  /\ \A p \in obs : Cohort(p) = Cohort(o) /\ Known(p) # {} => o.at <= p.at

BroadMiss(missed, eligible) ==
  /\ Cardinality({PoolOf[x] : x \in missed}) >= MinPools
  /\ Cardinality(missed) * 100 >= Cardinality(eligible) * MissPct

Broad(o) == BroadMiss(Known(o) \ o.arrived, Known(o))

unhealthyRegionalCohorts(obs) ==
  {Cohort(o) : o \in {p \in obs : p.source = Remote /\ Canonical(obs, p) /\ Broad(p)}}

\* Mutant of multiRegionFailedBlocks: one region that fails is enough.
anyRegionFailedBlocks(unhealthy) ==
  {b \in Blocks : \E v \in Vantages : <<v, b>> \in unhealthy}

multiRegionFailedBlocks(unhealthy) ==
  {b \in Blocks : \E v, w \in Vantages :
     v # w /\ <<v, b>> \in unhealthy /\ <<w, b>> \in unhealthy}

\* Mutant of expandMultiRegionObserverFailures: only the unhealthy cohorts.
expandNothing(obs, unhealthy) == unhealthy

expandMultiRegionObserverFailures(obs, unhealthy) ==
  LET failed == multiRegionFailedBlocks(unhealthy)
  IN  unhealthy \cup {Cohort(o) : o \in {p \in obs : p.block \in failed}}

Excluded(obs) == expandMultiRegionObserverFailures(obs, unhealthyRegionalCohorts(obs))

(* The records of cohorts that are not excluded, those of them that are    *)
(* scored, and what is counted of these.                                   *)
computePrepared(obs) ==
  LET excluded == Excluded(obs)
      accepted == {o \in obs : Cohort(o) \notin excluded}
      counted  == {o \in accepted : Canonical(obs, o)}
  IN
  [samples    |-> UNION {Known(o) \X {Cohort(o)} : o \in counted},
   deliveries |-> UNION {(Known(o) \cap o.arrived) \X {Cohort(o)} : o \in counted},
   blocks     |-> {o.block : o \in accepted},
   excluded   |-> Cardinality(excluded),
   counted    |-> counted]

failedBlocks(obs) == multiRegionFailedBlocks(unhealthyRegionalCohorts(obs))

\* Mutant of Selected: the blocks that failed are selected too.
SelectedByVantage(obs, V) == {o \in obs : o.vantage \in V}

Selected(obs, V) ==
  LET failed == failedBlocks(obs)
  IN  {o \in obs : o.vantage \in V /\ o.block \notin failed}

Restored(obs, V) ==
  LET failed == failedBlocks(obs)
  IN  {k \in Excluded(obs) : k[1] \in V /\ k[2] \in failed}

Global == computePrepared(prepareObservations)

ComputeVantages(V) ==
  LET obs == prepareObservations IN
  [computePrepared(Selected(obs, V)) EXCEPT !.excluded = @ + Cardinality(Restored(obs, V))]

(* The status of a region comes from what its probe sent, of the records   *)
(* reports are computed from; its last run is the time of the latest       *)
(* sample, and it is stale without one.                                    *)
vantageStatus(v) ==
  LET own == {o \in prepareObservations : o.source = Remote /\ o.vantage = v}
  IN  [last   |-> {o.at : o \in {p \in own : \A q \in own : q.at <= p.at}},
       blocks |-> {o.block : o \in own},
       stale  |-> \A o \in own : now > o.at + StaleAfter]

buildVantageStatuses == [v \in Regions |-> vantageStatus(v)]

availableVantages == {o.vantage : o \in prepareObservations} \cap Labelled

hideStaleRegionalVantages ==
  availableVantages \ {v \in Regions : buildVantageStatuses[v].stale}

-----------------------------------------------------------------------------
(* The log holds well-formed records, and a probe's are of its own region  *)
(* and block.                                                              *)
TypeOK ==
  /\ log \in Seq(Records) /\ Len(log) <= MaxLog
  /\ \A i \in DOMAIN log : log[i].source = Remote => log[i].id = Cohort(log[i])
  /\ pools \in Rosters
  /\ now \in 0 .. MaxTime

(* A regional view, which is computed from the selected records alone,     *)
(* tells the same as the global report restricted to its vantages: the     *)
(* same samples and deliveries, and each excluded cohort once, whether it  *)
(* was excluded in the view or removed before it was computed.             *)
RegionalAgreesWithGlobal ==
  LET all      == Global
      excluded == Excluded(prepareObservations)
  IN  \A V \in SUBSET Vantages :
        LET regional == ComputeVantages(V) IN
        /\ regional.samples = {s \in all.samples : s[2][1] \in V}
        /\ regional.deliveries = {s \in all.deliveries : s[2][1] \in V}
        /\ regional.excluded = Cardinality({k \in excluded : k[1] \in V})

(* No view presents a failure of the observer as downtime of pools: what a *)
(* view counts as missed in a probe's cohort is not a broad miss, and a    *)
(* block that probes of two regions failed for is in no view at all.       *)
(* (A collector's batch in the same cohort can move the canonical window.) *)
Alone(obs, o) == \A p \in obs : Cohort(p) = Cohort(o) => p = o
Probed(obs)   == {o \in obs : o.source = Remote /\ Alone(obs, o)}

OfCohort(samples, k) == {s[1] : s \in {x \in samples : x[2] = k}}

NoObserverOutageIsCounted ==
  LET probed == Probed(prepareObservations)
      failed == {o.block : o \in {p \in probed : \E q \in probed :
                   p.block = q.block /\ p.vantage # q.vantage /\ Broad(p) /\ Broad(q)}}
  IN  \A view \in {ComputeVantages({v}) : v \in Vantages} \cup {Global} :
        /\ \A s \in view.samples : s[2][2] \notin failed
        /\ \A o \in probed :
             LET seen == OfCohort(view.samples, Cohort(o))
             IN  ~BroadMiss(seen \ OfCohort(view.deliveries, Cohort(o)), seen)

(* The exclusion hides nothing else: the misses of a probe's sample count  *)
(* in its own and in the global view unless they are broad, or records of  *)
(* two other regions say that observers failed for the block.              *)
PoolOutagesStayVisible ==
  LET obs == prepareObservations
      all == Global
  IN  \A o \in Probed(obs) :
        LET broad == {p.vantage : p \in {q \in obs :
                        q.source = Remote /\ q.block = o.block /\ Broad(q)}}
            own   == ComputeVantages({o.vantage})
        IN  o.vantage \notin broad /\ Cardinality(broad) < 2
            => \A view \in {all, own} :
                 /\ OfCohort(view.samples, Cohort(o)) = Known(o)
                 /\ OfCohort(view.deliveries, Cohort(o)) = Known(o) \cap o.arrived

(* A batch that is accepted again, whatever it then says, changes nothing  *)
(* while its first record is retained (the receiver forgets its claims on  *)
(* a restart): not what reports are computed from, not the status of a     *)
(* region, and it neither brings back nor hides a page.                    *)
AcceptedAgain ==
  /\ Len(log') = Len(log) + 1
  /\ \E i \in retained : log[i].id = log'[Len(log')].id

RepeatedBatchIsInvisible ==
  [][AcceptedAgain =>
       /\ prepareObservations' = prepareObservations
       /\ buildVantageStatuses' = buildVantageStatuses
       /\ hideStaleRegionalVantages' = hideStaleRegionalVantages]_vars

(* The verdict on a block rests on the records of that block alone: the    *)
(* global report says of it what a report of nothing else would.           *)
BlocksAreIndependent ==
  LET obs == prepareObservations
      all == Global
  IN  \A b \in Blocks :
        LET only == computePrepared({o \in obs : o.block = b}) IN
        /\ {s \in all.samples : s[2][2] = b} = only.samples
        /\ {s \in all.deliveries : s[2][2] = b} = only.deliveries
        /\ b \in all.blocks <=> only.blocks = {b}

=============================================================================
