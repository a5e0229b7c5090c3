# StratumStats in TLA+

StratumStats measures how fast mining pools announce a new Bitcoin block. A
*probe* (`collect`) keeps a Stratum session to every configured endpoint and
turns the jobs it hears into one observation per block; a *server* (`serve`)
receives observations from remote probes, keeps them in a JSONL file, and shows
a scored dashboard. This directory holds TLA+ modules of the parts in which
order, time and failure matter, the TLC configurations that check them, and
TLAPS proofs of the theorems that matter most.

All paths below are relative to the repository root; modules are in this
directory.

## 1. Inventory

### 1.1 Components, state, operations

| Component | Code | State | Operations |
|---|---|---|---|
| Block collector | `internal/probe/collector.go` (`Collect`) | channel of events, active blocks, completed blocks | receive an event, sweep windows, emit, return |
| Pool session | `internal/probe/collector.go` (`watchSession`, `notifyWindow`), `reconnect.go` | step of the handshake, notify window, backoff | handshake steps, notify, disconnect, reconnect |
| Job verification and coinbase analysis | `internal/probe/jobverify.go`, `coinbase.go`, `identity.go` | none | decode and judge one job; sum, merge, order and cut off the outputs of its coinbase |
| Observation store | `internal/store/jsonl.go` | the file, the mutex of an `Appender` | `Append`, `LoadSince`, `CompactBefore` |
| Ingest receiver | `internal/ingest/ingest.go` | `ReplayGuard.batches`, accepted revisions | authenticate, claim, validate the envelope, append, release, answer |
| Ingest limiter | `internal/ingest/limit.go` | tokens, last, inFlight | acquire, release |
| Pool registry | `internal/app/registry.go`, `app.go` | registry file, current registry, mutex, signal channel | reload, save, apply, write, restart |
| Handler swap | `internal/app/registry.go` (`swapHandler`) | pointer to the live handler | route a request, swap |
| Dashboard refresh | `internal/web/dashboard_response.go`, `regional.go` | generation, running, prepared data, response cache | schedule, run, invalidate, load, rebuild |
| Reports and scores | `internal/report` | none | de-duplicate, window, exclude, aggregate, score |
| Regional status | `internal/web/regional.go` | none | status of each region, hiding of stale ones |
| Administrator sessions | `internal/app/admin.go` | `admin.json`; sessions, failures per address | create or load the credentials; login, lockout, logout, expiry, pruning, editor form |
| Dashboard page | `internal/web/dashboard.go` | none | rows, sorting, layout |
| Model and JSON | `internal/model` | none | types, constants, encodings |
| Demo data, command line | `internal/app`, `main.go` | none | flags, wiring, sample data |

### 1.2 How they interact

* A watcher goroutine per endpoint (pool session) sends events over a channel
  with room for 256 to the one goroutine of `Collect`, which hands batches to
  `emit`: `store.Append` for `collect`, an HTTP request in a remote probe.
* A request to `/ingest` goes through `swapHandler` to the handler of the
  current registry: its limiter, then the receiver (replay guard, store), then
  `Server.Handler` calls `schedule()` when the receiver answered 202.
* The scheduler of that handler sleeps ten seconds, drops the snapshot cache,
  loads the store and publishes new pages.
* `SIGUSR1` or an administrator's save makes `registryManager.apply` build a
  *new* handler (receiver, limiter, caches, scheduler) over the *same* store
  and replay guard, and swap it in.
* An administrator's request is served by the administration handler of the
  same process: login, editor, save (which is the `save()` of the registry).
* A report is computed from the lines of the file whenever pages are built; the
  evidence it needs was put into each record by the receiver, from what the
  probe forwarded, with the same functions a probe uses itself.
* A compaction goroutine looks once a week whether the file has lines past the
  thirty days, and rewrites it then; `collect` may be started
  on the same path by another process.

### 1.3 What is hard, and what must hold

| Part | Hard behaviour | Must hold |
|---|---|---|
| Dashboard refresh | a request races the end of a refresh; a refresh fails | no accepted batch is forgotten; the pages come from one load |
| Handler swap | a request is overtaken by a swap | the live dashboard never goes back, and lacks only stragglers |
| Pool registry | two saves, a reload and an edit race; a write half fails; restarts within the grace | file and memory agree; the current revision is always accepted, an old one only within its grace |
| Ingest receiver | retries, late and duplicate deliveries, failing appends, restarts | no batch is refused for ever; none is appended twice while its stamp is good |
| Ingest limiter | idle credit, refusals, concurrent requests | rate over every window, concurrency limit |
| Observation store | appends, loads, compactions, crashes, short writes, two processes | acknowledged lines are kept, loads return what the file held |
| Administrator sessions | logins at the same time, clocks read before the mutex, two servers starting on one path, a crash before the password is logged | failures are bounded, ended sessions stay ended, lockouts end, a logged password works |
| Job verification | sums that wrap, outputs merged and cut off | every sat is accounted for |
| Reports | a probe that fails for part of a block; batches stored twice; regional views computed from a selection | failures of an observer count against no pool, nothing else is hidden, all views agree |
| Scores | two windows, an order of entries, missing measurements, evidence taken over after scoring | wins are eligible and are first arrivals, nothing unmeasured is a failure, a score fits the evidence beside it |
| Block collector | events out of order, a full channel, late jobs, failures | one batch per block, fair offsets, no lost job |
| Pool session | failures at every step, reconnection in the middle of a block | records tell the session; startup is not measured |

`PROJECT.json` lists the hazards line by line with the properties that cover
each, and says why where none does.

## 2. Modules

Each definition that stands for code is listed in `PROJECT.json` under `map`
with its lines. Definitions commented *Mutant of X* are wrong versions of X
that the specification never uses: replacing X by the mutant must break the
property named with it, which shows that the property can fail.

### FreshView, DashboardRefresh, DashboardRefresh_proof

`DashboardRefresh` is one handler's `dashboardRefreshScheduler`,
`snapshotCache` and `dashboardResponseCache`. A batch is *accepted* (on disk),
then its request calls `schedule()`: `unscheduled` are those in between. Every
goroutine of `run()` has a program counter: `sleep` (ten seconds), `invalidate`,
`lock` (waiting for the rebuild mutex), `build` (one `BuildPage` per page, since
every page calls `snapshot.records`, which reloads if the cache was
invalidated), `check` (comparing generations). `LoadFails` and `BuildFails` are
the two error paths. A page is the set of batches it was computed from.

`FreshView` is the promise to a browser: pages change all together, to one set
of accepted batches that contains what was shown before. `DashboardRefresh`
implements it with `view <- entries`.

### LiveDashboard, Registry_proof

Composes handlers: each applied registry has its own `run`, `dirty`, `loaded`
and `entries`; `live` is `swapHandler.current`. A rebuild is abstracted to load
and publish (its details are in `DashboardRefresh`); `dirty` is "generation
differs from the captured one". `RefreshFails` is a refresh that cannot load or
build: `run()` logs the error and goes on only if it was asked to meanwhile;
otherwise the handler is `failed`, which is stopped like `off`, and told apart
from it for the properties. Its definitions have names of their own
(`LiveInit`, `LiveNext`, `LiveSpec`), because `Registry_proof` EXTENDS it and
`PoolRegistry`, which share no state.

### PoolRegistry, MCPoolRegistry, Registry_proof

A registry is a roster (ids and endpoints, what `BuildProbeConfig` hashes) and
labels (all else). `reload()` and each `save()` are callers with a program
counter: they have read their registry (`wanted`), queue for `manager.mu`, and
under it build (`builtAt`), write the file, and activate. The receiver is the
map of registries per revision and the expiry of the previous revision that
`buildRegistry` passes to it. `May` switches edits, signals, failures and restarts on and off.

Four history variables say what the documentation's promises are about.
`prior` and `priorUntil` are the revision that was replaced last and the end of
its hour; `relabelled` says that a registry with the same revision was applied
since. `astray` says why file and memory may differ: an edit that was not
announced yet, a failed reload or a half-failed write (`touched`), or a reload
that a save overtook (`overtaken`).

### IngestLimits, RateLimiter, Ingest, IngestService, MCIngestService and their proofs

`IngestLimits` declares the constants that the other modules share.

`RateLimiter` is `requestLimiter.acquire` and `release`. A tick is the time that
one unit takes to refill and a token costs `Token` units, so the float
arithmetic of the code is exact integer arithmetic. `Watch` starts an
observation window at any time: `RateHolds` then is about every window, not only
the one since the start.

`Ingest` is the receiver. A request is at `coming`, `claim` (authenticated),
`append` (through the guard), `reply` or `done`. It reads the clock when it
arrives (`seen`), as `ServeHTTP` does, and meets the guard later. `release()`
deletes by key, whoever's claim that is. The claimant in `guard` is history,
used by properties only (by `overtaken`).

`IngestService` composes them as `buildRegistry` does: `Limiter` and `Receiver`
are instances over the same clock and the same requests. `Swap` replaces the
handler: the new one has a full bucket and nobody inside, the guard stays, and
requests that the old limiter has admitted (`inside` and not `serving`) go on
and are released there. The properties of both modules are checked, and proved,
of the composition; `IngestService_proof` shows that it implements `Ingest`.

### ObservationStore, ObservationStore_proof

The path names an inode; a compaction creates another and renames; a reader or
appender keeps the inode it opened. Each process holds its own mutex (`holds`),
except while the server decodes a snapshot. A line is a batch, a line of an
older schema, or `Broken`. `tail` is the unterminated end of the file, which a
write that stops half-way leaves; the next append continues it. `Collectors`
are other processes that share the file. A compaction copies the lines it retains
(`LinesAt`) before it renames.

### ProbeBlocks, Collector, Probe_proof

`Collect` and its channel, with watchers that may send any job at any time: a
job has the receive time of its session (`at`), waits in `sending` while the
channel is full, and reaches `recordBlockEvent` when `select` takes it. A tick
of the clock is the second of the ticker; `Sweep`, `EmitFails` and `Return` are
the ways a window ends. `firstValid` and `emitted` are history. The module
over-approximates the watchers, so that what holds here holds with the sessions
of `PoolSession`. `ProbeBlocks` declares the blocks that both modules name.

### Coinbase, PoolSession, MCPoolSession, Coinbase_proof, Probe_proof

`PoolSession` is what one watcher does: the handshake with its records, the
notify window that decides which jobs get through, and `watch()` with its
backoff. A job that gets through is verified, and its evidence kept as
`recordBlockEvent` keeps it (`payout`, `empty`). `Coinbase` is that evidence:
`VerifyJob` of a job, `AnalyzeCoinbaseSource` of a forwarded coinbase, and
`analyzeCoinbase` of both: the worker's and the total sats, overflow,
destinations merged by script, ordered and cut off, and the fee.
`MCPoolSession` gives the jobs for TLC. The specification is `SessionSpec`, as
`Probe_proof` EXTENDS this module and `Collector`.

### AdminCredentials, AdminSessions, AdminSessions_proof

`AdminCredentials` is a start of the server as far as the password goes: the
file, the password a start has generated, how far it is (`generated`,
`writing`, `written`, `serving`), and which passwords were logged. `Rival` is
all that another server started on the same path can do to the file, and
`Stop` is a crash at any point.

`AdminSessions` EXTENDS it with the handler. Every request has a program
counter (`req[h].at`), because `loginBlocked`, `recordLoginFailure`,
`clearLoginFailures`, the creation of a session and `session()` each take the
mutex on their own, and read the clock before. Instants are distances from the
present, so that the clock needs no bound: failures have an age, sessions the
time they have left, and a request that has read the clock a `lag`, which is
how old its time is when it gets the mutex. `MaxLag` bounds it. `ended` and
`late` are history.

### Report, Envelope, Scores, MCReport, Report_proof

`Report` is the part of `internal/report` that decides *what counts*. A record of `log` is
what is appended at once: the block sample of a probe (`Upload`; its identity is
the batch, a region and a block, and its time the first arrival, which may lie a
second ahead of the server), or the batch a local collector emits for a block
(`Emit`; identities are fresh, the vantage is whatever it was started with).
`Reconfigure` changes the endpoints that reports know. From the log, the
registry and the clock follow `prepareObservations` (retention, first record of
an identity, expansion), the `Canonical` windows, the cohorts `Excluded` because
an observer failed, the `Global` report and a `ComputeVantages(V)` for every set
of vantages. Offsets, setups and payout evidence ride on the records as `facts`,
which `Report` does not look at.

`Envelope` is what the receiver makes of a forwarded sample: whether it is
refused (`Valid`), and the record that is stored, with offsets from the earliest
arrival among all entries and the payout evidence of those that arrived.

`Scores` is `build` and `overallScore`, from the counted records to the score:
checks and deliveries by cohort, medians over vantages, percentiles, wins, the
wallet verdict and the fees of solo pools, the setups, the weights and the
penalties. `PoolReport` is all that is measured, and `build` that with its score.
Floats are integers (hundredths, rounded down); what may be nil is a
set of at most one element. `Samples` are the samples that probes may forward,
of any number and any contents a decoded envelope can have, and `Outcomes` what
`validateBlockEnvelope` makes of those it does not refuse (`OutcomesAssumption`),
so that runs and proofs go from what a probe forwards to what a report says.
`MCReport` gives the samples for TLC; that it refuses one of them is an ASSUME
that TLC evaluates there.

`buildVantageStatuses`, `availableVantages` and `hideStaleRegionalVantages` of
`internal/web` read what reports are computed from (`prepared.Observations()`);
they decide whether the page of a region is offered. What a local collector
records under a region's vantage does not keep its page there.

A regional view drops the blocks that failed in several regions, but not the
setups measured with them: setup observations carry no block
(`RegionalReport`).

A block sample names an endpoint once, so that the map `health.missed`, which
the last observation of an endpoint decides, is the set of missed endpoints; and
only remote records carry a verdict, although the earliest window of a cohort
may be a local collector's. `NoObserverOutageIsCounted` and
`PoolOutagesStayVisible` therefore speak of probes that are alone in their
cohort.

What the properties do not say, because the code does not do it: a second copy
of a batch comes up when the first one expires; and the records of a block
expire one by one at the thirty-day horizon, so that for the seconds between
them a block can fail in fewer regions than it did before.

## 3. Runs

Every run has `CHECK_DEADLOCK FALSE`: the clocks, the deliveries and the calls
are bounded, and a server to which nobody sends anything has nothing to do.

| Run | Bounds | Shows |
|---|---|---|
| `refresh` | 3 batches, 2 pages, 2 goroutines | `NoLostRequest`, `NoIdleRebuild`, `RequestedIsShown`, and that `FreshView` is implemented |
| `live` | 2 batches, 3 handlers; refreshes may fail | `OnlyStragglersAreMissing`, `LiveHandlerKeepsData`, `NextBatchBringsStragglers` |
| `registry` | 2 rosters x 2 labels, two savers and the reloader, grace 2, 4 ticks; edits, signals, failures, restarts | `CurrentIsAccepted`, `OnlyGraceIsAccepted`, `GraceUnlessRelabelled`, `LiveIsFileUnlessOvertaken` |
| `registry_rename` | 2 rosters, 2 labels, 1 saver | `GraceIsHonoured` fails (finding 1) |
| `registry_reload` | 1 saver, signals | `LiveIsFile` fails (finding 2) |
| `store` | 2 batches, one old line, 3 appends, 4 ticks, retention 1 | `AckedIsKept`, `OnlyTornIsUnreadable`, `ReadsItsSnapshot`, `CompactionIsInvisible` |
| `store_shared` | the same with a `collect` process | `AckedIsKept` fails (finding 3) |
| `service` | 3 requests with one batch, skew 1, burst of 2 tokens, 2 at a time, 1 registry change, 2 ticks; failures, restarts | `RateHolds`, `ConcurrencyHolds`, `NoPhantomClaim`, `OnceUnlessOvertaken` |
| `collector` | 2 endpoints, 2 blocks, 3 events, channel of 1, window 1, 3 ticks | `TypeOK` (with the room of the channel), `OneBatchPerBlock`, `OffsetsAreFair`, `NoJobIsLost`, `WindowsClose` (liveness) |
| `session` | 3 blocks, 3 sessions, 4 jobs each, of 4 kinds; sums up to 15, room for one destination | `RecordsTellTheSession`, `StartupIsNotMeasured`, `SatsAreConserved` |
| `admin` | 2 handlers, 1 address, 2 tokens, 2 passwords, 2 failures, window 2, lifetime 2, lag 1 | `LoggedPasswordsWork`, `FailuresAreBounded`, `EndedSessionsStayEnded`, `LockoutsEnd` (liveness) |
| `report` | 3 regions, one of which also has a local collector, 2 blocks, 4 endpoints of 3 pools (two of them solo), 2 kinds of samples, 3 records, retention 1, latency window 0, fee window 1, stale after less than a tick, 2 ticks | `RegionalAgreesWithGlobal`, `NoObserverOutageIsCounted`, `PoolOutagesStayVisible`, `BlocksAreIndependent`, `RepeatedBatchIsInvisible`; `FirstArrivalWins`, `WinsAreEligible`, `WalletOverrides`, `MissingEvidenceIsNotFailure` |

Why these bounds reach the interesting cases: three batches allow one that is
shown, one in the rebuild in progress and one that comes meanwhile; two
goroutines are one more than the scheduler ever runs; three handlers allow a
straggler of a handler that is two registries old; a grace of 2 within 4 ticks
allows a change within the grace of another and an expiry after it; three
requests of one batch are the fewest with which a claim of another can be
released (one that fails late, its retry, and the one let through after it), and
one registry change lets each of them be on either side of it; a channel of 1 is
full with the first event, and three events are two endpoints that deliver and a
late job; three sessions reach the bound of the backoff; the four kinds of jobs
are a coinbase with more destinations than are stored, one without
transactions, one whose sum overflows and one that is not sound.

Two handlers can both have passed `loginBlocked` when the limit of two failures
is reached, two tokens let one session end while another lives, and with a lag
of 1 a request acts on a time in which its session, or the window, was not over
yet; two passwords are a start's own and that of a rival. Addresses do not
interact, so that one is enough.

Three regions are two that fail and one that does not; with a miss of 60% of
four endpoints as the limit, two of three are broad and two of four are not;
three records are a block in each region, or a batch, its copy and another
block; a retention of 1 within 2 ticks lets records expire, a latency window of
0 ends before it, and a region is stale before its records are. The two samples
differ in all that scores look at: who arrived first, who was listed first, who
paid the miner, the fee, and what setups failed. With a latency window of 0 TLC
sees no more of that window than its boundary; that wins are eligible and are
first arrivals within a window of any length is for the theorems (`WinsEligible`,
`FirstArrivals`). Nor do two counted records of one block and vantage disagree
about the wallet in the run: `WalletOverridden` covers them.

Instants are whole ticks or milliseconds. The code cuts offsets to whole
microseconds, so that `OffsetsAreFair` and `FirstArrivalWins` hold of it to the
microsecond.

Symmetry is used in `MCPoolRegistry` (rosters, labels, savers),
`MCIngestService` (requests and batches) and `MCReport` (regions without a local
collector, blocks), for safety only; no definition of these modules chooses
between the elements.

### Fairness

* `DashboardRefresh`, `LiveDashboard`: weak fairness of every goroutine that
  has something to do: the Go scheduler runs it, and the coalescing sleep is
  finite. Nothing obliges anybody to send a batch or to change a registry.
* `Collector`: time passes, a send that fits in the channel is made, and
  `select`, which chooses among ready cases at random, does not ignore one of
  them for ever. Nothing obliges a pool to send a job.
* `AdminSessions`: time passes, and a request that is being served is served to
  its end. Nobody has to send one: `LockoutsEnd` is about an address that keeps
  trying, on a server that from some time on keeps running.

## 4. Proofs

TLAPS checks these for all values of the constants, under the ASSUMEs in the
modules. Most say no more than that bounds are naturals and sentinels are
distinct from data. Four say what data there is: `JobsAssumption` that a job
carries a coinbase, a list of outputs whose values fit in 64 bits
(`WorkerAssumption`: the worker's script is one like the others);
`SamplesAssumption` that a forwarded sample is a list of entries with at most
one arrival and one coinbase each and finitely many setups, which is what JSON
decodes to; `OutcomesAssumption` that records come from such samples; and
`ReportAssumption` how registries, endpoints and vantages belong together. TLC
evaluates every one of them on the instance it checks.

| Module | Theorems |
|---|---|
| `DashboardRefresh_proof` | `TypeCorrect`, `NoRequestIsLost`, `PagesAgree`, `RebuildsAreRequested`, `ImplementsFreshView` |
| `Registry_proof` | `TypeCorrect`, `CurrentAccepted`, `RostersMatch`, `GraceOnly`, `GraceKept`, `LiveFollowsFile`; `LiveTypeCorrect`, `OnlyStragglers`, `LiveKeepsData` |
| `IngestService_proof` | `LimiterTypes`, `RateLimited`, `ConcurrencyLimited`, `RefusalsAreFree`, `ImplementsReceiver`, `ReceiverTypes`, `ClaimsAreReal`, `Once` |
| `ObservationStore_proof` | `TypeCorrect`, `OnlyTorn`, `ReadsSnapshot`, `AckedStay`, `CompactionInvisible` |
| `AdminSessions_proof` | `TypeCorrect`, `LoggedWork`, `EndedStayEnded`, `FailuresBounded` |
| `Coinbase_proof` | `SumsFit` |
| `Probe_proof` | `TypeCorrect`, `OneBatch`, `FairOffsets`, `NoneLost`; `SessionTypeCorrect`, `RecordsTell`, `StartupUnmeasured`, `SatsConserved` |
| `Report_proof` | `TypeCorrect`, `RegionalAgrees`, `ObserverOutagesUncounted`, `PoolOutagesVisible`, `BlocksIndependent`, `RepeatsInvisible`; `WinsEligible`, `FirstArrivals`, `WalletOverridden`, `PercentileSorted`, `AnchorScores`, `MissingEvidence` |

How each goes:

* **DashboardRefresh.** `NoLostRequest` speaks of the system at rest, so it is
  far from inductive. The strengthening says that at most one run is under way,
  and exactly if `running`; that captured generations are never ahead of the
  counter; that a run that has read the current generation will serve, from
  what is prepared or built, every batch requested by then; and that everything
  prepared, built or published only ever contains accepted batches and never
  less than what is published. From "one run" it follows that nobody
  invalidates during a rebuild, hence all pages of a rebuild come from one
  load, which is the step simulation for FreshView: `Publish` maps to
  `Replace`, `Accept` to `Accept`, all else to stuttering.
* **LiveDashboard.** The invariant relates each handler's run, dirty flag and
  loaded set to the batches routed to it that have called `schedule()`; and
  says that handlers not yet built have no requests, so that a swap starts
  clean. A run that stops after a failed refresh owes nothing until it is asked
  again, and then starts anew from all that is on disk.
* **PoolRegistry.** The receiver always has the shape that `Build` or
  `NewReceiver` gives it for (`current`, `prior`, `priorUntil`): only the
  current and perhaps the prior revision, and an expiry for the prior only; the
  prior one is there unless the registry was relabelled since.
  What a caller wants to apply is always a registry, never `Invalid`.
  `LiveFollowsFile` speaks of the system at rest; its invariant says who is due
  while file and memory differ: with nothing astray, either a reload is to come
  or has read what the file says now, or the registry that is live once the
  holder of the mutex is done is the one in the file. That one caller at a time
  is past the mutex, and that a rewrite is of the current registry, make it
  inductive.
* **IngestService.** What the limiter in use sees of a step is a step of its own,
  a stutter, or its replacement by a new one; `RateHolds` is inductive together
  with the types, because it is stated with the credit of the moment and not
  with the stored tokens. What the receiver sees is a step of its own or a
  stutter, so that the service implements it. `NoPhantomClaim` needs that a
  delivery that has not arrived is not among the appended ones: otherwise an
  arrival could take its batch from under a claim. `Once` says who holds which
  claim (`ClaimsAreHeld`): from its claim until a restart a delivery finds its
  own claim in the guard while its stamp is good, unless the batch is among the
  overtaken ones; no request prunes it, because none has read a later time than
  the clock shows. Two deliveries cannot both hold the one claim of a batch.
* **ObservationStore.** An inode only grows (`InodesGrow`): a compaction makes a
  new one and never writes to the old. So the beginning that a snapshot measured
  is still there when it is decoded, whatever the path names by then. Lines are
  whole until a write stops half-way. Every line stored or copied was observed,
  and an observation keeps its time, so that what expired stays expired.
  `AckedStay` and `CompactionInvisible` assume that no other process uses the
  file (`Collectors = {}`; with one they fail, see 5.3). Their invariant
  (`KeptInv`) says that an append under way goes to the inode the path names,
  that the copy of a compaction holds all that counts there, and that either
  a line is unreadable, which no compaction then gets past, or every
  acknowledged batch that counts is there.
* **AdminSessions.** `LoggedWork`: only a file that this start has created
  itself is written, and only what was written is logged. `EndedStayEnded`: the
  time an ended session has left is at most zero, and at most minus the lag of
  any request that arrived before its end, or it is no longer in the map; hence
  a request that arrives later finds it pruned by its own, younger time, and
  tokens are never drawn again. `FailuresBounded` counts, for each address, the
  handlers that may still record a failure in the window although it is full:
  with the failures recorded they stay below the limit plus the number of
  handlers, because asking in a full window is refused unless the window ends,
  which starts the count again.
* **Collector.** All three properties rest on one invariant about the first
  valid job of an endpoint for a block: every valid job that waits is no older,
  and as long as the block is not completed the first one is either the recorded
  arrival or waits *ahead* of the others (`InTurn`, `Kept`). So the arrival is
  the first valid job whatever order endpoints get theirs through in
  (`ArrivalsAreFirst`), and a batch compares first valid jobs, which never
  change (`FairBatch`).
* **Sums and induction.** Evidence and scores are sums over finite sets
  (`MapThenSumSet`, which chooses a recursive function). The library's induction
  theorems have an operator for a parameter, which the provers cannot
  instantiate; `SetInduction` therefore has the *set* of the subsets a claim
  holds of, and the recursive function is any one that satisfies its equations
  (`AreSums`). From it follow that such a function exists and is independent of
  the order of summation (`SumsExist`, `SumsRemove`), that `Total` of a set is
  that of its parts (`TotalUnion`, `TotalOfParts`), and that finite sets of
  integers have a minimum and a maximum.
* **Coinbase.** The outputs with a value are the worker's and, for each other
  script, those of its destination: disjoint parts, whose totals add up
  (`DestinationsAreWorth`, `TotalIsShared`). Scripts order the destinations
  strictly, so that as many as there is room for precede all others and are
  stored (`StoredFillsRoom`). `AnalysisConserves` is this together: total =
  worker + stored + omitted. `SumsFit` adds that with a total below 2^64 no
  partial sum wraps: the checks for it in the code cannot fail.
* **PoolSession.** The stage of a watcher tells how many records there are
  (`StageRecorded`), and those are the steps in order (`HandshakeRecorded`); the
  window lets jobs through only if the session has seen the pool move
  (`WindowFollows`); evidence that is kept is that of a job (`EvidenceIsRead`),
  for which `AnalysisConserves` speaks.
* **Report.** The properties are of a state, and the types are invariant enough:
  the argument is about the pipeline. Whether a record is canonical, and whether
  a cohort is broad, depends on the records of that cohort alone; so a selection
  that takes cohorts whole reaches the same verdicts for them. The blocks that
  failed in several regions are decided on all records before the selection
  removes them; what a view has left of the other blocks contains at most one
  unhealthy cohort each, so the view finds no further failure, and the cohorts
  it excludes itself and those restored to its count are disjoint and together
  the globally excluded ones of its vantages, which makes the sum right. Each
  probe's cohort in a view is either gone or whole, hence no broad miss is
  counted and every other miss is.
  `RepeatsInvisible` needs that the first retained record of an identity stays
  the first when another is appended; the statuses and the pages offered follow,
  as they are computed from the same records. `WinsEligible`: a win is a delivery, a recent delivery is a
  recent check, and there are finitely many, by cohort as by block.
* **Scores.** Here the types are not enough. The invariant is `Heard`: every
  line of the log is what `validateBlockEnvelope` derives from a valid sample
  (`Sound`: each endpoint is named once, offsets count from the first arrival,
  a payout has a fee at most), and only a collector's vantage has local lines.
  `FirstArrivals`: the offset of an arrival is zero exactly if nobody was
  earlier, and at a vantage without a collector every cohort has one delivery,
  so that first arrivals and cohorts with offset zero correspond one to one.
  `WalletOverridden`: the counted records of a block at a vantage are of one time
  and finitely many, so that one of them is the latest and is evidence
  (`LatestCounted`); if none of them paid the miner, the verdict overrides. It is
  the global one in every view, and overriding depends on nothing else
  (`ScoreOfRest`: the score is a function of the other fields, so that scoring again after taking over the evidence is
  scoring once with it). `MissingEvidence`: what is measured is a nonempty
  finite set of integers; a mean with positive weights lies between its least
  and its greatest, whichever weights are there (`WeightedWithin`); subtracting
  and clamping keep the order. `AnchorScores` is what makes the parts scores:
  interpolation between two anchors stays between their scores (`Share`,
  `Interpolated`), for all four tables and any value. `PercentileSorted`: the
  model chooses a percentile by counting samples, the code by its index in the
  sorted slice; for any sorting of the samples the two are equal.

  The proof asked for one correction of the model: the arms of the CASE in
  `overallScore` and in `workerAddressStatus` overlapped, and CASE does not say
  which of two true arms is taken, while TLC takes the first, as the code's
  order of conditions does. The arms now exclude each other.

The type theorems, `PagesAgree`, `RefusalsAreFree`, `RostersMatch`,
`ImplementsReceiver`, `SumsFit`, `PercentileSorted` and `AnchorScores` prove
formulas that no run checks, but for `TypeCorrect` of `Probe_proof`. Every
invariant and every action property of the passing runs is stated by a theorem.

What stays with TLC: the four liveness properties `RequestedIsShown`,
`NextBatchBringsStragglers`, `WindowsClose` and `LockoutsEnd`. They hold under
weak fairness only, which is about ENABLED, and TLAPS proves neither.

## 5. Findings

1. **A rename ends the grace early** (`registry_rename`). Saving a change that
   keeps the revision builds a receiver without the previous revision, though
   its hour is not over. `GraceUnlessRelabelled` shows that nothing else does.
2. **A reload undoes a save** (`registry_reload`). `reload()` reads the file
   before it takes the mutex; a save applied in between is replaced in memory
   by the older file, and stays in the file. `LiveIsFileUnlessOvertaken` shows
   that this is the only order of edits, signals and saves that ends so.
3. **A compaction drops what `collect` appends** (`store_shared`). The mutex is
   one process's; a line appended by another between scan and rename is lost. In
   TLC's trace the file is readable throughout, and the line is within its
   retention and acknowledged when the rename drops it.

Two limits of the code are the exceptions in properties that hold:

* *Stragglers* (`OnlyStragglersAreMissing`): a request refreshes the handler it
  was routed to. If a registry is swapped in meanwhile, the old handler rebuilds
  pages nobody reads, and the live ones lack the batch until the next one is
  accepted (`NextBatchBringsStragglers`). A failed refresh is not retried either:
  the pages lack what it was to bring until the next request.
* *Overtaken claims* (`OnceUnlessOvertaken`): `release()` deletes a claim by its
  key. A delivery that fails after its own claim has run out releases that of
  the retry let through meanwhile, and the batch can be appended once more
  while its stamp is good; reports count it once, by its `ObservationID`.

## 6. Not modelled, and why

* **Bytes of a coinbase.** The walk over lengths and counts, the block height
  and the names of scripts and addresses (`coinbase.go`, `identity.go`): a
  coinbase is whole or not, and a job sound or not, wherever that matters.
* **Message framing, TLS and TCP.** A step of a session succeeds, fails, times
  out or is rejected.
* **Signatures, and JSON** (`internal/model`). What is not signed by a known key
  or does not decode is one of the refusals; a registry that does not decode is
  `Invalid`.
* **The height of a block** (`mostObservedHeight`, `LatestBlockHeight`): it is
  stored and displayed, and decides nothing.
* **Flat remote records** from before block samples, which count only with their
  terminal record (`completedScheduledRuns`): an envelope carries one block
  sample (`validateBlockEnvelope`), so that the receiver no longer stores any.
* **Evidence of empty templates** is in `PoolSession` (`empty`) without a
  property: reports do not read it. A job without transactions marks its block
  even after one with transactions, so that the flag does not mean "the first
  job".
* **The age of pages.** Pages are rebuilt when a batch is accepted and not as
  time passes, so that there is no bound on it that a property could state; the
  reports of `Report` and `Scores` are those of the moment they are computed in.
* **Floats.** Scores are compared in hundredths, rounded down; properties
  about them leave room for it.
* **Response headers, page layout, wording, demo data, flags.** They hold no
  state that the other parts read.
* **More than one server on a path.** `collect` may share the file
  (`store_shared`) and a rival may create `admin.json`; two servers that append
  and compact the same file are not modelled, as the code does not provide for
  them.

## 7. What could be added

* A theorem that `LiveDashboard`, for each of its handlers, behaves like the
  `DashboardRefresh` whose rebuild it abstracts.
