------------------------------- MODULE Scores -------------------------------
(***************************************************************************)
(* What a report says of an endpoint (build and overallScore in            *)
(* internal/report), computed from the records that Report counts and the  *)
(* facts that ride on them.  Milliseconds and clock units are integers;    *)
(* percentages, fees and scores are in hundredths, rounded down where the  *)
(* code has floats.  A value that may be nil is a set of at most one.      *)
(***************************************************************************)
EXTENDS Report, Envelope, FiniteSetsExt, Functions

CONSTANTS
  Samples,           \* the block samples probes may forward: [targets, entries]
  Solo,              \* the endpoints of pools of the category "solo"
  LatencyWindow,     \* LatencyWindow, in units of the clock
  FeeIncreaseWindow  \* ScoreFeeIncreaseWindow, in the same units

ASSUME WindowsAssumption == LatencyWindow \in Nat /\ FeeIncreaseWindow \in Nat \ {0}
ASSUME SamplesAssumption ==
  \A s \in Samples :
    /\ s.targets \subseteq Endpoints
    /\ s.entries \in Seq([endpoint : Endpoints, received : SUBSET Nat, setup : SUBSET Timings,
                          coinbase : SUBSET [sound : BOOLEAN, coinbase : Coinbases]])
    /\ \A i \in DOMAIN s.entries :
         /\ \A t, u \in s.entries[i].received : t = u
         /\ \A c, d \in s.entries[i].coinbase : c = d
         /\ IsFiniteSet(s.entries[i].setup)

\* What a record says is what the receiver makes of a sample it does not refuse.
ASSUME OutcomesAssumption ==
  Outcomes = {validateBlockEnvelope(s.entries, s.targets) :
                s \in {x \in Samples : Valid(x.entries, x.targets)}}

Percent(part, whole) == (10000 * part) \div whole
Clamp(value, low, high) == Max({low, Min({value, high})})

OrZero(values) == IF values = {} THEN 0 ELSE Min(values)

(* The least value that p per cent of the samples do not exceed.           *)
percentile(samples, p) ==
  Min({v \in Range(samples) :
         100 * Cardinality({k \in DOMAIN samples : samples[k] <= v})
           >= p * Cardinality(DOMAIN samples)})

withinLatencyWindow(t) == t <= now /\ now <= t + LatencyWindow

(* The place of a record in the prepared slice, which breaks ties.         *)
Order(o) == Min({i \in retained : log[i] = o})
Later(o, p) == o.at > p.at \/ (o.at = p.at /\ Order(o) > Order(p))

-----------------------------------------------------------------------------
(* What a record says of an endpoint: an offset, a payout, setups.         *)
Fact(o, e, field) == UNION {s[field] : s \in {t \in o.facts : t.endpoint = e}}
Offset(o, e) == Min(Fact(o, e, "offset"))

(* The accumulator of an endpoint: its checks, the offsets of its          *)
(* deliveries and its coinbases, each by cohort.                           *)
Checks(counted, e) == {Cohort(o) : o \in {p \in counted : e \in Known(p)}}

Deliveries(counted, e) ==
  {o \in counted : e \in Known(o) \cap o.arrived /\ Offset(o, e) >= 0}

Recent(counted) == {o \in counted : withinLatencyWindow(o.at)}

Offsets(deliveries, e) ==
  [k \in {Cohort(o) : o \in deliveries} |->
     Min({Offset(o, e) : o \in {p \in deliveries : Cohort(p) = k}})]

medianLatencyByBlock(offsets) ==
  [b \in {k[2] : k \in DOMAIN offsets} |->
     percentile([k \in {j \in DOMAIN offsets : j[2] = b} |-> offsets[k]], 50)]

(* The records whose coinbase is the endpoint's evidence for their cohort. *)
Evidence(counted, e) ==
  LET analyzed == {o \in counted : e \in Known(o) /\ Fact(o, e, "payout") # {}}
  IN  {o \in analyzed : \A p \in analyzed : Cohort(p) = Cohort(o) => ~Later(p, o)}

availabilityForChecks(checks, delivered) ==
  IF checks = {} THEN 0 ELSE Percent(Cardinality(delivered), Cardinality(checks))

combinedVantageAvailability(checks, delivered) ==
  LET measured == {k[1] : k \in checks}
      OfVantage(keys, v) == {k \in keys : k[1] = v}
  IN  IF measured = {} THEN 0
      ELSE MapThenSumSet(
             LAMBDA v : availabilityForChecks(OfVantage(checks, v), OfVantage(delivered, v)),
             measured) \div Cardinality(measured)

\* Mutant of recentWinEligibleBlocks: a check as old as the window is not counted.
winEligibleStrictly(counted, e, combine) ==
  LET recent == Checks({o \in counted : now < o.at + LatencyWindow}, e)
  IN  Cardinality(IF combine THEN {k[2] : k \in recent} ELSE recent)

recentWinEligibleBlocks(counted, e, combine) ==
  LET recent == Checks(Recent(counted), e)
  IN  Cardinality(IF combine THEN {k[2] : k \in recent} ELSE recent)

(* Fees of a solo pool's coinbases, oldest first: how many there are, the  *)
(* changes between one and the next, the last two values, the last change. *)
Fees(evidence, e) ==
  LET paid    == {o \in evidence : e \in Solo /\ \E c \in Fact(o, e, "payout") : c.fee # {}}
      Fee(o)  == Min(UNION {c.fee : c \in Fact(o, e, "payout")})
      Last(R) == {o \in R : \A p \in R : ~Later(p, o)}
      Preceding(o) == Last({p \in paid : Later(o, p)})
      changed == {o \in paid : \E p \in Preceding(o) : Fee(p) # Fee(o)}
  IN
  [samples  |-> Cardinality(paid),
   changes  |-> Cardinality(changed),
   latest   |-> {Fee(o) : o \in Last(paid)},
   previous |-> {Fee(p) : p \in UNION {Preceding(o) : o \in Last(changed)}},
   since    |-> {o.at : o \in Last(changed)}]

workerAddressStatus(evidence, e) ==
  LET matches == {o \in evidence : \A c \in Fact(o, e, "payout") : c.seen}
  IN  CASE evidence = {}                    -> "unknown"
        [] matches = evidence /\ matches # {} -> "always_observed"
        [] matches = {} /\ evidence # {}      -> "not_observed"
        [] OTHER                            -> "varied"

(* Setups are counted whatever becomes of the block sample they came with. *)
Setups(obs, e) ==
  UNION {{<<o, s>> : s \in {t \in Fact(o, e, "setup") : withinLatencyWindow(o.at - t.ago)}} :
           o \in {p \in obs : e \in Known(p)}}

OfMethod(setups, method, status) ==
  {x \in setups : x[2].method = method /\ x[2].status = status}

timingMedian(setups, method) ==
  LET ok == OfMethod(setups, method, "ok")
  IN  IF ok = {} THEN {} ELSE {percentile([x \in ok |-> x[2].ms], 50)}

estimatedMiningLoss(latency, availability) ==
  (10000 - availability) + (availability * latency) \div 600000

-----------------------------------------------------------------------------
(* overallScore.  Anchors are a value and its score.                       *)
miningLossScoreAnchors ==
  << <<0, 10000>>, <<10, 10000>>, <<25, 9000>>, <<50, 7500>>, <<100, 5000>>, <<250, 1000>>, <<500, 0>> >>
p95ScoreAnchors ==
  << <<0, 10000>>, <<250, 10000>>, <<500, 9000>>, <<1000, 7500>>, <<2000, 5000>>, <<5000, 1000>>, <<10000, 0>> >>
availabilityScoreAnchors ==
  << <<0, 0>>, <<9000, 0>>, <<9500, 2000>>, <<9800, 6000>>, <<9900, 8000>>, <<9950, 9000>>, <<10000, 10000>> >>
responsivenessScoreAnchors ==
  << <<0, 10000>>, <<100, 9500>>, <<250, 8000>>, <<500, 6000>>, <<1000, 3000>>, <<2500, 0>> >>

scoreFromAnchors(value, anchors) ==
  LET reached == {i \in DOMAIN anchors : value <= anchors[i][1]}
      upper   == anchors[Min(reached)]
      lower   == anchors[Min(reached) - 1]
  IN  CASE reached = {}      -> anchors[Len(anchors)][2]
        [] 1 \in reached     -> anchors[1][2]
        [] OTHER             -> lower[2] + ((value - lower[1]) * (upper[2] - lower[2]))
                                             \div (upper[1] - lower[1])

(* The mean over the methods that succeeded at least once.                 *)
responsivenessScore(timings) ==
  LET timed == {m \in Methods : timings[m] # {}}
  IN  IF timed = {} THEN {}
      ELSE {MapThenSumSet(LAMBDA m : scoreFromAnchors(Min(timings[m]), responsivenessScoreAnchors),
                          timed) \div Cardinality(timed)}

feeStability(e, fees) ==
  IF e \in Solo /\ fees.samples >= 2
  THEN {10000 - Percent(fees.changes, fees.samples - 1)}
  ELSE {}

highPoolFeePenalty(fees) ==
  IF fees.latest = {} THEN 0 ELSE Clamp(((Min(fees.latest) - 250) * 5) \div 2, 0, 1000)

recentFeeIncreasePenalty(fees) ==
  LET increased == fees.latest # {} /\ fees.previous # {} /\ Min(fees.latest) > Min(fees.previous)
      age       == now - Min(fees.since)
  IN  IF increased /\ age < FeeIncreaseWindow
      THEN (1500 * (FeeIncreaseWindow - age)) \div FeeIncreaseWindow
      ELSE 0

walletOverride(e, r) == e \in Solo /\ r.worker \in {"not_observed", "varied"}

(* The scores of what is always measured, and of what may not be.          *)
coreScores(r) ==
  <<scoreFromAnchors(estimatedMiningLoss(Min(r.median), r.availability), miningLossScoreAnchors),
    scoreFromAnchors(Min(r.p95), p95ScoreAnchors),
    scoreFromAnchors(r.availability, availabilityScoreAnchors)>>

optionalScores(e, r) == <<responsivenessScore(r.timings), feeStability(e, r.fees)>>

\* Mutant of weightedScore: what was not measured keeps its weight.
WeightedOverAll(core, optional) ==
  (25 * core[1] + 20 * core[2] + 40 * core[3]
     + 10 * OrZero(optional[1]) + 5 * OrZero(optional[2])) \div 100

weightedScore(core, optional) ==
  (25 * core[1] + 20 * core[2] + 40 * core[3]
     + 10 * OrZero(optional[1]) + 5 * OrZero(optional[2]))
    \div (85 + 10 * Cardinality(optional[1]) + 5 * Cardinality(optional[2]))

penalties(r) ==
  recentFeeIncreasePenalty(r.fees) + highPoolFeePenalty(r.fees)
    + (IF r.certificates > 0 THEN 1000 ELSE 0)

overallScore(e, r) ==
  CASE walletOverride(e, r) -> {0}
    [] ~walletOverride(e, r) /\ (r.median = {} \/ r.blocks = 0) -> {}
    [] OTHER -> {Clamp(weightedScore(coreScores(r), optionalScores(e, r)) - penalties(r), 0, 10000)}

applyOverallScore(e, r) == [r EXCEPT !.score = overallScore(e, r)]

-----------------------------------------------------------------------------
(* The latencies a report is built from: one for each recent delivery, or  *)
(* for each block a median over the vantages.                              *)
latencySamples(counted, e, combine) ==
  LET recent == Offsets(Deliveries(Recent(counted), e), e)
  IN  IF combine THEN medianLatencyByBlock(recent) ELSE recent

Wins(latency) == Cardinality({k \in DOMAIN latency : latency[k] = 0})

(* What is measured of an endpoint; its score comes last.                  *)
PoolReport(obs, counted, e, combine) ==
  LET checks   == Checks(counted, e)
      offsets  == Offsets(Deliveries(counted, e), e)
      latency  == latencySamples(counted, e, combine)
      evidence == Evidence(counted, e)
      setups   == Setups(obs, e)
      At(p)    == IF DOMAIN latency = {} THEN {} ELSE {percentile(latency, p)}
  IN
  [blocks       |-> Cardinality(IF combine THEN {k[2] : k \in checks} ELSE checks),
   wins         |-> Wins(latency),
   winEligible  |-> recentWinEligibleBlocks(counted, e, combine),
   median       |-> At(50),
   p95          |-> At(95),
   availability |-> IF combine THEN combinedVantageAvailability(checks, DOMAIN offsets)
                    ELSE availabilityForChecks(checks, DOMAIN offsets),
   timings      |-> [m \in Methods |-> timingMedian(setups, m)],
   certificates |-> Cardinality(OfMethod(setups, "tls_handshake", "certificate_invalid")),
   worker       |-> workerAddressStatus(evidence, e),
   fees         |-> Fees(evidence, e),
   score        |-> {}]

build(obs, counted, e, combine) == applyOverallScore(e, PoolReport(obs, counted, e, combine))

GlobalReport(e) == build(prepareObservations, Global.counted, e, FALSE)

\* Mutant of WithEvidence: the score is left as it was computed.
WithoutRescoring(e, regional, global) ==
  [regional EXCEPT !.worker = global.worker, !.fees = global.fees]

WithEvidence(e, regional, global) ==
  applyOverallScore(e, [regional EXCEPT !.worker = global.worker, !.fees = global.fees])

(* The report of a selection of vantages: where payouts go, and the fees,  *)
(* are the global evidence.  Setups are of no block, so that they stay     *)
(* when the blocks that failed are removed.                                *)
RegionalReport(V, e, global) ==
  WithEvidence(e, build({o \in prepareObservations : o.vantage \in V},
                        ComputeVantages(V).counted, e, Cardinality(V) > 1),
               global)

-----------------------------------------------------------------------------
(* A win is an arrival no other endpoint preceded at the same probe, for   *)
(* the same block: an endpoint has won as many of the recent blocks a      *)
(* region counts as history says, the history of endpoints that are no     *)
(* longer configured included.  (Arrivals are whole milliseconds here; the *)
(* code cuts offsets to whole microseconds, so that arrivals less than one *)
(* apart share a win.)                                                     *)
FirstArrivalWins ==
  LET recent == Recent(Global.counted)
  IN  \A v \in Regions \ Collectors :
        LET counted == ComputeVantages({v}).counted
        IN  \A e \in pools :
              Wins(latencySamples(counted, e, FALSE)) = Cardinality({o \in recent :
                /\ o.vantage = v /\ e \in Known(o) \cap o.arrived
                /\ \A t \in UNION {f.received : f \in o.facts} : Min(Fact(o, e, "received")) <= t})

(* Neither in the view of a vantage nor in a combined one has an endpoint  *)
(* won more blocks than it was eligible to win.                            *)
Views == {{v} : v \in Vantages} \cup {Vantages}

WinsAreEligible ==
  \A V \in Views :
    LET counted == ComputeVantages(V).counted
        combine == Cardinality(V) > 1
    IN  \A e \in pools :
          Wins(latencySamples(counted, e, combine))
            <= recentWinEligibleBlocks(counted, e, combine)

(* A solo pool scores zero everywhere, in the views of regions that never  *)
(* saw it do so too, if for some block at some vantage it only sent work   *)
(* without the miner's wallet; and one that always paid the miner is not   *)
(* overridden anywhere.  Where the counted records of a block and vantage  *)
(* disagree, the later of them is the evidence and decides.                *)
WalletOverrides ==
  LET counted == Global.counted IN
  \A e \in pools \cap Solo :
    LET global == GlobalReport(e)
        shown  == {o \in counted : Fact(o, e, "payout") # {}}
        robbed == {o \in shown : \E c \in Fact(o, e, "payout") : ~c.seen}
        undisputed == {o \in shown : \A p \in shown : Cohort(p) = Cohort(o) => p \in robbed}
    IN  \A view \in {global} \cup {RegionalReport(V, e, global) : V \in Views} :
          /\ undisputed # {} => view.score = {0}
          /\ robbed = {} => ~walletOverride(e, view)

(* What was not measured is not scored as a failure: before the penalties  *)
(* no endpoint that is not overridden scores less than the worst of what   *)
(* was measured of it, or more than the best.                              *)
MissingEvidenceIsNotFailure ==
  \A e \in pools :
    LET r        == GlobalReport(e)
        measured == Range(coreScores(r)) \cup UNION Range(optionalScores(e, r))
    IN  r.median # {} /\ ~walletOverride(e, r) =>
          \A s \in r.score :
            /\ s >= Clamp(Min(measured) - penalties(r), 0, 10000)
            /\ s <= Clamp(Max(measured) - penalties(r), 0, 10000)
=============================================================================
