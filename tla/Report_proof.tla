----------------------------- MODULE Report_proof -----------------------------
(***************************************************************************)
(* Proofs about Report and Scores, for any regions, collectors, rosters,   *)
(* thresholds, block samples, windows and length of the log.               *)
(*                                                                         *)
(* Everything rests on one fact: a verdict is reached cohort by cohort,    *)
(* so that a selection which keeps cohorts whole reaches the same ones.    *)
(* Proofs about Scores rest on a second one: whatever is in the log was    *)
(* derived from a valid block sample (Heard).                              *)
(***************************************************************************)
EXTENDS Scores, Coinbase_proof, FiniteSetTheorems, TLAPS

(* Names for what computePrepared works with: the records of cohorts that  *)
(* are not excluded, and those of them that are scored.                    *)
Accepted(obs) ==
  LET excluded == Excluded(obs) IN {o \in obs : Cohort(o) \notin excluded}
Counted(obs) == {o \in Accepted(obs) : Canonical(obs, o)}

(* A record that is appended is well-formed.                               *)
LEMMA RecordType ==
  ASSUME NEW v \in Vantages, NEW b \in Blocks, NEW t \in Nat, NEW o \in Outcomes,
         NEW id \in Identities, NEW source \in {Remote, Local}
  PROVE  Record(id, source, v, b, t, o) \in Records
  BY ReportAssumption DEF Record, Records

(* The log holds well-formed records: an append is the only change of it.  *)
THEOREM TypeCorrect == Spec => []TypeOK
<1>1. Init => TypeOK
  BY ReportAssumption DEF Init, TypeOK
<1>2. TypeOK /\ [Next]_vars => TypeOK'
  <2> SUFFICES ASSUME TypeOK, [Next]_vars PROVE TypeOK'
    OBVIOUS
  <2>1. ASSUME NEW r \in Records, Len(log) < MaxLog, log' = Append(log, r),
               r.source = Remote => r.id = Cohort(r), UNCHANGED <<pools, now>>
        PROVE  TypeOK'
    <3>1. log' \in Seq(Records) /\ Len(log') = Len(log) + 1 /\ Len(log) \in Nat
      BY <2>1 DEF TypeOK
    <3>2. Len(log') <= MaxLog
      BY <2>1, <3>1, ReportAssumption
    <3>3. ASSUME NEW i \in DOMAIN log', log'[i].source = Remote
          PROVE  log'[i].id = Cohort(log'[i])
      <4>1. CASE i \in DOMAIN log
        BY <4>1, <3>3, <2>1 DEF TypeOK
      <4>2. CASE i \notin DOMAIN log
        <5>1. log'[i] = r
          BY <4>2, <2>1, <3>1 DEF TypeOK
        <5> QED BY <5>1, <3>3, <2>1
      <4> QED BY <4>1, <4>2
    <3> QED
      BY <2>1, <3>1, <3>2, <3>3 DEF TypeOK, Cohort
  <2>2. ASSUME NEW b \in Blocks, NEW t \in Instants, NEW o \in Outcomes,
               NEW v \in Regions, Upload(v, b, t, o)
        PROVE  TypeOK'
    <3> DEFINE r == Record(<<v, b>>, Remote, v, b, t, o)
    <3>1. r \in Records
      BY RecordType, ReportAssumption DEF Identities, Vantages, Instants
    <3>2. r.id = Cohort(r)
      BY DEF Record, Cohort
    <3> QED BY <2>1, <2>2, <3>1, <3>2 DEF Upload
  <2>3. ASSUME NEW b \in Blocks, NEW t \in Instants, NEW o \in Outcomes,
               NEW v \in Collectors, Emit(v, b, t, o)
        PROVE  TypeOK'
    <3> DEFINE r == Record(<<Local, Len(log)>>, Local, v, b, t, o)
    <3>1. r \in Records
      <4>1. <<Local, Len(log)>> \in Identities
        BY DEF Identities, TypeOK
      <4> QED BY <4>1, RecordType, ReportAssumption DEF Vantages, Instants
    <3>2. r.source # Remote
      BY DEF Record, Local, Remote
    <3> QED BY <2>1, <2>3, <3>1, <3>2 DEF Emit
  <2>4. ASSUME NEW r \in Rosters, Reconfigure(r) PROVE TypeOK'
    BY <2>4 DEF Reconfigure, TypeOK, Cohort
  <2>5. CASE Advance
    BY <2>5, ReportAssumption DEF Advance, TypeOK, Cohort
  <2>6. CASE UNCHANGED vars
    BY <2>6 DEF vars, TypeOK, Cohort
  <2> QED BY <2>2, <2>3, <2>4, <2>5, <2>6 DEF Next
<1> QED BY <1>1, <1>2, PTL DEF Spec

(* What reports are computed from: finitely many well-formed records, of   *)
(* finitely many cohorts.                                                  *)
LEMMA PreparedType ==
  ASSUME TypeOK
  PROVE  prepareObservations \subseteq Records /\ IsFiniteSet(prepareObservations)
<1> DEFINE kept == {j \in retained : FirstOfIdentity(retained, j)}
           f    == [i \in kept |-> log[i]]
<1>1. log \in Seq(Records) /\ DOMAIN log = 1 .. Len(log) /\ Len(log) \in Nat
  BY DEF TypeOK
<1>2. IsFiniteSet(1 .. Len(log))
  BY <1>1, FS_Interval
<1>3. IsFiniteSet(kept)
  BY <1>1, <1>2, FS_Subset DEF retained, loaded
<1>4. f \in Surjection(kept, prepareObservations)
  BY DEF Surjection, prepareObservations, uniqueObservations
<1>5. IsFiniteSet(prepareObservations)
  BY <1>3, <1>4, FS_Surjection
<1>6. prepareObservations \subseteq Records
  <2>1. \A i \in DOMAIN log : log[i] \in Records
    BY <1>1
  <2>2. retained \subseteq DOMAIN log
    BY DEF retained, loaded
  <2> QED BY <2>1, <2>2 DEF prepareObservations, uniqueObservations
<1> QED BY <1>5, <1>6

LEMMA ExcludedFinite ==
  ASSUME NEW obs, IsFiniteSet(obs)
  PROVE  IsFiniteSet(Excluded(obs))
<1> DEFINE cohorts == {Cohort(o) : o \in obs}
           f == [o \in obs |-> Cohort(o)]
<1>1. f \in Surjection(obs, cohorts)
  BY DEF Surjection
<1>2. IsFiniteSet(cohorts)
  BY <1>1, FS_Surjection
<1>3. Excluded(obs) \subseteq cohorts
  BY DEF Excluded, expandMultiRegionObserverFailures, unhealthyRegionalCohorts
<1> QED BY <1>2, <1>3, FS_Subset

-----------------------------------------------------------------------------
(* A selection that keeps cohorts whole.                                   *)
Whole(sel, obs) ==
  /\ sel \subseteq obs
  /\ \A o \in sel, p \in obs : Cohort(p) = Cohort(o) => p \in sel

(* It has the same canonical windows, and the same cohorts are unhealthy.  *)
LEMMA SameWindows ==
  ASSUME NEW obs, NEW sel, Whole(sel, obs), NEW o \in sel
  PROVE  Canonical(sel, o) <=> Canonical(obs, o)
  BY DEF Whole, Canonical

LEMMA SameHealth ==
  ASSUME NEW obs, NEW sel, Whole(sel, obs), NEW k
  PROVE  k \in unhealthyRegionalCohorts(sel) <=>
           k \in unhealthyRegionalCohorts(obs) /\ k \in {Cohort(o) : o \in sel}
<1>1. ASSUME k \in unhealthyRegionalCohorts(sel)
      PROVE  k \in unhealthyRegionalCohorts(obs) /\ k \in {Cohort(o) : o \in sel}
  BY <1>1, SameWindows DEF unhealthyRegionalCohorts, Whole
<1>2. ASSUME k \in unhealthyRegionalCohorts(obs), NEW p \in sel, k = Cohort(p)
      PROVE  k \in unhealthyRegionalCohorts(sel)
  <2>1. PICK o \in obs : /\ o.source = Remote /\ Canonical(obs, o) /\ Broad(o)
                         /\ k = Cohort(o)
    BY <1>2 DEF unhealthyRegionalCohorts
  <2>2. o \in sel
    BY <1>2, <2>1 DEF Whole
  <2> QED BY <2>1, <2>2, SameWindows DEF unhealthyRegionalCohorts
<1> QED BY <1>1, <1>2

(* Which cohorts of a block are excluded, in terms of the unhealthy ones.  *)
LEMMA ExcludedCohort ==
  ASSUME NEW obs, NEW k
  PROVE  k \in Excluded(obs) <=>
           \/ k \in unhealthyRegionalCohorts(obs)
           \/ \E o \in obs : k = Cohort(o) /\ o.block \in failedBlocks(obs)
  BY DEF Excluded, expandMultiRegionObserverFailures, failedBlocks

(* What a report counts is determined by the counted records.              *)
LEMMA CountedSample ==
  ASSUME NEW obs, NEW s
  PROVE  /\ s \in computePrepared(obs).samples <=>
              \E o \in Counted(obs) : \E x \in Known(o) : s = <<x, Cohort(o)>>
         /\ s \in computePrepared(obs).deliveries <=>
              \E o \in Counted(obs) : \E x \in Known(o) \cap o.arrived : s = <<x, Cohort(o)>>
<1>1. /\ computePrepared(obs).samples =
           UNION {Known(o) \X {Cohort(o)} : o \in Counted(obs)}
      /\ computePrepared(obs).deliveries =
           UNION {(Known(o) \cap o.arrived) \X {Cohort(o)} : o \in Counted(obs)}
  BY DEF computePrepared, Counted, Accepted
<1>2. \A S, c : s \in S \X {c} <=> \E x \in S : s = <<x, c>>
  OBVIOUS
<1>3. s \in computePrepared(obs).samples <=>
        \E o \in Counted(obs) : s \in Known(o) \X {Cohort(o)}
  BY <1>1
<1>4. s \in computePrepared(obs).deliveries <=>
        \E o \in Counted(obs) : s \in (Known(o) \cap o.arrived) \X {Cohort(o)}
  BY <1>1
<1> QED BY <1>2, <1>3, <1>4

-----------------------------------------------------------------------------
(* The regional selection.  No block that failed is in it, so nothing in   *)
(* it fails in several regions, and it excludes just what the global       *)
(* report excludes of these vantages and of the blocks that are left.      *)
LEMMA SelectionIsWhole ==
  ASSUME NEW obs, NEW V
  PROVE  Whole(Selected(obs, V), obs)
  BY DEF Whole, Selected, Cohort

LEMMA SelectionFailsNowhere ==
  ASSUME NEW obs \in SUBSET Records, NEW V
  PROVE  failedBlocks(Selected(obs, V)) = {}
<1> SUFFICES ASSUME NEW b \in failedBlocks(Selected(obs, V)) PROVE FALSE
  OBVIOUS
<1> DEFINE sel == Selected(obs, V)
<1>1. PICK v \in Vantages, w \in Vantages :
        /\ v # w /\ b \in Blocks
        /\ <<v, b>> \in unhealthyRegionalCohorts(sel)
        /\ <<w, b>> \in unhealthyRegionalCohorts(sel)
  BY DEF failedBlocks, multiRegionFailedBlocks
<1>2. /\ <<v, b>> \in unhealthyRegionalCohorts(obs)
      /\ <<w, b>> \in unhealthyRegionalCohorts(obs)
      /\ <<v, b>> \in {Cohort(o) : o \in sel}
  BY <1>1, SelectionIsWhole, SameHealth
<1>3. b \in failedBlocks(obs)
  BY <1>1, <1>2 DEF failedBlocks, multiRegionFailedBlocks
<1>4. b \notin failedBlocks(obs)
  BY <1>2 DEF Selected, Cohort
<1> QED BY <1>3, <1>4

LEMMA SelectionExcludes ==
  ASSUME NEW obs \in SUBSET Records, NEW V, NEW k
  PROVE  k \in Excluded(Selected(obs, V)) <=>
           k \in Excluded(obs) /\ k[1] \in V /\ k[2] \notin failedBlocks(obs)
<1> DEFINE sel == Selected(obs, V)
<1>1. k \in Excluded(sel) <=> k \in unhealthyRegionalCohorts(sel)
  BY SelectionFailsNowhere, ExcludedCohort
<1>2. k \in unhealthyRegionalCohorts(sel) <=>
        k \in unhealthyRegionalCohorts(obs) /\ k \in {Cohort(o) : o \in sel}
  BY SelectionIsWhole, SameHealth
<1>3. k \in {Cohort(o) : o \in sel} =>
        k[1] \in V /\ k[2] \notin failedBlocks(obs)
  BY DEF Selected, Cohort
<1>4. ASSUME k \in Excluded(obs), k[1] \in V, k[2] \notin failedBlocks(obs)
      PROVE  k \in unhealthyRegionalCohorts(obs) /\ k \in {Cohort(o) : o \in sel}
  <2>1. k \in unhealthyRegionalCohorts(obs)
    BY <1>4, ExcludedCohort DEF Cohort
  <2>2. PICK o \in obs : k = Cohort(o)
    BY <2>1 DEF unhealthyRegionalCohorts
  <2>3. o \in sel
    BY <1>4, <2>2 DEF Selected, Cohort
  <2> QED BY <2>1, <2>2, <2>3
<1> QED BY <1>1, <1>2, <1>3, <1>4, ExcludedCohort

LEMMA SelectionCounts ==
  ASSUME NEW obs \in SUBSET Records, NEW V
  PROVE  Counted(Selected(obs, V)) = {o \in Counted(obs) : o.vantage \in V}
<1> DEFINE sel == Selected(obs, V)
<1>1. ASSUME NEW o \in Counted(sel)
      PROVE  o \in Counted(obs) /\ o.vantage \in V
  <2>1. o \in sel /\ Canonical(sel, o) /\ Cohort(o) \notin Excluded(sel)
    BY <1>1 DEF Counted, Accepted
  <2>2. o \in obs /\ o.vantage \in V /\ o.block \notin failedBlocks(obs)
    BY <2>1 DEF Selected
  <2>3. Cohort(o) \notin Excluded(obs)
    BY <2>1, <2>2, SelectionExcludes DEF Cohort
  <2>4. Canonical(obs, o)
    BY <2>1, SelectionIsWhole, SameWindows
  <2> QED BY <2>2, <2>3, <2>4 DEF Counted, Accepted
<1>2. ASSUME NEW o \in Counted(obs), o.vantage \in V
      PROVE  o \in Counted(sel)
  <2>1. o \in obs /\ Canonical(obs, o) /\ Cohort(o) \notin Excluded(obs)
    BY <1>2 DEF Counted, Accepted
  <2>2. o.block \notin failedBlocks(obs)
    BY <2>1, ExcludedCohort
  <2>3. o \in sel
    BY <1>2, <2>1, <2>2 DEF Selected
  <2>4. Cohort(o) \notin Excluded(sel)
    BY <2>1, SelectionExcludes
  <2>5. Canonical(sel, o)
    BY <2>1, <2>3, SelectionIsWhole, SameWindows
  <2> QED BY <2>3, <2>4, <2>5 DEF Counted, Accepted
<1> QED BY <1>1, <1>2

(* The excluded cohorts of a view, counted in two parts.                   *)
LEMMA SelectionExcludesAsMany ==
  ASSUME NEW obs \in SUBSET Records, IsFiniteSet(obs), NEW V
  PROVE  Cardinality(Excluded(Selected(obs, V))) + Cardinality(Restored(obs, V))
           = Cardinality({k \in Excluded(obs) : k[1] \in V})
<1> DEFINE within   == Excluded(Selected(obs, V))
           restored == Restored(obs, V)
           both     == {k \in Excluded(obs) : k[1] \in V}
<1>1. \A k : k \in within <=>
        k \in Excluded(obs) /\ k[1] \in V /\ k[2] \notin failedBlocks(obs)
  BY SelectionExcludes
<1>2. within \cup restored = both /\ within \cap restored = {}
  BY <1>1 DEF Restored
<1>3. IsFiniteSet(both)
  BY ExcludedFinite, FS_Subset
<1>4. IsFiniteSet(within) /\ IsFiniteSet(restored)
  <2>1. within \subseteq both /\ restored \subseteq both
    BY <1>2
  <2> QED BY <1>3, <2>1, FS_Subset
<1>5. Cardinality(both) = Cardinality(within) + Cardinality(restored) - Cardinality({})
  BY <1>2, <1>4, FS_Union
<1>6. Cardinality({}) = 0
  BY FS_EmptySet
<1>7. Cardinality(within) \in Nat /\ Cardinality(restored) \in Nat
  BY <1>4, FS_CardinalityType
<1> QED BY <1>5, <1>6, <1>7

(* For any set of vantages, the view of them tells what the global report  *)
(* tells of them.                                                          *)
LEMMA RegionalRestricts == TypeOK => RegionalAgreesWithGlobal
<1> SUFFICES ASSUME TypeOK, NEW V \in SUBSET Vantages
             PROVE  /\ ComputeVantages(V).samples = {s \in Global.samples : s[2][1] \in V}
                    /\ ComputeVantages(V).deliveries = {s \in Global.deliveries : s[2][1] \in V}
                    /\ ComputeVantages(V).excluded =
                         Cardinality({k \in Excluded(prepareObservations) : k[1] \in V})
  BY DEF RegionalAgreesWithGlobal
<1> DEFINE obs == prepareObservations
           sel == Selected(obs, V)
<1>1. obs \in SUBSET Records /\ IsFiniteSet(obs)
  BY PreparedType
<1>2. Counted(sel) = {o \in Counted(obs) : o.vantage \in V}
  BY <1>1, SelectionCounts
<1>3. /\ ComputeVantages(V).samples = computePrepared(sel).samples
      /\ ComputeVantages(V).deliveries = computePrepared(sel).deliveries
      /\ ComputeVantages(V).excluded =
           Cardinality(Excluded(sel)) + Cardinality(Restored(obs, V))
  BY DEF ComputeVantages, computePrepared
<1>4. \A o, x : <<x, Cohort(o)>>[2][1] = o.vantage
  BY DEF Cohort
<1>5. computePrepared(sel).samples = {s \in computePrepared(obs).samples : s[2][1] \in V}
  BY <1>2, <1>4, CountedSample
<1>6. computePrepared(sel).deliveries = {s \in computePrepared(obs).deliveries : s[2][1] \in V}
  BY <1>2, <1>4, CountedSample
<1>7. ComputeVantages(V).excluded = Cardinality({k \in Excluded(obs) : k[1] \in V})
  BY <1>1, <1>3, SelectionExcludesAsMany
<1> QED BY <1>3, <1>5, <1>6, <1>7 DEF Global

(* A regional view and the global report never disagree.                   *)
THEOREM RegionalAgrees == Spec => []RegionalAgreesWithGlobal
  BY TypeCorrect, RegionalRestricts, PTL

-----------------------------------------------------------------------------
(* The records of one block are a selection too, and it fails in several   *)
(* regions exactly if it does so among all the others.                     *)
LEMMA BlockIsWhole ==
  ASSUME NEW obs, NEW b
  PROVE  Whole({o \in obs : o.block = b}, obs)
  BY DEF Whole, Cohort

LEMMA BlockFails ==
  ASSUME NEW obs, NEW b
  PROVE  failedBlocks({o \in obs : o.block = b}) = failedBlocks(obs) \cap {b}
<1> DEFINE sel == {o \in obs : o.block = b}
<1>1. \A v, c : <<v, c>> \in unhealthyRegionalCohorts(sel) <=>
        <<v, c>> \in unhealthyRegionalCohorts(obs) /\ c = b
  <2> SUFFICES ASSUME NEW v, NEW c
               PROVE  <<v, c>> \in unhealthyRegionalCohorts(sel) <=>
                        <<v, c>> \in unhealthyRegionalCohorts(obs) /\ c = b
    OBVIOUS
  <2>1. <<v, c>> \in unhealthyRegionalCohorts(sel) <=>
          <<v, c>> \in unhealthyRegionalCohorts(obs) /\ <<v, c>> \in {Cohort(o) : o \in sel}
    BY BlockIsWhole, SameHealth
  <2>2. <<v, c>> \in {Cohort(o) : o \in sel} => c = b
    BY DEF Cohort
  <2>3. <<v, c>> \in unhealthyRegionalCohorts(obs) /\ c = b =>
          <<v, c>> \in {Cohort(o) : o \in sel}
    BY DEF unhealthyRegionalCohorts, Cohort
  <2> QED BY <2>1, <2>2, <2>3
<1>2. \A S, c : c \in failedBlocks(S) <=>
        c \in Blocks /\ \E v, w \in Vantages :
          v # w /\ <<v, c>> \in unhealthyRegionalCohorts(S)
                /\ <<w, c>> \in unhealthyRegionalCohorts(S)
  BY DEF failedBlocks, multiRegionFailedBlocks
<1>3. ASSUME NEW c \in failedBlocks(sel) PROVE c \in failedBlocks(obs) /\ c = b
  <2>1. PICK v \in Vantages, w \in Vantages :
          /\ v # w /\ c \in Blocks
          /\ <<v, c>> \in unhealthyRegionalCohorts(sel)
          /\ <<w, c>> \in unhealthyRegionalCohorts(sel)
    BY <1>2, <1>3
  <2> QED BY <1>1, <1>2, <2>1
<1>4. ASSUME b \in failedBlocks(obs) PROVE b \in failedBlocks(sel)
  BY <1>1, <1>2, <1>4
<1> QED BY <1>3, <1>4

LEMMA BlockExcludes ==
  ASSUME NEW obs, NEW b, NEW o \in obs, o.block = b
  PROVE  Cohort(o) \in Excluded({p \in obs : p.block = b}) <=> Cohort(o) \in Excluded(obs)
<1> DEFINE sel == {p \in obs : p.block = b}
<1>1. Cohort(o) \in unhealthyRegionalCohorts(sel) <=>
        Cohort(o) \in unhealthyRegionalCohorts(obs)
  <2>1. Cohort(o) \in {Cohort(p) : p \in sel}
    OBVIOUS
  <2>2. Whole(sel, obs)
    BY BlockIsWhole
  <2> QED BY <2>1, <2>2, SameHealth
<1>2. \A p \in obs : Cohort(o) = Cohort(p) => p \in sel
  BY DEF Cohort
<1>3. \A p \in sel : p.block \in failedBlocks(sel) <=> p.block \in failedBlocks(obs)
  <2>1. failedBlocks(sel) = failedBlocks(obs) \cap {b}
    BY BlockFails
  <2> QED BY <2>1
<1>4. (\E p \in sel : Cohort(o) = Cohort(p) /\ p.block \in failedBlocks(sel)) <=>
        \E p \in obs : Cohort(o) = Cohort(p) /\ p.block \in failedBlocks(obs)
  BY <1>2, <1>3
<1> QED BY <1>1, <1>4, ExcludedCohort

LEMMA BlockCounts ==
  ASSUME NEW obs, NEW b
  PROVE  /\ Accepted({o \in obs : o.block = b}) = {o \in Accepted(obs) : o.block = b}
         /\ Counted({o \in obs : o.block = b}) = {o \in Counted(obs) : o.block = b}
<1> DEFINE sel == {o \in obs : o.block = b}
<1>1. Accepted(sel) = {o \in Accepted(obs) : o.block = b}
  BY BlockExcludes DEF Accepted
<1>2. \A o \in sel : Canonical(sel, o) <=> Canonical(obs, o)
  BY BlockIsWhole, SameWindows
<1> QED BY <1>1, <1>2 DEF Counted, Accepted

LEMMA VerdictsAreLocal == BlocksAreIndependent
<1> SUFFICES ASSUME NEW b \in Blocks
             PROVE  LET only == computePrepared({o \in prepareObservations : o.block = b})
                    IN  /\ {s \in Global.samples : s[2][2] = b} = only.samples
                        /\ {s \in Global.deliveries : s[2][2] = b} = only.deliveries
                        /\ b \in Global.blocks <=> only.blocks = {b}
  BY DEF BlocksAreIndependent
<1> DEFINE obs == prepareObservations
           sel == {o \in obs : o.block = b}
<1>1. /\ Accepted(sel) = {o \in Accepted(obs) : o.block = b}
      /\ Counted(sel) = {o \in Counted(obs) : o.block = b}
  BY BlockCounts
<1>2. \A o, x : <<x, Cohort(o)>>[2][2] = o.block
  BY DEF Cohort
<1>3. {s \in computePrepared(obs).samples : s[2][2] = b} = computePrepared(sel).samples
  BY <1>1, <1>2, CountedSample
<1>4. {s \in computePrepared(obs).deliveries : s[2][2] = b} = computePrepared(sel).deliveries
  BY <1>1, <1>2, CountedSample
<1>5. b \in computePrepared(obs).blocks <=> computePrepared(sel).blocks = {b}
  <2>1. /\ computePrepared(obs).blocks = {o.block : o \in Accepted(obs)}
        /\ computePrepared(sel).blocks = {o.block : o \in Accepted(sel)}
    BY DEF computePrepared, Counted, Accepted
  <2> QED BY <1>1, <2>1
<1> QED BY <1>3, <1>4, <1>5 DEF Global

(* The verdict on a block depends on its own records only.                 *)
THEOREM BlocksIndependent == Spec => []BlocksAreIndependent
  BY VerdictsAreLocal, PTL

-----------------------------------------------------------------------------
(* An appended line whose identity an earlier retained one has is neither  *)
(* prepared nor part of a status.                                          *)
THEOREM RepeatsInvisible == Spec => RepeatedBatchIsInvisible
<1>1. TypeOK /\ [Next]_vars =>
        [AcceptedAgain =>
           /\ prepareObservations' = prepareObservations
           /\ buildVantageStatuses' = buildVantageStatuses
           /\ hideStaleRegionalVantages' = hideStaleRegionalVantages]_vars
  <2> SUFFICES ASSUME TypeOK, Next, AcceptedAgain
               PROVE  /\ prepareObservations' = prepareObservations
                      /\ buildVantageStatuses' = buildVantageStatuses
                      /\ hideStaleRegionalVantages' = hideStaleRegionalVantages
    BY DEF vars
  <2>0. PICK n : n = Len(log) + 1
    OBVIOUS
  <2>1. PICK r : log' = Append(log, r) /\ now' = now
    <3>1. log' # log
      BY DEF AcceptedAgain, TypeOK
    <3> QED BY <3>1 DEF Next, Upload, Emit, Reconfigure, Advance
  <2>2. /\ DOMAIN log = 1 .. Len(log) /\ Len(log) \in Nat
        /\ DOMAIN log' = 1 .. n /\ log'[n] = r
        /\ \A i \in DOMAIN log : log'[i] = log[i]
    BY <2>0, <2>1 DEF TypeOK, AcceptedAgain
  <2>3. PICK i \in retained : log[i].id = log'[n].id
    BY <2>0, <2>2 DEF AcceptedAgain
  <2>4. i \in loaded /\ n \in Nat /\ i < n /\ log'[i].id = log'[n].id
    BY <2>0, <2>2, <2>3 DEF retained, loaded
  <2>5. loaded' \ {n} = loaded /\ retained' \ {n} = retained
    BY <2>0, <2>1, <2>2 DEF loaded, retained
  <2>6. prepareObservations' = prepareObservations
    <3>1. \A j \in retained : FirstOfIdentity(retained, j)' <=> FirstOfIdentity(retained, j)
      BY <2>0, <2>2, <2>5 DEF FirstOfIdentity, retained, loaded
    <3>2. ~FirstOfIdentity(retained, n)'
      BY <2>3, <2>4, <2>5 DEF FirstOfIdentity
    <3>3. \A j : (j \in retained /\ FirstOfIdentity(retained, j))' <=>
                  j \in retained /\ FirstOfIdentity(retained, j)
      BY <2>5, <3>1, <3>2
    <3> QED BY <2>2, <3>3 DEF prepareObservations, uniqueObservations, retained, loaded
  <2>7. buildVantageStatuses' = buildVantageStatuses
    BY <2>1, <2>6 DEF buildVantageStatuses, vantageStatus
  <2>8. hideStaleRegionalVantages' = hideStaleRegionalVantages
    BY <2>6, <2>7 DEF hideStaleRegionalVantages, availableVantages
  <2> QED BY <2>6, <2>7, <2>8
<1> QED BY <1>1, TypeCorrect, PTL DEF Spec, RepeatedBatchIsInvisible

-----------------------------------------------------------------------------
(* What a report shows of a cohort with a single record: all of it, if the *)
(* record is counted, and else nothing.                                    *)
LEMMA SingleRecord ==
  ASSUME NEW obs, NEW o \in obs, Alone(obs, o)
  PROVE  /\ o \in Counted(obs) =>
              /\ OfCohort(computePrepared(obs).samples, Cohort(o)) = Known(o)
              /\ OfCohort(computePrepared(obs).deliveries, Cohort(o)) = Known(o) \cap o.arrived
         /\ o \notin Counted(obs) =>
              /\ OfCohort(computePrepared(obs).samples, Cohort(o)) = {}
              /\ OfCohort(computePrepared(obs).deliveries, Cohort(o)) = {}
<1>1. \A p \in Counted(obs) : Cohort(p) = Cohort(o) => p = o
  BY DEF Alone, Counted, Accepted
<1>2. \A x : <<x, Cohort(o)>> \in computePrepared(obs).samples <=>
        o \in Counted(obs) /\ x \in Known(o)
  BY <1>1, CountedSample
<1>3. \A x : <<x, Cohort(o)>> \in computePrepared(obs).deliveries <=>
        o \in Counted(obs) /\ x \in Known(o) \cap o.arrived
  BY <1>1, CountedSample
<1>4. \A s \in computePrepared(obs).samples : s = <<s[1], s[2]>>
  BY CountedSample
<1>5. \A s \in computePrepared(obs).deliveries : s = <<s[1], s[2]>>
  BY CountedSample
<1>6. \A x : x \in OfCohort(computePrepared(obs).samples, Cohort(o)) <=>
        <<x, Cohort(o)>> \in computePrepared(obs).samples
  BY <1>4 DEF OfCohort
<1>7. \A x : x \in OfCohort(computePrepared(obs).deliveries, Cohort(o)) <=>
        <<x, Cohort(o)>> \in computePrepared(obs).deliveries
  BY <1>5 DEF OfCohort
<1> QED BY <1>2, <1>3, <1>6, <1>7

(* The view of one vantage shows its own cohorts as the global report does *)
(* and none of another vantage.                                            *)
LEMMA RegionalCohort ==
  ASSUME TypeOK, NEW v \in Vantages, NEW k
  PROVE  LET view == ComputeVantages({v}) IN
         /\ k[1] = v =>
              /\ OfCohort(view.samples, k) = OfCohort(Global.samples, k)
              /\ OfCohort(view.deliveries, k) = OfCohort(Global.deliveries, k)
         /\ k[1] # v =>
              OfCohort(view.samples, k) = {} /\ OfCohort(view.deliveries, k) = {}
<1>1. /\ ComputeVantages({v}).samples = {s \in Global.samples : s[2][1] \in {v}}
      /\ ComputeVantages({v}).deliveries = {s \in Global.deliveries : s[2][1] \in {v}}
  BY RegionalRestricts DEF RegionalAgreesWithGlobal
<1> QED BY <1>1 DEF OfCohort

(* A set without members is not a broad miss, and a record with a broad    *)
(* miss that is alone in its cohort makes the cohort unhealthy.            *)
LEMMA NothingIsBroad ==
  ASSUME NEW eligible
  PROVE  ~BroadMiss({}, eligible)
<1>1. {PoolOf[x] : x \in {}} = {}
  OBVIOUS
<1>2. Cardinality({PoolOf[x] : x \in {}}) = 0
  BY <1>1, FS_EmptySet
<1>3. ~(0 >= MinPools)
  BY ReportAssumption
<1>4. BroadMiss({}, eligible) => Cardinality({PoolOf[x] : x \in {}}) >= MinPools
  BY DEF BroadMiss
<1> QED BY <1>2, <1>3, <1>4

LEMMA BroadIsUnhealthy ==
  ASSUME NEW obs \in SUBSET Records, NEW o \in Probed(obs), Broad(o)
  PROVE  Cohort(o) \in unhealthyRegionalCohorts(obs)
<1>1. o \in obs /\ o.source = Remote /\ Alone(obs, o)
  BY DEF Probed
<1>2. Known(o) # {}
  <2>1. Known(o) = {} => ~Broad(o)
    BY NothingIsBroad DEF Broad
  <2> QED BY <2>1
<1>3. \A p \in obs : Cohort(p) = Cohort(o) => o.at <= p.at
  BY <1>1 DEF Alone, Records
<1>4. Canonical(obs, o)
  BY <1>2, <1>3 DEF Canonical
<1> QED BY <1>1, <1>4 DEF unhealthyRegionalCohorts

LEMMA OutagesAreNotCounted == TypeOK => NoObserverOutageIsCounted
<1> SUFFICES ASSUME TypeOK PROVE NoObserverOutageIsCounted
  OBVIOUS
<1> DEFINE obs    == prepareObservations
           probed == Probed(obs)
           failed == {o.block : o \in {p \in probed : \E q \in probed :
                        p.block = q.block /\ p.vantage # q.vantage /\ Broad(p) /\ Broad(q)}}
<1>1. obs \in SUBSET Records
  BY PreparedType
<1>2. \A s \in Global.samples : s[2][2] \notin failed
  <2> SUFFICES ASSUME NEW s \in Global.samples, s[2][2] \in failed PROVE FALSE
    OBVIOUS
  <2>1. PICK c \in Counted(obs) : \E x \in Known(c) : s = <<x, Cohort(c)>>
    BY CountedSample DEF Global
  <2>2. c \in obs /\ Cohort(c) \notin Excluded(obs) /\ s[2][2] = c.block
    BY <2>1 DEF Counted, Accepted, Cohort
  <2>3. PICK p \in probed, q \in probed :
          /\ p.block = q.block /\ p.vantage # q.vantage /\ p.block = c.block
          /\ Broad(p) /\ Broad(q)
    BY <2>2
  <2>4. /\ <<p.vantage, c.block>> \in unhealthyRegionalCohorts(obs)
        /\ <<q.vantage, c.block>> \in unhealthyRegionalCohorts(obs)
    BY <1>1, <2>3, BroadIsUnhealthy DEF Cohort
  <2>5. p.vantage \in Vantages /\ q.vantage \in Vantages /\ c.block \in Blocks
    BY <1>1, <2>2, <2>3 DEF Probed, Records
  <2>6. c.block \in failedBlocks(obs)
    BY <2>3, <2>4, <2>5 DEF failedBlocks, multiRegionFailedBlocks
  <2> QED BY <2>2, <2>6, ExcludedCohort
<1>3. ASSUME NEW v \in Vantages
      PROVE  ComputeVantages({v}).samples \subseteq Global.samples
  BY RegionalRestricts DEF RegionalAgreesWithGlobal
<1>4. ASSUME NEW o \in probed
      PROVE  ~BroadMiss(OfCohort(Global.samples, Cohort(o))
                          \ OfCohort(Global.deliveries, Cohort(o)),
                        OfCohort(Global.samples, Cohort(o)))
  <2>1. o \in obs /\ Alone(obs, o)
    BY <1>4 DEF Probed
  <2>2. CASE o \in Counted(obs)
    <3>1. ~Broad(o)
      BY <1>1, <1>4, <2>2, BroadIsUnhealthy, ExcludedCohort DEF Counted, Accepted
    <3>2. /\ OfCohort(Global.samples, Cohort(o)) = Known(o)
          /\ OfCohort(Global.deliveries, Cohort(o)) = Known(o) \cap o.arrived
      BY <2>1, <2>2, SingleRecord DEF Global
    <3>3. Known(o) \ (Known(o) \cap o.arrived) = Known(o) \ o.arrived
      OBVIOUS
    <3> QED BY <3>1, <3>2, <3>3 DEF Broad
  <2>3. CASE o \notin Counted(obs)
    <3>1. OfCohort(Global.samples, Cohort(o)) = {}
      BY <2>1, <2>3, SingleRecord DEF Global
    <3>2. {} \ OfCohort(Global.deliveries, Cohort(o)) = {}
      OBVIOUS
    <3> QED BY <3>1, <3>2, NothingIsBroad
  <2> QED BY <2>2, <2>3
<1>5. ASSUME NEW v \in Vantages, NEW o \in probed
      PROVE  ~BroadMiss(OfCohort(ComputeVantages({v}).samples, Cohort(o))
                          \ OfCohort(ComputeVantages({v}).deliveries, Cohort(o)),
                        OfCohort(ComputeVantages({v}).samples, Cohort(o)))
  <2>1. CASE Cohort(o)[1] = v
    BY <1>4, <1>5, <2>1, RegionalCohort
  <2>2. CASE Cohort(o)[1] # v
    <3>1. OfCohort(ComputeVantages({v}).samples, Cohort(o)) = {}
      BY <1>5, <2>2, RegionalCohort
    <3>2. {} \ OfCohort(ComputeVantages({v}).deliveries, Cohort(o)) = {}
      OBVIOUS
    <3> QED BY <3>1, <3>2, NothingIsBroad
  <2> QED BY <2>1, <2>2
<1>6. ASSUME NEW view \in {ComputeVantages({v}) : v \in Vantages} \cup {Global}
      PROVE  /\ \A s \in view.samples : s[2][2] \notin failed
             /\ \A o \in probed :
                  ~BroadMiss(OfCohort(view.samples, Cohort(o))
                               \ OfCohort(view.deliveries, Cohort(o)),
                             OfCohort(view.samples, Cohort(o)))
  <2>1. CASE view = Global
    BY <1>2, <1>4, <2>1
  <2>2. CASE view # Global
    <3>1. PICK v \in Vantages : view = ComputeVantages({v})
      BY <1>6, <2>2
    <3> QED BY <1>2, <1>3, <1>5, <3>1
  <2> QED BY <2>1, <2>2
<1> QED BY <1>6 DEF NoObserverOutageIsCounted

(* No failure of an observer is counted as downtime of pools.              *)
THEOREM ObserverOutagesUncounted == Spec => []NoObserverOutageIsCounted
  BY TypeCorrect, OutagesAreNotCounted, PTL

-----------------------------------------------------------------------------
(* A block that failed has broad misses at two vantages.                   *)
LEMMA FailedByTwo ==
  ASSUME NEW obs \in SUBSET Records, IsFiniteSet(obs), NEW b \in failedBlocks(obs)
  PROVE  ~(Cardinality({p.vantage : p \in {q \in obs :
                          q.source = Remote /\ q.block = b /\ Broad(q)}}) < 2)
<1> DEFINE bad   == {q \in obs : q.source = Remote /\ q.block = b /\ Broad(q)}
           broad == {p.vantage : p \in bad}
           f     == [p \in bad |-> p.vantage]
<1>1. PICK v \in Vantages, w \in Vantages :
        /\ v # w
        /\ <<v, b>> \in unhealthyRegionalCohorts(obs)
        /\ <<w, b>> \in unhealthyRegionalCohorts(obs)
  BY DEF failedBlocks, multiRegionFailedBlocks
<1>2. v \in broad /\ w \in broad
  BY <1>1 DEF unhealthyRegionalCohorts, Cohort
<1>3. IsFiniteSet(broad)
  <2>1. IsFiniteSet(bad)
    BY FS_Subset
  <2>2. f \in Surjection(bad, broad)
    BY DEF Surjection
  <2> QED BY <2>1, <2>2, FS_Surjection
<1>4. IsFiniteSet({v}) /\ Cardinality({v}) = 1
  BY FS_Singleton
<1>5. Cardinality({v} \cup {w}) = 2
  <2>1. Cardinality({v} \cup {w}) =
          IF w \in {v} THEN Cardinality({v}) ELSE Cardinality({v}) + 1
    BY <1>4, FS_AddElement
  <2> QED BY <1>1, <1>4, <2>1
<1>6. Cardinality({v} \cup {w}) <= Cardinality(broad)
  BY <1>2, <1>3, FS_Subset
<1>7. Cardinality(broad) \in Nat
  BY <1>3, FS_CardinalityType
<1> QED BY <1>5, <1>6, <1>7

LEMMA OutagesAreShown == TypeOK => PoolOutagesStayVisible
<1> DEFINE obs == prepareObservations
           Vantaged(b) == {p.vantage : p \in {q \in obs :
                             q.source = Remote /\ q.block = b /\ Broad(q)}}
<1> SUFFICES ASSUME TypeOK, NEW o \in Probed(obs),
                    o.vantage \notin Vantaged(o.block), Cardinality(Vantaged(o.block)) < 2,
                    NEW view \in {Global, ComputeVantages({o.vantage})}
             PROVE  /\ OfCohort(view.samples, Cohort(o)) = Known(o)
                    /\ OfCohort(view.deliveries, Cohort(o)) = Known(o) \cap o.arrived
  BY DEF PoolOutagesStayVisible
<1>1. obs \in SUBSET Records /\ IsFiniteSet(obs)
  BY PreparedType
<1>2. o \in obs /\ o.source = Remote /\ Alone(obs, o) /\ o \in Records
  BY <1>1 DEF Probed
<1>3. Cohort(o) \notin unhealthyRegionalCohorts(obs)
  BY <1>2 DEF unhealthyRegionalCohorts, Alone
<1>4. o.block \notin failedBlocks(obs)
  BY <1>1, FailedByTwo
<1>5. Cohort(o) \notin Excluded(obs)
  BY <1>3, <1>4, ExcludedCohort DEF Cohort
<1>6. Known(o) # {} => o \in Counted(obs)
  <2>1. \A p \in obs : Cohort(p) = Cohort(o) => o.at <= p.at
    BY <1>2 DEF Alone, Records
  <2> QED BY <1>2, <1>5, <2>1 DEF Counted, Accepted, Canonical
<1>7. /\ OfCohort(Global.samples, Cohort(o)) = Known(o)
      /\ OfCohort(Global.deliveries, Cohort(o)) = Known(o) \cap o.arrived
  BY <1>2, <1>6, SingleRecord DEF Global
<1>8. /\ OfCohort(ComputeVantages({o.vantage}).samples, Cohort(o)) = Known(o)
      /\ OfCohort(ComputeVantages({o.vantage}).deliveries, Cohort(o)) = Known(o) \cap o.arrived
  <2>1. Cohort(o)[1] = o.vantage /\ o.vantage \in Vantages
    BY <1>2 DEF Cohort, Records
  <2> QED BY <1>7, <2>1, RegionalCohort
<1> QED BY <1>7, <1>8

(* The outage of a pool is not hidden with those of observers.             *)
THEOREM PoolOutagesVisible == Spec => []PoolOutagesStayVisible
  BY TypeCorrect, OutagesAreShown, PTL

-----------------------------------------------------------------------------
(* Wins.  What is won was delivered, and what was delivered was checked.   *)

(* The records of a view are finitely many, and so are the checks.         *)
LEMMA ChecksFinite ==
  ASSUME NEW obs, IsFiniteSet(obs), NEW counted \in SUBSET obs, NEW e
  PROVE  IsFiniteSet(Checks(counted, e))
<1> DEFINE known == {o \in counted : e \in Known(o)}
           f == [o \in known |-> Cohort(o)]
<1>1. IsFiniteSet(known)
  BY FS_Subset
<1>2. f \in Surjection(known, Checks(counted, e))
  BY DEF Surjection, Checks
<1> QED BY <1>1, <1>2, FS_Surjection

(* The blocks of finitely many cohorts.                                    *)
LEMMA BlocksFinite ==
  ASSUME NEW cohorts, IsFiniteSet(cohorts)
  PROVE  IsFiniteSet({k[2] : k \in cohorts})
<1> DEFINE f == [k \in cohorts |-> k[2]]
<1>1. f \in Surjection(cohorts, {k[2] : k \in cohorts})
  BY DEF Surjection
<1> QED BY <1>1, FS_Surjection

(* In any view, of one vantage or of several.                              *)
LEMMA WinsWithinEligible ==
  ASSUME NEW obs, IsFiniteSet(obs), NEW counted \in SUBSET obs, NEW e,
         NEW combine \in BOOLEAN
  PROVE  Wins(latencySamples(counted, e, combine))
           <= recentWinEligibleBlocks(counted, e, combine)
<1> DEFINE recent  == Recent(counted)
           checks  == Checks(recent, e)
           offsets == Offsets(Deliveries(recent, e), e)
           won     == {k \in DOMAIN offsets : offsets[k] = 0}
           latency == medianLatencyByBlock(offsets)
           wonBlocks == {b \in DOMAIN latency : latency[b] = 0}
<1>1. recent \subseteq obs
  BY DEF Recent
<1>2. IsFiniteSet(checks)
  BY <1>1, ChecksFinite
<1>3. DOMAIN offsets \subseteq checks
  BY DEF Offsets, Deliveries, Checks
<1>4. CASE ~combine
  <2>1. Cardinality(won) <= Cardinality(checks)
    BY <1>2, <1>3, FS_Subset
  <2> QED
    BY <1>4, <2>1 DEF Wins, latencySamples, recentWinEligibleBlocks
<1>5. CASE combine
  <2> DEFINE blocks == {k[2] : k \in checks}
  <2>1. IsFiniteSet(blocks)
    BY <1>2, BlocksFinite
  <2>2. DOMAIN latency = {k[2] : k \in DOMAIN offsets}
    BY DEF medianLatencyByBlock
  <2>3. wonBlocks \subseteq blocks
    BY <1>3, <2>2
  <2>4. Cardinality(wonBlocks) <= Cardinality(blocks)
    BY <2>1, <2>3, FS_Subset
  <2> QED
    BY <1>5, <2>4 DEF Wins, latencySamples, recentWinEligibleBlocks
<1> QED BY <1>4, <1>5

(* Whatever was measured, by however many vantages: no endpoint is said to *)
(* have won more blocks than it could have won.                            *)
THEOREM WinsEligible == Spec => []WinsAreEligible
<1>1. TypeOK => WinsAreEligible
  <2> SUFFICES ASSUME TypeOK, NEW V \in Views, NEW e \in pools
               PROVE  LET counted == ComputeVantages(V).counted
                          combine == Cardinality(V) > 1
                      IN  Wins(latencySamples(counted, e, combine))
                            <= recentWinEligibleBlocks(counted, e, combine)
    BY DEF WinsAreEligible
  <2> DEFINE counted == ComputeVantages(V).counted
  <2>1. IsFiniteSet(prepareObservations)
    BY PreparedType
  <2>2. counted \subseteq prepareObservations
    BY DEF ComputeVantages, computePrepared, Selected
  <2>3. (Cardinality(V) > 1) \in BOOLEAN
    OBVIOUS
  <2> QED BY <2>1, <2>2, <2>3, WinsWithinEligible
<1> QED BY TypeCorrect, <1>1, PTL

-----------------------------------------------------------------------------
(* What a record says of endpoints is what the receiver derives from a     *)
(* valid sample.  Each endpoint it names was to be measured, and is named  *)
(* once; offsets count from the first arrival, if there is one; and what   *)
(* else it says are timings, and at most one coinbase with one fee.        *)
Arrived(o) == {e \in Endpoints : \E s \in o.facts : s.endpoint = e /\ s.received # {}}

CountsFrom(o, first) ==
  /\ \E s \in o.facts : first \in s.received
  /\ \A s \in o.facts : \A t \in s.received :
       t \in Nat /\ first <= t /\ s.received = {t} /\ s.offset = {t - first}
  /\ \A s \in o.facts : s.received = {} => s.offset = {}

SoundPayout(p) == p.fee \in SUBSET Nat

Sound(o) ==
  /\ \A s \in o.facts : s.endpoint \in o.eligible
  /\ \A s, t \in o.facts : s.endpoint = t.endpoint => s = t
  /\ o.arrived = Arrived(o)
  /\ \E first \in Nat : CountsFrom(o, first)
  /\ \A s \in o.facts : s.setup \subseteq Timings /\ IsFiniteSet(s.setup)
  /\ \A s \in o.facts : \A p \in s.payout : SoundPayout(p) /\ s.payout = {p}

(* In a valid sample the entry of an endpoint is found by its name.        *)
LEMMA EntryIsItself ==
  ASSUME NEW s \in Samples, Valid(s.entries, s.targets), NEW i \in DOMAIN s.entries
  PROVE  Entry(s.entries, s.entries[i].endpoint) = s.entries[i]
<1> DEFINE j == CHOOSE k \in DOMAIN s.entries : s.entries[k].endpoint = s.entries[i].endpoint
<1>1. j \in DOMAIN s.entries /\ s.entries[j].endpoint = s.entries[i].endpoint
  OBVIOUS
<1>2. j = i
  BY <1>1 DEF Valid
<1> QED BY <1>2 DEF Entry

(* An entry has an instant at most, which is a natural; timings; and one   *)
(* coinbase at most.                                                       *)
LEMMA EntryType ==
  ASSUME NEW s \in Samples, NEW i \in DOMAIN s.entries
  PROVE  LET entry == s.entries[i] IN
         /\ entry.endpoint \in Endpoints
         /\ entry.received \in SUBSET Nat /\ \A t, u \in entry.received : t = u
         /\ entry.setup \in SUBSET Timings /\ IsFiniteSet(entry.setup)
         /\ entry.coinbase \in SUBSET [sound : BOOLEAN, coinbase : Coinbases]
         /\ \A c, d \in entry.coinbase : c = d
<1> DEFINE E == [endpoint : Endpoints, received : SUBSET Nat, setup : SUBSET Timings,
                 coinbase : SUBSET [sound : BOOLEAN, coinbase : Coinbases]]
<1>1. s.entries \in Seq(E)
  BY SamplesAssumption
<1>2. s.entries[i] \in E
  <2> HIDE DEF E
  <2> QED BY <1>1
<1> HIDE DEF E
<1>3. /\ \A t, u \in s.entries[i].received : t = u
      /\ \A c, d \in s.entries[i].coinbase : c = d
      /\ IsFiniteSet(s.entries[i].setup)
  BY SamplesAssumption
<1> QED BY <1>2, <1>3 DEF E

(* The first arrival is one, and no other precedes it.                     *)
LEMMA FirstIsFirst ==
  ASSUME NEW s \in Samples, Valid(s.entries, s.targets)
  PROVE  LET first == FirstArrival(s.entries) IN
         /\ first \in Nat
         /\ \E i \in DOMAIN s.entries : first \in s.entries[i].received
         /\ \A i \in DOMAIN s.entries : \A t \in s.entries[i].received : first <= t
<1> DEFINE entries == s.entries
           A == {ReceivedAt(entries, e) : e \in Arrivals(entries)}
<1>1. ASSUME NEW i \in DOMAIN entries, NEW t \in entries[i].received
      PROVE  /\ entries[i].endpoint \in Arrivals(entries)
             /\ ReceivedAt(entries, entries[i].endpoint) = t
             /\ t \in Nat
  <2>1. Entry(entries, entries[i].endpoint) = entries[i]
    BY EntryIsItself
  <2>2. entries[i].received = {t} /\ t \in Nat
    BY EntryType
  <2>3. Min({t}) = t
    BY <2>2 DEF Min
  <2> QED BY <2>1, <2>2, <2>3 DEF Arrivals, Named, ReceivedAt
<1>2. ASSUME NEW e \in Arrivals(entries)
      PROVE  \E i \in DOMAIN entries : entries[i].endpoint = e /\ entries[i].received # {}
  <2>1. PICK i \in DOMAIN entries : e = entries[i].endpoint
    BY DEF Arrivals, Named
  <2>2. Entry(entries, e) = entries[i]
    BY <2>1, EntryIsItself
  <2> QED BY <2>1, <2>2 DEF Arrivals
<1>3. \A a \in A : a \in Nat /\ \E i \in DOMAIN entries : a \in entries[i].received
  BY <1>1, <1>2
<1>4. A # {}
  <2>1. Arrivals(entries) # {}
    BY DEF Valid
  <2> QED BY <2>1
<1>5. \A i \in DOMAIN entries : \A t \in entries[i].received : t \in A
  BY <1>1
<1>6. FirstArrival(entries) = Min(A)
  BY DEF FirstArrival
<1> HIDE DEF A
<1>7. Min(A) \in A /\ \A y \in A : Min(A) <= y
  <2>1. A \in SUBSET Nat
    BY <1>3
  <2> QED BY <1>4, <2>1, MinOfNaturals
<1> QED BY <1>3, <1>5, <1>6, <1>7

(* What is decoded of a coinbase has a fee that is a natural, if any.      *)
LEMMA PayoutIsSound ==
  ASSUME NEW c \in [sound : BOOLEAN, coinbase : Coinbases], AnalyzeCoinbaseSource(c).decoded
  PROVE  SoundPayout(AnalyzeCoinbaseSource(c))
<1>1. c.coinbase \in Coinbases
  OBVIOUS
<1>2. AnalyzeCoinbaseSource(c) = analyzeCoinbase(c.coinbase)
  BY DEF AnalyzeCoinbaseSource, Unreadable
<1>3. analyzeCoinbase(c.coinbase).fee \subseteq 0 .. 10000
  BY <1>1, <1>2, SumsFit
<1> DEFINE all == 0 .. 10000
<1>4. all \subseteq Nat /\ analyzeCoinbase(c.coinbase).fee \subseteq all
  BY <1>3
<1> HIDE DEF all
<1> QED BY <1>2, <1>4 DEF SoundPayout

(* What validateBlockEnvelope derives is sound.                            *)
LEMMA OutcomeIsSound ==
  ASSUME NEW o \in Outcomes
  PROVE  Sound(o)
<1>1. PICK s \in Samples : Valid(s.entries, s.targets) /\ o = validateBlockEnvelope(s.entries, s.targets)
  BY OutcomesAssumption
<1> DEFINE entries == s.entries
           first == FirstArrival(entries)
           fact == [i \in DOMAIN entries |-> derived(entries, entries[i])]
<1>2. /\ o.facts = {fact[i] : i \in DOMAIN entries}
      /\ o.eligible = s.targets
      /\ o.arrived = Arrivals(entries)
  BY <1>1 DEF validateBlockEnvelope
<1>3. \A i \in DOMAIN entries :
        /\ fact[i].endpoint = entries[i].endpoint
        /\ fact[i].received = entries[i].received
        /\ fact[i].setup = entries[i].setup
        /\ fact[i].offset = {t - first : t \in entries[i].received}
        /\ \A p \in fact[i].payout : \E c \in entries[i].coinbase :
             p = AnalyzeCoinbaseSource(c) /\ p.decoded
  BY DEF derived
<1>4. \A i \in DOMAIN entries : Entry(entries, entries[i].endpoint) = entries[i]
  BY <1>1, EntryIsItself
<1>5. \A i \in DOMAIN entries :
        /\ entries[i].endpoint \in Endpoints
        /\ \A t \in entries[i].received : t \in Nat /\ entries[i].received = {t}
        /\ entries[i].setup \subseteq Timings /\ IsFiniteSet(entries[i].setup)
        /\ \A c \in entries[i].coinbase :
             c \in [sound : BOOLEAN, coinbase : Coinbases] /\ entries[i].coinbase = {c}
  BY EntryType
<1>6. /\ \A i \in DOMAIN entries : entries[i].endpoint \in s.targets
      /\ \A i, j \in DOMAIN entries : entries[i].endpoint = entries[j].endpoint => i = j
  BY <1>1 DEF Valid, Named
<1>7. /\ first \in Nat
      /\ \E i \in DOMAIN entries : first \in entries[i].received
      /\ \A i \in DOMAIN entries : \A t \in entries[i].received : first <= t
  BY <1>1, FirstIsFirst
<1> HIDE DEF fact, entries, first
<1>8. \A x \in o.facts : x.endpoint \in o.eligible
  BY <1>2, <1>3, <1>6
<1>9. \A x, y \in o.facts : x.endpoint = y.endpoint => x = y
  BY <1>2, <1>3, <1>6
<1>10. o.arrived = Arrived(o)
  BY <1>2, <1>3, <1>4, <1>5 DEF Arrivals, Named, Arrived
<1>11. \E f \in Nat : CountsFrom(o, f)
  <2>1. ASSUME NEW i \in DOMAIN entries, NEW t \in fact[i].received
        PROVE  t \in Nat /\ first <= t /\ fact[i].received = {t} /\ fact[i].offset = {t - first}
    <3>1. t \in Nat /\ entries[i].received = {t} /\ fact[i].received = {t}
      BY <1>3, <1>5, <2>1
    <3> QED BY <1>3, <1>7, <3>1
  <2>2. \A i \in DOMAIN entries : fact[i].received = {} => fact[i].offset = {}
    BY <1>3
  <2> QED BY <1>2, <1>3, <1>7, <2>1, <2>2 DEF CountsFrom
<1>12. \A x \in o.facts : x.setup \subseteq Timings /\ IsFiniteSet(x.setup)
  BY <1>2, <1>3, <1>5
<1>13. ASSUME NEW x \in o.facts, NEW p \in x.payout
       PROVE  SoundPayout(p) /\ x.payout = {p}
  <2>1. PICK i \in DOMAIN entries : x = fact[i]
    BY <1>2
  <2>2. PICK c \in entries[i].coinbase : p = AnalyzeCoinbaseSource(c) /\ p.decoded
    BY <1>3, <1>13, <2>1
  <2>3. c \in [sound : BOOLEAN, coinbase : Coinbases] /\ entries[i].coinbase = {c}
    BY <1>5
  <2>4. SoundPayout(p)
    BY <2>2, <2>3, PayoutIsSound
  <2>5. x.payout = {p}
    BY <1>3, <1>13, <2>1, <2>2, <2>3
  <2> QED BY <2>4, <2>5
<1> QED BY <1>8, <1>9, <1>10, <1>11, <1>12, <1>13 DEF Sound

(* Every line of the log is sound, and a local line is a collector's.      *)
Heard ==
  \A i \in DOMAIN log :
    Sound(log[i]) /\ (log[i].source = Local => log[i].vantage \in Collectors)

(* A record is as sound as what it carries.                                *)
LEMMA RecordIsSound ==
  ASSUME NEW id, NEW source, NEW v, NEW b, NEW t, NEW o \in Outcomes
  PROVE  Sound(Record(id, source, v, b, t, o))
<1> DEFINE r == Record(id, source, v, b, t, o)
<1>1. r.facts = o.facts /\ r.eligible = o.eligible /\ r.arrived = o.arrived
  BY DEF Record
<1> HIDE DEF r
<1>2. Sound(o)
  BY OutcomeIsSound
<1>3. Arrived(r) = Arrived(o) /\ \A first : CountsFrom(r, first) <=> CountsFrom(o, first)
  BY <1>1 DEF Arrived, CountsFrom
<1>4. Sound(r)
  BY <1>1, <1>2, <1>3 DEF Sound
<1> QED BY <1>4 DEF r

(* An appended line is the last one.                                       *)
LEMMA AppendedLast ==
  ASSUME NEW S, NEW q \in Seq(S), NEW x \in S, NEW i \in DOMAIN Append(q, x)
  PROVE  IF i \in DOMAIN q THEN Append(q, x)[i] = q[i] ELSE Append(q, x)[i] = x
OBVIOUS

(* An append keeps the log so, and nothing else changes it.                *)
LEMMA HeardInvariance == Spec => []Heard
<1>1. Init => Heard
  BY DEF Init, Heard
<1>2. TypeOK /\ Heard /\ [Next]_vars => Heard'
  <2> SUFFICES ASSUME TypeOK, Heard, [Next]_vars PROVE Heard'
    OBVIOUS
  <2>1. ASSUME NEW r, Sound(r), r.source = Local => r.vantage \in Collectors,
               log' = Append(log, r)
        PROVE  Heard'
    <3>1. log \in Seq(Records)
      BY DEF TypeOK
    <3>2. ASSUME NEW i \in DOMAIN log'
          PROVE  log'[i] = r \/ (i \in DOMAIN log /\ log'[i] = log[i])
      <4> DEFINE U == Records \union {r}
      <4>1. log \in Seq(U) /\ r \in U
        BY <3>1
      <4> HIDE DEF U
      <4> QED BY <2>1, <3>2, <4>1, AppendedLast
    <3>3. ASSUME NEW i \in DOMAIN log'
          PROVE  Sound(log'[i]) /\ (log'[i].source = Local => log'[i].vantage \in Collectors)
      BY <2>1, <3>2, <3>3 DEF Heard
    <3> QED BY <3>3 DEF Heard, Sound, Arrived, CountsFrom
  <2>2. ASSUME NEW b \in Blocks, NEW t \in Instants, NEW o \in Outcomes,
               NEW v \in Regions, Upload(v, b, t, o)
        PROVE  Heard'
    <3> DEFINE r == Record(<<v, b>>, Remote, v, b, t, o)
    <3>1. Sound(r)
      BY RecordIsSound
    <3>2. r.source # Local
      BY DEF Record, Local, Remote
    <3>3. log' = Append(log, r)
      BY <2>2 DEF Upload
    <3> HIDE DEF r
    <3> QED BY <2>1, <3>1, <3>2, <3>3
  <2>3. ASSUME NEW b \in Blocks, NEW t \in Instants, NEW o \in Outcomes,
               NEW v \in Collectors, Emit(v, b, t, o)
        PROVE  Heard'
    <3> DEFINE r == Record(<<Local, Len(log)>>, Local, v, b, t, o)
    <3>1. Sound(r)
      BY RecordIsSound
    <3>2. r.vantage \in Collectors
      BY DEF Record
    <3>3. log' = Append(log, r)
      BY <2>3 DEF Emit
    <3> HIDE DEF r
    <3> QED BY <2>1, <3>1, <3>2, <3>3
  <2>4. CASE UNCHANGED log
    BY <2>4 DEF Heard, Sound, Arrived, CountsFrom
  <2> QED BY <2>2, <2>3, <2>4 DEF Next, Reconfigure, Advance, vars
<1> QED BY <1>1, <1>2, TypeCorrect, PTL DEF Spec

(* What reports are computed from was heard, and has the identity of its   *)
(* cohort if no collector runs at the vantage.                             *)
LEMMA PreparedHeard ==
  ASSUME TypeOK, Heard
  PROVE  /\ \A o \in prepareObservations : Sound(o)
         /\ \A o, p \in prepareObservations :
              o.vantage \notin Collectors /\ Cohort(o) = Cohort(p) => o = p
<1>1. \A i \in DOMAIN log :
        /\ Sound(log[i]) /\ log[i] \in Records
        /\ log[i].vantage \notin Collectors => log[i].id = Cohort(log[i])
  <2>1. \A i \in DOMAIN log : log[i] \in Records
    BY DEF TypeOK
  <2>2. \A i \in DOMAIN log : log[i].source \in {Remote, Local}
    BY <2>1 DEF Records
  <2> QED BY <2>1, <2>2 DEF TypeOK, Heard
<1>2. \A o \in prepareObservations : \E i \in retained : o = log[i] /\ FirstOfIdentity(retained, i)
  BY DEF prepareObservations, uniqueObservations
<1>3. retained \subseteq DOMAIN log
  BY DEF retained, loaded
<1>4. ASSUME NEW o \in prepareObservations, NEW p \in prepareObservations, o.id = p.id
      PROVE  o = p
  <2>1. PICK i \in retained : o = log[i] /\ FirstOfIdentity(retained, i)
    BY <1>2
  <2>2. PICK j \in retained : p = log[j] /\ FirstOfIdentity(retained, j)
    BY <1>2
  <2>3. i \in Nat /\ j \in Nat
    BY <1>3 DEF TypeOK
  <2>4. ~(i < j) /\ ~(j < i)
    BY <1>4, <2>1, <2>2 DEF FirstOfIdentity
  <2> QED BY <2>1, <2>2, <2>3, <2>4
<1>5. ASSUME NEW o \in prepareObservations, NEW p \in prepareObservations,
             o.vantage \notin Collectors, Cohort(o) = Cohort(p)
      PROVE  o = p
  <2>1. p.vantage = o.vantage
    BY <1>5 DEF Cohort
  <2>2. o.id = Cohort(o) /\ p.id = Cohort(p)
    BY <1>1, <1>2, <1>3, <1>5, <2>1
  <2> QED BY <1>4, <1>5, <2>2
<1> QED BY <1>1, <1>2, <1>3, <1>5

(* Counted records are among them.                                         *)
LEMMA GlobalCounted == Global.counted = Counted(prepareObservations)
  BY DEF Global, computePrepared, Counted, Accepted

(* The view of one vantage counts what the global report counts of it.     *)
LEMMA ViewCounted ==
  ASSUME TypeOK, NEW V
  PROVE  ComputeVantages(V).counted = {o \in Global.counted : o.vantage \in V}
<1>1. ComputeVantages(V).counted = Counted(Selected(prepareObservations, V))
  BY DEF ComputeVantages, computePrepared, Counted, Accepted
<1> QED BY <1>1, PreparedType, SelectionCounts, GlobalCounted

-----------------------------------------------------------------------------
(* What a record says of an endpoint is what the fact about it says.       *)
LEMMA OneFact ==
  ASSUME NEW o, Sound(o), NEW s \in o.facts, NEW field
  PROVE  Fact(o, s.endpoint, field) = s[field]
<1>1. {t \in o.facts : t.endpoint = s.endpoint} = {s}
  BY DEF Sound
<1>2. UNION {t[field] : t \in {s}} = s[field]
  OBVIOUS
<1> QED BY <1>1, <1>2 DEF Fact

(* What a report takes from a record is what some fact of it says.         *)
LEMMA FactIsSaid ==
  ASSUME NEW o, NEW e, NEW field, NEW x \in Fact(o, e, field)
  PROVE  \E s \in o.facts : s.endpoint = e /\ x \in s[field]
  BY DEF Fact

(* A counted record is in the log, and has its place in the order.         *)
LEMMA CountedType ==
  ASSUME TypeOK, Heard, NEW o \in Global.counted
  PROVE  o \in prepareObservations /\ o \in Records /\ Sound(o) /\ Order(o) \in DOMAIN log
<1>1. o \in prepareObservations
  BY GlobalCounted DEF Counted, Accepted
<1>2. Order(o) \in DOMAIN log
  <2> DEFINE I == {i \in retained : log[i] = o}
  <2>1. I # {}
    BY <1>1 DEF prepareObservations, uniqueObservations
  <2>2. I \in SUBSET DOMAIN log /\ I \in SUBSET Nat
    BY DEF retained, loaded, TypeOK
  <2> HIDE DEF I
  <2>3. Min(I) \in I
    BY <2>1, <2>2, MinOfNaturals
  <2> QED BY <2>2, <2>3 DEF Order, I
<1> QED BY <1>1, <1>2, PreparedType, PreparedHeard

(* Of counted records one is later than no other: they are finitely many   *)
(* at one time, and ordered by their places in the log.                    *)
LEMMA LatestCounted ==
  ASSUME TypeOK, Heard, NEW R \in SUBSET Global.counted, NEW o \in R,
         \A p, q \in R : p.at = q.at
  PROVE  \E p \in R : \A q \in R : ~Later(q, p)
<1>1. \A p \in R : Order(p) \in 1 .. Len(log)
  BY CountedType DEF TypeOK
<1>2. Len(log) \in Nat
  BY DEF TypeOK
<1> DEFINE Distances == {Len(log) - Order(p) : p \in R}
<1>3. Distances # {} /\ Distances \in SUBSET Nat
  BY <1>1, <1>2
<1>4. Min(Distances) \in Distances /\ \A d \in Distances : Min(Distances) <= d
  <2> HIDE DEF Distances
  <2> QED BY <1>3, MinOfNaturals
<1>5. PICK p \in R : Min(Distances) = Len(log) - Order(p)
  BY <1>4
<1>6. \A q \in R : Len(log) - Order(p) <= Len(log) - Order(q)
  <2> TAKE q \in R
  <2>1. Len(log) - Order(q) \in Distances
    OBVIOUS
  <2> HIDE DEF Distances
  <2> QED BY <1>4, <1>5, <2>1
<1>7. \A q \in R : Order(q) <= Order(p)
  BY <1>1, <1>2, <1>6
<1>8. \A q \in R : q.at \in Nat
  BY CountedType DEF Records
<1>9. ASSUME NEW q \in R PROVE ~Later(q, p)
  BY <1>1, <1>7, <1>8 DEF Later
<1> QED BY <1>9

(* Counted records of a cohort are of one time.                            *)
LEMMA CountedTogether ==
  ASSUME TypeOK, Heard, NEW o \in Global.counted, NEW p \in Global.counted, Cohort(o) = Cohort(p)
  PROVE  o.at = p.at
<1>1. /\ o \in prepareObservations /\ p \in prepareObservations
      /\ o.at \in Nat /\ p.at \in Nat
  BY CountedType DEF Records
<1>2. Canonical(prepareObservations, o) /\ Canonical(prepareObservations, p)
  BY GlobalCounted DEF Counted
<1> QED BY <1>1, <1>2 DEF Canonical

(* Evidence is what coinbases of solo pools show of the configured ones,   *)
(* and there is some for every cohort that shows any.                      *)
LEMMA EvidenceIsShown ==
  ASSUME TypeOK, Heard, NEW e \in pools
  PROVE  LET counted == Global.counted
             shown   == {o \in counted : Fact(o, e, "payout") # {}}
         IN  /\ Evidence(counted, e) \subseteq shown
             /\ \A o \in shown : \E p \in Evidence(counted, e) : Cohort(p) = Cohort(o)
<1> DEFINE counted == Global.counted
           shown   == {o \in counted : Fact(o, e, "payout") # {}}
<1>1. \A o \in shown : e \in Known(o)
  <2> TAKE o \in shown
  <2>1. PICK x \in Fact(o, e, "payout") : TRUE
    OBVIOUS
  <2>2. PICK s \in o.facts : s.endpoint = e
    BY FactIsSaid
  <2>3. Sound(o)
    BY CountedType
  <2> QED BY <2>2, <2>3 DEF Sound, Known
<1>2. ASSUME NEW o \in shown
      PROVE  \E p \in Evidence(counted, e) : Cohort(p) = Cohort(o)
  <2> DEFINE R == {p \in shown : Cohort(p) = Cohort(o)}
  <2>1. R \in SUBSET counted /\ o \in R
    OBVIOUS
  <2>2. \A p, q \in R : p.at = q.at
    BY CountedTogether
  <2>3. \E p \in R : \A q \in R : ~Later(q, p)
    <3> HIDE DEF R
    <3> QED BY <2>1, <2>2, LatestCounted
  <2>4. PICK p \in R : \A q \in R : ~Later(q, p)
    BY <2>3
  <2>5. \A q \in counted : e \in Known(q) /\ Fact(q, e, "payout") # {} /\ Cohort(q) = Cohort(p) => q \in R
    OBVIOUS
  <2>6. p \in Evidence(counted, e)
    BY <1>1, <2>4, <2>5 DEF Evidence
  <2> QED BY <2>6
<1> QED BY <1>2 DEF Evidence

(* The score is one of the rest of the report.                             *)
ScoredFields == {"blocks", "median", "p95", "availability", "timings", "certificates",
                 "worker", "fees"}

(* Of two reports that agree on the rest, the scores are the same.         *)
LEMMA ScoreOfRest ==
  ASSUME NEW e, NEW q, NEW r, \A field \in ScoredFields : q[field] = r[field]
  PROVE  overallScore(e, q) = overallScore(e, r)
<1>1. /\ q.blocks = r.blocks /\ q.median = r.median /\ q.p95 = r.p95
      /\ q.availability = r.availability /\ q.timings = r.timings
      /\ q.certificates = r.certificates /\ q.worker = r.worker /\ q.fees = r.fees
  BY DEF ScoredFields
<1>2. /\ walletOverride(e, q) <=> walletOverride(e, r)
      /\ coreScores(q) = coreScores(r)
      /\ optionalScores(e, q) = optionalScores(e, r)
      /\ penalties(q) = penalties(r)
  BY <1>1 DEF walletOverride, coreScores, optionalScores, penalties
<1> QED BY <1>1, <1>2 DEF overallScore

(* Applying the overall score changes no other field.                      *)
LEMMA Applied ==
  ASSUME NEW e, NEW r, ScoredFields \cup {"score"} \subseteq DOMAIN r
  PROVE  /\ \A field \in ScoredFields : applyOverallScore(e, r)[field] = r[field]
         /\ applyOverallScore(e, r).score = overallScore(e, applyOverallScore(e, r))
         /\ DOMAIN applyOverallScore(e, r) = DOMAIN r
<1> DEFINE q == applyOverallScore(e, r)
<1>1. /\ \A field \in ScoredFields : q[field] = r[field]
      /\ q.score = overallScore(e, r)
      /\ DOMAIN q = DOMAIN r
  BY DEF applyOverallScore, ScoredFields
<1>2. overallScore(e, q) = overallScore(e, r)
  <2> HIDE DEF q
  <2> QED BY <1>1, ScoreOfRest
<1> QED BY <1>1, <1>2

(* The fields of a report, and the verdict on the worker's address.        *)
ReportFields == ScoredFields \cup {"wins", "winEligible", "score"}

(* A built report has the fields of a pool report, and the score of them.  *)
LEMMA BuildApplied ==
  ASSUME NEW obs, NEW counted, NEW e, NEW combine
  PROVE  LET r == build(obs, counted, e, combine)
             q == PoolReport(obs, counted, e, combine)
         IN  /\ \A field \in ScoredFields : r[field] = q[field]
             /\ r.worker = workerAddressStatus(Evidence(counted, e), e)
             /\ r.score = overallScore(e, r)
             /\ DOMAIN r = ReportFields
<1> DEFINE q == PoolReport(obs, counted, e, combine)
<1>1. /\ DOMAIN q = ReportFields
      /\ q.worker = workerAddressStatus(Evidence(counted, e), e)
  BY DEF PoolReport, ReportFields, ScoredFields
<1> HIDE DEF q
<1> DEFINE r == applyOverallScore(e, q)
<1>2. /\ \A field \in ScoredFields : r[field] = q[field]
      /\ r.score = overallScore(e, r) /\ DOMAIN r = ReportFields
  BY <1>1, Applied DEF ReportFields
<1>3. build(obs, counted, e, combine) = r
  BY DEF build, q
<1> HIDE DEF r
<1>4. r.worker = q.worker
  BY <1>2 DEF ScoredFields
<1> QED BY <1>1, <1>2, <1>3, <1>4 DEF q

(* Of the global report (combine is a name, for the provers take FALSE for *)
(* a formula there).                                                       *)
LEMMA GlobalApplied ==
  ASSUME NEW e
  PROVE  LET r == GlobalReport(e)
             q == PoolReport(prepareObservations, Global.counted, e, FALSE) IN
         /\ \A field \in ScoredFields : r[field] = q[field]
         /\ r.worker = workerAddressStatus(Evidence(Global.counted, e), e)
         /\ r.score = overallScore(e, r)
         /\ DOMAIN r = ReportFields
<1> PICK combine : combine = FALSE
  OBVIOUS
<1> DEFINE r == build(prepareObservations, Global.counted, e, combine)
           q == PoolReport(prepareObservations, Global.counted, e, combine)
<1>1. \A field \in ScoredFields : r[field] = q[field]
  BY BuildApplied
<1>2. r.worker = workerAddressStatus(Evidence(Global.counted, e), e)
  BY BuildApplied
<1>3. r.score = overallScore(e, r)
  BY BuildApplied
<1>4. DOMAIN r = ReportFields
  BY BuildApplied
<1>5. GlobalReport(e) = r
  BY DEF GlobalReport
<1>6. q = PoolReport(prepareObservations, Global.counted, e, FALSE)
  OBVIOUS
<1> HIDE DEF r, q
<1> QED BY <1>1, <1>2, <1>3, <1>4, <1>5, <1>6

(* Evidence is global: the verdict on the worker that overrides a score is *)
(* the same in every view, whatever the view itself has counted.           *)
LEMMA WalletsOverride == TypeOK /\ Heard => WalletOverrides
<1> SUFFICES ASSUME TypeOK, Heard, NEW e \in pools \cap Solo
             PROVE  LET global == GlobalReport(e)
                        shown  == {o \in Global.counted : Fact(o, e, "payout") # {}}
                        robbed == {o \in shown : \E c \in Fact(o, e, "payout") : ~c.seen}
                        undisputed == {o \in shown :
                                         \A p \in shown : Cohort(p) = Cohort(o) => p \in robbed}
                    IN  \A view \in {global} \cup {RegionalReport(V, e, global) : V \in Views} :
                          /\ undisputed # {} => view.score = {0}
                          /\ robbed = {} => ~walletOverride(e, view)
  BY DEF WalletOverrides
<1> DEFINE counted  == Global.counted
           global   == GlobalReport(e)
           shown    == {o \in counted : Fact(o, e, "payout") # {}}
           robbed   == {o \in shown : \E c \in Fact(o, e, "payout") : ~c.seen}
           undisputed == {o \in shown : \A p \in shown : Cohort(p) = Cohort(o) => p \in robbed}
           evidence == Evidence(counted, e)
           worker   == workerAddressStatus(evidence, e)
           matches  == {o \in evidence : \A c \in Fact(o, e, "payout") : c.seen}
<1>1. worker = CASE evidence = {}                     -> "unknown"
                 [] matches = evidence /\ matches # {} -> "always_observed"
                 [] matches = {} /\ evidence # {}      -> "not_observed"
                 [] OTHER                             -> "varied"
  BY DEF workerAddressStatus
<1>2. /\ evidence \subseteq shown
      /\ \A o \in shown : \E p \in evidence : Cohort(p) = Cohort(o)
  BY EvidenceIsShown
<1>3. ASSUME NEW o \in undisputed
      PROVE  worker \in {"not_observed", "varied"}
  <2>0. PICK p \in evidence : Cohort(p) = Cohort(o)
    BY <1>2
  <2>1. p \in evidence /\ p \notin matches
    BY <1>2, <2>0
  <2>2. evidence # {} /\ matches # evidence
    BY <2>1
  <2> HIDE DEF evidence, matches, worker
  <2> QED BY <1>1, <2>2
<1>4. ASSUME robbed = {}
      PROVE  worker \notin {"not_observed", "varied"}
  <2>1. \A o \in shown : \A c \in Fact(o, e, "payout") : c.seen
    BY <1>4
  <2>2. matches = evidence
    BY <1>2, <2>1
  <2> HIDE DEF evidence, matches, worker
  <2> QED BY <1>1, <2>2
<1>5. ASSUME NEW view \in {global} \cup {RegionalReport(V, e, global) : V \in Views}
      PROVE  view.worker = worker /\ view.score = overallScore(e, view)
  <2>1. /\ global.worker = worker /\ global.score = overallScore(e, global)
        /\ DOMAIN global = ReportFields
    BY GlobalApplied
  <2>2. CASE view = global
    BY <2>1, <2>2
  <2>3. ASSUME NEW V \in Views, view = RegionalReport(V, e, global)
        PROVE  view.worker = worker /\ view.score = overallScore(e, view)
    <3> DEFINE own == {o \in prepareObservations : o.vantage \in V}
               regional == build(own, ComputeVantages(V).counted, e, Cardinality(V) > 1)
               r == [regional EXCEPT !.worker = global.worker, !.fees = global.fees]
    <3>1. DOMAIN regional = ReportFields
      <4> PICK combine : combine = (Cardinality(V) > 1)
        OBVIOUS
      <4>1. DOMAIN build(own, ComputeVantages(V).counted, e, combine) = ReportFields
        BY BuildApplied
      <4> QED BY <4>1
    <3> HIDE DEF regional, global
    <3>2. DOMAIN r = ReportFields /\ r.worker = global.worker
      BY <3>1 DEF ReportFields, ScoredFields
    <3>3. view = applyOverallScore(e, r)
      BY <2>3 DEF RegionalReport, WithEvidence, regional
    <3> HIDE DEF r
    <3>4. ScoredFields \cup {"score"} \subseteq DOMAIN r /\ "worker" \in ScoredFields
      BY <3>2 DEF ReportFields, ScoredFields
    <3> QED BY <2>1, <3>2, <3>3, <3>4, Applied
  <2> QED BY <2>2, <2>3
<1>6. ASSUME NEW view \in {global} \cup {RegionalReport(V, e, global) : V \in Views}
      PROVE  /\ undisputed # {} => view.score = {0}
             /\ robbed = {} => ~walletOverride(e, view)
  <2>1. view.worker = worker /\ view.score = overallScore(e, view)
    BY <1>5, <1>6
  <2>2. walletOverride(e, view) <=> worker \in {"not_observed", "varied"}
    BY <2>1 DEF walletOverride
  <2>3. walletOverride(e, view) => view.score = {0}
    BY <2>1 DEF overallScore
  <2> HIDE DEF robbed, undisputed, worker
  <2> QED BY <1>3, <1>4, <2>2, <2>3
<1> QED BY <1>6

(* A solo pool that undisputedly did not pay the miner for a block scores  *)
(* zero in every view, and one that always did is overridden in none       *)
(* (overallScore, ComputeVantages), for any log of derived records.        *)
THEOREM WalletOverridden == Spec => []WalletOverrides
  BY TypeCorrect, HeardInvariance, WalletsOverride, PTL

-----------------------------------------------------------------------------
(* Who arrived has an offset, which is 0 exactly if nobody preceded him.   *)
LEMMA OffsetOfArrival ==
  ASSUME NEW o, Sound(o), NEW e \in o.arrived
  PROVE  /\ Offset(o, e) \in Nat
         /\ Offset(o, e) = 0 <=>
              \A t \in UNION {f.received : f \in o.facts} : Min(Fact(o, e, "received")) <= t
<1>1. PICK s \in o.facts : s.endpoint = e /\ s.received # {}
  BY DEF Sound, Arrived
<1>2. PICK first \in Nat : CountsFrom(o, first)
  BY DEF Sound
<1>3. PICK t \in s.received : TRUE
  BY <1>1
<1>4. t \in Nat /\ first <= t /\ s.received = {t} /\ s.offset = {t - first}
  BY <1>2, <1>3 DEF CountsFrom
<1>5. Fact(o, e, "received") = {t}
  BY <1>1, <1>4, OneFact
<1>6. Fact(o, e, "offset") = {t - first}
  BY <1>1, <1>4, OneFact
<1>7. \A n \in Int : Min({n}) = n
  BY DEF Min
<1>8. Min(Fact(o, e, "received")) = t /\ Offset(o, e) = t - first
  BY <1>4, <1>5, <1>6, <1>7 DEF Offset
<1>9. \A u \in UNION {f.received : f \in o.facts} : u \in Nat /\ first <= u
  BY <1>2 DEF CountsFrom
<1>10. first \in UNION {f.received : f \in o.facts}
  BY <1>2 DEF CountsFrom
<1> DEFINE all == UNION {f.received : f \in o.facts}
<1> HIDE DEF all
<1>11. t - first \in Nat /\ (t - first = 0 <=> \A u \in all : t <= u)
  BY <1>4, <1>9, <1>10 DEF all
<1> QED BY <1>8, <1>11 DEF all

(* At a vantage without a collector a delivery is the only one of its      *)
(* cohort, and the offset of the cohort is its offset.                     *)
LEMMA OffsetOfCohort ==
  ASSUME TypeOK, Heard, NEW deliveries \in SUBSET Global.counted, NEW e,
         NEW o \in deliveries, o.vantage \notin Collectors, e \in o.arrived
  PROVE  Offsets(deliveries, e)[Cohort(o)] = Offset(o, e)
<1>1. {p \in deliveries : Cohort(p) = Cohort(o)} = {o}
  BY CountedType, PreparedHeard
<1>2. {Offset(p, e) : p \in {o}} = {Offset(o, e)}
  OBVIOUS
<1>3. Offset(o, e) \in Nat
  BY CountedType, OffsetOfArrival
<1>4. Min({Offset(o, e)}) = Offset(o, e)
  <2>1. \A n \in Nat : Min({n}) = n
    BY DEF Min
  <2> QED BY <1>3, <2>1
<1>5. Offsets(deliveries, e)[Cohort(o)]
        = Min({Offset(p, e) : p \in {q \in deliveries : Cohort(q) = Cohort(o)}})
  BY DEF Offsets
<1> QED BY <1>1, <1>2, <1>4, <1>5

(* A bijection: each record of a region whose first arrival the endpoint   *)
(* has is one cohort with the offset 0, and conversely.                    *)
LEMMA ArrivalsWin == TypeOK /\ Heard => FirstArrivalWins
<1> SUFFICES ASSUME TypeOK, Heard, NEW v \in Regions \ Collectors, NEW e \in pools
             PROVE  Wins(latencySamples(ComputeVantages({v}).counted, e, FALSE)) =
                      Cardinality({o \in Recent(Global.counted) :
                        /\ o.vantage = v /\ e \in Known(o) \cap o.arrived
                        /\ \A t \in UNION {f.received : f \in o.facts} :
                             Min(Fact(o, e, "received")) <= t})
  BY DEF FirstArrivalWins
<1> DEFINE counted    == ComputeVantages({v}).counted
           deliveries == Deliveries(Recent(counted), e)
           latency    == Offsets(deliveries, e)
           first      == {o \in Recent(Global.counted) :
                            /\ o.vantage = v /\ e \in Known(o) \cap o.arrived
                            /\ \A t \in UNION {f.received : f \in o.facts} :
                                 Min(Fact(o, e, "received")) <= t}
           won        == {k \in DOMAIN latency : latency[k] = 0}
           cohort     == [o \in first |-> Cohort(o)]
<1>1. counted = {o \in Global.counted : o.vantage = v}
  BY ViewCounted
<1>2. \A o \in Global.counted : Sound(o)
  BY CountedType
<1>3. \A o \in Global.counted : \A p \in Global.counted :
        o.vantage = v /\ Cohort(o) = Cohort(p) => o = p
  BY CountedType, PreparedHeard
<1>4. deliveries = {o \in Recent(Global.counted) : o.vantage = v /\ e \in Known(o) \cap o.arrived}
  <2>1. \A o \in Global.counted : e \in o.arrived => Offset(o, e) >= 0
    BY <1>2, OffsetOfArrival
  <2>2. Recent(counted) = {o \in Recent(Global.counted) : o.vantage = v}
    BY <1>1 DEF Recent
  <2>3. Recent(Global.counted) \subseteq Global.counted
    BY DEF Recent
  <2> HIDE DEF counted
  <2> QED BY <2>1, <2>2, <2>3 DEF Deliveries
<1>5. /\ deliveries \subseteq Global.counted
      /\ \A o \in deliveries : e \in o.arrived /\ o.vantage = v
  BY <1>4 DEF Recent
<1>6. first \subseteq deliveries
  BY <1>4
<1>7. \A o \in deliveries : o \in first <=> Offset(o, e) = 0
  <2> TAKE o \in deliveries
  <2>1. Offset(o, e) = 0 <=>
          \A t \in UNION {f.received : f \in o.facts} : Min(Fact(o, e, "received")) <= t
    BY <1>2, <1>5, OffsetOfArrival
  <2> QED BY <1>4, <2>1
<1>8. DOMAIN latency = {Cohort(o) : o \in deliveries}
  BY DEF Offsets
<1>9. \A o \in deliveries : latency[Cohort(o)] = Offset(o, e)
  <2> HIDE DEF deliveries
  <2> QED BY <1>5, OffsetOfCohort
<1> HIDE DEF deliveries, latency, first
<1>10. cohort \in Bijection(first, won)
  <2>1. cohort \in [first -> won]
    BY <1>6, <1>7, <1>8, <1>9
  <2>2. \A o, p \in first : cohort[o] = cohort[p] => o = p
    BY <1>3, <1>5, <1>6
  <2>3. \A k \in won : \E o \in first : cohort[o] = k
    BY <1>7, <1>8, <1>9
  <2> HIDE DEF cohort, won
  <2> QED BY <2>1, <2>2, <2>3 DEF Bijection, Injection, IsInjective, Surjection
<1>11. IsFiniteSet(first)
  <2>1. Global.counted \subseteq prepareObservations /\ IsFiniteSet(prepareObservations)
    BY CountedType, PreparedType
  <2>2. first \subseteq prepareObservations
    BY <1>5, <1>6, <2>1
  <2> QED BY <2>1, <2>2, FS_Subset
<1>12. Cardinality(won) = Cardinality(first)
  <2>1. ExistsBijection(first, won)
    BY <1>10 DEF ExistsBijection
  <2> HIDE DEF won
  <2> QED BY <1>11, <2>1, FS_Bijection
<1>13. Wins(latencySamples(counted, e, FALSE)) = Cardinality(won)
  BY DEF Wins, latencySamples, latency, deliveries
<1> QED BY <1>12, <1>13 DEF first

(* Wins are first arrivals: a region counts as many wins of an endpoint as *)
(* there are recent counted blocks at which no other endpoint preceded it, *)
(* although the report only sees offsets, cohort by cohort (in the code to *)
(* the microsecond, to which offsets are cut).                             *)
THEOREM FirstArrivals == Spec => []FirstArrivalWins
  BY TypeCorrect, HeardInvariance, ArrivalsWin, PTL

-----------------------------------------------------------------------------
(* Scores.  Of two integers, and between two.                              *)
LEMMA ClampIs ==
  ASSUME NEW z \in Int, NEW low \in Int, NEW high \in Int
  PROVE  Clamp(z, low, high) = LET m == IF z <= high THEN z ELSE high
                               IN  IF low >= m THEN low ELSE m
<1>1. \A a, b \in Int : Min({a, b}) = IF a <= b THEN a ELSE b
  BY DEF Min
<1>2. \A a, b \in Int : Max({a, b}) = IF a >= b THEN a ELSE b
  BY DEF Max
<1> QED BY <1>1, <1>2 DEF Clamp

(* A clamped integer is an integer.                                        *)
LEMMA ClampType ==
  ASSUME NEW z \in Int, NEW low \in Int, NEW high \in Int
  PROVE  Clamp(z, low, high) \in Int
BY ClampIs

(* Clamping keeps the order.                                               *)
LEMMA ClampKeepsOrder ==
  ASSUME NEW x \in Int, NEW y \in Int, x <= y, NEW low \in Int, NEW high \in Int, low <= high
  PROVE  Clamp(x, low, high) <= Clamp(y, low, high)
BY ClampIs

(* The best score, as a name: the provers compare large numerals badly.    *)
Best == 10000

(* The name stands for a natural.                                          *)
LEMMA BestIsNatural == Best \in Nat
  BY DEF Best

(* Anchors with increasing values and scores that are hundredths.          *)
Anchors(anchors, n) ==
  /\ n \in Nat /\ n >= 1 /\ DOMAIN anchors = 1 .. n /\ Len(anchors) = n
  /\ \A i \in 1 .. n : anchors[i][1] \in Int /\ anchors[i][2] \in 0 .. Best
  /\ \A i, j \in 1 .. n : i < j => anchors[i][1] < anchors[j][1]

(* The four tables of anchors are such.                                    *)
LEMMA AnchorsOfScores ==
  /\ Anchors(miningLossScoreAnchors, 7)
  /\ Anchors(p95ScoreAnchors, 7)
  /\ Anchors(availabilityScoreAnchors, 7)
  /\ Anchors(responsivenessScoreAnchors, 6)
<1>1. Anchors(miningLossScoreAnchors, 7)
  BY DEF Anchors, miningLossScoreAnchors, Best
<1>2. Anchors(p95ScoreAnchors, 7)
  BY DEF Anchors, p95ScoreAnchors, Best
<1>3. Anchors(availabilityScoreAnchors, 7)
  BY DEF Anchors, availabilityScoreAnchors, Best
<1>4. Anchors(responsivenessScoreAnchors, 6)
  BY DEF Anchors, responsivenessScoreAnchors, Best
<1> QED BY <1>1, <1>2, <1>3, <1>4

(* A share of an integer lies between the bounds of both.                  *)
LEMMA Share ==
  ASSUME NEW d \in Nat, NEW k \in Nat, k <= d, NEW g \in Int,
         NEW m \in Int, NEW n \in Int, m <= g, g <= n, m <= 0, 0 <= n
  PROVE  m * d <= k * g /\ k * g <= n * d
<1>1. \A x, y \in Nat : x * y \in Nat
  OBVIOUS
<1>2. CASE g >= 0
  <2>1. k * g >= 0 /\ m * d <= 0
    <3>1. k * g \in Nat /\ (-m) * d \in Nat
      BY <1>1, <1>2
    <3> QED BY <3>1
  <2>2. (d - k) * g \in Nat /\ (n - g) * d \in Nat
    BY <1>1, <1>2
  <2>3. (d - k) * g = d * g - k * g /\ (n - g) * d = n * d - d * g
    OBVIOUS
  <2> QED BY <2>1, <2>2, <2>3
<1>3. CASE g < 0
  <2>1. k * g <= 0 /\ n * d >= 0
    <3>1. k * (-g) \in Nat /\ n * d \in Nat
      BY <1>1, <1>3
    <3> QED BY <3>1
  <2>2. (d - k) * (-g) \in Nat /\ (g - m) * d \in Nat
    BY <1>1, <1>3
  <2>3. (d - k) * (-g) = k * g - d * g /\ (g - m) * d = d * g - m * d
    OBVIOUS
  <2> QED BY <2>1, <2>2, <2>3
<1> QED BY <1>2, <1>3

(* Between two anchors the score is between theirs.                        *)
LEMMA Interpolated ==
  ASSUME NEW a \in Int, NEW b \in Int, NEW x \in Int, a < x, x <= b,
         NEW s \in 0 .. Best, NEW t \in 0 .. Best
  PROVE  s + ((x - a) * (t - s)) \div (b - a) \in 0 .. Best
<1> DEFINE d == b - a
           k == x - a
           g == t - s
           m == -s
           n == Best - s
           q == (k * g) \div d
<1>1. d \in Nat /\ d > 0 /\ k \in Nat /\ k <= d /\ g \in Int
  OBVIOUS
<1>2. m \in Int /\ n \in Int /\ m <= g /\ g <= n /\ m <= 0 /\ 0 <= n
  BY BestIsNatural
<1>3. q \in m .. n
  <2> HIDE DEF d, k, g, m, n
  <2>1. m * d <= k * g /\ k * g <= n * d
    BY <1>1, <1>2, Share
  <2>2. k * g \in Int
    BY <1>1
  <2> QED BY <1>1, <1>2, <2>1, <2>2, QuotientWithin
<1>4. s + q \in 0 .. Best
  <2> HIDE DEF q
  <2> QED BY <1>3, BestIsNatural
<1> QED BY <1>4, Zenon

(* A score read off any such table is between 0 and the best.              *)
LEMMA AnchorScore ==
  ASSUME NEW value \in Int, NEW anchors, NEW n, Anchors(anchors, n)
  PROVE  scoreFromAnchors(value, anchors) \in 0 .. Best
<1> DEFINE reached == {i \in DOMAIN anchors : value <= anchors[i][1]}
           k       == Min(reached)
           upper   == anchors[k]
           lower   == anchors[k - 1]
<1>1. n \in Nat /\ n >= 1 /\ DOMAIN anchors = 1 .. n /\ Len(anchors) = n
  BY DEF Anchors
<1>5. \A i \in 1 .. n : anchors[i][1] \in Int /\ anchors[i][2] \in 0 .. Best
  BY DEF Anchors
<1>6. \A i, j \in 1 .. n : i < j => anchors[i][1] < anchors[j][1]
  BY DEF Anchors
<1>2. CASE reached = {}
  <2>1. scoreFromAnchors(value, anchors) = anchors[Len(anchors)][2]
    BY <1>2 DEF scoreFromAnchors
  <2> QED BY <1>1, <1>5, <2>1
<1>3. CASE 1 \in reached
  <2>1. scoreFromAnchors(value, anchors) = anchors[1][2]
    BY <1>3 DEF scoreFromAnchors
  <2> QED BY <1>1, <1>5, <2>1
<1>4. CASE reached # {} /\ 1 \notin reached
  <2>1. k \in reached /\ \A i \in reached : k <= i
    <3>1. reached \in SUBSET Nat
      BY <1>1
    <3> HIDE DEF reached
    <3> QED BY <1>4, <3>1, MinOfNaturals
  <2>2. k \in 2 .. n /\ k - 1 \in 1 .. n
    <3> HIDE DEF k
    <3> QED BY <1>1, <1>4, <2>1
  <2>3. value <= upper[1] /\ lower[1] < value
    <3> HIDE DEF k
    <3>1. k - 1 \notin reached
      BY <2>1, <2>2
    <3> QED BY <1>1, <1>5, <1>6, <2>1, <2>2, <3>1
  <2>4. /\ upper[1] \in Int /\ lower[1] \in Int
        /\ upper[2] \in 0 .. Best /\ lower[2] \in 0 .. Best
    <3> HIDE DEF k
    <3> QED BY <1>5, <2>2
  <2>5. scoreFromAnchors(value, anchors)
          = lower[2] + ((value - lower[1]) * (upper[2] - lower[2])) \div (upper[1] - lower[1])
    BY <1>4 DEF scoreFromAnchors
  <2> HIDE DEF upper, lower
  <2>6. lower[2] + ((value - lower[1]) * (upper[2] - lower[2])) \div (upper[1] - lower[1])
          \in 0 .. Best
    BY <2>3, <2>4, Interpolated, Zenon
  <2> QED BY <2>5, <2>6, Zenon
<1> QED BY <1>2, <1>3, <1>4

(* Whatever is measured, in range of the anchors or beyond it, every part  *)
(* of the score is between 0 and 100 per cent.                             *)
THEOREM AnchorScores ==
  ASSUME NEW value \in Int
  PROVE  \A anchors \in {miningLossScoreAnchors, p95ScoreAnchors,
                         availabilityScoreAnchors, responsivenessScoreAnchors} :
           scoreFromAnchors(value, anchors) \in 0 .. 10000
<1> DEFINE tables == {miningLossScoreAnchors, p95ScoreAnchors,
                      availabilityScoreAnchors, responsivenessScoreAnchors}
<1>1. \A anchors, n : Anchors(anchors, n) => scoreFromAnchors(value, anchors) \in 0 .. Best
  BY AnchorScore
<1>2. \A anchors \in tables : scoreFromAnchors(value, anchors) \in 0 .. Best
  BY <1>1, AnchorsOfScores
<1>3. \A anchors \in tables : scoreFromAnchors(value, anchors) \in 0 .. 10000
  BY <1>2 DEF Best
<1> QED BY <1>3

-----------------------------------------------------------------------------
(* A percentile of finitely many samples is one of them.                   *)
LEMMA PercentileIsSample ==
  ASSUME NEW D, IsFiniteSet(D), D # {}, NEW samples \in [D -> Nat], NEW p \in {50, 95}
  PROVE  percentile(samples, p) \in Nat
<1> DEFINE R     == Range(samples)
           most  == Max(R)
           below(v) == {k \in D : samples[k] <= v}
           V     == {v \in R : 100 * Cardinality(below(v)) >= p * Cardinality(D)}
<1>1. R = {samples[k] : k \in D} /\ R \in SUBSET Nat /\ R # {}
  BY DEF Range
<1>2. IsFiniteSet(R)
  BY <1>1, ImageIsFinite
<1>3. most \in R /\ \A v \in R : most >= v
  <2> HIDE DEF R
  <2>1. R \in SUBSET Int
    BY <1>1
  <2> QED BY <1>1, <1>2, <2>1, MaxOfIntegers
<1>4. below(most) = D
  <2> HIDE DEF most
  <2>1. \A k \in D : samples[k] \in R /\ samples[k] \in Nat /\ most \in Nat
    BY <1>1, <1>3
  <2> QED BY <1>3, <2>1
<1>5. Cardinality(D) \in Nat
  BY FS_CardinalityType
<1>6. 100 * Cardinality(D) >= p * Cardinality(D)
  BY <1>5
<1>7. most \in V
  <2> HIDE DEF most, R
  <2> QED BY <1>3, <1>4, <1>6
<1>8. Min(V) \in Nat
  <2>1. V \in SUBSET Nat
    BY <1>1
  <2> HIDE DEF V
  <2> QED BY <1>7, <2>1, MinOfNaturals
<1>9. percentile(samples, p) = Min(V)
  BY DEF percentile
<1> QED BY <1>8, <1>9

(* The first of n different things, in the order of an enumeration.        *)
Enumerates(q, n, D) ==
  q \in [1 .. n -> D] /\ \A i, j \in 1 .. n : q[i] = q[j] => i = j

Firsts(q, m) == {q[i] : i \in 1 .. m}

(* The slice the code sorts: an enumeration in the order of the values;    *)
(* equal ones may change places.                                           *)
Sorts(q, samples, n) ==
  /\ Enumerates(q, n, DOMAIN samples)
  /\ \A k \in DOMAIN samples : \E i \in 1 .. n : q[i] = k
  /\ \A i, j \in 1 .. n : i <= j => samples[q[i]] <= samples[q[j]]

(* The first m of them are m.                                              *)
LEMMA FirstOnes ==
  ASSUME NEW D, NEW n \in Nat, NEW m \in 0 .. n, NEW q, Enumerates(q, n, D)
  PROVE  IsFiniteSet(Firsts(q, m)) /\ Cardinality(Firsts(q, m)) = m
<1> DEFINE first == Firsts(q, m)
           f == [i \in 1 .. m |-> q[i]]
<1>1. 1 .. m \subseteq 1 .. n
  OBVIOUS
<1>2. f \in Bijection(1 .. m, first)
  <2>1. f \in [1 .. m -> first]
    BY DEF Firsts
  <2>2. \A i, j \in 1 .. m : f[i] = f[j] => i = j
    BY <1>1 DEF Enumerates
  <2>3. \A x \in first : \E i \in 1 .. m : f[i] = x
    BY DEF Firsts
  <2> HIDE DEF f, first
  <2> QED BY <2>1, <2>2, <2>3 DEF Bijection, Injection, IsInjective, Surjection
<1>3. IsFiniteSet(1 .. m) /\ Cardinality(1 .. m) = m
  <2>1. m >= 1 => Cardinality(1 .. m) = m
    BY FS_Interval
  <2>2. m = 0 => 1 .. m = {}
    OBVIOUS
  <2> QED BY <2>1, <2>2, FS_Interval, FS_EmptySet
<1> HIDE DEF f, first
<1>4. ExistsBijection(1 .. m, first)
  BY <1>2 DEF ExistsBijection
<1>5. IsFiniteSet(first) /\ Cardinality(first) = m
  BY <1>3, <1>4, FS_Bijection
<1> QED BY <1>5 DEF first

(* What percentile chooses by counting is the sample at ceil(p * n) of the *)
(* sorted ones, for any samples and any order of equal ones: the index of  *)
(* the code is never out of range.                                         *)
THEOREM PercentileSorted ==
  ASSUME NEW D, NEW samples \in [D -> Nat], NEW n \in Nat \ {0}, NEW p \in 1 .. 100,
         NEW q, Sorts(q, samples, n)
  PROVE  LET index == (p * n + 99) \div 100
         IN  index \in 1 .. n /\ percentile(samples, p) = samples[q[index]]
<1> DEFINE index == (p * n + 99) \div 100
           v == samples[q[index]]
           below(w) == {k \in D : samples[k] <= w}
           V == {w \in Range(samples) : 100 * Cardinality(below(w)) >= p * Cardinality(D)}
           part == p * n
<1>1. part \in Nat /\ 1 <= part /\ part <= 100 * n
  OBVIOUS
<1>2. index \in 1 .. n /\ 100 * index >= part /\ 100 * (index - 1) < part
  <2>1. \A k \in Nat : LET c == (k + 99) \div 100 IN
          c \in Int /\ 100 * c >= k /\ 100 * (c - 1) < k
    OBVIOUS
  <2>2. index \in Int /\ 100 * index >= part /\ 100 * (index - 1) < part
    <3> HIDE DEF part
    <3>1. index = (part + 99) \div 100
      BY DEF part
    <3> HIDE DEF index
    <3> QED BY <1>1, <2>1, <3>1
  <2> HIDE DEF index, part
  <2> QED BY <1>1, <2>2
<1> HIDE DEF index, part
<1>3. /\ q \in [1 .. n -> D]
      /\ Enumerates(q, n, D)
      /\ \A k \in D : \E i \in 1 .. n : q[i] = k
      /\ \A i, j \in 1 .. n : i <= j => samples[q[i]] <= samples[q[j]]
  BY DEF Sorts, Enumerates
<1>4. IsFiniteSet(D) /\ Cardinality(D) = n
  <2>1. Firsts(q, n) = D
    BY <1>3 DEF Firsts
  <2>2. n \in 0 .. n
    OBVIOUS
  <2> QED BY <1>3, <2>1, <2>2, FirstOnes
<1>5. \A w : IsFiniteSet(below(w)) /\ Cardinality(below(w)) \in Nat
  <2> TAKE w
  <2>1. below(w) \subseteq D
    OBVIOUS
  <2> QED BY <1>4, <2>1, FS_Subset, FS_CardinalityType
<1>6. v \in Range(samples) /\ v \in Nat
  BY <1>2, <1>3 DEF Range
<1>7. 100 * Cardinality(below(v)) >= part
  <2> DEFINE first == Firsts(q, index)
  <2>1. first \subseteq below(v)
    BY <1>2, <1>3 DEF Firsts
  <2>2. Cardinality(first) = index
    <3>1. index \in 0 .. n
      BY <1>2
    <3> QED BY <1>3, <3>1, FirstOnes
  <2> HIDE DEF first
  <2>3. Cardinality(first) <= Cardinality(below(v))
    BY <1>5, <2>1, FS_Subset
  <2> HIDE DEF below, v
  <2>4. Cardinality(below(v)) \in Nat
    BY <1>5
  <2> QED BY <1>1, <1>2, <2>2, <2>3, <2>4
<1>8. ASSUME NEW w \in Range(samples), w < v
      PROVE  100 * Cardinality(below(w)) < part
  <2> DEFINE before == Firsts(q, index - 1)
  <2>1. below(w) \subseteq before
    <3>1. ASSUME NEW k \in below(w) PROVE k \in before
      <4>1. PICK i \in 1 .. n : q[i] = k
        BY <1>3
      <4>2. w \in Nat
        BY DEF Range
      <4>3. samples[q[i]] \in Nat /\ samples[q[i]] < v
        BY <1>6, <1>8, <3>1, <4>1, <4>2
      <4>4. ~(index <= i)
        BY <1>2, <1>3, <1>6, <4>3
      <4> QED BY <1>2, <4>1, <4>4 DEF Firsts
    <3> QED BY <3>1
  <2>2. IsFiniteSet(before) /\ Cardinality(before) = index - 1
    <3>1. index - 1 \in 0 .. n
      BY <1>2
    <3> QED BY <1>3, <3>1, FirstOnes
  <2> HIDE DEF before
  <2>3. Cardinality(below(w)) <= Cardinality(before)
    BY <2>1, <2>2, FS_Subset
  <2> HIDE DEF below, v
  <2>4. Cardinality(below(w)) \in Nat
    BY <1>5
  <2> QED BY <1>1, <1>2, <2>2, <2>3, <2>4
<1>9. p * Cardinality(D) = part
  BY <1>4 DEF part
<1>10. v \in V /\ \A w \in V : v <= w
  <2>1. v \in V
    BY <1>6, <1>7, <1>9
  <2>2. ASSUME NEW w \in V PROVE v <= w
    <3>1. w \in Range(samples) /\ 100 * Cardinality(below(w)) >= part
      BY <1>9
    <3>2. w \in Nat
      BY <3>1 DEF Range
    <3> HIDE DEF V, v, below
    <3>3. ~(w < v)
      BY <1>1, <1>5, <1>8, <3>1
    <3> QED BY <1>6, <3>2, <3>3
  <2> QED BY <2>1, <2>2
<1>11. V \in SUBSET Nat
  BY DEF Range
<1>12. percentile(samples, p) = Min(V)
  BY DEF percentile
<1> HIDE DEF V, v
<1>13. Min(V) = v
  <2>1. Min(V) \in V /\ \A w \in V : Min(V) <= w
    BY <1>10, <1>11, MinOfNaturals
  <2>2. Min(V) <= v /\ v <= Min(V)
    BY <1>10, <2>1
  <2>3. Min(V) \in Nat
    BY <1>11, <2>1
  <2> HIDE DEF V, v
  <2> QED BY <1>6, <2>2, <2>3
<1> QED BY <1>2, <1>12, <1>13 DEF v, index

(* The latencies of an endpoint are finitely many naturals.                *)
LEMMA LatencyType ==
  ASSUME TypeOK, Heard, NEW e
  PROVE  LET latency == latencySamples(Global.counted, e, FALSE) IN
         /\ IsFiniteSet(DOMAIN latency)
         /\ latency \in [DOMAIN latency -> Nat]
<1> DEFINE recent == Recent(Global.counted)
           deliveries == Deliveries(recent, e)
           latency == Offsets(deliveries, e)
           cohort == [o \in deliveries |-> Cohort(o)]
<1>1. \A o \in deliveries : o \in Global.counted /\ e \in o.arrived
  BY DEF Deliveries, Recent
<1>2. \A o \in deliveries : Offset(o, e) \in Nat
  BY <1>1, CountedType, OffsetOfArrival
<1>3. IsFiniteSet(deliveries)
  <2>1. deliveries \subseteq prepareObservations
    BY <1>1, CountedType
  <2> QED BY <2>1, PreparedType, FS_Subset
<1>4. DOMAIN latency = {cohort[o] : o \in deliveries}
  BY DEF Offsets
<1>5. IsFiniteSet(DOMAIN latency)
  <2>1. IsFiniteSet({cohort[o] : o \in deliveries})
    <3> HIDE DEF deliveries, cohort
    <3> QED BY <1>3, ImageIsFinite
  <2> QED BY <1>4, <2>1
<1>6. ASSUME NEW k \in DOMAIN latency PROVE latency[k] \in Nat
  <2> DEFINE S == {Offset(o, e) : o \in {p \in deliveries : Cohort(p) = k}}
  <2>1. S \in SUBSET Nat /\ S # {}
    BY <1>2, <1>4, <1>6
  <2>2. latency[k] = Min(S)
    BY <1>6 DEF Offsets
  <2> HIDE DEF S
  <2> QED BY <2>1, <2>2, MinOfNaturals
<1>7. latency = [k \in DOMAIN latency |-> latency[k]]
  BY DEF Offsets
<1>8. latencySamples(Global.counted, e, FALSE) = latency
  BY DEF latencySamples
<1> HIDE DEF latency
<1> QED BY <1>5, <1>6, <1>7, <1>8

(* An availability is an integer.                                          *)
LEMMA AvailabilityType ==
  ASSUME TypeOK, Heard, NEW e
  PROVE  availabilityForChecks(Checks(Global.counted, e),
                               DOMAIN Offsets(Deliveries(Global.counted, e), e)) \in Int
<1> DEFINE checks == Checks(Global.counted, e)
           delivered == DOMAIN Offsets(Deliveries(Global.counted, e), e)
<1>1. IsFiniteSet(checks)
  <2>1. Global.counted \in SUBSET prepareObservations
    BY CountedType
  <2> QED BY <2>1, PreparedType, ChecksFinite
<1>2. delivered \subseteq checks
  BY DEF Offsets, Deliveries, Checks
<1>3. IsFiniteSet(delivered)
  BY <1>1, <1>2, FS_Subset
<1>4. Cardinality(checks) \in Nat /\ Cardinality(delivered) \in Nat
  BY <1>1, <1>3, FS_CardinalityType
<1>5. checks # {} => Cardinality(checks) # 0
  BY <1>1, FS_EmptySet
<1> HIDE DEF checks, delivered
<1>6. \A a, b \in Nat : b # 0 => Percent(a, b) \in Int
  BY DEF Percent
<1>7. availabilityForChecks(checks, delivered) \in Int
  BY <1>4, <1>5, <1>6 DEF availabilityForChecks
<1> QED BY <1>7 DEF checks, delivered

(* Setups are finitely many timings.                                       *)
LEMMA SetupsType ==
  ASSUME TypeOK, Heard, NEW e
  PROVE  LET setups == Setups(prepareObservations, e) IN
         IsFiniteSet(setups) /\ \A x \in setups : x[2] \in Timings
<1> DEFINE known == {o \in prepareObservations : e \in Known(o)}
           said == [o \in known |->
                      {t \in Fact(o, e, "setup") : withinLatencyWindow(o.at - t.ago)}]
           of == [o \in known |-> {<<o, t>> : t \in said[o]}]
<1>1. Setups(prepareObservations, e) = UNION {of[o] : o \in known}
  BY DEF Setups
<1>2. ASSUME NEW o \in known
      PROVE  said[o] \subseteq Timings /\ IsFiniteSet(said[o])
  <2>1. Sound(o)
    BY PreparedHeard
  <2>2. Fact(o, e, "setup") \subseteq Timings /\ IsFiniteSet(Fact(o, e, "setup"))
    <3>1. CASE \E s \in o.facts : s.endpoint = e
      <4>1. PICK s \in o.facts : s.endpoint = e
        BY <3>1
      <4>2. Fact(o, e, "setup") = s.setup
        BY <2>1, <4>1, OneFact
      <4>3. s.setup \subseteq Timings /\ IsFiniteSet(s.setup)
        BY <2>1, <4>1 DEF Sound
      <4> QED BY <4>2, <4>3
    <3>2. CASE ~\E s \in o.facts : s.endpoint = e
      <4>1. Fact(o, e, "setup") = {}
        BY <3>2, FactIsSaid
      <4> QED BY <4>1, FS_EmptySet
    <3> QED BY <3>1, <3>2
  <2>3. said[o] \subseteq Fact(o, e, "setup")
    OBVIOUS
  <2> HIDE DEF said
  <2> QED BY <2>2, <2>3, FS_Subset
<1>3. IsFiniteSet(known)
  BY PreparedType, FS_Subset
<1> HIDE DEF said, known
<1>4. ASSUME NEW o \in known
      PROVE  IsFiniteSet(of[o]) /\ \A x \in of[o] : x[2] \in Timings
  <2> DEFINE pair == [t \in said[o] |-> <<o, t>>]
  <2>1. of[o] = {pair[t] : t \in said[o]}
    OBVIOUS
  <2>2. \A x \in of[o] : x[2] \in Timings
    BY <1>2
  <2> HIDE DEF pair
  <2>3. IsFiniteSet({pair[t] : t \in said[o]})
    BY <1>2, ImageIsFinite
  <2> QED BY <2>1, <2>2, <2>3
<1> HIDE DEF of
<1>5. IsFiniteSet({of[o] : o \in known})
  BY <1>3, ImageIsFinite
<1>6. IsFiniteSet(UNION {of[o] : o \in known})
  <2> DEFINE sets == {of[o] : o \in known}
  <2>1. \A T \in sets : IsFiniteSet(T)
    BY <1>4
  <2> HIDE DEF sets
  <2>2. IsFiniteSet(sets)
    BY <1>5 DEF sets
  <2>3. IsFiniteSet(UNION sets)
    BY <2>1, <2>2, FS_UNION
  <2> QED BY <2>3 DEF sets
<1>7. \A x \in UNION {of[o] : o \in known} : x[2] \in Timings
  BY <1>4
<1> QED BY <1>1, <1>6, <1>7

Optional(values) == values = {} \/ \E n \in Int : values = {n}

(* The median of the timings of a method is an integer, if there is one.   *)
LEMMA MedianType ==
  ASSUME TypeOK, Heard, NEW e, NEW m
  PROVE  Optional(timingMedian(Setups(prepareObservations, e), m))
<1> DEFINE setups == Setups(prepareObservations, e)
           ok == OfMethod(setups, m, "ok")
           took == [x \in ok |-> x[2].ms]
<1>1. IsFiniteSet(ok) /\ \A x \in ok : x[2] \in Timings
  <2>1. ok \subseteq setups
    BY DEF OfMethod
  <2>2. IsFiniteSet(setups) /\ \A x \in setups : x[2] \in Timings
    BY SetupsType
  <2> HIDE DEF ok, setups
  <2> QED BY <2>1, <2>2, FS_Subset
<1>2. took \in [ok -> Nat]
  BY <1>1 DEF Timings
<1>3. timingMedian(setups, m) = IF ok = {} THEN {} ELSE {percentile(took, 50)}
  BY DEF timingMedian
<1> HIDE DEF took, ok
<1>4. ok # {} => percentile(took, 50) \in Nat
  BY <1>1, <1>2, PercentileIsSample
<1> QED BY <1>3, <1>4 DEF Optional

(* The part scores are integers.                                           *)
LEMMA ScoresAreIntegers ==
  ASSUME NEW value \in Int
  PROVE  /\ scoreFromAnchors(value, miningLossScoreAnchors) \in Int
         /\ scoreFromAnchors(value, p95ScoreAnchors) \in Int
         /\ scoreFromAnchors(value, availabilityScoreAnchors) \in Int
         /\ scoreFromAnchors(value, responsivenessScoreAnchors) \in Int
<1>1. ASSUME NEW anchors, NEW n, Anchors(anchors, n)
      PROVE  scoreFromAnchors(value, anchors) \in Int
  <2>1. scoreFromAnchors(value, anchors) \in 0 .. Best
    BY <1>1, AnchorScore
  <2> QED BY <2>1, BestIsNatural
<1> QED BY <1>1, AnchorsOfScores

(* Responsiveness is the mean of what was timed, if anything was.          *)
LEMMA ResponseType ==
  ASSUME NEW timings, \A m \in Methods : Optional(timings[m])
  PROVE  Optional(responsivenessScore(timings))
<1> DEFINE timed == {m \in Methods : timings[m] # {}}
           f == [m \in timed |-> scoreFromAnchors(Min(timings[m]), responsivenessScoreAnchors)]
           sum == MapThenSumSet(LAMBDA m : scoreFromAnchors(Min(timings[m]), responsivenessScoreAnchors),
                                timed)
           IsIter(g) == g = [s \in SUBSET timed |->
                               IF s = {} THEN 0
                               ELSE scoreFromAnchors(Min(timings[CHOOSE x \in s : TRUE]),
                                                     responsivenessScoreAnchors)
                                      + g[s \ {CHOOSE x \in s : TRUE}]]
<1>1. IsFiniteSet(timed)
  <2>1. \A m \in {"connect"} : IsFiniteSet({m})
    BY FS_Singleton
  <2>2. IsFiniteSet(Methods)
    <3>1. \A a, b, c, d : IsFiniteSet({a} \union {b} \union {c} \union {d})
      BY FS_Singleton, FS_Union
    <3>2. Methods = {"connect"} \union {"tls_handshake"} \union {"subscribe"} \union {"authorize"}
      BY DEF Methods
    <3> QED BY <3>1, <3>2
  <2> QED BY <2>2, FS_Subset
<1>2. \A m \in timed : f[m] \in Int
  <2> TAKE m \in timed
  <2>1. PICK n \in Int : timings[m] = {n}
    BY DEF Optional
  <2>2. \A k \in Int : Min({k}) = k
    BY DEF Min
  <2>3. Min(timings[m]) \in Int
    BY <2>1, <2>2
  <2>4. scoreFromAnchors(Min(timings[m]), responsivenessScoreAnchors) \in Int
    BY <2>3, ScoresAreIntegers
  <2> QED BY <2>4
<1>3. \A s \in SUBSET timed : s # {} => Some(s) \in timed
  BY SomeElement
<1>4. \A m \in timed : f[m] = scoreFromAnchors(Min(timings[m]), responsivenessScoreAnchors)
  OBVIOUS
<1>5. sum = (CHOOSE g : IsIter(g))[timed]
  BY DEF MapThenSumSet, MapThenFoldSet
<1>6. responsivenessScore(timings) = IF timed = {} THEN {} ELSE {sum \div Cardinality(timed)}
  BY DEF responsivenessScore
<1> HIDE DEF f, timed, sum
<1>7. \A g : IsIter(g) <=> AreSums(g, f, timed)
  BY <1>3, <1>4 DEF AreSums, SumStep, Some
<1>8. \E g : IsIter(g)
  <2> HIDE DEF IsIter
  <2> QED BY <1>1, <1>7, SumsExist
<1> HIDE DEF IsIter
<1>9. AreSums(CHOOSE g : IsIter(g), f, timed)
  BY <1>7, <1>8
<1>10. Total(f, timed) = sum
  BY <1>1, <1>2, <1>5, <1>9, TotalOfSubset
<1>11. sum \in Int
  BY <1>1, <1>2, <1>10, TotalFacts
<1>12. timed # {} => Cardinality(timed) \in Nat /\ Cardinality(timed) > 0
  BY <1>1, FS_CardinalityType, FS_EmptySet
<1>13. timed # {} => sum \div Cardinality(timed) \in Int
  BY <1>11, <1>12
<1> QED BY <1>6, <1>13 DEF Optional

(* Fees are naturals, and there is an instant for a change.                *)
FeesTyped(fees) ==
  /\ fees.samples \in Nat /\ fees.changes \in Nat
  /\ fees.latest \in SUBSET Nat /\ fees.previous \in SUBSET Nat
  /\ fees.since \in SUBSET Nat /\ (fees.previous # {} => fees.since # {})

(* So are the fees that coinbases of counted records show.                 *)
LEMMA FeesType ==
  ASSUME TypeOK, Heard, NEW e
  PROVE  FeesTyped(Fees(Evidence(Global.counted, e), e))
<1> DEFINE evidence == Evidence(Global.counted, e)
           paid    == {o \in evidence : e \in Solo /\ \E c \in Fact(o, e, "payout") : c.fee # {}}
           Fee(o)  == Min(UNION {c.fee : c \in Fact(o, e, "payout")})
           Last(R) == {o \in R : \A p \in R : ~Later(p, o)}
           Preceding(o) == Last({p \in paid : Later(o, p)})
           changed == {o \in paid : \E p \in Preceding(o) : Fee(p) # Fee(o)}
           fees == Fees(evidence, e)
<1>1. /\ fees.samples = Cardinality(paid)
      /\ fees.changes = Cardinality(changed)
      /\ fees.latest = {Fee(o) : o \in Last(paid)}
      /\ fees.previous = {Fee(p) : p \in UNION {Preceding(o) : o \in Last(changed)}}
      /\ fees.since = {o.at : o \in Last(changed)}
  BY DEF Fees
<1>2. evidence \subseteq Global.counted
  BY DEF Evidence
<1>3. \A o \in Global.counted : o \in prepareObservations /\ o \in Records /\ Sound(o)
  BY CountedType
<1>4. ASSUME NEW o \in paid PROVE Fee(o) \in Nat /\ o.at \in Nat
  <2> DEFINE S == UNION {c.fee : c \in Fact(o, e, "payout")}
  <2>1. S # {}
    OBVIOUS
  <2>2. \A c \in Fact(o, e, "payout") : c.fee \in SUBSET Nat
    BY <1>2, <1>3, FactIsSaid DEF Sound, SoundPayout
  <2>3. S \in SUBSET Nat
    BY <2>2
  <2>4. Min(S) \in Nat
    <3> HIDE DEF S
    <3> QED BY <2>1, <2>3, MinOfNaturals
  <2> QED BY <1>2, <1>3, <2>4 DEF Records
<1>5. paid \subseteq Global.counted /\ changed \subseteq paid
  BY <1>2
<1>6. IsFiniteSet(paid) /\ IsFiniteSet(changed)
  <2>1. paid \subseteq prepareObservations /\ changed \subseteq prepareObservations
    BY <1>3, <1>5
  <2> QED BY <2>1, PreparedType, FS_Subset
<1>7. Cardinality(paid) \in Nat /\ Cardinality(changed) \in Nat
  BY <1>6, FS_CardinalityType
<1>8. Last(paid) \subseteq paid /\ Last(changed) \subseteq paid /\ \A o : Preceding(o) \subseteq paid
  BY <1>5
<1> HIDE DEF paid, Fee, Last, Preceding, changed, fees
<1>9. /\ fees.latest \in SUBSET Nat /\ fees.previous \in SUBSET Nat
      /\ fees.since \in SUBSET Nat /\ (fees.previous # {} => fees.since # {})
  BY <1>1, <1>4, <1>8
<1>10. FeesTyped(fees)
  BY <1>1, <1>7, <1>9 DEF FeesTyped
<1> QED BY <1>10 DEF fees

(* The stability of fees is an integer, if there are fees to compare.      *)
LEMMA StabilityType ==
  ASSUME NEW e, NEW fees, FeesTyped(fees)
  PROVE  Optional(feeStability(e, fees))
<1>1. CASE e \in Solo /\ fees.samples >= 2
  <2>1. fees.samples - 1 \in Nat /\ fees.samples - 1 > 0 /\ 10000 * fees.changes \in Int
    BY <1>1 DEF FeesTyped
  <2>2. \A a \in Int : \A b \in Nat : b > 0 => a \div b \in Int
    OBVIOUS
  <2>3. Percent(fees.changes, fees.samples - 1) \in Int
    BY <2>1, <2>2 DEF Percent
  <2>4. 10000 - Percent(fees.changes, fees.samples - 1) \in Int
    BY <2>3
  <2>5. feeStability(e, fees) = {10000 - Percent(fees.changes, fees.samples - 1)}
    BY <1>1 DEF feeStability
  <2> QED BY <2>4, <2>5 DEF Optional
<1>2. CASE ~(e \in Solo /\ fees.samples >= 2)
  BY <1>2 DEF feeStability, Optional
<1> QED BY <1>1, <1>2

(* Penalties are an integer.                                               *)
LEMMA PenaltiesType ==
  ASSUME TypeOK, NEW r, FeesTyped(r.fees)
  PROVE  penalties(r) \in Int
<1> DEFINE fees == r.fees
<1>1. \A S \in SUBSET Nat : S # {} => Min(S) \in Nat
  BY MinOfNaturals
<1>2. \A a \in Int : \A b \in Nat : b > 0 => a \div b \in Int
  OBVIOUS
<1>3. recentFeeIncreasePenalty(fees) \in Int
  <2> DEFINE age == now - Min(fees.since)
             W   == FeeIncreaseWindow
  <2>1. CASE /\ fees.latest # {} /\ fees.previous # {} /\ Min(fees.latest) > Min(fees.previous)
             /\ age < W
    <3>1. Min(fees.since) \in Nat /\ now \in Nat
      BY <1>1, <2>1 DEF FeesTyped, TypeOK
    <3>2. age \in Int /\ W \in Nat /\ W > 0
      BY <3>1, WindowsAssumption
    <3>3. (1500 * (W - age)) \div W \in Int
      <4> HIDE DEF age, W
      <4>1. 1500 * (W - age) \in Int
        BY <3>2
      <4> QED BY <1>2, <3>2, <4>1
    <3>4. recentFeeIncreasePenalty(fees) = (1500 * (W - age)) \div W
      BY <2>1 DEF recentFeeIncreasePenalty
    <3> QED BY <3>3, <3>4
  <2>2. CASE ~(/\ fees.latest # {} /\ fees.previous # {} /\ Min(fees.latest) > Min(fees.previous)
               /\ age < W)
    <3>1. recentFeeIncreasePenalty(fees) = 0
      BY <2>2 DEF recentFeeIncreasePenalty
    <3> QED BY <3>1
  <2> QED BY <2>1, <2>2
<1>4. highPoolFeePenalty(fees) \in Int
  <2>1. CASE fees.latest # {}
    <3> DEFINE raw == ((Min(fees.latest) - 250) * 5) \div 2
    <3>1. (Min(fees.latest) - 250) * 5 \in Int
      BY <1>1, <2>1 DEF FeesTyped
    <3>2. raw \in Int
      BY <3>1
    <3>3. highPoolFeePenalty(fees) = Clamp(raw, 0, 1000)
      BY <2>1 DEF highPoolFeePenalty
    <3> HIDE DEF raw
    <3>4. Clamp(raw, 0, 1000) \in Int
      BY <3>2, ClampType
    <3> QED BY <3>3, <3>4
  <2>2. CASE fees.latest = {}
    BY <2>2 DEF highPoolFeePenalty
  <2> QED BY <2>1, <2>2
<1>5. penalties(r) = recentFeeIncreasePenalty(fees) + highPoolFeePenalty(fees)
                       + (IF r.certificates > 0 THEN 1000 ELSE 0)
  BY DEF penalties
<1> QED BY <1>3, <1>4, <1>5

(* The weighted mean is not below the least of what it is the mean of, nor *)
(* above the greatest, whatever was not measured.                          *)
LEMMA WeightedWithin ==
  ASSUME NEW a \in Int, NEW b \in Int, NEW c \in Int,
         NEW x, Optional(x), NEW y, Optional(y),
         NEW m \in Int, NEW n \in Int, \A z \in {a, b, c} \cup x \cup y : m <= z /\ z <= n
  PROVE  weightedScore(<<a, b, c>>, <<x, y>>) \in m .. n
<1> DEFINE w(p, q, i, j) ==
             (25 * a + 20 * b + 40 * c + 10 * p + 5 * q) \div (85 + 10 * i + 5 * j)
<1>1. weightedScore(<<a, b, c>>, <<x, y>>)
        = w(OrZero(x), OrZero(y), Cardinality(x), Cardinality(y))
  BY DEF weightedScore
<1>2. \A k \in Int : Min({k}) = k
  BY DEF Min
<1>3. ASSUME NEW set, Optional(set)
      PROVE  \/ set = {} /\ OrZero(set) = 0 /\ Cardinality(set) = 0
             \/ \E k \in Int : set = {k} /\ OrZero(set) = k /\ Cardinality(set) = 1
  <2>1. CASE set = {}
    BY <2>1, FS_EmptySet DEF OrZero
  <2>2. ASSUME NEW k \in Int, set = {k}
        PROVE  OrZero(set) = k /\ Cardinality(set) = 1
    BY <1>2, <2>2, FS_Singleton DEF OrZero
  <2> QED BY <1>3, <2>1, <2>2 DEF Optional
<1>4. m <= a /\ a <= n /\ m <= b /\ b <= n /\ m <= c /\ c <= n
  OBVIOUS
<1>5. ASSUME NEW p \in Int, NEW q \in Int, NEW i \in {0, 1}, NEW j \in {0, 1},
             i = 0 => p = 0, j = 0 => q = 0,
             i = 1 => m <= p /\ p <= n, j = 1 => m <= q /\ q <= n
      PROVE  w(p, q, i, j) \in m .. n
  <2> DEFINE d == 85 + 10 * i + 5 * j
             sum == 25 * a + 20 * b + 40 * c + 10 * p + 5 * q
  <2>1. d \in Nat /\ d > 0 /\ sum \in Int
    BY <1>5
  <2>2. m * d <= sum /\ sum <= n * d
    <3>1. CASE i = 0 /\ j = 0
      BY <1>4, <1>5, <3>1
    <3>2. CASE i = 0 /\ j = 1
      BY <1>4, <1>5, <3>2
    <3>3. CASE i = 1 /\ j = 0
      BY <1>4, <1>5, <3>3
    <3>4. CASE i = 1 /\ j = 1
      BY <1>4, <1>5, <3>4
    <3> QED BY <3>1, <3>2, <3>3, <3>4
  <2> HIDE DEF d, sum
  <2>3. sum \div d \in m .. n
    BY <2>1, <2>2, QuotientWithin
  <2> QED BY <2>3 DEF d, sum
<1> HIDE DEF w
<1>6. PICK i \in {0, 1} : Cardinality(x) = i /\ OrZero(x) \in Int /\ (i = 0 => OrZero(x) = 0)
                          /\ (i = 1 => m <= OrZero(x) /\ OrZero(x) <= n)
  BY <1>3
<1>7. PICK j \in {0, 1} : Cardinality(y) = j /\ OrZero(y) \in Int /\ (j = 0 => OrZero(y) = 0)
                          /\ (j = 1 => m <= OrZero(y) /\ OrZero(y) <= n)
  BY <1>3
<1>8. w(OrZero(x), OrZero(y), i, j) \in m .. n
  <2> DEFINE p == OrZero(x)
             q == OrZero(y)
  <2> HIDE DEF p, q
  <2>1. /\ p \in Int /\ (i = 0 => p = 0) /\ (i = 1 => m <= p /\ p <= n)
        /\ q \in Int /\ (j = 0 => q = 0) /\ (j = 1 => m <= q /\ q <= n)
    BY <1>6, <1>7 DEF p, q
  <2>2. w(p, q, i, j) \in m .. n
    BY <1>5, <2>1
  <2> QED BY <2>2 DEF p, q
<1> QED BY <1>1, <1>6, <1>7, <1>8

(* A score is a weighted mean of measured parts less the penalties, and    *)
(* clamping keeps the order of both bounds.                                *)
LEMMA EvidenceIsWeighed == TypeOK /\ Heard => MissingEvidenceIsNotFailure
<1> SUFFICES ASSUME TypeOK, Heard, NEW e \in pools,
                    GlobalReport(e).median # {}, ~walletOverride(e, GlobalReport(e)),
                    NEW s \in GlobalReport(e).score
             PROVE  LET r        == GlobalReport(e)
                        measured == Range(coreScores(r)) \cup UNION Range(optionalScores(e, r))
                    IN  /\ s >= Clamp(Min(measured) - penalties(r), 0, 10000)
                        /\ s <= Clamp(Max(measured) - penalties(r), 0, 10000)
  BY DEF MissingEvidenceIsNotFailure
<1> DEFINE r == GlobalReport(e)
           latency == latencySamples(Global.counted, e, FALSE)
           setups == Setups(prepareObservations, e)
<1>1. /\ r.median = IF DOMAIN latency = {} THEN {} ELSE {percentile(latency, 50)}
      /\ r.p95 = IF DOMAIN latency = {} THEN {} ELSE {percentile(latency, 95)}
      /\ r.availability = availabilityForChecks(Checks(Global.counted, e),
                                                DOMAIN Offsets(Deliveries(Global.counted, e), e))
      /\ r.timings = [m \in Methods |-> timingMedian(setups, m)]
      /\ r.fees = Fees(Evidence(Global.counted, e), e)
  <2> DEFINE q == PoolReport(prepareObservations, Global.counted, e, FALSE)
  <2>1. \A field \in ScoredFields : r[field] = q[field]
    BY GlobalApplied
  <2>2. /\ r.median = q.median /\ r.p95 = q.p95 /\ r.availability = q.availability
        /\ r.timings = q.timings /\ r.fees = q.fees
    <3> HIDE DEF r, q
    <3> QED BY <2>1 DEF ScoredFields
  <2> HIDE DEF r
  <2> QED BY <2>2 DEF PoolReport
<1>2. r.score = overallScore(e, r)
  BY GlobalApplied
<1>3. Optional(r.median) /\ r.median # {} /\ Optional(r.p95) /\ r.p95 # {}
  <2>1. DOMAIN latency # {}
    BY <1>1
  <2>2. IsFiniteSet(DOMAIN latency) /\ latency \in [DOMAIN latency -> Nat]
    BY LatencyType
  <2> HIDE DEF latency, r
  <2>3. percentile(latency, 50) \in Nat /\ percentile(latency, 95) \in Nat
    BY <2>1, <2>2, PercentileIsSample
  <2> QED BY <1>1, <2>1, <2>3 DEF Optional
<1>4. r.availability \in Int
  BY <1>1, AvailabilityType
<1>5. FeesTyped(r.fees)
  BY <1>1, FeesType
<1>6. \A m \in Methods : Optional(r.timings[m])
  BY <1>1, MedianType
<1> HIDE DEF r
<1>7. PICK median \in Int, p95 \in Int : r.median = {median} /\ r.p95 = {p95}
  BY <1>3 DEF Optional
<1> DEFINE a == scoreFromAnchors(estimatedMiningLoss(median, r.availability), miningLossScoreAnchors)
           b == scoreFromAnchors(p95, p95ScoreAnchors)
           c == scoreFromAnchors(r.availability, availabilityScoreAnchors)
           x == responsivenessScore(r.timings)
           y == feeStability(e, r.fees)
           measured == {a, b, c} \cup x \cup y
           score == weightedScore(<<a, b, c>>, <<x, y>>)
           taken == penalties(r)
<1>8. coreScores(r) = <<a, b, c>> /\ optionalScores(e, r) = <<x, y>>
  <2>1. \A k \in Int : Min({k}) = k
    BY DEF Min
  <2>2. Min(r.median) = median /\ Min(r.p95) = p95
    BY <1>7, <2>1
  <2> QED BY <2>2 DEF coreScores, optionalScores
<1>9. a \in Int /\ b \in Int /\ c \in Int /\ Optional(x) /\ Optional(y)
  <2>1. estimatedMiningLoss(median, r.availability) \in Int
    <3>1. \A i, j \in Int : (10000 - j) + (j * i) \div 600000 \in Int
      OBVIOUS
    <3> QED BY <1>4, <3>1 DEF estimatedMiningLoss
  <2>2. a \in Int /\ b \in Int /\ c \in Int
    BY <1>4, <2>1, ScoresAreIntegers
  <2>3. Optional(x)
    BY <1>6, ResponseType
  <2>4. Optional(y)
    BY <1>5, StabilityType
  <2> QED BY <2>2, <2>3, <2>4
<1>10. Range(coreScores(r)) \cup UNION Range(optionalScores(e, r)) = measured
  <2> HIDE DEF a, b, c, x, y
  <2>1. Range(<<a, b, c>>) = {a, b, c}
    BY DEF Range
  <2>2. UNION Range(<<x, y>>) = x \cup y
    BY DEF Range
  <2> QED BY <1>8, <2>1, <2>2
<1>11. taken \in Int
  BY <1>5, PenaltiesType
<1>12. s = Clamp(score - taken, 0, 10000)
  <2>1. s \in overallScore(e, r)
    BY <1>2 DEF r
  <2>2. overallScore(e, r) = CASE walletOverride(e, r) -> {0}
           [] ~walletOverride(e, r) /\ (r.median = {} \/ r.blocks = 0) -> {}
           [] OTHER -> {Clamp(weightedScore(coreScores(r), optionalScores(e, r)) - penalties(r), 0, 10000)}
    BY DEF overallScore
  <2>3. ~walletOverride(e, r)
    BY DEF r
  <2> HIDE DEF a, b, c, x, y
  <2>4. s = Clamp(weightedScore(coreScores(r), optionalScores(e, r)) - penalties(r), 0, 10000)
    BY <2>1, <2>2, <2>3
  <2> QED BY <1>8, <2>4
<1> HIDE DEF a, b, c, x, y
<1> DEFINE m == Min(measured)
           n == Max(measured)
<1>13. /\ m \in Int /\ n \in Int /\ \A z \in measured : m <= z /\ z <= n
  <2>1. measured \in SUBSET Int /\ measured # {}
    BY <1>9 DEF Optional
  <2>2. IsFiniteSet(measured)
    <3>1. IsFiniteSet({a} \cup {b} \cup {c})
      BY FS_Singleton, FS_Union
    <3>2. IsFiniteSet(x) /\ IsFiniteSet(y)
      BY <1>9, FS_Singleton, FS_EmptySet DEF Optional
    <3>3. measured = ({a} \cup {b} \cup {c}) \cup x \cup y
      OBVIOUS
    <3> QED BY <3>1, <3>2, <3>3, FS_Union
  <2> HIDE DEF measured
  <2> QED BY <2>1, <2>2, MinOfIntegers, MaxOfIntegers
<1> HIDE DEF m, n
<1>14. score \in m .. n
  <2>1. \A z \in {a, b, c} \cup x \cup y : m <= z /\ z <= n
    BY <1>13
  <2> QED BY <1>9, <1>13, <2>1, WeightedWithin
<1> HIDE DEF score, taken
<1>15. /\ Clamp(m - taken, 0, Best) <= Clamp(score - taken, 0, Best)
       /\ Clamp(score - taken, 0, Best) <= Clamp(n - taken, 0, Best)
  <2>1. /\ m - taken \in Int /\ score - taken \in Int /\ n - taken \in Int
        /\ m - taken <= score - taken /\ score - taken <= n - taken
    BY <1>11, <1>13, <1>14
  <2>2. \A i, j \in Int : i <= j => Clamp(i, 0, Best) <= Clamp(j, 0, Best)
    BY BestIsNatural, ClampKeepsOrder
  <2>3. /\ Clamp(m - taken, 0, Best) <= Clamp(score - taken, 0, Best)
        /\ Clamp(score - taken, 0, Best) <= Clamp(n - taken, 0, Best)
    BY <2>1, <2>2
  <2> QED BY <2>3
<1>16. s = Clamp(score - taken, 0, Best)
  BY <1>12 DEF Best
<1>17. s >= Clamp(m - taken, 0, Best)
  <2>1. s \in Int /\ Clamp(m - taken, 0, Best) \in Int
    BY <1>11, <1>13, <1>14, <1>16, BestIsNatural, ClampType
  <2> QED BY <1>15, <1>16, <2>1
<1>18. s <= Clamp(n - taken, 0, Best)
  BY <1>15, <1>16
<1>19. Range(coreScores(r)) \cup UNION Range(optionalScores(e, r)) = measured
  BY <1>10
<1> HIDE DEF measured
<1>20. s >= Clamp(Min(Range(coreScores(r)) \cup UNION Range(optionalScores(e, r))) - penalties(r), 0, Best)
  BY <1>17, <1>19 DEF m, taken
<1>21. s <= Clamp(Max(Range(coreScores(r)) \cup UNION Range(optionalScores(e, r))) - penalties(r), 0, Best)
  BY <1>18, <1>19 DEF n, taken
<1> QED BY <1>20, <1>21 DEF r, Best

(* What was not measured does not count as a failure: no score lies below  *)
(* the worst or above the best part that was measured, less the penalties  *)
(* (weightedScore divides by the weights that are there), for any log.     *)
THEOREM MissingEvidence == Spec => []MissingEvidenceIsNotFailure
  BY TypeCorrect, HeardInvariance, EvidenceIsWeighed, PTL
=============================================================================
