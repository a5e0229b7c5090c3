------------------------- MODULE IngestService_proof -------------------------
(***************************************************************************)
(* Proofs about the ingest handler, with the handlers that a change of the *)
(* registry puts one after the other and with restarts.  The rate and the  *)
(* concurrency of the handler in use hold for every burst, cost and number *)
(* of requests, a new one being a limiter that nobody has used yet.  To    *)
(* the receivers the limiter only chooses which requests come.  That a     *)
(* claim in the guard always has a delivery behind it is not inductive     *)
(* alone: a delivery is given its batch when it arrives, and had it been   *)
(* appended before, the claim it vouched for would lose its witness.       *)
(* InductiveInv excludes that.                                             *)
(***************************************************************************)
EXTENDS IngestService, FiniteSetTheorems, TLAPS

\* A handler is replaced, or the server is started again.
Renew == NewLimiter /\ UNCHANGED clock

\* What the limiter in use may see of a step of the service.
LimiterStep == Limiter!Next \/ Renew \/ UNCHANGED Limiter!vars

\* Each step of the service is, for its limiter, a step of the limiter, a new handler's limiter or nothing.
LEMMA StepsOfLimiter == [Next]_vars => LimiterStep
<1> SUFFICES ASSUME [Next]_vars PROVE LimiterStep
    OBVIOUS
<1>1. ASSUME NEW r \in Requests, Admit(r) \/ TurnAway(r) PROVE LimiterStep
    BY <1>1 DEF Admit, TurnAway, LimiterStep, Limiter!Next
<1>2. ASSUME NEW r \in Requests, Receive(r) PROVE LimiterStep
  <2>1. UNCHANGED clock
    BY <1>2 DEF Receive, Receiver!Arrive, Receiver!Refuse, Receiver!Claim,
        Receiver!AppendSucceeds, Receiver!AppendFails, Receiver!Accept
  <2> QED
    BY <1>2, <2>1 DEF Receive, limiterVars, LimiterStep, Limiter!vars
<1>3. ASSUME NEW r \in Requests, Leave(r) PROVE LimiterStep
    BY <1>3 DEF Leave, limiterVars, LimiterStep, Limiter!Next, Limiter!vars
<1>4. CASE Swap
    BY <1>4 DEF Swap, LimiterStep, Renew
<1>5. CASE Restart
    BY <1>5 DEF Restart, Receiver!Restart, LimiterStep, Renew
<1>6. CASE Tick
    BY <1>6 DEF Tick, Receiver!Tick, limiterVars, LimiterStep, Limiter!Next, Limiter!Tick
<1>7. CASE Watch
    BY <1>7 DEF Watch, LimiterStep, Limiter!Next
<1>8. CASE UNCHANGED vars
    BY <1>8 DEF vars, limiterVars, LimiterStep, Limiter!vars
<1> QED
    BY <1>1, <1>2, <1>3, <1>4, <1>5, <1>6, <1>7, <1>8 DEF Next

\* The two names of the cardinality, the limiter's and this module's, are one.
LEMMA SameCardinality == \A S : Limiter!Cardinality(S) = Cardinality(S)
    BY DEF Cardinality, Limiter!Cardinality

\* The credit is between nothing and a full bucket, and a tick adds at most a unit.
LEMMA CreditBounds ==
    ASSUME Limiter!TypeOK
    PROVE  /\ Limiter!Credit \in 0 .. Burst
           /\ tokens <= Limiter!Credit
           /\ Limiter!Credit <= tokens + (clock - last)
    BY BurstAssumption, MaxClockAssumption DEF Limiter!TypeOK, Limiter!Credit, Limiter!AtMost

\* The limiter starts with a full bucket and nobody inside.
LEMMA LimiterInit ==
    Limiter!Init => Limiter!TypeOK /\ Limiter!RateHolds /\ Limiter!ConcurrencyHolds
<1> SUFFICES ASSUME Limiter!Init
             PROVE  Limiter!TypeOK /\ Limiter!RateHolds /\ Limiter!ConcurrencyHolds
    OBVIOUS
<1>1. Limiter!Cardinality({}) = 0
    BY FS_EmptySet, SameCardinality
<1> QED
    BY <1>1, BurstAssumption, MaxConcurrentAssumption, MaxClockAssumption
    DEF Limiter!Init, Limiter!TypeOK, Limiter!RateHolds, Limiter!ConcurrencyHolds,
        Limiter!Credit, Limiter!AtMost

\* The types are inductive.
LEMMA TypeInductive == Limiter!TypeOK /\ LimiterStep => Limiter!TypeOK'
<1> SUFFICES ASSUME Limiter!TypeOK, LimiterStep PROVE Limiter!TypeOK'
    OBVIOUS
<1> USE TokenAssumption, BurstAssumption, MaxClockAssumption DEF Limiter!TypeOK
<1>1. ASSUME NEW request \in Requests, Limiter!Admit(request) PROVE Limiter!TypeOK'
    BY <1>1, CreditBounds DEF Limiter!Admit
<1>2. ASSUME NEW request \in Requests, Limiter!Refuse(request) PROVE Limiter!TypeOK'
    BY <1>2, CreditBounds DEF Limiter!Refuse
<1>3. ASSUME NEW request \in Requests, Limiter!Release(request) PROVE Limiter!TypeOK'
    BY <1>3 DEF Limiter!Release
<1>4. CASE Limiter!Tick
    BY <1>4 DEF Limiter!Tick
<1>5. CASE Limiter!Watch
    BY <1>5 DEF Limiter!Watch
<1>6. CASE Renew
    BY <1>6, MaxConcurrentAssumption DEF Renew, NewLimiter
<1>7. CASE UNCHANGED Limiter!vars
    BY <1>7 DEF Limiter!vars
<1> QED
    BY <1>1, <1>2, <1>3, <1>4, <1>5, <1>6, <1>7 DEF LimiterStep, Limiter!Next

\* What is spent and what is left in the bucket never outgrow a full bucket and
\* the time watched: an admission moves units from the one to the other, a tick
\* adds at most one to the bucket and one to the time, and a new window, like a
\* new handler, starts with nothing spent and at most a full bucket.
LEMMA RateInductive ==
    Limiter!TypeOK /\ Limiter!RateHolds /\ LimiterStep => Limiter!RateHolds'
<1> SUFFICES ASSUME Limiter!TypeOK, Limiter!RateHolds, LimiterStep
             PROVE  Limiter!RateHolds'
    OBVIOUS
<1> USE TokenAssumption, BurstAssumption, MaxClockAssumption DEF Limiter!TypeOK
<1>0. /\ Limiter!Credit \in 0 .. Burst
      /\ spent + Limiter!Credit <= Burst + (clock - windowFrom)
    BY CreditBounds DEF Limiter!RateHolds
<1>1. ASSUME NEW request \in Requests, Limiter!Admit(request) PROVE Limiter!RateHolds'
  <2>1. Limiter!Credit' <= Limiter!Credit - Token
    BY <1>0, <1>1 DEF Limiter!Admit, Limiter!Credit, Limiter!AtMost
  <2>2. Limiter!Credit' \in Int
    BY <1>0, <1>1 DEF Limiter!Admit, Limiter!Credit, Limiter!AtMost
  <2>3. /\ spent' = spent + Token
        /\ clock' - windowFrom' = clock - windowFrom
    BY <1>1 DEF Limiter!Admit
  <2>4. spent' + Limiter!Credit' <= Burst + (clock' - windowFrom')
    <3> HIDE DEF Limiter!TypeOK
    <3>1. PICK before, after \in Int : before = Limiter!Credit /\ after = Limiter!Credit'
      BY <1>0, <2>2
    <3>2. spent \in Int /\ clock - windowFrom \in Int
      BY DEF Limiter!TypeOK
    <3>3. spent + Token + after <= Burst + (clock - windowFrom)
      BY <1>0, <2>1, <3>1, <3>2
    <3> QED
      BY <2>3, <3>1, <3>3
  <2> QED
    BY <2>4 DEF Limiter!RateHolds
<1>2. ASSUME NEW request \in Requests, Limiter!Refuse(request) PROVE Limiter!RateHolds'
  <2>1. Limiter!Credit' = Limiter!Credit
    BY <1>0, <1>2 DEF Limiter!Refuse, Limiter!Credit, Limiter!AtMost
  <2> QED
    BY <1>0, <1>2, <2>1 DEF Limiter!Refuse, Limiter!RateHolds
<1>3. ASSUME NEW request \in Requests, Limiter!Release(request) PROVE Limiter!RateHolds'
    BY <1>3, <1>0 DEF Limiter!Release, Limiter!RateHolds, Limiter!Credit, Limiter!AtMost
<1>4. CASE Limiter!Tick
  <2>1. Limiter!Credit' <= Limiter!Credit + 1 /\ Limiter!Credit' \in Int
    BY <1>4 DEF Limiter!Tick, Limiter!Credit, Limiter!AtMost
  <2>2. /\ spent' = spent
        /\ clock' - windowFrom' = clock - windowFrom + 1
    BY <1>4 DEF Limiter!Tick
  <2>3. spent' + Limiter!Credit' <= Burst + (clock' - windowFrom')
    <3> HIDE DEF Limiter!TypeOK
    <3>1. PICK before, after \in Int : before = Limiter!Credit /\ after = Limiter!Credit'
      BY <1>0, <2>1
    <3>2. spent \in Int /\ clock - windowFrom \in Int
      BY DEF Limiter!TypeOK
    <3>3. spent + after <= Burst + (clock - windowFrom + 1)
      BY <1>0, <2>1, <3>1, <3>2
    <3> QED
      BY <2>2, <3>1, <3>3
  <2> QED
    BY <2>3 DEF Limiter!RateHolds
<1>5. CASE Limiter!Watch
  <2>1. Limiter!Credit' = Limiter!Credit
    BY <1>5 DEF Limiter!Watch, Limiter!Credit
  <2> QED
    BY <1>0, <1>5, <2>1 DEF Limiter!Watch, Limiter!RateHolds
<1>6. CASE Renew
    BY <1>6, <1>0 DEF Renew, NewLimiter, Limiter!RateHolds, Limiter!Credit, Limiter!AtMost
<1>7. CASE UNCHANGED Limiter!vars
    BY <1>7, <1>0 DEF Limiter!vars, Limiter!RateHolds, Limiter!Credit, Limiter!AtMost
<1> QED
    BY <1>1, <1>2, <1>3, <1>4, <1>5, <1>6, <1>7 DEF LimiterStep, Limiter!Next

\* The counter follows the set of requests being served.
LEMMA ConcurrencyInductive ==
    Limiter!TypeOK /\ Limiter!ConcurrencyHolds /\ LimiterStep => Limiter!ConcurrencyHolds'
<1> SUFFICES ASSUME Limiter!TypeOK, Limiter!ConcurrencyHolds, LimiterStep
             PROVE  Limiter!ConcurrencyHolds'
    OBVIOUS
<1> USE MaxConcurrentAssumption DEF Limiter!ConcurrencyHolds
<1>c. /\ Limiter!Cardinality(serving) = Cardinality(serving)
      /\ Limiter!Cardinality(serving') = Cardinality(serving')
    BY SameCardinality
<1>0. IsFiniteSet(serving) /\ Cardinality(serving) \in Nat
    BY RequestsAssumption, FS_Subset, FS_CardinalityType DEF Limiter!TypeOK
<1>1. ASSUME NEW request \in Requests, Limiter!Admit(request) PROVE Limiter!ConcurrencyHolds'
  <2>1. Cardinality(serving \union {request}) = Cardinality(serving) + 1
    BY <1>0, <1>1, FS_AddElement DEF Limiter!Admit
  <2> QED
    BY <1>0, <1>1, <2>1, <1>c DEF Limiter!Admit
<1>2. ASSUME NEW request \in Requests, Limiter!Refuse(request) PROVE Limiter!ConcurrencyHolds'
    BY <1>2, <1>c DEF Limiter!Refuse
<1>3. ASSUME NEW request \in Requests, Limiter!Release(request) PROVE Limiter!ConcurrencyHolds'
  <2>1. Cardinality(serving \ {request}) = Cardinality(serving) - 1
    BY <1>0, <1>3, FS_RemoveElement DEF Limiter!Release
  <2> QED
    BY <1>0, <1>3, <2>1, <1>c DEF Limiter!Release
<1>4. CASE Limiter!Tick
    BY <1>4, <1>c DEF Limiter!Tick
<1>5. CASE Limiter!Watch
    BY <1>5, <1>c DEF Limiter!Watch
<1>6. CASE Renew
    BY <1>6, FS_EmptySet, SameCardinality DEF Renew, NewLimiter
<1>7. CASE UNCHANGED Limiter!vars
    BY <1>7, <1>c DEF Limiter!vars
<1> QED
    BY <1>1, <1>2, <1>3, <1>4, <1>5, <1>6, <1>7 DEF LimiterStep, Limiter!Next

\* The handler in use keeps its types.
THEOREM LimiterTypes == Spec => []Limiter!TypeOK
<1>1. Init => Limiter!TypeOK
    BY LimiterInit DEF Init
<1>2. Limiter!TypeOK /\ [Next]_vars => Limiter!TypeOK'
    BY StepsOfLimiter, TypeInductive
<1> QED
    BY <1>1, <1>2, PTL DEF Spec

\* In every window of time the handler in use admits at most a full bucket and
\* what refills during the window, whatever was admitted by those before it.
THEOREM RateLimited == Spec => []RateHolds
<1>1. Init => RateHolds
    BY LimiterInit DEF Init, RateHolds
<1>2. Limiter!TypeOK /\ RateHolds /\ [Next]_vars => RateHolds'
    BY StepsOfLimiter, RateInductive DEF RateHolds
<1> QED
    BY <1>1, <1>2, LimiterTypes, PTL DEF Spec

\* No handler has more than MaxConcurrent requests inside, and requests that
\* outlive theirs never change the count of the next.
THEOREM ConcurrencyLimited == Spec => []ConcurrencyHolds
<1>1. Init => ConcurrencyHolds
    BY LimiterInit DEF Init, ConcurrencyHolds
<1>2. Limiter!TypeOK /\ ConcurrencyHolds /\ [Next]_vars => ConcurrencyHolds'
    BY StepsOfLimiter, ConcurrencyInductive DEF ConcurrencyHolds
<1> QED
    BY <1>1, <1>2, LimiterTypes, PTL DEF Spec

\* The credit is taken by admissions and by nothing else, not by a new handler either.
THEOREM RefusalsAreFree == Spec => Limiter!OnlyAdmissionsCost
<1> DEFINE Cost == Limiter!Credit' < Limiter!Credit
                    => spent' = spent + Token /\ Limiter!Credit' = Limiter!Credit - Token
<1>1. Limiter!TypeOK /\ [Next]_vars => [Cost]_(Limiter!vars)
  <2> SUFFICES ASSUME Limiter!TypeOK, LimiterStep PROVE Cost \/ UNCHANGED Limiter!vars
      BY StepsOfLimiter
  <2> USE TokenAssumption, BurstAssumption, MaxClockAssumption DEF Limiter!TypeOK
  <2>0. Limiter!Credit \in 0 .. Burst
      BY CreditBounds
  <2>1. ASSUME NEW request \in Requests, Limiter!Admit(request) PROVE Cost
      BY <2>0, <2>1 DEF Limiter!Admit, Limiter!Credit, Limiter!AtMost
  <2>2. ASSUME NEW request \in Requests, Limiter!Refuse(request) PROVE Cost
      BY <2>0, <2>2 DEF Limiter!Refuse, Limiter!Credit, Limiter!AtMost
  <2>3. ASSUME NEW request \in Requests, Limiter!Release(request) PROVE Cost
      BY <2>0, <2>3 DEF Limiter!Release, Limiter!Credit, Limiter!AtMost
  <2>4. CASE Limiter!Tick
      BY <2>0, <2>4 DEF Limiter!Tick, Limiter!Credit, Limiter!AtMost
  <2>5. CASE Limiter!Watch
      BY <2>0, <2>5 DEF Limiter!Watch, Limiter!Credit, Limiter!AtMost
  <2>6. CASE Renew
      BY <2>0, <2>6 DEF Renew, NewLimiter, Limiter!Credit, Limiter!AtMost
  <2> QED
      BY <2>1, <2>2, <2>3, <2>4, <2>5, <2>6 DEF LimiterStep, Limiter!Next
<1> QED
    BY <1>1, LimiterTypes, PTL DEF Spec, Limiter!OnlyAdmissionsCost
-----------------------------------------------------------------------------
\* What the receivers may see of a step of the service.
ReceiverStep == [Receiver!Next]_(Receiver!vars)

\* Limiters and changes of the registry are nothing to the receivers.
LEMMA StepsOfReceiver == [Next]_vars => ReceiverStep
<1> SUFFICES ASSUME [Next]_vars PROVE Receiver!Next \/ UNCHANGED Receiver!vars
    BY DEF ReceiverStep
<1> USE DEF receiverVars, Receiver!vars, Receiver!requestVars, Receiver!historyVars
<1>1. ASSUME NEW r \in Requests, Admit(r) \/ TurnAway(r) PROVE UNCHANGED Receiver!vars
    BY <1>1 DEF Admit, TurnAway, Limiter!Admit, Limiter!Refuse
<1>2. ASSUME NEW r \in Requests, Receive(r) PROVE Receiver!Next
    BY <1>2 DEF Receive, Receiver!Next
<1>3. ASSUME NEW r \in Requests, Leave(r) PROVE UNCHANGED Receiver!vars
    BY <1>3 DEF Leave, Limiter!Release
<1>4. CASE Swap
    BY <1>4 DEF Swap
<1>5. CASE Restart \/ Tick
    BY <1>5 DEF Restart, Tick, Receiver!Next
<1>6. CASE Watch
    BY <1>6 DEF Watch, Limiter!Watch
<1>7. CASE UNCHANGED vars
    BY <1>7 DEF vars
<1> QED
    BY <1>1, <1>2, <1>3, <1>4, <1>5, <1>6, <1>7 DEF Next

\* The service implements the receiver: limiters and changes of the registry add
\* no behaviour to what the receiver does with the requests that come.
THEOREM ImplementsReceiver == Spec => Receiver!Spec
<1>1. Init => Receiver!Init
    BY DEF Init
<1>2. [Next]_vars => [Receiver!Next]_(Receiver!vars)
    BY StepsOfReceiver DEF ReceiverStep
<1> QED
    BY <1>1, <1>2, PTL DEF Spec, Receiver!Spec

\* What is still to come was not appended.
ComingIsNotAppended == \A r \in Requests : at[r] = "coming" => r \notin appended

InductiveInv ==
    /\ Receiver!TypeOK
    /\ ComingIsNotAppended
    /\ Receiver!NoPhantomClaim

Places == {"coming", "claim", "append", "reply", "done"}
Claims == [until : 0 .. MaxClock + Skew, claimant : Requests]

\* The receivers start with types right and no claim.
LEMMA ReceiverInit == Receiver!Init => InductiveInv
BY SkewAssumption, MaxClockAssumption
   DEF Receiver!Init, InductiveInv, Receiver!TypeOK, ComingIsNotAppended,
       Receiver!NoPhantomClaim, Receiver!NoClaims

\* Every step leaves each variable in its type.
LEMMA ReceiverTypeStep == Receiver!TypeOK /\ ReceiverStep => Receiver!TypeOK'
<1> SUFFICES ASSUME Receiver!TypeOK, ReceiverStep
             PROVE  Receiver!TypeOK'
    OBVIOUS
<1> USE SkewAssumption, MaxClockAssumption
<1>1. ASSUME NEW r \in Requests, NEW b \in Batches, NEW time \in 0 .. MaxClock,
             Receiver!Arrive(r, b, time)
      PROVE  Receiver!TypeOK'
    BY <1>1 DEF Receiver!Arrive, Receiver!Answer, Receiver!TypeOK, Receiver!historyVars
<1>2. ASSUME NEW r \in Requests, Receiver!Refuse(r)
      PROVE  Receiver!TypeOK'
    BY <1>2 DEF Receiver!Refuse, Receiver!Answer, Receiver!TypeOK, Receiver!historyVars
<1>3. ASSUME NEW r \in Requests, Receiver!Claim(r)
      PROVE  Receiver!TypeOK'
    <2> DEFINE kept == Receiver!Restrict(guard, Receiver!Unexpired(seen[r]))
    <2>1. DOMAIN kept \subseteq DOMAIN guard /\ \A b \in DOMAIN kept : kept[b] = guard[b]
        BY DEF Receiver!Restrict, Receiver!Unexpired
    <2>2. [until |-> stamp[r] + Skew, claimant |-> r] \in Claims
        BY DEF Receiver!TypeOK, Claims
    <2>3. batch[r] \in Batches
        BY <1>3 DEF Receiver!Claim, Receiver!TypeOK
    <2>4. CASE batch[r] \in DOMAIN kept
        BY <1>3, <2>1, <2>4 DEF Receiver!Claim, Receiver!Answer, Receiver!TypeOK,
            Receiver!historyVars
    <2>5. CASE batch[r] \notin DOMAIN kept
        <3>1. DOMAIN guard' = DOMAIN kept \union {batch[r]}
            BY <1>3, <2>5 DEF Receiver!Claim
        <3>2. \A b \in DOMAIN guard' : guard'[b] \in Claims
            BY <1>3, <2>1, <2>2, <2>5 DEF Receiver!Claim, Receiver!TypeOK, Claims
        <3>3. at' = [at EXCEPT ![r] = "append"]
            BY <1>3, <2>5 DEF Receiver!Claim
        <3> QED
            BY <1>3, <2>1, <2>3, <2>5, <3>1, <3>2, <3>3 DEF Receiver!Claim, Receiver!TypeOK,
                Receiver!historyVars, Claims
    <2> QED
        BY <2>4, <2>5
<1>4. ASSUME NEW r \in Requests, Receiver!AppendSucceeds(r)
      PROVE  Receiver!TypeOK'
    BY <1>4 DEF Receiver!AppendSucceeds, Receiver!TypeOK, Receiver!historyVars
<1>5. ASSUME NEW r \in Requests, Receiver!AppendFails(r)
      PROVE  Receiver!TypeOK'
    BY <1>5 DEF Receiver!AppendFails, Receiver!Answer, Receiver!TypeOK, Receiver!Restrict
<1>6. ASSUME NEW r \in Requests, Receiver!Accept(r)
      PROVE  Receiver!TypeOK'
    BY <1>6 DEF Receiver!Accept, Receiver!Answer, Receiver!TypeOK, Receiver!historyVars
<1>7. CASE Receiver!Restart
    BY <1>7 DEF Receiver!Restart, Receiver!TypeOK, Receiver!NoClaims
<1>8. CASE Receiver!Tick
    BY <1>8 DEF Receiver!Tick, Receiver!TypeOK, Receiver!requestVars, Receiver!historyVars
<1>9. CASE UNCHANGED Receiver!vars
    BY <1>9 DEF Receiver!vars, Receiver!TypeOK, Receiver!requestVars, Receiver!historyVars
<1> QED
    BY <1>1, <1>2, <1>3, <1>4, <1>5, <1>6, <1>7, <1>8, <1>9 DEF ReceiverStep, Receiver!Next

\* A delivery is appended on its way from the guard to its answer.
LEMMA ComingStep ==
    Receiver!TypeOK /\ ComingIsNotAppended /\ ReceiverStep => ComingIsNotAppended'
<1> SUFFICES ASSUME Receiver!TypeOK, ComingIsNotAppended, ReceiverStep
             PROVE  ComingIsNotAppended'
    OBVIOUS
<1> USE DEF ComingIsNotAppended, Receiver!TypeOK
<1>1. ASSUME NEW r \in Requests, NEW b \in Batches, NEW time \in 0 .. MaxClock,
             Receiver!Arrive(r, b, time)
      PROVE  ComingIsNotAppended'
    BY <1>1 DEF Receiver!Arrive, Receiver!Answer
<1>2. ASSUME NEW r \in Requests,
             \/ Receiver!Refuse(r) \/ Receiver!Claim(r) \/ Receiver!AppendSucceeds(r)
             \/ Receiver!AppendFails(r) \/ Receiver!Accept(r)
      PROVE  ComingIsNotAppended'
    BY <1>2 DEF Receiver!Refuse, Receiver!Claim, Receiver!AppendSucceeds,
        Receiver!AppendFails, Receiver!Accept, Receiver!Answer
<1>3. CASE Receiver!Restart \/ Receiver!Tick \/ UNCHANGED Receiver!vars
    BY <1>3 DEF Receiver!Restart, Receiver!Tick, Receiver!vars, Receiver!requestVars
<1> QED
    BY <1>1, <1>2, <1>3 DEF ReceiverStep, Receiver!Next

\* Every claim keeps a delivery behind it.
LEMMA ClaimStep == InductiveInv /\ ReceiverStep => Receiver!NoPhantomClaim'
<1> SUFFICES ASSUME Receiver!TypeOK, ComingIsNotAppended, Receiver!NoPhantomClaim, ReceiverStep
             PROVE  Receiver!NoPhantomClaim'
    BY DEF InductiveInv
<1>1. ASSUME NEW r \in Requests, NEW b \in Batches, NEW time \in 0 .. MaxClock,
             Receiver!Arrive(r, b, time)
      PROVE  Receiver!NoPhantomClaim'
    <2>1. r \notin appended /\ at[r] # "append"
        BY <1>1 DEF Receiver!Arrive, ComingIsNotAppended
    <2> QED
        BY <1>1, <2>1 DEF Receiver!Arrive, Receiver!Answer, Receiver!TypeOK,
            Receiver!NoPhantomClaim
<1>2. ASSUME NEW r \in Requests, Receiver!Refuse(r)
      PROVE  Receiver!NoPhantomClaim'
    BY <1>2 DEF Receiver!Refuse, Receiver!Answer, Receiver!TypeOK, Receiver!NoPhantomClaim
<1>3. ASSUME NEW r \in Requests, Receiver!Claim(r)
      PROVE  Receiver!NoPhantomClaim'
    <2> DEFINE kept == Receiver!Restrict(guard, Receiver!Unexpired(seen[r]))
    <2>1. DOMAIN kept \subseteq DOMAIN guard
        BY DEF Receiver!Restrict, Receiver!Unexpired
    <2>2. /\ DOMAIN guard' \subseteq DOMAIN kept \union {batch[r]}
          /\ batch[r] \notin DOMAIN kept => at'[r] = "append"
        BY <1>3 DEF Receiver!Claim, Receiver!TypeOK
    <2>3. /\ \A q \in Requests : at[q] = "append" => at'[q] = "append"
          /\ batch' = batch /\ appended' = appended
        BY <1>3 DEF Receiver!Claim, Receiver!Answer, Receiver!TypeOK
    <2>4. ASSUME NEW b \in DOMAIN guard'
          PROVE  \E q \in Requests : batch[q] = b /\ (at'[q] = "append" \/ q \in appended)
        <3>1. CASE b \in DOMAIN kept
            BY <2>1, <2>3, <3>1 DEF Receiver!NoPhantomClaim
        <3>2. CASE b \notin DOMAIN kept
            BY <2>2, <2>4, <3>2
        <3> QED
            BY <3>1, <3>2
    <2> QED
        BY <2>3, <2>4 DEF Receiver!NoPhantomClaim
<1>4. ASSUME NEW r \in Requests, Receiver!AppendSucceeds(r)
      PROVE  Receiver!NoPhantomClaim'
    BY <1>4 DEF Receiver!AppendSucceeds, Receiver!TypeOK, Receiver!NoPhantomClaim
<1>5. ASSUME NEW r \in Requests, Receiver!AppendFails(r)
      PROVE  Receiver!NoPhantomClaim'
    <2>1. DOMAIN guard' = DOMAIN guard \ {batch[r]}
        BY <1>5 DEF Receiver!AppendFails, Receiver!Restrict
    <2>2. \A q \in Requests : batch[q] # batch[r] => at'[q] = at[q]
        BY <1>5 DEF Receiver!AppendFails, Receiver!Answer, Receiver!TypeOK
    <2> QED
        BY <1>5, <2>1, <2>2 DEF Receiver!AppendFails, Receiver!NoPhantomClaim
<1>6. ASSUME NEW r \in Requests, Receiver!Accept(r)
      PROVE  Receiver!NoPhantomClaim'
    BY <1>6 DEF Receiver!Accept, Receiver!Answer, Receiver!TypeOK, Receiver!NoPhantomClaim
<1>7. CASE Receiver!Restart
    BY <1>7 DEF Receiver!Restart, Receiver!NoClaims, Receiver!NoPhantomClaim
<1>8. CASE Receiver!Tick \/ UNCHANGED Receiver!vars
    BY <1>8 DEF Receiver!Tick, Receiver!vars, Receiver!requestVars, Receiver!NoPhantomClaim
<1> QED
    BY <1>1, <1>2, <1>3, <1>4, <1>5, <1>6, <1>7, <1>8 DEF ReceiverStep, Receiver!Next

\* The receivers never leave the states of InductiveInv.
LEMMA Invariance == Spec => []InductiveInv
<1>1. Init => InductiveInv
    BY ReceiverInit DEF Init
<1>2. InductiveInv /\ [Next]_vars => InductiveInv'
    BY StepsOfReceiver, ReceiverTypeStep, ComingStep, ClaimStep DEF InductiveInv
<1> QED
    BY <1>1, <1>2, PTL DEF Spec

\* Deliveries, guard and log have their types, whatever is delivered, replaced or
\* restarted.
THEOREM ReceiverTypes == Spec => []Receiver!TypeOK
<1>1. InductiveInv => Receiver!TypeOK
    BY DEF InductiveInv
<1> QED
    BY <1>1, Invariance, PTL

\* For any number of deliveries, batches and handlers: a batch is only called a
\* duplicate while, or after, another delivery of it is appended (ReplayGuard.claim
\* and ReplayGuard.release).
THEOREM ClaimsAreReal == Spec => []NoPhantomClaim
<1>1. InductiveInv => NoPhantomClaim
    BY DEF InductiveInv, NoPhantomClaim
<1> QED
    BY <1>1, Invariance, PTL

\* Between its claim and the next restart a delivery holds the claim of its batch.
Holding(r) == at[r] = "append" \/ r \in appended \ forgotten

\* A claim ends with the stamp of the delivery that made it, and is still there
\* while that delivery holds it, its stamp is good and nobody released it for it.
ClaimsAreHeld ==
    /\ \A b \in DOMAIN guard :
        /\ at[guard[b].claimant] # "coming"
        /\ guard[b].until = stamp[guard[b].claimant] + Skew
    /\ \A r \in Requests :
        Holding(r) /\ batch[r] \notin overtaken /\ clock <= stamp[r] + Skew =>
            batch[r] \in DOMAIN guard /\ guard[batch[r]].claimant = r
    /\ \A r \in Requests : seen[r] <= clock
    /\ \A r \in appended : at[r] \in {"reply", "done"} /\ batch[r] \in Batches

\* At the start no batch is claimed, so every claim is held.
LEMMA HeldInit == Receiver!Init => ClaimsAreHeld
BY SkewAssumption, MaxClockAssumption DEF Receiver!Init, ClaimsAreHeld, Holding,
    Receiver!NoClaims

\* A claim leaves the guard when it ends, with a restart, or when a failed append
\* releases it, which overtakes the delivery whose claim it was.
LEMMA HeldStep == Receiver!TypeOK /\ ClaimsAreHeld /\ ReceiverStep => ClaimsAreHeld'
<1> SUFFICES ASSUME Receiver!TypeOK, ClaimsAreHeld, ReceiverStep
             PROVE  ClaimsAreHeld'
    OBVIOUS
<1> USE SkewAssumption, MaxClockAssumption DEF Receiver!TypeOK, Receiver!requestVars,
    Receiver!historyVars, Holding
<1>1. ASSUME NEW r \in Requests, NEW b \in Batches, NEW time \in 0 .. MaxClock,
             Receiver!Arrive(r, b, time)
      PROVE  ClaimsAreHeld'
    BY <1>1 DEF Receiver!Arrive, Receiver!Answer, ClaimsAreHeld
<1>2. ASSUME NEW r \in Requests, Receiver!Refuse(r)
      PROVE  ClaimsAreHeld'
    BY <1>2 DEF Receiver!Refuse, Receiver!Answer, ClaimsAreHeld
<1>3. ASSUME NEW r \in Requests, Receiver!Claim(r)
      PROVE  ClaimsAreHeld'
    <2> DEFINE kept == Receiver!Restrict(guard, Receiver!Unexpired(seen[r]))
    <2>1. /\ DOMAIN kept = {b \in DOMAIN guard : seen[r] <= guard[b].until}
          /\ \A b \in DOMAIN kept : kept[b] = guard[b]
        BY DEF Receiver!Restrict, Receiver!Unexpired
    <2>2. \A q \in Requests :
              Holding(q) /\ batch[q] \notin overtaken /\ clock <= stamp[q] + Skew =>
                  batch[q] \in DOMAIN kept /\ kept[batch[q]].claimant = q
        <3> SUFFICES ASSUME NEW q \in Requests, Holding(q), batch[q] \notin overtaken,
                            clock <= stamp[q] + Skew
                     PROVE  batch[q] \in DOMAIN kept /\ kept[batch[q]].claimant = q
            OBVIOUS
        <3>1. /\ batch[q] \in DOMAIN guard
              /\ guard[batch[q]].claimant = q
              /\ guard[batch[q]].until = stamp[q] + Skew
              /\ seen[r] <= clock
            BY DEF ClaimsAreHeld
        <3> QED
            BY <2>1, <3>1
    <2>3. CASE batch[r] \in DOMAIN kept
        BY <1>3, <2>1, <2>2, <2>3 DEF Receiver!Claim, Receiver!Answer, ClaimsAreHeld
    <2>4. CASE batch[r] \notin DOMAIN kept
        <3> DEFINE claim == [until |-> stamp[r] + Skew, claimant |-> r]
        <3> HIDE DEF kept
        <3>1. /\ guard' = [b \in DOMAIN kept \union {batch[r]} |->
                              IF b = batch[r] THEN claim ELSE kept[b]]
              /\ at' = [at EXCEPT ![r] = "append"] /\ at[r] = "claim"
              /\ UNCHANGED <<clock, batch, stamp, seen, appended, forgotten, overtaken>>
            BY <1>3, <2>4 DEF Receiver!Claim, kept
        <3>2. \A b \in DOMAIN guard' :
                  /\ at'[guard'[b].claimant] # "coming"
                  /\ guard'[b].until = stamp'[guard'[b].claimant] + Skew
            BY <2>1, <3>1 DEF ClaimsAreHeld
        <3>3. \A q \in Requests :
                  Holding(q)' /\ batch'[q] \notin overtaken' /\ clock' <= stamp'[q] + Skew =>
                      batch'[q] \in DOMAIN guard' /\ guard'[batch'[q]].claimant = q
            BY <2>2, <2>4, <3>1
        <3> QED
            BY <3>1, <3>2, <3>3 DEF ClaimsAreHeld
    <2> QED
        BY <2>3, <2>4
<1>4. ASSUME NEW r \in Requests, Receiver!AppendSucceeds(r)
      PROVE  ClaimsAreHeld'
    BY <1>4 DEF Receiver!AppendSucceeds, ClaimsAreHeld
<1>5. ASSUME NEW r \in Requests, Receiver!AppendFails(r)
      PROVE  ClaimsAreHeld'
    <2>1. /\ DOMAIN guard' = DOMAIN guard \ {batch[r]}
          /\ \A b \in DOMAIN guard' : guard'[b] = guard[b]
        BY <1>5 DEF Receiver!AppendFails, Receiver!Restrict
    <2>2. \A q \in Requests :
              Holding(q)' /\ batch[q] \notin overtaken' /\ clock <= stamp[q] + Skew =>
                  batch[q] \in DOMAIN guard' /\ guard[batch[q]].claimant = q
        <3> SUFFICES ASSUME NEW q \in Requests, Holding(q)', batch[q] \notin overtaken',
                            clock <= stamp[q] + Skew
                     PROVE  batch[q] \in DOMAIN guard' /\ guard[batch[q]].claimant = q
            OBVIOUS
        <3>1. q # r /\ Holding(q) /\ batch[q] \notin overtaken
            BY <1>5 DEF Receiver!AppendFails, Receiver!Answer, ClaimsAreHeld
        <3>2. batch[q] \in DOMAIN guard /\ guard[batch[q]].claimant = q
            BY <3>1 DEF ClaimsAreHeld
        <3>3. batch[q] # batch[r]
            BY <1>5, <3>1, <3>2 DEF Receiver!AppendFails
        <3> QED
            BY <2>1, <3>2, <3>3
    <2>3. /\ at' = [at EXCEPT ![r] = "done"] /\ at[r] = "append"
          /\ UNCHANGED <<clock, batch, stamp, seen, appended, forgotten>>
        BY <1>5 DEF Receiver!AppendFails, Receiver!Answer
    <2>4. \A b \in DOMAIN guard' :
              /\ at'[guard'[b].claimant] # "coming"
              /\ guard'[b].until = stamp'[guard'[b].claimant] + Skew
        BY <2>1, <2>3 DEF ClaimsAreHeld
    <2>5. \A q \in appended' : at'[q] \in {"reply", "done"} /\ batch'[q] \in Batches
        BY <2>3 DEF ClaimsAreHeld
    <2> QED
        BY <2>1, <2>2, <2>3, <2>4, <2>5 DEF ClaimsAreHeld
<1>6. ASSUME NEW r \in Requests, Receiver!Accept(r)
      PROVE  ClaimsAreHeld'
    BY <1>6 DEF Receiver!Accept, Receiver!Answer, ClaimsAreHeld
<1>7. CASE Receiver!Restart
    BY <1>7 DEF Receiver!Restart, Receiver!NoClaims, ClaimsAreHeld
<1>8. CASE Receiver!Tick
    BY <1>8 DEF Receiver!Tick, ClaimsAreHeld
<1>9. CASE UNCHANGED Receiver!vars
    BY <1>9 DEF Receiver!vars, ClaimsAreHeld
<1> QED
    BY <1>1, <1>2, <1>3, <1>4, <1>5, <1>6, <1>7, <1>8, <1>9 DEF ReceiverStep, Receiver!Next

\* While the stamps of both are good and without a restart in between, a batch is
\* appended twice only if one delivery released the claim of another (ReplayGuard.release):
\* that the registry has changed, and with it the handler, never lets a batch in again.
THEOREM Once == Spec => OnceUnlessOvertaken
<1> DEFINE Excused == \A r \in Requests : Receiver!Repeats(r) => batch[r] \in overtaken
<1>1. Receiver!TypeOK /\ ClaimsAreHeld => Excused
    <2> SUFFICES ASSUME Receiver!TypeOK, ClaimsAreHeld, NEW r \in Requests, Receiver!Repeats(r),
                        batch[r] \notin overtaken
                 PROVE  FALSE
        OBVIOUS
    <2>1. PICK q \in appended \ forgotten : batch[q] = batch[r] /\ Receiver!BothValid(q, r)
        BY DEF Receiver!Repeats
    <2>2. guard[batch[r]].claimant = r /\ guard[batch[r]].claimant = q
        BY <2>1 DEF Receiver!Repeats, Receiver!BothValid, ClaimsAreHeld, Holding,
            Receiver!TypeOK
    <2> QED
        BY <2>1, <2>2 DEF Receiver!Repeats, ClaimsAreHeld
<1>2. Receiver!TypeOK /\ ClaimsAreHeld /\ [Next]_vars => [Excused]_vars
    BY <1>1
<1>3. Init => ClaimsAreHeld
    BY HeldInit DEF Init
<1>4. Receiver!TypeOK /\ ClaimsAreHeld /\ [Next]_vars => ClaimsAreHeld'
    BY HeldStep, StepsOfReceiver
<1> QED
    BY <1>2, <1>3, <1>4, ReceiverTypes, PTL DEF Spec, OnceUnlessOvertaken
=============================================================================
