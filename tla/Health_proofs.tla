--------------------------- MODULE Health_proofs ---------------------------
(***************************************************************************)
(* Proofs about Health: for any partitions, thresholds and cache lifetime, *)
(* any series of results and any schedule of requests, the types hold and  *)
(* no answer is older than its threshold and the cache allow.              *)
(***************************************************************************)
EXTENDS Health, FiniteSetTheorems, TLAPS

(***************************************************************************)
(* What a staleness v says if it was computed at time c: some check        *)
(* succeeded v before c, and none has succeeded since, up to c.            *)
(***************************************************************************)
TrueAt(v, c) ==
    /\ v # NoValue => c - v \in successes
    /\ \A t \in successes : t < c => v # NoValue /\ t <= c - v

\* The gauge of the sequence lags behind only until the first result.
ShownKeepsUp == pending # Partitions \/ sequence = 0 => shown = sequence

\* The timestamps are those of successes, one of them is the last success's,
\* and one of them is the largest.
StampsOfSuccesses == \A p \in Partitions : freshest[p] \in successes \cup {0}
LastSuccessShown == \A t \in successes : \E p \in Partitions : freshest[p] >= t
FreshestExists == Stamps = {} \/ \E t \in Stamps : \A u \in Stamps : u <= t

\* The cached staleness was true when it was cached, the one a request goes by
\* at most one cache lifetime before the request came.
CacheTrue == TrueAt(staleness.value, staleness.timestamp)
ReadTrue ==
    pc \in {"rate", "again"} =>
        \E c \in (began - CacheTTL + 1)..now : TrueAt(read, c)

\* The failure rate never has a value.
NoRate == rate.value = "none"

Honest ==
    /\ ShownKeepsUp
    /\ StampsOfSuccesses
    /\ LastSuccessShown
    /\ FreshestExists
    /\ CacheTrue
    /\ ReadTrue
    /\ NoRate
    /\ HealthyIsRecent
    /\ AlarmIsRecent

Inv == TypeOK /\ Honest

(***************************************************************************)
(* Staleness and caches                                                    *)
(***************************************************************************)
\* What is computed from the registry is true at that moment.
LEMMA StalenessTrue ==
    ASSUME Inv
    PROVE  Staleness \in {NoValue} \cup 0..now /\ TrueAt(Staleness, now)
<1> USE DEF Inv, Honest, TypeOK
<1>1. CASE Stamps = {}
  <2>1. Staleness = NoValue
    BY <1>1 DEF Staleness
  <2>2. \A p \in Partitions : freshest[p] = 0
    BY <1>1 DEF Stamps
  <2>3. successes = {}
    BY <2>2 DEF LastSuccessShown
  <2> QED BY <2>1, <2>3 DEF TrueAt
<1>2. CASE Stamps # {}
  <2> DEFINE last == CHOOSE t \in Stamps : \A u \in Stamps : u <= t
  <2>1. \E t \in Stamps : \A u \in Stamps : u <= t
    BY <1>2 DEF FreshestExists
  <2>2. last \in Stamps /\ \A u \in Stamps : u <= last
    BY <2>1
  <2>3. Staleness = now - last
    BY <1>2 DEF Staleness
  <2> HIDE DEF last
  <2>4. last \in successes
    BY <2>2 DEF Stamps, StampsOfSuccesses
  <2>5. last \in 1..now
    BY <2>4
  <2>6. ASSUME NEW t \in successes PROVE t <= last
    <3>1. PICK p \in Partitions : freshest[p] >= t
      BY DEF LastSuccessShown
    <3>2. freshest[p] \in Stamps
      BY <3>1 DEF Stamps
    <3>3. freshest[p] <= last
      BY <2>2, <3>2
    <3> QED BY <2>5, <3>1, <3>3
  <2>7. now - Staleness = last /\ Staleness \in 0..now
    BY <2>3, <2>5
  <2>8. Staleness # NoValue
    BY <2>7 DEF NoValue
  <2> QED BY <2>4, <2>6, <2>7, <2>8 DEF TrueAt
<1> QED BY <1>1, <1>2

\* So is what a request reads through the cache, within one lifetime.
LEMMA ConsultTrue ==
    ASSUME Inv, NEW cache, cache = Consult(staleness, Staleness)
    PROVE  /\ cache \in [value : {NoValue} \cup 0..now, timestamp : 1 - CacheTTL..now]
           /\ cache.timestamp > now - CacheTTL
           /\ TrueAt(cache.value, cache.timestamp)
<1> USE ThresholdAssumption DEF Inv, TypeOK
<1>1. CASE now - staleness.timestamp < CacheTTL
  <2>1. cache = staleness
    BY <1>1 DEF Consult
  <2> QED BY <1>1, <2>1 DEF Honest, CacheTrue
<1>2. CASE ~(now - staleness.timestamp < CacheTTL)
  <2>1. cache = [value |-> Staleness, timestamp |-> now]
    BY <1>2 DEF Consult
  <2>2. now \in 1 - CacheTTL..now
    OBVIOUS
  <2> QED BY <2>1, <2>2, StalenessTrue
<1> QED BY <1>1, <1>2

\* The failure rate that a request reads is never there.
LEMMA NoRateRead ==
    ASSUME Inv, NEW cache, cache = Consult(rate, FailureRate)
    PROVE  /\ cache \in [value : Rates, timestamp : 1 - CacheTTL..now]
           /\ cache.value = "none"
<1> USE ThresholdAssumption DEF Inv, TypeOK
<1>1. FailureRate = "none"
  BY DEF FailureRate, Families
<1>2. CASE now - rate.timestamp < CacheTTL
  BY <1>2 DEF Consult, Honest, NoRate
<1>3. CASE ~(now - rate.timestamp < CacheTTL)
  <2>1. cache = [value |-> "none", timestamp |-> now]
    BY <1>1, <1>3 DEF Consult
  <2>2. now \in 1 - CacheTTL..now /\ "none" \in Rates
    BY DEF Rates
  <2> QED BY <2>1, <2>2
<1> QED BY <1>2, <1>3

(***************************************************************************)
(* The invariant                                                           *)
(***************************************************************************)
\* The initial state satisfies the invariant.
LEMMA InitInv == Init => Inv
<1> SUFFICES ASSUME Init PROVE Inv
  OBVIOUS
<1> USE ThresholdAssumption, PartitionAssumption DEF Init
<1>1. TypeOK
  BY DEF TypeOK, NoValue, Rates, Pcs, Answers
<1>2. Honest
  <2>1. CacheTrue /\ ReadTrue /\ NoRate /\ ShownKeepsUp
    BY DEF CacheTrue, TrueAt, NoValue, ReadTrue, NoRate, ShownKeepsUp
  <2>2. Stamps = {}
    BY DEF Stamps
  <2> QED BY <2>1, <2>2 DEF Honest, StampsOfSuccesses, LastSuccessShown,
             FreshestExists, HealthyIsRecent, AlarmIsRecent
<1> QED BY <1>1, <1>2 DEF Inv

\* Every step keeps the types.
LEMMA StepTypes == Inv /\ [Next]_vars => TypeOK'
<1> SUFFICES ASSUME Inv, [Next]_vars PROVE TypeOK'
  OBVIOUS
<1> USE ThresholdAssumption, PartitionAssumption
    DEF Inv, TypeOK, main, caches, server, Rates, Pcs, Answers
<1>0. CASE UNCHANGED vars
  BY <1>0 DEF vars
<1>1. CASE Tick
  BY <1>1 DEF Tick
<1>2. CASE NextCycle
  <2>1. shown = sequence
    BY <1>2 DEF NextCycle, Honest, ShownKeepsUp
  <2> QED BY <1>2, <2>1 DEF NextCycle
<1>3. ASSUME NEW p \in Partitions, CollectSuccess(p)
      PROVE  TypeOK'
  BY <1>3 DEF CollectSuccess, Collect
<1>4. ASSUME NEW p \in Partitions, CollectFailure(p)
      PROVE  TypeOK'
  BY <1>4 DEF CollectFailure, Collect
<1>5. CASE Request
  BY <1>5 DEF Request
<1>6. CASE HealthStaleness
  BY <1>6, ConsultTrue DEF HealthStaleness, ReadStaleness
<1>7. CASE HealthReply
  <2>1. Verdict(read, rate'.value) \in Answers
    BY DEF Verdict
  <2> QED BY <1>7, <2>1, NoRateRead DEF HealthReply, Reply
<1>8. CASE ReadyTooEarly
  BY <1>8, ConsultTrue DEF ReadyTooEarly, Reply
<1>9. CASE ReadyStaleness
  BY <1>9, ConsultTrue DEF ReadyStaleness, ReadStaleness
<1>10. CASE ReadyReply
  <2>1. answer' \in {"ready", "not_ready"}
    BY <1>10 DEF ReadyReply, Reply
  <2> QED BY <1>10, <2>1, ConsultTrue DEF ReadyReply, Reply
<1> QED BY <1>0, <1>1, <1>2, <1>3, <1>4, <1>5, <1>6, <1>7, <1>8, <1>9, <1>10
        DEF Next, Main, Server

\* Every step keeps the rest of the invariant.
LEMMA StepHonest == Inv /\ [Next]_vars => Honest'
<1> SUFFICES ASSUME Inv, [Next]_vars PROVE Honest'
  OBVIOUS
<1> USE ThresholdAssumption, PartitionAssumption
    DEF Inv, Honest, TypeOK, main, caches, server
<1>t. TypeOK'
  BY StepTypes DEF Inv, Honest
<1>0. CASE UNCHANGED vars
  BY <1>0 DEF vars, ShownKeepsUp, StampsOfSuccesses, LastSuccessShown, FreshestExists,
              Stamps, CacheTrue, ReadTrue, TrueAt, NoRate, HealthyIsRecent, AlarmIsRecent
<1>1. CASE Tick
  BY <1>1 DEF Tick, ShownKeepsUp, StampsOfSuccesses, LastSuccessShown, FreshestExists,
              Stamps, CacheTrue, ReadTrue, TrueAt, NoRate, HealthyIsRecent, AlarmIsRecent
<1>2. CASE NextCycle
  <2>1. ShownKeepsUp'
    BY <1>2 DEF NextCycle, ShownKeepsUp
  <2> QED BY <1>2, <2>1
      DEF NextCycle, StampsOfSuccesses, LastSuccessShown, FreshestExists,
          Stamps, CacheTrue, ReadTrue, TrueAt, NoRate, HealthyIsRecent, AlarmIsRecent
<1>3. ASSUME NEW p \in Partitions, CollectSuccess(p)
      PROVE  Honest'
  <2> USE <1>3 DEF CollectSuccess, Collect
  <2>1. /\ freshest' = [freshest EXCEPT ![p] = now]
        /\ successes' = successes \cup {now}
        /\ now' = now /\ now \in Nat \ {0}
        /\ UNCHANGED <<sequence, staleness, rate, pc, read, answer, began>>
    OBVIOUS
  <2>2. ShownKeepsUp'
    BY DEF ShownKeepsUp
  <2>3. StampsOfSuccesses'
    BY <2>1 DEF StampsOfSuccesses
  <2>4. LastSuccessShown'
    <3>1. freshest'[p] = now
      BY <2>1
    <3>2. \A t \in successes' : freshest'[p] >= t
      BY <2>1, <3>1
    <3> QED BY <3>2 DEF LastSuccessShown
  <2>5. FreshestExists'
    <3>1. now \in Stamps'
      BY <2>1 DEF Stamps
    <3>2. \A u \in Stamps' : u <= now
      BY <1>t, <2>1 DEF Stamps
    <3> QED BY <3>1, <3>2 DEF FreshestExists
  <2>6. CacheTrue'
    BY <2>1 DEF CacheTrue, TrueAt
  <2>7. ReadTrue'
    <3>1. ASSUME NEW c \in (began - CacheTTL + 1)..now, TrueAt(read, c)
          PROVE  TrueAt(read, c)'
      BY <2>1, <3>1 DEF TrueAt
    <3> QED BY <2>1, <3>1 DEF ReadTrue
  <2>8. HealthyIsRecent'
    BY <2>1 DEF HealthyIsRecent
  <2>9. AlarmIsRecent'
    BY <2>1 DEF AlarmIsRecent
  <2> QED BY <2>1, <2>2, <2>3, <2>4, <2>5, <2>6, <2>7, <2>8, <2>9 DEF NoRate
<1>4. ASSUME NEW p \in Partitions, CollectFailure(p)
      PROVE  Honest'
  <2> USE <1>4 DEF CollectFailure, Collect
  <2>1. ShownKeepsUp'
    BY DEF ShownKeepsUp
  <2>2. /\ UNCHANGED <<now, freshest, successes>>
        /\ UNCHANGED <<staleness, rate, pc, read, answer, began>>
    OBVIOUS
  <2> HIDE <1>4 DEF Collect, CollectFailure
  <2>3. StampsOfSuccesses' /\ LastSuccessShown'
    BY <2>2 DEF StampsOfSuccesses, LastSuccessShown
  <2>6. FreshestExists'
    <3>1. Stamps' = Stamps
      BY <2>2 DEF Stamps
    <3> QED BY <3>1 DEF FreshestExists
  <2>4. CacheTrue' /\ ReadTrue' /\ NoRate'
    BY <2>2 DEF CacheTrue, ReadTrue, TrueAt, NoRate
  <2>5. HealthyIsRecent' /\ AlarmIsRecent'
    BY <2>2 DEF HealthyIsRecent, AlarmIsRecent
  <2> QED BY <2>1, <2>3, <2>4, <2>5, <2>6
<1>5. ASSUME UNCHANGED <<now, main>>
      PROVE  /\ ShownKeepsUp' /\ StampsOfSuccesses' /\ LastSuccessShown'
             /\ FreshestExists'
  BY <1>5 DEF ShownKeepsUp, StampsOfSuccesses, LastSuccessShown, FreshestExists, Stamps
<1>6. CASE Request
  BY <1>5, <1>6 DEF Request, CacheTrue, ReadTrue, TrueAt, NoRate, HealthyIsRecent,
                    AlarmIsRecent
<1>7. CASE HealthStaleness
  <2> USE <1>7 DEF HealthStaleness, ReadStaleness
  <2>1. /\ staleness'.timestamp \in (began - CacheTTL + 1)..now
        /\ TrueAt(staleness'.value, staleness'.timestamp)
    BY ConsultTrue
  <2>2. CacheTrue' /\ ReadTrue'
    BY <2>1 DEF CacheTrue, ReadTrue, TrueAt
  <2> QED BY <1>5, <2>2 DEF NoRate, HealthyIsRecent, AlarmIsRecent
<1>8. CASE HealthReply
  <2> USE <1>8 DEF HealthReply, Reply
  <2>1. rate'.value = "none" /\ answer' = Verdict(read, "none")
    BY NoRateRead
  <2>2. PICK c \in (began - CacheTTL + 1)..now : TrueAt(read, c)
    BY DEF ReadTrue
  <2>3. HealthyIsRecent'
    <3>1. SUFFICES ASSUME answer' = "healthy"
                   PROVE  \E t \in successes : began - t < DegradedAfter + CacheTTL
      BY <2>1 DEF HealthyIsRecent, Verdict
    <3>2. read # NoValue /\ ~(read > DegradedAfter)
      BY <2>1, <3>1 DEF Verdict
    <3>3. c - read \in successes
      BY <2>2, <3>2 DEF TrueAt
    <3>4. began - (c - read) < DegradedAfter + CacheTTL
      BY <3>2 DEF NoValue
    <3> QED BY <3>3, <3>4
  <2>4. AlarmIsRecent'
    <3>1. CASE answer' = "degraded"
      <4>1. read # NoValue /\ read > DegradedAfter
        BY <2>1, <3>1 DEF Verdict
      <4>2. \A t \in successes : t < c => c - t > DegradedAfter
        BY <2>2, <4>1 DEF TrueAt, NoValue
      <4> QED BY <3>1, <4>2 DEF AlarmIsRecent
    <3>2. CASE answer' = "unhealthy"
      <4>1. read = NoValue \/ read > UnhealthyAfter
        BY <2>1, <3>2 DEF Verdict
      <4>2. \A t \in successes : t < c => c - t > UnhealthyAfter
        BY <2>2, <4>1 DEF TrueAt, NoValue
      <4> QED BY <3>2, <4>2 DEF AlarmIsRecent
    <3> QED BY <3>1, <3>2 DEF AlarmIsRecent
  <2>5. CacheTrue' /\ ReadTrue'
    BY DEF CacheTrue, ReadTrue, TrueAt
  <2> QED BY <1>5, <2>1, <2>3, <2>4, <2>5 DEF NoRate
<1>9. CASE ReadyTooEarly
  <2> USE <1>9 DEF ReadyTooEarly, Reply
  <2>1. TrueAt(staleness'.value, staleness'.timestamp)
    BY ConsultTrue
  <2>2. CacheTrue' /\ ReadTrue'
    BY <2>1 DEF CacheTrue, ReadTrue, TrueAt
  <2> QED BY <1>5, <2>2 DEF NoRate, HealthyIsRecent, AlarmIsRecent
<1>10. CASE ReadyStaleness
  <2> USE <1>10 DEF ReadyStaleness, ReadStaleness
  <2>1. /\ staleness'.timestamp \in (began - CacheTTL + 1)..now
        /\ TrueAt(staleness'.value, staleness'.timestamp)
    BY ConsultTrue
  <2>2. CacheTrue' /\ ReadTrue'
    BY <2>1 DEF CacheTrue, ReadTrue, TrueAt
  <2> QED BY <1>5, <2>2 DEF NoRate, HealthyIsRecent, AlarmIsRecent
<1>11. CASE ReadyReply
  <2> USE <1>11 DEF ReadyReply, Reply
  <2>1. TrueAt(staleness'.value, staleness'.timestamp)
    BY ConsultTrue
  <2>2. CacheTrue' /\ ReadTrue'
    BY <2>1 DEF CacheTrue, ReadTrue, TrueAt
  <2>3. PICK c \in (began - CacheTTL + 1)..now : TrueAt(read, c)
    BY DEF ReadTrue
  <2>4. HealthyIsRecent'
    <3>1. SUFFICES ASSUME answer' = "ready"
                   PROVE  \E t \in successes : began - t < DegradedAfter + CacheTTL
      BY DEF HealthyIsRecent
    <3>2. read # NoValue /\ read < DegradedAfter
      BY <3>1 DEF WarmupComplete
    <3>3. c - read \in successes
      BY <2>3, <3>2 DEF TrueAt
    <3>4. began - (c - read) < DegradedAfter + CacheTTL
      BY <3>2 DEF NoValue
    <3> QED BY <3>3, <3>4
  <2>5. AlarmIsRecent'
    BY DEF AlarmIsRecent
  <2> QED BY <1>5, <2>2, <2>4, <2>5 DEF NoRate
<1> QED BY <1>0, <1>1, <1>2, <1>3, <1>4, <1>6, <1>7, <1>8, <1>9, <1>10, <1>11
        DEF Next, Main, Server

(***************************************************************************)
(* The theorems                                                            *)
(***************************************************************************)
\* The invariant holds in every state.
THEOREM HealthInvariant == Spec => []Inv
<1>1. Inv /\ [Next]_vars => Inv'
  BY StepTypes, StepHonest DEF Inv
<1> QED BY InitInv, <1>1, PTL DEF Spec

\* Type correctness of registry, caches and requests; the sequence gauge lags
\* behind by one at most.
THEOREM TypeCorrect == Spec => []TypeOK
<1>1. Inv => TypeOK
  BY DEF Inv
<1> QED BY HealthInvariant, <1>1, PTL

\* A request answered "healthy" or "ready" had a success within threshold and
\* cache lifetime.
THEOREM PositiveAnswers == Spec => []HealthyIsRecent
<1>1. Inv => HealthyIsRecent
  BY DEF Inv, Honest
<1> QED BY HealthInvariant, <1>1, PTL

\* A request answered "degraded" or "unhealthy" had none for as long as that
\* answer says, at some moment within one cache lifetime before it came.
THEOREM NegativeAnswers == Spec => []AlarmIsRecent
<1>1. Inv => AlarmIsRecent
  BY DEF Inv, Honest
<1> QED BY HealthInvariant, <1>1, PTL

\* The failure rate is never there, so it never makes an answer worse.
THEOREM RateNeverCounts == Spec => [](rate.value = "none")
<1>1. Inv => rate.value = "none"
  BY DEF Inv, Honest, NoRate
<1> QED BY HealthInvariant, <1>1, PTL

(***************************************************************************)
(* Readiness.  The sequence gauge is ahead of the completed cycles by the  *)
(* cycle it counts; how many results lie behind it follows from the sum of *)
(* what is counted and what is pending.                                    *)
(***************************************************************************)
N == Cardinality(Partitions)
Results == checks.success + checks.failure

\* All results of the required cycles but the last, and one of the last.
LastBegun == Results > (ReadyCycles - 1) * N

ReadyInv ==
    /\ Results + Cardinality(pending) = sequence * N
    /\ sequence = 0 => pending = {}
    /\ pending = Partitions => shown = sequence - 1
    /\ pc = "again" => LastBegun
    /\ ReadyDuringLast

\* There is a partition, and the pending ones are among them.
LEMMA PendingCounted ==
    ASSUME TypeOK
    PROVE  /\ N \in Nat /\ N > 0 /\ Cardinality(pending) \in 0..N
           /\ pending # Partitions => Cardinality(pending) < N
           /\ \A p \in pending : Cardinality(pending \ {p}) = Cardinality(pending) - 1
<1>1. IsFiniteSet(Partitions) /\ Partitions # {} /\ pending \subseteq Partitions
  BY PartitionAssumption DEF TypeOK
<1>2. IsFiniteSet(pending) /\ Cardinality(pending) \in Nat /\ N \in Nat
  BY <1>1, FS_Subset, FS_CardinalityType DEF N
<1>3. /\ Cardinality(pending) <= N
      /\ pending # Partitions => Cardinality(pending) < N
  BY <1>1, <1>2, FS_Subset DEF N
<1>4. N # 0
  BY <1>1, FS_EmptySet DEF N
<1>5. \A p \in pending : Cardinality(pending \ {p}) = Cardinality(pending) - 1
  BY <1>2, FS_RemoveElement
<1> QED BY <1>2, <1>3, <1>4, <1>5

\* More cycles have more results.
LEMMA TimesKeepsOrder ==
    ASSUME NEW a \in Int, NEW b \in Int, NEW n \in Nat, a <= b
    PROVE  a * n <= b * n
<1>1. PICK d \in Nat : b = a + d
  <2>1. b - a \in Nat /\ b = a + (b - a)
    OBVIOUS
  <2> QED BY <2>1
<1>2. b * n = a * n + d * n /\ d * n \in Nat /\ a * n \in Int
  BY <1>1
<1> QED BY <1>2

\* When the gauge has reached the threshold the last cycle has begun to count.
LEMMA EnoughMeansBegun ==
    ASSUME Inv, ReadyInv, EnoughCycles
    PROVE  LastBegun
<1>1. /\ sequence \in Nat /\ shown \in {sequence, sequence - 1} \cap Nat
      /\ ReadyCycles \in Nat \ {0} /\ Results \in Nat /\ shown >= ReadyCycles
      /\ pending # Partitions => shown = sequence
      /\ pending = Partitions => shown = sequence - 1
  BY ThresholdAssumption
     DEF Inv, Honest, ShownKeepsUp, TypeOK, ReadyInv, EnoughCycles, Results
<1>2. TypeOK
  BY DEF Inv
<1>3. PICK done \in Int :
        /\ ReadyCycles - 1 <= done
        /\ Results > done * N
  <2>1. (sequence - 1) * N = sequence * N - N /\ sequence * N \in Int
    BY <1>1, <1>2, PendingCounted
  <2>2. CASE pending = Partitions
    <3>1. Results = (sequence - 1) * N
      BY <1>1, <1>2, <2>1, <2>2, PendingCounted DEF ReadyInv, N
    <3>2. (sequence - 2) * N = (sequence - 1) * N - N /\ (sequence - 1) * N \in Int
      BY <1>1, <1>2, PendingCounted
    <3>3. Results > (sequence - 2) * N
      BY <1>1, <1>2, <3>1, <3>2, PendingCounted
    <3>4. ReadyCycles - 1 <= sequence - 2 /\ sequence - 2 \in Int
      BY <1>1, <2>2
    <3> QED BY <3>3, <3>4
  <2>3. CASE pending # Partitions
    <3>1. Results > (sequence - 1) * N
      BY <1>1, <1>2, <2>1, <2>3, PendingCounted DEF ReadyInv
    <3>2. ReadyCycles - 1 <= sequence - 1 /\ sequence - 1 \in Int
      BY <1>1, <2>3
    <3> QED BY <3>1, <3>2
  <2> QED BY <2>2, <2>3
<1>4. (ReadyCycles - 1) * N <= done * N
  BY <1>1, <1>2, <1>3, PendingCounted, TimesKeepsOrder
<1>5. (ReadyCycles - 1) * N \in Int /\ done * N \in Int
  BY <1>1, <1>2, <1>3, PendingCounted
<1> QED BY <1>1, <1>3, <1>4, <1>5 DEF LastBegun

\* Before the first cycle nothing is counted and nothing pending.
LEMMA InitReadyInv == Init => ReadyInv
<1> SUFFICES ASSUME Init PROVE ReadyInv
  OBVIOUS
<1>1. N \in Nat /\ Cardinality({}) = 0 /\ 0 * N = 0
  BY PartitionAssumption, FS_CardinalityType, FS_EmptySet DEF N
<1> QED BY <1>1, PartitionAssumption DEF Init, ReadyInv, Results, ReadyDuringLast

\* Every step keeps it: results only accumulate, and each settles one that was
\* pending.
LEMMA StepReadyInv == Inv /\ ReadyInv /\ [Next]_vars => ReadyInv'
<1> SUFFICES ASSUME Inv, ReadyInv, [Next]_vars PROVE ReadyInv'
  OBVIOUS
<1>t. /\ TypeOK /\ sequence \in Nat /\ Results \in Nat
      /\ N \in Nat /\ N > 0 /\ Cardinality(pending) \in Nat
      /\ checks \in [success : Nat, failure : Nat]
  BY PendingCounted DEF Inv, TypeOK, Results
<1>b. LastBegun <=> Results > (ReadyCycles - 1) * N
  BY DEF LastBegun
<1>1. CASE NextCycle
  <2>1. /\ pending = {} /\ pending' = Partitions /\ sequence' = sequence + 1
        /\ UNCHANGED <<checks, shown, pc, answer>>
    BY <1>1 DEF NextCycle, server
  <2>2. shown = sequence
    BY <2>1, PartitionAssumption DEF Inv, Honest, ShownKeepsUp
  <2>3. Cardinality(pending) = 0 /\ Cardinality(pending') = N
    BY <2>1, FS_EmptySet DEF N
  <2>4. (sequence + 1) * N = sequence * N + N /\ sequence * N \in Nat
    BY <1>t
  <2>5. Results' + Cardinality(pending') = sequence' * N
    BY <1>t, <2>1, <2>3, <2>4 DEF ReadyInv, Results
  <2>6. sequence' # 0 /\ shown' = sequence' - 1
    BY <1>t, <2>1, <2>2
  <2> QED BY <2>1, <2>5, <2>6 DEF ReadyInv, LastBegun, Results, ReadyDuringLast
<1>2. ASSUME NEW p \in Partitions, CollectSuccess(p) \/ CollectFailure(p)
      PROVE  ReadyInv'
  <2>1. /\ p \in pending /\ pending' = pending \ {p}
        /\ UNCHANGED <<sequence, pc, answer>>
        /\ Results' = Results + 1
    BY <1>2, <1>t DEF CollectSuccess, CollectFailure, Collect, server, Results
  <2>2. Cardinality(pending') = Cardinality(pending) - 1
    BY <1>t, <2>1, PendingCounted
  <2>3. Results' + Cardinality(pending') = sequence' * N
    BY <1>t, <2>1, <2>2 DEF ReadyInv
  <2>4. pending' # Partitions /\ sequence' # 0
    BY <2>1 DEF ReadyInv
  <2>5. (ReadyCycles - 1) * N \in Int
    BY <1>t, ThresholdAssumption
  <2>6. LastBegun => LastBegun'
    BY <1>t, <2>1, <2>5 DEF LastBegun
  <2>7. ReadyDuringLast'
    BY <2>1, <2>6 DEF ReadyInv, ReadyDuringLast, LastBegun, Results, N
  <2> QED BY <2>1, <2>3, <2>4, <2>6, <2>7 DEF ReadyInv
<1>3. ASSUME UNCHANGED main, pc' = "again" => LastBegun,
             answer' = "ready" => LastBegun
      PROVE  ReadyInv'
  BY <1>3 DEF ReadyInv, main, LastBegun, Results, ReadyDuringLast, N
<1>4. CASE Tick \/ Request \/ HealthStaleness \/ ReadyTooEarly \/ UNCHANGED vars
  BY <1>3, <1>4
     DEF Tick, server, Request, HealthStaleness, ReadStaleness, ReadyTooEarly, Reply, vars,
         ReadyInv, ReadyDuringLast, LastBegun, Results, N
<1>5. CASE HealthReply
  <2>1. answer' \in {"healthy", "degraded", "unhealthy"} /\ pc' = "idle"
    BY <1>5 DEF HealthReply, Reply, Verdict
  <2> QED BY <1>3, <1>5, <2>1 DEF HealthReply, Reply
<1>6. CASE ReadyStaleness
  <2>1. LastBegun
    BY <1>6, EnoughMeansBegun DEF ReadyStaleness
  <2> QED BY <1>3, <1>6, <2>1 DEF ReadyStaleness, ReadStaleness
<1>7. CASE ReadyReply
  <2>1. LastBegun
    BY <1>7 DEF ReadyReply, ReadyInv
  <2> QED BY <1>3, <1>7, <2>1 DEF ReadyReply, Reply
<1> QED BY <1>1, <1>2, <1>4, <1>5, <1>6, <1>7 DEF Next, Main, Server

\* A canary is called ready during the last of the required cycles at the
\* earliest, for any number of cycles and partitions.
THEOREM ReadinessBound == Spec => []ReadyDuringLast
<1>1. ReadyInv => ReadyDuringLast
  BY DEF ReadyInv
<1> QED BY HealthInvariant, InitReadyInv, StepReadyInv, <1>1, PTL DEF Spec

=============================================================================
