------------------------------- MODULE Health -------------------------------
(***************************************************************************)
(* The /health and /ready endpoints (health.py): one HTTP thread answers   *)
(* one request after another from the metrics the main thread is updating, *)
(* reading the registry metric by metric and keeping what it computed for  *)
(* CACHE_TTL seconds.                                                      *)
(*                                                                         *)
(* Time is counted in units of the run's choice; the clock may advance     *)
(* between any two steps.  Requests are served one at a time, so the       *)
(* caches have one user.  Diagnostics that decide no answer (uptime,       *)
(* brokers, Schema Registry, total) are left out.                          *)
(***************************************************************************)
EXTENDS Integers, FiniteSets

CONSTANTS
    Partitions,
    CacheTTL,           \* CACHE_TTL, 5 s
    DegradedAfter,      \* 60 s
    UnhealthyAfter,     \* 300 s
    ReadyCycles,        \* 10
    MaxCycles,          \* bound: check cycles
    MaxTime             \* bound: the clock

ASSUME ThresholdAssumption ==
    /\ {CacheTTL, DegradedAfter, UnhealthyAfter, ReadyCycles} \subseteq Nat \ {0}
    /\ DegradedAfter < UnhealthyAfter
    /\ {MaxCycles, MaxTime} \subseteq Nat
ASSUME PartitionAssumption == IsFiniteSet(Partitions) /\ Partitions # {}

VARIABLES
    now,        \* time.time()
    sequence,   \* check_sequence of the main loop
    pending,    \* partitions whose result of this cycle is not collected yet
    checks,     \* canary_checks_total: [success, failure]
    freshest,   \* canary_last_success_timestamp_seconds, 0 if no series
    shown,      \* canary_check_sequence
    staleness,  \* _staleness_cache: [value, timestamp]
    rate,       \* _failure_rate_cache: [value, timestamp]
    pc,         \* where the HTTP thread is
    read,       \* the staleness the request in progress has read
    answer,     \* the last answer
    began,      \* history: when the request in progress, or last, began
    successes   \* history: when checks succeeded

main == <<sequence, pending, checks, freshest, shown, successes>>
caches == <<staleness, rate>>
server == <<caches, pc, read, answer, began>>
vars == <<now, main, server>>

NoValue == -1           \* None
Rates == {"none", "low", "high"}
Pcs == {"idle", "health", "rate", "ready", "again"}
Answers == {"none", "healthy", "degraded", "unhealthy", "ready", "not_ready"}

TypeOK ==
    /\ now \in 1..MaxTime + 1
    /\ sequence \in 0..MaxCycles
    /\ shown \in {sequence, sequence - 1} \cap Nat
    /\ pending \subseteq Partitions
    /\ checks \in [success : Nat, failure : Nat]
    /\ freshest \in [Partitions -> 0..now]
    /\ staleness \in [value : {NoValue} \cup 0..now, timestamp : 1 - CacheTTL..now]
    /\ rate \in [value : Rates, timestamp : 1 - CacheTTL..now]
    /\ pc \in Pcs
    /\ read \in {NoValue} \cup 0..now
    /\ answer \in Answers
    /\ began \in 0..now
    /\ successes \subseteq 1..now

Tick ==
    /\ now <= MaxTime
    /\ now' = now + 1
    /\ UNCHANGED <<main, server>>

(***************************************************************************)
(* The main thread: cycles of checks, as their results are collected.      *)
(***************************************************************************)
NextCycle ==
    /\ pending = {}
    /\ sequence < MaxCycles
    /\ sequence' = sequence + 1
    /\ pending' = Partitions
    /\ UNCHANGED <<now, checks, freshest, shown, successes, server>>

\* Seeded fault: the gauge shows the number of the next cycle.
Collect_next(p) ==
    /\ p \in pending
    /\ pending' = pending \ {p}
    /\ shown' = sequence + 1
    /\ UNCHANGED <<now, sequence, server>>

\* The gauge of the sequence is set with every result, also the first.
Collect(p) ==
    /\ p \in pending
    /\ pending' = pending \ {p}
    /\ shown' = sequence
    /\ UNCHANGED <<now, sequence, server>>

CollectSuccess(p) ==
    /\ Collect(p)
    /\ checks' = [checks EXCEPT !.success = @ + 1]
    /\ freshest' = [freshest EXCEPT ![p] = now]
    /\ successes' = successes \cup {now}

CollectFailure(p) ==
    /\ Collect(p)
    /\ checks' = [checks EXCEPT !.failure = @ + 1]
    /\ UNCHANGED <<freshest, successes>>

(***************************************************************************)
(* What the endpoints compute from the registry.                           *)
(***************************************************************************)
\* The names under which REGISTRY.collect() yields the metric families: the
\* client library drops the suffix _total from the name of a counter, and
\* keeps it in the names of the samples only.
Families ==
    {"canary_checks", "canary_last_success_timestamp_seconds",
     "canary_check_sequence"}

Stamps == {freshest[p] : p \in Partitions} \ {0}

\* Seeded fault: the staleness of the partition that is worst off.
Staleness_worst ==
    IF Stamps = {} THEN NoValue
    ELSE now - CHOOSE t \in Stamps : \A u \in Stamps : t <= u

Staleness ==
    IF Stamps = {} THEN NoValue
    ELSE now - CHOOSE t \in Stamps : \A u \in Stamps : u <= t

FailureRate ==
    IF "canary_checks_total" \notin Families \/ checks.success + checks.failure = 0
    THEN "none"
    ELSE IF checks.failure > checks.success THEN "high" ELSE "low"

\* Seeded fault: the timestamp is renewed on every use.
Consult_sliding(cache, value) ==
    [value |-> IF now - cache.timestamp < CacheTTL THEN cache.value ELSE value,
     timestamp |-> now]

\* The cached value while it is fresh, else the value computed now.
Consult(cache, value) ==
    IF now - cache.timestamp < CacheTTL THEN cache
    ELSE [value |-> value, timestamp |-> now]

(***************************************************************************)
(* The HTTP thread.                                                        *)
(***************************************************************************)
Request ==
    /\ pc = "idle"
    /\ pc' \in {"health", "ready"}
    /\ answer' = "none"
    /\ began' = now
    /\ UNCHANGED <<now, main, caches, read>>

ReadStaleness(next) ==
    /\ staleness' = Consult(staleness, Staleness)
    /\ read' = staleness'.value
    /\ pc' = next
    /\ UNCHANGED <<now, main, rate, answer, began>>

Reply(status) ==
    /\ answer' = status
    /\ pc' = "idle"
    /\ UNCHANGED <<now, main, began>>

\* get_health_status
HealthStaleness == pc = "health" /\ ReadStaleness("rate")

Verdict(s, r) ==
    IF s = NoValue \/ s > UnhealthyAfter THEN "unhealthy"
    ELSE IF s > DegradedAfter \/ r = "high" THEN "degraded"
    ELSE "healthy"

HealthReply ==
    /\ pc = "rate"
    /\ rate' = Consult(rate, FailureRate)
    /\ Reply(Verdict(read, rate'.value))
    /\ UNCHANGED <<staleness, read>>

\* Seeded fault: one cycle too few.
EnoughCycles_before == shown >= ReadyCycles - 1

EnoughCycles == shown >= ReadyCycles

\* get_readiness_status: _is_warmup_complete, then the staleness once more.
ReadyTooEarly ==
    /\ pc = "ready"
    /\ ~EnoughCycles
    /\ staleness' = Consult(staleness, Staleness)
    /\ read' = staleness'.value
    /\ Reply("not_ready")
    /\ UNCHANGED rate

ReadyStaleness ==
    /\ pc = "ready"
    /\ EnoughCycles
    /\ ReadStaleness("again")

WarmupComplete == read # NoValue /\ read < DegradedAfter

ReadyReply ==
    /\ pc = "again"
    /\ staleness' = Consult(staleness, Staleness)
    /\ read' = staleness'.value
    /\ Reply(IF WarmupComplete /\ ~(read' # NoValue /\ read' > DegradedAfter)
             THEN "ready" ELSE "not_ready")
    /\ UNCHANGED rate

(***************************************************************************)
(* The specification.                                                      *)
(***************************************************************************)
\* The caches start out expired: their timestamps are 0.0.
Init ==
    /\ now = 1
    /\ sequence = 0
    /\ pending = {}
    /\ checks = [success |-> 0, failure |-> 0]
    /\ freshest = [p \in Partitions |-> 0]
    /\ shown = 0
    /\ staleness = [value |-> NoValue, timestamp |-> 1 - CacheTTL]
    /\ rate = [value |-> "none", timestamp |-> 1 - CacheTTL]
    /\ pc = "idle"
    /\ read = NoValue
    /\ answer = "none"
    /\ began = 0
    /\ successes = {}

Main == NextCycle \/ \E p \in Partitions : CollectSuccess(p) \/ CollectFailure(p)

Server ==
    \/ Request \/ HealthStaleness \/ HealthReply
    \/ ReadyTooEarly \/ ReadyStaleness \/ ReadyReply

Next == Tick \/ Main \/ Server

Spec == Init /\ [][Next]_vars

(***************************************************************************)
(* Properties.                                                             *)
(***************************************************************************)
\* A positive answer is never older than the cache allows: when a request is
\* answered "healthy" or "ready", a check succeeded within the threshold and
\* one cache lifetime before the request came, however often the endpoint was
\* asked meanwhile.
HealthyIsRecent ==
    answer \in {"healthy", "ready"} =>
        \E t \in successes : began - t < DegradedAfter + CacheTTL

\* A negative answer is never older than the cache allows either, and one
\* partition that succeeds is enough: for a request answered "degraded" or
\* "unhealthy" there was a moment, within one cache lifetime before it came,
\* before which no check had succeeded for as long as that answer says.
AlarmIsRecent ==
    answer \in {"degraded", "unhealthy"} =>
        \E c \in (began - CacheTTL + 1)..now :
            \A t \in successes :
                t < c => c - t > (IF answer = "degraded" THEN DegradedAfter
                                                         ELSE UnhealthyAfter)

\* READY may come up to one cycle early, and no earlier: the results of all the
\* required cycles but the last have been counted, and some of the last.
ReadyDuringLast ==
    answer = "ready" =>
        checks.success + checks.failure > (ReadyCycles - 1) * Cardinality(Partitions)

\* READY means that at least 10 check cycles have completed.
ReadyAfterCycles ==
    answer = "ready" => sequence - (IF pending = {} THEN 0 ELSE 1) >= ReadyCycles

\* The answer is HEALTHY only if at most half of the checks of this process
\* have failed, as of the moment their rate was computed.
HealthyIsMostlyGood ==
    [][(pc # "idle" /\ answer' = "healthy" /\ rate'.timestamp = now)
          => checks.failure <= checks.success]_vars

=============================================================================
