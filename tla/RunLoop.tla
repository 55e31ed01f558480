------------------------------ MODULE RunLoop ------------------------------
(***************************************************************************)
(* The main loop of one canary (main.run) from the moment its consumer     *)
(* pool stands: partition sync and pool update, submission of one check    *)
(* per partition to the thread pool, collection of the results into the    *)
(* failure streaks and the Prometheus series, the interruptible sleep, and *)
(* the finally block.  The worker threads run beside it, and a signal may  *)
(* arrive at any moment.                                                   *)
(*                                                                         *)
(* What a check does is CanaryCheck's matter and what a sync does is       *)
(* TopicSync's: here a check succeeds or fails, and a sync brings any      *)
(* partition count, nothing, or an exception.  Cadences are left open: a   *)
(* sync is due in any cycle.                                               *)
(***************************************************************************)
EXTENDS Integers, FiniteSets

CONSTANTS
    MaxPartitions,  \* bound: partition counts range over 1..MaxPartitions
    MaxWorkers,     \* max.workers
    Threshold,      \* metrics.partition.threshold
    MaxCycles,      \* bound: cycles
    MaxMishaps,     \* bound: how often each kind of fault strikes
    Faults          \* what may go wrong, a subset of FaultKinds

FaultKinds ==
    {"sync",    \* sync_topic_partitions, or a call around it, raises
     "add",     \* create_partition_consumer raises
     "log",     \* a log call raises: the log producer's produce() failed
     "reentry"} \* a signal interrupts Event.wait() inside the Event's lock

ASSUME SizeAssumption ==
    /\ {MaxPartitions, MaxWorkers} \subseteq Nat \ {0}
    /\ {Threshold, MaxCycles, MaxMishaps} \subseteq Nat
ASSUME FaultAssumption == Faults \subseteq FaultKinds

VARIABLES
    pc,         \* where the main thread is
    shutdown,   \* _shutdown_event
    atStart,    \* num_partitions, as the initial sync returned it
    count,      \* len(partitions)
    consumers,  \* the keys of consumers and deserializers
    open,       \* the partitions a consumer object is connected for
    workers,    \* the size of the executor
    check,      \* the futures of the cycle, by partition
    seq,        \* check_sequence
    streak,     \* consecutive_failures
    gauge,      \* canary_consecutive_failures by label; 0 also if absent
    size,       \* canary_topic_partition_count
    counted,    \* canary_checks_total summed over its labels
    submitted,  \* history: checks handed to the executor
    failing,    \* history: checks of a partition that failed in a row
    signalled,  \* history: has a signal arrived?
    mishaps     \* history: how often each kind of fault has struck

vars == <<pc, shutdown, atStart, count, consumers, open, workers, check, seq,
          streak, gauge, size, counted, submitted, failing, signalled, mishaps>>
pool == <<atStart, count, consumers, open, workers, size>>
series == <<streak, gauge, counted>>
tallies == <<submitted, failing>>
history == <<tallies, signalled, mishaps>>

AllPartitions == 0..(MaxPartitions - 1)
Aggregate == MaxPartitions              \* the label "*"
Labels == AllPartitions \cup {Aggregate}
Range0(n) == 0..(n - 1)                 \* range(n)

\* Seeded fault: max.workers does not bound the executor.
Least_uncapped(a, b) == IF a <= b THEN a ELSE a

Least(a, b) == IF a <= b THEN a ELSE b

Pcs == {"top", "sync", "submit", "collect", "sleep", "join", "close", "stopped",
        "stuck"}
States == {"none", "queued", "running", "ok", "error", "counted"}

TypeOK ==
    /\ pc \in Pcs
    /\ shutdown \in BOOLEAN
    /\ atStart \in 1..MaxPartitions
    /\ count \in 1..MaxPartitions
    /\ consumers \subseteq AllPartitions
    /\ open \subseteq AllPartitions
    /\ workers \in 1..MaxWorkers
    /\ check \in [AllPartitions -> States]
    /\ seq \in 0..MaxCycles
    /\ DOMAIN streak \subseteq AllPartitions
    /\ \A p \in DOMAIN streak : streak[p] \in Nat
    /\ gauge \in [Labels -> Nat]
    /\ size \in 1..MaxPartitions
    /\ counted \in Nat
    /\ submitted \in Nat
    /\ failing \in [AllPartitions -> Nat]
    /\ signalled \in BOOLEAN
    /\ mishaps \in [FaultKinds -> 0..MaxMishaps]

\* Checks the executor has not finished.
Unfinished == {p \in AllPartitions : check[p] \in {"queued", "running"}}
Running == {p \in AllPartitions : check[p] = "running"}

(***************************************************************************)
(* while not _shutdown_event.is_set()                                      *)
(***************************************************************************)
Goto(label) == pc' = label

\* An exception leaves the loop: the finally block starts.
Escape == Goto("join")

Happens(kind) ==
    /\ kind \in Faults
    /\ mishaps[kind] < MaxMishaps
    /\ mishaps' = [mishaps EXCEPT ![kind] = @ + 1]

EnterCycle ==
    /\ pc = "top"
    /\ ~shutdown
    /\ seq < MaxCycles
    /\ Goto("sync")
    /\ UNCHANGED <<shutdown, pool, check, seq, series, history>>

\* Seeded fault: a signal is only looked at before the first cycle.
LeaveLoop_once ==
    /\ pc = "top"
    /\ shutdown /\ seq = 0
    /\ Goto("join")
    /\ UNCHANGED <<shutdown, pool, check, seq, series, history>>

LeaveLoop ==
    /\ pc = "top"
    /\ shutdown
    /\ Goto("join")
    /\ UNCHANGED <<shutdown, pool, check, seq, series, history>>

(***************************************************************************)
(* Partition sync and the incremental pool update.  No check is in flight  *)
(* while the main thread is here.                                          *)
(***************************************************************************)
NoSync ==
    /\ pc = "sync"
    /\ Goto("submit")
    /\ UNCHANGED <<shutdown, pool, check, seq, series, history>>

SyncRaises ==
    /\ Happens("sync")
    /\ pc = "sync"
    /\ Escape
    /\ UNCHANGED <<shutdown, pool, check, seq, series, tallies, signalled>>

\* Seeded fault: the entries of removed partitions stay.
Kept_all(n) == Range0(n) \cup Range0(count)

\* The keys of the three dictionaries after a change to n partitions.
Kept(n) == Range0(n)

UpdatePool(n) ==
    /\ pc = "sync"
    /\ size' = n
    /\ count' = n
    /\ consumers' = Kept(n)
    /\ open' = Range0(n)
    /\ streak' = [p \in Kept(n) |-> IF p \in Range0(count) THEN streak[p] ELSE 0]
    /\ workers' = Least(n, MaxWorkers)
    /\ failing' = [p \in AllPartitions |->
                      IF p \in Range0(n) \cap Range0(count) THEN failing[p] ELSE 0]
    /\ Goto("submit")
    /\ UNCHANGED <<shutdown, atStart, check, seq, gauge, counted, submitted,
                   signalled, mishaps>>

\* An addition cut short: of the partitions to add, consumers are connected for
\* those in created, and those in stored are in the dictionaries too.
Added(n) == Range0(n) \ Range0(count)

PartlyAdded(n, created, stored) ==
    /\ size' = n
    /\ open' = open \cup created
    /\ consumers' = consumers \cup stored
    /\ streak' = [p \in Range0(count) \cup stored |->
                     IF p \in Range0(count) THEN streak[p] ELSE 0]

\* The consumers of the added partitions are created in parallel and stored in
\* order, up to the first that could not be created; its exception is not
\* caught.
AddFails(n) ==
    /\ Happens("add")
    /\ pc = "sync"
    /\ \E created \in SUBSET Added(n) :
        /\ created # Added(n)
        /\ PartlyAdded(n, created, {p \in created : count..p \subseteq created})
    /\ Escape
    /\ UNCHANGED <<shutdown, atStart, count, workers, check, seq, gauge,
                   counted, tallies, signalled>>

(***************************************************************************)
(* The cycle.                                                              *)
(***************************************************************************)
Submit ==
    /\ pc = "submit"
    /\ seq' = seq + 1
    /\ check' = [p \in AllPartitions |->
                    IF p \in Range0(count) THEN "queued" ELSE "none"]
    /\ submitted' = submitted + count
    /\ Goto("collect")
    /\ UNCHANGED <<shutdown, pool, series, failing, signalled, mishaps>>

\* A worker takes the next task and runs check_kafka.
Start(p) ==
    /\ check[p] = "queued"
    /\ \A q \in AllPartitions : q < p => check[q] # "queued"
    /\ Cardinality(Running) < workers
    /\ check' = [check EXCEPT ![p] = "running"]
    /\ UNCHANGED <<pc, shutdown, pool, seq, series, history>>

Finish(p) ==
    /\ check[p] = "running"
    /\ \/ /\ check' = [check EXCEPT ![p] = "ok"]
          /\ failing' = [failing EXCEPT ![p] = 0]
       \/ /\ check' = [check EXCEPT ![p] = "error"]
          /\ failing' = [failing EXCEPT ![p] = @ + 1]
    /\ UNCHANGED <<pc, shutdown, pool, seq, series, submitted, signalled,
                   mishaps>>

\* num_partitions is a local of run() that no sync updates.
Label(p) == IF atStart <= Threshold THEN p ELSE Aggregate

\* Seeded fault: a success resets the gauge but not the streak behind it.
CountSuccess_gauge(p) ==
    /\ streak' = streak
    /\ gauge' = [gauge EXCEPT ![Label(p)] = 0]
    /\ counted' = counted + 1

\* _update_success_metrics and _update_failure_metrics: streak, gauge, counter.
CountSuccess(p) ==
    /\ streak' = [streak EXCEPT ![p] = 0]
    /\ gauge' = [gauge EXCEPT ![Label(p)] = 0]
    /\ counted' = counted + 1

CountFailure(p) ==
    /\ streak' = [streak EXCEPT ![p] = @ + 1]
    /\ gauge' = [gauge EXCEPT ![Label(p)] = streak[p] + 1]
    /\ counted' = counted + 1

\* Both updates in one collection: the success was counted when the log call
\* after it raised, and the exception handler counts a failure as well.
CountBoth(p) ==
    /\ streak' = [streak EXCEPT ![p] = 1]
    /\ gauge' = [gauge EXCEPT ![Label(p)] = 1]
    /\ counted' = counted + 2

Collected(p) == check' = [check EXCEPT ![p] = "counted"]

\* as_completed yields a finished future.
Collect(p) ==
    /\ pc = "collect"
    /\ \/ check[p] = "ok" /\ CountSuccess(p)
       \/ check[p] = "error" /\ CountFailure(p)
    /\ Collected(p)
    /\ UNCHANGED <<pc, shutdown, pool, seq, history>>

\* A log call of the collection raises.  After a success the exception is
\* caught and counted; a log call of an exception handler leaves the loop, with
\* the metrics updated.
CollectRaises(p) ==
    /\ Happens("log")
    /\ pc = "collect"
    /\ \/ check[p] = "ok" /\ CountBoth(p) /\ (Escape \/ UNCHANGED pc)
       \/ check[p] = "error" /\ CountFailure(p) /\ Escape
    /\ Collected(p)
    /\ UNCHANGED <<shutdown, pool, seq, tallies, signalled>>

\* Seeded fault: the cycle ends with the first result.
AllCollected_first == \E p \in AllPartitions : check[p] = "counted"

AllCollected == \A p \in AllPartitions : check[p] \in {"none", "counted"}

EndCycle ==
    /\ pc = "collect"
    /\ AllCollected
    /\ check' = [p \in AllPartitions |-> "none"]
    /\ Goto("sleep")
    /\ UNCHANGED <<shutdown, pool, seq, series, history>>

\* _shutdown_event.wait(interval) returns: the interval is over, or a signal.
Wake ==
    /\ pc = "sleep"
    /\ Goto("top")
    /\ UNCHANGED <<shutdown, pool, check, seq, series, history>>

\* A log call outside the collection of results raises: after the pool update,
\* in the Schema Registry check or before the sleep.
LogRaises ==
    /\ Happens("log")
    /\ pc \in {"sync", "submit", "sleep"}
    /\ Escape
    /\ UNCHANGED <<shutdown, pool, check, seq, series, tallies, signalled>>

(***************************************************************************)
(* The signal handler.  Python runs it on the main thread, between any two *)
(* bytecodes: what it raises is raised where the main thread happens to be.*)
(***************************************************************************)
Alive == pc \notin {"stopped", "stuck"}

Signal ==
    /\ Alive
    /\ ~shutdown
    /\ shutdown' = TRUE
    /\ signalled' = TRUE
    /\ UNCHANGED <<pc, pool, check, seq, series, tallies, mishaps>>

\* The handler's own log call raises before the event is set.
HandlerFails ==
    /\ Happens("log")
    /\ ~shutdown
    /\ signalled' = TRUE
    /\ UNCHANGED <<shutdown, atStart, count, workers, seq, tallies>>

HandlerRaises == HandlerFails /\ UNCHANGED <<consumers, size>>

\* The exception leaves the loop.
SignalEscapes ==
    /\ pc \in {"top", "sync", "submit", "collect", "sleep"}
    /\ HandlerRaises
    /\ Escape
    /\ UNCHANGED <<check, open, series>>

\* It comes in the middle of an addition to the pool: the consumers asked for
\* up to last are connected all the same, those before next are stored.
SignalCutsAdding(n) ==
    /\ pc = "sync"
    /\ HandlerFails
    /\ \E last \in Added(n) : \E next \in count..(last + 1) :
        PartlyAdded(n, count..last, count..(next - 1))
    /\ Escape
    /\ UNCHANGED <<check, gauge, counted>>

\* The exception is taken for one of the check whose result is at hand, before
\* or after its success was counted.
SignalSwallowed(p) ==
    /\ pc = "collect"
    /\ HandlerRaises
    /\ \/ check[p] = "ok" /\ CountBoth(p)
       \/ check[p] \in {"ok", "error"} /\ CountFailure(p)
    /\ Collected(p)
    /\ UNCHANGED <<pc, open>>

\* The exception is taken for a failure of the Schema Registry, which is probed
\* before the checks are submitted.
SignalAtRegistry ==
    /\ pc = "submit"
    /\ HandlerRaises
    /\ UNCHANGED <<pc, check, open, series>>

\* The exception ends the finally block, some of the consumers being closed.
SignalCutsCleanup ==
    /\ pc \in {"join", "close"}
    /\ HandlerRaises
    /\ \/ pc = "join" /\ UNCHANGED open
       \/ pc = "close" /\ \E closed \in SUBSET consumers : open' = open \ closed
    /\ Goto("stopped")
    /\ UNCHANGED <<check, series>>

\* The main thread is in Event.wait(), just before or just after its sleep: it
\* holds the lock Event.set() asks for, and the lock is not reentrant.
SignalInLock ==
    /\ Happens("reentry")
    /\ pc = "sleep"
    /\ ~shutdown
    /\ signalled' = TRUE
    /\ Goto("stuck")
    /\ UNCHANGED <<shutdown, pool, check, seq, series, tallies>>

(***************************************************************************)
(* The finally block.                                                      *)
(***************************************************************************)
\* Seeded fault: executor.shutdown(wait=False).
Joined_nowait == TRUE

\* executor.shutdown(wait=True)
Joined == Unfinished = {}

Join ==
    /\ pc = "join"
    /\ Joined
    /\ Goto("close")
    /\ UNCHANGED <<shutdown, pool, check, seq, series, history>>

\* Seeded fault: only the consumers of the initial pool are closed.
Close_initial ==
    /\ pc = "close"
    /\ open' = open \ Range0(atStart)
    /\ Goto("stopped")
    /\ UNCHANGED <<shutdown, atStart, count, consumers, workers, size, check,
                   seq, series, history>>

Close ==
    /\ pc = "close"
    /\ open' = open \ consumers
    /\ Goto("stopped")
    /\ UNCHANGED <<shutdown, atStart, count, consumers, workers, size, check,
                   seq, series, history>>

(***************************************************************************)
(* The specification.                                                      *)
(***************************************************************************)
\* More partitions than Threshold are here only with a log.level above WARNING:
\* otherwise the warning before the loop raises (Startup.WarnLarge).
Init ==
    /\ pc = "top"
    /\ shutdown = FALSE
    /\ atStart \in 1..MaxPartitions
    /\ count = atStart
    /\ size = atStart
    /\ consumers = Range0(atStart)
    /\ open = Range0(atStart)
    /\ workers = Least(atStart, MaxWorkers)
    /\ check = [p \in AllPartitions |-> "none"]
    /\ seq = 0
    /\ streak = [p \in Range0(atStart) |-> 0]
    /\ gauge = [l \in Labels |-> 0]
    /\ counted = 0
    /\ submitted = 0
    /\ failing = [p \in AllPartitions |-> 0]
    /\ signalled = FALSE
    /\ mishaps = [kind \in FaultKinds |-> 0]

Main ==
    \/ EnterCycle \/ LeaveLoop
    \/ NoSync \/ SyncRaises
    \/ \E n \in 1..MaxPartitions : UpdatePool(n) \/ AddFails(n)
    \/ Submit
    \/ \E p \in AllPartitions : Collect(p) \/ CollectRaises(p)
    \/ EndCycle \/ Wake \/ LogRaises \/ Join \/ Close

Worker(p) == Start(p) \/ Finish(p)

Interrupt ==
    \/ Signal \/ SignalEscapes \/ SignalAtRegistry \/ SignalCutsCleanup \/ SignalInLock
    \/ \E p \in AllPartitions : SignalSwallowed(p)
    \/ \E n \in 1..MaxPartitions : SignalCutsAdding(n)

Next == Main \/ Interrupt \/ \E p \in AllPartitions : Worker(p)

Spec == Init /\ [][Next]_vars

\* The main thread and the workers run, every check ends (CanaryCheck), every
\* wait has a timeout.  No signal has to come.
Fairness == WF_vars(Main) /\ \A p \in AllPartitions : WF_vars(Worker(p))

FairSpec == Spec /\ Fairness

(***************************************************************************)
(* Properties.                                                             *)
(***************************************************************************)
Working == pc \in {"submit", "collect", "sleep", "top"}

\* Through any series of syncs the dictionaries of consumers, of deserializers
\* and of streaks, the connections, the executor and the reported count agree
\* on the partitions: no check meets a missing key, none is left out.
PoolAgrees ==
    Working =>
        /\ consumers = Range0(count) /\ DOMAIN streak = Range0(count)
        /\ open = Range0(count)
        /\ size = count
        /\ workers = Least(count, MaxWorkers)

\* No consumer is closed while a check uses it or still waits to use it, also
\* when an exception ends the cycle with checks in flight.
NoUseAfterClose == Unfinished \subseteq open

\* After each cycle the streak of a partition is the number of its checks that
\* failed in a row since its consumer was created, although the results arrive
\* in any order and partitions go and come back.  A log call that raised may
\* make it longer, never shorter: no failure is hidden.  With per-partition
\* labels the alerting gauge is the streak in any case.
StreakIsTrue ==
    pc = "sleep" => \A p \in Range0(count) :
        /\ streak[p] >= failing[p]
        /\ mishaps["log"] = 0 => streak[p] = failing[p]
        /\ atStart <= Threshold => gauge[p] = streak[p]

\* Each check that was submitted is counted, by the end of its cycle, and none
\* is counted twice but one for each log call that raised.
CountedOnce ==
    /\ counted <= submitted + mishaps["log"]
    /\ pc = "sleep" => counted >= submitted

\* The loop keeps its side of CheckCycle: it submits no check while one of an
\* earlier cycle is queued or running, whichever way the cycle ended, and the
\* pool never runs more than max.workers, whatever sync resized it.
Cycle == INSTANCE CheckCycle WITH
    Partitions <- AllPartitions,
    Width <- MaxWorkers,
    number <- seq,
    task <- [p \in AllPartitions |-> IF p \in Unfinished THEN check[p] ELSE "idle"]

KeepsCycle == Cycle!Spec

\* A failing log topic does not change the measurement: no check is counted
\* twice.
LogsDoNotCount == counted <= submitted

\* Once the event is set the process ends, whatever is in flight, and no
\* exception leaves it hanging.
ShutdownStops == shutdown \/ pc \in {"join", "close"} ~> pc = "stopped"

\* A signal ends the process.
SignalStops == signalled ~> pc = "stopped"

\* When the process stops, the consumers of its pool have been closed and every
\* check has ended, whatever raised before; only what an addition that was cut
\* short left beside the pool -- the new size is reported by then -- is closed by
\* the end of the process alone.  Only a signal handler that raised, so that the
\* event was never set, can have cut the cleanup short.
AllClosedAtStop ==
    pc = "stopped" /\ (signalled => shutdown) =>
        /\ Unfinished = {}
        /\ open \cap consumers = {}
        /\ size = count => open = {}

\* Whatever a failure leaves behind, the finally block closes it.
NothingLeftOpen == pc = "stopped" => open = {} /\ Unfinished = {}

\* The alert on canary_consecutive_failures sees a streak of any partition: a
\* streak is never longer than the largest value of the gauge.
AlertSeesStreak ==
    pc = "sleep" => \A p \in Range0(count) : \E l \in Labels : gauge[l] >= streak[p]

\* The series are aggregated exactly while the partition count exceeds the
\* threshold.
LabelsFollowThreshold ==
    pc = "collect" => \A p \in Range0(count) : (Label(p) = p) <=> (count <= Threshold)

\* The gauge shows current streaks: no series of a partition that is gone
\* keeps an alert firing.
AlertIsCurrent ==
    pc = "sleep" => \A p \in AllPartitions \ Range0(count) : gauge[p] = 0

=============================================================================
