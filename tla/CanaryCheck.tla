---------------------------- MODULE CanaryCheck ----------------------------
(***************************************************************************)
(* One cycle after another of end-to-end checks (main.check_kafka): every  *)
(* partition's consumer seeks to the end, a message is produced to the     *)
(* partition through the one producer all threads share, and the consumer  *)
(* reads until it meets that very message.                                 *)
(*                                                                         *)
(* What makes it subtle is the sharing: whichever thread polls the         *)
(* producer runs whichever delivery callbacks are due, so a check is told  *)
(* of its delivery by another one, and what a check gave up on is still    *)
(* delivered, retried or refused later, in the middle of a later check.    *)
(* A message is named by its partition and the number of its cycle.        *)
(***************************************************************************)
EXTENDS Naturals, Sequences, FiniteSets

CONSTANTS
    Partitions,     \* range(num_partitions), natural numbers
    Workers,        \* max_workers of the thread pool
    BatchSize,      \* messages one consume() returns at most
    MaxCycles,      \* bound: cycles
    MaxForeign,     \* bound: messages of others per partition
    MaxCopies,      \* bound: how often one message is stored
    Faults          \* what may go wrong, a subset of FaultKinds

FaultKinds ==
    {"seek",        \* no assignment, or an error from the watermarks or seek
     "local",       \* serializer or produce() raise: schema, full queue
     "retry",       \* an acknowledgement is lost: the message is stored again
     "refused",     \* the message is given up: its report is an error
     "stall",       \* the cluster stops storing messages
     "slow",        \* deadlines can pass
     "consume",     \* consume() returns an error that is not _PARTITION_EOF
     "poison",      \* somebody writes what does not deserialize
     "log"}         \* a log call raises: the log producer's produce() failed

ASSUME SizeAssumption ==
    /\ Partitions \subseteq Nat
    /\ {Workers, BatchSize} \subseteq Nat \ {0}
    /\ {MaxCycles, MaxForeign, MaxCopies} \subseteq Nat
ASSUME FaultAssumption == Faults \subseteq FaultKinds

VARIABLES
    cycle,      \* check_sequence
    pc,         \* where the check of each partition is
    log,        \* the messages each partition stores
    flight,     \* <<p, n>>: messages librdkafka still tries to deliver
    reports,    \* <<p, n, ok>>: delivery reports no poll() has served yet
    refused,    \* history: <<p, n>>: messages whose report is an error
    fired,      \* callback_complete and delivery_error of the current check
    pos,        \* fetch position of each partition's consumer
    late,       \* has the deadline of the current wait passed?
    outcome     \* what the check of the current cycle returned or raised

vars == <<cycle, pc, log, flight, reports, refused, fired, pos, late, outcome>>
cluster == <<log, flight, refused>>

Foreign == 0                \* another instance's message
Poison == MaxCycles + 1     \* a value the deserializer rejects
Contents == 0..MaxCycles + 1

Pcs == {"done", "queued", "seek", "produce", "wait", "poll", "consume"}
Outcomes ==
    {"none", "success", "SEEK", "PRODUCE", "PRODUCE_TIMEOUT", "CONSUME",
     "CONSUME_TIMEOUT", "UNEXPECTED"}

TypeOK ==
    /\ cycle \in 0..MaxCycles
    /\ pc \in [Partitions -> Pcs]
    /\ log \in [Partitions -> Seq(Contents)]
    /\ flight \subseteq Partitions \X (1..cycle)
    /\ reports \subseteq Partitions \X (1..cycle) \X BOOLEAN
    /\ refused \subseteq Partitions \X (1..cycle)
    /\ fired \in [Partitions -> {"none", "acked", "failed"}]
    /\ pos \in [Partitions -> Nat]
    /\ \A p \in Partitions : pos[p] <= Len(log[p])
    /\ late \in [Partitions -> BOOLEAN]
    /\ outcome \in [Partitions -> Outcomes]
    /\ \A p \in Partitions : pc[p] # "done" => cycle > 0

\* The offsets of partition p that hold the message of cycle n.
Offsets(p, n) == {k \in DOMAIN log[p] : log[p][k] = n}
Stored(p, n) == Offsets(p, n) # {}

(***************************************************************************)
(* The main loop submits a check per partition and waits for all of them.  *)
(***************************************************************************)
NextCycle ==
    /\ \A p \in Partitions : pc[p] = "done"
    /\ cycle < MaxCycles
    /\ cycle' = cycle + 1
    /\ pc' = [p \in Partitions |-> "queued"]
    /\ outcome' = [p \in Partitions |-> "none"]
    /\ UNCHANGED <<cluster, reports, fired, pos, late>>

\* The pool takes its tasks in the order they were submitted.
Running == {p \in Partitions : pc[p] \notin {"done", "queued"}}

Begin(p) ==
    /\ pc[p] = "queued"
    /\ \A q \in Partitions : q < p => pc[q] # "queued"
    /\ Cardinality(Running) < Workers
    /\ pc' = [pc EXCEPT ![p] = "seek"]
    /\ UNCHANGED <<cycle, cluster, reports, fired, pos, late, outcome>>

\* check_kafka of partition p ends; nothing reads its locals any more.
Finish(p, result) ==
    /\ pc' = [pc EXCEPT ![p] = "done"]
    /\ outcome' = [outcome EXCEPT ![p] = result]
    /\ fired' = [fired EXCEPT ![p] = "none"]
    /\ pos' = [pos EXCEPT ![p] = 0]
    /\ late' = [late EXCEPT ![p] = FALSE]

Goto(p, label) ==
    /\ pc' = [pc EXCEPT ![p] = label]
    /\ UNCHANGED outcome

(***************************************************************************)
(* SEEK: the position becomes the high watermark.                          *)
(***************************************************************************)
\* Seeded fault: the position is one past the high watermark.
SeekToEnd_past(p) ==
    /\ pc[p] = "seek"
    /\ pos' = [pos EXCEPT ![p] = Len(log[p]) + 1]
    /\ Goto(p, "produce")
    /\ UNCHANGED <<cycle, cluster, reports, fired, late>>

SeekToEnd(p) ==
    /\ pc[p] = "seek"
    /\ pos' = [pos EXCEPT ![p] = Len(log[p])]
    /\ Goto(p, "produce")
    /\ UNCHANGED <<cycle, cluster, reports, fired, late>>

SeekFails(p) ==
    /\ "seek" \in Faults
    /\ pc[p] = "seek"
    /\ Finish(p, "SEEK")
    /\ UNCHANGED <<cycle, cluster, reports>>

(***************************************************************************)
(* PRODUCE: enqueue, then poll until the callback of this message ran.     *)
(***************************************************************************)
Produce(p) ==
    /\ pc[p] = "produce"
    /\ flight' = flight \cup {<<p, cycle>>}
    /\ Goto(p, "wait")
    /\ UNCHANGED <<cycle, log, refused, reports, fired, pos, late>>

\* Nothing is handed over.  A KafkaException becomes a CanaryError of the
\* produce phase; what is none (a BufferError for a full queue, an error of the
\* schema registry) leaves the check as it is.
ProduceRaises(p) ==
    /\ "local" \in Faults
    /\ pc[p] = "produce"
    /\ \E result \in {"PRODUCE", "UNEXPECTED"} : Finish(p, result)
    /\ UNCHANGED <<cycle, cluster, reports>>

\* while not callback_complete.is_set(): producer.poll(timeout=0.1)
EnterPoll(p) ==
    /\ pc[p] = "wait"
    /\ fired[p] = "none"
    /\ Goto(p, "poll")
    /\ UNCHANGED <<cycle, cluster, reports, fired, pos, late>>

\* Seeded fault: the event belongs to the partition, not to the message.
Awaited_any(p, n) == n > 0 /\ pc[p] \in {"wait", "poll"}

\* The check whose on_delivery a report calls.  A check that has given up, or
\* belongs to an earlier cycle, no longer looks at its event.
Awaited(p, n) == n = cycle /\ pc[p] \in {"wait", "poll"}

\* Seeded fault: a thread drops the reports that are not its own.
Serve_own(q) ==
    /\ pc[q] = "poll"
    /\ \E p \in Partitions, n \in 1..cycle, ok \in BOOLEAN :
        /\ <<p, n, ok>> \in reports
        /\ reports' = reports \ {<<p, n, ok>>}
        /\ fired' = IF p = q /\ Awaited(p, n)
                    THEN [fired EXCEPT ![p] = IF ok THEN "acked" ELSE "failed"]
                    ELSE fired
    /\ UNCHANGED <<cycle, pc, cluster, pos, late, outcome>>

\* Seeded fault: a thread takes every report for its own.
Serve_mine(q) ==
    /\ pc[q] = "poll"
    /\ \E p \in Partitions, n \in 1..cycle, ok \in BOOLEAN :
        /\ <<p, n, ok>> \in reports
        /\ reports' = reports \ {<<p, n, ok>>}
        /\ fired' = [fired EXCEPT ![q] = IF ok THEN "acked" ELSE "failed"]
    /\ UNCHANGED <<cycle, pc, cluster, pos, late, outcome>>

\* The polling thread runs a callback: its own, or that of another check.
Serve(q) ==
    /\ pc[q] = "poll"
    /\ \E p \in Partitions, n \in 1..cycle, ok \in BOOLEAN :
        /\ <<p, n, ok>> \in reports
        /\ reports' = reports \ {<<p, n, ok>>}
        /\ fired' = IF Awaited(p, n)
                    THEN [fired EXCEPT ![p] = IF ok THEN "acked" ELSE "failed"]
                    ELSE fired
    /\ UNCHANGED <<cycle, pc, cluster, pos, late, outcome>>

\* The log call of the callback raises before it sets the event (a success is
\* logged at level DEBUG only).  poll() raises in turn, so the polling thread's
\* check ends and the one the report was for is never told.
ServeRaises(q) ==
    /\ "log" \in Faults
    /\ pc[q] = "poll"
    /\ \E p \in Partitions, n \in 1..cycle, ok \in BOOLEAN :
        /\ <<p, n, ok>> \in reports
        /\ reports' = reports \ {<<p, n, ok>>}
    /\ Finish(q, "UNEXPECTED")
    /\ UNCHANGED <<cycle, cluster>>

\* Seeded fault: the callback wait has no deadline.
DeadlineHit_never(p) == FALSE /\ late[p]

\* poll() returns; the deadline is tested before the event.
DeadlineHit(p) == late[p]

PollReturns(p) ==
    /\ pc[p] = "poll"
    /\ ~DeadlineHit(p)
    /\ Goto(p, "wait")
    /\ UNCHANGED <<cycle, cluster, reports, fired, pos, late>>

ProduceTimesOut(p) ==
    /\ pc[p] = "poll"
    /\ DeadlineHit(p)
    /\ Finish(p, "PRODUCE_TIMEOUT")
    /\ UNCHANGED <<cycle, cluster, reports>>

DeliveryFailed(p) ==
    /\ pc[p] = "wait"
    /\ fired[p] = "failed"
    /\ Finish(p, "PRODUCE")
    /\ UNCHANGED <<cycle, cluster, reports>>

\* The consume phase has a deadline of its own.
Delivered(p) ==
    /\ pc[p] = "wait"
    /\ fired[p] = "acked"
    /\ Goto(p, "consume")
    /\ late' = [late EXCEPT ![p] = FALSE]
    /\ UNCHANGED <<cycle, cluster, reports, fired, pos>>

(***************************************************************************)
(* CONSUME: read on in batches until the message of this check is met.     *)
(***************************************************************************)
\* The next k messages.
Batch(p, k) == SubSeq(log[p], pos[p] + 1, pos[p] + k)

\* Seeded fault: only the first message of a batch is looked at.
Meets_first(batch, n) == batch[1] = n

\* The code stops at its own message and at one that does not deserialize.
Meets(batch, n) ==
    \E k \in DOMAIN batch :
        batch[k] = n /\ \A j \in 1..(k - 1) : batch[j] # Poison

\* Seeded fault: another instance's message ends the check.
Chokes_foreign(batch) == \E k \in DOMAIN batch : batch[k] \in {Foreign, Poison}

Chokes(batch) == \E k \in DOMAIN batch : batch[k] = Poison

Fetchable(p) ==
    {k \in 1..BatchSize : pos[p] + k <= Len(log[p])}

ConsumeBatch(p) ==
    /\ pc[p] = "consume"
    /\ ~late[p]
    /\ \E k \in Fetchable(p) :
        LET batch == Batch(p, k) IN
        \/ Meets(batch, cycle) /\ Finish(p, "success")
        \/ ~Meets(batch, cycle) /\ Chokes(batch) /\ Finish(p, "UNEXPECTED")
        \/ /\ ~Meets(batch, cycle) /\ ~Chokes(batch)
           /\ pos' = [pos EXCEPT ![p] = @ + k]
           /\ UNCHANGED <<pc, fired, late, outcome>>
    /\ UNCHANGED <<cycle, cluster, reports>>

ConsumeFails(p) ==
    /\ "consume" \in Faults
    /\ pc[p] = "consume"
    /\ ~late[p]
    /\ Finish(p, "CONSUME")
    /\ UNCHANGED <<cycle, cluster, reports>>

ConsumeTimesOut(p) ==
    /\ pc[p] = "consume"
    /\ late[p]
    /\ Finish(p, "CONSUME_TIMEOUT")
    /\ UNCHANGED <<cycle, cluster, reports>>

\* The deadline of the wait the check is in passes.
Tick(p) ==
    /\ "slow" \in Faults
    /\ pc[p] \in {"wait", "poll", "consume"}
    /\ ~late[p]
    /\ late' = [late EXCEPT ![p] = TRUE]
    /\ UNCHANGED <<cycle, pc, cluster, reports, fired, pos, outcome>>

(***************************************************************************)
(* The cluster and librdkafka's background thread.                         *)
(***************************************************************************)
\* The leader stores the message and the acknowledgement arrives, unless it
\* is lost and the message stays in flight to be sent again.
Store(p, n) ==
    /\ <<p, n>> \in flight
    /\ log' = [log EXCEPT ![p] = Append(@, n)]
    /\ \/ /\ flight' = flight \ {<<p, n>>}
          /\ reports' = reports \cup {<<p, n, TRUE>>}
       \/ /\ "retry" \in Faults
          /\ Cardinality(Offsets(p, n)) + 1 < MaxCopies
          /\ UNCHANGED <<flight, reports>>
    /\ UNCHANGED <<cycle, pc, refused, fired, pos, late, outcome>>

\* delivery.timeout.ms expires, or the broker refuses: whether or not an
\* earlier attempt was stored.
Refuse(p, n) ==
    /\ "refused" \in Faults
    /\ <<p, n>> \in flight
    /\ flight' = flight \ {<<p, n>>}
    /\ reports' = reports \cup {<<p, n, FALSE>>}
    /\ refused' = refused \cup {<<p, n>>}
    /\ UNCHANGED <<cycle, pc, log, fired, pos, late, outcome>>

ForeignMessages == {Foreign} \cup (IF "poison" \in Faults THEN {Poison} ELSE {})

StoreForeign(p) ==
    /\ Cardinality(Offsets(p, Foreign) \cup Offsets(p, Poison)) < MaxForeign
    /\ \E m \in ForeignMessages : log' = [log EXCEPT ![p] = Append(@, m)]
    /\ UNCHANGED <<cycle, pc, flight, refused, reports, fired, pos, late, outcome>>

(***************************************************************************)
(* The specification.                                                      *)
(***************************************************************************)
Init ==
    /\ cycle = 0
    /\ pc = [p \in Partitions |-> "done"]
    /\ log = [p \in Partitions |-> <<>>]
    /\ flight = {}
    /\ reports = {}
    /\ refused = {}
    /\ fired = [p \in Partitions |-> "none"]
    /\ pos = [p \in Partitions |-> 0]
    /\ late = [p \in Partitions |-> FALSE]
    /\ outcome = [p \in Partitions |-> "none"]

Check(p) ==
    \/ Begin(p) \/ SeekToEnd(p) \/ SeekFails(p) \/ Produce(p)
    \/ ProduceRaises(p) \/ EnterPoll(p) \/ PollReturns(p)
    \/ ProduceTimesOut(p) \/ DeliveryFailed(p) \/ Delivered(p)
    \/ ConsumeBatch(p) \/ ConsumeFails(p) \/ ConsumeTimesOut(p)

Cluster(p) ==
    \/ \E n \in 1..cycle : Store(p, n) \/ Refuse(p, n)
    \/ StoreForeign(p)

Next ==
    \/ NextCycle
    \/ \E p \in Partitions :
        Check(p) \/ Serve(p) \/ ServeRaises(p) \/ Tick(p) \/ Cluster(p)

Spec == Init /\ [][Next]_vars

\* Threads run, deadlines pass, a poll() that returns has served what was due
\* often enough, and, unless it stalls, the cluster stores what it is sent.
Fairness ==
    /\ \A p \in Partitions :
        /\ WF_vars(Check(p)) /\ WF_vars(Tick(p)) /\ SF_vars(Serve(p))
        /\ "stall" \notin Faults =>
              \A n \in 1..MaxCycles : WF_vars(n <= cycle /\ Store(p, n))

FairSpec == Spec /\ Fairness

(***************************************************************************)
(* Properties.                                                             *)
(***************************************************************************)
\* A check that has entered the consume phase has its message stored at an
\* offset its consumer has not read past, whatever was retried, arrived late
\* from a check that gave up, or was reported through another thread's poll().
\* So a consume timeout never blames the broker for a message it never had.
OwnMessageAhead ==
    \A p \in Partitions :
        /\ pc[p] = "consume" => \E k \in Offsets(p, cycle) : k > pos[p]
        /\ outcome[p] \in {"success", "CONSUME", "CONSUME_TIMEOUT"}
              => Stored(p, cycle)

\* Every submitted check returns or raises, so as_completed() ends and the
\* main loop goes on, though the cluster may be silent for ever.
EveryCheckReports ==
    \A p \in Partitions : pc[p] = "queued" ~> pc[p] = "done"

\* What the brokers have stored, and what was handed to librdkafka so far.
AllStored == {m \in Partitions \X (1..cycle) : Stored(m[1], m[2])}
Sent == flight \cup refused \cup AllStored

\* The checks keep what CheckPromise says of them: in each cycle each partition
\* gets one verdict, which is never revised and is true of the message of this
\* very check, not of an earlier one or of another partition's; and a produce
\* error means that its message was given up or never left the process, so that
\* no broker will ever store it after the verdict.
Promise == INSTANCE CheckPromise WITH
    verdict <- outcome,
    sent <- Sent,
    stored <- AllStored

KeepsPromise == Promise!Spec

\* A check fails only if something of the kind it reports went wrong: no
\* interleaving of the threads, no retry, no message of another instance and no
\* report that comes late makes a false alarm.
NoFalseAlarm ==
    \A p \in Partitions :
        /\ outcome[p] = "SEEK" => "seek" \in Faults
        /\ outcome[p] = "PRODUCE" => Faults \cap {"refused", "local"} # {}
        /\ outcome[p] = "CONSUME" => "consume" \in Faults
        /\ outcome[p] \in {"PRODUCE_TIMEOUT", "CONSUME_TIMEOUT"} => "slow" \in Faults
        /\ outcome[p] = "UNEXPECTED" => Faults \cap {"local", "poison", "log"} # {}

\* When the cluster answers in time every check succeeds, whatever others
\* write to the partition and although the threads serve each other's reports.
HealthyChecksSucceed ==
    \A p \in Partitions : pc[p] = "queued" ~> outcome[p] = "success"

\* The callback wait fails only if the callback did not fire in time: a check
\* whose callback reported success before the deadline goes on to consume.
AckInTimeProceeds ==
    \A p \in Partitions :
        (pc[p] = "poll" /\ fired[p] = "acked" /\ ~late[p]) ~> pc[p] = "consume"

=============================================================================
