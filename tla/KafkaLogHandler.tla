-------------------------- MODULE KafkaLogHandler --------------------------
(***************************************************************************)
(* The logging handler that publishes log records to Kafka                 *)
(* (kafka_log_handler.KafkaLogHandler) as the threads of one process call  *)
(* it: emit() under the handler's lock, librdkafka's queue behind it, and  *)
(* close() on the way out.                                                 *)
(*                                                                         *)
(* A record is known by who logged it: a thread, or the signal handler,    *)
(* which Python runs on the main thread.  The main thread's log calls are  *)
(* single steps, since it is the main thread that attaches and closes the  *)
(* handler; the other threads are seen to fetch the handler from the root  *)
(* logger first and to call it later, which is where close() can come in   *)
(* between.                                                                *)
(***************************************************************************)
EXTENDS Integers, FiniteSets

CONSTANT QueueSize  \* bound: queue.buffering.max.messages of the producer

ASSUME QueueAssumption == QueueSize \in Nat \ {0}

Threads == {"worker", "http"}   \* of the executor, of the metrics server
Senders == {"main", "signal"} \cup Threads

VARIABLES
    attached,   \* is the handler in the root logger's list?
    producer,   \* the handler's _producer: "none", "open" or "gone"
    inCall,     \* threads that have fetched the handler and not yet called it
    locked,     \* does logging.shutdown hold the handler's lock?
    pending,    \* records librdkafka accepted and no broker acknowledged
    flushed,    \* what flush() answered: "no", "empty" or "late"
    dropped     \* history: whose accepted records a close threw away
                \* without its flush having run out of time

handlerVars == <<attached, producer, inCall, locked, pending, flushed, dropped>>

Queued == pending["main"] + pending["signal"] + pending["worker"] + pending["http"]

HandlerTypeOK ==
    /\ attached \in BOOLEAN
    /\ producer \in {"none", "open", "gone"}
    /\ inCall \subseteq Threads
    /\ locked \in BOOLEAN
    /\ pending \in [Senders -> Nat]
    /\ Queued <= QueueSize
    /\ flushed \in {"no", "empty", "late"}
    /\ dropped \subseteq Senders

Nothing == [s \in Senders |-> 0]

\* A new process: no handler yet.
Fresh ==
    /\ attached' = FALSE
    /\ producer' = "none"
    /\ inCall' = {}
    /\ locked' = FALSE
    /\ pending' = Nothing
    /\ flushed' = "no"
    /\ UNCHANGED dropped

HandlerInit ==
    /\ attached = FALSE
    /\ producer = "none"
    /\ inCall = {}
    /\ locked = FALSE
    /\ pending = Nothing
    /\ flushed = "no"
    /\ dropped = {}

HasRoom == Queued < QueueSize
AllDelivered == \A s \in Senders : pending[s] = 0

(***************************************************************************)
(* __init__ and addHandler                                                 *)
(***************************************************************************)
Attach ==
    /\ producer' = "open"
    /\ attached' = TRUE
    /\ UNCHANGED <<inCall, locked, pending, flushed, dropped>>

(***************************************************************************)
(* emit.  A full queue makes produce() raise; so does the missing          *)
(* _producer of a closed handler.  The except clause names                 *)
(* json.JSONEncodeError, which does not exist: evaluating it raises, and   *)
(* the log call raises in its caller.                                      *)
(***************************************************************************)
\* Seeded fault: the handler's producer is configured without a queue limit.
Accepts_unlimited == producer = "open"

Accepts == producer = "open" /\ HasRoom

Enqueue(s) ==
    /\ Accepts
    /\ pending' = [pending EXCEPT ![s] = @ + 1]

\* A log call on the main thread that returns; without the handler it reaches
\* the console alone.  The lock is reentrant: what logging.shutdown holds, the
\* main thread itself may take again.
LogsAs(s) ==
    \/ ~attached /\ UNCHANGED handlerVars
    \/ /\ attached
       /\ Enqueue(s)
       /\ UNCHANGED <<attached, producer, inCall, locked, flushed, dropped>>

Logs == LogsAs("main")

\* One that raises.
Refuses == attached /\ ~Accepts

LogRaises == Refuses /\ UNCHANGED handlerVars

\* callHandlers: the thread finds the handler in the root logger's list.
Fetch(t) ==
    /\ attached
    /\ t \notin inCall
    /\ inCall' = inCall \cup {t}
    /\ UNCHANGED <<attached, producer, locked, pending, flushed, dropped>>

\* It calls the handler, whose lock lets one thread in at a time.
Emit(t) ==
    /\ t \in inCall
    /\ ~locked
    /\ inCall' = inCall \ {t}
    /\ \/ Enqueue(t)
       \/ ~Accepts /\ UNCHANGED pending
    /\ UNCHANGED <<attached, producer, locked, flushed, dropped>>

(***************************************************************************)
(* librdkafka: a broker acknowledges a record, or its message.timeout.ms   *)
(* passes and it is given up                                               *)
(***************************************************************************)
Deliver(s) ==
    /\ producer = "open"
    /\ pending[s] > 0
    /\ pending' = [pending EXCEPT ![s] = @ - 1]
    /\ UNCHANGED <<attached, producer, inCall, locked, flushed, dropped>>

(***************************************************************************)
(* removeHandler, and close(): flush, then del self._producer              *)
(***************************************************************************)
Detach ==
    /\ attached' = FALSE
    /\ UNCHANGED <<producer, inCall, locked, pending, flushed, dropped>>

\* flush(timeout): until the queue is empty, or the time has passed.
Flush ==
    /\ flushed' = IF AllDelivered THEN "empty" ELSE "late"
    /\ UNCHANGED <<attached, producer, inCall, locked, pending, dropped>>

\* The producer is destroyed with what is left in its queue.
Release ==
    /\ producer' = "gone"
    /\ dropped' = dropped \cup IF flushed = "late" THEN {}
                               ELSE {s \in Senders : pending[s] > 0}
    /\ pending' = Nothing
    /\ locked' = FALSE
    /\ UNCHANGED <<attached, inCall, flushed>>

\* Seeded fault: logging.shutdown closes the handler without its lock.
Lock_skipped == UNCHANGED handlerVars

\* logging.shutdown takes the lock before it closes the handler.
Lock ==
    /\ ~locked
    /\ locked' = TRUE
    /\ UNCHANGED <<attached, producer, inCall, pending, flushed, dropped>>

=============================================================================
