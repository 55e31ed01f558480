------------------------------ MODULE Startup ------------------------------
(***************************************************************************)
(* One canary process from its first line to its last (main.run), and the  *)
(* container runtime that starts it again: configuration, TLS probe,       *)
(* metrics server, topics, the Kafka log handler, clients, initial sync    *)
(* and consumer pool, the loop, the finally block, and the interpreter's   *)
(* exit, which closes a handler run() left attached.  The server's thread  *)
(* and the executor's threads log beside the main thread, and a signal may *)
(* arrive at any moment, also during the exit.                             *)
(*                                                                         *)
(* A cycle of the loop is one step here that leaves checks running; what   *)
(* happens inside is RunLoop's matter, and what a sync does is TopicSync's. *)
(***************************************************************************)
EXTENDS KafkaLogHandler, Config

CONSTANTS
    Configurations, \* bound: the configuration files tried
    MaxMishaps      \* bound: how often a step of the startup may fail

ASSUME ConfigurationAssumption == Configurations \subseteq [Keys -> Texts]
ASSUME MishapAssumption == MaxMishaps \in Nat

VARIABLES
    pc,         \* where the main thread is
    settings,   \* what the rest of run() goes by: is the log topic enabled, has
                \* the metrics server what it needs, and, from the initial sync,
                \* are there more partitions than metrics.partition.threshold?
    serving,    \* does the metrics server's thread run?
    logTopic,   \* does the log topic exist on the cluster?
    busy,       \* does the executor have unfinished checks?
    shutdown,   \* _shutdown_event
    ending,     \* how run() ended, or is about to
    stopped,    \* history: has the operator asked this process to stop?
    mishaps     \* history: failures so far

mainVars == <<settings, serving, logTopic, busy, shutdown, ending, stopped, mishaps>>
vars == <<pc, mainVars, handlerVars>>

StartupPcs == {"ssl", "server", "topic", "logtopic", "create", "attach",
               "attached", "clients", "announce", "sync", "pool", "ready",
               "warn"}
LoopPcs == {"top", "collect", "sleep"}
FinallyPcs == {"join", "close", "detach", "flush", "release"}
ExitPcs == {"exiting", "shutdown", "lastflush", "lastrelease"}

Endings ==
    {"none",
     "refused",     \* sys.exit with a message about the configuration
     "unread",      \* the parser raised: no such section, a bad value
     "uncast",      \* an accepted setting could not be cast
     "uncertified", \* the metrics server had no certificate to load
     "unwarned",    \* the warning about many partitions raised
     "cut",         \* a signal's handler raised in logging.shutdown
     "returned", "raised", "clean", "killed"}

TypeOK ==
    /\ HandlerTypeOK
    /\ pc \in {"boot", "stuck", "gone"} \cup StartupPcs \cup LoopPcs \cup FinallyPcs \cup ExitPcs
    /\ settings \in [log : BOOLEAN, certified : BOOLEAN, large : BOOLEAN]
    /\ serving \in BOOLEAN
    /\ logTopic \in BOOLEAN
    /\ busy \in BOOLEAN
    /\ shutdown \in BOOLEAN
    /\ stopped \in BOOLEAN
    /\ ending \in Endings
    /\ mishaps \in 0..MaxMishaps

Goto(label) == pc' = label

\* run() is left, for good or ill; an ending already on its way stays.
End(how) ==
    /\ Goto("exiting")
    /\ ending' = IF ending = "none" THEN how ELSE ending

\* An exception inside the loop starts the finally block.
Escape ==
    /\ Goto("join")
    /\ ending' = "raised"

Mishap ==
    /\ mishaps < MaxMishaps
    /\ mishaps' = mishaps + 1

\* A log call of run() at this point, and where an exception of it leads.
Logged(next) ==
    /\ Logs
    /\ Goto(next)
    /\ UNCHANGED ending

LogFails ==
    /\ LogRaises
    /\ IF pc \in LoopPcs THEN Escape ELSE End("raised")

(***************************************************************************)
(* load_config, setup_logging and the casts.  Nothing else runs yet, and   *)
(* what is wrong with the file is put right by the operator in the end.    *)
(***************************************************************************)
Refuse(conf) ==
    /\ pc = "boot"
    /\ ~Valid(conf)
    /\ Mishap
    /\ Goto("gone")
    /\ ending' = "refused"
    /\ UNCHANGED <<settings, serving, logTopic, busy, shutdown, stopped, handlerVars>>

Configure(conf) ==
    /\ pc = "boot"
    /\ Valid(conf)
    /\ IF CastsSucceed(conf) THEN Goto("ssl") /\ UNCHANGED ending
                             ELSE Goto("gone") /\ ending' = "uncast"
    /\ settings' =
           [log |-> Enabled(conf, "log.topic.enabled"),
            certified |-> Enabled(conf, "metrics.ssl.enabled")
                              => \A k \in ServerCertificate : Given(conf, k),
            large |-> FALSE]
    /\ UNCHANGED <<serving, logTopic, busy, shutdown, stopped, mishaps, handlerVars>>

\* There is no file, or the parser raises.
ConfigMissing ==
    /\ pc = "boot"
    /\ Mishap
    /\ Goto("gone")
    /\ \E how \in {"refused", "unread"} : ending' = how
    /\ UNCHANGED <<settings, serving, logTopic, busy, shutdown, stopped, handlerVars>>

(***************************************************************************)
(* The steps before the log handler.  A failing TLS probe means to call    *)
(* sys.exit, but main does not import sys: a NameError leaves run().       *)
(***************************************************************************)
ValidateSsl ==
    /\ pc = "ssl"
    /\ \/ Goto("server") /\ UNCHANGED <<ending, mishaps>>
       \/ Mishap /\ End("raised")
    /\ UNCHANGED <<settings, serving, logTopic, busy, shutdown, stopped, handlerVars>>

StartServer ==
    /\ pc = "server"
    /\ \/ /\ IF settings.certified
             THEN Goto("topic") /\ serving' = TRUE /\ UNCHANGED ending
             ELSE End("uncertified") /\ UNCHANGED serving
          /\ UNCHANGED mishaps
       \/ /\ Mishap                     \* no such file; the port is taken
          /\ \E how \in {"returned", "raised"} : End(how)
          /\ UNCHANGED serving
    /\ UNCHANGED <<settings, logTopic, busy, shutdown, stopped, handlerVars>>

\* ensure_topic; RuntimeError ends the startup.
EnsureTopic ==
    /\ pc = "topic"
    /\ \/ /\ Goto(IF settings.log THEN "logtopic" ELSE "clients")
          /\ UNCHANGED <<ending, mishaps>>
       \/ Mishap /\ End("returned")
    /\ UNCHANGED <<settings, serving, logTopic, busy, shutdown, stopped, handlerVars>>

(***************************************************************************)
(* ensure_log_topic.  Its RuntimeError is caught, and the canary goes on   *)
(* without the handler; it counts as no mishap, so it may come every time. *)
(***************************************************************************)
\* Seeded fault: a refused log topic ends the startup.
WithoutLog_returns == Goto("exiting")

WithoutLog == Goto("clients")

FindLogTopic ==
    /\ pc = "logtopic"
    /\ \/ Goto(IF logTopic THEN "attach" ELSE "create")
       \/ WithoutLog
    /\ UNCHANGED <<mainVars, handlerVars>>

\* TOPIC_ALREADY_EXISTS is a success, whoever created the topic.
CreateLogTopic ==
    /\ pc = "create"
    /\ \/ Goto("attach") /\ logTopic' = TRUE
       \/ WithoutLog /\ UNCHANGED logTopic
    /\ UNCHANGED <<settings, serving, busy, shutdown, ending, stopped, mishaps,
                   handlerVars>>

\* Another instance creates it.
OtherCreates ==
    /\ ~logTopic
    /\ logTopic' = TRUE
    /\ UNCHANGED <<pc, settings, serving, busy, shutdown, ending, stopped, mishaps,
                   handlerVars>>

\* A KafkaException of the producer's constructor is no RuntimeError.
AttachHandler ==
    /\ pc = "attach"
    /\ \/ Attach /\ Goto("attached") /\ UNCHANGED <<ending, mishaps>>
       \/ Mishap /\ End("raised") /\ UNCHANGED handlerVars
    /\ UNCHANGED <<settings, serving, logTopic, busy, shutdown, stopped>>

\* "Log topic enabled": what emit raises is no RuntimeError.
AnnounceLog ==
    /\ pc = "attached"
    /\ Logged("clients") \/ LogFails
    /\ UNCHANGED <<settings, serving, logTopic, busy, shutdown, stopped, mishaps>>

(***************************************************************************)
(* Clients, initial sync, consumer pool                                    *)
(***************************************************************************)
CreateClients ==
    /\ pc = "clients"
    /\ \/ Goto("announce") /\ UNCHANGED <<ending, mishaps>>
       \/ Mishap /\ End("raised")
    /\ UNCHANGED <<settings, serving, logTopic, busy, shutdown, stopped, handlerVars>>

AnnounceSync ==
    /\ pc = "announce"
    /\ Logged("sync") \/ LogFails
    /\ UNCHANGED <<settings, serving, logTopic, busy, shutdown, stopped, mishaps>>

\* None is logged and ends the startup; the sync may also raise.
InitialSync ==
    /\ pc = "sync"
    /\ \/ /\ Goto("pool")
          /\ \E large \in BOOLEAN : settings' = [settings EXCEPT !.large = large]
          /\ UNCHANGED <<ending, mishaps, handlerVars>>
       \/ Mishap /\ Logs /\ End("returned") /\ UNCHANGED settings
       \/ Mishap /\ LogRaises /\ End("raised") /\ UNCHANGED settings
    /\ UNCHANGED <<serving, logTopic, busy, shutdown, stopped>>

BuildPool ==
    /\ pc = "pool"
    /\ \/ Goto("ready") /\ UNCHANGED <<ending, mishaps, handlerVars>>
       \/ Mishap /\ (Logs \/ LogRaises) /\ End("raised")
    /\ UNCHANGED <<settings, serving, logTopic, busy, shutdown, stopped>>

AnnouncePool ==
    /\ pc = "ready"
    /\ Logged("warn") \/ LogFails
    /\ UNCHANGED <<settings, serving, logTopic, busy, shutdown, stopped, mishaps>>

\* The warning about a large topic passes a field "message" in extra, which
\* logging refuses to overwrite: a KeyError before any handler is called.  (A
\* log.level above WARNING skips the call; that is a topic that is not large.)
WarnLarge ==
    /\ pc = "warn"
    /\ \/ settings.large /\ End("unwarned")
       \/ ~settings.large /\ Goto("top") /\ UNCHANGED ending
    /\ UNCHANGED <<settings, serving, logTopic, busy, shutdown, stopped, mishaps,
                   handlerVars>>

(***************************************************************************)
(* The loop                                                                *)
(***************************************************************************)
\* Seeded fault: a finished cycle starts the next one unconditionally.
LoopHead_forever ==
    /\ pc = "top"
    /\ Goto("collect")
    /\ busy' = TRUE
    /\ UNCHANGED <<settings, serving, logTopic, shutdown, ending, stopped, mishaps,
                   handlerVars>>

\* while not _shutdown_event.is_set(): the checks are submitted.
LoopHead ==
    /\ pc = "top"
    /\ \/ ~shutdown /\ Goto("collect") /\ busy' = TRUE
       \/ shutdown /\ Goto("join") /\ UNCHANGED busy
    /\ UNCHANGED <<settings, serving, logTopic, shutdown, ending, stopped, mishaps,
                   handlerVars>>

\* The last check finishes; a thread of the executor may log until then.
Finish ==
    /\ busy
    /\ "worker" \notin inCall
    /\ busy' = FALSE
    /\ UNCHANGED <<pc, settings, serving, logTopic, shutdown, ending, stopped,
                   mishaps, handlerVars>>

\* A result is logged while other checks may still run; or all have been.
CollectResult ==
    /\ pc = "collect"
    /\ Logged("collect") \/ LogFails
    /\ UNCHANGED <<settings, serving, logTopic, busy, shutdown, stopped, mishaps>>

CollectLast ==
    /\ pc = "collect"
    /\ ~busy
    /\ Logged("sleep") \/ LogFails
    /\ UNCHANGED <<settings, serving, logTopic, busy, shutdown, stopped, mishaps>>

Wake ==
    /\ pc = "sleep"
    /\ Goto("top")
    /\ UNCHANGED <<mainVars, handlerVars>>

(***************************************************************************)
(* The finally block                                                       *)
(***************************************************************************)
\* Seeded fault: executor.shutdown(wait=False).
JoinExecutor_nowait ==
    /\ pc = "join"
    /\ Goto("close")
    /\ UNCHANGED <<mainVars, handlerVars>>

\* executor.shutdown(wait=True)
JoinExecutor ==
    /\ pc = "join"
    /\ ~busy
    /\ Goto("close")
    /\ UNCHANGED <<mainVars, handlerVars>>

\* Consumers and producer are let go, and "cloud_canary stopped" is logged;
\* if that raises, the handler stays attached.
CloseClients ==
    /\ pc = "close"
    /\ \/ Logs /\ (IF attached THEN Goto("detach") /\ UNCHANGED ending ELSE End("clean"))
       \/ LogFails
    /\ UNCHANGED <<settings, serving, logTopic, busy, shutdown, stopped, mishaps>>

DetachHandler ==
    /\ pc = "detach"
    /\ Detach
    /\ Goto("flush")
    /\ UNCHANGED mainVars

FlushHandler ==
    /\ pc = "flush"
    /\ Flush
    /\ Goto("release")
    /\ UNCHANGED mainVars

ReleaseHandler ==
    /\ pc = "release"
    /\ Release
    /\ End("clean")
    /\ UNCHANGED <<settings, serving, logTopic, busy, shutdown, stopped, mishaps>>

(***************************************************************************)
(* The interpreter's exit: the executor's threads are joined, and then     *)
(* logging.shutdown closes a handler that is still in use, under its lock. *)
(***************************************************************************)
JoinThreads ==
    /\ pc = "exiting"
    /\ ~busy
    /\ Goto("shutdown")
    /\ UNCHANGED <<mainVars, handlerVars>>

ShutdownLogging ==
    /\ pc = "shutdown"
    /\ \/ attached /\ Lock /\ Goto("lastflush")
       \/ ~attached /\ Goto("gone") /\ UNCHANGED handlerVars
    /\ UNCHANGED mainVars

LastFlush ==
    /\ pc = "lastflush"
    /\ Flush
    /\ Goto("lastrelease")
    /\ UNCHANGED mainVars

LastRelease ==
    /\ pc = "lastrelease"
    /\ Release
    /\ Goto("gone")
    /\ UNCHANGED mainVars

(***************************************************************************)
(* The other threads                                                       *)
(***************************************************************************)
\* A check logs; a request whose answer is an error is logged, and the
\* server's thread is a daemon that runs until the process is gone.
ThreadFetches(t) ==
    /\ pc # "gone"
    /\ IF t = "worker" THEN busy ELSE serving
    /\ Fetch(t)
    /\ UNCHANGED <<pc, mainVars>>

ThreadEmits(t) ==
    /\ pc # "gone"
    /\ Emit(t)
    /\ UNCHANGED <<pc, mainVars>>

Delivered ==
    /\ \E s \in Senders : Deliver(s)
    /\ UNCHANGED <<pc, mainVars>>

(***************************************************************************)
(* The operator stops the container: a signal, and a kill if the process   *)
(* takes too long.  Before signal.signal() the signal itself ends it; later *)
(* Python runs _handle_signal on the main thread, between any two           *)
(* bytecodes, up to the last of the exit: it logs and then sets the event,  *)
(* and what it raises is raised where the main thread happens to be.        *)
(***************************************************************************)
SignalEarly ==
    /\ pc = "boot"
    /\ Goto("gone")
    /\ ending' = "killed"
    /\ stopped' = TRUE
    /\ UNCHANGED <<settings, serving, logTopic, busy, shutdown, mishaps, handlerVars>>

\* A signal the handler does not ignore: the event is not set yet.
Signalled ==
    /\ ~shutdown
    /\ stopped' = TRUE
    /\ UNCHANGED <<settings, serving, logTopic, busy, mishaps>>

SignalHeard ==
    /\ Signalled
    /\ pc \in StartupPcs \cup LoopPcs \cup FinallyPcs \cup ExitPcs
    /\ LogsAs("signal")
    /\ shutdown' = TRUE
    /\ UNCHANGED <<pc, ending>>

\* Event.set() asks for a lock that is not reentrant and that the main thread
\* holds: it is on its way into or out of Event.wait().
SignalInLock ==
    /\ Signalled
    /\ pc = "sleep"
    /\ LogsAs("signal")
    /\ Goto("stuck")
    /\ UNCHANGED <<shutdown, ending>>

\* The handler's log call raises, and so does what the main thread was at.
SignalEscapes ==
    /\ Signalled
    /\ pc \in StartupPcs \cup LoopPcs \cup FinallyPcs
    /\ LogFails
    /\ UNCHANGED shutdown

\* The exception is taken for one of the Schema Registry or of the check whose
\* result is at hand, and the loop goes on.
SignalSwallowed ==
    /\ Signalled
    /\ pc \in {"top", "collect"}
    /\ LogRaises
    /\ UNCHANGED <<pc, shutdown, ending>>

\* It ends the wait for the executor's threads; the exit goes on.
SignalCutsJoin ==
    /\ Signalled
    /\ pc = "exiting"
    /\ LogRaises
    /\ Goto("shutdown")
    /\ UNCHANGED <<shutdown, ending>>

\* It ends logging.shutdown: the handler goes with what its producer holds.
SignalCutsShutdown ==
    /\ Signalled
    /\ pc \in {"shutdown", "lastflush", "lastrelease"}
    /\ Refuses
    /\ Release
    /\ Goto("gone")
    /\ ending' = "cut"
    /\ UNCHANGED shutdown

\* What the process still holds is lost; no close threw it away.
Kill ==
    /\ stopped
    /\ pc # "gone"
    /\ Goto("gone")
    /\ ending' = "killed"
    /\ UNCHANGED <<settings, serving, logTopic, busy, shutdown, stopped, mishaps,
                   handlerVars>>

\* restart: unless-stopped
Restart ==
    /\ pc = "gone"
    /\ ~stopped
    /\ Goto("boot")
    /\ serving' = FALSE
    /\ busy' = FALSE
    /\ shutdown' = FALSE
    /\ ending' = "none"
    /\ settings' = [log |-> FALSE, certified |-> FALSE, large |-> FALSE]
    /\ Fresh
    /\ UNCHANGED <<logTopic, stopped, mishaps>>

Init ==
    /\ pc = "boot"
    /\ settings = [log |-> FALSE, certified |-> FALSE, large |-> FALSE]
    /\ serving = FALSE
    /\ logTopic = FALSE
    /\ busy = FALSE
    /\ shutdown = FALSE
    /\ ending = "none"
    /\ stopped = FALSE
    /\ mishaps = 0
    /\ HandlerInit

Starting ==
    \/ \E conf \in Configurations : Refuse(conf) \/ Configure(conf)
    \/ ConfigMissing
    \/ ValidateSsl \/ StartServer \/ EnsureTopic \/ FindLogTopic \/ CreateLogTopic
    \/ AttachHandler \/ AnnounceLog \/ CreateClients \/ AnnounceSync
    \/ InitialSync \/ BuildPool \/ AnnouncePool \/ WarnLarge
Looping == LoopHead \/ CollectLast \/ Wake
Ending ==
    \/ JoinExecutor \/ CloseClients \/ DetachHandler \/ FlushHandler
    \/ ReleaseHandler \/ JoinThreads \/ ShutdownLogging \/ LastFlush \/ LastRelease
Main == Starting \/ Looping \/ Ending

Signals ==
    \/ SignalEarly \/ SignalHeard \/ SignalInLock \/ SignalEscapes
    \/ SignalSwallowed \/ SignalCutsJoin \/ SignalCutsShutdown

Next ==
    \/ Main \/ CollectResult \/ Finish
    \/ \E t \in Threads : ThreadFetches(t) \/ ThreadEmits(t)
    \/ Delivered \/ OtherCreates
    \/ Signals \/ Kill \/ Restart

\* The main thread runs, a thread in a log call leaves it, and the executor
\* finishes its checks (CanaryCheck shows that each one ends; strong, because a
\* check may log, but only so often); the runtime restarts what was not
\* stopped.  Nothing makes the broker acknowledge.
Fairness ==
    /\ WF_vars(Main)
    /\ SF_vars(Finish)
    /\ WF_vars(ThreadEmits("worker"))
    /\ WF_vars(Restart)

Spec == Init /\ [][Next]_vars /\ Fairness

(***************************************************************************)
(* Properties                                                              *)
(***************************************************************************)
\* Whatever way run() ends -- a failed startup that returns, an exception, a
\* signal, the end of the loop, a log call that raises in the finally block --
\* no record that run() or a check logged is thrown away by the process itself:
\* it is delivered, unless the flush's ten seconds pass.  A signal during the
\* exit may cost its own record, which comes after the flush, and the rest of
\* the queue only if its handler raises inside logging.shutdown.
RecordsSurvive == ending # "cut" => dropped \subseteq {"http", "signal"}

\* The close at the interpreter's exit, where the handler is still in the root
\* logger's list and the metrics server's thread may be about to call it, throws
\* away no record of a thread: only the close of run()'s finally block does.
\* The lock keeps out the threads, not a signal, whose handler runs on the very
\* thread that holds it.
ExitKeepsRecords ==
    [][attached /\ ending' # "cut" => dropped' \subseteq dropped \cup {"signal"}]_vars

\* The stronger claim of close(): after a clean shutdown, no record of any
\* thread.  A request that fetched the handler before removeHandler may call it
\* after the flush.
NothingDropped == ending = "clean" => dropped = {}

\* What validate_config accepts can be run: main.run casts every setting it
\* accepted, and never finds the metrics server without its certificate.
AcceptedStarts == ending \notin {"uncast", "uncertified"}

\* A configuration that is not accepted ends with a message of sys.exit.
RefusedPolitely == ending # "unread"

Up == pc \in LoopPcs

\* As long as the log queue has room in the end, and the topic is not large, a
\* process that failed on its way to the loop is started again until one gets
\* there, although the log topic may be refused every time; unless the operator
\* stops it.
ComesUp ==
    /\ <>[](attached => HasRoom)
    /\ <>[]~settings.large
    => (pc = "gone") ~> (Up \/ stopped)

\* A topic with more partitions than the threshold is monitored too, with
\* aggregated labels.
LargeTopicsToo ==
    <>[](attached => HasRoom) => settings.large ~> (Up \/ stopped)

\* Wherever the signal found the process -- in its startup, its loop, its finally
\* block or its exit -- once the event is set it is gone in the end, whatever
\* fails after that, and is not started again.  (A signal whose handler raised
\* or hung may leave it running: RunLoop's SignalStops.)
StopsForGood == shutdown ~> [](pc = "gone")

=============================================================================
