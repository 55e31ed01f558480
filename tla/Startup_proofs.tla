--------------------------- MODULE Startup_proofs ---------------------------
(***************************************************************************)
(* Proofs about Startup: for every set of configurations, every queue size *)
(* any number of failures and a signal at any moment, the types hold, no   *)
(* record of run() or of a check is thrown away by the process itself, and *)
(* none of any thread by its close at exit, unless a signal's handler      *)
(* raises in there; no accepted configuration fails in main.run, and no    *)
(* large topic gets as far as the loop.                                    *)
(***************************************************************************)
EXTENDS Startup, TLAPS

AllPcs == {"boot", "stuck", "gone"} \cup StartupPcs \cup LoopPcs \cup FinallyPcs \cup ExitPcs

(***************************************************************************)
(* What makes RecordsSurvive inductive: checks run only where something    *)
(* still waits for them, or where a signal cut that wait short; their      *)
(* threads log only while they run; and from the flush on nothing but a    *)
(* request can reach the queue -- at the interpreter's exit, where the     *)
(* lock is held, nothing but a signal's handler.                           *)
(***************************************************************************)
ChecksAwaited == busy => pc \in {"collect", "join", "gone"} \cup ExitPcs
WorkersInChecks == "worker" \in inCall => busy \/ pc = "gone"
DetachedFirst == pc \in {"flush", "release"} => ~attached
LockedFirst == pc \in {"lastflush", "lastrelease"} => locked
FlushedFirst ==
    pc \in {"release", "lastrelease"} =>
        \/ flushed = "late"
        \/ \A s \in {"main", "worker"} : pending[s] = 0
FlushedWhole ==
    pc = "lastrelease" =>
        flushed = "late" \/ \A s \in {"main"} \cup Threads : pending[s] = 0
CertifiedFirst == pc \in {"ssl", "server"} => settings.certified

\* A signal that cut the exit short was the end of the process for good.
CutIsLast == ending = "cut" => stopped /\ pc = "gone"

\* The warning is on the only way from the initial sync to the loop.
LargeKeptOut == settings.large => pc \notin LoopPcs

Safe ==
    /\ ChecksAwaited
    /\ WorkersInChecks
    /\ DetachedFirst
    /\ LockedFirst
    /\ FlushedFirst
    /\ FlushedWhole
    /\ CertifiedFirst
    /\ LargeKeptOut
    /\ CutIsLast
    /\ RecordsSurvive
    /\ AcceptedStarts

Inv == TypeOK /\ Safe

\* What validate_config accepts, the head of main.run casts: both read the
\* intervals as floats and the rest as integers.
LEMMA ValidCasts ==
    ASSUME NEW conf, Valid(conf)
    PROVE  CastsSucceed(conf)
<1>1. ASSUME NEW k \in Numeric, conf[k] # "absent"
      PROVE  Casts(CastAs(k), conf[k])
  <2>1. Casts(ValidatedAs(k), conf[k])
    BY <1>1 DEF Valid, NumbersInRange
  <2>2. ValidatedAs(k) = CastAs(k)
    BY DEF ValidatedAs, CastAs, Numeric, Seconds, Counts
  <2> QED BY <2>1, <2>2
<1> QED BY <1>1 DEF CastsSucceed

\* What it accepts has the files the metrics server needs.
LEMMA ValidCertified ==
    ASSUME NEW conf, Valid(conf)
    PROVE  Enabled(conf, "metrics.ssl.enabled")
               => \A k \in ServerCertificate : Given(conf, k)
BY DEF Valid, SwitchesSound

USE DEF Goto, Escape, End, Mishap, Logged, LogFails, mainVars,
        StartupPcs, LoopPcs, FinallyPcs, ExitPcs, Endings, Threads

\* A call of the handler, by any thread, or none.
Handler ==
    \/ Logs \/ LogsAs("signal") \/ LogRaises
    \/ Attach \/ Detach \/ Flush \/ Release \/ Lock \/ Fresh
    \/ \E t \in Threads : Fetch(t) \/ Emit(t)
    \/ \E s \in Senders : Deliver(s)
    \/ UNCHANGED handlerVars

\* The queue is counted, and keeps to its limit.
Limited == pending \in [Senders -> Nat] /\ Queued <= QueueSize

\* What is counted per sender is what a change of one sender's counter, or an
\* empty queue, makes of it.
LEMMA QueueSteps ==
    ASSUME Limited
    PROVE  /\ \A s \in Senders : Enqueue(s) => Limited'
           /\ \A s \in Senders : Deliver(s) => Limited'
           /\ pending' = Nothing => Limited'
           /\ UNCHANGED pending => Limited'
<1> USE QueueAssumption DEF Limited, Queued
<1>1. Senders = {"main", "signal", "worker", "http"}
  BY DEF Senders, Threads
<1>2. /\ pending["main"] \in Nat /\ pending["signal"] \in Nat
      /\ pending["worker"] \in Nat /\ pending["http"] \in Nat
      /\ QueueSize \in Nat
  BY <1>1
<1>3. ASSUME NEW s \in Senders, Enqueue(s) PROVE Limited'
  BY <1>1, <1>2, <1>3 DEF Enqueue, Accepts, HasRoom
<1>4. ASSUME NEW s \in Senders, Deliver(s) PROVE Limited'
  BY <1>1, <1>2, <1>4 DEF Deliver
<1>5. pending' = Nothing => Limited'
  BY <1>1, <1>2 DEF Nothing
<1>6. UNCHANGED pending => Limited'
  OBVIOUS
<1> QED BY <1>3, <1>4, <1>5, <1>6

\* No call of the handler breaks its types; a counter of the queue goes up by
\* one, down by one where it is not zero, or back to zero.
LEMMA HandlerTypes == HandlerTypeOK /\ Handler => HandlerTypeOK'
<1> SUFFICES ASSUME HandlerTypeOK, Handler PROVE HandlerTypeOK'
  OBVIOUS
<1> USE DEF HandlerTypeOK
<1>0. Limited
  BY DEF Limited
<1>q. /\ \A s \in Senders : Enqueue(s) => Limited'
      /\ \A s \in Senders : Deliver(s) => Limited'
      /\ pending' = Nothing => Limited'
      /\ UNCHANGED pending => Limited'
  BY <1>0, QueueSteps
<1>h. Limited' => pending' \in [Senders -> Nat] /\ Queued' <= QueueSize
  BY DEF Limited
<1>2. CASE Logs \/ LogsAs("signal")
  <2>0. PICK s \in {"main", "signal"} : LogsAs(s)
    BY <1>2 DEF Logs
  <2>1. CASE UNCHANGED handlerVars
    BY <2>1, <1>q, <1>h DEF handlerVars
  <2>2. CASE ~UNCHANGED handlerVars
    <3>1. Limited'
      BY <1>q, <2>0, <2>2 DEF LogsAs, Senders
    <3> QED BY <1>h, <2>0, <2>2, <3>1 DEF LogsAs
  <2> QED BY <2>1, <2>2
<1>3. CASE LogRaises \/ UNCHANGED handlerVars
  BY <1>3, <1>q, <1>h DEF LogRaises, handlerVars
<1>4. CASE Attach \/ Detach \/ Flush \/ Lock
  BY <1>4, <1>q, <1>h DEF Attach, Detach, Flush, Lock
<1>5. CASE Fresh
  BY <1>5, <1>q, <1>h DEF Fresh
<1>9. CASE Release
  <2>1. dropped' \subseteq Senders
    BY <1>9 DEF Release
  <2>2. Limited'
    BY <1>9, <1>q DEF Release
  <2> QED BY <1>h, <1>9, <2>1, <2>2 DEF Release
<1>6. ASSUME NEW t \in Threads, Fetch(t) PROVE HandlerTypeOK'
  BY <1>6, <1>q, <1>h DEF Fetch
<1>7. ASSUME NEW t \in Threads, Emit(t) PROVE HandlerTypeOK'
  <2>1. t \in Senders
    BY DEF Senders
  <2>2. Limited'
    BY <1>q, <1>7, <2>1 DEF Emit
  <2> QED BY <1>h, <1>7, <2>2 DEF Emit
<1>8. ASSUME NEW s \in Senders, Deliver(s) PROVE HandlerTypeOK'
  BY <1>8, <1>q, <1>h DEF Deliver
<1> QED BY <1>2, <1>3, <1>4, <1>5, <1>6, <1>7, <1>8, <1>9 DEF Handler

\* The initial state satisfies the invariant.
LEMMA InitInv == Init => Inv
<1> SUFFICES ASSUME Init PROVE Inv
  OBVIOUS
<1> USE DEF Init, HandlerInit
<1>1. TypeOK
  <2>1. HandlerTypeOK
    <3>1. Queued = 0
      BY DEF Queued, Nothing, Senders, Threads
    <3>2. pending \in [Senders -> Nat]
      BY DEF Nothing
    <3>3. Queued <= QueueSize
      BY <3>1, QueueAssumption, SMT
    <3> QED BY <3>2, <3>3 DEF HandlerTypeOK
  <2>2. settings \in [log : BOOLEAN, certified : BOOLEAN, large : BOOLEAN]
    OBVIOUS
  <2>3. /\ serving \in BOOLEAN /\ logTopic \in BOOLEAN /\ busy \in BOOLEAN
        /\ shutdown \in BOOLEAN /\ stopped \in BOOLEAN
    OBVIOUS
  <2> QED BY <2>1, <2>2, <2>3, MishapAssumption DEF TypeOK
<1>2. Safe
  BY DEF Safe, ChecksAwaited, WorkersInChecks, DetachedFirst, LockedFirst,
         FlushedFirst, FlushedWhole, CertifiedFirst, LargeKeptOut, CutIsLast,
         RecordsSurvive, AcceptedStarts
<1> QED BY <1>1, <1>2 DEF Inv

\* Every step keeps the types.
LEMMA StepTypes == TypeOK /\ [Next]_vars => TypeOK'
<1> SUFFICES ASSUME TypeOK, [Next]_vars PROVE TypeOK'
  OBVIOUS
<1> USE MishapAssumption, HandlerTypes DEF TypeOK, Handler
<1>0. CASE UNCHANGED vars
  BY <1>0 DEF vars
<1>1. ASSUME NEW conf \in Configurations, Refuse(conf) \/ Configure(conf)
      PROVE  TypeOK'
  <2>1. HandlerTypeOK'
    BY <1>1 DEF Refuse, Configure
  <2>2. CASE Refuse(conf)
    BY <2>1, <2>2 DEF Refuse
  <2>3. CASE Configure(conf)
    <3>1. settings' \in [log : BOOLEAN, certified : BOOLEAN, large : BOOLEAN]
      BY <2>3 DEF Configure, Enabled, Given
    <3> QED BY <2>1, <2>3, <3>1 DEF Configure
  <2> QED BY <1>1, <2>2, <2>3
<1>2. ASSUME NEW t \in Threads, ThreadFetches(t) \/ ThreadEmits(t)
      PROVE  TypeOK'
  BY <1>2 DEF ThreadFetches, ThreadEmits
<1>3. CASE ConfigMissing
  BY <1>3 DEF ConfigMissing
<1>4. CASE ValidateSsl
  BY <1>4 DEF ValidateSsl
<1>5. CASE StartServer
  <2>1. HandlerTypeOK'
    BY <1>5 DEF StartServer
  <2>2. serving' \in BOOLEAN
    BY <1>5 DEF StartServer
  <2> QED BY <1>5, <2>1, <2>2 DEF StartServer
<1>6. CASE EnsureTopic
  BY <1>6 DEF EnsureTopic
<1>7. CASE FindLogTopic
  BY <1>7 DEF FindLogTopic, WithoutLog
<1>8. CASE CreateLogTopic
  <2>1. HandlerTypeOK'
    BY <1>8 DEF CreateLogTopic
  <2>2. logTopic' \in BOOLEAN
    BY <1>8 DEF CreateLogTopic
  <2> QED BY <1>8, <2>1, <2>2 DEF CreateLogTopic, WithoutLog
<1>9. CASE AttachHandler
  BY <1>9 DEF AttachHandler
<1>10. CASE AnnounceLog
  BY <1>10 DEF AnnounceLog
<1>11. CASE CreateClients
  BY <1>11 DEF CreateClients
<1>12. CASE AnnounceSync
  BY <1>12 DEF AnnounceSync
<1>13. CASE InitialSync
  <2>1. settings' \in [log : BOOLEAN, certified : BOOLEAN, large : BOOLEAN]
    BY <1>13 DEF InitialSync
  <2> QED BY <1>13, <2>1 DEF InitialSync
<1>14. CASE BuildPool
  BY <1>14 DEF BuildPool
<1>15. CASE AnnouncePool
  BY <1>15 DEF AnnouncePool
<1>35. CASE WarnLarge
  BY <1>35 DEF WarnLarge
<1>16. CASE LoopHead
  <2>1. HandlerTypeOK'
    BY <1>16 DEF LoopHead
  <2>2. busy' \in BOOLEAN
    BY <1>16 DEF LoopHead
  <2> QED BY <1>16, <2>1, <2>2 DEF LoopHead
<1>17. CASE CollectLast
  BY <1>17 DEF CollectLast
<1>18. CASE Wake
  BY <1>18 DEF Wake
<1>19. CASE JoinExecutor
  BY <1>19 DEF JoinExecutor
<1>20. CASE CloseClients
  BY <1>20 DEF CloseClients
<1>21. CASE DetachHandler
  BY <1>21 DEF DetachHandler
<1>22. CASE FlushHandler
  BY <1>22 DEF FlushHandler
<1>23. CASE ReleaseHandler
  BY <1>23 DEF ReleaseHandler
<1>24. CASE JoinThreads \/ ShutdownLogging
  BY <1>24 DEF JoinThreads, ShutdownLogging
<1>25. CASE LastFlush
  BY <1>25 DEF LastFlush
<1>26. CASE LastRelease
  BY <1>26 DEF LastRelease
<1>27. CASE CollectResult
  BY <1>27 DEF CollectResult
<1>28. CASE Finish
  <2>1. HandlerTypeOK'
    BY <1>28 DEF Finish
  <2>2. busy' \in BOOLEAN
    BY <1>28 DEF Finish
  <2> QED BY <1>28, <2>1, <2>2 DEF Finish
<1>29. CASE Delivered
  BY <1>29 DEF Delivered
<1>30. CASE OtherCreates
  BY <1>30 DEF OtherCreates
<1>31. CASE SignalEarly
  BY <1>31 DEF SignalEarly
<1>32. CASE \/ SignalHeard \/ SignalInLock \/ SignalEscapes \/ SignalSwallowed
            \/ SignalCutsJoin \/ SignalCutsShutdown
  <2>1. HandlerTypeOK'
    BY <1>32 DEF SignalHeard, SignalInLock, SignalEscapes, SignalSwallowed,
                 SignalCutsJoin, SignalCutsShutdown
  <2>2. /\ pc' \in AllPcs
        /\ ending' \in Endings
    BY <1>32 DEF SignalHeard, SignalInLock, SignalEscapes, SignalSwallowed,
                 SignalCutsJoin, SignalCutsShutdown, AllPcs
  <2>3. /\ shutdown' \in BOOLEAN /\ stopped' \in BOOLEAN
        /\ UNCHANGED <<settings, serving, logTopic, busy, mishaps>>
    BY <1>32 DEF SignalHeard, SignalInLock, SignalEscapes, SignalSwallowed,
                 SignalCutsJoin, SignalCutsShutdown, Signalled
  <2> QED BY <2>1, <2>2, <2>3 DEF AllPcs
<1>33. CASE Kill
  BY <1>33 DEF Kill
<1>34. CASE Restart
  BY <1>34 DEF Restart
<1> QED BY <1>0, <1>1, <1>2, <1>3, <1>4, <1>5, <1>6, <1>7, <1>8, <1>9, <1>10, <1>11, <1>12, <1>13, <1>14, <1>15, <1>16, <1>17, <1>18, <1>19, <1>20, <1>21, <1>22, <1>23, <1>24, <1>25, <1>26, <1>27, <1>28, <1>29, <1>30, <1>31, <1>32, <1>33, <1>34, <1>35
         DEF Next, Main, Starting, Looping, Ending, Signals

\* Every step keeps the rest of the invariant.
LEMMA StepSafe == Inv /\ [Next]_vars => Safe'
<1> SUFFICES ASSUME Inv, [Next]_vars PROVE Safe'
  OBVIOUS
<1> USE DEF Inv, Safe, ChecksAwaited, WorkersInChecks, DetachedFirst, LockedFirst,
            FlushedFirst, FlushedWhole, CertifiedFirst, LargeKeptOut, CutIsLast, RecordsSurvive,
            AcceptedStarts, AllDelivered,
            Logs, LogsAs, LogRaises, Refuses, Enqueue, handlerVars
<1>0. CASE UNCHANGED vars
  BY <1>0 DEF vars
<1>1. ASSUME NEW conf \in Configurations, Refuse(conf) \/ Configure(conf)
      PROVE  Safe'
  <2>1. CASE Refuse(conf)
    BY <2>1 DEF Refuse
  <2>2. CASE Configure(conf)
    <3>1. Valid(conf)
      BY <2>2 DEF Configure
    <3>2. CastsSucceed(conf)
      BY <3>1, ValidCasts
    <3>3. settings'.certified
      BY <2>2, <3>1, ValidCertified DEF Configure
    <3> QED BY <2>2, <3>2, <3>3 DEF Configure
  <2> QED BY <1>1, <2>1, <2>2
<1>2. ASSUME NEW t \in Threads, ThreadFetches(t) \/ ThreadEmits(t)
      PROVE  Safe'
  <2>1. CASE ThreadFetches(t)
    BY <2>1 DEF ThreadFetches, Fetch
  <2>2. CASE ThreadEmits(t)
    <3>1. t = "worker" => busy
      BY <2>2 DEF ThreadEmits, Emit
    <3>2. pc = "release" => t = "http"
      BY <3>1
    <3>3. pc \notin {"lastflush", "lastrelease"}
      BY <2>2 DEF ThreadEmits, Emit
    <3>4. t = "http" => \A s \in {"main", "worker"} : pending'[s] = pending[s]
      BY <2>2 DEF ThreadEmits, Emit, Senders, TypeOK, HandlerTypeOK
    <3>5. FlushedFirst'
      BY <2>2, <3>2, <3>3, <3>4 DEF ThreadEmits, Emit
    <3> QED BY <2>2, <3>5 DEF ThreadEmits, Emit
  <2> QED BY <1>2, <2>1, <2>2
<1>3. CASE ConfigMissing
  BY <1>3 DEF ConfigMissing
<1>4. CASE ValidateSsl
  BY <1>4 DEF ValidateSsl
<1>5. CASE StartServer
  BY <1>5 DEF StartServer
<1>6. CASE EnsureTopic
  BY <1>6 DEF EnsureTopic
<1>7. CASE FindLogTopic
  BY <1>7 DEF FindLogTopic, WithoutLog
<1>8. CASE CreateLogTopic
  BY <1>8 DEF CreateLogTopic, WithoutLog
<1>9. CASE AttachHandler
  BY <1>9 DEF AttachHandler, Attach
<1>10. CASE AnnounceLog
  BY <1>10 DEF AnnounceLog
<1>11. CASE CreateClients
  BY <1>11 DEF CreateClients
<1>12. CASE AnnounceSync
  BY <1>12 DEF AnnounceSync
<1>13. CASE InitialSync
  BY <1>13 DEF InitialSync
<1>14. CASE BuildPool
  BY <1>14 DEF BuildPool
<1>15. CASE AnnouncePool
  BY <1>15 DEF AnnouncePool
<1>35. CASE WarnLarge
  BY <1>35 DEF WarnLarge
<1>16. CASE LoopHead
  BY <1>16 DEF LoopHead
<1>17. CASE CollectLast
  BY <1>17 DEF CollectLast
<1>18. CASE Wake
  BY <1>18 DEF Wake
<1>19. CASE JoinExecutor
  BY <1>19 DEF JoinExecutor
<1>20. CASE CloseClients
  BY <1>20 DEF CloseClients
<1>21. CASE DetachHandler
  BY <1>21 DEF DetachHandler, Detach
<1>22. CASE FlushHandler
  BY <1>22 DEF FlushHandler, Flush, AllDelivered, Senders
<1>23. CASE ReleaseHandler
  <2>1. RecordsSurvive'
    <3>1. dropped \subseteq {"http", "signal"}
      BY <1>23 DEF ReleaseHandler
    <3>2. {s \in Senders : pending[s] > 0} \subseteq {"http", "signal"} \/ flushed = "late"
      BY <1>23 DEF ReleaseHandler, Senders
    <3>3. dropped' \subseteq {"http", "signal"}
      <4>1. CASE flushed = "late"
        BY <1>23, <3>1, <4>1 DEF ReleaseHandler, Release
      <4>2. CASE flushed # "late"
        BY <1>23, <3>1, <3>2, <4>2 DEF ReleaseHandler, Release
      <4> QED BY <4>1, <4>2
    <3> QED BY <3>3
  <2>2. AcceptedStarts'
    BY <1>23 DEF ReleaseHandler
  <2>3. pc' \notin {"release", "lastrelease", "flush", "lastflush", "ssl", "server"}
    BY <1>23 DEF ReleaseHandler
  <2> QED BY <1>23, <2>1, <2>2, <2>3 DEF ReleaseHandler, Release
<1>24. CASE JoinThreads \/ ShutdownLogging
  BY <1>24 DEF JoinThreads, ShutdownLogging, Lock
<1>25. CASE LastFlush
  BY <1>25 DEF LastFlush, Flush, AllDelivered, Senders
<1>26. CASE LastRelease
  <2>1. RecordsSurvive'
    <3>1. dropped \subseteq {"http", "signal"}
      BY <1>26 DEF LastRelease
    <3>2. {s \in Senders : pending[s] > 0} \subseteq {"http", "signal"} \/ flushed = "late"
      BY <1>26 DEF LastRelease, Senders
    <3>3. dropped' \subseteq {"http", "signal"}
      <4>1. CASE flushed = "late"
        BY <1>26, <3>1, <4>1 DEF LastRelease, Release
      <4>2. CASE flushed # "late"
        BY <1>26, <3>1, <3>2, <4>2 DEF LastRelease, Release
      <4> QED BY <4>1, <4>2
    <3> QED BY <3>3
  <2>2. AcceptedStarts'
    BY <1>26 DEF LastRelease
  <2>3. pc' \notin {"release", "lastrelease", "flush", "lastflush", "ssl", "server"}
    BY <1>26 DEF LastRelease
  <2> QED BY <1>26, <2>1, <2>2, <2>3 DEF LastRelease, Release
<1>27. CASE CollectResult
  BY <1>27 DEF CollectResult
<1>28. CASE Finish
  BY <1>28 DEF Finish
<1>29. CASE Delivered
  BY <1>29 DEF Delivered, Deliver, Senders
<1>30. CASE OtherCreates
  BY <1>30 DEF OtherCreates
<1>31. CASE SignalEarly
  BY <1>31 DEF SignalEarly
<1>32. CASE SignalHeard
  <2>1. UNCHANGED <<pc, ending, busy, settings, attached, inCall, locked, flushed, dropped>>
    BY <1>32 DEF SignalHeard, Signalled
  <2>2. \A s \in {"main"} \cup Threads : pending'[s] = pending[s]
    BY <1>32 DEF SignalHeard, TypeOK, HandlerTypeOK, Senders
  <2>3. FlushedFirst' /\ FlushedWhole'
    BY <2>1, <2>2
  <2>4. ChecksAwaited' /\ WorkersInChecks' /\ DetachedFirst' /\ LockedFirst'
    BY <2>1
  <2>5. CertifiedFirst' /\ LargeKeptOut' /\ RecordsSurvive' /\ AcceptedStarts'
    BY <2>1
  <2>6. CutIsLast'
    BY <1>32, <2>1 DEF SignalHeard
  <2> QED BY <2>3, <2>4, <2>5, <2>6
<1>36. CASE SignalInLock
  BY <1>36 DEF SignalInLock, Signalled
<1>37. CASE SignalEscapes
  BY <1>37 DEF SignalEscapes, Signalled
<1>38. CASE SignalSwallowed
  BY <1>38 DEF SignalSwallowed, Signalled
<1>39. CASE SignalCutsJoin
  BY <1>39 DEF SignalCutsJoin, Signalled
<1>40. CASE SignalCutsShutdown
  BY <1>40 DEF SignalCutsShutdown, Signalled, Release
<1>33. CASE Kill
  BY <1>33 DEF Kill
<1>34. CASE Restart
  BY <1>34 DEF Restart, Fresh, Nothing, Senders
<1> QED BY <1>0, <1>1, <1>2, <1>3, <1>4, <1>5, <1>6, <1>7, <1>8, <1>9, <1>10, <1>11, <1>12, <1>13, <1>14, <1>15, <1>16, <1>17, <1>18, <1>19, <1>20, <1>21, <1>22, <1>23, <1>24, <1>25, <1>26, <1>27, <1>28, <1>29, <1>30, <1>31, <1>32, <1>33, <1>34, <1>35, <1>36, <1>37, <1>38, <1>39, <1>40
         DEF Next, Main, Starting, Looping, Ending, Signals

(***************************************************************************)
(* The theorems                                                            *)
(***************************************************************************)
\* The invariant holds in every state.
THEOREM StartupInvariant == Spec => []Inv
<1>1. Inv /\ [Next]_vars => Inv'
  BY StepTypes, StepSafe DEF Inv
<1> QED BY InitInv, <1>1, PTL DEF Spec

\* Type correctness of the process and its log handler.
THEOREM TypeCorrect == Spec => []TypeOK
<1>1. Inv => TypeOK
  BY DEF Inv
<1> QED BY StartupInvariant, <1>1, PTL

\* However run() ends and whenever the signal comes, no record that run() or a
\* check logged is thrown away by the process's own close of the log handler,
\* unless a signal's handler raised inside logging.shutdown.
THEOREM LogsKept == Spec => []RecordsSurvive
<1>1. Inv => RecordsSurvive
  BY DEF Inv, Safe
<1> QED BY StartupInvariant, <1>1, PTL

\* main.run never fails on a configuration validate_config accepted.
THEOREM AcceptedRun == Spec => []AcceptedStarts
<1>1. Inv => AcceptedStarts
  BY DEF Inv, Safe
<1> QED BY StartupInvariant, <1>1, PTL

\* The close at exit drops no record of a thread: it holds the lock from its
\* flush to its release, and its flush waited for every sender; what a signal's
\* handler adds after the flush is that handler's own record.
THEOREM ExitKeeps == Spec => ExitKeepsRecords
<1> DEFINE Kept == attached /\ ending' # "cut" => dropped' \subseteq dropped \cup {"signal"}
<1>1. ASSUME Inv, [Next]_vars PROVE Kept
  <2> USE DEF Inv, Safe
  <2>1. CASE LastRelease
    <3>1. flushed = "late" \/ {s \in Senders : pending[s] > 0} \subseteq {"signal"}
      BY <1>1, <2>1 DEF FlushedWhole, LastRelease, Senders
    <3> QED BY <2>1, <3>1 DEF LastRelease, Release
  <2>2. CASE ReleaseHandler
    BY <1>1, <2>2 DEF DetachedFirst, ReleaseHandler
  <2>5. CASE SignalCutsShutdown
    BY <2>5 DEF SignalCutsShutdown
  <2>3. CASE UNCHANGED vars
    BY <2>3 DEF vars, handlerVars
  <2>4. CASE Next /\ ~LastRelease /\ ~ReleaseHandler /\ ~SignalCutsShutdown
    <3>1. Logs \/ LogsAs("signal") \/ LogRaises \/ UNCHANGED handlerVars => UNCHANGED dropped
      BY DEF Logs, LogsAs, LogRaises, handlerVars
    <3>2. Attach \/ Detach \/ Flush \/ Lock \/ Fresh => UNCHANGED dropped
      BY DEF Attach, Detach, Flush, Lock, Fresh
    <3>3. /\ \A t \in Threads : Fetch(t) \/ Emit(t) => UNCHANGED dropped
          /\ \A s \in Senders : Deliver(s) => UNCHANGED dropped
      BY DEF Fetch, Emit, Deliver
    <3>4. CASE Starting
      BY <3>1, <3>2, <3>4
         DEF Starting, Refuse, Configure, ConfigMissing, ValidateSsl, StartServer,
             EnsureTopic, FindLogTopic, CreateLogTopic, AttachHandler, AnnounceLog,
             CreateClients, AnnounceSync, InitialSync, BuildPool, AnnouncePool,
             WarnLarge
    <3>5. CASE Looping \/ CollectResult \/ Finish
      BY <3>1, <3>5 DEF Looping, LoopHead, CollectLast, Wake, CollectResult, Finish
    <3>6. CASE Ending
      BY <2>4, <3>1, <3>2, <3>6
         DEF Ending, JoinExecutor, CloseClients, DetachHandler, FlushHandler,
             JoinThreads, ShutdownLogging, LastFlush
    <3>7. CASE \/ \E t \in Threads : ThreadFetches(t) \/ ThreadEmits(t)
               \/ Delivered
      BY <3>3, <3>7 DEF ThreadFetches, ThreadEmits, Delivered
    <3>8. CASE OtherCreates \/ Signals \/ Kill \/ Restart
      BY <2>4, <3>1, <3>2, <3>8
         DEF OtherCreates, Signals, SignalEarly, SignalHeard, SignalInLock,
             SignalEscapes, SignalSwallowed, SignalCutsJoin, Kill, Restart
    <3> QED BY <2>4, <3>4, <3>5, <3>6, <3>7, <3>8 DEF Next, Main
  <2> QED BY <1>1, <2>1, <2>2, <2>3, <2>4, <2>5
<1>2. ASSUME Inv, [Next]_vars PROVE [Kept]_vars
  BY <1>1, <1>2
<1> QED BY StartupInvariant, <1>2, PTL DEF Spec, ExitKeepsRecords

\* What the run about a large topic finds of one configuration holds of all:
\* main.run never reaches its loop with more partitions than the threshold.
THEOREM LargeNeverMonitored == Spec => [](settings.large => ~Up)
<1>1. Inv => (settings.large => ~Up)
  BY DEF Inv, Safe, LargeKeptOut, Up
<1> QED BY StartupInvariant, <1>1, PTL

=============================================================================
