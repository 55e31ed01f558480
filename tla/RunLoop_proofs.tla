--------------------------- MODULE RunLoop_proofs ---------------------------
(***************************************************************************)
(* Theorems about RunLoop for any number of partitions, workers and        *)
(* cycles, any threshold and every combination of faults.                  *)
(***************************************************************************)
EXTENDS RunLoop, FiniteSetTheorems, TLAPS

\* The pool agrees with itself also while a sync is due.
LoopPool ==
    Working \/ pc = "sync" =>
        /\ consumers = Range0(count)
        /\ DOMAIN streak = Range0(count)
        /\ open = Range0(count)
        /\ size = count
        /\ workers = Least(count, MaxWorkers)

\* There are futures only from their submission on, one for each partition of
\* the pool, and unfinished ones until the executor is joined, unless a signal
\* handler that raised has cut the join short.
Futures ==
    /\ pc \in {"top", "sync", "submit", "sleep", "stuck"} =>
           \A p \in AllPartitions : check[p] = "none"
    /\ pc = "collect" =>
           \A p \in AllPartitions : check[p] # "none" <=> p \in Range0(count)
    /\ pc \in {"sync", "submit"} => seq < MaxCycles
    /\ pc = "close" => Unfinished = {}
    /\ pc = "stopped" /\ (signalled => shutdown) => Unfinished = {}

\* Unless an addition was cut short the finally block finds every connection in
\* the pool, and it closes what it finds.
Listed ==
    /\ pc \in {"join", "close"} /\ size = count => open \subseteq consumers
    /\ pc = "stopped" /\ (signalled => shutdown) =>
           /\ open \cap consumers = {}
           /\ size = count => open = {}

LoopInv ==
    /\ TypeOK
    /\ LoopPool
    /\ Futures
    /\ Listed
    /\ NoUseAfterClose

USE DEF Goto, Escape, Collected, pool, series, tallies, history

\* The sizes are naturals, and there is at least one partition and one worker.
LEMMA Sizes ==
    /\ MaxPartitions \in Nat /\ MaxPartitions > 0
    /\ MaxWorkers \in Nat /\ MaxWorkers > 0
    /\ Threshold \in Nat /\ MaxCycles \in Nat /\ MaxMishaps \in Nat
  BY SizeAssumption

\* range(n) of a partition count lies within the partitions of the model.
LEMMA RangeWithin ==
    ASSUME NEW n \in 1..MaxPartitions
    PROVE  Range0(n) \subseteq AllPartitions /\ 0 \in Range0(n)
<1>1. n \in Nat /\ 0 < n /\ n <= MaxPartitions
  BY Sizes
<1>2. QED
  BY <1>1, Sizes DEF Range0, AllPartitions

\* The executor of a pool has at least one worker and at most max.workers.
LEMMA WorkersBounded ==
    ASSUME NEW n \in 1..MaxPartitions
    PROVE  Least(n, MaxWorkers) \in 1..MaxWorkers
  BY Sizes DEF Least

\* A fault leaves the tally of the other kinds alone and makes its own positive.
LEMMA HappensCounts ==
    ASSUME mishaps \in [FaultKinds -> 0..MaxMishaps],
           NEW kind \in FaultKinds, Happens(kind)
    PROVE  /\ mishaps' \in [FaultKinds -> 0..MaxMishaps]
           /\ mishaps'[kind] # 0
           /\ \A k \in FaultKinds \ {kind} : mishaps'[k] = mishaps[k]
<1>1. mishaps[kind] \in 0..MaxMishaps /\ mishaps[kind] + 1 \in 0..MaxMishaps
  BY Sizes DEF Happens
<1>2. mishaps' = [mishaps EXCEPT ![kind] = mishaps[kind] + 1]
  BY DEF Happens
<1>3. QED
  BY <1>1, <1>2, Sizes

\* The pool main.run builds before its loop satisfies the invariant.
LEMMA InitLoopInv == Init => LoopInv
<1> SUFFICES ASSUME Init
             PROVE  LoopInv
  OBVIOUS
<1>1. Unfinished = {}
  BY DEF Init, Unfinished
<1>2. LoopPool /\ Futures /\ Listed
  BY <1>1 DEF Init, LoopPool, Futures, Listed
<1>3. /\ consumers \subseteq AllPartitions /\ open \subseteq AllPartitions
      /\ DOMAIN streak \subseteq AllPartitions
      /\ \A p \in DOMAIN streak : streak[p] \in Nat
      /\ workers \in 1..MaxWorkers
  BY RangeWithin, WorkersBounded DEF Init
<1>4. /\ check \in [AllPartitions -> States] /\ failing \in [AllPartitions -> Nat]
      /\ gauge \in [Labels -> Nat] /\ mishaps \in [FaultKinds -> 0..MaxMishaps]
  BY Sizes DEF Init, States
<1>5. /\ pc \in Pcs /\ seq \in 0..MaxCycles /\ counted \in Nat /\ submitted \in Nat
      /\ atStart \in 1..MaxPartitions /\ count \in 1..MaxPartitions
      /\ size \in 1..MaxPartitions
  BY Sizes DEF Init, Pcs
<1>6. shutdown \in BOOLEAN /\ signalled \in BOOLEAN
  BY Zenon DEF Init
<1>7. TypeOK
  BY <1>3, <1>4, <1>5, <1>6, Zenon DEF TypeOK
<1>8. QED
  BY <1>1, <1>2, <1>7 DEF LoopInv, NoUseAfterClose

\* What the updates of the metrics are given exists, and they keep the types.
LEMMA CountTyped ==
    ASSUME LoopInv, NEW p \in AllPartitions, pc = "collect",
           check[p] \in {"ok", "error"},
           CountSuccess(p) \/ CountFailure(p) \/ CountBoth(p)
    PROVE  /\ DOMAIN streak' = DOMAIN streak
           /\ \A q \in DOMAIN streak' : streak'[q] \in Nat
           /\ gauge' \in [Labels -> Nat]
           /\ counted' \in Nat
<1>1. /\ DOMAIN streak = Range0(count) /\ p \in Range0(count)
      /\ \A q \in DOMAIN streak : streak[q] \in Nat
      /\ gauge \in [Labels -> Nat] /\ counted \in Nat
  BY DEF LoopInv, TypeOK, LoopPool, Futures, Working
<1>2. Label(p) \in Labels /\ streak[p] \in Nat
  BY <1>1 DEF Label, Labels
<1>3. /\ DOMAIN streak' = DOMAIN streak /\ counted' \in Nat
      /\ \A q \in DOMAIN streak : streak'[q] \in {streak[q], 0, 1, streak[p] + 1}
  BY <1>1, <1>2 DEF CountSuccess, CountFailure, CountBoth
<1>4. gauge' \in [Labels -> Nat]
  BY <1>1, <1>2 DEF CountSuccess, CountFailure, CountBoth
<1>5. QED
  BY <1>1, <1>2, <1>3, <1>4

\* An addition that is cut short adds partitions of the model, and the size it
\* reported is not that of the pool.
LEMMA CutShort ==
    ASSUME TypeOK, NEW n \in 1..MaxPartitions, AddFails(n) \/ SignalCutsAdding(n)
    PROVE  /\ \E created, stored :
                /\ created \subseteq AllPartitions /\ stored \subseteq AllPartitions
                /\ PartlyAdded(n, created, stored)
           /\ size' # count
<1>1. Added(n) \subseteq AllPartitions
  BY RangeWithin DEF Added
<1>2. CASE AddFails(n)
  <2>1. PICK created \in SUBSET Added(n) :
          /\ created # Added(n)
          /\ PartlyAdded(n, created, {p \in created : count..p \subseteq created})
    BY <1>2 DEF AddFails
  <2>2. size' # count
    BY <2>1 DEF Added, PartlyAdded
  <2>3. QED
    BY <1>1, <2>1, <2>2
<1>3. CASE SignalCutsAdding(n)
  <2>1. PICK last \in Added(n) : \E next \in count..(last + 1) :
          PartlyAdded(n, count..last, count..(next - 1))
    BY <1>3 DEF SignalCutsAdding
  <2>2. /\ last \in 0..(n - 1) /\ n \in Nat /\ count \in Nat /\ n <= MaxPartitions
        /\ MaxPartitions \in Nat
    BY Sizes DEF Added, Range0, TypeOK
  <2>3. \A next \in count..(last + 1) :
          /\ count..last \subseteq AllPartitions
          /\ count..(next - 1) \subseteq AllPartitions
    BY <2>2 DEF AllPartitions
  <2>4. size' # count
    BY <2>1 DEF Added, PartlyAdded
  <2>5. QED
    BY <2>1, <2>3, <2>4
<1>4. QED
  BY <1>2, <1>3

\* Every step keeps every type; that a streak exists for each partition that
\* is collected is what LoopPool and Futures are needed for.
LEMMA NextTypeOK == LoopInv /\ [Next]_vars => TypeOK'
<1> SUFFICES ASSUME LoopInv, [Next]_vars
             PROVE  TypeOK'
  OBVIOUS
<1>t. TypeOK
  BY DEF LoopInv
<1>m. /\ \A kind \in FaultKinds :
             Happens(kind) => mishaps' \in [FaultKinds -> 0..MaxMishaps]
      /\ {"sync", "add", "log", "reentry"} = FaultKinds
  BY <1>t, HappensCounts DEF TypeOK, FaultKinds
<1> USE <1>t DEF Pcs
<1>1. CASE EnterCycle \/ LeaveLoop \/ NoSync
  BY <1>1 DEF EnterCycle, LeaveLoop, NoSync, TypeOK
<1>2. ASSUME NEW n \in 1..MaxPartitions, UpdatePool(n)
      PROVE  TypeOK'
  <2>1. /\ consumers' \subseteq AllPartitions /\ open' \subseteq AllPartitions
        /\ workers' \in 1..MaxWorkers
    BY <1>2, RangeWithin, WorkersBounded DEF UpdatePool, Kept
  <2>2. DOMAIN streak = Range0(count)
    BY <1>2 DEF UpdatePool, LoopPool, LoopInv
  <2>3. DOMAIN streak' \subseteq AllPartitions /\ \A p \in DOMAIN streak' : streak'[p] \in Nat
    BY <1>2, <2>2, RangeWithin DEF UpdatePool, Kept, TypeOK
  <2>4. failing' \in [AllPartitions -> Nat]
    BY <1>2 DEF UpdatePool, TypeOK
  <2>5. QED
    BY <1>2, <2>1, <2>3, <2>4 DEF UpdatePool, TypeOK
<1>3. ASSUME NEW n \in 1..MaxPartitions, AddFails(n) \/ SignalCutsAdding(n)
      PROVE  TypeOK'
  <2>1. PICK created, stored :
          /\ created \subseteq AllPartitions /\ stored \subseteq AllPartitions
          /\ PartlyAdded(n, created, stored)
    BY <1>3, CutShort
  <2>2. DOMAIN streak = Range0(count) /\ Range0(count) \subseteq AllPartitions
    BY <1>3, RangeWithin DEF AddFails, SignalCutsAdding, LoopPool, LoopInv, TypeOK
  <2>3. /\ consumers' \subseteq AllPartitions /\ open' \subseteq AllPartitions
        /\ DOMAIN streak' \subseteq AllPartitions
        /\ size' \in 1..MaxPartitions
    BY <2>1, <2>2 DEF PartlyAdded, TypeOK
  <2>4. \A p \in DOMAIN streak' : streak'[p] \in Nat
    BY <2>1, <2>2 DEF PartlyAdded, TypeOK
  <2>5. QED
    BY <1>3, <1>m, <2>3, <2>4 DEF AddFails, SignalCutsAdding, HandlerFails, TypeOK
<1>4. CASE Submit
  <2>1. seq' \in 0..MaxCycles
    BY <1>4, Sizes DEF Submit, Futures, LoopInv, TypeOK
  <2>2. check' \in [AllPartitions -> States] /\ submitted' \in Nat
    BY <1>4 DEF Submit, States, TypeOK
  <2>3. QED
    BY <1>4, <2>1, <2>2 DEF Submit, TypeOK
<1>5. ASSUME NEW p \in AllPartitions, Collected(p)
      PROVE  check' \in [AllPartitions -> States]
  BY <1>5 DEF States, TypeOK
<1>6. ASSUME NEW p \in AllPartitions, Collect(p)
      PROVE  TypeOK'
  <2>1. CountSuccess(p) \/ CountFailure(p) \/ CountBoth(p)
    BY <1>6 DEF Collect
  <2>2. check[p] \in {"ok", "error"} /\ pc = "collect"
    BY <1>6 DEF Collect
  <2>3. QED
    BY <1>5, <1>6, <2>1, <2>2, CountTyped DEF Collect, TypeOK
<1>7. ASSUME NEW p \in AllPartitions, CollectRaises(p)
      PROVE  TypeOK'
  <2>1. CountSuccess(p) \/ CountFailure(p) \/ CountBoth(p)
    BY <1>7 DEF CollectRaises
  <2>2. check[p] \in {"ok", "error"} /\ pc = "collect"
    BY <1>7 DEF CollectRaises
  <2>3. QED
    BY <1>5, <1>7, <1>m, <2>1, <2>2, CountTyped DEF CollectRaises, TypeOK
<1>8. ASSUME NEW p \in AllPartitions, SignalSwallowed(p)
      PROVE  TypeOK'
  <2>1. CountSuccess(p) \/ CountFailure(p) \/ CountBoth(p)
    BY <1>8 DEF SignalSwallowed
  <2>2. check[p] \in {"ok", "error"} /\ pc = "collect"
    BY <1>8 DEF SignalSwallowed
  <2>3. QED
    BY <1>5, <1>8, <1>m, <2>1, <2>2, CountTyped
       DEF SignalSwallowed, HandlerRaises, HandlerFails, TypeOK
<1>9. CASE EndCycle
  <2>1. check' \in [AllPartitions -> States]
    BY <1>9 DEF EndCycle, States
  <2>2. QED
    BY <1>9, <2>1 DEF EndCycle, TypeOK
<1>10. CASE Wake \/ Join \/ Close \/ Signal
  BY <1>10 DEF Wake, Join, Close, Signal, TypeOK
<1>11. CASE SyncRaises \/ LogRaises
  BY <1>11, <1>m DEF SyncRaises, LogRaises, TypeOK
<1>12. CASE SignalEscapes \/ SignalAtRegistry \/ SignalInLock \/ SignalCutsCleanup
  BY <1>12, <1>m
     DEF SignalEscapes, SignalAtRegistry, SignalInLock, SignalCutsCleanup,
         HandlerRaises, HandlerFails, TypeOK
<1>13. ASSUME NEW p \in AllPartitions, Worker(p)
       PROVE  TypeOK'
  <2>1. check' \in [AllPartitions -> States] /\ failing' \in [AllPartitions -> Nat]
    BY <1>13 DEF Worker, Start, Finish, States, TypeOK
  <2>2. QED
    BY <1>13, <2>1 DEF Worker, Start, Finish, TypeOK
<1>14. CASE UNCHANGED vars
  BY <1>14 DEF vars, TypeOK
<1>15. QED
  BY <1>1, <1>2, <1>3, <1>4, <1>6, <1>7, <1>8, <1>9, <1>10, <1>11, <1>12,
     <1>13, <1>14 DEF Next, Main, Interrupt

\* The pool is rebuilt as a whole or left for the finally block.
LEMMA NextLoopPool == LoopInv /\ [Next]_vars => LoopPool'
<1> SUFFICES ASSUME LoopInv, [Next]_vars
             PROVE  LoopPool'
  OBVIOUS
<1> USE DEF LoopInv, LoopPool, Working
<1>1. CASE EnterCycle \/ LeaveLoop \/ NoSync \/ SyncRaises \/ Submit \/ EndCycle \/ Wake
  BY <1>1 DEF EnterCycle, LeaveLoop, NoSync, SyncRaises, Submit, EndCycle, Wake
<1>2. ASSUME NEW n \in 1..MaxPartitions, UpdatePool(n)
      PROVE  LoopPool'
  BY <1>2 DEF UpdatePool, Kept
<1>3. ASSUME NEW n \in 1..MaxPartitions, AddFails(n) \/ SignalCutsAdding(n)
      PROVE  LoopPool'
  BY <1>3 DEF AddFails, SignalCutsAdding
<1>4. ASSUME NEW p \in AllPartitions, Collect(p) \/ CollectRaises(p) \/ SignalSwallowed(p)
      PROVE  LoopPool'
  <2>1. CountSuccess(p) \/ CountFailure(p) \/ CountBoth(p)
    BY <1>4 DEF Collect, CollectRaises, SignalSwallowed
  <2>2. DOMAIN streak' = DOMAIN streak
    BY <2>1 DEF CountSuccess, CountFailure, CountBoth
  <2>3. QED
    BY <1>4, <2>2
       DEF Collect, CollectRaises, SignalSwallowed, HandlerRaises, HandlerFails
<1>5. CASE LogRaises \/ Join \/ Close
  BY <1>5 DEF LogRaises, Join, Close
<1>6. CASE Signal \/ SignalEscapes \/ SignalAtRegistry \/ SignalInLock \/ SignalCutsCleanup
  BY <1>6
     DEF Signal, SignalEscapes, SignalAtRegistry, SignalInLock,
         SignalCutsCleanup, HandlerRaises, HandlerFails
<1>7. ASSUME NEW p \in AllPartitions, Worker(p)
      PROVE  LoopPool'
  BY <1>7 DEF Worker, Start, Finish
<1>8. CASE UNCHANGED vars
  BY <1>8 DEF vars
<1>9. QED
  BY <1>1, <1>2, <1>3, <1>4, <1>5, <1>6, <1>7, <1>8 DEF Next, Main, Interrupt

\* A result is waited for before the next cycle, and the join waits for what an
\* exception left in flight.
LEMMA NextFutures == LoopInv /\ [Next]_vars => Futures'
<1> SUFFICES ASSUME LoopInv, [Next]_vars
             PROVE  Futures'
  OBVIOUS
<1>t. TypeOK /\ mishaps \in [FaultKinds -> 0..MaxMishaps] /\ "log" \in FaultKinds
  BY DEF LoopInv, TypeOK, FaultKinds
<1>l. Happens("log") => mishaps'["log"] # 0
  BY <1>t, HappensCounts
<1> USE DEF LoopInv, Futures
<1>1. CASE EnterCycle \/ LeaveLoop \/ NoSync \/ SyncRaises \/ Wake \/ LogRaises
  BY <1>1 DEF EnterCycle, LeaveLoop, NoSync, SyncRaises, Wake, LogRaises
<1>2. ASSUME NEW n \in 1..MaxPartitions, UpdatePool(n) \/ AddFails(n) \/ SignalCutsAdding(n)
      PROVE  Futures'
  BY <1>2 DEF UpdatePool, AddFails, SignalCutsAdding, HandlerFails
<1>3. CASE Submit
  BY <1>3 DEF Submit
<1>4. ASSUME NEW p \in AllPartitions, Collect(p) \/ CollectRaises(p) \/ SignalSwallowed(p)
      PROVE  Futures'
  <2>1. /\ pc = "collect" /\ pc' \in {"collect", "join"}
        /\ check[p] \in {"ok", "error"} /\ Collected(p)
        /\ count' = count
    BY <1>4 DEF Collect, CollectRaises, SignalSwallowed, HandlerRaises, HandlerFails
  <2>2. \A q \in AllPartitions : check'[q] = "none" <=> check[q] = "none"
    BY <2>1, <1>t DEF TypeOK
  <2>3. QED
    BY <2>1, <2>2
<1>5. CASE EndCycle
  BY <1>5 DEF EndCycle
<1>6. CASE Join \/ Close
  <2>1. Unfinished = {} /\ check' = check
    BY <1>6 DEF Join, Joined, Close
  <2>2. QED
    BY <1>6, <2>1 DEF Join, Close, Unfinished
<1>7. CASE Signal \/ SignalEscapes \/ SignalAtRegistry \/ SignalInLock
  BY <1>7, <1>l
     DEF Signal, Alive, SignalEscapes, SignalAtRegistry, SignalInLock,
         HandlerRaises, HandlerFails, Unfinished
<1>8. CASE SignalCutsCleanup
  BY <1>8, <1>l DEF SignalCutsCleanup, HandlerRaises, HandlerFails
<1>9. ASSUME NEW p \in AllPartitions, Worker(p)
      PROVE  Futures'
  <2>1. /\ UNCHANGED <<pc, shutdown, signalled, count, seq, mishaps>>
        /\ check[p] \in {"queued", "running"}
        /\ check' \in {[check EXCEPT ![p] = s] : s \in {"running", "ok", "error"}}
    BY <1>9 DEF Worker, Start, Finish
  <2>2. p \in Unfinished /\ pc \notin {"top", "sync", "submit", "sleep", "stuck"}
    BY <2>1 DEF Unfinished
  <2>3. \A q \in AllPartitions : check'[q] = "none" <=> check[q] = "none"
    BY <2>1, <1>t DEF TypeOK
  <2>4. QED
    BY <2>1, <2>2, <2>3
<1>10. CASE UNCHANGED vars
  BY <1>10 DEF vars, Unfinished
<1>11. QED
  BY <1>1, <1>2, <1>3, <1>4, <1>5, <1>6, <1>7, <1>8, <1>9, <1>10
     DEF Next, Main, Interrupt

\* The finally block starts with a pool that agrees with itself, or after an
\* addition that was cut short.
LEMMA NextListed == LoopInv /\ [Next]_vars => Listed'
<1> SUFFICES ASSUME LoopInv, [Next]_vars
             PROVE  Listed'
  OBVIOUS
<1> USE DEF LoopInv, Listed
<1>1. CASE EnterCycle \/ LeaveLoop \/ NoSync \/ Submit \/ EndCycle \/ Wake
  BY <1>1
     DEF EnterCycle, LeaveLoop, NoSync, Submit, EndCycle, Wake, LoopPool, Working
<1>2. CASE SyncRaises \/ LogRaises
  BY <1>2 DEF SyncRaises, LogRaises, LoopPool, Working
<1>3. ASSUME NEW n \in 1..MaxPartitions, UpdatePool(n) \/ AddFails(n) \/ SignalCutsAdding(n)
      PROVE  Listed'
  BY <1>3, CutShort DEF UpdatePool, AddFails, SignalCutsAdding, HandlerFails
<1>4. ASSUME NEW p \in AllPartitions, Collect(p) \/ CollectRaises(p) \/ SignalSwallowed(p)
      PROVE  Listed'
  BY <1>4
     DEF Collect, CollectRaises, SignalSwallowed, HandlerRaises, HandlerFails,
         LoopPool, Working
<1>5. CASE Join \/ Close
  BY <1>5 DEF Join, Close
<1>6. CASE Signal \/ SignalEscapes \/ SignalAtRegistry \/ SignalInLock \/ SignalCutsCleanup
  BY <1>6
     DEF Signal, Alive, SignalEscapes, SignalAtRegistry, SignalInLock,
         SignalCutsCleanup, HandlerRaises, HandlerFails,
         LoopPool, Working
<1>7. ASSUME NEW p \in AllPartitions, Worker(p)
      PROVE  Listed'
  BY <1>7 DEF Worker, Start, Finish
<1>8. CASE UNCHANGED vars
  BY <1>8 DEF vars
<1>9. QED
  BY <1>1, <1>2, <1>3, <1>4, <1>5, <1>6, <1>7, <1>8 DEF Next, Main, Interrupt

\* Consumers are removed where no future is left, and closed after the join.
LEMMA NextNoUseAfterClose == LoopInv /\ [Next]_vars => NoUseAfterClose'
<1> SUFFICES ASSUME LoopInv, [Next]_vars
             PROVE  NoUseAfterClose'
  OBVIOUS
<1>t. check \in [AllPartitions -> States]
  BY DEF LoopInv, TypeOK
<1> USE DEF LoopInv, NoUseAfterClose, Unfinished
<1>1. CASE EnterCycle \/ LeaveLoop \/ NoSync \/ SyncRaises \/ Wake \/ LogRaises \/ Join
  BY <1>1 DEF EnterCycle, LeaveLoop, NoSync, SyncRaises, Wake, LogRaises, Join
<1>2. ASSUME NEW n \in 1..MaxPartitions, UpdatePool(n) \/ AddFails(n) \/ SignalCutsAdding(n)
      PROVE  NoUseAfterClose'
  BY <1>2
     DEF UpdatePool, AddFails, SignalCutsAdding, HandlerFails, PartlyAdded, Futures
<1>3. CASE Submit
  BY <1>3 DEF Submit, LoopPool, Working
<1>4. ASSUME NEW p \in AllPartitions, Collect(p) \/ CollectRaises(p) \/ SignalSwallowed(p)
      PROVE  NoUseAfterClose'
  BY <1>4, <1>t
     DEF Collect, CollectRaises, SignalSwallowed, HandlerRaises, HandlerFails
<1>5. CASE EndCycle
  BY <1>5 DEF EndCycle
<1>6. CASE Close \/ SignalCutsCleanup
  BY <1>6 DEF Close, SignalCutsCleanup, HandlerRaises, HandlerFails, Futures
<1>7. CASE Signal \/ SignalEscapes \/ SignalAtRegistry \/ SignalInLock
  BY <1>7
     DEF Signal, SignalEscapes, SignalAtRegistry, SignalInLock, HandlerRaises,
         HandlerFails
<1>8. ASSUME NEW p \in AllPartitions, Worker(p)
      PROVE  NoUseAfterClose'
  BY <1>8, <1>t DEF Worker, Start, Finish
<1>9. CASE UNCHANGED vars
  BY <1>9 DEF vars
<1>10. QED
  BY <1>1, <1>2, <1>3, <1>4, <1>5, <1>6, <1>7, <1>8, <1>9 DEF Next, Main, Interrupt

\* The invariant of the loop, on which the theorems rest.
THEOREM LoopInvariant == Spec => []LoopInv
<1>1. LoopInv /\ [Next]_vars => LoopInv'
  BY NextTypeOK, NextLoopPool, NextFutures, NextListed, NextNoUseAfterClose
     DEF LoopInv
<1>2. QED
  BY InitLoopInv, <1>1, PTL DEF Spec

\* Types of the loop, of the pool, of futures and of the metrics: also, a
\* result that is collected always meets its streak, and at most max.workers
\* threads run.
THEOREM TypeCorrect == Spec => []TypeOK
<1>1. LoopInv => TypeOK
  BY DEF LoopInv
<1>2. QED
  BY LoopInvariant, <1>1, PTL

\* No check runs or waits with a consumer that is closed.
THEOREM ConsumersStayOpen == Spec => []NoUseAfterClose
<1>1. LoopInv => NoUseAfterClose
  BY DEF LoopInv
<1>2. QED
  BY LoopInvariant, <1>1, PTL

\* Everything the loop keeps per partition agrees with the partition count.
THEOREM PoolConsistent == Spec => []PoolAgrees
<1>1. LoopInv => PoolAgrees
  BY DEF LoopInv, LoopPool, PoolAgrees
<1>2. QED
  BY LoopInvariant, <1>1, PTL

\* When the process stops every check has ended and every consumer of the pool is
\* closed, whatever raised before, unless a handler that raised cut the cleanup.
THEOREM CleanStop == Spec => []AllClosedAtStop
<1>1. LoopInv => AllClosedAtStop
  BY DEF LoopInv, Listed, Futures, AllClosedAtStop
<1>2. QED
  BY LoopInvariant, <1>1, PTL

-----------------------------------------------------------------------------
(***************************************************************************)
(* The refinement of CheckCycle.  A cycle begins where no future is left   *)
(* (Futures), and the executor in use is never wider than max.workers.     *)
(***************************************************************************)
\* What CheckCycle sees of a future, before and after a step.
LEMMA TaskSeen ==
    ASSUME NEW p \in AllPartitions
    PROVE  /\ p \in Unfinished <=> check[p] \in {"queued", "running"}
           /\ (p \in Unfinished)' <=> check'[p] \in {"queued", "running"}
  BY DEF Unfinished

\* The instance counts as the loop does.
LEMMA SameCardinality == \A S : Cycle!Cardinality(S) = Cardinality(S)
<1>1. \A S : Cycle!IsFiniteSet(S) = IsFiniteSet(S)
  BY Zenon DEF Cycle!IsFiniteSet, IsFiniteSet
<1>2. QED
  BY <1>1, Zenon DEF Cycle!Cardinality, Cardinality

\* Each step of the loop is a step of CheckCycle or leaves its tasks alone.
LEMMA StepKeepsCycle == LoopInv /\ [Next]_vars => [Cycle!Next]_(Cycle!vars)
<1> SUFFICES ASSUME LoopInv, [Next]_vars
             PROVE  [Cycle!Next]_(Cycle!vars)
  OBVIOUS
<1>t. /\ check \in [AllPartitions -> States] /\ seq \in Nat
      /\ workers \in 1..MaxWorkers
  BY Sizes DEF LoopInv, TypeOK
<1>u. ASSUME seq' = seq,
             \A p \in AllPartitions :
                \/ check'[p] = check[p]
                \/ {check[p], check'[p]} \cap {"queued", "running"} = {}
      PROVE  UNCHANGED Cycle!vars
  <2>1. \A p \in AllPartitions :
          (IF p \in Unfinished THEN check[p] ELSE "idle")'
              = IF p \in Unfinished THEN check[p] ELSE "idle"
    BY <1>u, TaskSeen
  <2>2. QED
    BY <1>u, <2>1 DEF Cycle!vars
<1>1. CASE Submit
  <2>1. /\ \A p \in AllPartitions : check[p] = "none"
        /\ seq < MaxCycles /\ seq' = seq + 1
        /\ \A p \in AllPartitions :
              check'[p] = IF p \in Range0(count) THEN "queued" ELSE "none"
    BY <1>1 DEF Submit, LoopInv, Futures
  <2>2. Range0(count) \cap AllPartitions \in SUBSET AllPartitions
    OBVIOUS
  <2>3. Cycle!Submit
    BY <2>1, <2>2, TaskSeen DEF Cycle!Submit
  <2>4. QED
    BY <2>3 DEF Cycle!Next
<1>2. ASSUME NEW p \in AllPartitions, Start(p)
      PROVE  Cycle!Next
  <2>1. /\ check[p] = "queued" /\ check' = [check EXCEPT ![p] = "running"]
        /\ \A q \in AllPartitions : q < p => check[q] # "queued"
        /\ Cardinality(Running) < workers /\ seq' = seq
    BY <1>2 DEF Start
  <2>2. Cycle!Running = Running
    BY TaskSeen DEF Cycle!Running, Running
  <2>3. Cardinality(Running) < MaxWorkers
    <3>1. IsFiniteSet(AllPartitions)
      BY Sizes, FS_Interval DEF AllPartitions
    <3>2. Cardinality(Running) \in Nat
      BY <3>1, FS_Subset, FS_CardinalityType DEF Running
    <3>3. QED
      BY <1>t, <2>1, <3>2, Sizes
  <2>4. /\ check'[p] = "running"
        /\ \A q \in AllPartitions \ {p} : check'[q] = check[q]
    BY <1>t, <2>1
  <2>5. \A q \in AllPartitions :
          /\ q < p => (IF q \in Unfinished THEN check[q] ELSE "idle") # "queued"
          /\ (IF q \in Unfinished THEN check[q] ELSE "idle")'
                 = IF q = p THEN "running"
                   ELSE IF q \in Unfinished THEN check[q] ELSE "idle"
    BY <2>1, <2>4, TaskSeen
  <2>6. p \in Unfinished
    BY <2>1, TaskSeen
  <2>7. Cycle!Start(p)
    BY <2>1, <2>2, <2>3, <2>5, <2>6, SameCardinality DEF Cycle!Start
  <2>8. QED
    BY <2>7 DEF Cycle!Next
<1>3. ASSUME NEW p \in AllPartitions, Finish(p)
      PROVE  Cycle!Next
  <2>1. /\ check[p] = "running" /\ seq' = seq
        /\ check'[p] \in {"ok", "error"}
        /\ \A q \in AllPartitions \ {p} : check'[q] = check[q]
    BY <1>3, <1>t DEF Finish
  <2>2. Cycle!Finish(p)
    BY <2>1, TaskSeen DEF Cycle!Finish
  <2>3. QED
    BY <2>2 DEF Cycle!Next
<1>4. ASSUME NEW p \in AllPartitions, Collect(p) \/ CollectRaises(p) \/ SignalSwallowed(p)
      PROVE  UNCHANGED Cycle!vars
  <2>1. /\ check[p] \in {"ok", "error"} /\ Collected(p) /\ seq' = seq
    BY <1>4 DEF Collect, CollectRaises, SignalSwallowed, HandlerRaises, HandlerFails
  <2>2. QED
    BY <1>t, <1>u, <2>1
<1>5. CASE EndCycle
  BY <1>5, <1>u DEF EndCycle, AllCollected
<1>6. CASE EnterCycle \/ LeaveLoop \/ NoSync \/ SyncRaises \/ Wake \/ LogRaises \/ Join \/ Close
  BY <1>6, <1>u
     DEF EnterCycle, LeaveLoop, NoSync, SyncRaises, Wake, LogRaises, Join, Close
<1>7. ASSUME NEW n \in 1..MaxPartitions, UpdatePool(n) \/ AddFails(n) \/ SignalCutsAdding(n)
      PROVE  UNCHANGED Cycle!vars
  BY <1>7, <1>u DEF UpdatePool, AddFails, SignalCutsAdding, HandlerFails
<1>8. CASE Signal \/ SignalEscapes \/ SignalAtRegistry \/ SignalInLock \/ SignalCutsCleanup
  BY <1>8, <1>u
     DEF Signal, SignalEscapes, SignalAtRegistry, SignalInLock,
         SignalCutsCleanup, HandlerRaises, HandlerFails
<1>9. CASE UNCHANGED vars
  BY <1>9, <1>u DEF vars
<1>10. QED
  BY <1>1, <1>2, <1>3, <1>4, <1>5, <1>6, <1>7, <1>8, <1>9
     DEF Next, Main, Worker, Interrupt

\* The loop implements CheckCycle: through any syncs, exceptions and signals no
\* partition is checked twice at once.
THEOREM CycleKept == Spec => KeepsCycle
<1>1. Init => Cycle!Init
  BY DEF Init, Cycle!Init, Unfinished
<1>2. QED
  BY <1>1, LoopInvariant, StepKeepsCycle, PTL DEF Spec, KeepsCycle, Cycle!Spec

-----------------------------------------------------------------------------
\* Between a result and its collection the streak lags the history by that
\* result.  A log call that raised may have counted a failure too many; per
\* partition the gauge follows the streak at the collection.
StreakInv ==
    Working \/ pc = "sync" => \A p \in Range0(count) :
        /\ check[p] \in {"none", "queued", "running", "counted"} => failing[p] <= streak[p]
        /\ check[p] = "ok" => failing[p] = 0
        /\ check[p] = "error" => failing[p] <= streak[p] + 1
        /\ mishaps["log"] = 0 =>
               failing[p] = IF check[p] = "ok" THEN 0
                            ELSE IF check[p] = "error" THEN streak[p] + 1
                            ELSE streak[p]
        /\ atStart <= Threshold /\ (check[p] = "counted" \/ pc = "sleep") =>
               gauge[p] = streak[p]

\* One collection, whatever it counts, settles the gauge of its partition and
\* leaves the others alone.
LEMMA CountedAlone ==
    ASSUME LoopInv, pc = "collect", NEW p \in Range0(count),
           CountSuccess(p) \/ CountFailure(p) \/ CountBoth(p)
    PROVE  /\ CountSuccess(p) => streak'[p] = 0
           /\ CountFailure(p) => streak'[p] = streak[p] + 1
           /\ CountBoth(p) => streak'[p] = 1
           /\ \A q \in Range0(count) \ {p} : streak'[q] = streak[q]
           /\ atStart <= Threshold =>
                  /\ gauge'[p] = streak'[p]
                  /\ \A q \in Range0(count) \ {p} : gauge'[q] = gauge[q]
<1>1. /\ gauge \in [Labels -> Nat] /\ DOMAIN streak = Range0(count)
      /\ \A q \in DOMAIN streak : streak[q] \in Nat
      /\ Range0(count) \subseteq AllPartitions
  BY RangeWithin DEF LoopInv, TypeOK, LoopPool, Working
<1>2. Label(p) \in Labels /\ (atStart <= Threshold => Label(p) = p)
      /\ AllPartitions \subseteq Labels
  BY <1>1 DEF Label, Labels
<1>3. CASE CountSuccess(p)
  BY <1>1, <1>2, <1>3 DEF CountSuccess, CountFailure, CountBoth
<1>4. CASE CountFailure(p)
  BY <1>1, <1>2, <1>4 DEF CountSuccess, CountFailure, CountBoth
<1>5. CASE CountBoth(p)
  BY <1>1, <1>2, <1>5 DEF CountSuccess, CountFailure, CountBoth
<1>6. QED
  BY <1>3, <1>4, <1>5

\* Collecting a result, also when a log call or the signal handler raises in the
\* middle of it, hides no failure; without such a call the streak is exact.
LEMMA CollectStreak ==
    ASSUME LoopInv, StreakInv, NEW p \in AllPartitions,
           Collect(p) \/ CollectRaises(p) \/ SignalSwallowed(p)
    PROVE  StreakInv'
<1>1. /\ pc = "collect" /\ pc' \in {"collect", "join"}
      /\ check[p] \in {"ok", "error"}
      /\ check' = [check EXCEPT ![p] = "counted"]
      /\ UNCHANGED <<count, atStart, failing>>
  BY DEF Collect, CollectRaises, SignalSwallowed, HandlerRaises, HandlerFails
<1>2. /\ check \in [AllPartitions -> States] /\ failing \in [AllPartitions -> Nat]
      /\ DOMAIN streak = Range0(count) /\ Range0(count) \subseteq AllPartitions
      /\ \A q \in DOMAIN streak : streak[q] \in Nat
      /\ p \in Range0(count)
      /\ mishaps \in [FaultKinds -> 0..MaxMishaps] /\ "log" \in FaultKinds
  BY <1>1, RangeWithin DEF LoopInv, TypeOK, LoopPool, Futures, Working, FaultKinds
<1>3. CountSuccess(p) \/ CountFailure(p) \/ CountBoth(p)
  BY DEF Collect, CollectRaises, SignalSwallowed
<1>4. mishaps'["log"] = 0 => Collect(p) /\ mishaps' = mishaps
  BY <1>2, HappensCounts
     DEF Collect, CollectRaises, SignalSwallowed, HandlerRaises, HandlerFails
<1>5. /\ check[p] = "ok" => failing[p] = 0
      /\ check[p] = "error" => failing[p] <= streak[p] + 1
      /\ check[p] = "error" /\ mishaps["log"] = 0 => failing[p] = streak[p] + 1
  BY <1>1, <1>2 DEF StreakInv, Working
<1>6. /\ streak[p] \in Nat /\ streak'[p] \in {0, 1, streak[p] + 1}
      /\ check[p] = "error" => streak'[p] = streak[p] + 1
      /\ Collect(p) /\ check[p] = "ok" => streak'[p] = 0
  BY <1>1, <1>2, <1>3, CountedAlone DEF Collect, CollectRaises, SignalSwallowed
<1>7. failing[p] <= streak'[p] /\ (mishaps'["log"] = 0 => failing[p] = streak'[p])
  BY <1>1, <1>4, <1>5, <1>6
<1>8. \A q \in Range0(count) \ {p} :
        streak'[q] = streak[q] /\ (atStart <= Threshold => gauge'[q] = gauge[q])
  BY <1>1, <1>2, <1>3, CountedAlone
<1>9. atStart <= Threshold => gauge'[p] = streak'[p]
  BY <1>1, <1>2, <1>3, CountedAlone
<1>10. \A q \in Range0(count) \ {p} : check'[q] = check[q]
  BY <1>1, <1>2
<1>11. QED
  BY <1>1, <1>2, <1>4, <1>7, <1>8, <1>9, <1>10 DEF StreakInv, Working

\* Every step keeps the streaks true, or leaves the loop.
LEMMA NextStreakInv == LoopInv /\ StreakInv /\ [Next]_vars => StreakInv'
<1> SUFFICES ASSUME LoopInv, StreakInv, [Next]_vars, (Working \/ pc = "sync")'
             PROVE  StreakInv'
  BY DEF StreakInv
<1>t. /\ TypeOK /\ mishaps \in [FaultKinds -> 0..MaxMishaps]
      /\ {"add", "log", "sync", "reentry"} = FaultKinds
      /\ Range0(count) \subseteq AllPartitions
      /\ check \in [AllPartitions -> States] /\ failing \in [AllPartitions -> Nat]
      /\ \A p \in DOMAIN streak : streak[p] \in Nat
  BY RangeWithin DEF LoopInv, TypeOK, FaultKinds
<1>1. CASE EnterCycle \/ NoSync \/ Wake
  BY <1>1 DEF EnterCycle, NoSync, Wake, StreakInv, Working
<1>2. ASSUME NEW n \in 1..MaxPartitions, UpdatePool(n)
      PROVE  StreakInv'
  <2>1. \A p \in AllPartitions : check[p] = "none" /\ check'[p] = "none"
    BY <1>2 DEF UpdatePool, LoopInv, Futures
  <2>2. pc = "sync" /\ pc' = "submit" /\ mishaps' = mishaps /\ count' = n
    BY <1>2 DEF UpdatePool
  <2>3. \A p \in Range0(count) :
          failing[p] <= streak[p] /\ (mishaps["log"] = 0 => failing[p] = streak[p])
    BY <1>t, <2>1, <2>2 DEF StreakInv
  <2>4. \A p \in Range0(n) :
          failing'[p] <= streak'[p] /\ (mishaps["log"] = 0 => failing'[p] = streak'[p])
    BY <1>2, <2>3, RangeWithin DEF UpdatePool, Kept
  <2>5. QED
    BY <2>1, <2>2, <2>4, RangeWithin DEF StreakInv
<1>3. CASE Submit
  <2>1. \A p \in Range0(count) : check[p] = "none" /\ check'[p] = "queued"
    BY <1>3, <1>t DEF Submit, LoopInv, Futures
  <2>2. QED
    BY <1>3, <2>1 DEF Submit, StreakInv, Working
<1>4. ASSUME NEW p \in AllPartitions, Collect(p) \/ CollectRaises(p) \/ SignalSwallowed(p)
      PROVE  StreakInv'
  BY <1>4, CollectStreak
<1>5. CASE EndCycle
  <2>1. \A p \in Range0(count) : check[p] = "counted" /\ check'[p] = "none"
    BY <1>5, <1>t DEF EndCycle, AllCollected, LoopInv, Futures
  <2>2. QED
    BY <1>5, <2>1 DEF EndCycle, StreakInv, Working
<1>6. CASE Signal
  BY <1>6 DEF Signal, StreakInv, Working
<1>7. ASSUME NEW p \in AllPartitions, Worker(p)
      PROVE  StreakInv'
  <2>1. /\ UNCHANGED <<pc, count, atStart, streak, gauge, mishaps>>
        /\ check[p] \in {"queued", "running"}
    BY <1>7 DEF Worker, Start, Finish
  <2>2. pc # "sleep" /\ DOMAIN streak = Range0(count)
    BY <2>1 DEF LoopInv, Futures, LoopPool, Working
  <2>3. \A q \in AllPartitions \ {p} : check'[q] = check[q] /\ failing'[q] = failing[q]
    BY <1>7, <1>t DEF Worker, Start, Finish
  <2>4. \/ check'[p] = "running" /\ failing'[p] = failing[p]
        \/ check'[p] = "ok" /\ failing'[p] = 0
        \/ check'[p] = "error" /\ failing'[p] = failing[p] + 1
    BY <1>7, <1>t DEF Worker, Start, Finish
  <2>5. QED
    BY <1>t, <2>1, <2>2, <2>3, <2>4 DEF StreakInv, Working
<1>8. CASE UNCHANGED vars
  BY <1>8 DEF vars, StreakInv, Working
<1>9. CASE LeaveLoop \/ SyncRaises \/ Join \/ Close
  BY <1>9 DEF LeaveLoop, SyncRaises, Join, Close, Working
<1>10. CASE LogRaises \/ SignalEscapes \/ SignalInLock \/ SignalCutsCleanup
  BY <1>10
     DEF LogRaises, SignalEscapes, SignalInLock, SignalCutsCleanup, HandlerRaises,
         HandlerFails, Working
<1>11. ASSUME NEW n \in 1..MaxPartitions, AddFails(n) \/ SignalCutsAdding(n)
       PROVE  FALSE
  BY <1>11 DEF AddFails, SignalCutsAdding, Working
<1>12. CASE SignalAtRegistry
  <2>1. mishaps'["log"] # 0
    BY <1>12, <1>t, HappensCounts DEF SignalAtRegistry, HandlerRaises, HandlerFails
  <2>2. pc = "submit" /\ UNCHANGED <<pc, count, atStart, check, streak, gauge, failing>>
    BY <1>12 DEF SignalAtRegistry, HandlerRaises, HandlerFails
  <2>3. QED
    BY <2>1, <2>2 DEF StreakInv, Working
<1>13. QED
  BY <1>1, <1>2, <1>3, <1>4, <1>5, <1>6, <1>7, <1>8, <1>9, <1>10, <1>11, <1>12
     DEF Next, Main, Interrupt

\* After each cycle the streaks tell how many checks of a partition failed in a
\* row, or more if a log call raised, and the per-partition gauges show them.
THEOREM TrueStreaks == Spec => []StreakIsTrue
<1>1. Init => StreakInv
  BY RangeWithin DEF Init, StreakInv, Range0
<1>2. LoopInv /\ StreakInv => StreakIsTrue
  <2> SUFFICES ASSUME LoopInv, StreakInv, pc = "sleep"
               PROVE  StreakIsTrue
    BY DEF StreakIsTrue
  <2>1. /\ \A p \in Range0(count) : check[p] = "none"
        /\ \A p \in Range0(count) : streak[p] \in Nat /\ failing[p] \in Nat
    BY RangeWithin DEF LoopInv, Futures, TypeOK, LoopPool, Working
  <2>2. QED
    BY <2>1 DEF StreakInv, StreakIsTrue, Working
<1>3. QED
  BY LoopInvariant, NextStreakInv, <1>1, <1>2, PTL DEF Spec

\* Checks that were submitted and whose result is not counted yet.
Due == {p \in AllPartitions : check[p] \in {"queued", "running", "ok", "error"}}

\* What is neither counted nor due has been submitted; a log call that raised
\* may have counted one check twice.
CountInv ==
    /\ submitted <= counted + Cardinality(Due)
    /\ counted + Cardinality(Due) <= submitted + mishaps["log"]

\* What is due is finite.
LEMMA DueFinite == IsFiniteSet(Due) /\ Cardinality(Due) \in Nat
<1>1. IsFiniteSet(AllPartitions)
  BY Sizes, FS_Interval DEF AllPartitions
<1>2. QED
  BY <1>1, FS_Subset, FS_CardinalityType DEF Due

\* A fault raises its tally by one, and no other.
LEMMA HappensOnce ==
    ASSUME mishaps \in [FaultKinds -> 0..MaxMishaps],
           NEW kind \in FaultKinds, Happens(kind)
    PROVE  mishaps'["log"] = mishaps["log"] + (IF kind = "log" THEN 1 ELSE 0)
<1>1. mishaps' = [mishaps EXCEPT ![kind] = mishaps[kind] + 1] /\ "log" \in FaultKinds
  BY DEF Happens, FaultKinds
<1>2. mishaps["log"] \in Nat
  BY <1>1, Sizes
<1>3. QED
  BY <1>1, <1>2

\* A submission makes every partition of the pool due, a collection settles one
\* and counts it once, or twice if a log call raises, and nothing else changes
\* what is due.
LEMMA NextCountInv == LoopInv /\ CountInv /\ [Next]_vars => CountInv'
<1> SUFFICES ASSUME LoopInv, CountInv, [Next]_vars
             PROVE  CountInv'
  OBVIOUS
<1>t. /\ TypeOK /\ mishaps \in [FaultKinds -> 0..MaxMishaps]
      /\ {"add", "log", "sync", "reentry"} = FaultKinds
      /\ Range0(count) \subseteq AllPartitions /\ count \in Nat
      /\ check \in [AllPartitions -> States]
      /\ counted \in Nat /\ submitted \in Nat /\ mishaps["log"] \in Nat
  BY Sizes, RangeWithin DEF LoopInv, TypeOK, FaultKinds
<1>l. \A kind \in FaultKinds : Happens(kind) =>
          mishaps'["log"] = mishaps["log"] + (IF kind = "log" THEN 1 ELSE 0)
  BY <1>t, HappensOnce
<1>u. ASSUME UNCHANGED <<counted, submitted>>, Due' = Due,
             mishaps'["log"] \in {mishaps["log"], mishaps["log"] + 1}
      PROVE  CountInv'
  BY <1>t, <1>u, DueFinite DEF CountInv
<1>1. CASE \/ EnterCycle \/ LeaveLoop \/ NoSync \/ Wake \/ Join \/ Close
           \/ Signal \/ UNCHANGED vars
  BY <1>1, <1>u
     DEF EnterCycle, LeaveLoop, NoSync, Wake, Join, Close, Signal, vars, Due
<1>2. ASSUME NEW n \in 1..MaxPartitions, UpdatePool(n) \/ AddFails(n) \/ SignalCutsAdding(n)
      PROVE  CountInv'
  BY <1>2, <1>l, <1>t, <1>u
     DEF UpdatePool, AddFails, SignalCutsAdding, HandlerFails, Due
<1>3. CASE Submit
  <2>1. Due = {} /\ Due' = Range0(count)
    BY <1>3, <1>t DEF Submit, LoopInv, Futures, Due
  <2>2. Cardinality(Due) = 0 /\ Cardinality(Range0(count)) = count
    BY <2>1, <1>t, FS_EmptySet, FS_Interval DEF Range0
  <2>3. QED
    BY <1>3, <1>t, <2>1, <2>2 DEF Submit, CountInv
<1>4. ASSUME NEW p \in AllPartitions, Collect(p) \/ CollectRaises(p) \/ SignalSwallowed(p)
      PROVE  CountInv'
  <2>1. /\ p \in Due /\ Due' = Due \ {p}
        /\ submitted' = submitted
    BY <1>4, <1>t
       DEF Collect, CollectRaises, SignalSwallowed, HandlerRaises, HandlerFails, Due
  <2>2. Cardinality(Due') = Cardinality(Due) - 1
    BY <2>1, DueFinite, FS_RemoveElement
  <2>3. CASE Collect(p)
    <3>1. counted' = counted + 1 /\ mishaps' = mishaps
      BY <2>3 DEF Collect, CountSuccess, CountFailure
    <3>2. QED
      BY <1>t, <2>1, <2>2, <3>1, DueFinite DEF CountInv
  <2>4. CASE CollectRaises(p) \/ SignalSwallowed(p)
    <3>1. /\ counted' \in {counted + 1, counted + 2}
          /\ mishaps'["log"] = mishaps["log"] + 1
      BY <1>l, <1>t, <2>4
         DEF CollectRaises, SignalSwallowed, HandlerRaises, HandlerFails,
             CountFailure, CountBoth
    <3>2. QED
      BY <1>t, <2>1, <2>2, <3>1, DueFinite DEF CountInv
  <2>5. QED
    BY <1>4, <2>3, <2>4
<1>5. CASE EndCycle
  <2>1. Due = {} /\ Due' = {}
    BY <1>5, <1>t DEF EndCycle, AllCollected, Due
  <2>2. QED
    BY <1>5, <1>u, <2>1 DEF EndCycle
<1>6. ASSUME NEW p \in AllPartitions, Worker(p)
      PROVE  CountInv'
  <2>1. Due' = Due
    BY <1>6, <1>t DEF Worker, Start, Finish, Due
  <2>2. QED
    BY <1>6, <1>u, <2>1 DEF Worker, Start, Finish
<1>7. CASE \/ SyncRaises \/ LogRaises \/ SignalEscapes \/ SignalAtRegistry
           \/ SignalCutsCleanup \/ SignalInLock
  <2>1. /\ UNCHANGED <<counted, submitted>> /\ Due' = Due
        /\ \E kind \in FaultKinds : Happens(kind)
    BY <1>7, <1>t
       DEF SyncRaises, LogRaises, SignalEscapes, SignalAtRegistry,
           SignalCutsCleanup, SignalInLock, HandlerRaises, HandlerFails, Due
  <2>2. QED
    BY <1>l, <1>t, <1>u, <2>1
<1>8. QED
  BY <1>1, <1>2, <1>3, <1>4, <1>5, <1>6, <1>7 DEF Next, Main, Interrupt

\* Each check is counted by the end of its cycle, and none twice but for log
\* calls that raised.
THEOREM EachCounted == Spec => []CountedOnce
<1>1. Init => CountInv
  <2> SUFFICES ASSUME Init
               PROVE  CountInv
    OBVIOUS
  <2>1. Due = {} /\ mishaps["log"] = 0
    BY DEF Init, Due, FaultKinds
  <2>2. QED
    BY <2>1, FS_EmptySet DEF Init, CountInv
<1>2. LoopInv /\ CountInv => CountedOnce
  <2> SUFFICES ASSUME LoopInv, CountInv
               PROVE  CountedOnce
    OBVIOUS
  <2>1. counted \in Nat /\ submitted \in Nat /\ mishaps["log"] \in Nat
    BY Sizes DEF LoopInv, TypeOK, FaultKinds
  <2>2. pc = "sleep" => Due = {}
    BY DEF LoopInv, Futures, Due
  <2>3. pc = "sleep" => Cardinality(Due) = 0
    BY <2>2, FS_EmptySet
  <2>4. QED
    BY <2>1, <2>3, DueFinite DEF CountInv, CountedOnce
<1>3. QED
  BY LoopInvariant, NextCountInv, <1>1, <1>2, PTL DEF Spec

=============================================================================
