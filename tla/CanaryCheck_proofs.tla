------------------------- MODULE CanaryCheck_proofs -------------------------
(***************************************************************************)
(* Theorems about CanaryCheck for any number of partitions, workers and    *)
(* cycles, any batch size and every combination of faults.                 *)
(***************************************************************************)
EXTENDS CanaryCheck, SequenceTheorems, TLAPS

USE DEF cluster

\* Appending to a partition keeps every offset and adds one.
LEMMA StoreKeeps ==
  ASSUME NEW p \in Partitions, NEW m \in Contents,
         log \in [Partitions -> Seq(Contents)],
         log' = [log EXCEPT ![p] = Append(@, m)]
  PROVE  /\ log' \in [Partitions -> Seq(Contents)]
         /\ Len(log'[p]) = Len(log[p]) + 1
         /\ log'[p][Len(log[p]) + 1] = m
         /\ \A q \in Partitions :
              /\ q # p => log'[q] = log[q]
              /\ Len(log[q]) \in Nat
              /\ Len(log[q]) <= Len(log'[q])
              /\ \A k \in 1..Len(log[q]) : log'[q][k] = log[q][k]
<1>1. log[p] \in Seq(Contents) /\ log'[p] = Append(log[p], m)
  OBVIOUS
<1>2. /\ Append(log[p], m) \in Seq(Contents)
      /\ Len(Append(log[p], m)) = Len(log[p]) + 1
      /\ \A k \in 1..Len(log[p]) : Append(log[p], m)[k] = log[p][k]
      /\ Append(log[p], m)[Len(log[p]) + 1] = m
  BY <1>1, AppendProperties
<1>3. \A q \in Partitions : Len(log[q]) \in Nat
  BY LenProperties
<1>4. QED
  BY <1>1, <1>2, <1>3

\* The bounds on the batch and on the cycles are naturals.
LEMMA Sizes == BatchSize \in Nat /\ MaxCycles \in Nat
  BY SizeAssumption

\* What ConsumeBatch fetches is the part of the log it skips or ends in.
LEMMA BatchIs ==
  ASSUME NEW p \in Partitions, NEW k \in Fetchable(p), TypeOK
  PROVE  /\ k \in Nat /\ pos[p] + k \in 1..Len(log[p])
         /\ Len(log[p]) \in Nat
         /\ DOMAIN Batch(p, k) = 1..k
         /\ \A j \in 1..k : Batch(p, k)[j] = log[p][pos[p] + j]
<1>1. k \in Nat \ {0} /\ pos[p] \in Nat /\ pos[p] + k <= Len(log[p])
  BY Sizes DEF TypeOK, Fetchable
<1>2. log[p] \in Seq(Contents)
  BY DEF TypeOK
<1>3. Len(log[p]) \in Nat /\ \A j \in 1..Len(log[p]) : log[p][j] \in Contents
  BY <1>2, LenProperties, ElementOfSeq
<1>4. /\ Batch(p, k) \in Seq(Contents)
      /\ Len(Batch(p, k)) = k
      /\ \A j \in 1..k : Batch(p, k)[j] = log[p][pos[p] + j]
  <2> DEFINE from == pos[p] + 1
             to == pos[p] + k
  <2>1. from \in Int /\ to \in Int /\ \A j \in from..to : log[p][j] \in Contents
    BY <1>1, <1>3
  <2>2. /\ SubSeq(log[p], from, to) \in Seq(Contents)
        /\ Len(SubSeq(log[p], from, to)) = IF from <= to THEN to - from + 1 ELSE 0
        /\ \A i \in 1..(to - from + 1) :
              SubSeq(log[p], from, to)[i] = log[p][from + i - 1]
    <3> HIDE DEF from, to
    <3> QED BY <2>1, SubSeqProperties
  <2>3. to - from + 1 = k /\ from <= to
    BY <1>1
  <2>4. \A i \in 1..k : from + i - 1 = pos[p] + i
    BY <1>1
  <2>5. QED
    BY <2>2, <2>3, <2>4 DEF Batch
<1>5. DOMAIN Batch(p, k) = 1..k
  BY <1>4, LenProperties
<1>6. QED
  BY <1>1, <1>3, <1>4, <1>5

\* A running check, and nothing else, moves: every field keeps its type.
LEMMA FinishTypeOK ==
  ASSUME NEW p \in Partitions, NEW result \in Outcomes, TypeOK,
         Finish(p, result), UNCHANGED <<cycle, log, flight, refused>>,
         reports' \subseteq reports
  PROVE  TypeOK'
  BY DEF Finish, TypeOK, Pcs

\* Empty partitions and no check started satisfy the type invariant.
LEMMA InitTypeOK == Init => TypeOK
  BY SizeAssumption DEF Init, TypeOK, Pcs, Outcomes

\* Every step of a check, of librdkafka and of the main thread keeps every type.
LEMMA NextTypeOK == TypeOK /\ [Next]_vars => TypeOK'
<1> SUFFICES ASSUME TypeOK, [Next]_vars
             PROVE  TypeOK'
  OBVIOUS
<1>0. /\ MaxCycles \in Nat /\ cycle \in Nat
      /\ \A p \in Partitions : Len(log[p]) \in Nat /\ pos[p] \in Nat
  BY Sizes, LenProperties DEF TypeOK
<1>1. CASE NextCycle
  BY <1>0, <1>1 DEF NextCycle, TypeOK, Pcs, Outcomes
<1>2. ASSUME NEW p \in Partitions, Check(p)
      PROVE  TypeOK'
  <2>1. CASE Begin(p)
    <3>1. cycle > 0
      BY <2>1, <1>0 DEF Begin, TypeOK
    <3>2. QED
      BY <2>1, <3>1 DEF Begin, TypeOK, Pcs
  <2>2. CASE SeekToEnd(p)
    BY <2>2, <1>0 DEF SeekToEnd, Goto, TypeOK, Pcs
  <2>3. CASE SeekFails(p) \/ ProduceRaises(p) \/ ProduceTimesOut(p)
             \/ DeliveryFailed(p) \/ ConsumeFails(p) \/ ConsumeTimesOut(p)
    BY <2>3, FinishTypeOK
    DEF SeekFails, ProduceRaises, ProduceTimesOut, DeliveryFailed,
        ConsumeFails, ConsumeTimesOut, Outcomes
  <2>4. CASE Produce(p)
    <3>1. cycle \in 1..cycle
      <4>1. pc[p] # "done"
        BY <2>4 DEF Produce
      <4>2. QED
        BY <4>1, <1>0 DEF TypeOK
    <3>2. QED
      BY <2>4, <3>1 DEF Produce, Goto, TypeOK, Pcs
  <2>5. CASE EnterPoll(p) \/ PollReturns(p) \/ Delivered(p)
    BY <2>5 DEF EnterPoll, PollReturns, Delivered, Goto, TypeOK, Pcs
  <2>6. CASE ConsumeBatch(p)
    <3>1. PICK k \in Fetchable(p) :
            \/ \E result \in Outcomes : Finish(p, result)
            \/ /\ pos' = [pos EXCEPT ![p] = @ + k]
               /\ UNCHANGED <<pc, fired, late, outcome>>
      BY <2>6 DEF ConsumeBatch, Outcomes
    <3>2. CASE \E result \in Outcomes : Finish(p, result)
      BY <2>6, <3>2, FinishTypeOK DEF ConsumeBatch
    <3>3. CASE /\ pos' = [pos EXCEPT ![p] = @ + k]
               /\ UNCHANGED <<pc, fired, late, outcome>>
      <4>1. k \in Nat /\ pos[p] + k \in 1..Len(log[p])
        BY BatchIs
      <4>2. QED
        BY <2>6, <3>3, <4>1, <1>0 DEF ConsumeBatch, TypeOK
    <3>4. QED
      BY <3>1, <3>2, <3>3
  <2>7. QED
    BY <1>2, <2>1, <2>2, <2>3, <2>4, <2>5, <2>6 DEF Check
<1>3. ASSUME NEW p \in Partitions, Serve(p)
      PROVE  TypeOK'
  BY <1>3 DEF Serve, TypeOK
<1>9. ASSUME NEW p \in Partitions, ServeRaises(p)
      PROVE  TypeOK'
  BY <1>9, FinishTypeOK DEF ServeRaises, Outcomes
<1>4. ASSUME NEW p \in Partitions, Tick(p)
      PROVE  TypeOK'
  BY <1>4 DEF Tick, TypeOK
<1>5. ASSUME NEW p \in Partitions, Cluster(p)
      PROVE  TypeOK'
  <2>1. ASSUME NEW n \in 1..cycle, Store(p, n)
        PROVE  TypeOK'
    <3>1. n \in Contents
      BY <1>0 DEF Contents, TypeOK
    <3>2. /\ log' \in [Partitions -> Seq(Contents)]
          /\ \A q \in Partitions : Len(log[q]) <= Len(log'[q])
      BY <2>1, <3>1, StoreKeeps DEF Store, TypeOK
    <3>3. \A q \in Partitions : Len(log'[q]) \in Nat
      BY <3>2, LenProperties
    <3>4. \A q \in Partitions : pos'[q] <= Len(log'[q])
      BY <2>1, <3>2, <3>3, <1>0 DEF Store, TypeOK
    <3>5. <<p, n, TRUE>> \in Partitions \X (1..cycle) \X BOOLEAN
      OBVIOUS
    <3>6. reports' \subseteq Partitions \X (1..cycle) \X BOOLEAN
      BY <2>1, <3>5 DEF Store, TypeOK
    <3>7. flight' \subseteq Partitions \X (1..cycle)
      BY <2>1 DEF Store, TypeOK
    <3>8. QED
      BY <2>1, <3>2, <3>4, <3>6, <3>7 DEF Store, TypeOK
  <2>2. ASSUME NEW n \in 1..cycle, Refuse(p, n)
        PROVE  TypeOK'
    <3>1. <<p, n, FALSE>> \in Partitions \X (1..cycle) \X BOOLEAN
      OBVIOUS
    <3>2. reports' \subseteq Partitions \X (1..cycle) \X BOOLEAN
      BY <2>2, <3>1 DEF Refuse, TypeOK
    <3>3. refused' \subseteq Partitions \X (1..cycle)
      BY <2>2 DEF Refuse, TypeOK
    <3>4. QED
      BY <2>2, <3>2, <3>3 DEF Refuse, TypeOK
  <2>3. CASE StoreForeign(p)
    <3>1. PICK m \in Contents : log' = [log EXCEPT ![p] = Append(@, m)]
      <4>1. ForeignMessages \subseteq Contents
        BY <1>0 DEF ForeignMessages, Contents, Foreign, Poison
      <4>2. QED
        BY <2>3, <4>1 DEF StoreForeign
    <3>2. /\ log' \in [Partitions -> Seq(Contents)]
          /\ \A q \in Partitions : Len(log[q]) <= Len(log'[q])
      BY <3>1, StoreKeeps DEF TypeOK
    <3>3. \A q \in Partitions : Len(log'[q]) \in Nat
      BY <3>2, LenProperties
    <3>4. \A q \in Partitions : pos'[q] <= Len(log'[q])
      BY <2>3, <3>2, <3>3, <1>0 DEF StoreForeign, TypeOK
    <3>5. QED
      BY <2>3, <3>2, <3>4 DEF StoreForeign, TypeOK
  <2>4. QED
    BY <1>5, <2>1, <2>2, <2>3 DEF Cluster
<1>6. CASE UNCHANGED vars
  BY <1>6 DEF vars, TypeOK
<1>7. QED
  BY <1>1, <1>2, <1>3, <1>9, <1>4, <1>5, <1>6 DEF Next

\* Every state of the checks, the shared producer and the partitions has its
\* type; in particular no consumer is positioned past the end of its partition.
THEOREM TypeCorrect == Spec => []TypeOK
<1>1. Init => TypeOK
  BY InitTypeOK
<1>2. TypeOK /\ [Next]_vars => TypeOK'
  BY NextTypeOK
<1>3. QED
  BY <1>1, <1>2, PTL DEF Spec

-----------------------------------------------------------------------------
(***************************************************************************)
(* OwnMessageAhead is not inductive: it needs that an acknowledgement, in  *)
(* the report queue or in the event, is about a stored message, and that   *)
(* nothing of the current cycle was stored before the consumer's position. *)
(***************************************************************************)
\* No message is stored before the cycle that sends it.
NoFuture ==
    \A p \in Partitions : \A k \in DOMAIN log[p] :
        log[p][k] <= cycle \/ log[p][k] = Poison

\* Before its message is produced a check has left no trace in the cluster.
Fresh(p) ==
    pc[p] \in {"queued", "seek", "produce"} =>
        /\ ~Stored(p, cycle)
        /\ <<p, cycle>> \notin flight
        /\ <<p, cycle, TRUE>> \notin reports

\* The consumer was positioned before the message could be stored.
Behind(p) ==
    pc[p] \in {"produce", "wait", "poll", "consume"} =>
        \A k \in Offsets(p, cycle) : pos[p] < k

ReportsTrue ==
    \A p \in Partitions, n \in 1..cycle :
        <<p, n, TRUE>> \in reports => Stored(p, n)

\* What a check believes was delivered was stored.
Confirmed(p) ==
    /\ fired[p] = "acked" => pc[p] \in {"wait", "poll", "consume"}
    /\ fired[p] = "acked" \/ pc[p] = "consume" => Stored(p, cycle)
    /\ outcome[p] \in {"success", "CONSUME", "CONSUME_TIMEOUT"}
          => Stored(p, cycle)

CheckInv ==
    /\ TypeOK
    /\ NoFuture
    /\ ReportsTrue
    /\ \A p \in Partitions : Fresh(p) /\ Behind(p) /\ Confirmed(p)

\* With no check started the inductive invariant holds.
LEMMA InitCheckInv == Init => CheckInv
<1> SUFFICES ASSUME Init
             PROVE  CheckInv
  OBVIOUS
<1>1. \A p \in Partitions : log[p] = <<>> /\ DOMAIN log[p] = {}
  BY DEF Init
<1>2. NoFuture /\ ReportsTrue
  BY <1>1 DEF Init, NoFuture, ReportsTrue
<1>3. ASSUME NEW p \in Partitions
      PROVE  Fresh(p) /\ Behind(p) /\ Confirmed(p)
  BY DEF Init, Fresh, Behind, Confirmed
<1>4. QED
  BY <1>2, <1>3, InitTypeOK DEF CheckInv

\* A message appended to partition p hides nothing and comes last.
LEMMA StoreOffsets ==
  ASSUME NEW p \in Partitions, NEW m \in Contents, TypeOK,
         log' = [log EXCEPT ![p] = Append(@, m)]
  PROVE  /\ \A q \in Partitions, n \in Nat : Stored(q, n) =>
               \E k \in DOMAIN log'[q] : log'[q][k] = n
         /\ \E k \in DOMAIN log'[p] : log'[p][k] = m
         /\ \A q \in Partitions : \A k \in DOMAIN log'[q] :
              \/ k \in DOMAIN log[q] /\ log'[q][k] = log[q][k]
              \/ q = p /\ k = Len(log[p]) + 1 /\ log'[q][k] = m
<1>1. log \in [Partitions -> Seq(Contents)]
  BY DEF TypeOK
<1>2. /\ log' \in [Partitions -> Seq(Contents)]
      /\ Len(log'[p]) = Len(log[p]) + 1
      /\ log'[p][Len(log[p]) + 1] = m
      /\ \A q \in Partitions :
           /\ q # p => log'[q] = log[q]
           /\ Len(log[q]) \in Nat
           /\ Len(log[q]) <= Len(log'[q])
           /\ \A k \in 1..Len(log[q]) : log'[q][k] = log[q][k]
  BY <1>1, StoreKeeps
<1>3. \A q \in Partitions : DOMAIN log[q] = 1..Len(log[q]) /\ Len(log[q]) \in Nat
  BY <1>1, LenProperties
<1>4. \A q \in Partitions :
        DOMAIN log'[q] = 1..Len(log'[q]) /\ Len(log'[q]) \in Nat
  BY <1>2, LenProperties
<1>5. QED
  BY <1>2, <1>3, <1>4 DEF Stored, Offsets

\* The end of a check preserves the invariant, given its verdict is true.
LEMMA FinishCheckInv ==
  ASSUME NEW p \in Partitions, NEW result \in Outcomes, CheckInv,
         Finish(p, result), UNCHANGED <<cycle, log, flight, refused>>,
         reports' \subseteq reports,
         result \in {"success", "CONSUME", "CONSUME_TIMEOUT"} => Stored(p, cycle)
  PROVE  CheckInv'
<1>1. TypeOK'
  BY FinishTypeOK DEF CheckInv
<1>2. NoFuture' /\ ReportsTrue'
  <2>1. NoFuture'
    BY DEF CheckInv, NoFuture, Poison
  <2>2. ReportsTrue'
    BY DEF CheckInv, ReportsTrue, Stored, Offsets
  <2>3. QED
    BY <2>1, <2>2
<1>3. ASSUME NEW q \in Partitions
      PROVE  (Fresh(q) /\ Behind(q) /\ Confirmed(q))'
  <2> USE DEF CheckInv, TypeOK, Finish, Stored, Offsets
  <2>1. CASE q = p
    BY <2>1 DEF Fresh, Behind, Confirmed
  <2>2. CASE q # p
    BY <2>2 DEF Fresh, Behind, Confirmed
  <2>3. QED
    BY <2>1, <2>2
<1>4. QED
  BY <1>1, <1>2, <1>3 DEF CheckInv

\* What was stored stays true while the cluster and the cycle stand still.
LEMMA StableCluster ==
  ASSUME CheckInv, UNCHANGED <<cycle, log>>, reports' \subseteq reports
  PROVE  NoFuture' /\ ReportsTrue'
<1>1. NoFuture'
  BY DEF CheckInv, NoFuture, Poison
<1>2. ASSUME NEW p \in Partitions, NEW n \in 1..cycle, <<p, n, TRUE>> \in reports'
      PROVE  Stored(p, n)'
  <2>1. Stored(p, n)
    BY <1>2 DEF CheckInv, ReportsTrue
  <2>2. QED
    BY <2>1 DEF Stored, Offsets
<1>3. QED
  BY <1>1, <1>2 DEF ReportsTrue

\* So does what is known of a check that takes no part in a step.
LEMMA StableCheck ==
  ASSUME NEW q \in Partitions, CheckInv, UNCHANGED <<cycle, log>>,
         reports' \subseteq reports,
         <<q, cycle>> \in flight' => <<q, cycle>> \in flight,
         pc'[q] = pc[q], pos'[q] = pos[q], fired'[q] = fired[q],
         outcome'[q] = outcome[q]
  PROVE  (Fresh(q) /\ Behind(q) /\ Confirmed(q))'
<1>1. Fresh(q) /\ Behind(q) /\ Confirmed(q)
  BY DEF CheckInv
<1>2. Stored(q, cycle)' <=> Stored(q, cycle)
  BY DEF Stored, Offsets
<1>3. Fresh(q)'
  BY <1>1, <1>2 DEF Fresh
<1>4. Behind(q)'
  BY <1>1 DEF Behind, Offsets
<1>5. Confirmed(q)'
  BY <1>1, <1>2 DEF Confirmed
<1>6. QED
  BY <1>3, <1>4, <1>5

\* Every step preserves it: what a running check produced lies at or past the
\* position of the consumer that looks for it.
LEMMA NextCheckInv == CheckInv /\ [Next]_vars => CheckInv'
<1> SUFFICES ASSUME CheckInv, [Next]_vars
             PROVE  CheckInv'
  OBVIOUS
<1> USE DEF CheckInv
<1>0. TypeOK' /\ MaxCycles \in Nat /\ cycle \in Nat
  BY NextTypeOK, Sizes DEF TypeOK
<1> DEFINE Goal == /\ NoFuture' /\ ReportsTrue'
                   /\ \A q \in Partitions : (Fresh(q) /\ Behind(q) /\ Confirmed(q))'
<1> SUFFICES Goal
  BY <1>0
<1>1. CASE NextCycle
  <2>1. /\ cycle' = cycle + 1 /\ cycle' # Poison
        /\ UNCHANGED <<log, flight, reports, fired>>
        /\ \A p \in Partitions : pc[p] = "done" /\ pc'[p] = "queued"
                                 /\ outcome'[p] = "none"
    BY <1>0, <1>1 DEF NextCycle, Poison
  <2>2. NoFuture'
    <3>1. \A p \in Partitions : \A k \in DOMAIN log[p] : log[p][k] \in Int
      <4>1. ASSUME NEW p \in Partitions
            PROVE  log[p] \in Seq(Contents)
        BY DEF TypeOK
      <4>2. QED
        BY <4>1, LenProperties, ElementOfSeq, <1>0 DEF Contents
    <3>2. QED
      BY <2>1, <3>1, <1>0 DEF NoFuture, Poison
  <2>3. \A p \in Partitions : /\ <<p, cycle + 1>> \notin flight
                              /\ <<p, cycle + 1, TRUE>> \notin reports
    BY <1>0 DEF TypeOK
  <2>4. \A p \in Partitions : \A k \in DOMAIN log[p] : log[p][k] # cycle + 1
    BY <2>1, <1>0 DEF NoFuture
  <2>5. \A p \in Partitions : Fresh(p)' /\ Behind(p)' /\ Confirmed(p)'
    BY <2>1, <2>3, <2>4 DEF Fresh, Behind, Confirmed, Stored, Offsets
  <2>6. ReportsTrue'
    <3>1. ASSUME NEW p \in Partitions, NEW n \in 1..cycle',
                 <<p, n, TRUE>> \in reports'
          PROVE  Stored(p, n)'
      <4>1. n \in 1..cycle
        BY <2>1, <3>1 DEF TypeOK
      <4>2. Stored(p, n)
        BY <2>1, <3>1, <4>1 DEF ReportsTrue
      <4>3. QED
        BY <2>1, <4>2 DEF Stored, Offsets
    <3>2. QED
      BY <3>1 DEF ReportsTrue
  <2>7. QED
    BY <2>2, <2>5, <2>6
<1>2. ASSUME NEW p \in Partitions, Check(p)
      PROVE  Goal
  <2> USE DEF Goto
  <2>0. ASSUME UNCHANGED <<cycle, log, reports>>,
               \A q \in Partitions : q # p =>
                  /\ <<q, cycle>> \in flight' => <<q, cycle>> \in flight
                  /\ pc'[q] = pc[q] /\ pos'[q] = pos[q]
                  /\ fired'[q] = fired[q] /\ outcome'[q] = outcome[q],
               Fresh(p)', Behind(p)', Confirmed(p)'
        PROVE  Goal
    <3>1. NoFuture' /\ ReportsTrue'
      BY <2>0, StableCluster
    <3>2. \A q \in Partitions : q # p => (Fresh(q) /\ Behind(q) /\ Confirmed(q))'
      BY <2>0, StableCheck
    <3>3. QED
      BY <2>0, <3>1, <3>2
  <2>1. CASE Begin(p)
    <3>1. pc'[p] = "seek" /\ pc[p] = "queued"
      BY <2>1 DEF Begin, TypeOK
    <3>2. Fresh(p)' /\ Behind(p)' /\ Confirmed(p)'
      BY <2>1, <3>1 DEF Begin, Fresh, Behind, Confirmed, Stored, Offsets
    <3>3. QED
      BY <2>0, <2>1, <3>2 DEF Begin, TypeOK
  <2>2. CASE SeekToEnd(p)
    <3>1. pc'[p] = "produce" /\ pc[p] = "seek"
      BY <2>2 DEF SeekToEnd, TypeOK
    <3>2. ~Stored(p, cycle)
      BY <3>1 DEF Fresh
    <3>3. Fresh(p)' /\ Behind(p)' /\ Confirmed(p)'
      BY <2>2, <3>1, <3>2 DEF SeekToEnd, Fresh, Behind, Confirmed, Stored, Offsets
    <3>4. QED
      BY <2>0, <2>2, <3>3 DEF SeekToEnd, TypeOK
  <2>3. CASE SeekFails(p) \/ ProduceRaises(p) \/ ProduceTimesOut(p)
             \/ DeliveryFailed(p)
    <3>1. PICK result \in {"SEEK", "UNEXPECTED", "PRODUCE_TIMEOUT", "PRODUCE"} :
            Finish(p, result)
      BY <2>3 DEF SeekFails, ProduceRaises, ProduceTimesOut, DeliveryFailed
    <3>2. CheckInv'
      BY <2>3, <3>1, FinishCheckInv
      DEF SeekFails, ProduceRaises, ProduceTimesOut, DeliveryFailed, Outcomes
    <3>3. QED
      BY <3>2
  <2>4. CASE Produce(p)
    <3>1. pc'[p] = "wait" /\ pc[p] = "produce"
      BY <2>4 DEF Produce, TypeOK
    <3>2. Fresh(p)' /\ Behind(p)' /\ Confirmed(p)'
      BY <2>4, <3>1 DEF Produce, Fresh, Behind, Confirmed, Stored, Offsets
    <3>3. QED
      BY <2>0, <2>4, <3>2 DEF Produce, TypeOK
  <2>5. CASE EnterPoll(p) \/ PollReturns(p)
    <3>1. {pc[p], pc'[p]} \subseteq {"wait", "poll"}
      BY <2>5 DEF EnterPoll, PollReturns, TypeOK
    <3>2. Fresh(p)' /\ Behind(p)' /\ Confirmed(p)'
      BY <2>5, <3>1
      DEF EnterPoll, PollReturns, Fresh, Behind, Confirmed, Stored, Offsets
    <3>3. QED
      BY <2>0, <2>5, <3>2 DEF EnterPoll, PollReturns, TypeOK
  <2>6. CASE Delivered(p)
    <3>1. pc'[p] = "consume" /\ pc[p] = "wait" /\ fired[p] = "acked"
      BY <2>6 DEF Delivered, TypeOK
    <3>2. Fresh(p)' /\ Behind(p)' /\ Confirmed(p)'
      BY <2>6, <3>1 DEF Delivered, Fresh, Behind, Confirmed, Stored, Offsets
    <3>3. QED
      BY <2>0, <2>6, <3>2 DEF Delivered, TypeOK
  <2>7. CASE ConsumeFails(p) \/ ConsumeTimesOut(p)
    <3>1. PICK result \in {"CONSUME", "CONSUME_TIMEOUT"} : Finish(p, result)
      BY <2>7 DEF ConsumeFails, ConsumeTimesOut
    <3>2. Stored(p, cycle)
      BY <2>7 DEF ConsumeFails, ConsumeTimesOut, Confirmed
    <3>3. CheckInv'
      BY <2>7, <3>1, <3>2, FinishCheckInv
      DEF ConsumeFails, ConsumeTimesOut, Outcomes
    <3>4. QED
      BY <3>3
  <2>8. CASE ConsumeBatch(p)
    <3>1. PICK k \in Fetchable(p) :
            \/ \E result \in {"success", "UNEXPECTED"} : Finish(p, result)
            \/ /\ ~Meets(Batch(p, k), cycle) /\ ~Chokes(Batch(p, k))
               /\ pos' = [pos EXCEPT ![p] = @ + k]
               /\ UNCHANGED <<pc, fired, late, outcome>>
      BY <2>8 DEF ConsumeBatch
    <3>2. ASSUME NEW result \in {"success", "UNEXPECTED"}, Finish(p, result)
          PROVE  Goal
      <4>1. Stored(p, cycle)
        BY <2>8 DEF ConsumeBatch, Confirmed
      <4>2. CheckInv'
        BY <2>8, <3>2, <4>1, FinishCheckInv DEF ConsumeBatch, Outcomes
      <4>3. QED
        BY <4>2
    <3>3. CASE /\ ~Meets(Batch(p, k), cycle) /\ ~Chokes(Batch(p, k))
               /\ pos' = [pos EXCEPT ![p] = @ + k]
               /\ UNCHANGED <<pc, fired, late, outcome>>
      <4>1. /\ k \in Nat /\ Len(log[p]) \in Nat
            /\ DOMAIN Batch(p, k) = 1..k
            /\ \A j \in 1..k : Batch(p, k)[j] = log[p][pos[p] + j]
        BY BatchIs
      <4>2. \A j \in 1..k : Batch(p, k)[j] # cycle
        BY <3>3, <4>1 DEF Meets, Chokes
      <4>3. \A j \in Offsets(p, cycle) : pos[p] + k < j
        <5>1. /\ DOMAIN log[p] = 1..Len(log[p]) /\ pos[p] \in Nat
              /\ \A j \in Offsets(p, cycle) : j \in DOMAIN log[p] /\ log[p][j] = cycle
          BY LenProperties DEF TypeOK, Offsets
        <5>2. \A j \in Offsets(p, cycle) : pos[p] < j
          BY <2>8 DEF ConsumeBatch, Behind
        <5>3. ASSUME NEW j \in Offsets(p, cycle), j <= pos[p] + k
              PROVE  FALSE
          <6>1. j - pos[p] \in 1..k /\ pos[p] + (j - pos[p]) = j
            BY <4>1, <5>1, <5>2, <5>3
          <6>2. QED
            BY <4>1, <4>2, <5>1, <5>3, <6>1
        <5>4. QED
          BY <4>1, <5>1, <5>3
      <4>4. UNCHANGED <<cycle, pc, log, flight, reports, fired, outcome>>
        BY <2>8, <3>3 DEF ConsumeBatch
      <4>5. pos'[p] = pos[p] + k /\ \A q \in Partitions : q # p => pos'[q] = pos[q]
        BY <3>3 DEF TypeOK
      <4>6. Fresh(p)' /\ Behind(p)' /\ Confirmed(p)'
        BY <4>3, <4>4, <4>5 DEF Fresh, Behind, Confirmed, Stored, Offsets
      <4>7. QED
        BY <2>0, <4>4, <4>5, <4>6
    <3>4. QED
      BY <3>1, <3>2, <3>3
  <2>9. QED
    BY <1>2, <2>1, <2>2, <2>3, <2>4, <2>5, <2>6, <2>7, <2>8 DEF Check
<1>3. ASSUME NEW q \in Partitions, Serve(q)
      PROVE  Goal
  <2>1. PICK p \in Partitions, n \in 1..cycle, ok \in BOOLEAN :
          /\ <<p, n, ok>> \in reports
          /\ reports' = reports \ {<<p, n, ok>>}
          /\ fired' = IF Awaited(p, n)
                      THEN [fired EXCEPT ![p] = IF ok THEN "acked" ELSE "failed"]
                      ELSE fired
    BY <1>3 DEF Serve
  <2>2. UNCHANGED <<cycle, pc, log, flight, pos, late, outcome>>
    BY <1>3 DEF Serve
  <2>3. NoFuture' /\ ReportsTrue'
    <3>1. reports' \subseteq reports
      BY <2>1
    <3>2. QED
      BY <2>2, <3>1, StableCluster
  <2>4. \A r \in Partitions : Fresh(r)' /\ Behind(r)'
    BY <2>1, <2>2 DEF Fresh, Behind, Stored, Offsets
  <2>5. ASSUME NEW r \in Partitions
        PROVE  Confirmed(r)'
    <3>1. fired'[r] = "acked" =>
            \/ fired[r] = "acked"
            \/ pc[r] \in {"wait", "poll"} /\ Stored(r, cycle)
      BY <2>1 DEF Awaited, ReportsTrue, TypeOK
    <3>2. QED
      BY <2>2, <3>1 DEF Confirmed, Stored, Offsets
  <2>6. QED
    BY <2>3, <2>4, <2>5
<1>9. ASSUME NEW p \in Partitions, ServeRaises(p)
      PROVE  Goal
  <2>1. CheckInv'
    BY <1>9, FinishCheckInv DEF ServeRaises, Outcomes
  <2>2. QED
    BY <2>1
<1>4. ASSUME NEW p \in Partitions, Tick(p)
      PROVE  Goal
  BY <1>4, StableCluster, StableCheck DEF Tick
<1>5. ASSUME NEW p \in Partitions, NEW m \in Contents, m <= cycle \/ m = Poison,
             log' = [log EXCEPT ![p] = Append(@, m)],
             UNCHANGED <<cycle, pc, fired, pos, late, outcome>>,
             flight' \subseteq flight,
             reports' \subseteq reports \cup {<<p, m, TRUE>>},
             m = cycle /\ cycle > 0 => <<p, m>> \in flight
      PROVE  Goal
  <2>1. /\ \A q \in Partitions, n \in Nat : Stored(q, n) =>
             \E k \in DOMAIN log'[q] : log'[q][k] = n
        /\ \E k \in DOMAIN log'[p] : log'[p][k] = m
        /\ \A q \in Partitions : \A k \in DOMAIN log'[q] :
            \/ k \in DOMAIN log[q] /\ log'[q][k] = log[q][k]
            \/ q = p /\ k = Len(log[p]) + 1 /\ log'[q][k] = m
    <3>1. TypeOK /\ log' = [log EXCEPT ![p] = Append(@, m)]
      BY <1>5
    <3> HIDE DEF CheckInv
    <3>2. \A q \in Partitions, n \in Nat : Stored(q, n) =>
             \E k \in DOMAIN log'[q] : log'[q][k] = n
      BY <3>1, StoreOffsets
    <3>3. \E k \in DOMAIN log'[p] : log'[p][k] = m
      BY <3>1, StoreOffsets
    <3>4. \A q \in Partitions : \A k \in DOMAIN log'[q] :
            \/ k \in DOMAIN log[q] /\ log'[q][k] = log[q][k]
            \/ q = p /\ k = Len(log[p]) + 1 /\ log'[q][k] = m
      BY <3>1, StoreOffsets
    <3>5. QED
      BY <3>2, <3>3, <3>4
  <2>2. NoFuture'
    BY <1>5, <2>1 DEF NoFuture, Poison
  <2>3. ASSUME NEW q \in Partitions, NEW n \in 1..cycle,
               <<q, n, TRUE>> \in reports'
        PROVE  Stored(q, n)'
    <3>1. CASE <<q, n, TRUE>> \in reports
      <4>1. Stored(q, n)
        BY <3>1 DEF ReportsTrue
      <4>2. n \in Nat
        BY <1>0
      <4>3. QED
        BY <2>1, <4>1, <4>2 DEF Stored, Offsets
    <3>2. CASE q = p /\ n = m
      BY <2>1, <3>2 DEF Stored, Offsets
    <3>3. QED
      BY <1>5, <2>3, <3>1, <3>2
  <2>4. ASSUME NEW q \in Partitions
        PROVE  Confirmed(q)'
    BY <1>0, <1>5, <2>1 DEF Confirmed, Stored, Offsets
  <2>5. ASSUME NEW q \in Partitions
        PROVE  Fresh(q)'
    <3>1. pc[q] # "done" => cycle > 0
      BY DEF TypeOK
    <3>2. ASSUME pc[q] \in {"queued", "seek", "produce"}
          PROVE  /\ ~Stored(q, cycle)' /\ <<q, cycle>> \notin flight'
                 /\ <<q, cycle, TRUE>> \notin reports'
      <4>1. /\ ~Stored(q, cycle) /\ <<q, cycle>> \notin flight
            /\ <<q, cycle, TRUE>> \notin reports /\ cycle > 0
        BY <3>1, <3>2 DEF Fresh
      <4>2. ~(q = p /\ m = cycle)
        BY <1>5, <4>1
      <4>3. ~Stored(q, cycle)'
        BY <1>5, <2>1, <4>1, <4>2 DEF Stored, Offsets
      <4>4. QED
        BY <1>5, <4>1, <4>2, <4>3
    <3>3. QED
      BY <1>5, <3>2 DEF Fresh
  <2>6. ASSUME NEW q \in Partitions
        PROVE  Behind(q)'
    <3>1. pos[p] <= Len(log[p]) /\ pos[p] \in Nat /\ Len(log[p]) \in Nat
      BY LenProperties DEF TypeOK
    <3>2. QED
      BY <1>5, <2>1, <3>1 DEF Behind, Offsets
  <2>7. ReportsTrue'
    BY <1>5, <2>3 DEF ReportsTrue
  <2>8. QED
    BY <2>2, <2>4, <2>5, <2>6, <2>7
<1>6. ASSUME NEW p \in Partitions, Cluster(p)
      PROVE  Goal
  <2>1. ASSUME NEW n \in 1..cycle, Store(p, n)
        PROVE  Goal
    <3>1. n \in Contents /\ n <= cycle
      BY <1>0 DEF TypeOK, Contents
    <3>2. QED
      BY <1>5, <2>1, <3>1 DEF Store
  <2>2. ASSUME NEW n \in 1..cycle, Refuse(p, n)
        PROVE  Goal
    <3>1. /\ UNCHANGED <<cycle, pc, log, fired, pos, late, outcome>>
          /\ flight' \subseteq flight
          /\ reports' = reports \cup {<<p, n, FALSE>>}
      BY <2>2 DEF Refuse
    <3>2. \A q \in Partitions, k \in Nat :
            <<q, k, TRUE>> \in reports' <=> <<q, k, TRUE>> \in reports
      BY <3>1
    <3>3. NoFuture'
      BY <3>1 DEF NoFuture, Poison
    <3>4. ReportsTrue'
      BY <3>1, <3>2, <1>0 DEF ReportsTrue, Stored, Offsets
    <3>5. ASSUME NEW q \in Partitions
          PROVE  Fresh(q)' /\ Behind(q)' /\ Confirmed(q)'
      <4>1. Stored(q, cycle)' <=> Stored(q, cycle)
        BY <3>1 DEF Stored, Offsets
      <4>2. Fresh(q)'
        BY <3>1, <3>2, <4>1, <1>0 DEF Fresh
      <4>3. Behind(q)'
        BY <3>1 DEF Behind, Offsets
      <4>4. Confirmed(q)'
        BY <3>1, <4>1 DEF Confirmed
      <4>5. QED
        BY <4>2, <4>3, <4>4
    <3>6. QED
      BY <3>3, <3>4, <3>5
  <2>3. CASE StoreForeign(p)
    <3>1. PICK m \in ForeignMessages : log' = [log EXCEPT ![p] = Append(@, m)]
      BY <2>3 DEF StoreForeign
    <3>2. m \in Contents /\ (m = Foreign \/ m = Poison)
      BY <1>0 DEF ForeignMessages, Contents, Foreign, Poison
    <3>3. UNCHANGED <<cycle, pc, flight, reports, fired, pos, late, outcome>>
      BY <2>3 DEF StoreForeign
    <3>4. m <= cycle \/ m = Poison
      BY <1>0, <3>2 DEF Foreign
    <3>5. ~(m = cycle /\ cycle > 0)
      BY <1>0, <3>2 DEF Foreign, Poison, TypeOK
    <3>6. QED
      BY <1>5, <3>1, <3>2, <3>3, <3>4, <3>5
  <2>4. QED
    BY <1>6, <2>1, <2>2, <2>3 DEF Cluster
<1>7. CASE UNCHANGED vars
  BY <1>7, StableCluster, StableCheck DEF vars
<1>8. QED
  BY <1>1, <1>2, <1>3, <1>9, <1>4, <1>6, <1>7 DEF Next

\* A check that consumes has its message stored ahead of its consumer, and the
\* verdicts of the consume phase are about a message the broker stored: for
\* every schedule of the threads and of librdkafka, and every fault.
THEOREM MessageAhead == Spec => []OwnMessageAhead
<1>1. Init => CheckInv
  BY InitCheckInv
<1>2. CheckInv /\ [Next]_vars => CheckInv'
  BY NextCheckInv
<1>3. CheckInv => OwnMessageAhead
  BY DEF CheckInv, OwnMessageAhead, Confirmed, Behind, Stored
<1>4. QED
  BY <1>1, <1>2, <1>3, PTL DEF Spec

-----------------------------------------------------------------------------
(***************************************************************************)
(* The refinement.  What CheckPromise records as refused is what the       *)
(* reports and the events of the running checks say, a check has a verdict *)
(* exactly when it has ended, and before it produces nobody has refused    *)
(* its message.                                                            *)
(***************************************************************************)
Refusals ==
    \A p \in Partitions, n \in 1..cycle :
        <<p, n, FALSE>> \in reports => <<p, n>> \in refused

Told(p) ==
    /\ pc[p] = "done" <=> (cycle = 0 \/ outcome[p] # "none")
    /\ fired[p] = "failed" => pc[p] \in {"wait", "poll"} /\ <<p, cycle>> \in refused
    /\ pc[p] \in {"queued", "seek", "produce"} => <<p, cycle>> \notin refused

PromiseInv == CheckInv /\ Refusals /\ \A p \in Partitions : Told(p)

\* Before the first cycle nobody has been told anything.
LEMMA InitPromiseInv == Init => PromiseInv
<1> SUFFICES ASSUME Init
             PROVE  PromiseInv
  OBVIOUS
<1>1. Refusals /\ \A p \in Partitions : Told(p)
  BY DEF Init, Refusals, Told
<1>2. QED
  BY <1>1, InitCheckInv DEF PromiseInv

\* The end of a check is its verdict.
LEMMA FinishTold ==
    ASSUME PromiseInv, NEW p \in Partitions, NEW result \in Outcomes \ {"none"},
           Finish(p, result), cycle' = cycle, refused' = refused,
           reports' \subseteq reports
    PROVE  Refusals' /\ \A q \in Partitions : Told(q)'
<1>1. TypeOK /\ Refusals /\ \A q \in Partitions : Told(q)
  BY DEF PromiseInv, CheckInv
<1>2. Told(p)'
  BY <1>1 DEF Finish, Told, TypeOK
<1>3. ASSUME NEW q \in Partitions, q # p
      PROVE  Told(q)'
  BY <1>1, <1>3 DEF Finish, Told, TypeOK
<1>4. QED
  BY <1>1, <1>2, <1>3 DEF Refusals

\* Every step keeps it: a report is handed to the check of its own message.
LEMMA NextPromiseInv == PromiseInv /\ [Next]_vars => PromiseInv'
<1> SUFFICES ASSUME PromiseInv, [Next]_vars
             PROVE  Refusals' /\ \A q \in Partitions : Told(q)'
  BY NextCheckInv DEF PromiseInv
<1>0. /\ TypeOK /\ Refusals /\ \A q \in Partitions : Told(q)
      /\ cycle \in Nat
  BY Sizes DEF PromiseInv, CheckInv, TypeOK
<1>1. CASE NextCycle
  <2>1. Refusals'
    BY <1>0, <1>1 DEF NextCycle, Refusals, TypeOK
  <2>2. ASSUME NEW q \in Partitions
        PROVE  Told(q)'
    <3>1. cycle' # 0 /\ pc'[q] = "queued" /\ outcome'[q] = "none"
      BY <1>0, <1>1 DEF NextCycle
    <3>2. fired'[q] # "failed"
      BY <1>0, <1>1 DEF NextCycle, Told
    <3>3. <<q, cycle'>> \notin refused'
      BY <1>0, <1>1 DEF NextCycle, TypeOK
    <3>4. QED
      BY <3>1, <3>2, <3>3 DEF Told
  <2>3. QED
    BY <2>1, <2>2
<1>2. ASSUME NEW p \in Partitions, Begin(p) \/ SeekToEnd(p) \/ Produce(p) \/ EnterPoll(p)
                                   \/ PollReturns(p) \/ Delivered(p)
      PROVE  Refusals' /\ \A q \in Partitions : Told(q)'
  <2>1. /\ UNCHANGED <<cycle, outcome, fired, refused, reports>>
        /\ pc[p] # "done" /\ pc'[p] # "done"
        /\ \A q \in Partitions \ {p} : pc'[q] = pc[q]
        /\ fired[p] = "failed" => pc'[p] \in {"wait", "poll"}
        /\ pc'[p] \in {"queued", "seek", "produce"} => pc[p] \in {"queued", "seek", "produce"}
    BY <1>0, <1>2
       DEF Begin, SeekToEnd, Produce, EnterPoll, PollReturns, Delivered, Goto, TypeOK, Told
  <2>2. QED
    BY <1>0, <2>1 DEF Refusals, Told
<1>3. ASSUME NEW p \in Partitions, SeekFails(p) \/ ProduceRaises(p) \/ ProduceTimesOut(p)
                 \/ DeliveryFailed(p) \/ ConsumeFails(p) \/ ConsumeTimesOut(p)
                 \/ ServeRaises(p)
      PROVE  Refusals' /\ \A q \in Partitions : Told(q)'
  <2>1. PICK result \in Outcomes \ {"none"} : Finish(p, result)
    BY <1>3 DEF SeekFails, ProduceRaises, ProduceTimesOut, DeliveryFailed, ConsumeFails,
                ConsumeTimesOut, ServeRaises, Outcomes
  <2>2. cycle' = cycle /\ refused' = refused /\ reports' \subseteq reports
    BY <1>3 DEF SeekFails, ProduceRaises, ProduceTimesOut, DeliveryFailed, ConsumeFails,
                ConsumeTimesOut, ServeRaises
  <2>3. QED
    BY <2>1, <2>2, FinishTold
<1>4. ASSUME NEW p \in Partitions, ConsumeBatch(p)
      PROVE  Refusals' /\ \A q \in Partitions : Told(q)'
  <2>1. UNCHANGED <<cycle, refused, reports>>
    BY <1>4 DEF ConsumeBatch
  <2>2. CASE \E result \in Outcomes \ {"none"} : Finish(p, result)
    BY <2>1, <2>2, FinishTold
  <2>3. CASE UNCHANGED <<pc, fired, outcome>>
    BY <1>0, <2>1, <2>3 DEF Refusals, Told
  <2>4. QED
    BY <1>4, <2>2, <2>3 DEF ConsumeBatch, Outcomes
<1>5. ASSUME NEW q \in Partitions, Serve(q)
      PROVE  Refusals' /\ \A r \in Partitions : Told(r)'
  <2>1. PICK p \in Partitions, n \in 1..cycle, ok \in BOOLEAN :
          /\ <<p, n, ok>> \in reports
          /\ reports' = reports \ {<<p, n, ok>>}
          /\ fired' = IF Awaited(p, n)
                      THEN [fired EXCEPT ![p] = IF ok THEN "acked" ELSE "failed"]
                      ELSE fired
    BY <1>5 DEF Serve
  <2>2. UNCHANGED <<cycle, pc, refused, outcome>>
    BY <1>5 DEF Serve
  <2>3. ~ok => <<p, n>> \in refused
    BY <1>0, <2>1 DEF Refusals
  <2>4. ASSUME NEW r \in Partitions
        PROVE  \/ fired'[r] = fired[r] \/ fired'[r] = "acked"
               \/ pc[r] \in {"wait", "poll"} /\ <<r, cycle>> \in refused
    BY <1>0, <2>1, <2>3 DEF Awaited, TypeOK
  <2>5. QED
    BY <1>0, <2>1, <2>2, <2>4 DEF Refusals, Told
<1>6. ASSUME NEW p \in Partitions, Tick(p) \/ Cluster(p)
      PROVE  Refusals' /\ \A q \in Partitions : Told(q)'
  <2>1. UNCHANGED <<cycle, pc, fired, outcome>> /\ refused \subseteq refused'
    BY <1>6 DEF Tick, Cluster, Store, Refuse, StoreForeign
  <2>2. \A q \in Partitions, n \in 1..cycle :
          <<q, n, FALSE>> \in reports' => <<q, n, FALSE>> \in reports \/ <<q, n>> \in refused'
    <3>1. CASE Tick(p) \/ StoreForeign(p)
      BY <3>1 DEF Tick, StoreForeign
    <3>2. ASSUME NEW m \in 1..cycle, Store(p, m)
          PROVE  \A q \in Partitions, n \in 1..cycle :
                     <<q, n, FALSE>> \in reports' => <<q, n, FALSE>> \in reports
      <4>1. \/ reports' = reports \cup {<<p, m, TRUE>>}
            \/ reports' = reports
        BY <3>2 DEF Store
      <4>2. \A q \in Partitions, n \in 1..cycle : <<q, n, FALSE>> # <<p, m, TRUE>>
        OBVIOUS
      <4>3. ASSUME NEW q \in Partitions, NEW n \in 1..cycle, <<q, n, FALSE>> \in reports'
            PROVE  <<q, n, FALSE>> \in reports
        <5> DEFINE report == <<q, n, FALSE>>
        <5>1. report # <<p, m, TRUE>> /\ report \in reports'
          BY <4>2, <4>3
        <5> HIDE DEF report
        <5>2. report \in reports
          BY <4>1, <5>1
        <5>3. QED
          BY <5>2 DEF report
      <4>4. QED
        BY <4>3
    <3>3. ASSUME NEW m \in 1..cycle, Refuse(p, m)
          PROVE  \A q \in Partitions, n \in 1..cycle : <<q, n, FALSE>> \in reports' =>
                     <<q, n, FALSE>> \in reports \/ <<q, n>> \in refused'
      BY <3>3 DEF Refuse
    <3>4. QED
      BY <1>6, <3>1, <3>2, <3>3 DEF Cluster
  <2>3. ASSUME NEW q \in Partitions, NEW n \in 1..cycle, <<q, n, FALSE>> \in reports'
        PROVE  <<q, n>> \in refused'
    <3>1. <<q, n, FALSE>> \in reports => <<q, n>> \in refused
      BY <1>0 DEF Refusals
    <3>2. QED
      BY <2>1, <2>2, <2>3, <3>1
  <2>4. ASSUME NEW q \in Partitions, pc[q] \in {"queued", "seek", "produce"}
        PROVE  <<q, cycle>> \notin refused'
    <3>1. <<q, cycle>> \notin refused
      BY <1>0, <2>4 DEF Told
    <3>2. <<q, cycle>> \notin flight
      BY <2>4 DEF PromiseInv, CheckInv, Fresh
    <3>3. ASSUME NEW n \in 1..cycle, Refuse(p, n)
          PROVE  <<q, cycle>> \notin refused'
      BY <3>1, <3>2, <3>3 DEF Refuse
    <3>4. CASE UNCHANGED refused
      BY <3>1, <3>4
    <3>5. QED
      BY <1>6, <3>3, <3>4 DEF Tick, Cluster, Store, StoreForeign
  <2>5. \A q \in Partitions : Told(q)'
    BY <1>0, <2>1, <2>4 DEF Told
  <2>6. QED
    BY <2>1, <2>3, <2>5 DEF Refusals
<1>7. CASE UNCHANGED vars
  BY <1>0, <1>7 DEF vars, Refusals, Told
<1>8. QED
  BY <1>1, <1>2, <1>3, <1>4, <1>5, <1>6, <1>7 DEF Next, Check

\* Appending a message to a partition stores that message and no other.
LEMMA StoreStores ==
    ASSUME NEW p \in Partitions, NEW m \in Contents, TypeOK,
           log' = [log EXCEPT ![p] = Append(@, m)]
    PROVE  \A q \in Partitions, n \in Nat :
               Stored(q, n)' <=> Stored(q, n) \/ (q = p /\ n = m)
<1>1. \A q \in Partitions, n \in Nat : Stored(q, n) =>
        \E k \in DOMAIN log'[q] : log'[q][k] = n
  BY StoreOffsets
<1>2. \E k \in DOMAIN log'[p] : log'[p][k] = m
  BY StoreOffsets
<1>3. \A q \in Partitions : \A k \in DOMAIN log'[q] :
        \/ k \in DOMAIN log[q] /\ log'[q][k] = log[q][k]
        \/ q = p /\ k = Len(log[p]) + 1 /\ log'[q][k] = m
  BY StoreOffsets
<1>4. ASSUME NEW q \in Partitions, NEW n \in Nat
      PROVE  /\ Stored(q, n) <=> \E k \in DOMAIN log[q] : log[q][k] = n
             /\ Stored(q, n)' <=> \E k \in DOMAIN log'[q] : log'[q][k] = n
  BY DEF Stored, Offsets
<1>5. ASSUME NEW q \in Partitions, NEW n \in Nat, Stored(q, n)'
      PROVE  Stored(q, n) \/ (q = p /\ n = m)
  BY <1>3, <1>4, <1>5
<1>6. ASSUME NEW q \in Partitions, NEW n \in Nat, Stored(q, n) \/ (q = p /\ n = m)
      PROVE  Stored(q, n)'
  <2>1. \E k \in DOMAIN log'[q] : log'[q][k] = n
    BY <1>1, <1>2, <1>6
  <2>2. QED
    BY <1>4, <2>1
<1>7. QED
  BY <1>5, <1>6

\* A verdict of the code is a verdict of the abstract check, and it is true.
LEMMA FinishDecides ==
    ASSUME PromiseInv, NEW p \in Partitions, NEW result \in Outcomes \ {"none"},
           pc[p] # "done", Finish(p, result), UNCHANGED <<cycle, log, flight, refused>>,
           result \in {"success", "CONSUME", "CONSUME_TIMEOUT"} => Stored(p, cycle),
           result = "PRODUCE" => <<p, cycle>> \in refused \/ <<p, cycle>> \notin Sent
    PROVE  Promise!Next
<1>1. /\ cycle \in Nat /\ cycle > 0 /\ outcome[p] = "none"
      /\ outcome \in [Partitions -> Outcomes]
  BY Sizes DEF PromiseInv, CheckInv, Told, TypeOK
<1>2. UNCHANGED <<AllStored, Sent>>
  BY DEF AllStored, Sent, Stored, Offsets
<1>3. <<p, cycle>> \in Partitions \X (1..cycle)
  BY <1>1
<1>4. Promise!Decide(p, result)
  BY <1>1, <1>2, <1>3
     DEF Promise!Decide, Promise!Written, Promise!Lost, Promise!Unknown, Finish, Outcomes,
         AllStored
<1>5. result \in Promise!Written \cup Promise!Lost \cup Promise!Unknown
  BY DEF Promise!Written, Promise!Lost, Promise!Unknown, Outcomes
<1>6. QED
  BY <1>4, <1>5 DEF Promise!Next

\* Each step of the threads and of the cluster is a step of the abstract check
\* or leaves it alone.
LEMMA StepKeepsPromise == PromiseInv /\ [Next]_vars => [Promise!Next]_(Promise!vars)
<1> SUFFICES ASSUME PromiseInv, [Next]_vars
             PROVE  [Promise!Next]_(Promise!vars)
  OBVIOUS
<1>0. /\ CheckInv /\ TypeOK /\ cycle \in Nat /\ MaxCycles \in Nat
      /\ \A q \in Partitions : Told(q)
  BY Sizes DEF PromiseInv, CheckInv, TypeOK
<1>s. ASSUME UNCHANGED <<cycle, outcome, flight, refused>>,
             \A q \in Partitions, n \in 1..cycle : Stored(q, n)' <=> Stored(q, n)
      PROVE  UNCHANGED Promise!vars
  BY <1>s DEF Promise!vars, Sent, AllStored
<1>u. ASSUME UNCHANGED <<cycle, outcome, flight, refused, log>>
      PROVE  UNCHANGED Promise!vars
  BY <1>s, <1>u DEF Stored, Offsets
<1>1. CASE NextCycle
  <2>1. /\ cycle' = cycle + 1 /\ UNCHANGED <<log, flight, refused>> /\ cycle < MaxCycles
        /\ outcome' = [p \in Partitions |-> "none"]
        /\ \A p \in Partitions : cycle = 0 \/ outcome[p] # "none"
    BY <1>0, <1>1 DEF NextCycle, cluster, Told
  <2>2. \A p \in Partitions : ~Stored(p, cycle + 1)
    BY <1>0, <2>1 DEF CheckInv, NoFuture, Poison, Stored, Offsets
  <2>3. \A p \in Partitions, n \in 1..(cycle + 1) :
          Stored(p, n)' <=> n \in 1..cycle /\ Stored(p, n)
    BY <1>0, <2>1, <2>2 DEF Stored, Offsets
  <2>4. UNCHANGED <<AllStored, Sent>>
    BY <1>0, <2>1, <2>3 DEF AllStored, Sent
  <2>5. Promise!Begin
    BY <1>0, <2>1, <2>4 DEF Promise!Begin
  <2>6. QED
    BY <2>5 DEF Promise!Next
<1>2. ASSUME NEW p \in Partitions, Begin(p) \/ SeekToEnd(p) \/ EnterPoll(p)
                 \/ PollReturns(p) \/ Delivered(p) \/ Serve(p) \/ Tick(p)
      PROVE  UNCHANGED Promise!vars
  BY <1>2, <1>u
     DEF Begin, SeekToEnd, EnterPoll, PollReturns, Delivered, Goto, Serve, Tick, cluster
<1>12. ASSUME NEW p \in Partitions, Produce(p)
      PROVE  Promise!Next
  <2>1. /\ flight' = flight \cup {<<p, cycle>>}
        /\ UNCHANGED <<cycle, outcome, refused, log>>
        /\ pc[p] = "produce"
    BY <1>12 DEF Produce, Goto
  <2>2. cycle > 0 /\ outcome[p] = "none"
    BY <1>0, <2>1 DEF Told, TypeOK
  <2>3. AllStored' = AllStored
    BY <2>1 DEF AllStored, Stored, Offsets
  <2>4. Sent' = Sent \cup {<<p, cycle>>}
    BY <2>1, <2>3 DEF Sent
  <2>5. Promise!Send(p)
    BY <2>1, <2>2, <2>3, <2>4 DEF Promise!Send
  <2>6. QED
    BY <2>5 DEF Promise!Next
<1>3. ASSUME NEW p \in Partitions, SeekFails(p) \/ ProduceTimesOut(p) \/ ServeRaises(p)
      PROVE  Promise!Next
  <2>1. PICK result \in {"SEEK", "UNEXPECTED", "PRODUCE_TIMEOUT"} : Finish(p, result)
    BY <1>3 DEF SeekFails, ProduceTimesOut, ServeRaises
  <2>2. pc[p] # "done" /\ UNCHANGED <<cycle, log, flight, refused>>
    BY <1>3 DEF SeekFails, ProduceTimesOut, ServeRaises, cluster
  <2>3. QED
    BY <2>1, <2>2, FinishDecides DEF Outcomes
<1>13. ASSUME NEW p \in Partitions, ProduceRaises(p)
      PROVE  Promise!Next
  <2>1. PICK result \in {"PRODUCE", "UNEXPECTED"} : Finish(p, result)
    BY <1>13 DEF ProduceRaises
  <2>2. pc[p] = "produce" /\ UNCHANGED <<cycle, log, flight, refused>>
    BY <1>13 DEF ProduceRaises, cluster
  <2>3. <<p, cycle>> \notin Sent
    BY <1>0, <2>2 DEF CheckInv, Fresh, Told, Sent, AllStored
  <2>4. QED
    BY <2>1, <2>2, <2>3, FinishDecides DEF Outcomes
<1>4. ASSUME NEW p \in Partitions, DeliveryFailed(p)
      PROVE  Promise!Next
  BY <1>0, <1>4, FinishDecides DEF DeliveryFailed, Told, Outcomes, cluster
<1>5. ASSUME NEW p \in Partitions, ConsumeFails(p) \/ ConsumeTimesOut(p)
      PROVE  Promise!Next
  <2>1. PICK result \in {"CONSUME", "CONSUME_TIMEOUT"} : Finish(p, result)
    BY <1>5 DEF ConsumeFails, ConsumeTimesOut
  <2>2. /\ pc[p] # "done" /\ UNCHANGED <<cycle, log, flight, refused>> /\ Stored(p, cycle)
    BY <1>0, <1>5 DEF ConsumeFails, ConsumeTimesOut, CheckInv, Confirmed, cluster
  <2>3. QED
    BY <2>1, <2>2, FinishDecides DEF Outcomes
<1>6. ASSUME NEW p \in Partitions, ConsumeBatch(p)
      PROVE  [Promise!Next]_(Promise!vars)
  <2>1. /\ pc[p] # "done" /\ UNCHANGED <<cycle, log, flight, refused>> /\ Stored(p, cycle)
    BY <1>0, <1>6 DEF ConsumeBatch, CheckInv, Confirmed, cluster
  <2>2. CASE \E result \in {"success", "UNEXPECTED"} : Finish(p, result)
    BY <2>1, <2>2, FinishDecides DEF Outcomes
  <2>3. CASE UNCHANGED outcome
    BY <1>u, <2>1, <2>3
  <2>4. QED
    BY <1>6, <2>2, <2>3 DEF ConsumeBatch
<1>7. ASSUME NEW p \in Partitions, NEW n \in 1..cycle, Store(p, n)
      PROVE  Promise!Next
  <2>1. n \in Contents /\ n \in Nat
    BY <1>0 DEF Contents, TypeOK
  <2>2. \A q \in Partitions, k \in Nat :
          Stored(q, k)' <=> Stored(q, k) \/ (q = p /\ k = n)
    BY <1>0, <1>7, <2>1, StoreStores DEF Store
  <2>3. AllStored' = AllStored \cup {<<p, n>>}
    BY <1>7, <2>2 DEF Store, AllStored
  <2>4. Sent' = Sent
    BY <1>7, <2>3 DEF Store, Sent
  <2>5. Promise!Store(<<p, n>>)
    BY <1>7, <2>3, <2>4 DEF Store, Sent, Promise!Store
  <2>6. <<p, n>> \in Promise!Messages
    BY DEF Promise!Messages
  <2>7. QED
    BY <2>5, <2>6 DEF Promise!Next
<1>8. ASSUME NEW p \in Partitions, NEW n \in 1..cycle, Refuse(p, n)
      PROVE  Promise!Next
  <2>1. AllStored' = AllStored
    BY <1>8 DEF Refuse, AllStored, Stored, Offsets
  <2>2. Sent' = Sent
    BY <1>8, <2>1 DEF Refuse, Sent
  <2>3. Promise!Refuse(<<p, n>>)
    BY <1>8, <2>1, <2>2 DEF Refuse, Sent, Promise!Refuse
  <2>4. <<p, n>> \in Promise!Messages
    BY DEF Promise!Messages
  <2>5. QED
    BY <2>3, <2>4 DEF Promise!Next
<1>9. ASSUME NEW p \in Partitions, StoreForeign(p)
      PROVE  UNCHANGED Promise!vars
  <2>1. PICK m \in ForeignMessages : log' = [log EXCEPT ![p] = Append(@, m)]
    BY <1>9 DEF StoreForeign
  <2>2. m \in Contents /\ m \notin 1..cycle
    BY <1>0, Sizes DEF ForeignMessages, Contents, Foreign, Poison, TypeOK
  <2>3. \A q \in Partitions, k \in Nat :
          Stored(q, k)' <=> Stored(q, k) \/ (q = p /\ k = m)
    BY <1>0, <2>1, <2>2, StoreStores
  <2>4. QED
    BY <1>9, <1>s, <2>2, <2>3 DEF StoreForeign
<1>10. CASE UNCHANGED vars
  BY <1>10, <1>u DEF vars
<1>11. QED
  BY <1>1, <1>2, <1>3, <1>4, <1>5, <1>6, <1>7, <1>8, <1>9, <1>10, <1>12, <1>13
     DEF Next, Check, Cluster

\* The checks implement CheckPromise: one true verdict per partition and cycle,
\* never revised, for every schedule of the threads and every fault, also a
\* produce() that raises.
THEOREM PromiseKept == Spec => KeepsPromise
<1>1. Init => Promise!Init
  BY DEF Init, Promise!Init, Sent, AllStored
<1>2. Spec => []PromiseInv
  BY InitPromiseInv, NextPromiseInv, PTL DEF Spec
<1>3. QED
  BY <1>1, <1>2, StepKeepsPromise, PTL DEF Spec, KeepsPromise, Promise!Spec

-----------------------------------------------------------------------------
(***************************************************************************)
(* False alarms.  Without the fault that explains it, a report, a deadline *)
(* or a message that makes a check fail is never there.                    *)
(***************************************************************************)
\* What could make a check fail exists only if its fault does.
NothingSpurious ==
    /\ \A p \in Partitions, n \in 1..cycle :
           <<p, n, FALSE>> \in reports => "refused" \in Faults
    /\ \A p \in Partitions :
           /\ fired[p] = "failed" => "refused" \in Faults
           /\ late[p] => "slow" \in Faults
           /\ \A k \in DOMAIN log[p] : log[p][k] = Poison => "poison" \in Faults

AlarmInv == TypeOK /\ NothingSpurious /\ NoFalseAlarm

\* Before the first cycle nothing has happened.
LEMMA InitAlarmInv == Init => AlarmInv
<1> SUFFICES ASSUME Init
             PROVE  AlarmInv
  OBVIOUS
<1>1. \A p \in Partitions : log[p] = <<>> /\ DOMAIN log[p] = {}
  BY DEF Init
<1>2. QED
  BY <1>1, InitTypeOK DEF Init, AlarmInv, NothingSpurious, NoFalseAlarm

\* The end of a check that its fault explains, or that is a success.
LEMMA FinishNoFalseAlarm ==
    ASSUME AlarmInv, NEW p \in Partitions, NEW result \in Outcomes, Finish(p, result),
           UNCHANGED <<cycle, log>>, reports' \subseteq reports,
           \/ result = "success"
           \/ result = "SEEK" /\ "seek" \in Faults
           \/ result = "PRODUCE" /\ Faults \cap {"refused", "local"} # {}
           \/ result = "CONSUME" /\ "consume" \in Faults
           \/ result \in {"PRODUCE_TIMEOUT", "CONSUME_TIMEOUT"} /\ "slow" \in Faults
           \/ result = "UNEXPECTED" /\ Faults \cap {"local", "poison", "log"} # {}
    PROVE  NothingSpurious' /\ NoFalseAlarm'
<1>1. /\ outcome' = [outcome EXCEPT ![p] = result]
      /\ fired' = [fired EXCEPT ![p] = "none"] /\ late' = [late EXCEPT ![p] = FALSE]
      /\ fired \in [Partitions -> {"none", "acked", "failed"}]
      /\ late \in [Partitions -> BOOLEAN] /\ outcome \in [Partitions -> Outcomes]
  BY DEF Finish, AlarmInv, TypeOK
<1>2. NothingSpurious'
  BY <1>1 DEF AlarmInv, NothingSpurious
<1>3. NoFalseAlarm'
  <2>1. \A q \in Partitions : outcome'[q] = IF q = p THEN result ELSE outcome[q]
    BY <1>1
  <2>2. QED
    BY <2>1 DEF AlarmInv, NoFalseAlarm
<1>4. QED
  BY <1>2, <1>3

\* Every step keeps it: messages of other instances, retries and reports served
\* by another thread explain no failure.
LEMMA NextAlarmInv == AlarmInv /\ [Next]_vars => AlarmInv'
<1> SUFFICES ASSUME AlarmInv, [Next]_vars
             PROVE  NothingSpurious' /\ NoFalseAlarm'
  BY NextTypeOK DEF AlarmInv
<1>0. /\ TypeOK /\ NothingSpurious /\ NoFalseAlarm
      /\ cycle \in Nat /\ MaxCycles \in Nat
  BY Sizes DEF AlarmInv, TypeOK
<1>u. ASSUME UNCHANGED <<outcome>>
      PROVE  NoFalseAlarm'
  BY <1>0, <1>u DEF NoFalseAlarm
<1>1. CASE NextCycle
  <2>1. NoFalseAlarm'
    BY <1>1 DEF NextCycle, NoFalseAlarm
  <2>2. \A p \in Partitions, n \in 1..cycle' : <<p, n, FALSE>> \in reports => n \in 1..cycle
    BY <1>0 DEF TypeOK
  <2>3. QED
    BY <1>0, <1>1, <2>1, <2>2 DEF NextCycle, NothingSpurious
<1>2. ASSUME NEW p \in Partitions, Begin(p) \/ SeekToEnd(p) \/ Produce(p) \/ EnterPoll(p)
                 \/ PollReturns(p)
      PROVE  NothingSpurious' /\ NoFalseAlarm'
  BY <1>0, <1>2, <1>u
     DEF Begin, SeekToEnd, Produce, EnterPoll, PollReturns, Goto, NothingSpurious
<1>3. ASSUME NEW p \in Partitions, Delivered(p) \/ Tick(p)
      PROVE  NothingSpurious' /\ NoFalseAlarm'
  <2>1. \A q \in Partitions : late'[q] => late[q] \/ "slow" \in Faults
    BY <1>0, <1>3 DEF Delivered, Tick, TypeOK
  <2>2. QED
    BY <1>0, <1>3, <1>u, <2>1 DEF Delivered, Tick, Goto, NothingSpurious
<1>4. ASSUME NEW p \in Partitions, SeekFails(p) \/ ProduceRaises(p) \/ ServeRaises(p)
      PROVE  NothingSpurious' /\ NoFalseAlarm'
  <2>1. CASE SeekFails(p)
    BY <2>1, FinishNoFalseAlarm DEF SeekFails, Outcomes
  <2>2. CASE ProduceRaises(p)
    BY <2>2, FinishNoFalseAlarm DEF ProduceRaises, Outcomes
  <2>3. CASE ServeRaises(p)
    BY <2>3, FinishNoFalseAlarm DEF ServeRaises, Outcomes
  <2>4. QED
    BY <1>4, <2>1, <2>2, <2>3
<1>5. ASSUME NEW p \in Partitions, ProduceTimesOut(p) \/ ConsumeTimesOut(p)
      PROVE  NothingSpurious' /\ NoFalseAlarm'
  <2>1. "slow" \in Faults
    BY <1>0, <1>5 DEF ProduceTimesOut, ConsumeTimesOut, DeadlineHit, NothingSpurious
  <2>2. QED
    BY <1>5, <2>1, FinishNoFalseAlarm DEF ProduceTimesOut, ConsumeTimesOut, Outcomes
<1>6. ASSUME NEW p \in Partitions, DeliveryFailed(p)
      PROVE  NothingSpurious' /\ NoFalseAlarm'
  <2>1. "refused" \in Faults
    BY <1>0, <1>6 DEF DeliveryFailed, NothingSpurious
  <2>2. QED
    BY <1>6, <2>1, FinishNoFalseAlarm DEF DeliveryFailed, Outcomes
<1>7. ASSUME NEW p \in Partitions, ConsumeFails(p)
      PROVE  NothingSpurious' /\ NoFalseAlarm'
  BY <1>7, FinishNoFalseAlarm DEF ConsumeFails, Outcomes
<1>8. ASSUME NEW p \in Partitions, ConsumeBatch(p)
      PROVE  NothingSpurious' /\ NoFalseAlarm'
  <2>1. PICK k \in Fetchable(p) :
          \/ Finish(p, "success")
          \/ Chokes(Batch(p, k)) /\ Finish(p, "UNEXPECTED")
          \/ UNCHANGED <<fired, late, outcome>>
    BY <1>8 DEF ConsumeBatch
  <2>2. UNCHANGED <<cycle, log, reports>>
    BY <1>8 DEF ConsumeBatch
  <2>3. Chokes(Batch(p, k)) => "poison" \in Faults
    <3> SUFFICES ASSUME Chokes(Batch(p, k))
                 PROVE  "poison" \in Faults
      OBVIOUS
    <3>1. PICK j \in DOMAIN Batch(p, k) : Batch(p, k)[j] = Poison
      BY DEF Chokes
    <3>2. j \in 1..k /\ log[p][pos[p] + j] = Poison
      BY <1>0, <3>1, BatchIs
    <3>3. pos[p] + j \in DOMAIN log[p]
      <4>1. /\ pos[p] \in Nat /\ log[p] \in Seq(Contents)
            /\ k \in Nat /\ pos[p] + k \in 1..Len(log[p]) /\ Len(log[p]) \in Nat
        BY <1>0, BatchIs DEF TypeOK
      <4>2. pos[p] + j \in 1..Len(log[p])
        BY <3>2, <4>1
      <4>3. QED
        BY <4>1, <4>2, LenProperties
    <3>4. QED
      BY <1>0, <3>2, <3>3 DEF NothingSpurious
  <2>4. CASE Finish(p, "success")
    BY <2>2, <2>4, FinishNoFalseAlarm DEF Outcomes
  <2>5. CASE Chokes(Batch(p, k)) /\ Finish(p, "UNEXPECTED")
    BY <2>2, <2>3, <2>5, FinishNoFalseAlarm DEF Outcomes
  <2>6. CASE UNCHANGED <<fired, late, outcome>>
    BY <1>0, <1>u, <2>2, <2>6 DEF NothingSpurious
  <2>7. QED
    BY <2>1, <2>4, <2>5, <2>6
<1>9. ASSUME NEW q \in Partitions, Serve(q)
      PROVE  NothingSpurious' /\ NoFalseAlarm'
  <2>1. PICK p \in Partitions, n \in 1..cycle, ok \in BOOLEAN :
          /\ <<p, n, ok>> \in reports /\ reports' = reports \ {<<p, n, ok>>}
          /\ fired' = IF Awaited(p, n)
                      THEN [fired EXCEPT ![p] = IF ok THEN "acked" ELSE "failed"]
                      ELSE fired
    BY <1>9 DEF Serve
  <2>2. UNCHANGED <<cycle, log, late, outcome>>
    BY <1>9 DEF Serve
  <2>3. ~ok => "refused" \in Faults
    BY <1>0, <2>1 DEF NothingSpurious
  <2>4. \A r \in Partitions : fired'[r] = "failed" => fired[r] = "failed" \/ ~ok
    BY <1>0, <2>1 DEF TypeOK
  <2>5. QED
    BY <1>0, <1>u, <2>1, <2>2, <2>3, <2>4 DEF NothingSpurious
<1>10. ASSUME NEW p \in Partitions, NEW n \in 1..cycle, Refuse(p, n)
       PROVE  NothingSpurious' /\ NoFalseAlarm'
  BY <1>0, <1>10, <1>u DEF Refuse, NothingSpurious
<1>11. ASSUME NEW p \in Partitions, NEW m \in Contents, m = Poison => "poison" \in Faults,
              log' = [log EXCEPT ![p] = Append(@, m)],
              UNCHANGED <<cycle, fired, late, outcome>>,
              \A q \in Partitions, n \in 1..cycle :
                  <<q, n, FALSE>> \in reports' => <<q, n, FALSE>> \in reports
       PROVE  NothingSpurious' /\ NoFalseAlarm'
  <2>1. \A q \in Partitions : \A k \in DOMAIN log'[q] :
          \/ k \in DOMAIN log[q] /\ log'[q][k] = log[q][k]
          \/ log'[q][k] = m
    BY <1>0, <1>11, StoreOffsets
  <2>2. QED
    BY <1>0, <1>11, <1>u, <2>1 DEF NothingSpurious
<1>12. ASSUME NEW p \in Partitions, NEW n \in 1..cycle, Store(p, n)
       PROVE  NothingSpurious' /\ NoFalseAlarm'
  <2>1. n \in Contents /\ n # Poison
    BY <1>0 DEF Contents, Poison, TypeOK
  <2>2. QED
    BY <1>11, <1>12, <2>1 DEF Store
<1>13. ASSUME NEW p \in Partitions, StoreForeign(p)
       PROVE  NothingSpurious' /\ NoFalseAlarm'
  <2>1. PICK m \in ForeignMessages : log' = [log EXCEPT ![p] = Append(@, m)]
    BY <1>13 DEF StoreForeign
  <2>2. m \in Contents /\ (m = Poison => "poison" \in Faults)
    BY <1>0 DEF ForeignMessages, Contents, Foreign, Poison
  <2>3. QED
    BY <1>11, <1>13, <2>1, <2>2 DEF StoreForeign
<1>14. CASE UNCHANGED vars
  BY <1>0, <1>14 DEF vars, NothingSpurious, NoFalseAlarm
<1>15. QED
  BY <1>1, <1>2, <1>3, <1>4, <1>5, <1>6, <1>7, <1>8, <1>9, <1>10, <1>12, <1>13, <1>14
     DEF Next, Check, Cluster

\* Every failure a check reports is one that happened, in the phase it names:
\* with a cluster that answers in time no check fails.
THEOREM AlarmsAreReal == Spec => []NoFalseAlarm
<1>1. AlarmInv => NoFalseAlarm
  BY DEF AlarmInv
<1>2. QED
  BY <1>1, InitAlarmInv, NextAlarmInv, PTL DEF Spec

=============================================================================
