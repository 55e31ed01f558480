-------------------------- MODULE TopicSync_proofs --------------------------
(***************************************************************************)
(* Theorems about TopicSync for any number of instances, brokers, scalings *)
(* and crashes.                                                            *)
(***************************************************************************)
EXTENDS TopicSync, TLAPS

\* Every state of topic.py's callers and of the topic has its type; in
\* particular a call in progress knows its broker count, and a running main
\* loop has at least one partition.
LEMMA InitTypeOK == Init => TypeOK
  BY BoundsAssumption DEF Init, TypeOK, Counts, Phases, Pcs, SyncPcs, ShrinkPcs, Absent

\* Every step of the sync code and of the cluster keeps every type.
LEMMA NextTypeOK == TypeOK /\ [Next]_vars => TypeOK'
<1> SUFFICES ASSUME TypeOK, [Next]_vars
             PROVE  TypeOK'
  OBVIOUS
<1> USE BoundsAssumption DEF TypeOK, Counts, Phases, Pcs, SyncPcs, ShrinkPcs
<1>1. CASE Settle
  BY <1>1 DEF Settle, Absent, locals
<1>2. ASSUME NEW n \in Counts, Scale(n)
      PROVE  TypeOK'
  BY <1>2 DEF Scale, locals
<1>3. ASSUME NEW i \in Instances, Progress(i)
      PROVE  TypeOK'
  <2> USE DEF cluster, locals, Goto, ClearLocals
  <2>1. CASE StartExisting(i)
    BY <2>1 DEF StartExisting
  <2>2. CASE StartMissing(i)
    BY <2>2 DEF StartMissing
  <2>3. CASE EnsureCreate(i)
    BY <2>3 DEF EnsureCreate, CreateTopic
  <2>4. CASE StartupSyncFails(i)
    BY <2>4 DEF StartupSyncFails, Exit
  <2>5. CASE NoChange(i)
    BY <2>5 DEF NoChange, Return, Visible
  <2>6. CASE ScaleDown(i)
    BY <2>6 DEF ScaleDown, Remember, Visible
  <2>7. CASE ScaleUp(i)
    BY <2>7 DEF ScaleUp, Remember, Visible
  <2>8. CASE AddPartitions(i)
    BY <2>8 DEF AddPartitions, Return
  <2>9. CASE AddPartitionsFails(i)
    BY <2>9 DEF AddPartitionsFails
  <2>10. CASE Refetch(i)
    <3>1. Refreshed(i) \in 1..MaxBrokers /\ seen[i] \in 1..MaxBrokers
      BY <2>10 DEF Refetch, Refreshed, Visible
    <3>2. CASE Return(i, Refreshed(i))
      BY <2>10, <3>1, <3>2 DEF Refetch, Return
    <3>3. CASE Return(i, seen[i])
      BY <2>10, <3>1, <3>3 DEF Refetch, Return
    <3>4. QED
      BY <2>10, <3>2, <3>3 DEF Refetch
  <2>11. CASE DeleteTopic(i)
    BY <2>11 DEF DeleteTopic, DropTopic, Exists
  <2>12. CASE PollGone(i)
    BY <2>12 DEF PollGone, Polling
  <2>13. CASE PollRecreated(i)
    BY <2>13 DEF PollRecreated, Polling, Return
  <2>14. CASE GiveUp(i)
    BY <2>14 DEF GiveUp, Return
  <2>15. CASE Recreate(i)
    BY <2>15 DEF Recreate, CreateTopic, Return
  <2>16. QED
    BY <1>3, <2>1, <2>2, <2>3, <2>4, <2>5, <2>6, <2>7, <2>8, <2>9, <2>10,
       <2>11, <2>12, <2>13, <2>14, <2>15 DEF Progress
<1>4. ASSUME NEW i \in Instances, Failure(i)
      PROVE  TypeOK'
  <2> USE DEF cluster, locals, ClearLocals, Exit
  <2>1. CASE EnsureCreateFails(i)
    BY <2>1 DEF EnsureCreateFails
  <2>2. CASE DeleteFails(i)
    BY <2>2 DEF DeleteFails, Return
  <2>3. CASE PollRaises(i)
    BY <2>3 DEF PollRaises
  <2>4. CASE RecreateFails(i)
    BY <2>4 DEF RecreateFails
  <2>5. CASE Crash(i)
    BY <2>5 DEF Crash
  <2>6. QED
    BY <1>4, <2>1, <2>2, <2>3, <2>4, <2>5 DEF Failure
<1>5. ASSUME NEW i \in Instances, Tick(i)
      PROVE  TypeOK'
  BY <1>5 DEF Tick, Polling, cluster
<1>6. CASE UNCHANGED vars
  BY <1>6 DEF vars
<1>7. QED
  BY <1>1, <1>2, <1>3, <1>4, <1>5, <1>6 DEF Next

\* In every run, with every fault, the pool, the cluster and the call in
\* progress keep their types.
THEOREM TypeCorrect == Spec => []TypeOK
<1>1. Init => TypeOK
  BY InitTypeOK
<1>2. TypeOK /\ [Next]_vars => TypeOK'
  BY NextTypeOK
<1>3. QED
  BY <1>1, <1>2, PTL DEF Spec

-----------------------------------------------------------------------------
(***************************************************************************)
(* Any instances, any faults.  What the topic may no longer show, the call *)
(* still knows: the comparison that chose the branch holds of its locals   *)
(* until it ends.                                                          *)
(***************************************************************************)
CallDecided(i) ==
    /\ pc[i] \in ShrinkPcs => want[i] < seen[i]
    /\ pc[i] \in {"scale_up", "refetch"} => seen[i] < want[i]

DecidedInv == TypeOK /\ \A i \in Instances : CallDecided(i)

\* No call is in progress at the start.
LEMMA InitDecidedInv == Init => DecidedInv
<1>1. ASSUME Init, NEW i \in Instances
      PROVE  CallDecided(i)
  BY <1>1 DEF Init, CallDecided, ShrinkPcs
<1>2. QED
  BY <1>1, InitTypeOK DEF DecidedInv

\* A call decides when it starts, keeps what it read, and forgets it at its end.
LEMMA NextDecidedInv == DecidedInv /\ [Next]_vars => DecidedInv'
<1> SUFFICES ASSUME DecidedInv, [Next]_vars
             PROVE  \A j \in Instances : CallDecided(j)'
  BY NextTypeOK DEF DecidedInv
<1> USE DEF DecidedInv, CallDecided, ShrinkPcs
<1>1. CASE Settle \/ (\E n \in Counts : Scale(n)) \/ UNCHANGED vars
  BY <1>1 DEF Settle, Scale, locals, vars
<1>2. ASSUME NEW i \in Instances, Progress(i) \/ Failure(i) \/ Tick(i),
             NEW j \in Instances
      PROVE  CallDecided(j)'
  <2> USE DEF TypeOK, cluster, locals, Goto, ClearLocals
  <2>1. CASE StartExisting(i) \/ StartMissing(i) \/ EnsureCreate(i)
    BY <2>1 DEF StartExisting, StartMissing, EnsureCreate
  <2>2. CASE ScaleDown(i)
    BY <2>2 DEF ScaleDown, Remember, TooManyPartitions, Counts
  <2>3. CASE ScaleUp(i)
    <3>1. topic.parts < brokers
      BY <2>3 DEF ScaleUp, TooManyPartitions, Counts
    <3>2. QED
      BY <2>3, <3>1 DEF ScaleUp, Remember
  <2>4. CASE AddPartitionsFails(i) \/ DeleteTopic(i) \/ PollGone(i) \/ Tick(i)
    BY <2>4 DEF AddPartitionsFails, DeleteTopic, PollGone, Polling, Tick
  <2>5. CASE \/ NoChange(i) \/ AddPartitions(i) \/ Refetch(i)
             \/ PollRecreated(i) \/ GiveUp(i) \/ Recreate(i) \/ DeleteFails(i)
    <3>1. pc' = [pc EXCEPT ![i] = "idle"] /\ ClearLocals(i)
      BY <2>5 DEF NoChange, AddPartitions, Refetch, PollRecreated, GiveUp,
                  Recreate, DeleteFails, Return
    <3>2. QED
      BY <3>1
  <2>6. CASE \/ StartupSyncFails(i) \/ EnsureCreateFails(i) \/ PollRaises(i)
             \/ RecreateFails(i) \/ Crash(i)
    <3>1. pc' = [pc EXCEPT ![i] = "down"] /\ ClearLocals(i)
      BY <2>6 DEF StartupSyncFails, EnsureCreateFails, PollRaises,
                  RecreateFails, Crash, Exit
    <3>2. QED
      BY <3>1
  <2>7. QED
    BY <1>2, <2>1, <2>2, <2>3, <2>4, <2>5, <2>6 DEF Progress, Failure
<1>3. QED
  BY <1>1, <1>2 DEF Next

\* Under every fault and any interleaving a topic is deleted only by a call that
\* read more partitions than brokers, and grows only by one that read fewer.
THEOREM TopicChangesWarranted == Spec => ChangesWarranted
<1> DEFINE Warranted ==
        /\ Exists /\ topic'.phase = "deleting" =>
             \E i \in Instances : pc[i] = "delete" /\ want[i] < seen[i]
        /\ Exists /\ topic'.parts # topic.parts =>
             \E i \in Instances : seen[i] < want[i] /\ topic'.parts = want[i]
<1>1. ASSUME DecidedInv, [Next]_vars
      PROVE  [Warranted]_vars
  <2> USE DEF DecidedInv, CallDecided, TypeOK, Exists
  <2>1. CASE UNCHANGED topic
    BY <2>1
  <2>2. CASE Settle
    BY <2>2 DEF Settle
  <2>3. ASSUME NEW i \in Instances, AddPartitions(i)
        PROVE  Warranted
    BY <1>1, <2>3 DEF AddPartitions
  <2>4. ASSUME NEW i \in Instances, EnsureCreate(i) \/ Recreate(i)
        PROVE  Warranted
    BY <2>4 DEF EnsureCreate, Recreate, CreateTopic
  <2>5. ASSUME NEW i \in Instances, DeleteTopic(i)
        PROVE  Warranted
    BY <1>1, <2>5 DEF DeleteTopic, DropTopic, ShrinkPcs
  <2>6. ASSUME NEW i \in Instances,
               \/ StartExisting(i) \/ StartMissing(i) \/ StartupSyncFails(i)
               \/ NoChange(i) \/ ScaleDown(i) \/ ScaleUp(i)
               \/ AddPartitionsFails(i) \/ Refetch(i) \/ PollGone(i)
               \/ PollRecreated(i) \/ GiveUp(i) \/ Failure(i) \/ Tick(i)
        PROVE  UNCHANGED topic
    BY <2>6 DEF StartExisting, StartMissing, StartupSyncFails, NoChange,
         ScaleDown, ScaleUp, AddPartitionsFails, Refetch, PollGone,
         PollRecreated, GiveUp, Failure, EnsureCreateFails, DeleteFails,
         PollRaises, RecreateFails, Crash, Tick, cluster
  <2>7. CASE (\E n \in Counts : Scale(n)) \/ UNCHANGED vars
    BY <2>7, <2>1 DEF Scale, vars
  <2>8. QED
    BY <1>1, <2>1, <2>2, <2>3, <2>4, <2>5, <2>6, <2>7 DEF Next, Progress
<1>2. QED
  BY <1>1, InitDecidedInv, NextDecidedInv, PTL DEF Spec, ChangesWarranted

-----------------------------------------------------------------------------
(***************************************************************************)
(* Growing clusters.  GrowInv adds to PoolWithinTopic why it is preserved: *)
(* nobody is on the way to a deletion, and what a call in progress read    *)
(* may be stale, but only downwards.                                       *)
(***************************************************************************)
GrowTopic ==
    /\ topic.phase # "deleting"
    /\ topic.parts <= brokers

GrowCall(i) ==
    /\ pc[i] \notin ShrinkPcs
    /\ want[i] <= brokers
    /\ pc[i] \in {"scale_up", "refetch"} => Exists /\ seen[i] <= topic.parts

GrowInv ==
    /\ TypeOK
    /\ GrowTopic
    /\ \A i \in Instances : GrowCall(i)
    /\ PoolWithinTopic

\* The start of the process satisfies the invariant: nothing is pooled yet.
LEMMA InitGrowInv == ~CanShrink /\ Init => GrowInv
<1> SUFFICES ASSUME ~CanShrink, Init
             PROVE  GrowInv
  OBVIOUS
<1>1. TypeOK
  BY InitTypeOK
<1>2. GrowTopic
  <2>1. CASE topic = Absent
    BY <2>1, BoundsAssumption DEF Init, GrowTopic, Absent, Counts
  <2>2. CASE topic \in [phase : {"live"}, parts : Counts]
    BY <2>2, SwitchAssumption DEF Init, GrowTopic, Counts
  <2>3. QED
    BY <2>1, <2>2 DEF Init
<1>3. ASSUME NEW i \in Instances
      PROVE  GrowCall(i)
  <2>1. brokers \in 1..MaxBrokers /\ pc[i] = "down" /\ want[i] = 0
    BY DEF Init, Counts
  <2>2. QED
    BY <2>1, BoundsAssumption DEF GrowCall, ShrinkPcs
<1>4. PoolWithinTopic
  BY DEF Init, PoolWithinTopic
<1>5. QED
  BY <1>1, <1>2, <1>3, <1>4 DEF GrowInv

\* A step that leaves the cluster alone preserves what is known of an instance
\* that takes no part in it, and so does a step that only adds to the cluster.
LEMMA NextGrowInv ==
  ASSUME ~CanShrink, GrowInv, [Next]_vars
  PROVE  GrowInv'
<1>1. TypeOK'
  BY NextTypeOK DEF GrowInv
<1> USE BoundsAssumption DEF GrowInv, GrowTopic, GrowCall, PoolWithinTopic,
        Exists, ShrinkPcs
<1> DEFINE Goal == /\ GrowTopic'
                   /\ \A j \in Instances : GrowCall(j)'
                   /\ PoolWithinTopic'
<1> SUFFICES Goal
  BY <1>1
<1>2. CASE Settle
  BY <1>2 DEF TypeOK, Settle, Absent, locals, Counts
<1>3. ASSUME NEW n \in Counts, Scale(n)
      PROVE  Goal
  BY <1>3 DEF TypeOK, Scale, locals, Counts
<1>4. ASSUME NEW i \in Instances, Progress(i)
      PROVE  Goal
  <2> USE DEF TypeOK, cluster, locals, Goto, ClearLocals, Counts, Pcs, SyncPcs
  <2>1. CASE StartExisting(i)
    BY <2>1 DEF StartExisting
  <2>2. CASE StartMissing(i)
    BY <2>2 DEF StartMissing
  <2>3. CASE EnsureCreate(i)
    BY <2>3 DEF EnsureCreate, CreateTopic
  <2>4. CASE StartupSyncFails(i)
    BY <2>4 DEF StartupSyncFails, Exit
  <2>5. CASE NoChange(i)
    BY <2>5 DEF NoChange, Return, Visible
  <2>6. CASE ScaleDown(i)
    BY <2>6 DEF ScaleDown, TooManyPartitions
  <2>7. CASE ScaleUp(i)
    BY <2>7 DEF ScaleUp, Remember, Visible
  <2>8. CASE AddPartitions(i)
    BY <2>8 DEF AddPartitions, Return
  <2>9. CASE AddPartitionsFails(i)
    BY <2>9 DEF AddPartitionsFails
  <2>10. CASE Refetch(i)
    <3>1. Exists /\ Refreshed(i) <= topic.parts /\ seen[i] <= topic.parts
      BY <2>10 DEF Refetch, Refreshed, Visible
    <3>2. Refreshed(i) \in 0..MaxBrokers
      BY DEF Refreshed
    <3>3. CASE Return(i, Refreshed(i))
      BY <2>10, <3>1, <3>2, <3>3 DEF Refetch, Return
    <3>4. CASE Return(i, seen[i])
      BY <2>10, <3>1, <3>4 DEF Refetch, Return
    <3>5. QED
      BY <2>10, <3>3, <3>4 DEF Refetch
  <2>11. CASE DeleteTopic(i) \/ Recreate(i) \/ GiveUp(i)
    BY <2>11 DEF DeleteTopic, Recreate, GiveUp
  <2>12. CASE PollGone(i) \/ PollRecreated(i)
    BY <2>12 DEF PollGone, PollRecreated, Polling
  <2>13. QED
    BY <1>4, <2>1, <2>2, <2>3, <2>4, <2>5, <2>6, <2>7, <2>8, <2>9, <2>10,
       <2>11, <2>12 DEF Progress
<1>5. ASSUME NEW i \in Instances, Failure(i)
      PROVE  Goal
  <2> USE DEF TypeOK, cluster, locals, ClearLocals, Exit, Counts, Pcs, SyncPcs
  <2>1. CASE EnsureCreateFails(i)
    BY <2>1 DEF EnsureCreateFails
  <2>2. CASE DeleteFails(i) \/ RecreateFails(i) \/ PollRaises(i)
    BY <2>2 DEF DeleteFails, RecreateFails, PollRaises, Polling
  <2>3. CASE Crash(i)
    BY <2>3 DEF Crash
  <2>4. QED
    BY <1>5, <2>1, <2>2, <2>3 DEF Failure
<1>6. ASSUME NEW i \in Instances, Tick(i)
      PROVE  Goal
  BY <1>6 DEF Tick, Polling
<1>7. CASE UNCHANGED vars
  BY <1>7 DEF vars
<1>8. QED
  BY <1>2, <1>3, <1>4, <1>5, <1>6, <1>7 DEF Next

\* On a cluster that only grows the invariant holds in every reachable state.
THEOREM GrowInvariant ==
  ASSUME ~CanShrink
  PROVE  Spec => []GrowInv
<1>1. Init => GrowInv
  BY InitGrowInv
<1>2. GrowInv /\ [Next]_vars => GrowInv'
  BY NextGrowInv
<1>3. QED
  BY <1>1, <1>2, PTL DEF Spec

\* Consumers exist only for partitions that exist: main.py's pool never runs
\* ahead of the topic, on a cluster that only grows.
THEOREM PoolSafe ==
  ASSUME ~CanShrink
  PROVE  Spec => []PoolWithinTopic
<1>1. GrowInv => PoolWithinTopic
  BY DEF GrowInv
<1>2. QED
  BY <1>1, GrowInvariant, PTL

\* No call of topic.py removes the topic or takes partitions from it, on a
\* cluster that only grows.
THEOREM TopicKept ==
  ASSUME ~CanShrink
  PROVE  Spec => GrowthKeepsTopic
<1> DEFINE Kept == Exists => /\ topic'.phase \in {"creating", "live"}
                             /\ topic'.parts >= topic.parts
<1>1. ASSUME GrowInv, [Next]_vars
      PROVE  [Kept]_vars
  <2> USE DEF GrowInv, GrowTopic, TypeOK, Exists
  <2>1. CASE UNCHANGED topic
    BY <1>1, <2>1
  <2>2. CASE Settle
    BY <1>1, <2>2 DEF Settle
  <2>3. ASSUME NEW i \in Instances, AddPartitions(i)
        PROVE  Kept
    BY <1>1, <2>3 DEF AddPartitions
  <2>4. ASSUME NEW i \in Instances, EnsureCreate(i) \/ Recreate(i)
        PROVE  Kept
    BY <1>1, <2>4 DEF EnsureCreate, Recreate, CreateTopic
  <2>5. ASSUME NEW i \in Instances, DeleteTopic(i)
        PROVE  FALSE
    BY <1>1, <2>5 DEF DeleteTopic, GrowCall, ShrinkPcs
  <2>6. QED
    BY <1>1, <2>1, <2>2, <2>3, <2>4, <2>5
    DEF Next, vars, cluster, Scale, Progress, Failure, Tick, StartExisting,
        StartMissing, StartupSyncFails, NoChange, ScaleDown, ScaleUp,
        AddPartitionsFails, Refetch, PollGone, PollRecreated, GiveUp,
        EnsureCreateFails, DeleteFails, PollRaises, RecreateFails, Crash
<1>2. QED
  BY <1>1, GrowInvariant, PTL DEF Spec, GrowthKeepsTopic

\* What an instance has come to check exists, so that it may be adopted.
LEMMA ReturnAdopts ==
  ASSUME GrowInv, NEW i \in Instances, NEW n \in 1..MaxBrokers, Return(i, n),
         Exists, n <= topic.parts, UNCHANGED <<brokers, topic>>
  PROVE  Shared!Next
<1>1. Shared!Adopt(i, n)
  BY DEF Shared!Adopt, Return, Exists
<1>2. QED
  BY <1>1 DEF Shared!Next, Shared!Counts

\* Each step of the sync code, of the cluster and of its operators is a step of
\* the shared topic or leaves it alone, while brokers are only added.
LEMMA StepSharesTopic ==
  ASSUME ~CanShrink, GrowInv, [Next]_vars
  PROVE  [Shared!Next]_(Shared!vars)
<1> USE DEF cluster, locals, Goto, ClearLocals
<1>0. /\ TypeOK /\ GrowTopic /\ \A i \in Instances : GrowCall(i)
      /\ brokers \in 1..MaxBrokers /\ topic.parts <= brokers
      /\ topic.phase \in {"absent", "creating", "live"}
      /\ topic.phase # "absent" => topic.parts \in 1..MaxBrokers
  BY DEF GrowInv, GrowTopic, TypeOK, Counts, Phases
<1>u. ASSUME UNCHANGED <<brokers, topic, pool>>
      PROVE  UNCHANGED Shared!vars
  BY <1>u DEF Shared!vars
<1>1. CASE Settle
  <2>1. Shared!Appear
    BY <1>0, <1>1 DEF Settle, Shared!Appear
  <2>2. QED
    BY <2>1 DEF Shared!Next
<1>2. ASSUME NEW n \in Counts, Scale(n)
      PROVE  Shared!Next
  <2>1. Shared!BrokersAdded
    BY <1>2 DEF Scale, Shared!BrokersAdded, Counts, Shared!Counts
  <2>2. QED
    BY <2>1 DEF Shared!Next
<1>3. ASSUME NEW i \in Instances, Exit(i), UNCHANGED <<brokers, topic>>
      PROVE  Shared!Next
  <2>1. Shared!Leave(i)
    BY <1>3 DEF Exit, Shared!Leave
  <2>2. QED
    BY <2>1 DEF Shared!Next
<1>4. ASSUME NEW i \in Instances, StartExisting(i) \/ StartMissing(i) \/ ScaleUp(i)
                                  \/ AddPartitionsFails(i) \/ Tick(i)
      PROVE  UNCHANGED Shared!vars
  BY <1>4, <1>u DEF StartExisting, StartMissing, ScaleUp, AddPartitionsFails, Tick, Remember
<1>5. ASSUME NEW i \in Instances, EnsureCreate(i)
      PROVE  [Shared!Next]_(Shared!vars)
  <2>1. want[i] \in 1..MaxBrokers /\ want[i] <= brokers /\ UNCHANGED <<brokers, pool>>
    BY <1>0, <1>5 DEF EnsureCreate, TypeOK, GrowCall
  <2>2. CASE topic.phase = "absent"
    <3>1. Shared!Create(want[i])
      BY <1>5, <2>1, <2>2 DEF EnsureCreate, CreateTopic, Shared!Create
    <3>2. QED
      BY <2>1, <3>1 DEF Shared!Next, Shared!Counts
  <2>3. CASE topic.phase # "absent"
    BY <1>5, <1>u, <2>1, <2>3 DEF EnsureCreate, CreateTopic
  <2>4. QED
    BY <2>2, <2>3
<1>6. ASSUME NEW i \in Instances, NoChange(i)
      PROVE  Shared!Next
  <2>1. Return(i, topic.parts) /\ Exists /\ topic.parts \in 1..MaxBrokers
        /\ UNCHANGED <<brokers, topic>>
    BY <1>0, <1>6 DEF NoChange, Visible, Exists
  <2>2. QED
    BY <2>1, ReturnAdopts DEF GrowInv, TypeOK
<1>7. ASSUME NEW i \in Instances, AddPartitions(i)
      PROVE  Shared!Next
  <2>1. want[i] \in 1..MaxBrokers /\ want[i] <= brokers
    BY <1>0, <1>7 DEF AddPartitions, TypeOK, GrowCall, SyncPcs
  <2>2. Shared!Extend(i, want[i])
    BY <1>7, <2>1 DEF AddPartitions, Return, Exists, Shared!Extend
  <2>3. QED
    BY <2>1, <2>2 DEF Shared!Next, Shared!Counts
<1>8. ASSUME NEW i \in Instances, Refetch(i)
      PROVE  Shared!Next
  <2>1. /\ Exists /\ seen[i] <= topic.parts /\ seen[i] \in 1..MaxBrokers
        /\ topic.parts \in 1..MaxBrokers
    BY <1>0, <1>8 DEF Refetch, GrowCall, Exists, TypeOK, SyncPcs
  <2>2. PICK n \in {topic.parts, seen[i]} : Return(i, n)
    BY <1>8 DEF Refetch, Refreshed
  <2>3. n \in 1..MaxBrokers /\ n <= topic.parts /\ UNCHANGED <<brokers, topic>>
    BY <1>8, <2>1, <2>2 DEF Refetch
  <2>4. QED
    BY <2>1, <2>2, <2>3, ReturnAdopts
<1>9. ASSUME NEW i \in Instances,
             ScaleDown(i) \/ DeleteTopic(i) \/ PollGone(i) \/ PollRecreated(i)
             \/ GiveUp(i) \/ Recreate(i) \/ DeleteFails(i) \/ PollRaises(i)
             \/ RecreateFails(i)
      PROVE  FALSE
  BY <1>0, <1>9
     DEF ScaleDown, TooManyPartitions, DeleteTopic, PollGone, PollRecreated, GiveUp,
         Recreate, DeleteFails, PollRaises, RecreateFails, Polling, GrowCall, ShrinkPcs,
         TypeOK
<1>10. ASSUME NEW i \in Instances, StartupSyncFails(i) \/ EnsureCreateFails(i) \/ Crash(i)
       PROVE  Shared!Next
  BY <1>3, <1>10 DEF StartupSyncFails, EnsureCreateFails, Crash
<1>11. CASE UNCHANGED vars
  BY <1>11, <1>u DEF vars
<1>12. QED
  BY <1>1, <1>2, <1>4, <1>5, <1>6, <1>7, <1>8, <1>9, <1>10, <1>11
     DEF Next, Progress, Failure

\* On a cluster that only grows the instances implement SharedTopic, whatever
\* fails and however their syncs interleave.
THEOREM TopicShared ==
  ASSUME ~CanShrink
  PROVE  Spec => SharesTopic
<1>1. Init => Shared!Init
  BY BoundsAssumption, SwitchAssumption
     DEF Init, Shared!Init, Absent, Shared!Absent, Counts, Shared!Counts
<1>2. GrowInv /\ [Next]_vars => [Shared!Next]_(Shared!vars)
  BY StepSharesTopic
<1>3. QED
  BY <1>1, <1>2, GrowInvariant, PTL DEF Spec, SharesTopic, Shared!Spec

-----------------------------------------------------------------------------
(***************************************************************************)
(* One instance and brokers coming and going.  A creation or an addition   *)
(* of partitions may be refused; each of the other faults alone breaks     *)
(* PoolMatchesTopic.  SoloInv says what the cluster looks like at each     *)
(* label of the instance.                                                  *)
(***************************************************************************)
Solo ==
    /\ \A i, j \in Instances : i = j
    /\ Faults \subseteq {"create", "partitions"}

SoloAt(i) ==
    /\ ~late[i]
    /\ pc[i] \in {"down", "ensure_create"} => topic.phase # "deleting"
    /\ pc[i] = "init_sync" => Exists
    /\ pc[i] = "idle" => Exists /\ pool[i] = topic.parts
    /\ pc[i] = "scale_up" => topic.phase = "live" /\ topic.parts < want[i]
    /\ pc[i] \in {"scale_up", "refetch"} =>
          topic.phase = "live" /\ seen[i] = topic.parts
    /\ pc[i] = "delete" => topic.phase = "live" /\ want[i] < topic.parts
    /\ pc[i] = "await" =>
          \/ topic.phase = "absent"
          \/ topic.phase = "deleting" /\ want[i] < topic.parts
    /\ pc[i] = "recreate" => topic.phase = "absent"

SoloInv == TypeOK /\ \A i \in Instances : SoloAt(i)

\* The start of the process satisfies the invariant of a lone instance.
LEMMA InitSoloInv == Solo /\ Init => SoloInv
<1> SUFFICES ASSUME Solo, Init
             PROVE  SoloInv
  OBVIOUS
<1>1. topic.phase # "deleting"
  BY DEF Init, Absent
<1>2. ASSUME NEW i \in Instances
      PROVE  pc[i] = "down" /\ late[i] = FALSE
  BY DEF Init
<1>3. QED
  BY <1>1, <1>2, InitTypeOK DEF SoloInv, SoloAt

\* So does every step, when nobody else alters the topic: a refused creation
\* ends the process before the topic exists, and a refused addition of
\* partitions leaves the count that was read.
LEMMA NextSoloInv ==
  ASSUME Solo, SoloInv, [Next]_vars
  PROVE  SoloInv'
<1>1. TypeOK'
  BY NextTypeOK DEF SoloInv
<1> USE DEF SoloInv, SoloAt, Exists, TypeOK
<1> DEFINE Goal == \A j \in Instances : SoloAt(j)'
<1> SUFFICES Goal
  BY <1>1
<1>2. CASE Settle
  BY <1>2 DEF Settle, Absent, locals
<1>3. ASSUME NEW n \in Counts, Scale(n)
      PROVE  Goal
  BY <1>3 DEF Scale, locals
<1>4. ASSUME NEW i \in Instances, Progress(i)
      PROVE  Goal
  <2>0. ASSUME SoloAt(i)'
        PROVE  Goal
    BY <2>0 DEF Solo
  <2> SUFFICES SoloAt(i)'
    BY <2>0
  <2> USE DEF cluster, locals, Goto, ClearLocals, Visible, Solo
  <2>1. CASE StartExisting(i) \/ StartMissing(i)
    BY <2>1 DEF StartExisting, StartMissing
  <2>2. CASE EnsureCreate(i)
    BY <2>2 DEF EnsureCreate, CreateTopic, Phases
  <2>3. CASE StartupSyncFails(i)
    BY <2>3 DEF StartupSyncFails, Exit
  <2>4. CASE NoChange(i)
    BY <2>4 DEF NoChange, Return, Syncing
  <2>5. CASE ScaleDown(i)
    BY <2>5 DEF ScaleDown, Remember, TooManyPartitions, Syncing, Counts
  <2>6. CASE ScaleUp(i)
    BY <2>6, BoundsAssumption
    DEF ScaleUp, Remember, TooManyPartitions, Syncing, Counts
  <2>7. CASE AddPartitions(i)
    BY <2>7 DEF AddPartitions, Return
  <2>8. CASE AddPartitionsFails(i) \/ Refetch(i)
    BY <2>8 DEF AddPartitionsFails, Refetch, Refreshed, Return
  <2>9. CASE DeleteTopic(i)
    BY <2>9 DEF DeleteTopic, DropTopic
  <2>10. CASE PollGone(i)
    BY <2>10 DEF PollGone, Polling, DeletionSeen, Phases
  <2>11. CASE PollRecreated(i) \/ GiveUp(i)
    BY <2>11 DEF PollRecreated, Polling, GiveUp
  <2>12. CASE Recreate(i)
    BY <2>12 DEF Recreate, CreateTopic, Return
  <2>13. QED
    BY <1>4, <2>1, <2>2, <2>3, <2>4, <2>5, <2>6, <2>7, <2>8, <2>9, <2>10,
       <2>11, <2>12 DEF Progress
<1>5. ASSUME NEW i \in Instances, Failure(i) \/ Tick(i)
      PROVE  Goal
  <2>1. EnsureCreateFails(i) \/ RecreateFails(i)
    BY <1>5 DEF Solo, Failure, Tick, DeleteFails, PollRaises, Crash
  <2>2. SoloAt(i)'
    BY <2>1 DEF EnsureCreateFails, RecreateFails, Exit, ClearLocals, cluster
  <2>3. QED
    BY <2>2 DEF Solo
<1>6. CASE UNCHANGED vars
  BY <1>6 DEF vars
<1>7. QED
  BY <1>2, <1>3, <1>4, <1>5, <1>6 DEF Next

\* A lone instance checks, between two syncs, exactly the partitions of a topic
\* that exists, through any series of scalings, even if the cluster refuses
\* creations and additions of partitions.
THEOREM SoloPoolMatches ==
  ASSUME Solo
  PROVE  Spec => []PoolMatchesTopic
<1>1. Init => SoloInv
  BY InitSoloInv
<1>2. SoloInv /\ [Next]_vars => SoloInv'
  BY NextSoloInv
<1>3. SoloInv => PoolMatchesTopic
  BY DEF SoloInv, SoloAt, PoolMatchesTopic
<1>4. QED
  BY <1>1, <1>2, <1>3, PTL DEF Spec

=============================================================================
