----------------------------- MODULE TopicSync -----------------------------
(***************************************************************************)
(* The life cycle of the canary topic (topic.py) as several cloud_canary   *)
(* instances drive it: ensure_topic at startup, then                       *)
(* sync_topic_partitions at startup and on its own cadence, which adds     *)
(* partitions when brokers were added and deletes and recreates the topic  *)
(* when brokers were removed.                                              *)
(*                                                                         *)
(* The instances share nothing but the cluster.  Every admin call is one   *)
(* step, so anything another instance or the cluster does may happen       *)
(* between a metadata fetch and the call that acts on it.  The cluster     *)
(* applies a creation and a deletion in the background (Settle): a topic   *)
(* being created is not in the metadata yet, one being deleted still is.   *)
(***************************************************************************)
EXTENDS Naturals

CONSTANTS
    Instances,      \* the canary processes that run against the cluster
    MaxBrokers,     \* bound: broker counts range over 1..MaxBrokers
    MaxScalings,    \* bound: how often the broker count changes
    MaxCrashes,     \* bound: how often an instance is killed
    CanShrink,      \* may the topic ever have more partitions than brokers?
    Faults          \* what may go wrong, a subset of FaultKinds

FaultKinds ==
    {"metadata",    \* list_topics raises KafkaException
     "create",      \* create_topics is refused (not TOPIC_ALREADY_EXISTS)
     "delete",      \* delete_topics is refused (not UNKNOWN_TOPIC_OR_PART)
     "partitions",  \* create_partitions is refused
     "timeout",     \* deletion outlasts DELETE_PROPAGATION_TIMEOUT_SECONDS
     "crash"}       \* an instance is killed at any point

ASSUME BoundsAssumption ==
    /\ MaxBrokers \in Nat \ {0}
    /\ MaxScalings \in Nat
    /\ MaxCrashes \in Nat
ASSUME SwitchAssumption == CanShrink \in BOOLEAN /\ Faults \subseteq FaultKinds

VARIABLES
    brokers,    \* len(metadata.brokers)
    topic,      \* [phase, parts] of the canary topic on the cluster
    pc,         \* where each instance is
    want,       \* num_brokers as the call in progress read it (0: no call)
    seen,       \* current_partitions as the call in progress read it
    pool,       \* partitions main.py believes in: len(partitions), 0 before
    late,       \* has the deadline of _delete_and_recreate passed?
    scalings, crashes   \* used-up bounds

cluster == <<brokers, topic, scalings>>
locals == <<want, seen, late>>
vars == <<brokers, topic, pc, want, seen, pool, late, scalings, crashes>>

Counts == 1..MaxBrokers
Phases == {"absent", "creating", "live", "deleting"}
ShrinkPcs == {"delete", "await", "recreate"}
SyncPcs == {"scale_up", "refetch"} \cup ShrinkPcs
Pcs == {"down", "ensure_create", "init_sync", "idle"} \cup SyncPcs

TypeOK ==
    /\ brokers \in Counts
    /\ topic \in [phase : Phases, parts : 0..MaxBrokers]
    /\ topic.phase # "absent" => topic.parts > 0
    /\ pc \in [Instances -> Pcs]
    /\ want \in [Instances -> 0..MaxBrokers]
    /\ seen \in [Instances -> 0..MaxBrokers]
    /\ pool \in [Instances -> 0..MaxBrokers]
    /\ late \in [Instances -> BOOLEAN]
    /\ scalings \in 0..MaxScalings
    /\ crashes \in 0..MaxCrashes
    /\ \A i \in Instances :
        /\ pc[i] \in {"ensure_create"} \cup SyncPcs => want[i] > 0
        /\ pc[i] \in SyncPcs => seen[i] > 0
        /\ pc[i] = "idle" => pool[i] > 0

Absent == [phase |-> "absent", parts |-> 0]
Exists == topic.phase \in {"creating", "live"}
Visible == topic.phase \in {"live", "deleting"}     \* topic in metadata.topics

(***************************************************************************)
(* The cluster.                                                            *)
(***************************************************************************)
\* create_topics: TOPIC_ALREADY_EXISTS is success, also while the old topic
\* is still being deleted.
CreateTopic(n) ==
    topic' = IF topic.phase = "absent" THEN [phase |-> "creating", parts |-> n]
                                       ELSE topic

\* delete_topics: UNKNOWN_TOPIC_OR_PART is success.
DropTopic ==
    topic' = IF Exists THEN [topic EXCEPT !.phase = "deleting"] ELSE topic

Settle ==
    /\ topic' = CASE topic.phase = "creating" -> [topic EXCEPT !.phase = "live"]
                  [] topic.phase = "deleting" -> Absent
                  [] OTHER -> topic
    /\ topic.phase \in {"creating", "deleting"}
    /\ UNCHANGED <<brokers, pc, locals, pool, scalings, crashes>>

Scale(n) ==
    /\ scalings < MaxScalings
    /\ n # brokers
    /\ CanShrink \/ n > brokers
    /\ brokers' = n
    /\ scalings' = scalings + 1
    /\ UNCHANGED <<topic, pc, locals, pool, crashes>>

(***************************************************************************)
(* What a call of topic.py does to the instance that made it.              *)
(***************************************************************************)
ClearLocals(i) ==
    /\ want' = [want EXCEPT ![i] = 0]
    /\ seen' = [seen EXCEPT ![i] = 0]
    /\ late' = [late EXCEPT ![i] = FALSE]

\* sync_topic_partitions returns (num_brokers, n); main.py rebuilds its pool.
Return(i, n) ==
    /\ pc' = [pc EXCEPT ![i] = "idle"]
    /\ pool' = [pool EXCEPT ![i] = n]
    /\ ClearLocals(i)

\* run() returns, or an exception leaves it: the process ends.
Exit(i) ==
    /\ pc' = [pc EXCEPT ![i] = "down"]
    /\ pool' = [pool EXCEPT ![i] = 0]
    /\ ClearLocals(i)

Goto(i, label) ==
    /\ pc' = [pc EXCEPT ![i] = label]
    /\ UNCHANGED pool

\* The instance keeps the metadata it just fetched in its local variables.
Remember(i) ==
    /\ want' = [want EXCEPT ![i] = brokers]
    /\ seen' = [seen EXCEPT ![i] = topic.parts]
    /\ UNCHANGED late

(***************************************************************************)
(* ensure_topic.  A metadata failure here ends the startup: no step.       *)
(***************************************************************************)
StartExisting(i) ==
    /\ pc[i] = "down"
    /\ Visible
    /\ Goto(i, "init_sync")
    /\ UNCHANGED <<cluster, locals, crashes>>

StartMissing(i) ==
    /\ pc[i] = "down"
    /\ ~Visible
    /\ Goto(i, "ensure_create")
    /\ want' = [want EXCEPT ![i] = brokers]
    /\ UNCHANGED <<cluster, seen, late, crashes>>

\* Seeded fault: ensure_topic leaves a missing topic to the first sync.
EnsureCreate_skipped(i) ==
    /\ pc[i] = "ensure_create"
    /\ Goto(i, "init_sync")
    /\ ClearLocals(i)
    /\ UNCHANGED <<cluster, crashes>>

EnsureCreate(i) ==
    /\ pc[i] = "ensure_create"
    /\ CreateTopic(want[i])
    /\ Goto(i, "init_sync")
    /\ ClearLocals(i)
    /\ UNCHANGED <<brokers, scalings, crashes>>

EnsureCreateFails(i) ==
    /\ "create" \in Faults
    /\ pc[i] = "ensure_create"
    /\ Exit(i)
    /\ UNCHANGED <<cluster, crashes>>

(***************************************************************************)
(* sync_topic_partitions.  None (no metadata, or no topic in it) ends the  *)
(* startup, and changes nothing when the main loop called it.              *)
(***************************************************************************)
\* Seeded fault: the main loop never reaches its sync cadence.
Syncing_once(i) == pc[i] = "init_sync"

Syncing(i) == pc[i] \in {"init_sync", "idle"}

StartupSyncFails(i) ==
    /\ pc[i] = "init_sync"
    /\ ~Visible \/ "metadata" \in Faults
    /\ Exit(i)
    /\ UNCHANGED <<cluster, crashes>>

NoChange(i) ==
    /\ Syncing(i)
    /\ Visible
    /\ topic.parts = brokers
    /\ Return(i, topic.parts)
    /\ UNCHANGED <<cluster, crashes>>

\* Seeded fault: any difference of the counts is handled as a scale-down.
TooManyPartitions_differ == brokers # topic.parts

TooManyPartitions == brokers < topic.parts

ScaleDown(i) ==
    /\ Syncing(i)
    /\ Visible
    /\ TooManyPartitions
    /\ Goto(i, "delete")
    /\ Remember(i)
    /\ UNCHANGED <<cluster, crashes>>

ScaleUp(i) ==
    /\ Syncing(i)
    /\ Visible
    /\ brokers # topic.parts
    /\ ~TooManyPartitions
    /\ Goto(i, "scale_up")
    /\ Remember(i)
    /\ UNCHANGED <<cluster, crashes>>

\* create_partitions is accepted only if it raises the count of a topic that
\* exists when the call arrives, whatever the metadata said.
AddPartitions(i) ==
    /\ pc[i] = "scale_up"
    /\ Exists
    /\ topic.parts < want[i]
    /\ topic' = [topic EXCEPT !.parts = want[i]]
    /\ Return(i, want[i])
    /\ UNCHANGED <<brokers, scalings, crashes>>

AddPartitionsFails(i) ==
    /\ pc[i] = "scale_up"
    /\ ~Exists \/ topic.parts >= want[i] \/ "partitions" \in Faults
    /\ Goto(i, "refetch")
    /\ UNCHANGED <<cluster, locals, crashes>>

\* Seeded fault: a topic missing from the refreshed metadata counts as empty.
Refreshed_empty(i) == IF Visible THEN topic.parts ELSE 0

\* Seeded fault: a refused create_partitions is taken for somebody else's.
Refreshed_assumed(i) == want[i]

\* What the refreshed metadata says the count is.
Refreshed(i) == IF Visible THEN topic.parts ELSE seen[i]

Refetch(i) ==
    /\ pc[i] = "refetch"
    /\ \/ Return(i, Refreshed(i))
       \/ "metadata" \in Faults /\ Return(i, seen[i])
    /\ UNCHANGED <<cluster, crashes>>

(***************************************************************************)
(* _delete_and_recreate.                                                   *)
(***************************************************************************)
DeleteTopic(i) ==
    /\ pc[i] = "delete"
    /\ DropTopic
    /\ Goto(i, "await")
    /\ UNCHANGED <<brokers, scalings, locals, crashes>>

DeleteFails(i) ==
    /\ "delete" \in Faults
    /\ pc[i] = "delete"
    /\ Return(i, want[i])
    /\ UNCHANGED <<cluster, crashes>>

\* The wait loop, once per metadata fetch.  A fetch that shows the topic with
\* another count only sleeps and tries again: no step.
Polling(i) == pc[i] = "await" /\ ~late[i]

\* Seeded fault: the topic is recreated without waiting for its deletion.
DeletionSeen_assumed == TRUE

DeletionSeen == ~Visible

PollGone(i) ==
    /\ Polling(i)
    /\ DeletionSeen
    /\ Goto(i, "recreate")
    /\ UNCHANGED <<cluster, locals, crashes>>

PollRecreated(i) ==
    /\ Polling(i)
    /\ Visible
    /\ topic.parts = want[i]
    /\ Return(i, want[i])
    /\ UNCHANGED <<cluster, crashes>>

PollRaises(i) ==
    /\ "metadata" \in Faults
    /\ Polling(i)
    /\ Exit(i)
    /\ UNCHANGED <<cluster, crashes>>

\* Seeded fault: the deadline starts again with every metadata fetch.
Tick_reset(i) ==
    /\ "timeout" \in Faults
    /\ Polling(i)
    /\ late' = [late EXCEPT ![i] = FALSE]
    /\ UNCHANGED <<cluster, pc, want, seen, pool, crashes>>

\* The deadline passes; the loop notices it at its head.
Tick(i) ==
    /\ "timeout" \in Faults
    /\ Polling(i)
    /\ late' = [late EXCEPT ![i] = TRUE]
    /\ UNCHANGED <<cluster, pc, want, seen, pool, crashes>>

GiveUp(i) ==
    /\ pc[i] = "await"
    /\ late[i]
    /\ Return(i, want[i])
    /\ UNCHANGED <<cluster, crashes>>

Recreate(i) ==
    /\ pc[i] = "recreate"
    /\ CreateTopic(want[i])
    /\ Return(i, want[i])
    /\ UNCHANGED <<brokers, scalings, crashes>>

RecreateFails(i) ==
    /\ "create" \in Faults
    /\ pc[i] = "recreate"
    /\ Exit(i)
    /\ UNCHANGED <<cluster, crashes>>

Crash(i) ==
    /\ "crash" \in Faults
    /\ crashes < MaxCrashes
    /\ pc[i] # "down"
    /\ crashes' = crashes + 1
    /\ Exit(i)
    /\ UNCHANGED cluster

(***************************************************************************)
(* The specification.                                                      *)
(***************************************************************************)
Init ==
    /\ brokers \in Counts
    /\ topic \in {Absent} \cup [phase : {"live"}, parts : Counts]
    /\ CanShrink \/ topic.parts <= brokers
    /\ pc = [i \in Instances |-> "down"]
    /\ want = [i \in Instances |-> 0]
    /\ seen = [i \in Instances |-> 0]
    /\ pool = [i \in Instances |-> 0]
    /\ late = [i \in Instances |-> FALSE]
    /\ scalings = 0
    /\ crashes = 0

\* What an instance does when nothing goes wrong, and the answers of the
\* cluster it cannot avoid.
Progress(i) ==
    \/ StartExisting(i) \/ StartMissing(i) \/ EnsureCreate(i)
    \/ StartupSyncFails(i) \/ NoChange(i) \/ ScaleDown(i) \/ ScaleUp(i)
    \/ AddPartitions(i) \/ AddPartitionsFails(i) \/ Refetch(i)
    \/ DeleteTopic(i) \/ PollGone(i) \/ PollRecreated(i)
    \/ GiveUp(i) \/ Recreate(i)

Failure(i) ==
    \/ EnsureCreateFails(i) \/ DeleteFails(i) \/ PollRaises(i)
    \/ RecreateFails(i) \/ Crash(i)

Next ==
    \/ Settle
    \/ \E n \in Counts : Scale(n)
    \/ \E i \in Instances : Progress(i) \/ Failure(i) \/ Tick(i)

Spec == Init /\ [][Next]_vars

\* A sync that found the topic, whatever it then decides.
SyncStarts(i) == NoChange(i) \/ ScaleDown(i) \/ ScaleUp(i)

\* Every loop and every call of an instance goes on (a stopped container is
\* restarted), deletions and creations settle, and clocks advance.  A call that
\* is made again and again is not refused for ever: the metadata fetch of a
\* sync, a creation at startup, an addition of partitions.
Fairness ==
    /\ WF_vars(Settle)
    /\ \A i \in Instances :
        /\ WF_vars(Progress(i)) /\ WF_vars(Tick(i))
        /\ SF_vars(SyncStarts(i))
        /\ SF_vars(EnsureCreate(i))
        /\ SF_vars(AddPartitions(i))

FairSpec == Spec /\ Fairness

(***************************************************************************)
(* Properties.                                                             *)
(***************************************************************************)
\* As long as brokers are only added, nothing an instance does makes the topic
\* disappear or lose partitions, whatever fails and however the instances of
\* sync_topic_partitions interleave.
GrowthKeepsTopic ==
    [][Exists => /\ topic'.phase \in {"creating", "live"}
                 /\ topic'.parts >= topic.parts]_vars

\* Whatever fails, however many instances there are and wherever they are
\* killed: an existing topic is deleted only by an instance that read more
\* partitions than brokers, and gets partitions only from one that read fewer.
\* Nothing in between, no retry and no restart, turns the one into the other.
ChangesWarranted ==
    [][/\ Exists /\ topic'.phase = "deleting" =>
            \E i \in Instances : pc[i] = "delete" /\ want[i] < seen[i]
       /\ Exists /\ topic'.parts # topic.parts =>
            \E i \in Instances : seen[i] < want[i] /\ topic'.parts = want[i]]_vars

\* As long as brokers are only added, an instance has consumers only for
\* partitions that exist, although another instance may be adding partitions
\* between its metadata fetch and its own create_partitions.
PoolWithinTopic ==
    \A i \in Instances : pool[i] > 0 => Exists /\ pool[i] <= topic.parts

\* On a cluster that only grows the instances together behave like
\* SharedTopic: the races of their syncs, their failures and their restarts
\* never show as anything but a topic that grows and pools that follow it.
Shared == INSTANCE SharedTopic

SharesTopic == Shared!Spec

\* Between two syncs, an instance checks exactly the partitions of a topic that
\* exists: what sync_topic_partitions returned reflects the cluster.  This
\* is claimed of one instance whose creations and additions of partitions may
\* be refused, and whose other calls succeed.
PoolMatchesTopic ==
    \A i \in Instances :
        pc[i] = "idle" => Exists /\ pool[i] = topic.parts

\* Once the broker count stops changing, the topic and every consumer pool end
\* with one partition per broker and stay there.
Converged ==
    /\ topic = [phase |-> "live", parts |-> brokers]
    /\ \A i \in Instances : pool[i] = brokers
Convergence == <>[]Converged

\* Every call of sync_topic_partitions ends: it returns to the main loop or
\* the process stops.  No two instances wait for each other for ever.
SyncTerminates ==
    \A i \in Instances : pc[i] \in SyncPcs ~> pc[i] \notin SyncPcs

\* A topic that is gone while an instance is starting comes back: ensure_topic
\* creates it, whatever state another instance or a crash left behind.
RestartHeals ==
    \A i \in Instances : (pc[i] = "down" /\ topic = Absent) ~> Exists

\* Of a delete-and-recreate the recreation happens in the end: a topic that is
\* being deleted, or gone, exists again later.
TopicComesBack == ~Exists ~> Exists

\* What sync_topic_partitions returns is the state of the cluster after the
\* reconciliation.
ReturnReflectsCluster ==
    [][\A i \in Instances :
        (pc[i] # "idle" /\ pc'[i] = "idle") =>
            topic'.phase \in {"creating", "live"} /\ pool'[i] = topic'.parts]_vars

\* A sync that cannot reach the cluster leaves the main loop running, and the
\* next sync tries again.
LoopSurvivesSync ==
    [][\A i \in Instances : pool[i] > 0 => pc'[i] # "down"]_vars

=============================================================================
