---------------------------- MODULE SharedTopic ----------------------------
(***************************************************************************)
(* What several instances promise together of the topic they share, on a   *)
(* cluster that only grows: it appears once, gains partitions up to the    *)
(* number of brokers, loses none, and whoever checks checks partitions     *)
(* that exist.  How an instance finds out, and what fails meanwhile, is    *)
(* not said.                                                               *)
(***************************************************************************)
EXTENDS Naturals

CONSTANTS
    Instances,      \* the canary processes
    MaxBrokers      \* bound: broker counts range over 1..MaxBrokers

VARIABLES
    brokers,    \* the size of the cluster
    topic,      \* [phase, parts] of the topic
    pool        \* how many partitions each instance checks, 0: none

vars == <<brokers, topic, pool>>

Counts == 1..MaxBrokers
Absent == [phase |-> "absent", parts |-> 0]

BrokersAdded ==
    /\ brokers' \in Counts
    /\ brokers' > brokers
    /\ UNCHANGED <<topic, pool>>

Create(n) ==
    /\ topic.phase = "absent"
    /\ n <= brokers
    /\ topic' = [phase |-> "creating", parts |-> n]
    /\ UNCHANGED <<brokers, pool>>

Appear ==
    /\ topic.phase = "creating"
    /\ topic' = [topic EXCEPT !.phase = "live"]
    /\ UNCHANGED <<brokers, pool>>

\* Instance i adds partitions, and checks them.
Extend(i, n) ==
    /\ topic.phase # "absent"
    /\ topic.parts < n /\ n <= brokers
    /\ topic' = [topic EXCEPT !.parts = n]
    /\ pool' = [pool EXCEPT ![i] = n]
    /\ UNCHANGED brokers

\* Instance i checks what it knows to be there, or nothing any more.
Adopt(i, n) ==
    /\ topic.phase # "absent"
    /\ n <= topic.parts
    /\ pool' = [pool EXCEPT ![i] = n]
    /\ UNCHANGED <<brokers, topic>>

Leave(i) ==
    /\ pool' = [pool EXCEPT ![i] = 0]
    /\ UNCHANGED <<brokers, topic>>

Init ==
    /\ brokers \in Counts
    /\ topic \in {Absent} \cup [phase : {"live"}, parts : 1..brokers]
    /\ pool = [i \in Instances |-> 0]

Next ==
    \/ BrokersAdded \/ Appear
    \/ \E n \in Counts : Create(n)
    \/ \E i \in Instances :
        Leave(i) \/ \E n \in Counts : Extend(i, n) \/ Adopt(i, n)

Spec == Init /\ [][Next]_vars
=============================================================================
