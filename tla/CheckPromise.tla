---------------------------- MODULE CheckPromise ----------------------------
(***************************************************************************)
(* What an end-to-end check promises, whoever polls the producer and       *)
(* whatever arrives late: in each cycle each partition gets one verdict,   *)
(* and the verdict is true of this cycle's message.                        *)
(***************************************************************************)
EXTENDS Naturals

CONSTANTS
    Partitions,     \* the partitions that are checked
    MaxCycles       \* bound: cycles

VARIABLES
    cycle,      \* the number of the cycle, which names its messages
    verdict,    \* of each partition's check, "none" while it runs
    sent,       \* <<p, n>>: messages handed to the producer's client
    stored,     \* <<p, n>>: messages partition p has stored
    refused     \* <<p, n>>: messages whose producer was told they are lost

vars == <<cycle, verdict, sent, stored, refused>>

Messages == Partitions \X (1..cycle)

\* The message was written: it was read back, or it could not be read in time.
Written == {"success", "CONSUME", "CONSUME_TIMEOUT"}
\* The cluster did not take the message, and was not left anything to take.
Lost == {"PRODUCE"}
\* The check cannot tell.
Unknown == {"SEEK", "PRODUCE_TIMEOUT", "UNEXPECTED"}

Begin ==
    /\ cycle < MaxCycles
    /\ \A p \in Partitions : cycle = 0 \/ verdict[p] # "none"
    /\ cycle' = cycle + 1
    /\ verdict' = [p \in Partitions |-> "none"]
    /\ UNCHANGED <<sent, stored, refused>>

\* Only a check that still runs hands its message over.
Send(p) ==
    /\ cycle > 0
    /\ verdict[p] = "none"
    /\ sent' = sent \cup {<<p, cycle>>}
    /\ UNCHANGED <<cycle, verdict, stored, refused>>

Decide(p, v) ==
    /\ cycle > 0
    /\ verdict[p] = "none"
    /\ \/ v \in Written /\ <<p, cycle>> \in stored
       \/ v \in Lost /\ (<<p, cycle>> \in refused \/ <<p, cycle>> \notin sent)
       \/ v \in Unknown
    /\ verdict' = [verdict EXCEPT ![p] = v]
    /\ UNCHANGED <<cycle, sent, stored, refused>>

\* The cluster takes or refuses what it was sent in this cycle or an earlier one.
Store(m) ==
    /\ m \in sent
    /\ stored' = stored \cup {m}
    /\ UNCHANGED <<cycle, verdict, sent, refused>>

Refuse(m) ==
    /\ m \in sent
    /\ refused' = refused \cup {m}
    /\ UNCHANGED <<cycle, verdict, sent, stored>>

Init ==
    /\ cycle = 0
    /\ verdict = [p \in Partitions |-> "none"]
    /\ sent = {}
    /\ stored = {}
    /\ refused = {}

Next ==
    \/ Begin
    \/ \E p \in Partitions : Send(p)
    \/ \E p \in Partitions, v \in Written \cup Lost \cup Unknown : Decide(p, v)
    \/ \E m \in Messages : Store(m) \/ Refuse(m)

Spec == Init /\ [][Next]_vars
=============================================================================
