----------------------------- MODULE CheckCycle -----------------------------
(***************************************************************************)
(* What the main loop and the checks agree on: a cycle submits a task for  *)
(* some of the partitions once every task of the cycle before has ended,   *)
(* and the thread pool runs the tasks in the order of the partitions, a    *)
(* bounded number at a time.  So no consumer is ever used by two checks.   *)
(* RunLoop keeps its side of this agreement through the resizing of the    *)
(* pool, exceptions out of the collection and signals.                     *)
(***************************************************************************)
EXTENDS Naturals, FiniteSets

CONSTANTS
    Partitions,     \* the partitions there may be, natural numbers
    Width,          \* how many tasks may run at once
    MaxCycles       \* bound: cycles

VARIABLES
    number,     \* of the cycle
    task        \* of each partition: "idle", "queued" or "running"

vars == <<number, task>>

Running == {p \in Partitions : task[p] = "running"}

Submit ==
    /\ \A p \in Partitions : task[p] = "idle"
    /\ number < MaxCycles
    /\ number' = number + 1
    /\ \E some \in SUBSET Partitions :
        task' = [p \in Partitions |-> IF p \in some THEN "queued" ELSE "idle"]

Start(p) ==
    /\ task[p] = "queued"
    /\ \A q \in Partitions : q < p => task[q] # "queued"
    /\ Cardinality(Running) < Width
    /\ task' = [task EXCEPT ![p] = "running"]
    /\ UNCHANGED number

Finish(p) ==
    /\ task[p] = "running"
    /\ task' = [task EXCEPT ![p] = "idle"]
    /\ UNCHANGED number

Init == number = 0 /\ task = [p \in Partitions |-> "idle"]

Next == Submit \/ \E p \in Partitions : Start(p) \/ Finish(p)

Spec == Init /\ [][Next]_vars
=============================================================================
