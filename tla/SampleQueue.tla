---------------------------- MODULE SampleQueue ----------------------------
(* What a machine's sample buffer promises: the newest MaxCapacity samples   *)
(* that have not been taken, oldest first, and how many were lost.           *)
EXTENDS Integers, Sequences

CONSTANTS MaxCapacity, SampleNames
VARIABLES queue, lost, next

vars == <<queue, lost, next>>

Push ==
  /\ next' = (next + 1) % SampleNames
  /\ IF Len(queue) < MaxCapacity
       THEN queue' = Append(queue, next) /\ UNCHANGED lost
       ELSE queue' = Append(Tail(queue), next) /\ lost' = lost + 1

Take(n) == queue' = SubSeq(queue, n + 1, Len(queue)) /\ UNCHANGED <<lost, next>>

Clear == queue' = <<>> /\ lost' = 0 /\ UNCHANGED next

Init == queue = <<>> /\ lost = 0 /\ next = 0
Next == Push \/ (\E n \in 1..Len(queue) : Take(n)) \/ Clear
Spec == Init /\ [][Next]_vars
=============================================================================
