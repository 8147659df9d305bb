----------------------------- MODULE AudioFifo -----------------------------
(* What the audio transport of the frontend promises the emulator thread and *)
(* the sound card: a bounded first-in first-out queue of samples.  A push    *)
(* offers consecutive samples of the machine's audio stream; an oldest       *)
(* prefix of the batch enters the queue and the rest is dropped and counted. *)
(* A pop takes the oldest samples and counts the ones it lacked.  Both calls *)
(* are atomic here; SpscRing shows that the lock-free ring implements them.  *)
EXTENDS Integers, Sequences

CONSTANTS Capacity,    \* samples the queue may hold
          Batches,     \* lengths of a push
          Requests     \* lengths of a pop

VARIABLES offered,     \* samples the emulator has offered; also the next id
          queue,       \* ids of the samples accepted and not yet taken
          delivered,   \* ids of the samples taken, in order
          dropped,     \* offered samples that did not fit
          starved      \* requested samples that were not there

fifoVars == <<offered, queue, delivered, dropped, starved>>

Init == /\ offered = 0
        /\ queue = <<>>
        /\ delivered = <<>>
        /\ dropped = 0
        /\ starved = 0

Push(len) ==
  \E n \in 0..len :
    /\ Len(queue) + n <= Capacity
    /\ queue' = queue \o [i \in 1..n |-> offered + i - 1]
    /\ offered' = offered + len
    /\ dropped' = dropped + (len - n)
    /\ UNCHANGED <<delivered, starved>>

Pop(len) ==
  \E n \in 0..len :
    /\ n <= Len(queue)
    /\ delivered' = delivered \o SubSeq(queue, 1, n)
    /\ queue' = SubSeq(queue, n + 1, Len(queue))
    /\ starved' = starved + (len - n)
    /\ UNCHANGED <<offered, dropped>>

Next == \/ \E len \in Batches : Push(len)
        \/ \E len \in Requests : Pop(len)

Spec == Init /\ [][Next]_fifoVars
=============================================================================
