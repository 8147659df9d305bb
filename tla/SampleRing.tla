----------------------------- MODULE SampleRing -----------------------------
(* core/src/audio/ring.rs: the buffer of output samples in a machine.  It    *)
(* doubles when it is full, up to MaxCapacity, where it drops the oldest.    *)
(* Samples are numbered as they are pushed, modulo SampleNames.              *)
EXTENDS Integers, Sequences

CONSTANTS InitialCapacity, MaxCapacity,   \* powers of two
          SampleNames,    \* bound: samples told apart, more than MaxCapacity
          MaxOverruns     \* bound: samples dropped since a clear

(* A power of two is a number all of whose divisors above one are even.      *)
PowersOfTwo == {n \in 1..MaxCapacity : \A d \in 2..n : n % d = 0 => d % 2 = 0}

ASSUME RingAssumption ==
  /\ MaxCapacity \in Nat /\ MaxCapacity \in PowersOfTwo
  /\ InitialCapacity \in PowersOfTwo /\ MaxCapacity % InitialCapacity = 0
  /\ SampleNames \in Nat \ {0} /\ MaxOverruns \in Nat

VARIABLES buf, head, len, overruns,
          next            \* the sample pushed next

ringVars == <<buf, head, len, overruns, next>>

Size == Len(buf)
At(i) == buf[1 + ((head + i) % Size)]
Contents == [i \in 1..len |-> At(i - 1)]

Blank(n) == [i \in 1..n |-> 0]

(* The backing store a sample goes into: the ring's own, or one twice as     *)
(* large with the samples at its start.                                      *)
GrownInPlace == [i \in 1..(2 * Size) |-> IF i <= Size THEN buf[i] ELSE 0]
Grown == [i \in 1..(2 * Size) |-> IF i <= len THEN At(i - 1) ELSE 0]

grow == /\ buf' = [Grown EXCEPT ![1 + len] = next]
        /\ head' = 0
        /\ len' = len + 1
        /\ UNCHANGED overruns

drop == /\ overruns < MaxOverruns
        /\ buf' = [buf EXCEPT ![1 + head] = next]
        /\ head' = (head + 1) % Size
        /\ overruns' = overruns + 1
        /\ UNCHANGED len

store == /\ buf' = [buf EXCEPT ![1 + ((head + len) % Size)] = next]
         /\ len' = len + 1
         /\ UNCHANGED <<head, overruns>>

push ==
  /\ IF len < Size THEN store ELSE IF Size < MaxCapacity THEN grow ELSE drop
  /\ next' = (next + 1) % SampleNames

(* pop_front_into of a slice of n, and drain_all, which takes everything.    *)
Taken(n) == IF n <= len THEN n ELSE len
pop_front_into(n) ==
  /\ head' = (head + Taken(n)) % Size
  /\ len' = len - Taken(n)
  /\ UNCHANGED <<buf, overruns, next>>

clear == head' = 0 /\ len' = 0 /\ overruns' = 0 /\ UNCHANGED <<buf, next>>

RingInit == /\ buf = Blank(InitialCapacity) /\ head = 0 /\ len = 0 /\ overruns = 0
            /\ next = 0

RingNext == push \/ (\E n \in 1..MaxCapacity : pop_front_into(n)) \/ clear

RingSpec == RingInit /\ [][RingNext]_ringVars
-----------------------------------------------------------------------------
(* Every variable stays in its type, every index inside the store.           *)
RingTypeOK ==
  /\ buf \in Seq(0..(SampleNames - 1)) /\ Size \in 1..MaxCapacity
  /\ head \in 0..(Size - 1) /\ len \in 0..Size
  /\ overruns \in 0..MaxOverruns /\ next \in 0..(SampleNames - 1)

Queue == INSTANCE SampleQueue WITH queue <- Contents, lost <- overruns

(* The ring is a queue of MaxCapacity samples that loses its oldest, and     *)
(* counts them, only when all of it is full: neither a growth with the       *)
(* samples wrapped around the end of the store nor a partial drain loses,    *)
(* repeats or reorders one (push, grow, pop_front_into).                     *)
ImplementsQueue == Queue!Spec
=============================================================================
