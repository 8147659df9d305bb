------------------------------ MODULE SpscRing ------------------------------
(* frontend/src/audio.rs: the lock-free single-producer single-consumer ring *)
(* that carries samples from the emulator thread (push_slice) to the SDL     *)
(* audio callback thread (pop_slice).  Every access to memory the two        *)
(* threads share is a step of its own.                                       *)
(*                                                                           *)
(* Cursors.  The code's `write` and `read` are usize counters that wrap; the *)
(* model keeps the total and wraps it, modulo IndexMod, wherever the code    *)
(* computes with it (Index, WrappingSub, Slot).                              *)
(*                                                                           *)
(* Memory model.  A thread loads the other's cursor with Acquire and may see *)
(* any value stored since the last one it saw: those are readVisible and     *)
(* writeVisible.  A store of `write` carries the number of slot stores it    *)
(* releases; a slot the consumer loads without having acquired its store may *)
(* also yield an older content, the value Unsynced.                          *)
(*                                                                           *)
(* Samples are the numbers of the stream the machine produces: sample k of   *)
(* the stream is k, so a lost, repeated or reordered one shows.              *)
EXTENDS Integers, Sequences

CONSTANTS Capacity,     \* slots of the ring
          Wraps,        \* the index type holds Wraps * Capacity values
          Batches,      \* lengths of the slices pushed
          Requests,     \* lengths of the buffers the callback fills
          MaxOffered,   \* bound: samples offered in all
          MaxStarved,   \* bound: samples starved in all, before a last pop
          Unsynced      \* content of a slot loaded without synchronisation

ASSUME CapacityAssumption == Capacity \in Nat /\ Capacity >= 2
ASSUME WrapsAssumption == Wraps \in Nat /\ Wraps >= 2
ASSUME LengthsAssumption == Batches \subseteq Nat /\ Requests \subseteq Nat
ASSUME BoundsAssumption == MaxOffered \in Nat /\ MaxStarved \in Nat
ASSUME UnsyncedAssumption == Unsynced \notin Nat

VARIABLES slots, write, read, dropped, starved,     \* the fields of SpscRing
          readVisible, writeVisible, acquired,      \* the memory model
          ppc, pwant, pn, pi,                       \* push_slice: locals
          cpc, cwant, cn, ci,                       \* pop_slice: locals
          offered, sent, played                     \* history

ring == <<slots, write, read, dropped, starved>>
memory == <<readVisible, writeVisible, acquired>>
producer == <<ppc, pwant, pn, pi>>
consumer == <<cpc, cwant, cn, ci>>
history == <<offered, sent, played>>
vars == <<ring, memory, producer, consumer, history>>

Least(a, b) == IF a <= b THEN a ELSE b
Most(a, b) == IF a >= b THEN a ELSE b

IndexMod == Wraps * Capacity
Index(total) == total % IndexMod
PlainSub(a, b) == Index(a) - Index(b)
WrappingSub(a, b) == (Index(a) - Index(b)) % IndexMod
Slot(start, i) == ((Index(start) + i) % IndexMod) % Capacity

(* A store of `write` with Release ordering: whoever acquires it has the     *)
(* first total slot stores behind it.                                        *)
RelaxedRelease(total) == [index |-> total, stores |-> 0]
Release(total) == [index |-> total, stores |-> total]

Message == [index : Nat, stores : Nat]

FreeOffByOne(r) == Capacity + 1 - WrappingSub(write, r)
FreeByMask(r) == (Capacity - 1 - WrappingSub(write, r)) % IndexMod
Free(r) == Capacity - WrappingSub(write, r)
Available(w) == WrappingSub(w, read)

Init == /\ slots = [s \in 0..Capacity - 1 |-> 0]
        /\ write = 0 /\ read = 0 /\ dropped = 0 /\ starved = 0
        /\ readVisible = {0}
        /\ writeVisible = {Release(0)}
        /\ acquired = 0
        /\ ppc = "idle" /\ pwant = 0 /\ pn = 0 /\ pi = 0
        /\ cpc = "idle" /\ cwant = 0 /\ cn = 0 /\ ci = 0
        /\ offered = 0 /\ sent = <<>> /\ played = <<>>

-----------------------------------------------------------------------------
(* push_slice, on the emulator thread.                                       *)

(* The loads of both cursors and the computation of `n`.                     *)
PushBegin(len) ==
  /\ ppc = "idle"
  /\ offered + len <= MaxOffered
  /\ \E r \in readVisible :
       /\ readVisible' = {x \in readVisible : x >= r}
       /\ pn' = Least(len, Free(r))
  /\ pwant' = len
  /\ pi' = 0
  /\ ppc' = "store"
  /\ UNCHANGED <<ring, writeVisible, acquired, consumer, history>>

StoreSlot ==
  /\ ppc = "store" /\ pi < pn
  /\ slots' = [slots EXCEPT ![Slot(write, pi)] = offered + pi]
  /\ sent' = Append(sent, offered + pi)
  /\ pi' = pi + 1
  /\ UNCHANGED <<write, read, dropped, starved, memory, ppc, pwant, pn,
                 consumer, offered, played>>

PublishWrite ==
  /\ ppc = "store" /\ pi = pn
  /\ write' = write + pn
  /\ writeVisible' = writeVisible \cup {Release(write')}
  /\ offered' = offered + pwant
  /\ ppc' = "count"
  /\ UNCHANGED <<slots, read, dropped, starved, readVisible, acquired,
                 pwant, pn, pi, consumer, sent, played>>

CountDroppedShort ==
  /\ ppc = "count"
  /\ dropped' = dropped + (IF pn = 0 THEN pwant ELSE 0)
  /\ ppc' = "idle"
  /\ UNCHANGED <<slots, write, read, starved, memory, pwant, pn, pi,
                 consumer, history>>

CountDropped ==
  /\ ppc = "count"
  /\ dropped' = dropped + (pwant - pn)
  /\ ppc' = "idle"
  /\ UNCHANGED <<slots, write, read, starved, memory, pwant, pn, pi,
                 consumer, history>>

-----------------------------------------------------------------------------
(* pop_slice, on the audio callback thread.                                  *)

PopBegin(len) ==
  /\ cpc = "idle"
  /\ starved < MaxStarved
  /\ \E m \in writeVisible :
       /\ writeVisible' = {x \in writeVisible : x.index >= m.index}
       /\ acquired' = Most(acquired, m.stores)
       /\ cn' = Least(len, Available(m.index))
  /\ cwant' = len
  /\ ci' = 0
  /\ cpc' = "load"
  /\ UNCHANGED <<ring, readVisible, producer, history>>

LoadSlotUnderLock ==
  /\ cpc = "load" /\ ci < cn /\ ppc # "store"
  /\ played' = Append(played, slots[Slot(read, ci)])
  /\ ci' = ci + 1
  /\ UNCHANGED <<ring, memory, producer, cpc, cwant, cn, offered, sent>>

LoadSlot ==
  /\ cpc = "load" /\ ci < cn
  /\ \E sample \in {slots[Slot(read, ci)]}
                   \cup (IF read + ci < acquired THEN {} ELSE {Unsynced}) :
       played' = Append(played, sample)
  /\ ci' = ci + 1
  /\ UNCHANGED <<ring, memory, producer, cpc, cwant, cn, offered, sent>>

PublishRead ==
  /\ cpc = "load" /\ ci = cn
  /\ read' = read + cn
  /\ readVisible' = readVisible \cup {read'}
  /\ cpc' = "count"
  /\ UNCHANGED <<slots, write, dropped, starved, writeVisible, acquired,
                 producer, cwant, cn, ci, history>>

CountStarved ==
  /\ cpc = "count"
  /\ starved' = starved + (cwant - cn)
  /\ cpc' = "idle"
  /\ UNCHANGED <<slots, write, read, dropped, memory, producer,
                 cwant, cn, ci, history>>

-----------------------------------------------------------------------------
PushStep == StoreSlot \/ PublishWrite \/ CountDropped
PopStep == LoadSlot \/ PublishRead \/ CountStarved

Next == \/ \E len \in Batches : PushBegin(len)
        \/ \E len \in Requests : PopBegin(len)
        \/ PushStep
        \/ PopStep

Spec == Init /\ [][Next]_vars

(* The sound card's driver keeps a callback running once it has called it;   *)
(* nothing is assumed of the emulator thread, which may be descheduled       *)
(* anywhere, nor of when the next callback comes.                            *)
CallbackSpec == Spec /\ WF_vars(PopStep)

-----------------------------------------------------------------------------
(* Properties.                                                               *)

TypeOK ==
  /\ slots \in [0..Capacity - 1 -> Nat]
  /\ write \in Nat /\ read \in Nat /\ dropped \in Nat /\ starved \in Nat
  /\ readVisible \subseteq Nat /\ readVisible # {}
  /\ writeVisible \subseteq Message /\ writeVisible # {}
  /\ acquired \in Nat
  /\ ppc \in {"idle", "store", "count"}
  /\ pwant \in Nat /\ pn \in 0..pwant /\ pi \in 0..pn
  /\ cpc \in {"idle", "load", "count"}
  /\ cwant \in Nat /\ cn \in 0..cwant /\ ci \in 0..cn
  /\ offered \in Nat
  /\ sent \in Seq(Nat) /\ played \in Seq(Nat \cup {Unsynced})

(* No slot holding a sample the consumer has not finished taking is ever     *)
(* overwritten, although the producer decides what is free from a cursor     *)
(* value that may be arbitrarily old, and both cursors wrap.                 *)
UnreadIntact ==
  \A k \in read..Len(sent) - 1 : slots[Slot(k, 0)] = sent[k + 1]

(* The callback hears exactly the accepted samples, in the order they were   *)
(* pushed: none lost, repeated, reordered or read before it was published.   *)
PlayedInOrder ==
  /\ Len(played) <= Len(sent)
  /\ \A k \in 1..Len(played) : played[k] = sent[k]

(* `len`, called from either thread, is at most the capacity whatever the    *)
(* age of the other thread's cursor: the pacing loop steers on it.           *)
LenWithinCapacity ==
  /\ \A r \in readVisible : WrappingSub(write, r) <= Capacity
  /\ \A m \in writeVisible : WrappingSub(m.index, read) <= Capacity

(* The ring is never overrun, in its slots or by its own account.            *)
NothingOverrun == UnreadIntact /\ LenWithinCapacity

(* Between calls every sample offered was either accepted or counted in      *)
(* `dropped`, the number the frontend shows as the emulator outrunning the   *)
(* sound card.                                                               *)
DropsAccounted == ppc = "idle" => offered = Len(sent) + dropped

(* On a stereo machine samples alternate left and right.  A full ring cuts a *)
(* push short; the cut must not shift the channels of what follows.          *)
ChannelAligned(channels) ==
  \A k \in 1..Len(played) :
    played[k] # Unsynced => played[k] % channels = (k - 1) % channels
StereoAligned == ChannelAligned(2)

(* The atomic queue of AudioFifo.  A push takes effect where it stores       *)
(* `write`, a pop where it stores `read`.                                    *)
Fifo == INSTANCE AudioFifo WITH
  queue <- SubSeq(sent, read + 1, write),
  delivered <- SubSeq(played, 1, read),
  dropped <- dropped + (IF ppc = "count" THEN pwant - pn ELSE 0),
  starved <- starved + (IF cpc = "count" THEN cwant - cn ELSE 0)
FifoSpec == Fifo!Spec

(* A callback that has begun returns whatever the emulator thread is doing:  *)
(* the reason the ring replaced a locked queue.                              *)
CallbackNeverBlocks == cpc = "load" ~> cpc = "idle"
=============================================================================
