--------------------------- MODULE SpscRingProofs ---------------------------
(* For every capacity, index width and length of slices: the ring delivers   *)
(* the accepted samples in order and overwrites none that is still unread.   *)
(*                                                                           *)
(* The properties are not inductive as they stand.  What makes them so is    *)
(* CursorInv: the room a push has claimed is room under every value of       *)
(* `read` the producer may still see, and the samples a pop has claimed were *)
(* released under every value of `write` the consumer may still see.         *)
EXTENDS SpscRing, ArithmeticLemmas, SequenceTheorems

CursorInv ==
  /\ \A r \in readVisible : /\ r <= read
                            /\ write - r <= Capacity
                            /\ ppc = "store" => write + pn - r <= Capacity
  /\ \A m \in writeVisible : /\ m.stores = m.index
                             /\ read <= m.index /\ m.index <= write
                             /\ cpc = "load" => read + cn <= m.index
  /\ cpc = "load" => read + cn <= acquired

HistoryInv ==
  /\ Len(sent) = write + (IF ppc = "store" THEN pi ELSE 0)
  /\ Len(played) = read + (IF cpc = "load" THEN ci ELSE 0)
  /\ offered = write + dropped + (IF ppc = "count" THEN pwant - pn ELSE 0)

IInv == TypeOK /\ CursorInv /\ HistoryInv /\ UnreadIntact /\ PlayedInOrder

USE CapacityAssumption, WrapsAssumption, LengthsAssumption, BoundsAssumption,
    UnsyncedAssumption

(* Wrapping subtraction of cursors at most a capacity apart is exact.        *)
LEMMA WrappingSubExact ==
  ASSUME NEW a \in Nat, NEW b \in Nat, b <= a, a - b <= Capacity
  PROVE  WrappingSub(a, b) = a - b
<1>1. IndexMod \in Nat /\ IndexMod > Capacity
  BY DEF IndexMod
<1>2. a - b < IndexMod /\ IndexMod > 0
  BY <1>1
<1>3. ((a % IndexMod) - (b % IndexMod)) % IndexMod = a - b
  BY <1>1, <1>2, ModSub
<1> QED BY <1>3 DEF WrappingSub, Index

(* The slot of an index that wrapped is the slot of the total.               *)
LEMMA SlotOfTotal ==
  ASSUME NEW start \in Nat, NEW i \in Nat
  PROVE  Slot(start, i) = (start + i) % Capacity
<1>1. IndexMod \in Nat /\ IndexMod > 0
  BY DEF IndexMod
<1>2. ((start % IndexMod) + i) % IndexMod = (start + i) % IndexMod
  <2>1. start \in Int /\ i \in Int
    OBVIOUS
  <2> QED BY <1>1, <2>1, ModAdd
<1>3. ((start + i) % (Wraps * Capacity)) % Capacity = (start + i) % Capacity
  <2> DEFINE total == start + i
  <2>1. total \in Int /\ Wraps > 0 /\ Capacity > 0
    OBVIOUS
  <2> HIDE DEF total
  <2>2. (total % (Wraps * Capacity)) % Capacity = total % Capacity
    BY <2>1, ModMod
  <2> QED BY <2>2 DEF total
<1> QED BY <1>2, <1>3 DEF Slot, Index, IndexMod

(* Every total names a slot of the ring.                                     *)
LEMMA SlotInRange ==
  ASSUME NEW start \in Nat, NEW i \in Nat
  PROVE  Slot(start, i) \in 0..Capacity - 1
<1> DEFINE total == start + i
<1>1. total \in Int
  OBVIOUS
<1> HIDE DEF total
<1>2. total % Capacity \in 0..Capacity - 1
  BY <1>1, DivMod
<1> QED BY <1>2, SlotOfTotal DEF total

(* Under CursorInv the cursors are at most a capacity apart.                 *)
LEMMA CursorsClose ==
  ASSUME TypeOK, CursorInv
  PROVE  /\ read <= write /\ write - read <= Capacity
         /\ ppc = "store" => write + pn - read <= Capacity
         /\ cpc = "load" => read + cn <= write
<1>1. PICK r \in readVisible : TRUE
  BY DEF TypeOK
<1>2. PICK m \in writeVisible : TRUE
  BY DEF TypeOK
<1>3. r \in Nat /\ m.index \in Nat
  BY <1>1, <1>2 DEF TypeOK, Message
<1> QED BY <1>1, <1>2, <1>3 DEF TypeOK, CursorInv

(* The empty ring satisfies the invariant.                                   *)
LEMMA InitIInv == Init => IInv
<1> SUFFICES ASSUME Init PROVE IInv
  OBVIOUS
<1>1. TypeOK
  BY DEF Init, TypeOK, Release, Message
<1>2. CursorInv
  BY DEF Init, CursorInv, Release
<1>3. HistoryInv /\ UnreadIntact /\ PlayedInOrder
  BY DEF Init, HistoryInv, UnreadIntact, PlayedInOrder
<1> QED BY <1>1, <1>2, <1>3 DEF IInv

-----------------------------------------------------------------------------
(* One lemma per action: the step preserves the inductive invariant.         *)

(* A push claims only room that any cursor it may see leaves free.           *)
LEMMA PushBeginStep ==
  ASSUME IInv, NEW len \in Batches, PushBegin(len)
  PROVE  IInv'
<1>1. PICK r \in readVisible : /\ readVisible' = {x \in readVisible : x >= r}
                               /\ pn' = Least(len, Free(r))
  BY DEF PushBegin
<1>2. /\ r \in Nat /\ write \in Nat /\ read \in Nat /\ len \in Nat
      /\ r <= read /\ write - r <= Capacity
  BY DEF IInv, TypeOK, CursorInv
<1>3. r <= write
  BY <1>2, CursorsClose DEF IInv
<1>4. Free(r) = Capacity - (write - r)
  BY <1>2, <1>3, WrappingSubExact DEF Free
<1>5. PICK n \in 0..len : pn' = n /\ write + n - r <= Capacity
  BY <1>1, <1>2, <1>3, <1>4 DEF Least
<1>6. TypeOK'
  <2>1. readVisible' \subseteq Nat
    BY <1>1 DEF IInv, TypeOK
  <2>2. r \in readVisible'
    BY <1>1, <1>2
  <2>3. pwant' = len /\ pi' = 0 /\ pi' \in 0..pn' /\ ppc' = "store"
    BY <1>2, <1>5 DEF PushBegin
  <2>4. UNCHANGED <<slots, write, read, dropped, starved, writeVisible, acquired,
                    cpc, cwant, cn, ci, offered, sent, played>>
    BY DEF PushBegin, ring, consumer, history
  <2> QED BY <1>2, <1>5, <2>1, <2>2, <2>3, <2>4 DEF IInv, TypeOK
<1>7. CursorInv'
  <2>1. UNCHANGED <<write, read, writeVisible, acquired, cpc, cn>>
    BY DEF PushBegin, ring, consumer
  <2>2. ASSUME NEW x \in readVisible'
        PROVE  x <= read /\ write - x <= Capacity /\ write + n - x <= Capacity
    <3>1. x \in readVisible /\ x >= r /\ x \in Nat
      BY <1>1, <2>2 DEF IInv, TypeOK
    <3>2. x <= read /\ write - x <= Capacity
      BY <3>1 DEF IInv, CursorInv
    <3> QED BY <1>2, <1>5, <3>1, <3>2
  <2> QED BY <1>5, <2>1, <2>2 DEF IInv, CursorInv
<1>8. HistoryInv' /\ UnreadIntact' /\ PlayedInOrder'
  BY DEF IInv, TypeOK, HistoryInv, UnreadIntact, PlayedInOrder, PushBegin,
         ring, consumer, history, Slot, Index, IndexMod
<1> QED BY <1>6, <1>7, <1>8 DEF IInv

(* A store stays within the claimed room and touches no live slot.           *)
LEMMA StoreSlotStep ==
  ASSUME IInv, StoreSlot
  PROVE  IInv'
<1> USE DEF IInv
<1>1. /\ write \in Nat /\ read \in Nat /\ pi \in Nat /\ pn \in Nat
      /\ offered \in Nat /\ sent \in Seq(Nat) /\ pi < pn
  BY DEF TypeOK, StoreSlot
<1>2. Len(sent) = write + pi /\ Len(sent') = write + pi + 1
  BY <1>1 DEF HistoryInv, StoreSlot
<1>3. read <= write /\ write + pn - read <= Capacity
  BY CursorsClose DEF StoreSlot
<1>4. \A k \in Nat : Slot(k, 0) = k % Capacity
  BY SlotOfTotal
<1>5. Slot(write, pi) = (write + pi) % Capacity /\ Slot(write, pi) \in 0..Capacity - 1
  BY <1>1, SlotOfTotal, SlotInRange
<1>6. TypeOK'
  BY <1>1, <1>5 DEF TypeOK, StoreSlot, memory, consumer
<1>7. CursorInv'
  BY DEF CursorInv, StoreSlot, memory, consumer
<1>8. HistoryInv'
  BY <1>1, <1>2 DEF HistoryInv, StoreSlot, consumer
<1>9. ASSUME NEW k \in read..write + pi
      PROVE  slots'[k % Capacity] = sent'[k + 1]
  <2>1. k \in Nat /\ read <= k /\ k <= write + pi
    BY <1>1, <1>9
  <2>2. slots' = [slots EXCEPT ![(write + pi) % Capacity] = offered + pi]
        /\ sent' = Append(sent, offered + pi)
    BY <1>5 DEF StoreSlot
  <2>3. CASE k = write + pi
    BY <1>1, <1>2, <1>5, <2>2, <2>3 DEF TypeOK
  <2>4. CASE k # write + pi
    <3> DEFINE total == write + pi
    <3>1. /\ total \in Nat /\ k \in Nat /\ Capacity > 0
          /\ k < total /\ total - k < Capacity
      BY <1>1, <1>3, <2>1, <2>4
    <3> HIDE DEF total
    <3>2. total % Capacity # k % Capacity
      BY <3>1, ModDistinct
    <3>3. slots[k % Capacity] = sent[k + 1] /\ k + 1 \in 1..Len(sent)
      <4>1. k \in read..Len(sent) - 1
        BY <1>1, <1>2, <2>1, <2>4
      <4>2. slots[Slot(k, 0)] = sent[k + 1]
        BY <4>1 DEF UnreadIntact
      <4>3. slots[k % Capacity] = sent[k + 1]
        BY <1>4, <2>1, <4>2
      <4>4. k + 1 \in 1..Len(sent)
        BY <1>1, <1>2, <2>1, <4>1
      <4> QED BY <4>3, <4>4
    <3>4. k % Capacity \in 0..Capacity - 1
      BY <1>4, <2>1, SlotInRange
    <3>5. slots'[k % Capacity] = slots[k % Capacity]
      BY <2>2, <3>2, <3>4 DEF TypeOK, total
    <3>6. sent'[k + 1] = sent[k + 1]
      BY <1>1, <2>2, <3>3
    <3> QED BY <3>3, <3>5, <3>6
  <2> QED BY <2>3, <2>4
<1>11. UnreadIntact'
  <2>1. UnreadIntact' = \A k \in read'..Len(sent') - 1 : slots'[Slot(k, 0)] = sent'[k + 1]
    BY DEF UnreadIntact, Slot, Index, IndexMod
  <2>2. read' = read /\ Len(sent') - 1 = write + pi
    BY <1>1, <1>2 DEF StoreSlot
  <2>3. \A k \in read..write + pi : Slot(k, 0) = k % Capacity
    BY <1>1, <1>4
  <2> QED BY <1>9, <2>1, <2>2, <2>3
<1>10. PlayedInOrder'
  BY <1>1, <1>2 DEF TypeOK, PlayedInOrder, StoreSlot
<1> QED BY <1>6, <1>7, <1>8, <1>10, <1>11

(* Publishing the cursor releases the stored slots to the callback.          *)
LEMMA PublishWriteStep ==
  ASSUME IInv, PublishWrite
  PROVE  IInv'
<1> USE DEF IInv
<1>1. TypeOK'
  BY DEF TypeOK, PublishWrite, Release, Message, consumer
<1>2. CursorInv'
  <2>1. read <= write /\ write \in Nat /\ read \in Nat /\ pn \in Nat
        /\ (cpc = "load" => read + cn <= write) /\ cn \in Nat
    BY CursorsClose DEF TypeOK
  <2>2. /\ readVisible' = readVisible /\ read' = read /\ acquired' = acquired
        /\ cpc' = cpc /\ cn' = cn /\ ppc' = "count" /\ ppc = "store"
        /\ write' = write + pn
        /\ writeVisible' = writeVisible \cup {[index |-> write + pn, stores |-> write + pn]}
    BY DEF PublishWrite, consumer, Release
  <2>3. \A r \in readVisible : r \in Nat
    BY DEF TypeOK
  <2>4. \A m \in writeVisible : m.index \in Nat
    BY DEF TypeOK, Message
  <2> QED BY <2>1, <2>2, <2>3, <2>4 DEF CursorInv
<1>3. HistoryInv'
  BY DEF TypeOK, HistoryInv, PublishWrite, consumer
<1>4. UnreadIntact' /\ PlayedInOrder'
  BY DEF UnreadIntact, PlayedInOrder, PublishWrite, consumer, Slot, Index, IndexMod
<1> QED BY <1>1, <1>2, <1>3, <1>4

(* What does not fit is counted; the ring is untouched.                      *)
LEMMA CountDroppedStep ==
  ASSUME IInv, CountDropped
  PROVE  IInv'
<1> USE DEF IInv
<1>1. TypeOK'
  BY DEF TypeOK, CountDropped, memory, consumer, history
<1>2. CursorInv'
  BY DEF CursorInv, CountDropped, memory, consumer
<1>3. HistoryInv'
  BY DEF TypeOK, HistoryInv, CountDropped, consumer, history
<1>4. UnreadIntact' /\ PlayedInOrder'
  BY DEF UnreadIntact, PlayedInOrder, CountDropped, history, Slot, Index, IndexMod
<1> QED BY <1>1, <1>2, <1>3, <1>4

(* A pop claims only samples that any cursor it may see released.            *)
LEMMA PopBeginStep ==
  ASSUME IInv, NEW len \in Requests, PopBegin(len)
  PROVE  IInv'
<1>1. PICK m \in writeVisible :
        /\ writeVisible' = {x \in writeVisible : x.index >= m.index}
        /\ acquired' = Most(acquired, m.stores)
        /\ cn' = Least(len, Available(m.index))
  BY DEF PopBegin
<1>2. /\ m.index \in Nat /\ read \in Nat /\ write \in Nat /\ len \in Nat
      /\ acquired \in Nat /\ m.stores = m.index
      /\ read <= m.index /\ m.index <= write
  BY DEF IInv, TypeOK, CursorInv, Message
<1>3. m.index - read <= Capacity
  BY <1>2, CursorsClose DEF IInv
<1>4. Available(m.index) = m.index - read
  BY <1>2, <1>3, WrappingSubExact DEF Available
<1>5. PICK n \in 0..len : cn' = n /\ read + n <= m.index
  BY <1>1, <1>2, <1>4 DEF Least
<1>6. PICK a \in Nat : acquired' = a /\ read + n <= a
  BY <1>1, <1>2, <1>5 DEF Most
<1>7. TypeOK'
  <2>1. writeVisible' \subseteq Message
    BY <1>1 DEF IInv, TypeOK
  <2>2. m \in writeVisible'
    BY <1>1, <1>2
  <2>3. cwant' = len /\ ci' = 0 /\ ci' \in 0..cn' /\ cpc' = "load"
    BY <1>2, <1>5 DEF PopBegin
  <2>4. UNCHANGED <<slots, write, read, dropped, starved, readVisible,
                    ppc, pwant, pn, pi, offered, sent, played>>
    BY DEF PopBegin, ring, producer, history
  <2> QED BY <1>2, <1>5, <1>6, <2>1, <2>2, <2>3, <2>4 DEF IInv, TypeOK
<1>8. CursorInv'
  <2>1. UNCHANGED <<write, read, readVisible, ppc, pn>>
    BY DEF PopBegin, ring, producer
  <2>2. ASSUME NEW x \in writeVisible'
        PROVE  /\ x.stores = x.index /\ read <= x.index /\ x.index <= write
               /\ read + n <= x.index
    <3>1. x \in writeVisible /\ x.index >= m.index /\ x.index \in Nat
      BY <1>1, <2>2 DEF IInv, TypeOK, Message
    <3>2. x.stores = x.index /\ read <= x.index /\ x.index <= write
      BY <3>1 DEF IInv, CursorInv
    <3> QED BY <1>2, <1>5, <3>1, <3>2
  <2> QED BY <1>5, <1>6, <2>1, <2>2 DEF IInv, CursorInv
<1>9. HistoryInv'
  <2>1. UNCHANGED <<write, read, dropped, ppc, pwant, pn, pi, offered, sent, played>>
        /\ ci' = 0 /\ cpc' = "load" /\ cpc = "idle"
    BY DEF PopBegin, ring, producer, history
  <2> QED BY <1>2, <2>1 DEF IInv, HistoryInv
<1>10. UnreadIntact' /\ PlayedInOrder'
  BY DEF IInv, UnreadIntact, PlayedInOrder, PopBegin, ring, history,
         Slot, Index, IndexMod
<1> QED BY <1>7, <1>8, <1>9, <1>10 DEF IInv

(* A load reads a released slot: the sample due next.                        *)
LEMMA LoadSlotStep ==
  ASSUME IInv, LoadSlot
  PROVE  IInv'
<1> USE DEF IInv
<1>1. /\ read \in Nat /\ write \in Nat /\ ci \in Nat /\ cn \in Nat
      /\ pi \in Nat /\ acquired \in Nat
      /\ sent \in Seq(Nat) /\ played \in Seq(Nat \cup {Unsynced})
      /\ ci < cn
  BY DEF TypeOK, LoadSlot
<1>2. read + cn <= acquired /\ read + cn <= write
  BY CursorsClose DEF CursorInv, LoadSlot
<1>3. Len(played) = read + ci /\ write <= Len(sent)
  BY <1>1 DEF HistoryInv, LoadSlot
<1>4. played' = Append(played, slots[Slot(read, ci)])
  BY <1>1, <1>2 DEF LoadSlot
<1>5. PICK k \in Nat : k = read + ci
  BY <1>1
<1>6. k \in read..Len(sent) - 1
  BY <1>1, <1>2, <1>3, <1>5
<1>7. Slot(read, ci) = Slot(k, 0)
  BY <1>1, <1>5, SlotOfTotal
<1>8. slots[Slot(k, 0)] = sent[k + 1]
  BY <1>6 DEF UnreadIntact
<1>9. k + 1 \in 1..Len(sent)
  BY <1>1, <1>6
<1>10. played' = Append(played, sent[k + 1]) /\ sent[k + 1] \in Nat
  BY <1>1, <1>4, <1>7, <1>8, <1>9
<1>11. TypeOK'
  BY <1>1, <1>10 DEF TypeOK, LoadSlot, ring, memory, producer
<1>12. CursorInv'
  BY DEF CursorInv, LoadSlot, ring, memory, producer
<1>13. HistoryInv'
  <2>1. Len(played') = read + (ci + 1)
    BY <1>1, <1>3, <1>10
  <2> QED BY <2>1 DEF HistoryInv, LoadSlot, ring, producer
<1>14. UnreadIntact'
  BY DEF UnreadIntact, LoadSlot, ring, Slot, Index, IndexMod
<1>15. PlayedInOrder'
  <2>1. Len(played') = k + 1 /\ sent' = sent
    BY <1>1, <1>3, <1>5, <1>10 DEF LoadSlot
  <2>2. ASSUME NEW j \in 1..k + 1
        PROVE  played'[j] = sent[j]
    BY <1>1, <1>3, <1>5, <1>10, <2>2 DEF PlayedInOrder
  <2> QED BY <1>9, <2>1, <2>2 DEF PlayedInOrder
<1> QED BY <1>11, <1>12, <1>13, <1>14, <1>15

(* Publishing the cursor gives the slots back.                               *)
LEMMA PublishReadStep ==
  ASSUME IInv, PublishRead
  PROVE  IInv'
<1> USE DEF IInv
<1>1. /\ read \in Nat /\ write \in Nat /\ cn \in Nat /\ pn \in Nat /\ ci = cn
      /\ read <= write /\ write - read <= Capacity
      /\ (ppc = "store" => write + pn - read <= Capacity)
  BY CursorsClose DEF TypeOK, PublishRead
<1>2. /\ UNCHANGED <<slots, write, dropped, starved, writeVisible, acquired,
                     ppc, pwant, pn, pi, cwant, cn, ci, offered, sent, played>>
      /\ cpc = "load" /\ cpc' = "count"
  BY DEF PublishRead, producer, history
<1>3. PICK r2 \in Nat : /\ r2 = read + cn /\ read' = r2
                        /\ readVisible' = readVisible \cup {r2}
  BY <1>1 DEF PublishRead
<1>4. TypeOK'
  BY <1>2, <1>3 DEF TypeOK
<1>5. CursorInv'
  <2>1. ASSUME NEW x \in readVisible \cup {r2}
        PROVE  /\ x <= r2 /\ write - x <= Capacity
               /\ ppc = "store" => write + pn - x <= Capacity
    <3>1. CASE x = r2
      BY <1>1, <1>3, <3>1
    <3>2. CASE x \in readVisible
      <4>1. x \in Nat /\ x <= read /\ write - x <= Capacity
            /\ (ppc = "store" => write + pn - x <= Capacity)
        BY <3>2 DEF TypeOK, CursorInv
      <4> QED BY <1>1, <1>3, <4>1
    <3> QED BY <3>1, <3>2
  <2>2. ASSUME NEW m \in writeVisible
        PROVE  m.stores = m.index /\ r2 <= m.index /\ m.index <= write
    BY <1>2, <1>3 DEF CursorInv
  <2> QED BY <1>2, <1>3, <2>1, <2>2 DEF CursorInv
<1>6. HistoryInv'
  BY <1>1, <1>2, <1>3 DEF HistoryInv
<1>7. UnreadIntact'
  <2>1. \A k \in r2..Len(sent) - 1 : k \in read..Len(sent) - 1
    BY <1>1, <1>3 DEF TypeOK
  <2> QED BY <1>2, <1>3, <2>1 DEF UnreadIntact, Slot, Index, IndexMod
<1>8. PlayedInOrder'
  BY <1>2 DEF PlayedInOrder
<1> QED BY <1>4, <1>5, <1>6, <1>7, <1>8

(* A short pop is counted; the ring is untouched.                            *)
LEMMA CountStarvedStep ==
  ASSUME IInv, CountStarved
  PROVE  IInv'
<1> USE DEF IInv
<1>1. TypeOK'
  BY DEF TypeOK, CountStarved, memory, producer, history
<1>2. CursorInv'
  BY DEF CursorInv, CountStarved, memory, producer
<1>3. HistoryInv'
  BY DEF TypeOK, HistoryInv, CountStarved, producer, history
<1>4. UnreadIntact' /\ PlayedInOrder'
  BY DEF UnreadIntact, PlayedInOrder, CountStarved, history, Slot, Index, IndexMod
<1> QED BY <1>1, <1>2, <1>3, <1>4

(* A step that changes nothing keeps the invariant.                          *)
LEMMA StutterStep ==
  ASSUME IInv, UNCHANGED vars
  PROVE  IInv'
BY DEF IInv, TypeOK, CursorInv, HistoryInv, UnreadIntact, PlayedInOrder,
       vars, ring, memory, producer, consumer, history, Slot, Index, IndexMod

-----------------------------------------------------------------------------
(* The inductive invariant holds in every reachable state.                   *)
THEOREM Invariance == Spec => []IInv
<1>1. Init => IInv
  BY InitIInv
<1>2. IInv /\ [Next]_vars => IInv'
  BY PushBeginStep, StoreSlotStep, PublishWriteStep, CountDroppedStep,
     PopBeginStep, LoadSlotStep, PublishReadStep, CountStarvedStep, StutterStep
  DEF Next, PushStep, PopStep
<1> QED BY <1>1, <1>2, PTL DEF Spec

(* Type correctness.                                                         *)
THEOREM TypeCorrect == Spec => []TypeOK
<1>1. IInv => TypeOK
  BY DEF IInv
<1> QED BY <1>1, Invariance, PTL

(* push_slice never stores into a slot whose sample is still to be taken.    *)
THEOREM NeverOverwritesUnread == Spec => []UnreadIntact
<1>1. IInv => UnreadIntact
  BY DEF IInv
<1> QED BY <1>1, Invariance, PTL

(* pop_slice hands over the accepted samples, all of them, in order.         *)
THEOREM DeliversInOrder == Spec => []PlayedInOrder
<1>1. IInv => PlayedInOrder
  BY DEF IInv
<1> QED BY <1>1, Invariance, PTL

(* `len` never exceeds the capacity, on either thread, however stale the     *)
(* cursor it loads.                                                          *)
THEOREM LenBounded == Spec => []LenWithinCapacity
<1>1. IInv => LenWithinCapacity
  <2> SUFFICES ASSUME IInv PROVE LenWithinCapacity
    OBVIOUS
  <2>1. read <= write /\ write - read <= Capacity /\ read \in Nat /\ write \in Nat
    BY CursorsClose DEF IInv, TypeOK
  <2>2. ASSUME NEW r \in readVisible
        PROVE  WrappingSub(write, r) <= Capacity
    <3>1. r \in Nat /\ r <= write /\ write - r <= Capacity
      BY <2>1 DEF IInv, TypeOK, CursorInv
    <3> QED BY <2>1, <3>1, WrappingSubExact
  <2>3. ASSUME NEW m \in writeVisible
        PROVE  WrappingSub(m.index, read) <= Capacity
    <3>1. m.index \in Nat /\ read <= m.index /\ m.index <= write
      BY DEF IInv, TypeOK, CursorInv, Message
    <3>2. m.index - read <= Capacity
      BY <2>1, <3>1
    <3> QED BY <2>1, <3>1, <3>2, WrappingSubExact
  <2> QED BY <2>2, <2>3 DEF LenWithinCapacity
<1> QED BY <1>1, Invariance, PTL

(* The ring is never overrun, for every capacity and every age of the        *)
(* cursors each thread sees.                                                 *)
THEOREM NeverOverrun == Spec => []NothingOverrun
<1> QED BY NeverOverwritesUnread, LenBounded, PTL DEF NothingOverrun

(* Between calls to push_slice, offered = accepted + dropped.                *)
THEOREM DropsCounted == Spec => []DropsAccounted
<1>1. IInv => DropsAccounted
  BY DEF IInv, TypeOK, HistoryInv, DropsAccounted
<1> QED BY <1>1, Invariance, PTL
-----------------------------------------------------------------------------
(* Refinement.                                                               *)
(* The lock-free ring implements the atomic queue of AudioFifo, for every    *)
(* capacity, index width and length of slices.  A push is atomic where it    *)
(* stores `write`, a pop where it stores `read`; every other step is         *)
(* invisible.  IInv is not enough: a push must also have written the batch   *)
(* it announces, which BatchInv says.                                        *)

(* The slots written so far of a batch hold its samples in order.            *)
BatchInv ==
  /\ ppc = "store" => /\ pwant \in Batches
                      /\ \A j \in 1..pi : sent[write + j] = offered + j - 1
  /\ cpc = "load" => cwant \in Requests

RInv == IInv /\ BatchInv

-----------------------------------------------------------------------------
(* Subsequences.                                                             *)

(* The type, length and elements of a subsequence.                           *)
LEMMA SubSeqElements ==
  ASSUME NEW S, NEW s \in Seq(S), NEW m \in Nat, NEW n \in Nat,
         m >= 1, n <= Len(s)
  PROVE  /\ SubSeq(s, m, n) \in Seq(S)
         /\ Len(SubSeq(s, m, n)) = IF m <= n THEN n - m + 1 ELSE 0
         /\ \A i \in 1..n - m + 1 : SubSeq(s, m, n)[i] = s[m + i - 1]
<1>1. \A i \in m..n : s[i] \in S
  <2> SUFFICES ASSUME NEW i \in m..n PROVE s[i] \in S
    OBVIOUS
  <2>1. Len(s) \in Nat
    BY LenProperties
  <2>2. i \in 1..Len(s)
    BY <2>1
  <2> QED BY <2>2, ElementOfSeq
<1>2. m \in Int /\ n \in Int
  OBVIOUS
<1> QED BY <1>1, <1>2, SubSeqProperties

(* Appending beyond a subsequence leaves it alone.                           *)
LEMMA SubSeqOfAppend ==
  ASSUME NEW S, NEW s \in Seq(S), NEW e \in S, NEW m \in Nat, NEW n \in Nat,
         m >= 1, n <= Len(s)
  PROVE  SubSeq(Append(s, e), m, n) = SubSeq(s, m, n)
<1> DEFINE t == Append(s, e)
<1>1. /\ t \in Seq(S) /\ Len(t) = Len(s) + 1 /\ Len(s) \in Nat
      /\ \A i \in 1..Len(s) : t[i] = s[i]
  BY AppendProperties, LenProperties
<1> HIDE DEF t
<1>2. n <= Len(t)
  BY <1>1
<1>3. /\ SubSeq(t, m, n) \in Seq(S)
      /\ Len(SubSeq(t, m, n)) = IF m <= n THEN n - m + 1 ELSE 0
      /\ \A i \in 1..n - m + 1 : SubSeq(t, m, n)[i] = t[m + i - 1]
  BY <1>1, <1>2, SubSeqElements
<1>4. /\ SubSeq(s, m, n) \in Seq(S)
      /\ Len(SubSeq(s, m, n)) = IF m <= n THEN n - m + 1 ELSE 0
      /\ \A i \in 1..n - m + 1 : SubSeq(s, m, n)[i] = s[m + i - 1]
  BY SubSeqElements
<1>5. ASSUME NEW i \in 1..Len(SubSeq(t, m, n))
      PROVE  SubSeq(t, m, n)[i] = SubSeq(s, m, n)[i]
  <2>1. i \in 1..n - m + 1 /\ m + i - 1 \in 1..Len(s)
    BY <1>1, <1>3
  <2> QED BY <1>1, <1>3, <1>4, <2>1
<1>6. SubSeq(t, m, n) = SubSeq(s, m, n)
  BY <1>3, <1>4, <1>5, SeqEqual
<1> QED BY <1>6 DEF t

(* A subsequence of a subsequence, empty ones included.                      *)
LEMMA SubSeqNested ==
  ASSUME NEW S, NEW s \in Seq(S), NEW a \in Nat, NEW b \in Nat,
         a <= b, b <= Len(s),
         NEW i \in Nat, NEW j \in Nat, i >= 1, j <= b - a
  PROVE  SubSeq(SubSeq(s, a + 1, b), i, j) = SubSeq(s, a + i, a + j)
<1> DEFINE t == SubSeq(s, a + 1, b)
<1>1. /\ t \in Seq(S) /\ Len(t) = b - a
      /\ \A k \in 1..b - a : t[k] = s[a + k]
  <2>1. a + 1 \in Nat /\ a + 1 >= 1
    OBVIOUS
  <2>2. /\ t \in Seq(S) /\ Len(t) = IF a + 1 <= b THEN b - (a + 1) + 1 ELSE 0
        /\ \A k \in 1..b - (a + 1) + 1 : t[k] = s[(a + 1) + k - 1]
    BY <2>1, SubSeqElements
  <2> QED BY <2>2
<1> HIDE DEF t
<1>2. /\ SubSeq(t, i, j) \in Seq(S)
      /\ Len(SubSeq(t, i, j)) = IF i <= j THEN j - i + 1 ELSE 0
      /\ \A k \in 1..j - i + 1 : SubSeq(t, i, j)[k] = t[i + k - 1]
  BY <1>1, SubSeqElements
<1>3. /\ SubSeq(s, a + i, a + j) \in Seq(S)
      /\ Len(SubSeq(s, a + i, a + j)) = IF i <= j THEN j - i + 1 ELSE 0
      /\ \A k \in 1..j - i + 1 : SubSeq(s, a + i, a + j)[k] = s[a + i + k - 1]
  <2>1. a + i \in Nat /\ a + j \in Nat /\ a + i >= 1 /\ a + j <= Len(s)
    BY LenProperties
  <2>2. /\ SubSeq(s, a + i, a + j) \in Seq(S)
        /\ Len(SubSeq(s, a + i, a + j))
             = IF a + i <= a + j THEN (a + j) - (a + i) + 1 ELSE 0
        /\ \A k \in 1..(a + j) - (a + i) + 1 :
             SubSeq(s, a + i, a + j)[k] = s[(a + i) + k - 1]
    BY <2>1, SubSeqElements
  <2>3. (a + j) - (a + i) + 1 = j - i + 1 /\ (a + i <= a + j <=> i <= j)
    OBVIOUS
  <2> QED BY <2>2, <2>3
<1>4. ASSUME NEW k \in 1..Len(SubSeq(t, i, j))
      PROVE  SubSeq(t, i, j)[k] = SubSeq(s, a + i, a + j)[k]
  <2>1. k \in 1..j - i + 1 /\ i + k - 1 \in 1..b - a
    BY <1>2
  <2>2. t[i + k - 1] = s[a + (i + k - 1)]
    BY <1>1, <2>1
  <2>3. a + (i + k - 1) = a + i + k - 1
    BY <2>1
  <2> QED BY <1>2, <1>3, <2>1, <2>2, <2>3
<1>5. SubSeq(t, i, j) = SubSeq(s, a + i, a + j)
  BY <1>2, <1>3, <1>4, SeqEqual
<1> QED BY <1>5 DEF t

-----------------------------------------------------------------------------
(* BatchInv is preserved under IInv.                                         *)

(* A store extends the written part of the batch by its next sample.         *)
LEMMA StoreSlotBatch ==
  ASSUME IInv, BatchInv, StoreSlot
  PROVE  BatchInv'
<1>1. /\ ppc = "store" /\ ppc' = "store" /\ cpc' = cpc /\ pwant' = pwant
      /\ cwant' = cwant /\ pi' = pi + 1 /\ write' = write /\ offered' = offered
      /\ sent' = Append(sent, offered + pi)
  BY DEF StoreSlot, consumer
<1>2. /\ sent \in Seq(Nat) /\ offered \in Nat /\ pi \in Nat /\ write \in Nat
      /\ Len(sent) = write + pi
  BY <1>1 DEF IInv, TypeOK, HistoryInv
<1>3. offered + pi \in Nat
  BY <1>2
<1>4. /\ \A i \in 1..Len(sent) : sent'[i] = sent[i]
      /\ sent'[Len(sent) + 1] = offered + pi
  BY <1>1, <1>2, <1>3, AppendProperties
<1>5. ASSUME NEW j \in 1..pi'
      PROVE  sent'[write' + j] = offered' + j - 1
  <2>1. CASE j <= pi
    <3>1. write + j \in 1..Len(sent) /\ j \in 1..pi
      BY <1>2, <2>1
    <3> QED BY <1>1, <1>4, <3>1 DEF BatchInv
  <2>2. CASE j = pi + 1
    <3>1. write + j = Len(sent) + 1 /\ offered + j - 1 = offered + pi
      BY <1>2, <2>2
    <3> QED BY <1>1, <1>4, <3>1
  <2> QED BY <1>1, <1>2, <2>1, <2>2
<1> QED BY <1>1, <1>5 DEF BatchInv

(* The strengthened invariant is inductive.                                  *)
LEMMA BatchPreserved ==
  ASSUME IInv, BatchInv, [Next]_vars
  PROVE  BatchInv'
<1>1. ASSUME NEW len \in Batches, PushBegin(len)
      PROVE  BatchInv'
  BY <1>1 DEF PushBegin, BatchInv, consumer
<1>2. ASSUME NEW len \in Requests, PopBegin(len)
      PROVE  BatchInv'
  BY <1>2 DEF PopBegin, BatchInv, ring, producer, history
<1>3. CASE StoreSlot
  BY <1>3, StoreSlotBatch
<1>4. CASE PublishWrite
  BY <1>4 DEF PublishWrite, BatchInv, consumer
<1>5. CASE CountDropped
  BY <1>5 DEF CountDropped, BatchInv, consumer
<1>6. CASE LoadSlot
  BY <1>6 DEF LoadSlot, BatchInv, ring, producer
<1>7. CASE PublishRead
  BY <1>7 DEF PublishRead, BatchInv, producer, history
<1>8. CASE CountStarved
  BY <1>8 DEF CountStarved, BatchInv, producer, history
<1>9. CASE UNCHANGED vars
  BY <1>9 DEF BatchInv, vars, ring, memory, producer, consumer, history
<1> QED BY <1>1, <1>2, <1>3, <1>4, <1>5, <1>6, <1>7, <1>8, <1>9
        DEF Next, PushStep, PopStep

-----------------------------------------------------------------------------
(* The mapping.  Queue and delivered are the ones of the instance Fifo.      *)

Queue == SubSeq(sent, read + 1, write)
Delivered == SubSeq(played, 1, read)
Pending == IF ppc = "count" THEN pwant - pn ELSE 0
Lacking == IF cpc = "count" THEN cwant - cn ELSE 0

(* The types the histories and counters have.                              *)
LEMMA HistoryTyped ==
  ASSUME IInv
  PROVE  /\ sent \in Seq(Nat) /\ played \in Seq(Nat \cup {Unsynced})
         /\ read \in Nat /\ write \in Nat /\ read <= write
         /\ write <= Len(sent) /\ read <= Len(played) /\ Len(sent) \in Nat
         /\ Len(played) \in Nat
         /\ pn \in Nat /\ pi \in Nat /\ cn \in Nat /\ ci \in Nat
         /\ pwant \in Nat /\ cwant \in Nat
         /\ offered \in Nat /\ dropped \in Nat /\ starved \in Nat
BY CursorsClose DEF IInv, TypeOK, HistoryInv

(* Storing a slot adds behind the queue, loading one behind the delivered.   *)
LEMMA StoreSlotInvisible ==
  ASSUME IInv, StoreSlot
  PROVE  UNCHANGED <<offered, Queue, Delivered, dropped + Pending, starved + Lacking>>
<1>1. Queue' = Queue
  <2>1. sent' = Append(sent, offered + pi) /\ read' = read /\ write' = write
    BY DEF StoreSlot
  <2>2. /\ sent \in Seq(Nat) /\ offered + pi \in Nat /\ read + 1 \in Nat
        /\ write \in Nat /\ read + 1 >= 1 /\ write <= Len(sent)
    BY HistoryTyped
  <2>3. SubSeq(Append(sent, offered + pi), read + 1, write) = SubSeq(sent, read + 1, write)
    <3> DEFINE sample == offered + pi
               first == read + 1
    <3>1. /\ sent \in Seq(Nat) /\ sample \in Nat /\ first \in Nat
          /\ write \in Nat /\ first >= 1 /\ write <= Len(sent)
      BY <2>2
    <3> HIDE DEF sample, first
    <3>2. SubSeq(Append(sent, sample), first, write) = SubSeq(sent, first, write)
      BY <3>1, SubSeqOfAppend
    <3> QED BY <3>2 DEF sample, first
  <2> QED BY <2>1, <2>3 DEF Queue
<1> QED BY <1>1 DEF StoreSlot, consumer, Delivered, Pending, Lacking

(* A load changes nothing the queue shows.                                   *)
LEMMA LoadSlotInvisible ==
  ASSUME IInv, LoadSlot
  PROVE  UNCHANGED <<offered, Queue, Delivered, dropped + Pending, starved + Lacking>>
<1>1. Delivered' = Delivered
  <2>1. PICK sample \in {slots[Slot(read, ci)]}
                        \cup (IF read + ci < acquired THEN {} ELSE {Unsynced}) :
          played' = Append(played, sample)
    BY DEF LoadSlot
  <2>2. sample \in Nat \cup {Unsynced}
    <3>1. Slot(read, ci) \in 0..Capacity - 1
      BY HistoryTyped, SlotInRange
    <3>2. slots[Slot(read, ci)] \in Nat
      BY <3>1 DEF IInv, TypeOK
    <3> QED BY <2>1, <3>2
  <2>3. SubSeq(Append(played, sample), 1, read) = SubSeq(played, 1, read)
    BY <2>2, HistoryTyped, SubSeqOfAppend
  <2> QED BY <2>1, <2>3 DEF Delivered, LoadSlot, ring
<1> QED BY <1>1 DEF LoadSlot, ring, producer, Queue, Pending, Lacking

(* Storing `write` is a push of the whole batch, cut to what fits.           *)
LEMMA PublishWriteIsPush ==
  ASSUME IInv, BatchInv, PublishWrite
  PROVE  Fifo!Push(pwant)
<1>1. /\ ppc = "store" /\ pi = pn /\ write' = write + pn /\ read' = read
      /\ sent' = sent /\ played' = played /\ offered' = offered + pwant
      /\ dropped' = dropped /\ starved' = starved /\ ppc' = "count"
      /\ pwant' = pwant /\ pn' = pn /\ cpc' = cpc /\ cwant' = cwant /\ cn' = cn
  BY DEF PublishWrite, consumer
<1>2. /\ sent \in Seq(Nat) /\ read \in Nat /\ write \in Nat /\ read <= write
      /\ pn \in Nat /\ Len(sent) = write + pn /\ offered \in Nat
      /\ pn \in 0..pwant /\ pwant \in Nat
  BY <1>1, HistoryTyped DEF IInv, TypeOK, HistoryInv
<1>3. write + pn - read <= Capacity /\ Capacity \in Nat
  BY <1>1, CursorsClose, CapacityAssumption DEF IInv
<1> DEFINE batch == [i \in 1..pn |-> offered + i - 1]
<1>4. Len(Queue) = write - read
  <2>1. read + 1 \in Nat /\ read + 1 >= 1 /\ write <= Len(sent)
    BY <1>2
  <2>2. Len(SubSeq(sent, read + 1, write))
          = IF read + 1 <= write THEN write - (read + 1) + 1 ELSE 0
    BY <1>2, <2>1, SubSeqElements
  <2> QED BY <1>2, <2>2 DEF Queue
<1>5. SubSeq(sent, write + 1, write + pn) = batch
  <2>1. write + 1 \in Nat /\ write + pn \in Nat /\ write + 1 >= 1
    BY <1>2
  <2>2. /\ SubSeq(sent, write + 1, write + pn) \in Seq(Nat)
        /\ Len(SubSeq(sent, write + 1, write + pn))
             = IF write + 1 <= write + pn THEN (write + pn) - (write + 1) + 1 ELSE 0
        /\ \A i \in 1..(write + pn) - (write + 1) + 1 :
             SubSeq(sent, write + 1, write + pn)[i] = sent[(write + 1) + i - 1]
    BY <1>2, <2>1, SubSeqElements
  <2>3. batch \in Seq(Nat) /\ Len(batch) = pn
    BY <1>2
  <2>4. ASSUME NEW i \in 1..pn
        PROVE  SubSeq(sent, write + 1, write + pn)[i] = batch[i]
    <3>1. (write + 1) + i - 1 = write + i /\ i \in 1..(write + pn) - (write + 1) + 1
      BY <1>2
    <3>2. sent[write + i] = offered + i - 1
      BY <1>1 DEF BatchInv
    <3> QED BY <2>2, <3>1, <3>2
  <2>5. Len(SubSeq(sent, write + 1, write + pn)) = pn
    BY <1>2, <2>2
  <2> HIDE DEF batch
  <2> QED BY <2>2, <2>3, <2>4, <2>5, SeqEqual
<1>6. Queue' = Queue \o batch
  <2>1. /\ read + 1 \in 1..Len(sent) + 1 /\ write \in (read + 1) - 1..Len(sent)
        /\ write + pn \in write..Len(sent)
    BY <1>2
  <2>2. SubSeq(sent, read + 1, write) \o SubSeq(sent, write + 1, write + pn)
          = SubSeq(sent, read + 1, write + pn)
    BY <1>2, <2>1, ConcatAdjacentSubSeq
  <2> QED BY <1>1, <1>5, <2>2 DEF Queue
<1>7. Len(Queue) + pn <= Capacity
  BY <1>2, <1>3, <1>4
<1>8. /\ dropped' + Pending' = dropped + Pending + (pwant - pn)
      /\ starved' + Lacking' = starved + Lacking
      /\ Delivered' = Delivered
  <2>1. dropped \in Nat
    BY HistoryTyped
  <2> QED BY <1>1, <1>2, <2>1 DEF Pending, Lacking, Delivered
<1> QED BY <1>1, <1>2, <1>6, <1>7, <1>8 DEF Fifo!Push, Queue, Delivered, Pending, Lacking

(* Storing `read` is a pop of what the buffer asked for, cut to what is      *)
(* there.                                                                    *)
LEMMA PublishReadIsPop ==
  ASSUME IInv, BatchInv, PublishRead
  PROVE  Fifo!Pop(cwant)
<1>1. /\ cpc = "load" /\ ci = cn /\ read' = read + cn /\ write' = write
      /\ sent' = sent /\ played' = played /\ offered' = offered
      /\ dropped' = dropped /\ starved' = starved /\ cpc' = "count"
      /\ pwant' = pwant /\ pn' = pn /\ ppc' = ppc /\ cwant' = cwant /\ cn' = cn
  BY DEF PublishRead, producer, history
<1>2. /\ sent \in Seq(Nat) /\ played \in Seq(Nat \cup {Unsynced})
      /\ read \in Nat /\ write \in Nat /\ read + cn <= write
      /\ cn \in 0..cwant /\ cwant \in Nat /\ cn \in Nat
      /\ write <= Len(sent) /\ Len(played) = read + cn /\ Len(sent) \in Nat
  BY <1>1, HistoryTyped, CursorsClose DEF IInv, TypeOK, HistoryInv
<1>3. /\ Queue \in Seq(Nat) /\ Len(Queue) = write - read
  <2>1. read + 1 \in Nat /\ read + 1 >= 1 /\ read <= write
    BY <1>2
  <2>2. /\ SubSeq(sent, read + 1, write) \in Seq(Nat)
        /\ Len(SubSeq(sent, read + 1, write))
             = IF read + 1 <= write THEN write - (read + 1) + 1 ELSE 0
    BY <1>2, <2>1, SubSeqElements
  <2> QED BY <1>2, <2>1, <2>2 DEF Queue
<1>4. /\ SubSeq(Queue, 1, cn) = SubSeq(sent, read + 1, read + cn)
      /\ SubSeq(Queue, cn + 1, Len(Queue)) = SubSeq(sent, read + cn + 1, write)
  <2>1. read <= write /\ cn <= write - read /\ cn + 1 \in Nat /\ cn + 1 >= 1
        /\ write - read \in Nat
    BY <1>2
  <2>2. SubSeq(Queue, 1, cn) = SubSeq(sent, read + 1, read + cn)
    BY <1>2, <2>1, SubSeqNested DEF Queue
  <2>3. SubSeq(Queue, cn + 1, write - read)
          = SubSeq(sent, read + (cn + 1), read + (write - read))
    BY <1>2, <2>1, SubSeqNested DEF Queue
  <2>4. read + (cn + 1) = read + cn + 1 /\ read + (write - read) = write
    BY <1>2
  <2> QED BY <1>3, <2>2, <2>3, <2>4
<1>5. SubSeq(played, read + 1, read + cn) = SubSeq(sent, read + 1, read + cn)
  <2>1. read + 1 \in Nat /\ read + cn \in Nat /\ read + 1 >= 1
        /\ read + cn <= Len(sent)
    BY <1>2
  <2>2. sent \in Seq(Nat \cup {Unsynced})
    BY <1>2, SeqMonotonic
  <2> DEFINE heard == SubSeq(played, read + 1, read + cn)
             taken == SubSeq(sent, read + 1, read + cn)
  <2>3. /\ heard \in Seq(Nat \cup {Unsynced})
        /\ Len(heard) = IF read + 1 <= read + cn
                         THEN (read + cn) - (read + 1) + 1 ELSE 0
        /\ \A i \in 1..(read + cn) - (read + 1) + 1 :
             heard[i] = played[(read + 1) + i - 1]
    BY <1>2, <2>1, SubSeqElements
  <2>4. /\ taken \in Seq(Nat \cup {Unsynced})
        /\ Len(taken) = IF read + 1 <= read + cn
                         THEN (read + cn) - (read + 1) + 1 ELSE 0
        /\ \A i \in 1..(read + cn) - (read + 1) + 1 :
             taken[i] = sent[(read + 1) + i - 1]
    BY <2>1, <2>2, SubSeqElements
  <2> HIDE DEF heard, taken
  <2>5. ASSUME NEW i \in 1..Len(heard)
        PROVE  heard[i] = taken[i]
    <3>1. /\ i \in 1..(read + cn) - (read + 1) + 1
          /\ (read + 1) + i - 1 \in 1..Len(played)
      BY <1>2, <2>3
    <3>2. played[(read + 1) + i - 1] = sent[(read + 1) + i - 1]
      BY <3>1 DEF IInv, PlayedInOrder
    <3> QED BY <2>3, <2>4, <3>1, <3>2
  <2>6. heard = taken
    BY <2>3, <2>4, <2>5, SeqEqual
  <2> QED BY <2>6 DEF heard, taken
<1>6. Delivered' = Delivered \o SubSeq(Queue, 1, cn)
  <2>1. /\ 1 \in 1..Len(played) + 1 /\ read \in 1 - 1..Len(played)
        /\ read + cn \in read..Len(played)
    BY <1>2
  <2>2. SubSeq(played, 1, read) \o SubSeq(played, read + 1, read + cn)
          = SubSeq(played, 1, read + cn)
    BY <1>2, <2>1, ConcatAdjacentSubSeq
  <2> QED BY <1>1, <1>4, <1>5, <2>2 DEF Delivered
<1>7. Queue' = SubSeq(Queue, cn + 1, Len(Queue))
  BY <1>1, <1>4 DEF Queue
<1>8. cn <= Len(Queue)
  BY <1>2, <1>3
<1>9. /\ starved' + Lacking' = starved + Lacking + (cwant - cn)
      /\ dropped' + Pending' = dropped + Pending
  <2>1. starved \in Nat
    BY HistoryTyped
  <2> QED BY <1>1, <1>2, <2>1 DEF Pending, Lacking
<1> QED BY <1>1, <1>2, <1>6, <1>7, <1>8, <1>9
        DEF Fifo!Pop, Queue, Delivered, Pending, Lacking

-----------------------------------------------------------------------------
(* Every step is a push, a pop or nothing to the abstract queue.             *)
LEMMA StepRefines ==
  ASSUME IInv, BatchInv, [Next]_vars
  PROVE  [Fifo!Next]_(Fifo!fifoVars)
<1> DEFINE Invisible ==
      UNCHANGED <<offered, Queue, Delivered, dropped + Pending, starved + Lacking>>
<1>1. Invisible => UNCHANGED Fifo!fifoVars
  BY DEF Fifo!fifoVars, Queue, Delivered, Pending, Lacking
<1>2. ASSUME NEW len \in Batches, PushBegin(len)
      PROVE  Invisible
  BY <1>2 DEF PushBegin, ring, consumer, history, Queue, Delivered, Pending, Lacking
<1>3. ASSUME NEW len \in Requests, PopBegin(len)
      PROVE  Invisible
  BY <1>3 DEF PopBegin, ring, producer, history, Queue, Delivered, Pending, Lacking
<1>4. CASE StoreSlot
  BY <1>1, <1>4, StoreSlotInvisible
<1>5. CASE PublishWrite
  <2>1. pwant \in Batches
    BY <1>5 DEF PublishWrite, BatchInv
  <2> QED BY <1>5, <2>1, PublishWriteIsPush DEF Fifo!Next
<1>6. CASE CountDropped
  <2>1. dropped \in Nat /\ pwant \in Nat /\ pn \in Nat
    BY HistoryTyped
  <2>2. Invisible
    BY <1>6, <2>1 DEF CountDropped, consumer, history, Queue, Delivered, Pending, Lacking
  <2> QED BY <1>1, <2>2
<1>7. CASE LoadSlot
  BY <1>1, <1>7, LoadSlotInvisible
<1>8. CASE PublishRead
  <2>1. cwant \in Requests
    BY <1>8 DEF PublishRead, BatchInv
  <2> QED BY <1>8, <2>1, PublishReadIsPop DEF Fifo!Next
<1>9. CASE CountStarved
  <2>1. starved \in Nat /\ cwant \in Nat /\ cn \in Nat
    BY HistoryTyped
  <2>2. Invisible
    BY <1>9, <2>1 DEF CountStarved, producer, history, Queue, Delivered, Pending, Lacking
  <2> QED BY <1>1, <2>2
<1>10. CASE UNCHANGED vars
  <2>1. Invisible
    BY <1>10 DEF vars, ring, producer, consumer, history, Queue, Delivered, Pending, Lacking
  <2> QED BY <1>1, <2>1
<1> QED BY <1>1, <1>2, <1>3, <1>4, <1>5, <1>6, <1>7, <1>8, <1>9, <1>10
        DEF Next, PushStep, PopStep

(* SpscRing implements AudioFifo.                                            *)
THEOREM ImplementsFifo == Spec => FifoSpec
<1>1. Init => BatchInv
  BY DEF Init, BatchInv
<1>2. Init => Fifo!Init
  <2> SUFFICES ASSUME Init PROVE Fifo!Init
    OBVIOUS
  <2>1. SubSeq(sent, read + 1, write) = <<>> /\ SubSeq(played, 1, read) = <<>>
    BY SubSeqEmpty DEF Init
  <2> QED BY <2>1 DEF Init, Fifo!Init
<1>3. IInv /\ BatchInv /\ [Next]_vars => BatchInv'
  BY BatchPreserved
<1>4. IInv /\ BatchInv /\ [Next]_vars => [Fifo!Next]_(Fifo!fifoVars)
  BY StepRefines
<1> QED BY <1>1, <1>2, <1>3, <1>4, Invariance, PTL DEF Spec, FifoSpec, Fifo!Spec
-----------------------------------------------------------------------------
(* Channels.  A ring sized in whole frames, filled and drained by whole      *)
(* frames, never cuts one: both cursors, every value of them a thread may    *)
(* still see, and what a call has claimed are multiples of the channels.     *)
(* Sample k of the stream, a multiple plus its channel, then sits where one  *)
(* of its channel is due.                                                    *)

WholeFrames(c, n) == n % c = 0

AlignInv(c) ==
  /\ WholeFrames(c, offered) /\ WholeFrames(c, write) /\ WholeFrames(c, read)
  /\ \A r \in readVisible : WholeFrames(c, r)
  /\ \A m \in writeVisible : WholeFrames(c, m.index)
  /\ ppc = "store" => WholeFrames(c, pwant) /\ WholeFrames(c, pn)
  /\ cpc = "load" => WholeFrames(c, cn)
  /\ \A k \in 1..Len(sent) : sent[k] % c = (k - 1) % c

(* What the frontend does when it opens the device: the capacity, the        *)
(* slices and the buffers are counted in frames.                             *)
FramesOnly(c) ==
  /\ WholeFrames(c, Capacity)
  /\ \A len \in Batches \cup Requests : WholeFrames(c, len)

(* Frames and a part of one are that part.                                   *)
LEMMA FramesAndRest ==
  ASSUME NEW c \in Nat, c > 0, NEW a \in Int, NEW b \in Int, WholeFrames(c, a)
  PROVE  (a + b) % c = b % c
<1>1. ((a % c) + b) % c = (a + b) % c
  BY ModAdd
<1>2. a % c = 0 /\ 0 + b = b
  BY DEF WholeFrames
<1> QED BY <1>1, <1>2

(* Frames and frames are frames.                                             *)
LEMMA FramesAdd ==
  ASSUME NEW c \in Nat, c > 0, NEW a \in Int, NEW b \in Int,
         WholeFrames(c, a), WholeFrames(c, b)
  PROVE  WholeFrames(c, a + b)
BY FramesAndRest DEF WholeFrames

(* Frames less frames are frames.                                            *)
LEMMA FramesSubtract ==
  ASSUME NEW c \in Nat, c > 0, NEW a \in Int, NEW b \in Int,
         WholeFrames(c, a), WholeFrames(c, b)
  PROVE  WholeFrames(c, a - b)
<1> DEFINE d == a - b
<1>1. d \in Int /\ b + d = a
  OBVIOUS
<1> HIDE DEF d
<1>2. (b + d) % c = d % c
  BY <1>1, FramesAndRest
<1> QED BY <1>1, <1>2 DEF WholeFrames, d

(* Zero frames, where everything starts.                                     *)
LEMMA NoFrames ==
  ASSUME NEW c \in Nat, c > 0
  PROVE  WholeFrames(c, 0)
<1>1. 0 \in 0..c - 1
  OBVIOUS
<1> QED BY <1>1, ModSmall DEF WholeFrames

(* The empty ring is aligned.                                                *)
LEMMA InitAligned ==
  ASSUME NEW c \in Nat, c > 0, Init
  PROVE  AlignInv(c)
BY NoFrames DEF Init, AlignInv, Release

(* Every step keeps the ring aligned.                                        *)
LEMMA AlignPreserved ==
  ASSUME NEW c \in Nat, c > 0, FramesOnly(c), IInv, BatchInv, AlignInv(c), [Next]_vars
  PROVE  AlignInv(c)'
<1> USE DEF AlignInv
<1>1. /\ write \in Nat /\ read \in Nat /\ offered \in Nat /\ pn \in Nat /\ pi \in Nat
      /\ cn \in Nat /\ pwant \in Nat
      /\ sent \in Seq(Nat) /\ Capacity \in Nat /\ Len(sent) \in Nat
  BY DEF IInv, TypeOK
<1>2. ASSUME NEW len \in Batches, PushBegin(len) PROVE AlignInv(c)'
  <2>1. PICK r \in readVisible : /\ readVisible' = {x \in readVisible : x >= r}
                                 /\ pn' = Least(len, Free(r))
    BY <1>2 DEF PushBegin
  <2>2. r \in Nat /\ r <= read /\ write - r <= Capacity /\ WholeFrames(c, r)
    BY DEF IInv, TypeOK, CursorInv
  <2>3. read <= write
    BY CursorsClose DEF IInv
  <2>4. Free(r) = Capacity - (write - r)
    <3>1. r <= write
      BY <1>1, <2>2, <2>3
    <3> QED BY <1>1, <2>2, <3>1, WrappingSubExact DEF Free
  <2>5. WholeFrames(c, Capacity - (write - r))
    <3>1. WholeFrames(c, write - r)
      BY <1>1, <2>2, FramesSubtract
    <3>2. write - r \in Int
      BY <1>1, <2>2
    <3>3. WholeFrames(c, Capacity)
      BY DEF FramesOnly
    <3> DEFINE used == write - r
    <3> HIDE DEF used
    <3>4. WholeFrames(c, Capacity - used)
      BY <1>1, <3>1, <3>2, <3>3, FramesSubtract DEF used
    <3> QED BY <3>4 DEF used
  <2>6. WholeFrames(c, len)
    BY DEF FramesOnly
  <2>7. WholeFrames(c, pn')
    BY <2>1, <2>4, <2>5, <2>6 DEF Least
  <2>8. UNCHANGED <<write, read, writeVisible, cpc, cn, offered, sent>> /\ pwant' = len
    BY <1>2 DEF PushBegin, ring, consumer, history
  <2> QED BY <2>1, <2>6, <2>7, <2>8
<1>3. ASSUME StoreSlot PROVE AlignInv(c)'
  <2>1. /\ sent' = Append(sent, offered + pi) /\ Len(sent) = write + pi /\ ppc = "store"
        /\ UNCHANGED <<write, read, readVisible, writeVisible, ppc, pwant, pn, cpc, cn, offered>>
    BY <1>3 DEF StoreSlot, IInv, HistoryInv, memory, consumer
  <2>2. (offered + pi) % c = (write + pi) % c
    <3>1. offered \in Int /\ write \in Int /\ pi \in Int
      BY <1>1
    <3>2. (offered + pi) % c = pi % c
      BY <3>1, FramesAndRest
    <3>3. (write + pi) % c = pi % c
      BY <3>1, FramesAndRest
    <3> QED BY <3>2, <3>3
  <2>3. /\ Len(sent') = write + pi + 1 /\ sent'[write + pi + 1] = offered + pi
        /\ \A k \in 1..write + pi : sent'[k] = sent[k]
    BY <1>1, <2>1, AppendProperties
  <2>4. \A k \in 1..Len(sent') : sent'[k] % c = (k - 1) % c
    <3> SUFFICES ASSUME NEW k \in 1..Len(sent') PROVE sent'[k] % c = (k - 1) % c
      OBVIOUS
    <3>1. CASE k = write + pi + 1
      <4>1. k - 1 = write + pi
        BY <1>1, <3>1
      <4> QED BY <2>2, <2>3, <3>1, <4>1
    <3>2. CASE k # write + pi + 1
      <4>1. k \in 1..write + pi /\ k \in 1..Len(sent)
        BY <1>1, <2>1, <2>3, <3>2
      <4> QED BY <2>3, <4>1
    <3> QED BY <3>1, <3>2
  <2> QED BY <2>1, <2>4
<1>4. ASSUME PublishWrite PROVE AlignInv(c)'
  <2>1. /\ write' = write + pn /\ offered' = offered + pwant /\ ppc = "store" /\ ppc' = "count"
        /\ writeVisible' = writeVisible \cup {Release(write')}
        /\ UNCHANGED <<read, readVisible, cpc, cn, sent>>
    BY <1>4 DEF PublishWrite, consumer
  <2>2. WholeFrames(c, write + pn) /\ WholeFrames(c, offered + pwant)
    BY <1>1, <2>1, FramesAdd
  <2> QED BY <2>1, <2>2 DEF Release
<1>5. ASSUME NEW len \in Requests, PopBegin(len) PROVE AlignInv(c)'
  <2>1. PICK m \in writeVisible : /\ writeVisible' = {x \in writeVisible : x.index >= m.index}
                                  /\ cn' = Least(len, Available(m.index))
    BY <1>5 DEF PopBegin
  <2>2. m.index \in Nat /\ read <= m.index /\ m.index <= write /\ WholeFrames(c, m.index)
    BY DEF IInv, TypeOK, CursorInv, Message
  <2>3. write - read <= Capacity
    BY CursorsClose DEF IInv
  <2>4. Available(m.index) = m.index - read
    <3>1. m.index - read <= Capacity
      BY <1>1, <2>2, <2>3
    <3> QED BY <1>1, <2>2, <3>1, WrappingSubExact DEF Available
  <2>5. WholeFrames(c, m.index - read)
    <3> DEFINE w == m.index
    <3>1. w \in Int /\ read \in Int /\ WholeFrames(c, w) /\ WholeFrames(c, read)
      BY <1>1, <2>2
    <3> HIDE DEF w
    <3>2. WholeFrames(c, w - read)
      BY <3>1, FramesSubtract
    <3> QED BY <3>2 DEF w
  <2>6. WholeFrames(c, len)
    BY DEF FramesOnly
  <2>7. WholeFrames(c, cn')
    BY <2>1, <2>4, <2>5, <2>6 DEF Least
  <2>8. UNCHANGED <<write, read, readVisible, ppc, pwant, pn, offered, sent>>
    BY <1>5 DEF PopBegin, ring, producer, history
  <2> QED BY <2>1, <2>7, <2>8
<1>6. ASSUME PublishRead PROVE AlignInv(c)'
  <2>1. /\ read' = read + cn /\ readVisible' = readVisible \cup {read'}
        /\ cpc = "load" /\ cpc' = "count"
        /\ UNCHANGED <<write, writeVisible, ppc, pwant, pn, offered, sent>>
    BY <1>6 DEF PublishRead, producer, history
  <2>2. WholeFrames(c, read + cn)
    BY <1>1, <2>1, FramesAdd
  <2> QED BY <2>1, <2>2
<1>7. ASSUME CountDropped PROVE AlignInv(c)'
  BY <1>7 DEF CountDropped, memory, consumer, history
<1>8. ASSUME LoadSlot PROVE AlignInv(c)'
  BY <1>8 DEF LoadSlot, ring, memory, producer
<1>9. ASSUME CountStarved PROVE AlignInv(c)'
  BY <1>9 DEF CountStarved, memory, producer, history
<1>10. ASSUME UNCHANGED vars PROVE AlignInv(c)'
  BY <1>10 DEF vars, ring, memory, producer, consumer, history
<1> QED BY <1>2, <1>3, <1>4, <1>5, <1>6, <1>7, <1>8, <1>9, <1>10 DEF Next, PushStep, PopStep

(* However often a full ring cuts a push short or an empty one a buffer,     *)
(* sample k the callback plays is one of the channel that is due.            *)
THEOREM ChannelsStayAligned ==
  ASSUME NEW c \in Nat, c > 0, FramesOnly(c)
  PROVE  Spec => []ChannelAligned(c)
<1>1. Init => BatchInv /\ AlignInv(c)
  BY InitAligned DEF Init, BatchInv
<1>2. IInv /\ BatchInv /\ AlignInv(c) /\ [Next]_vars => BatchInv' /\ AlignInv(c)'
  BY BatchPreserved, AlignPreserved
<1>3. IInv /\ AlignInv(c) => ChannelAligned(c)
  BY DEF IInv, PlayedInOrder, TypeOK, AlignInv, ChannelAligned
<1> QED BY <1>1, <1>2, <1>3, Invariance, PTL DEF Spec

(* Left stays left: on a stereo machine, whose ring, slices and buffers hold *)
(* an even number of samples.                                                *)
THEOREM StereoStaysAligned ==
  ASSUME FramesOnly(2)
  PROVE  Spec => []StereoAligned
<1>1. PICK c \in Nat : c = 2
  OBVIOUS
<1>2. c > 0 /\ FramesOnly(c)
  BY <1>1
<1>3. Spec => []ChannelAligned(c)
  BY <1>2, ChannelsStayAligned
<1>4. ChannelAligned(c) => StereoAligned
  BY <1>1 DEF StereoAligned
<1> QED BY <1>3, <1>4, PTL
=============================================================================
