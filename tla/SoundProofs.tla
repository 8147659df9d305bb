----------------------------- MODULE SoundProofs -----------------------------
(* Sound, from a machine's chips to the device.  AudioPlayback: the gain     *)
(* follows the fades (PlayerInv).  SampleRing: the ring is a queue, whatever *)
(* it has grown to (RingInv).  Resampler: windows are neither lost nor       *)
(* repeated, and a run fed at once is its inputs one at a time (StageInv).   *)
EXTENDS AudioPlayback, SampleRing, Resampler, ArithmeticLemmas, SequenceTheorems

(* The gain follows the fades: up with the fade in, then down with the fade  *)
(* out, which does not begin before the fade in has ended.                   *)
GainFollows ==
  /\ ~ fading => fadeOut = 0
  /\ fadeIn < FadeSamples => fadeOut = 0 /\ gain = (IF fadeIn = 0 THEN 0 ELSE fadeIn - 1)
  /\ fadeIn = FadeSamples /\ fadeOut = 0 => gain \in {FadeSamples, FadeSamples - 1}
  /\ fadeOut > 0 => gain \in {FadeSamples - fadeOut, FadeSamples - fadeOut + 1}

PlayerInv == PlayerTypeOK /\ (GainFollows \/ FadeSamples = 0)

(* The lesser of two is no greater than either.                              *)
LEMMA LesserFacts ==
  ASSUME NEW a \in Nat, NEW b \in Nat
  PROVE  Lesser(a, b) \in Nat /\ Lesser(a, b) <= a /\ Lesser(a, b) <= b
BY DEF Lesser

(* The invariant holds at the start,                                         *)
LEMMA PlayerBegin == PlayerInit => PlayerInv
<1> SUFFICES ASSUME PlayerInit PROVE PlayerInv
  OBVIOUS
<1>1. /\ fill = 0 /\ started = FALSE /\ fadeIn = 0 /\ fadeOut = 0 /\ fading = FALSE
      /\ left = 0 /\ untilCallback = 0 /\ quit = "runs" /\ asleep = 0 /\ gain = 0
  BY DEF PlayerInit
<1>2. /\ 0 \in 0..Capacity /\ 0 \in 0..FadeSamples /\ 0 \in 0..Buffer /\ 0 \in 0..Period
      /\ 0 \in 0..Sleep /\ FadeSamples \in Nat
  BY PlayerAssumption DEF PlayerAssumption
<1>3. PlayerTypeOK
  BY <1>1, <1>2 DEF PlayerTypeOK
<1>4. FadeSamples # 0 => GainFollows
  BY <1>1, <1>2 DEF GainFollows
<1> QED BY <1>3, <1>4 DEF PlayerInv

(* One sample: the gain keeps to the fades and moves one step at most.       *)
LEMMA SampleMoves ==
  ASSUME PlayerInv, WriteSample
  PROVE  /\ fadeIn' \in 0..FadeSamples /\ fadeOut' \in 0..FadeSamples
         /\ gain' \in 0..FadeSamples /\ gain' - gain \in -1..1
         /\ GainFollows' \/ FadeSamples = 0
<1>0. /\ fadeIn \in 0..FadeSamples /\ fadeOut \in 0..FadeSamples /\ gain \in 0..FadeSamples
      /\ FadeSamples \in Nat /\ (GainFollows \/ FadeSamples = 0)
  BY PlayerAssumption DEF PlayerAssumption, PlayerInv, PlayerTypeOK
<1>1. CASE fadeIn < FadeSamples
  <2>1. gain' = fadeIn /\ fadeIn' = fadeIn + 1 /\ fadeOut' = fadeOut /\ fading' = fading
    BY <1>1 DEF WriteSample
  <2> QED BY <1>0, <1>1, <2>1 DEF GainFollows
<1>2. CASE fadeIn = FadeSamples /\ ~ fading
  <2>1. gain' = FadeSamples /\ fadeIn' = fadeIn /\ fadeOut' = fadeOut /\ fading' = fading
    BY <1>0, <1>2 DEF WriteSample
  <2> QED BY <1>0, <1>2, <2>1 DEF GainFollows
<1>3. CASE fadeIn = FadeSamples /\ fading /\ fadeOut < FadeSamples
  <2>1. gain' = FadeSamples - fadeOut /\ fadeOut' = fadeOut + 1 /\ fadeIn' = fadeIn /\ fading' = fading
    BY <1>0, <1>3 DEF WriteSample
  <2> QED BY <1>0, <1>3, <2>1 DEF GainFollows
<1>4. CASE fadeIn = FadeSamples /\ fading /\ fadeOut = FadeSamples
  <2>1. gain' = 0 /\ fadeOut' = fadeOut /\ fadeIn' = fadeIn /\ fading' = fading
    BY <1>0, <1>4 DEF WriteSample
  <2> QED BY <1>0, <1>4, <2>1 DEF GainFollows
<1> QED BY <1>0, <1>1, <1>2, <1>3, <1>4

(* and every step keeps it and moves the gain by one at most.                *)
LEMMA PlayerStep == PlayerInv /\ [PlayerNext]_playerVars => PlayerInv' /\ gain' - gain \in -1..1
<1> SUFFICES ASSUME PlayerInv, [PlayerNext]_playerVars PROVE PlayerInv' /\ gain' - gain \in -1..1
  OBVIOUS
<1>0. /\ PlayerTypeOK /\ (GainFollows \/ FadeSamples = 0)
      /\ Capacity \in Nat /\ FadeSamples \in Nat /\ Buffer \in Nat /\ FrameSamples \subseteq Nat
      /\ Period \in Nat /\ Sleep \in Nat
      /\ gain \in 0..FadeSamples /\ left \in 0..Buffer
  BY PlayerAssumption DEF PlayerAssumption, PlayerInv, PlayerTypeOK
<1>1. CASE WriteSample
  <2>1. /\ left' = left - 1 /\ left > 0
        /\ fill' = fill /\ started' = started /\ fading' = fading
        /\ untilCallback' = untilCallback /\ quit' = quit /\ asleep' = asleep
    BY <1>1 DEF WriteSample, InCallback
  <2>2. left' \in 0..Buffer
    BY <1>0, <2>1
  <2> QED BY <1>0, <1>1, <2>1, <2>2, SampleMoves DEF PlayerInv, PlayerTypeOK
<1>2. ASSUME gain' = gain, fadeIn' = fadeIn, fadeOut' = fadeOut, fading' = fading \/ fading'
      PROVE  (GainFollows' \/ FadeSamples = 0) /\ gain' - gain \in -1..1
  BY <1>0, <1>2 DEF GainFollows
<1>3. ASSUME NEW n \in FrameSamples, Produce(n) PROVE PlayerInv' /\ gain' - gain \in -1..1
  <2>1. /\ fill' = Lesser(fill + n, Capacity) /\ started' \in BOOLEAN
        /\ UNCHANGED <<fadeIn, fadeOut, fading, left, untilCallback, quit, asleep, gain>>
    BY <1>0, <1>3 DEF Produce, PlayerTypeOK
  <2>2. fill' \in 0..Capacity
    <3>1. fill + n \in Nat
      BY <1>0 DEF PlayerTypeOK
    <3> QED BY <1>0, <2>1, <3>1, LesserFacts
  <2> QED BY <1>0, <1>2, <2>1, <2>2 DEF PlayerInv, PlayerTypeOK
<1>4. CASE Callback
  <2>1. /\ fill' = fill - Lesser(fill, Buffer) /\ left' = Buffer /\ untilCallback' = Period
        /\ UNCHANGED <<started, fadeIn, fadeOut, fading, quit, asleep, gain>>
    BY <1>4 DEF Callback
  <2>2. fill' \in 0..Capacity
    <3>1. fill \in 0..Capacity /\ fill \in Nat
      BY <1>0 DEF PlayerTypeOK
    <3>2. Lesser(fill, Buffer) \in Nat /\ Lesser(fill, Buffer) <= fill
      BY <1>0, <3>1, LesserFacts
    <3> QED BY <1>0, <2>1, <3>1, <3>2
  <2>3. left' \in 0..Buffer /\ untilCallback' \in 0..Period
    BY <1>0, <2>1
  <2> QED BY <1>0, <1>2, <2>1, <2>2, <2>3 DEF PlayerInv, PlayerTypeOK
<1>5. CASE SignalFade
  <2>1. /\ fading' = TRUE /\ quit' = "sleeps" /\ asleep' = Sleep
        /\ UNCHANGED <<fill, started, fadeIn, fadeOut, left, untilCallback, gain>>
    BY <1>5 DEF SignalFade
  <2> QED BY <1>0, <1>2, <2>1 DEF PlayerInv, PlayerTypeOK
<1>6. CASE Pause
  <2>1. /\ quit' = "paused"
        /\ UNCHANGED <<fill, started, fadeIn, fadeOut, fading, left, untilCallback, asleep, gain>>
    BY <1>6 DEF Pause
  <2> QED BY <1>0, <1>2, <2>1 DEF PlayerInv, PlayerTypeOK
<1>7. CASE Tick
  <2>1. /\ quit = "sleeps" => asleep > 0
        /\ started => untilCallback > 0
        /\ untilCallback' = (IF started THEN untilCallback - 1 ELSE untilCallback)
        /\ asleep' = (IF quit = "sleeps" THEN asleep - 1 ELSE asleep)
        /\ UNCHANGED <<fill, started, fadeIn, fadeOut, fading, left, quit, gain>>
    BY <1>7 DEF Tick
  <2>2. untilCallback' \in 0..Period /\ asleep' \in 0..Sleep
    BY <1>0, <2>1 DEF PlayerTypeOK
  <2> QED BY <1>0, <1>2, <2>1, <2>2 DEF PlayerInv, PlayerTypeOK
<1>8. CASE UNCHANGED playerVars
  BY <1>0, <1>2, <1>8 DEF playerVars, PlayerInv, PlayerTypeOK
<1> QED BY <1>1, <1>3, <1>4, <1>5, <1>6, <1>7, <1>8 DEF PlayerNext

(* The audio player's variables stay in their types: no fade passes its end. *)
THEOREM PlayerTyped == PlayerSpec => []PlayerTypeOK
<1>1. PlayerInv => PlayerTypeOK
  BY DEF PlayerInv
<1> QED BY <1>1, PlayerBegin, PlayerStep, PTL DEF PlayerSpec

(* The gain moves one step of the fade at a time, however long the fades,    *)
(* the buffers and the frames are.                                           *)
THEOREM GainMovesByOne == PlayerSpec => NoPop
<1> DEFINE A == gain' - gain \in -1..1
<1>1. PlayerInv /\ [PlayerNext]_playerVars => [A]_playerVars
  BY PlayerStep
<1>2. PlayerInv /\ [PlayerNext]_playerVars => PlayerInv'
  BY PlayerStep
<1> QED BY <1>1, <1>2, PlayerBegin, PTL DEF PlayerSpec, NoPop

-----------------------------------------------------------------------------
Samples == 0..(SampleNames - 1)

(* The sizes the store may have: MaxCapacity or a divisor of it.             *)
Fits(n) == n \in Nat \ {0} /\ \E q \in Nat \ {0} : n * q = MaxCapacity

(* The samples of a store b, l of them from index h on.                      *)
Slot(b, h, i) == 1 + ((h + (i - 1)) % Len(b))
View(b, h, l) == [i \in 1..l |-> b[Slot(b, h, i)]]

RingInv ==
  /\ buf \in Seq(Samples) /\ Fits(Size)
  /\ head \in 0..(Size - 1) /\ len \in 0..Size
  /\ overruns \in 0..MaxOverruns /\ next \in Samples

(* A store with one sample changed.                                          *)
StoredIn(b, i, x) == [b EXCEPT ![i] = x]

(* A divisor of a power of two that is smaller than it can be doubled.       *)
LEMMA Doubling ==
  ASSUME NEW n, Fits(n), n < MaxCapacity
  PROVE  Fits(2 * n) /\ 2 * n <= MaxCapacity
<1> DEFINE M == MaxCapacity
<1>1. PICK q \in Nat \ {0} : n * q = M
  BY DEF Fits
<1>2. n \in Nat \ {0} /\ M \in Nat
  BY RingAssumption DEF RingAssumption, Fits
<1>3. q # 1
  <2>1. n * 1 = n
    BY <1>2
  <2> QED BY <1>1, <1>2, <2>1
<1>4. q \in 2..M
  <2>1. n * q = q + (n - 1) * q
    BY <1>2
  <2>2. (n - 1) * q \in Nat
    BY <1>2
  <2> QED BY <1>1, <1>2, <1>3, <2>1, <2>2
<1>5. M % q = 0
  <2>1. M = q * n + 0
    BY <1>1, <1>2
  <2> QED BY <1>2, <1>4, <2>1, ModUnique
<1>6. q % 2 = 0
  <2>1. \A d \in 2..M : M % d = 0 => d % 2 = 0
    BY RingAssumption DEF RingAssumption, PowersOfTwo
  <2> QED BY <1>4, <1>5, <2>1
<1>7. PICK r \in Nat \ {0} : q = 2 * r
  <2>1. q = 2 * (q \div 2) + (q % 2) /\ q \div 2 \in Int
    BY DivMod
  <2> QED BY <1>6, <2>1
<1>8. (2 * n) * r = M
  <2>1. (2 * n) * r = n * (2 * r)
    BY <1>2
  <2> QED BY <1>1, <1>7, <2>1
<1>9. 2 * n <= M
  <2>1. (2 * n) * r = 2 * n + (2 * n) * (r - 1) /\ (2 * n) * (r - 1) \in Nat
    BY <1>2
  <2> QED BY <1>2, <1>8, <2>1
<1> QED BY <1>2, <1>8, <1>9 DEF Fits

(* A slot is one of the store's.                                             *)
LEMMA SlotFacts ==
  ASSUME NEW b \in Seq(Samples), Len(b) > 0, NEW h \in Nat, NEW i \in Nat, i > 0
  PROVE  Slot(b, h, i) \in 1..Len(b)
<1>1. Len(b) \in Nat /\ h + (i - 1) \in Int
  BY LenProperties
<1>2. (h + (i - 1)) % Len(b) \in 0..(Len(b) - 1)
  BY <1>1, DivMod
<1> QED BY <1>1, <1>2 DEF Slot

(* A view is a sequence of samples, as long as it says.                      *)
LEMMA ViewFacts ==
  ASSUME NEW b \in Seq(Samples), Len(b) > 0, NEW h \in Nat, NEW l \in Nat
  PROVE  /\ View(b, h, l) \in Seq(Samples) /\ Len(View(b, h, l)) = l
         /\ \A i \in 1..l : View(b, h, l)[i] = b[Slot(b, h, i)]
<1> DEFINE v == View(b, h, l)
<1>1. Len(b) \in Nat
  BY LenProperties
<1>2. ASSUME NEW i \in 1..l PROVE b[Slot(b, h, i)] \in Samples
  <2>1. Slot(b, h, i) \in 1..Len(b)
    <3>1. i \in Nat /\ i > 0
      OBVIOUS
    <3> QED BY <3>1, SlotFacts
  <2> QED BY <2>1, ElementOfSeq
<1>3. v \in [1..l -> Samples]
  BY <1>2 DEF View
<1>4. v \in Seq(Samples)
  BY <1>3, SeqDef
<1>5. Len(v) = l
  <2>1. DOMAIN v = 1..l
    BY <1>3
  <2>2. DOMAIN v = 1..Len(v) /\ Len(v) \in Nat
    BY <1>4, LenProperties
  <2> QED BY <2>1, <2>2
<1> QED BY <1>4, <1>5 DEF View

(* A sample stored behind the others, in a store with room, is appended.     *)
LEMMA Stored ==
  ASSUME NEW b \in Seq(Samples), Len(b) > 0, NEW h \in Nat, NEW l \in Nat, l < Len(b),
         NEW x \in Samples, NEW b2, b2 = StoredIn(b, Slot(b, h, l + 1), x)
  PROVE  /\ b2 \in Seq(Samples) /\ Len(b2) = Len(b)
         /\ View(b2, h, l + 1) = Append(View(b, h, l), x)
<1> DEFINE n == Len(b)
           v == View(b, h, l)
           w == View(b2, h, l + 1)
<1>1. n \in Nat /\ n > 0
  BY LenProperties
<1>3. Slot(b, h, l + 1) \in 1..n
  <2>1. l + 1 \in Nat /\ l + 1 > 0
    OBVIOUS
  <2> QED BY <2>1, SlotFacts
<1>4. /\ b2 \in Seq(Samples) /\ Len(b2) = n
      /\ \A j \in 1..n : b2[j] = IF j = Slot(b, h, l + 1) THEN x ELSE b[j]
  BY <1>3, ExceptSeq DEF StoredIn
<1>5. v \in Seq(Samples) /\ Len(v) = l /\ \A i \in 1..l : v[i] = b[Slot(b, h, i)]
  BY <1>1, ViewFacts
<1>6. /\ w \in Seq(Samples) /\ Len(w) = l + 1
      /\ \A i \in 1..(l + 1) : w[i] = b2[Slot(b2, h, i)]
  <2>1. l + 1 \in Nat /\ Len(b2) > 0
    BY <1>1, <1>4
  <2> QED BY <1>4, <2>1, ViewFacts
<1>7. /\ Append(v, x) \in Seq(Samples) /\ Len(Append(v, x)) = l + 1
      /\ \A i \in 1..l : Append(v, x)[i] = v[i]
      /\ Append(v, x)[l + 1] = x
  BY <1>5, AppendProperties
<1>8. ASSUME NEW i \in 1..(l + 1) PROVE w[i] = Append(v, x)[i]
  <2>1. Slot(b2, h, i) = Slot(b, h, i) /\ Slot(b, h, i) \in 1..n
    <3>1. Slot(b, h, i) \in 1..n
      <4>1. i \in Nat /\ i > 0
        OBVIOUS
      <4> QED BY <4>1, SlotFacts
    <3> QED BY <1>4, <3>1 DEF Slot
  <2>3. CASE i = l + 1
    BY <1>4, <1>6, <1>7, <2>1, <2>3
  <2>4. CASE i # l + 1
    <3>1. i \in 1..l /\ h + (i - 1) \in Nat /\ h + l \in Nat /\ h + (i - 1) < h + l
          /\ (h + l) - (h + (i - 1)) < n /\ h + ((l + 1) - 1) = h + l
      BY <1>1, <2>4
    <3>2. (h + (i - 1)) % n # (h + l) % n
      BY <1>1, <3>1, ModDistinct
    <3>3. (h + (i - 1)) % n \in Int /\ (h + l) % n \in Int
      BY <1>1, <3>1, DivMod
    <3>4. Slot(b, h, i) # Slot(b, h, l + 1)
      BY <3>1, <3>2, <3>3 DEF Slot
    <3> QED BY <1>4, <1>5, <1>6, <1>7, <2>1, <3>1, <3>4
  <2> QED BY <2>3, <2>4
<1>9. w = Append(v, x)
  BY <1>6, <1>7, <1>8, SeqEqual
<1> QED BY <1>4, <1>9

(* A store b2 that has the samples of a view of b at its start.              *)
StartsWith(b2, b, h, l) == \A i \in 1..l : b2[i] = b[Slot(b, h, i)]

(* So is one at the end of samples that were moved to the start of a store.  *)
LEMMA Moved ==
  ASSUME NEW b \in Seq(Samples), Len(b) > 0, NEW h \in Nat, NEW l \in Nat,
         NEW b2 \in Seq(Samples), l < Len(b2), NEW x \in Samples, NEW z \in Nat, z = 0,
         StartsWith(b2, b, h, l), b2[l + 1] = x
  PROVE  View(b2, z, l + 1) = Append(View(b, h, l), x)
<1> DEFINE v == View(b, h, l)
           w == View(b2, z, l + 1)
<1>1. v \in Seq(Samples) /\ Len(v) = l /\ \A i \in 1..l : v[i] = b[Slot(b, h, i)]
  BY ViewFacts
<1>2. /\ w \in Seq(Samples) /\ Len(w) = l + 1
      /\ \A i \in 1..(l + 1) : w[i] = b2[Slot(b2, z, i)]
  <2>1. l + 1 \in Nat /\ Len(b2) > 0
    BY LenProperties
  <2> QED BY <2>1, ViewFacts
<1>3. /\ Append(v, x) \in Seq(Samples) /\ Len(Append(v, x)) = l + 1
      /\ \A i \in 1..l : Append(v, x)[i] = v[i]
      /\ Append(v, x)[l + 1] = x
  BY <1>1, AppendProperties
<1>4. ASSUME NEW i \in 1..(l + 1) PROVE Slot(b2, z, i) = i
  <2>1. Len(b2) \in Nat /\ Len(b2) > 0 /\ i - 1 \in 0..(Len(b2) - 1) /\ z + (i - 1) = i - 1
    BY LenProperties
  <2>2. (i - 1) % Len(b2) = i - 1
    BY <2>1, ModSmall
  <2> QED BY <2>1, <2>2 DEF Slot
<1>5. ASSUME NEW i \in 1..(l + 1) PROVE w[i] = Append(v, x)[i]
  <2>1. w[i] = b2[i]
    BY <1>2, <1>4
  <2>2. i = l + 1 \/ i \in 1..l
    OBVIOUS
  <2> QED BY <1>1, <1>3, <2>1, <2>2 DEF StartsWith
<1> QED BY <1>2, <1>3, <1>5, SeqEqual

(* The store twice as large that the samples move to.                        *)
Twice(b, h) ==
  [i \in 1..(2 * Len(b)) |-> IF i <= Len(b) THEN b[Slot(b, h, i)] ELSE 0]

(* So is one stored in a store twice as large, the others moved to its start. *)
LEMMA StoredGrown ==
  ASSUME NEW b \in Seq(Samples), Len(b) > 0, NEW h \in Nat,
         NEW x \in Samples, 0 \in Samples, NEW z \in Nat, z = 0,
         NEW b2, b2 = StoredIn(Twice(b, h), 1 + Len(b), x)
  PROVE  /\ b2 \in Seq(Samples) /\ Len(b2) = 2 * Len(b)
         /\ View(b2, z, Len(b) + 1) = Append(View(b, h, Len(b)), x)
<1> DEFINE l == Len(b)
           n == 2 * l
           g == Twice(b, h)
<1>1. l \in Nat /\ l > 0 /\ n \in Nat /\ n > l
  BY LenProperties
<1>2. ASSUME NEW i \in 1..l PROVE b[Slot(b, h, i)] \in Samples
  <2>1. i \in Nat /\ i > 0
    OBVIOUS
  <2>2. Slot(b, h, i) \in 1..Len(b)
    BY <2>1, SlotFacts
  <2> QED BY <2>2, ElementOfSeq
<1>4. g \in [1..n -> Samples]
  BY <1>2 DEF Twice
<1>5. g \in Seq(Samples) /\ Len(g) = n
  <2>1. g \in Seq(Samples)
    BY <1>1, <1>4, SeqDef
  <2>2. DOMAIN g = 1..n
    BY <1>4
  <2>3. DOMAIN g = 1..Len(g) /\ Len(g) \in Nat
    BY <2>1, LenProperties
  <2> QED BY <1>1, <2>1, <2>2, <2>3
<1>6. /\ b2 \in Seq(Samples) /\ Len(b2) = n
      /\ \A j \in 1..n : b2[j] = IF j = 1 + l THEN x ELSE g[j]
  <2>1. 1 + l \in 1..Len(g)
    BY <1>1, <1>5
  <2> QED BY <1>5, <2>1, ExceptSeq DEF StoredIn
<1>7. ASSUME NEW i \in 1..l PROVE b2[i] = b[Slot(b, h, i)]
  <2>1. i \in 1..n /\ i # 1 + l /\ i <= l
    BY <1>1
  <2>2. g[i] = b[Slot(b, h, i)]
    BY <2>1 DEF Twice
  <2> QED BY <1>6, <2>1, <2>2
<1>8. b2[l + 1] = x
  <2>1. l + 1 \in 1..n /\ l + 1 = 1 + l
    BY <1>1
  <2> QED BY <1>6, <2>1
<1>9. View(b2, z, l + 1) = Append(View(b, h, l), x)
  <2>1. l < Len(b2)
    BY <1>1, <1>6
  <2>2. StartsWith(b2, b, h, l)
    BY <1>7 DEF StartsWith
  <2>3. b2 \in Seq(Samples)
    BY <1>6
  <2> QED BY <1>1, <1>8, <2>1, <2>2, <2>3, Moved
<1> QED BY <1>6, <1>9

(* A sample stored over the oldest of a full store is appended to the rest.  *)
LEMMA StoredOver ==
  ASSUME NEW b \in Seq(Samples), Len(b) > 0, NEW h \in Nat, h < Len(b),
         NEW x \in Samples, NEW b2, b2 = StoredIn(b, 1 + h, x)
  PROVE  /\ b2 \in Seq(Samples) /\ Len(b2) = Len(b)
         /\ View(b2, (h + 1) % Len(b), Len(b)) = Append(Tail(View(b, h, Len(b))), x)
<1> DEFINE l == Len(b)
           v == View(b, h, l)
           h2 == (h + 1) % l
           w == View(b2, h2, l)
           t == Tail(v)
<1>1. l \in Nat /\ l > 0 /\ h \in Nat /\ h \in 0..(l - 1) /\ h2 \in 0..(l - 1) /\ h2 \in Nat
  <2>1. l \in Nat /\ l > 0 /\ h \in Nat /\ h \in 0..(l - 1)
    BY LenProperties
  <2>2. h2 \in 0..(l - 1)
    BY <2>1, DivMod
  <2> QED BY <2>1, <2>2
<1>2. v \in Seq(Samples) /\ Len(v) = l /\ \A i \in 1..l : v[i] = b[Slot(b, h, i)]
  BY <1>1, ViewFacts
<1>3. /\ b2 \in Seq(Samples) /\ Len(b2) = l
      /\ \A j \in 1..l : b2[j] = IF j = 1 + h THEN x ELSE b[j]
  <2>1. 1 + h \in 1..Len(b)
    BY <1>1
  <2> QED BY <2>1, ExceptSeq DEF StoredIn
<1>4. /\ w \in Seq(Samples) /\ Len(w) = l
      /\ \A i \in 1..l : w[i] = b2[Slot(b2, h2, i)]
  <2>1. Len(b2) > 0
    BY <1>1, <1>3
  <2> QED BY <1>1, <1>3, <2>1, ViewFacts
<1>5. t \in Seq(Samples) /\ Len(t) = l - 1 /\ \A i \in 1..(l - 1) : t[i] = v[i + 1]
  <2>1. v # <<>>
    BY <1>1, <1>2, EmptySeq
  <2> QED BY <1>2, <2>1, HeadTailProperties
<1>6. /\ Append(t, x) \in Seq(Samples) /\ Len(Append(t, x)) = l
      /\ \A i \in 1..(l - 1) : Append(t, x)[i] = t[i]
      /\ Append(t, x)[l] = x
  BY <1>1, <1>5, AppendProperties
<1>7. ASSUME NEW i \in 1..l PROVE w[i] = Append(t, x)[i]
  <2>1. (h2 + (i - 1)) % l = (h + i) % l
    <3>1. h + 1 \in Int /\ i - 1 \in Int /\ (h + 1) + (i - 1) = h + i
      BY <1>1
    <3> QED BY <1>1, <3>1, ModAdd
  <2>2. (h + i) % l \in 0..(l - 1)
    BY <1>1, DivMod
  <2>3. w[i] = b2[1 + ((h + i) % l)] /\ 1 + ((h + i) % l) \in 1..l
    <3>1. Slot(b2, h2, i) = 1 + ((h + i) % l)
      BY <1>3, <2>1 DEF Slot
    <3>2. w[i] = b2[Slot(b2, h2, i)]
      BY <1>4
    <3>3. 1 + ((h + i) % l) \in 1..l
      BY <1>1, <2>2
    <3> QED BY <3>1, <3>2, <3>3
  <2>4. CASE i = l
    <3>1. h + i = l * 1 + h
      BY <1>1, <2>4
    <3>2. (h + i) % l = h
      BY <1>1, <3>1, ModUnique
    <3> QED BY <1>3, <1>6, <2>3, <2>4, <3>2
  <2>5. CASE i # l
    <3>1. i \in 1..(l - 1) /\ h + i \in Nat /\ h < h + i /\ (h + i) - h < l
      BY <1>1, <2>5
    <3>2. (h + i) % l # h % l
      BY <1>1, <3>1, ModDistinct
    <3>3. h % l = h
      BY <1>1, ModSmall
    <3>4. 1 + ((h + i) % l) # 1 + h
      BY <1>1, <2>2, <3>2, <3>3
    <3>5. v[i + 1] = b[1 + ((h + i) % l)]
      <4>1. i + 1 \in 1..l /\ (i + 1) - 1 = i
        BY <1>1, <3>1
      <4>2. Slot(b, h, i + 1) = 1 + ((h + i) % l)
        BY <4>1 DEF Slot
      <4> QED BY <1>2, <4>1, <4>2
    <3> QED BY <1>3, <1>5, <1>6, <2>3, <3>1, <3>4, <3>5
  <2> QED BY <2>4, <2>5
<1>8. w = Append(t, x)
  BY <1>4, <1>6, <1>7, SeqEqual
<1> QED BY <1>3, <1>8

(* k samples taken from the front leave the rest.                            *)
LEMMA TakenFront ==
  ASSUME NEW b \in Seq(Samples), Len(b) > 0, NEW h \in Nat, NEW l \in Nat, NEW k \in 1..l
  PROVE  View(b, (h + k) % Len(b), l - k) = SubSeq(View(b, h, l), k + 1, l)
<1> DEFINE n == Len(b)
           v == View(b, h, l)
           h2 == (h + k) % n
           w == View(b, h2, l - k)
           s == SubSeq(v, k + 1, l)
<1>1. n \in Nat /\ n > 0 /\ h2 \in Nat /\ l - k \in Nat
  <2>1. n \in Nat /\ n > 0
    BY LenProperties
  <2>2. h2 \in 0..(n - 1)
    BY <2>1, DivMod
  <2> QED BY <2>1, <2>2
<1>2. v \in Seq(Samples) /\ Len(v) = l /\ \A i \in 1..l : v[i] = b[Slot(b, h, i)]
  BY <1>1, ViewFacts
<1>3. /\ w \in Seq(Samples) /\ Len(w) = l - k
      /\ \A i \in 1..(l - k) : w[i] = b[Slot(b, h2, i)]
  BY <1>1, ViewFacts
<1>4. s \in Seq(Samples) /\ Len(s) = l - k /\ \A i \in 1..(l - k) : s[i] = v[k + i]
  <2>1. \A i \in (k + 1)..l : v[i] \in Samples
    BY <1>2, ElementOfSeq
  <2>2. /\ s \in Seq(Samples)
        /\ Len(s) = IF k + 1 <= l THEN l - (k + 1) + 1 ELSE 0
        /\ \A i \in 1..(l - (k + 1) + 1) : s[i] = v[(k + 1) + i - 1]
    <3>1. k + 1 \in Int /\ l \in Int
      OBVIOUS
    <3> QED BY <2>1, <3>1, SubSeqProperties
  <2>3. l - (k + 1) + 1 = l - k
    OBVIOUS
  <2>4. Len(s) = l - k
    BY <2>2, <2>3
  <2>5. ASSUME NEW i \in 1..(l - k) PROVE s[i] = v[k + i]
    <3>1. i \in 1..(l - (k + 1) + 1) /\ (k + 1) + i - 1 = k + i
      OBVIOUS
    <3> QED BY <2>2, <3>1
  <2> QED BY <2>2, <2>4, <2>5
<1>5. ASSUME NEW i \in 1..(l - k) PROVE w[i] = s[i]
  <2>1. (h2 + (i - 1)) % n = ((h + k) + (i - 1)) % n
    <3>1. h + k \in Int /\ i - 1 \in Int
      OBVIOUS
    <3> QED BY <1>1, <3>1, ModAdd
  <2>2. (h + k) + (i - 1) = h + ((k + i) - 1) /\ k + i \in 1..l
    OBVIOUS
  <2>3. Slot(b, h2, i) = Slot(b, h, k + i)
    BY <2>1, <2>2 DEF Slot
  <2> QED BY <1>2, <1>3, <1>4, <2>2, <2>3
<1> QED BY <1>3, <1>4, <1>5, SeqEqual

(* What the constants say, in one fact.                                      *)
LEMMA RingConstants ==
  /\ MaxCapacity \in Nat \ {0} /\ InitialCapacity \in Nat \ {0} /\ Fits(InitialCapacity)
  /\ SampleNames \in Nat \ {0} /\ MaxOverruns \in Nat /\ 0 \in Samples
<1>1. /\ MaxCapacity \in Nat \ {0} /\ InitialCapacity \in 1..MaxCapacity
      /\ MaxCapacity % InitialCapacity = 0
      /\ SampleNames \in Nat \ {0} /\ MaxOverruns \in Nat
  BY RingAssumption DEF RingAssumption, PowersOfTwo
<1> DEFINE q == MaxCapacity \div InitialCapacity
<1>2. q \in Int /\ MaxCapacity = InitialCapacity * q + 0
  BY <1>1, DivMod
<1>3. q > 0
  <2>1. ASSUME q <= 0 PROVE InitialCapacity * q <= 0
    <3>1. InitialCapacity \in Nat /\ -q \in Nat /\ InitialCapacity * (-q) \in Nat
      BY <1>1, <1>2, <2>1
    <3>2. InitialCapacity * (-q) = -(InitialCapacity * q) /\ InitialCapacity * q \in Int
      BY <1>1, <1>2
    <3> QED BY <3>1, <3>2
  <2> QED BY <1>1, <1>2, <2>1
<1>4. q \in Nat \ {0} /\ InitialCapacity * q = MaxCapacity
  BY <1>1, <1>2, <1>3
<1> HIDE DEF q
<1>5. Fits(InitialCapacity)
  BY <1>1, <1>4 DEF Fits
<1> QED BY <1>1, <1>5 DEF Samples

(* The invariant holds of an empty ring,                                     *)
LEMMA RingBegin == RingInit => RingInv
<1> SUFFICES ASSUME RingInit PROVE RingInv
  OBVIOUS
<1>1. /\ buf = Blank(InitialCapacity) /\ head = 0 /\ len = 0 /\ overruns = 0 /\ next = 0
  BY DEF RingInit
<1>2. buf \in [1..InitialCapacity -> Samples]
  BY <1>1, RingConstants DEF Blank
<1>3. buf \in Seq(Samples)
  BY <1>2, RingConstants, SeqDef
<1>4. Size = InitialCapacity
  <2>1. DOMAIN buf = 1..InitialCapacity
    BY <1>2
  <2>2. DOMAIN buf = 1..Len(buf) /\ Len(buf) \in Nat
    BY <1>3, LenProperties
  <2> QED BY <2>1, <2>2, RingConstants DEF Size
<1> QED BY <1>1, <1>3, <1>4, RingConstants DEF RingInv

(* A view of the ring is what it holds.                                      *)
LEMMA ContentsAre == Contents = View(buf, head, len)
BY DEF Contents, View, At, Slot, Size

(* What the ring holds is a sequence of len samples.                         *)
LEMMA ContentsFacts ==
  ASSUME RingInv
  PROVE  /\ Contents \in Seq(Samples) /\ Len(Contents) = len
         /\ Size \in Nat /\ Size > 0 /\ head \in Nat /\ len \in Nat
<1>1. Size \in Nat /\ Size > 0 /\ head \in Nat /\ len \in Nat /\ buf \in Seq(Samples) /\ Len(buf) > 0
  BY DEF RingInv, Fits, Size
<1>2. View(buf, head, len) \in Seq(Samples) /\ Len(View(buf, head, len)) = len
  BY <1>1, ViewFacts
<1> QED BY <1>1, <1>2, ContentsAre

(* A push is one of the queue's, and keeps the invariant.                    *)
LEMMA PushIsQueued ==
  ASSUME RingInv, push
  PROVE  RingInv' /\ Queue!Push
<1>0. /\ Size \in Nat /\ Size > 0 /\ head \in 0..(Size - 1) /\ head \in Nat /\ len \in 0..Size
      /\ len \in Nat /\ buf \in Seq(Samples) /\ Len(buf) = Size /\ Fits(Size)
      /\ overruns \in 0..MaxOverruns /\ next \in Samples
      /\ Len(Contents) = len /\ Contents = View(buf, head, len)
  BY ContentsFacts, ContentsAre DEF RingInv, Size
<1>1. next' = (next + 1) % SampleNames /\ next' \in Samples
  <2>1. next' = (next + 1) % SampleNames
    BY DEF push
  <2>2. next + 1 \in Int
    BY <1>0, RingConstants DEF Samples
  <2>3. (next + 1) % SampleNames \in 0..(SampleNames - 1)
    BY <2>2, RingConstants, DivMod
  <2> QED BY <2>1, <2>3 DEF Samples
<1>2. Contents' = View(buf', head', len') /\ Size' = Len(buf')
  BY ContentsAre DEF Contents, View, At, Slot, Size
<1>3. Size <= MaxCapacity
  <2>1. PICK q \in Nat \ {0} : Size * q = MaxCapacity
    BY <1>0 DEF Fits
  <2>2. Size * q = Size + Size * (q - 1) /\ Size * (q - 1) \in Nat
    BY <1>0
  <2> QED BY <1>0, <2>1, <2>2, RingConstants
<1>4. CASE len < Size
  <2>1. /\ buf' = [buf EXCEPT ![1 + ((head + len) % Size)] = next]
        /\ len' = len + 1 /\ head' = head /\ overruns' = overruns
    BY <1>4 DEF push, store
  <2>2. 1 + ((head + len) % Size) = Slot(buf, head, len + 1)
    <3>1. (len + 1) - 1 = len
      BY <1>0
    <3> QED BY <1>0, <3>1 DEF Slot
  <2>3. buf' = StoredIn(buf, Slot(buf, head, len + 1), next)
    BY <2>1, <2>2 DEF StoredIn
  <2>4. /\ buf' \in Seq(Samples) /\ Len(buf') = Size
        /\ View(buf', head, len + 1) = Append(View(buf, head, len), next)
    <3> DEFINE b2 == buf'
    <3>1. /\ buf \in Seq(Samples) /\ Len(buf) > 0 /\ head \in Nat /\ len \in Nat
          /\ len < Len(buf) /\ next \in Samples /\ b2 = StoredIn(buf, Slot(buf, head, len + 1), next)
      BY <1>0, <1>4, <2>3
    <3> HIDE DEF b2
    <3>2. /\ b2 \in Seq(Samples) /\ Len(b2) = Len(buf)
          /\ View(b2, head, len + 1) = Append(View(buf, head, len), next)
      BY <3>1, Stored
    <3> QED BY <1>0, <3>2 DEF b2
  <2>5. RingInv'
    BY <1>0, <1>1, <1>2, <1>4, <2>1, <2>4 DEF RingInv
  <2>6. Contents' = Append(Contents, next)
    BY <1>0, <1>2, <2>1, <2>4
  <2> QED BY <1>0, <1>1, <1>3, <1>4, <2>1, <2>5, <2>6, RingConstants DEF Queue!Push
<1>5. CASE ~ (len < Size) /\ Size < MaxCapacity
  <2>1. /\ buf' = [Grown EXCEPT ![1 + len] = next]
        /\ head' = 0 /\ len' = len + 1 /\ overruns' = overruns /\ len = Size
    BY <1>0, <1>5 DEF push, grow
  <2>2. Grown = Twice(buf, head)
    BY <1>0, <2>1 DEF Grown, Twice, At, Slot, Size
  <2>3. buf' = StoredIn(Twice(buf, head), 1 + len, next)
    BY <2>1, <2>2 DEF StoredIn
  <2>4. /\ buf' \in Seq(Samples) /\ Len(buf') = 2 * len
        /\ View(buf', head', len + 1) = Append(View(buf, head, len), next)
    <3>1. head' \in Nat /\ head' = 0 /\ Len(buf) > 0 /\ len = Len(buf) /\ 0 \in Samples /\ len \in Nat
      BY <1>0, <2>1, RingConstants
    <3> DEFINE b2 == buf'
               z == head'
    <3>2. /\ buf \in Seq(Samples) /\ head \in Nat /\ next \in Samples
          /\ b2 = StoredIn(Twice(buf, head), 1 + Len(buf), next) /\ z \in Nat /\ z = 0
          /\ Len(buf) > 0 /\ len = Len(buf) /\ 0 \in Samples /\ len \in Nat
      BY <1>0, <2>3, <3>1
    <3> HIDE DEF b2, z
    <3>3. /\ b2 \in Seq(Samples) /\ Len(b2) = 2 * Len(buf)
          /\ View(b2, z, Len(buf) + 1) = Append(View(buf, head, Len(buf)), next)
      BY <3>2, StoredGrown
    <3> QED BY <3>2, <3>3 DEF b2, z
  <2>5. Fits(Len(buf'))
    BY <1>5, <1>0, <2>1, <2>4, Doubling
  <2>6. /\ head' \in 0..(Size' - 1) /\ len' \in 0..Size'
    BY <1>0, <1>2, <2>1, <2>4
  <2>7. RingInv'
    BY <1>0, <1>1, <1>2, <2>1, <2>4, <2>5, <2>6 DEF RingInv
  <2>8. Contents' = Append(Contents, next)
    BY <1>0, <1>2, <2>1, <2>4
  <2> QED BY <1>0, <1>1, <1>5, <2>1, <2>7, <2>8 DEF Queue!Push
<1>6. CASE ~ (len < Size) /\ ~ (Size < MaxCapacity)
  <2>1. /\ overruns < MaxOverruns
        /\ buf' = [buf EXCEPT ![1 + head] = next] /\ head' = (head + 1) % Size
        /\ overruns' = overruns + 1 /\ len' = len /\ len = Size /\ Size = MaxCapacity
    BY <1>0, <1>3, <1>6, RingConstants DEF push, drop
  <2>2. /\ buf' \in Seq(Samples) /\ Len(buf') = Size
        /\ View(buf', (head + 1) % len, len) = Append(Tail(View(buf, head, len)), next)
    <3>1. buf' = StoredIn(buf, 1 + head, next)
      BY <2>1 DEF StoredIn
    <3>2. Len(buf) > 0 /\ head < Len(buf) /\ head \in Nat /\ len = Len(buf)
      BY <1>0, <2>1
    <3> DEFINE b2 == buf'
    <3>3. /\ buf \in Seq(Samples) /\ next \in Samples /\ b2 = StoredIn(buf, 1 + head, next) /\ len \in Nat
      BY <1>0, <3>1
    <3> HIDE DEF b2
    <3>4. /\ b2 \in Seq(Samples) /\ Len(b2) = Len(buf)
          /\ View(b2, (head + 1) % Len(buf), Len(buf)) =
               Append(Tail(View(buf, head, Len(buf))), next)
      BY <3>2, <3>3, StoredOver
    <3> QED BY <1>0, <3>2, <3>4 DEF b2
  <2>3. head' \in 0..(Size - 1)
    <3>1. head + 1 \in Int
      BY <1>0
    <3> QED BY <1>0, <2>1, <3>1, DivMod
  <2>4. overruns' \in 0..MaxOverruns
    BY <1>0, <2>1, RingConstants
  <2>5. RingInv'
    BY <1>0, <1>1, <1>2, <2>1, <2>2, <2>3, <2>4 DEF RingInv
  <2>6. Contents' = Append(Tail(Contents), next)
    BY <1>0, <1>2, <2>1, <2>2
  <2> QED BY <1>0, <1>1, <1>6, <2>1, <2>5, <2>6 DEF Queue!Push
<1> QED BY <1>4, <1>5, <1>6

(* So is a drain, unless there is nothing to take.                           *)
LEMMA PopIsQueued ==
  ASSUME RingInv, NEW n \in 1..MaxCapacity, pop_front_into(n)
  PROVE  /\ RingInv'
         /\ \/ \E k \in 1..Len(Contents) : Queue!Take(k)
            \/ UNCHANGED <<Contents, overruns, next>>
<1>0. /\ Size \in Nat /\ Size > 0 /\ head \in 0..(Size - 1) /\ head \in Nat /\ len \in 0..Size
      /\ len \in Nat /\ buf \in Seq(Samples) /\ Len(buf) = Size /\ Len(Contents) = len
      /\ Contents = View(buf, head, len)
  BY ContentsFacts, ContentsAre DEF RingInv, Size
<1> DEFINE k == Taken(n)
<1>1. k \in 0..len
  BY <1>0 DEF Taken
<1>2. /\ head' = (head + k) % Size /\ len' = len - k
      /\ buf' = buf /\ overruns' = overruns /\ next' = next
  BY DEF pop_front_into
<1> HIDE DEF k
<1>3. Contents' = View(buf, head', len') /\ Size' = Size
  BY <1>2, ContentsAre DEF Contents, View, At, Slot, Size
<1>4. head' \in 0..(Size - 1)
  <2>1. head + k \in Int
    BY <1>0, <1>1
  <2> QED BY <1>0, <1>2, <2>1, DivMod
<1>5. RingInv'
  BY <1>0, <1>1, <1>2, <1>3, <1>4 DEF RingInv
<1>6. CASE k = 0
  <2>1. head' = head
    <3>1. head + k = head
      BY <1>0, <1>6
    <3>2. head % Size = head
      BY <1>0, ModSmall
    <3> QED BY <1>2, <3>1, <3>2
  <2>2. len' = len
    BY <1>0, <1>2, <1>6
  <2> QED BY <1>0, <1>2, <1>3, <1>5, <2>1, <2>2
<1>7. CASE k # 0
  <2>1. k \in 1..len
    BY <1>0, <1>1, <1>7
  <2>2. View(buf, (head + k) % Size, len - k) = SubSeq(View(buf, head, len), k + 1, len)
    <3>1. Len(buf) > 0
      BY <1>0
    <3> QED BY <1>0, <2>1, <3>1, TakenFront
  <2>3. Contents' = SubSeq(Contents, k + 1, Len(Contents))
    BY <1>0, <1>2, <1>3, <2>2
  <2>4. Queue!Take(k)
    BY <1>2, <2>3 DEF Queue!Take
  <2> QED BY <1>0, <1>5, <2>1, <2>4
<1> QED BY <1>6, <1>7

(* So is a clear.                                                            *)
LEMMA ClearIsQueued ==
  ASSUME RingInv, clear
  PROVE  RingInv' /\ Queue!Clear
<1>1. head' = 0 /\ len' = 0 /\ overruns' = 0 /\ buf' = buf /\ next' = next
  BY DEF clear
<1>2. Size' = Size /\ Size \in Nat /\ Size > 0
  BY <1>1, ContentsFacts DEF Size
<1>3. RingInv'
  BY <1>1, <1>2, RingConstants DEF RingInv
<1>4. Contents' = <<>>
  BY <1>1 DEF Contents
<1> QED BY <1>1, <1>3, <1>4 DEF Queue!Clear

(* So every step of the ring is one of the queue, or none.                   *)
LEMMA RingStep ==
  RingInv /\ [RingNext]_ringVars => RingInv' /\ [Queue!Next]_(Queue!vars)
<1> SUFFICES ASSUME RingInv, [RingNext]_ringVars PROVE RingInv' /\ [Queue!Next]_(Queue!vars)
  OBVIOUS
<1>1. CASE push
  BY <1>1, PushIsQueued DEF Queue!Next
<1>2. ASSUME NEW n \in 1..MaxCapacity, pop_front_into(n)
      PROVE  RingInv' /\ [Queue!Next]_(Queue!vars)
  BY <1>2, PopIsQueued DEF Queue!Next, Queue!vars
<1>3. CASE clear
  BY <1>3, ClearIsQueued DEF Queue!Next
<1>4. CASE UNCHANGED ringVars
  <2>1. buf' = buf /\ head' = head /\ len' = len /\ overruns' = overruns /\ next' = next
    BY <1>4 DEF ringVars
  <2>2. Contents' = Contents /\ Size' = Size
    BY <2>1 DEF Contents, At, Size
  <2> QED BY <2>1, <2>2 DEF RingInv, Queue!vars
<1> QED BY <1>1, <1>2, <1>3, <1>4 DEF RingNext

(* Every index into the ring is inside its store, however often it has       *)
(* grown, and the store is never larger than MaxCapacity.                    *)
THEOREM RingTyped == RingSpec => []RingTypeOK
<1>1. RingInv => RingTypeOK
  <2> SUFFICES ASSUME RingInv PROVE RingTypeOK
    OBVIOUS
  <2>1. PICK q \in Nat \ {0} : Size * q = MaxCapacity
    BY DEF RingInv, Fits
  <2>2. Size \in Nat \ {0}
    BY DEF RingInv, Fits
  <2>3. Size * q = Size + Size * (q - 1) /\ Size * (q - 1) \in Nat
    BY <2>2
  <2>4. Size \in 1..MaxCapacity
    BY <2>1, <2>2, <2>3, RingConstants
  <2> QED BY <2>4 DEF RingInv, RingTypeOK, Samples
<1>2. RingInv /\ [RingNext]_ringVars => RingInv'
  BY RingStep
<1> QED BY <1>1, <1>2, RingBegin, PTL DEF RingSpec

(* The ring is a queue of MaxCapacity samples that loses its oldest only     *)
(* when all of it is full, for every capacity: no growth with the samples    *)
(* wrapped around and no partial drain loses, repeats or reorders one.       *)
THEOREM RingIsAQueue == RingSpec => ImplementsQueue
<1>1. RingInit => Queue!Init
  <2> SUFFICES ASSUME RingInit PROVE Queue!Init
    OBVIOUS
  <2>1. Contents = <<>>
    BY DEF Contents, RingInit
  <2> QED BY <2>1 DEF Queue!Init, RingInit
<1>2. RingInv /\ [RingNext]_ringVars => RingInv'
  BY RingStep
<1>3. RingInv /\ [RingNext]_ringVars => [Queue!Next]_(Queue!vars)
  BY RingStep
<1> QED BY <1>1, <1>2, <1>3, RingBegin, PTL DEF RingSpec, ImplementsQueue, Queue!Spec

-----------------------------------------------------------------------------
(* The records the stage is made of.                                         *)
Stages == [accum : Nat, count : Nat, phase : Nat, taken : 0..(Decimation - 1)]
Averages == Nat \X Nat
Fed == [stage : Stages, out : Seq(Averages)]

(* Multiplication distributes over addition.                                 *)
LEMMA Distribute ==
  ASSUME NEW a \in Int, NEW b \in Int, NEW c \in Int
  PROVE  /\ (a + b) * c = a * c + b * c
         /\ a * c \in Int /\ b * c \in Int /\ a * c = c * a /\ b * c = c * b
OBVIOUS

(* Inputs accumulated are in the sums.                                       *)
LEMMA AccumulateFacts ==
  ASSUME NEW st \in Stages, NEW sample \in Nat, NEW k \in Nat
  PROVE  /\ Accumulate(st, sample, k) \in Stages
         /\ Accumulate(st, sample, k).accum = st.accum + (k * sample)
         /\ Accumulate(st, sample, k).count = st.count + k
         /\ Accumulate(st, sample, k).phase = st.phase + (k * Intermediate)
         /\ Accumulate(st, sample, k).taken = st.taken
<1> DEFINE s2 == Accumulate(st, sample, k)
<1>1. /\ st.accum \in Nat /\ st.count \in Nat /\ st.phase \in Nat
      /\ st.taken \in 0..(Decimation - 1)
  BY DEF Stages
<1>2. k * sample \in Nat /\ k * Intermediate \in Nat
  BY StageAssumption DEF StageAssumption
<1> DEFINE a == st.accum + (k * sample)
           c == st.count + k
           p == st.phase + (k * Intermediate)
<1>3. s2 = [st EXCEPT !.accum = a, !.count = c, !.phase = p]
  BY DEF Accumulate
<1>4. a \in Nat /\ c \in Nat /\ p \in Nat
  BY <1>1, <1>2
<1> HIDE DEF a, c, p
<1> HIDE DEF s2
<1>5. s2 \in Stages /\ s2.accum = a /\ s2.count = c /\ s2.phase = p /\ s2.taken = st.taken
  BY <1>3, <1>4 DEF Stages
<1> QED BY <1>5 DEF a, c, p, s2

(* Accumulating j inputs and one is accumulating j + 1.                      *)
LEMMA AccumulateTwice ==
  ASSUME NEW st \in Stages, NEW sample \in Nat, NEW j \in Nat
  PROVE  Accumulate(Accumulate(st, sample, j), sample, 1) = Accumulate(st, sample, j + 1)
<1> DEFINE s1 == Accumulate(st, sample, j)
           s2 == Accumulate(s1, sample, 1)
           s3 == Accumulate(st, sample, j + 1)
<1>1. /\ s1 \in Stages /\ s1.accum = st.accum + (j * sample) /\ s1.count = st.count + j
      /\ s1.phase = st.phase + (j * Intermediate) /\ s1.taken = st.taken
  BY AccumulateFacts
<1>2. j + 1 \in Nat /\ 1 \in Nat
  OBVIOUS
<1> HIDE DEF s1
<1>3. /\ s2 \in Stages /\ s2.accum = s1.accum + (1 * sample) /\ s2.count = s1.count + 1
      /\ s2.phase = s1.phase + (1 * Intermediate) /\ s2.taken = s1.taken
  <2>1. ASSUME NEW k \in Nat
        PROVE  /\ Accumulate(s1, sample, k) \in Stages
               /\ Accumulate(s1, sample, k).accum = s1.accum + (k * sample)
               /\ Accumulate(s1, sample, k).count = s1.count + k
               /\ Accumulate(s1, sample, k).phase = s1.phase + (k * Intermediate)
               /\ Accumulate(s1, sample, k).taken = s1.taken
    BY <1>1, AccumulateFacts
  <2> QED BY <1>2, <2>1
<1>4. /\ s3 \in Stages /\ s3.accum = st.accum + ((j + 1) * sample) /\ s3.count = st.count + (j + 1)
      /\ s3.phase = st.phase + ((j + 1) * Intermediate) /\ s3.taken = st.taken
  BY <1>2, AccumulateFacts
<1>5. /\ st.accum \in Nat /\ st.count \in Nat /\ st.phase \in Nat
      /\ Intermediate \in Nat
  BY StageAssumption DEF Stages, StageAssumption
<1> HIDE DEF s2, s3
<1>6. s2.accum = s3.accum
  <2>1. (j + 1) * sample = j * sample + 1 * sample /\ j * sample \in Int /\ 1 * sample \in Int
    BY <1>2, Distribute
  <2> QED BY <1>1, <1>3, <1>4, <1>5, <2>1
<1>9. s2.phase = s3.phase
  <2>1. /\ (j + 1) * Intermediate = j * Intermediate + 1 * Intermediate
        /\ j * Intermediate \in Int /\ 1 * Intermediate \in Int
    BY <1>2, <1>5, Distribute
  <2> QED BY <1>1, <1>3, <1>4, <1>5, <2>1
<1>7. s2.count = s3.count /\ s2.taken = s3.taken
  <2>1. /\ s2.count = s1.count + 1 /\ s1.count = st.count + j /\ s3.count = st.count + (j + 1)
        /\ st.count \in Nat
    BY <1>1, <1>3, <1>4, <1>5
  <2>2. s2.count = s3.count
    BY <2>1
  <2> QED BY <1>1, <1>3, <1>4, <2>2
<1>8. s2 = s3
  BY <1>3, <1>4, <1>6, <1>7, <1>9 DEF Stages
<1> QED BY <1>8 DEF s1, s2, s3

(* Windows closed: the averages offered account for the whole periods.       *)
LEMMA CloseFacts ==
  ASSUME input_rate \in Nat \ {0}, NEW r \in Fed, NEW r2, r2 = close_window(r)
  PROVE  /\ r2 \in Fed /\ r2.stage.phase < input_rate
         /\ Len(r2.out) * input_rate + r2.stage.phase =
              Len(r.out) * input_rate + r.stage.phase
<1> DEFINE periods == r.stage.phase \div input_rate
           phase == r.stage.phase % input_rate
           average == <<r.stage.accum, r.stage.count>>
           averages == [i \in 1..periods |-> average]
           taken == (r.stage.taken + periods) % Decimation
           out == r.out \o averages
<1>1. /\ input_rate \in Nat /\ input_rate > 0
      /\ r.stage.accum \in Nat /\ r.stage.count \in Nat /\ r.stage.phase \in Nat
      /\ r.stage.taken \in 0..(Decimation - 1) /\ r.out \in Seq(Averages)
      /\ Decimation \in Nat \ {0}
  BY StageAssumption DEF Fed, Stages, StageAssumption
<1>2. /\ periods \in Int /\ phase \in 0..(input_rate - 1)
      /\ r.stage.phase = input_rate * periods + phase
  <2> DEFINE a == r.stage.phase
  <2>1. a \in Int /\ input_rate \in Nat /\ input_rate > 0
    BY <1>1
  <2> HIDE DEF a
  <2>2. /\ a \div input_rate \in Int /\ a % input_rate \in 0..(input_rate - 1)
        /\ a = input_rate * (a \div input_rate) + (a % input_rate)
    BY <2>1, DivMod
  <2> QED BY <2>2 DEF a
<1>3. periods \in Nat
  <2>1. ASSUME periods < 0 PROVE FALSE
    <3> DEFINE m == -periods - 1
    <3>1. m \in Nat /\ periods = -1 - m
      BY <1>2, <2>1
    <3> HIDE DEF m
    <3>2. input_rate * m \in Nat
      BY <1>1, <3>1
    <3>3. input_rate * (-1 - m) = -(input_rate * m) - input_rate
      BY <1>1, <3>1
    <3>4. input_rate * periods = -(input_rate * m) - input_rate
      BY <3>1, <3>3
    <3> DEFINE x == input_rate * periods
               y == input_rate * m
    <3>5. y \in Nat /\ x = -y - input_rate /\ r.stage.phase = x + phase
      BY <1>2, <3>2, <3>4
    <3> HIDE DEF x, y
    <3>6. input_rate \in Nat /\ r.stage.phase \in Nat /\ phase \in 0..(input_rate - 1)
      BY <1>1, <1>2
    <3> QED BY <3>5, <3>6
  <2> QED BY <1>2, <2>1
<1>4. taken \in 0..(Decimation - 1)
  <2>1. r.stage.taken + periods \in Int
    BY <1>1, <1>3
  <2> QED BY <1>1, <2>1, DivMod
<1>5. r2 = [stage |-> [accum |-> 0, count |-> 0, phase |-> phase, taken |-> taken], out |-> out]
  BY DEF close_window, With
<1> HIDE DEF periods, phase, taken
<1>6. averages \in Seq(Averages) /\ Len(averages) = periods
  <2>1. average \in Averages
    BY <1>1 DEF Averages
  <2> HIDE DEF average
  <2>2. averages \in [1..periods -> Averages]
    BY <2>1
  <2>3. averages \in Seq(Averages)
    BY <1>3, <2>2, SeqDef
  <2>4. DOMAIN averages = 1..periods
    BY <2>2
  <2> HIDE DEF averages
  <2>5. DOMAIN averages = 1..Len(averages) /\ Len(averages) \in Nat
    BY <2>3, LenProperties
  <2> QED BY <1>3, <2>3, <2>4, <2>5
<1> HIDE DEF averages
<1>7. out \in Seq(Averages) /\ Len(out) = Len(r.out) + periods /\ Len(r.out) \in Nat
  BY <1>1, <1>6, ConcatProperties, LenProperties
<1> HIDE DEF out
<1>8. r2 \in Fed /\ r2.stage.phase = phase /\ r2.out = out
  BY <1>2, <1>4, <1>5, <1>7 DEF Fed, Stages
<1>9. Len(r2.out) * input_rate = Len(r.out) * input_rate + input_rate * periods
  <2> DEFINE n == Len(r.out)
  <2>1. n \in Int /\ periods \in Int /\ input_rate \in Int
    BY <1>1, <1>3, <1>7
  <2> HIDE DEF n
  <2>2. (n + periods) * input_rate = n * input_rate + input_rate * periods
    BY <2>1, Distribute
  <2>3. Len(r2.out) = n + periods
    BY <1>7, <1>8 DEF n
  <2> QED BY <2>2, <2>3 DEF n
<1>10. Len(r2.out) * input_rate + r2.stage.phase = Len(r.out) * input_rate + r.stage.phase
  <2> DEFINE x == Len(r.out) * input_rate
             y == input_rate * periods
  <2>1. x \in Int /\ y \in Int
    BY <1>1, <1>3, <1>7
  <2>2. Len(r2.out) * input_rate = x + y
    BY <1>9
  <2>3. r.stage.phase = y + phase
    BY <1>2
  <2>4. r2.stage.phase = phase /\ phase \in Int
    BY <1>2, <1>8
  <2> HIDE DEF x, y
  <2>5. Len(r2.out) * input_rate + r2.stage.phase = x + r.stage.phase
    BY <2>1, <2>2, <2>3, <2>4
  <2> QED BY <2>5 DEF x
<1>11. r2.stage.phase < input_rate
  BY <1>1, <1>2, <1>8
<1> QED BY <1>8, <1>10, <1>11

(* The windows offered for inputs fed to a stage.                            *)
Exact(r0, r, n) ==
  Len(r.out) * input_rate + r.stage.phase =
    Len(r0.out) * input_rate + r0.stage.phase + n * Intermediate

(* Inputs fed: so do their windows.                                          *)
LEMMA FeedFacts ==
  ASSUME input_rate \in Nat \ {0}, NEW r \in Fed, NEW sample \in Nat, NEW k \in Nat
  PROVE  /\ Feed(r, sample, k) \in Fed /\ Feed(r, sample, k).stage.phase < input_rate
         /\ Exact(r, Feed(r, sample, k), k)
<1> DEFINE r2 == Feed(r, sample, k)
           st == Accumulate(r.stage, sample, k)
           fed == With(st, r.out)
<1>1. r.stage \in Stages /\ r.out \in Seq(Averages) /\ r.stage.phase \in Nat
  BY DEF Fed, Stages
<1>2. st \in Stages /\ st.phase = r.stage.phase + k * Intermediate
  BY <1>1, AccumulateFacts
<1>3. k * Intermediate \in Nat /\ Len(r.out) * input_rate \in Nat
  BY <1>1, LenProperties, StageAssumption DEF StageAssumption
<1> HIDE DEF st
<1>4. fed \in Fed /\ fed.stage = st /\ fed.out = r.out
  BY <1>1, <1>2 DEF Fed, With
<1>5. r2 = IF st.phase < input_rate THEN fed ELSE close_window(fed)
  BY <1>4 DEF Feed, st
<1> HIDE DEF fed, r2
<1>6. CASE st.phase < input_rate
  <2>1. r2 = fed
    BY <1>5, <1>6
  <2>2. r2 \in Fed /\ r2.stage.phase = r.stage.phase + k * Intermediate /\ r2.out = r.out
    BY <1>2, <1>4, <2>1
  <2>3. r2.stage.phase < input_rate
    BY <1>2, <1>6, <2>2
  <2> DEFINE x == Len(r.out) * input_rate
  <2>4. Len(r2.out) * input_rate = x
    BY <2>2
  <2>5. x \in Nat
    BY <1>3
  <2> HIDE DEF x
  <2>6. x + r2.stage.phase = x + r.stage.phase + k * Intermediate
    <3> DEFINE y == k * Intermediate
    <3>1. y \in Nat /\ r2.stage.phase = r.stage.phase + y
      BY <1>3, <2>2
    <3> HIDE DEF y
    <3>2. x + r2.stage.phase = x + r.stage.phase + y
      BY <1>1, <2>5, <3>1
    <3> QED BY <3>2 DEF y
  <2> QED BY <2>2, <2>3, <2>4, <2>6 DEF x, r2, Exact
<1>7. CASE ~ (st.phase < input_rate)
  <2>1. r2 = close_window(fed)
    BY <1>5, <1>7
  <2>2. /\ r2 \in Fed /\ r2.stage.phase < input_rate
        /\ Len(r2.out) * input_rate + r2.stage.phase =
             Len(fed.out) * input_rate + fed.stage.phase
    BY <1>4, <2>1, CloseFacts
  <2> DEFINE x == Len(r.out) * input_rate
             y == k * Intermediate
  <2>3. Len(r2.out) * input_rate + r2.stage.phase = x + (r.stage.phase + y)
    BY <1>2, <1>4, <2>2
  <2>4. x \in Nat /\ y \in Nat
    BY <1>3
  <2> HIDE DEF x, y
  <2>5. Len(r2.out) * input_rate + r2.stage.phase = x + r.stage.phase + y
    BY <1>1, <2>3, <2>4
  <2> QED BY <2>2, <2>5 DEF x, y, r2, Exact
<1> QED BY <1>6, <1>7

(* Inputs that do not end the window leave it open,                          *)
LEMMA FeedShort ==
  ASSUME input_rate \in Nat \ {0}, NEW r \in Fed, NEW sample \in Nat, NEW k \in Nat,
         r.stage.phase + (k * Intermediate) < input_rate
  PROVE  Feed(r, sample, k) = With(Accumulate(r.stage, sample, k), r.out)
<1> DEFINE st == Accumulate(r.stage, sample, k)
<1>1. r.stage \in Stages
  BY DEF Fed
<1>2. st.phase = r.stage.phase + k * Intermediate
  BY <1>1, AccumulateFacts
<1> QED BY <1>2 DEF Feed, With

(* and one input after them is as if they had come with it.                  *)
LEMMA FeedAfter ==
  ASSUME NEW r \in Fed, NEW sample \in Nat, NEW j \in Nat
  PROVE  Feed(With(Accumulate(r.stage, sample, j), r.out), sample, 1) = Feed(r, sample, j + 1)
<1> DEFINE st == Accumulate(r.stage, sample, j)
           s1 == Accumulate(st, sample, 1)
           s2 == Accumulate(r.stage, sample, j + 1)
<1>1. s1 = s2
  <2>1. r.stage \in Stages
    BY DEF Fed
  <2> QED BY <2>1, AccumulateTwice
<1>2. With(st, r.out).stage = st /\ With(st, r.out).out = r.out
  BY DEF With
<1> HIDE DEF st
<1> QED BY <1>1, <1>2 DEF Feed, st

(* No input before the kth ends the window under way.                        *)
OpenUntil(st, k) == \A j \in 1..(k - 1) : st.phase + (j * Intermediate) < input_rate

(* A run is cut at the input that ends it.                                   *)
LEMMA WindowFacts ==
  ASSUME input_rate \in Nat \ {0}, NEW st \in Stages, NEW n \in Nat \ {0}
  PROVE  /\ ToWindowEnd(st, n) \in 1..n
         /\ OpenUntil(st, ToWindowEnd(st, n))
<1> DEFINE k == ToWindowEnd(st, n)
           short == AtLeast(input_rate - st.phase, 0)
           I == Intermediate
           x == (short + I - 1) \div I
           one == AtLeast(x, 1)
<1>1. st.phase \in Nat /\ I \in Nat \ {0}
  BY StageAssumption DEF Stages, StageAssumption
<1>2. short \in Nat /\ (short > 0 => short = input_rate - st.phase)
  BY <1>1 DEF AtLeast
<1> HIDE DEF short
<1>3. /\ x \in Int /\ (short + I - 1) % I \in 0..(I - 1)
      /\ short + I - 1 = I * x + ((short + I - 1) % I)
  <2> DEFINE a == short + I - 1
  <2>1. a \in Int
    BY <1>1, <1>2
  <2> HIDE DEF I, a
  <2>2. I \in Nat /\ I > 0
    BY <1>1
  <2>3. a \div I \in Int /\ a % I \in 0..(I - 1) /\ a = I * (a \div I) + (a % I)
    BY <2>1, <2>2, DivMod
  <2> QED BY <2>3 DEF a
<1>4. k = AtMost(one, n)
  BY DEF ToWindowEnd, short
<1> HIDE DEF x, I, k
<1>5. one \in Int /\ one >= 1 /\ (one = x \/ one = 1)
  BY <1>3 DEF AtLeast
<1> HIDE DEF one
<1>6. k \in 1..n /\ k <= one
  BY <1>4, <1>5 DEF AtMost
<1>7. ASSUME NEW j \in 1..(k - 1) PROVE st.phase + (j * I) < input_rate
  <2>1. one = x /\ j + 1 <= x
    BY <1>5, <1>6
  <2>2. I * x = I * (j + 1) + I * (x - (j + 1)) /\ I * (x - (j + 1)) \in Nat
    BY <1>1, <1>3, <2>1
  <2>3. I * (j + 1) = j * I + I /\ j * I \in Nat
    BY <1>1
  <2>4. j * I < short
    BY <1>1, <1>2, <1>3, <2>2, <2>3
  <2>5. short > 0
    BY <2>3, <2>4, <1>2
  <2> QED BY <1>1, <1>2, <2>3, <2>4, <2>5
<1> QED BY <1>6, <1>7 DEF I, k, OpenUntil

(* n inputs fed one at a time.                                               *)
Ticked(r, sample, n) ==
  LET single[i \in 0..n] == IF i = 0 THEN r ELSE tick_stage(single[i - 1], sample)
  IN single[n]

(* The stages on the way.                                                    *)
OneByOne(single, sample, n) == \A i \in 1..n : single[i] = tick_stage(single[i - 1], sample)
TickSteps(r, sample, n) ==
  {single \in [0..n -> Fed] :
     /\ single[0] = r /\ OneByOne(single, sample, n)
     /\ Ticked(r, sample, n) = single[n]}

(* One pass of tick_repeat, and the passes on the way.                       *)
Passes(n) == [r : Fed, left : 0..n]
Pass(p, sample) ==
  IF p.left = 0 THEN p
  ELSE [r |-> Feed(p.r, sample, ToWindowEnd(p.r.stage, p.left)),
        left |-> p.left - ToWindowEnd(p.r.stage, p.left)]
PassSteps(r, sample, n) ==
  {pass \in [0..n -> Passes(n)] :
     /\ pass[0] = [r |-> r, left |-> n] /\ \A i \in 1..n : pass[i] = Pass(pass[i - 1], sample)
     /\ tick_repeat(r, sample, n) = pass[n].r}

(* An input fed leaves the stage typed,                                      *)
LEMMA TickTyped ==
  ASSUME input_rate \in Nat \ {0}, NEW r \in Fed, NEW sample \in Nat
  PROVE  tick_stage(r, sample) \in Fed
<1>1. 1 \in Nat
  OBVIOUS
<1> QED BY <1>1, FeedFacts DEF tick_stage

(* and so does a pass, which takes an input at least.                        *)
LEMMA PassTyped ==
  ASSUME input_rate \in Nat \ {0}, NEW n \in Nat, NEW p \in Passes(n), NEW sample \in Nat
  PROVE  /\ Pass(p, sample) \in Passes(n)
         /\ p.left # 0 => Pass(p, sample).left < p.left
<1>1. p.r \in Fed /\ p.left \in 0..n /\ p.r.stage \in Stages
  BY DEF Passes, Fed
<1>2. CASE p.left = 0
  BY <1>2 DEF Pass
<1>3. CASE p.left # 0
  <2> DEFINE k == ToWindowEnd(p.r.stage, p.left)
             r2 == Feed(p.r, sample, k)
  <2>1. k \in 1..p.left
    <3>1. p.left \in Nat \ {0}
      BY <1>1, <1>3
    <3> QED BY <1>1, <3>1, WindowFacts
  <2>2. Pass(p, sample) = [r |-> r2, left |-> p.left - k]
    BY <1>3 DEF Pass
  <2> HIDE DEF k
  <2>3. r2 \in Fed
    <3>1. k \in Nat
      BY <1>1, <2>1
    <3> QED BY <1>1, <3>1, FeedFacts
  <2> HIDE DEF r2
  <2>4. p.left - k \in 0..n /\ p.left - k < p.left
    BY <1>1, <2>1
  <2> QED BY <2>2, <2>3, <2>4 DEF Passes
<1> QED BY <1>2, <1>3

(* Ticked is what its recursion says: its steps exist.                       *)
LEMMA TicksRecursion ==
  ASSUME input_rate \in Nat \ {0}, NEW r \in Fed, NEW sample \in Nat, NEW n \in Nat
  PROVE  TickSteps(r, sample, n) # {}
<1> DEFINE X == Fed
           first == r
           step == [i \in 1..n |-> [p \in X |-> tick_stage(p, sample)]]
<1>0. first \in X
  BY DEF X
<1>1. \A p \in X : tick_stage(p, sample) \in X
  BY TickTyped
<1>2. step \in BoundedSteps(n, X)
  <2> HIDE DEF X
  <2> QED BY <1>1 DEF BoundedSteps
<1>3. PICK f \in [0..n -> X] :
        f = [i \in 0..n |-> IF i = 0 THEN first ELSE step[i][f[i - 1]]]
  <2> HIDE DEF step, first, X
  <2>1. BoundedSequels(n, X, first, step) # {}
    BY <1>0, <1>2, BoundedRecursion
  <2> QED BY <2>1 DEF BoundedSequels
<1>4. f = [i \in 0..n |-> IF i = 0 THEN first ELSE tick_stage(f[i - 1], sample)]
  <2> HIDE DEF X, first
  <2> SUFFICES ASSUME NEW i \in 0..n, i # 0
               PROVE  step[i][f[i - 1]] = tick_stage(f[i - 1], sample)
    BY <1>3
  <2>1. i \in 1..n /\ i - 1 \in 0..n /\ f[i - 1] \in X
    OBVIOUS
  <2> QED BY <2>1
<1> DEFINE s == CHOOSE s : s = [i \in 0..n |-> IF i = 0 THEN first
                                               ELSE tick_stage(s[i - 1], sample)]
<1>5. s = [i \in 0..n |-> IF i = 0 THEN first ELSE tick_stage(s[i - 1], sample)]
  <2> HIDE DEF first, X
  <2> QED BY <1>4
<1>6. Ticked(r, sample, n) = s[n]
  BY DEF Ticked
<1> HIDE DEF s, first, step, X
<1>7. s[0] = first /\ \A i \in 1..n : s[i] = tick_stage(s[i - 1], sample)
  <2>1. \A i \in 1..n : i \in 0..n /\ i # 0
    OBVIOUS
  <2>2. 0 \in 0..n
    OBVIOUS
  <2>3. \A i \in 0..n : s[i] = IF i = 0 THEN first ELSE tick_stage(s[i - 1], sample)
    BY <1>5
  <2> QED BY <2>1, <2>2, <2>3
<1>8. \A i \in 0..n : s[i] \in X
  <2> DEFINE S == {j \in 0..n : s[j] \in X}
  <2>1. 0 \in S
    BY <1>0, <1>7
  <2>2. ASSUME NEW i \in 1..n, i - 1 \in S PROVE i \in S
    BY <1>1, <1>7, <2>2
  <2> HIDE DEF S
  <2>3. \A i \in 0..n : i \in S
    BY <2>1, <2>2, BoundedInduction
  <2> QED BY <2>3 DEF S
<1>9. s \in [0..n -> X]
  BY <1>5, <1>8
<1>10. s \in TickSteps(r, sample, n)
  BY <1>6, <1>7, <1>9 DEF TickSteps, first, X, OneByOne
<1> QED BY <1>10

(* So is tick_repeat.                                                        *)
LEMMA PassRecursion ==
  ASSUME input_rate \in Nat \ {0}, NEW r \in Fed, NEW sample \in Nat, NEW n \in Nat
  PROVE  PassSteps(r, sample, n) # {}
<1> DEFINE X == Passes(n)
           first == [r |-> r, left |-> n]
           step == [i \in 1..n |-> [p \in X |-> Pass(p, sample)]]
<1>0. first \in X
  BY DEF Passes
<1>1. \A p \in X : Pass(p, sample) \in X
  BY PassTyped
<1>2. step \in BoundedSteps(n, X)
  <2> HIDE DEF X
  <2> QED BY <1>1 DEF BoundedSteps
<1>3. PICK f \in [0..n -> X] :
        f = [i \in 0..n |-> IF i = 0 THEN first ELSE step[i][f[i - 1]]]
  <2> HIDE DEF step, first, X
  <2>1. BoundedSequels(n, X, first, step) # {}
    BY <1>0, <1>2, BoundedRecursion
  <2> QED BY <2>1 DEF BoundedSequels
<1>4. f = [i \in 0..n |-> IF i = 0 THEN first ELSE Pass(f[i - 1], sample)]
  <2> HIDE DEF X, first
  <2> SUFFICES ASSUME NEW i \in 0..n, i # 0
               PROVE  step[i][f[i - 1]] = Pass(f[i - 1], sample)
    BY <1>3
  <2>1. i \in 1..n /\ i - 1 \in 0..n /\ f[i - 1] \in X
    OBVIOUS
  <2> QED BY <2>1
<1> DEFINE s == CHOOSE s : s = [i \in 0..n |-> IF i = 0 THEN first
                                               ELSE Pass(s[i - 1], sample)]
<1>5. s = [i \in 0..n |-> IF i = 0 THEN first ELSE Pass(s[i - 1], sample)]
  <2> HIDE DEF first, X
  <2> QED BY <1>4
<1>6. tick_repeat(r, sample, n) = s[n].r
  BY DEF tick_repeat, Pass
<1> HIDE DEF s, first, step, X
<1>7. s[0] = first /\ \A i \in 1..n : s[i] = Pass(s[i - 1], sample)
  <2>1. \A i \in 1..n : i \in 0..n /\ i # 0
    OBVIOUS
  <2>2. 0 \in 0..n
    OBVIOUS
  <2>3. \A i \in 0..n : s[i] = IF i = 0 THEN first ELSE Pass(s[i - 1], sample)
    BY <1>5
  <2> QED BY <2>1, <2>2, <2>3
<1>8. \A i \in 0..n : s[i] \in X
  <2> DEFINE S == {j \in 0..n : s[j] \in X}
  <2>1. 0 \in S
    BY <1>0, <1>7
  <2>2. ASSUME NEW i \in 1..n, i - 1 \in S PROVE i \in S
    BY <1>1, <1>7, <2>2
  <2> HIDE DEF S
  <2>3. \A i \in 0..n : i \in S
    BY <2>1, <2>2, BoundedInduction
  <2> QED BY <2>3 DEF S
<1>9. s \in [0..n -> X]
  BY <1>5, <1>8
<1>10. s \in PassSteps(r, sample, n)
  BY <1>6, <1>7, <1>9 DEF PassSteps, first, X
<1> QED BY <1>10

(* Ticks up to the end of a window are the inputs fed at once.               *)
LEMMA TicksAtOnce ==
  ASSUME input_rate \in Nat \ {0}, NEW sample \in Nat, NEW n \in Nat,
         NEW single \in [0..n -> Fed],
         OneByOne(single, sample, n),
         NEW m \in 0..n, NEW k \in 1..(n - m),
         OpenUntil(single[m].stage, k)
  PROVE  single[m + k] = Feed(single[m], sample, k)
<1> DEFINE r == single[m]
           S == {j \in 0..k : j = 0 \/ single[m + j] = Feed(r, sample, j)}
<1>1. r \in Fed
  OBVIOUS
<1>2. 0 \in S
  OBVIOUS
<1>3. ASSUME NEW i \in 1..k, i - 1 \in S PROVE i \in S
  <2>1. /\ m + i \in 1..n /\ (m + i) - 1 = m + (i - 1) /\ i - 1 \in Nat /\ (i - 1) + 1 = i
        /\ i \in 0..k
    OBVIOUS
  <2>2. single[m + i] = Feed(single[m + (i - 1)], sample, 1)
    BY <2>1 DEF OneByOne, tick_stage
  <2>3. CASE i = 1
    <3>1. m + (i - 1) = m
      BY <2>3
    <3> QED BY <2>1, <2>2, <2>3, <3>1
  <2>4. CASE i # 1
    <3>1. i - 1 \in 1..(k - 1) /\ i - 1 # 0
      BY <2>4
    <3>2. single[m + (i - 1)] = Feed(r, sample, i - 1)
      BY <1>3, <3>1
    <3>3. r.stage.phase + ((i - 1) * Intermediate) < input_rate
      BY <3>1 DEF OpenUntil
    <3> HIDE DEF r
    <3>4. Feed(r, sample, i - 1) = With(Accumulate(r.stage, sample, i - 1), r.out)
      BY <1>1, <2>1, <3>3, FeedShort
    <3>5. Feed(With(Accumulate(r.stage, sample, i - 1), r.out), sample, 1)
            = Feed(r, sample, (i - 1) + 1)
      BY <1>1, <2>1, FeedAfter
    <3> QED BY <2>1, <2>2, <3>2, <3>4, <3>5
  <2> QED BY <2>3, <2>4
<1> HIDE DEF S
<1>4. \A i \in 0..k : i \in S
  <2>1. k \in Nat
    OBVIOUS
  <2> QED BY <1>2, <1>3, <2>1, BoundedInduction
<1>5. k \in 0..k /\ k # 0
  OBVIOUS
<1> QED BY <1>4, <1>5 DEF S

(* A run fed at once is its inputs fed one at a time.                        *)
LEMMA BatchIsTicks ==
  ASSUME input_rate \in Nat \ {0}, NEW r \in Fed, NEW sample \in Nat, NEW n \in Nat
  PROVE  tick_repeat(r, sample, n) = Ticked(r, sample, n)
<1>1. PICK single \in [0..n -> Fed] :
        /\ single[0] = r /\ OneByOne(single, sample, n)
        /\ Ticked(r, sample, n) = single[n]
  <2>1. TickSteps(r, sample, n) # {}
    BY TicksRecursion
  <2> QED BY <2>1 DEF TickSteps
<1>2. PICK pass \in [0..n -> Passes(n)] :
        /\ pass[0] = [r |-> r, left |-> n] /\ \A i \in 1..n : pass[i] = Pass(pass[i - 1], sample)
        /\ tick_repeat(r, sample, n) = pass[n].r
  <2>1. PassSteps(r, sample, n) # {}
    BY PassRecursion
  <2> QED BY <2>1 DEF PassSteps
<1> DEFINE S == {i \in 0..n : pass[i].left <= n - i /\ pass[i].r = single[n - pass[i].left]}
<1>3. 0 \in S
  BY <1>1, <1>2
<1>4. ASSUME NEW i \in 1..n, i - 1 \in S PROVE i \in S
  <2> DEFINE p == pass[i - 1]
             q == pass[i]
  <2>1. p \in Passes(n) /\ q = Pass(p, sample) /\ i - 1 \in 0..n
    BY <1>2
  <2>2. p.left <= n - (i - 1) /\ p.r = single[n - p.left]
    BY <1>4
  <2>3. q \in Passes(n)
    BY <1>2
  <2> HIDE DEF p, q
  <2>4. p.left \in 0..n /\ p.r \in Fed /\ p.r.stage \in Stages
    BY <2>1 DEF Passes, Fed
  <2>5. q.left <= n - i /\ q.r = single[n - q.left]
    <3>1. CASE p.left = 0
      <4>1. q = p
        BY <2>1, <3>1 DEF Pass
      <4> QED BY <2>2, <3>1, <4>1
    <3>2. CASE p.left # 0
      <4> DEFINE k == ToWindowEnd(p.r.stage, p.left)
                 m == n - p.left
      <4>1. p.left \in Nat \ {0}
        BY <2>4, <3>2
      <4>2. /\ k \in 1..p.left
            /\ OpenUntil(p.r.stage, k)
        BY <2>4, <4>1, WindowFacts
      <4>3. q.r = Feed(p.r, sample, k) /\ q.left = p.left - k
        BY <2>1, <3>2 DEF Pass
      <4>4. p.r = single[m]
        BY <2>2
      <4> HIDE DEF k
      <4>5. m \in 0..n /\ k \in 1..(n - m)
        BY <2>4, <4>2
      <4>6. n - q.left = m + k /\ q.left <= n - i
        BY <2>2, <2>4, <4>2, <4>3
      <4> HIDE DEF m
      <4>7. OpenUntil(single[m].stage, k)
        BY <4>2, <4>4
      <4>8. single[m + k] = Feed(single[m], sample, k)
        BY <1>1, <4>5, <4>7, TicksAtOnce
      <4> QED BY <4>3, <4>4, <4>6, <4>8
    <3> QED BY <3>1, <3>2
  <2> QED BY <2>5 DEF q
<1> HIDE DEF S
<1>5. \A i \in 0..n : i \in S
  BY <1>3, <1>4, BoundedInduction
<1>6. n \in S
  BY <1>5
<1>7. pass[n].left = 0
  <2>1. pass[n] \in Passes(n) /\ pass[n].left <= n - n
    BY <1>6 DEF S
  <2> QED BY <2>1 DEF Passes
<1>8. pass[n].r = single[n]
  <2>1. n - pass[n].left = n
    BY <1>7
  <2> QED BY <1>6, <2>1 DEF S
<1> QED BY <1>1, <1>2, <1>8

(* A resampler's stage is typed, a saved one too, and its windows exact.     *)
StageInv ==
  /\ stage \in Stages /\ saved_stage \in Stages \cup {NoSavedStage}
  /\ input_rate \in InputRates
  /\ inputs \in 0..MaxInputs /\ offered \in Nat /\ from \in Nat
  /\ OutputCountExact

(* Windows that are exact for i - 1 inputs, and for the next, are for i.     *)
LEMMA ExactNext ==
  ASSUME input_rate \in Nat \ {0}, NEW r0 \in Fed, NEW r1 \in Fed, NEW r2 \in Fed,
         NEW i \in Nat \ {0}, Exact(r0, r1, i - 1), Exact(r1, r2, 1)
  PROVE  Exact(r0, r2, i)
<1> DEFINE a == Len(r0.out) * input_rate
           b == Len(r1.out) * input_rate
           c == Len(r2.out) * input_rate
           x == (i - 1) * Intermediate
           y == i * Intermediate
<1>1. /\ r0.stage.phase \in Nat /\ r1.stage.phase \in Nat /\ r2.stage.phase \in Nat
      /\ Len(r0.out) \in Nat /\ Len(r1.out) \in Nat /\ Len(r2.out) \in Nat
      /\ Intermediate \in Nat
  BY LenProperties, StageAssumption DEF Fed, Stages, StageAssumption
<1>2. a \in Int /\ b \in Int /\ c \in Int /\ x \in Int /\ y \in Int
  BY <1>1
<1>3. y = x + Intermediate
  <2>1. i - 1 \in Int /\ 1 \in Int /\ (i - 1) + 1 = i
    OBVIOUS
  <2>2. ((i - 1) + 1) * Intermediate = (i - 1) * Intermediate + 1 * Intermediate
    BY <1>1, <2>1, Distribute
  <2>3. 1 * Intermediate = Intermediate
    BY <1>1
  <2> QED BY <2>1, <2>2, <2>3
<1>4. b + r1.stage.phase = a + r0.stage.phase + x
  BY DEF Exact
<1>5. c + r2.stage.phase = b + r1.stage.phase + Intermediate
  <2>1. 1 * Intermediate = Intermediate
    BY <1>1
  <2> QED BY <2>1 DEF Exact
<1> HIDE DEF a, b, c, x, y
<1>6. c + r2.stage.phase = a + r0.stage.phase + y
  <2> DEFINE p0 == r0.stage.phase
             p1 == r1.stage.phase
             p2 == r2.stage.phase
  <2>1. /\ p0 \in Int /\ p1 \in Int /\ p2 \in Int /\ Intermediate \in Int
        /\ b + p1 = a + p0 + x /\ c + p2 = b + p1 + Intermediate
    BY <1>1, <1>4, <1>5
  <2> HIDE DEF p0, p1, p2
  <2>2. c + p2 = a + p0 + y
    BY <1>2, <1>3, <2>1
  <2> QED BY <2>2 DEF p0, p2
<1> QED BY <1>6 DEF Exact, a, c, y

(* Inputs fed one at a time offer their windows and leave none owed.         *)
LEMMA TickedFacts ==
  ASSUME input_rate \in Nat \ {0}, NEW r \in Fed, NEW sample \in Nat, NEW n \in Nat
  PROVE  /\ Ticked(r, sample, n) \in Fed
         /\ Exact(r, Ticked(r, sample, n), n)
         /\ n > 0 => Ticked(r, sample, n).stage.phase < input_rate
<1>1. PICK single \in [0..n -> Fed] :
        single[0] = r /\ OneByOne(single, sample, n) /\ Ticked(r, sample, n) = single[n]
  <2>1. TickSteps(r, sample, n) # {}
    BY TicksRecursion
  <2> QED BY <2>1 DEF TickSteps
<1> DEFINE S == {i \in 0..n : /\ Exact(r, single[i], i)
                              /\ i > 0 => single[i].stage.phase < input_rate}
<1>2. 0 \in S
  <2>1. Len(r.out) * input_rate + r.stage.phase \in Int /\ 0 * Intermediate = 0
    BY LenProperties, StageAssumption DEF Fed, Stages, StageAssumption
  <2> DEFINE a == Len(r.out) * input_rate + r.stage.phase
  <2>2. a = a + 0 * Intermediate
    <3> HIDE DEF a
    <3>1. a \in Int
      BY <2>1 DEF a
    <3> QED BY <2>1, <3>1
  <2>3. Exact(r, r, 0)
    BY <2>2 DEF Exact
  <2> QED BY <1>1, <2>3
<1>3. ASSUME NEW i \in 1..n, i - 1 \in S PROVE i \in S
  <2>1. i - 1 \in 0..n /\ i \in 0..n /\ i \in Nat \ {0} /\ 1 \in Nat
    OBVIOUS
  <2>2. single[i - 1] \in Fed /\ single[i] \in Fed
    BY <2>1
  <2>3. single[i] = Feed(single[i - 1], sample, 1)
    BY <1>1 DEF OneByOne, tick_stage
  <2>4. single[i].stage.phase < input_rate /\ Exact(single[i - 1], single[i], 1)
    BY <2>1, <2>2, <2>3, FeedFacts
  <2>5. Exact(r, single[i - 1], i - 1)
    BY <1>3
  <2>6. Exact(r, single[i], i)
    BY <2>1, <2>2, <2>4, <2>5, ExactNext
  <2> QED BY <2>1, <2>4, <2>6
<1> HIDE DEF S
<1>4. n \in S
  BY <1>2, <1>3, BoundedInduction
<1>5. single[n] \in Fed
  OBVIOUS
<1> QED BY <1>1, <1>4, <1>5 DEF S

(* A stage with nothing offered yet.                                         *)
LEMMA WithFacts ==
  ASSUME NEW st \in Stages
  PROVE  With(st, <<>>) \in Fed /\ With(st, <<>>).stage = st /\ Len(With(st, <<>>).out) = 0
<1>1. <<>> \in Seq(Averages) /\ Len(<<>>) = 0
  BY EmptySeq
<1> QED BY <1>1 DEF With, Fed

(* An input rate is positive.                                                *)
LEMMA RatePositive ==
  ASSUME StageInv
  PROVE  input_rate \in Nat \ {0}
BY StageAssumption DEF StageInv, StageAssumption

(* Inputs fed, one at a time or at once, are counted with their windows.     *)
LEMMA FedKeeps ==
  ASSUME StageInv, NEW sample \in Inputs, NEW n \in Nat \ {0}, inputs + n <= MaxInputs,
         NEW r, r = Ticked(With(stage, <<>>), sample, n), FedInputs(r, n)
  PROVE  StageInv'
<1> DEFINE r0 == With(stage, <<>>)
<1>1. /\ stage \in Stages /\ stage.phase \in Nat /\ input_rate \in Nat /\ input_rate \in Nat \ {0}
      /\ sample \in Nat /\ inputs \in 0..MaxInputs
      /\ offered \in Nat /\ from \in Nat /\ Intermediate \in Nat /\ MaxInputs \in Nat
      /\ offered * input_rate + stage.phase = from + inputs * Intermediate
  BY RatePositive, StageAssumption DEF StageInv, Stages, StageAssumption, OutputCountExact
<1>2. r0 \in Fed /\ r0.stage = stage /\ Len(r0.out) = 0
  BY <1>1, WithFacts
<1> HIDE DEF r0
<1>3. r \in Fed /\ Exact(r0, r, n) /\ r.stage.phase < input_rate
  <2>1. n \in Nat /\ n > 0 /\ r = Ticked(r0, sample, n)
    BY DEF r0
  <2>2. /\ Ticked(r0, sample, n) \in Fed /\ Exact(r0, Ticked(r0, sample, n), n)
        /\ Ticked(r0, sample, n).stage.phase < input_rate
    BY <1>1, <1>2, <2>1, TickedFacts
  <2> QED BY <2>1, <2>2
<1>4. /\ stage' = r.stage /\ offered' = offered + Len(r.out) /\ inputs' = inputs + n
      /\ input_rate' = input_rate /\ saved_stage' = saved_stage /\ from' = from
  BY DEF FedInputs
<1>5. r.stage \in Stages /\ r.stage.phase \in Nat /\ Len(r.out) \in Nat
  BY <1>3, LenProperties DEF Fed, Stages
<1>6. offered' * input_rate' + stage'.phase = from' + inputs' * Intermediate
  <2> DEFINE a == offered * input_rate
             b == Len(r.out) * input_rate
             x == inputs * Intermediate
             y == n * Intermediate
             l == Len(r.out)
  <2>1. a \in Int /\ b \in Int /\ x \in Int /\ y \in Int
    BY <1>1, <1>5
  <2>2. offered' * input_rate' = a + b
    <3>1. (offered + l) * input_rate = offered * input_rate + l * input_rate
      <4>1. offered \in Int /\ l \in Int /\ input_rate \in Int
        BY <1>1, <1>5
      <4> HIDE DEF l
      <4> QED BY <4>1, Distribute
    <3> QED BY <1>4, <3>1
  <2>3. inputs' * Intermediate = x + y
    <3>1. (inputs + n) * Intermediate = inputs * Intermediate + n * Intermediate
      <4>1. inputs \in Int /\ n \in Int /\ Intermediate \in Int
        BY <1>1
      <4> QED BY <4>1, Distribute
    <3> QED BY <1>4, <3>1
  <2>4. b + r.stage.phase = stage.phase + y
    <3>1. Len(r0.out) * input_rate = 0
      BY <1>1, <1>2
    <3>2. b + r.stage.phase = Len(r0.out) * input_rate + r0.stage.phase + y
      BY <1>3 DEF Exact
    <3> HIDE DEF b, y
    <3> QED BY <1>1, <1>2, <3>1, <3>2
  <2>5. a + stage.phase = from + x
    BY <1>1
  <2> HIDE DEF a, b, x, y
  <2>6. (a + b) + r.stage.phase = from + (x + y)
    <3> DEFINE p0 == stage.phase
               p1 == r.stage.phase
    <3>1. p0 \in Int /\ p1 \in Int /\ from \in Int /\ b + p1 = p0 + y /\ a + p0 = from + x
      BY <1>1, <1>5, <2>4, <2>5
    <3> HIDE DEF p0, p1
    <3>2. (a + b) + p1 = from + (x + y)
      BY <2>1, <3>1
    <3> QED BY <3>2 DEF p1
  <2> QED BY <1>4, <2>2, <2>3, <2>6
<1>7. OutputCountExact'
  BY <1>3, <1>4, <1>6 DEF OutputCountExact
<1>8. inputs' \in 0..MaxInputs /\ offered' \in Nat
  BY <1>1, <1>4, <1>5
<1> QED BY <1>1, <1>4, <1>5, <1>7, <1>8 DEF StageInv

(* A retune, a reset or a load begins another count.                         *)
LEMMA CountBegins ==
  ASSUME StageInv, NEW st \in Stages, stage' = st, CountFrom(st),
         saved_stage' \in Stages \cup {NoSavedStage}, input_rate' \in InputRates
  PROVE  StageInv'
<1>1. inputs' = 0 /\ offered' = 0 /\ from' = st.phase /\ st.phase \in Nat
  BY DEF CountFrom, Stages
<1>2. input_rate' \in Int /\ Intermediate \in Int /\ 0 \in 0..MaxInputs
  BY StageAssumption DEF StageAssumption
<1>3. offered' * input_rate' = 0 /\ inputs' * Intermediate = 0
  <2> DEFINE a == input_rate'
  <2>1. 0 * a = 0
    <3> HIDE DEF a
    <3>1. a \in Int
      BY <1>2 DEF a
    <3> QED BY <3>1
  <2>2. 0 * Intermediate = 0
    BY <1>2
  <2> QED BY <1>1, <2>1, <2>2
<1>4. OutputCountExact'
  BY <1>1, <1>3 DEF OutputCountExact
<1> QED BY <1>1, <1>2, <1>4 DEF StageInv

(* The reset stage is one.                                                   *)
LEMMA FreshTyped == Fresh \in Stages
BY StageAssumption DEF Fresh, Stages, StageAssumption

(* The invariant holds at the start,                                         *)
LEMMA StageBegin == StageInit => StageInv
<1> SUFFICES ASSUME StageInit PROVE StageInv
  OBVIOUS
<1>1. /\ stage = Fresh /\ saved_stage = NoSavedStage /\ input_rate \in InputRates
      /\ inputs = 0 /\ offered = 0 /\ from = 0
  BY DEF StageInit
<1>2. input_rate \in Int /\ Intermediate \in Int /\ 0 \in 0..MaxInputs
  BY <1>1, StageAssumption DEF StageAssumption
<1>3. offered * input_rate = 0 /\ inputs * Intermediate = 0 /\ stage.phase = 0
  BY <1>1, <1>2 DEF Fresh
<1>4. OutputCountExact
  BY <1>1, <1>3 DEF OutputCountExact
<1> QED BY <1>1, <1>2, <1>4, FreshTyped DEF StageInv

(* and every step keeps it.                                                  *)
LEMMA StageStep == StageInv /\ [StageNext]_stageVars => StageInv'
<1> SUFFICES ASSUME StageInv, [StageNext]_stageVars PROVE StageInv'
  OBVIOUS
<1>0. /\ stage \in Stages /\ saved_stage \in Stages \cup {NoSavedStage}
      /\ input_rate \in InputRates /\ inputs \in 0..MaxInputs
  BY DEF StageInv
<1>1. input_rate \in Nat \ {0} /\ MaxInputs \in Nat /\ MaxRun \in Nat /\ Inputs \subseteq Nat
  BY RatePositive, StageAssumption DEF StageAssumption
<1>2. ASSUME NEW sample \in Inputs, TickStage(sample) PROVE StageInv'
  <2> DEFINE r0 == With(stage, <<>>)
             r == Ticked(r0, sample, 1)
  <2>1. r0 \in Fed /\ sample \in Nat
    BY <1>0, <1>1, WithFacts
  <2>2. r = tick_stage(r0, sample)
    <3> HIDE DEF r0
    <3>1. 1 \in Nat
      OBVIOUS
    <3>2. TickSteps(r0, sample, 1) # {}
      BY <1>1, <2>1, <3>1, TicksRecursion
    <3>3. PICK single \in [0..1 -> Fed] :
            single[0] = r0 /\ OneByOne(single, sample, 1) /\ Ticked(r0, sample, 1) = single[1]
      BY <3>2 DEF TickSteps
    <3>4. single[1] = tick_stage(single[0], sample)
      BY <3>3 DEF OneByOne
    <3> QED BY <3>3, <3>4
  <2>3. inputs + 1 <= MaxInputs /\ FedInputs(r, 1) /\ 1 \in Nat \ {0}
    BY <1>0, <1>1, <1>2, <2>2 DEF TickStage
  <2> HIDE DEF r
  <2> QED BY <2>3, FedKeeps DEF r
<1>3. ASSUME NEW sample \in Inputs, NEW n \in 1..MaxRun, TickRepeat(sample, n) PROVE StageInv'
  <2> DEFINE r0 == With(stage, <<>>)
             r == Ticked(r0, sample, n)
  <2>1. r0 \in Fed /\ sample \in Nat /\ n \in Nat /\ n \in Nat \ {0}
    BY <1>0, <1>1, WithFacts
  <2>2. r = tick_repeat(r0, sample, n)
    <3> HIDE DEF r0
    <3> QED BY <1>1, <2>1, BatchIsTicks
  <2>3. inputs + n <= MaxInputs /\ FedInputs(r, n)
    BY <1>3, <2>2 DEF TickRepeat
  <2> HIDE DEF r
  <2> QED BY <2>1, <2>3, FedKeeps DEF r
<1>4. ASSUME NEW rate \in InputRates, set_input_rate(rate) PROVE StageInv'
  <2>1. /\ stage' = stage /\ CountFrom(stage) /\ saved_stage' = saved_stage
        /\ input_rate' = rate
    BY <1>4 DEF set_input_rate
  <2> QED BY <1>0, <2>1, CountBegins
<1>5. CASE reset_stage
  <2>1. /\ stage' = Fresh /\ CountFrom(Fresh) /\ saved_stage' = saved_stage
        /\ input_rate' = input_rate
    BY <1>5 DEF reset_stage
  <2> QED BY <1>0, <2>1, FreshTyped, CountBegins
<1>6. CASE SaveStage
  <2>1. /\ saved_stage' = stage /\ stage' = stage /\ input_rate' = input_rate
        /\ inputs' = inputs /\ offered' = offered /\ from' = from
    BY <1>6 DEF SaveStage
  <2> QED BY <1>0, <2>1 DEF StageInv, OutputCountExact
<1>7. CASE LoadStage
  <2>1. /\ saved_stage \in Stages /\ stage' = saved_stage /\ CountFrom(saved_stage)
        /\ saved_stage' = saved_stage /\ input_rate' = input_rate
    BY <1>0, <1>7 DEF LoadStage
  <2> QED BY <1>0, <2>1, CountBegins
<1>8. CASE UNCHANGED stageVars
  BY <1>8 DEF stageVars, StageInv, OutputCountExact
<1> QED BY <1>2, <1>3, <1>4, <1>5, <1>6, <1>7, <1>8 DEF StageNext

(* The stage stays in its type: the filter never holds a full set.           *)
THEOREM StageTyped == StageSpec => []StageTypeOK
<1>1. StageInv => StageTypeOK
  BY DEF StageInv, StageTypeOK, Stages
<1> QED BY <1>1, StageBegin, StageStep, PTL DEF StageSpec

(* The count of windows is exact for every rate and every batching, from any *)
(* phase a retune, a reset or a load has left.                               *)
THEOREM OutputCountIsExact == StageSpec => []OutputCountExact
<1>1. StageInv => OutputCountExact
  BY DEF StageInv
<1> QED BY <1>1, StageBegin, StageStep, PTL DEF StageSpec

(* A run fed at once is "exactly what n calls to tick with sample produce",  *)
(* for every rate, sample and length, in every state (tick_repeat).          *)
THEOREM BatchesAreTicks == StageSpec => []BatchEqualsTicks
<1>1. StageInv => BatchEqualsTicks
  <2> SUFFICES ASSUME StageInv, NEW sample \in Inputs, NEW n \in 1..MaxRun
               PROVE  tick_repeat(With(stage, <<>>), sample, n)
                        = Ticked(With(stage, <<>>), sample, n)
    BY DEF BatchEqualsTicks, Ticked
  <2>1. stage \in Stages /\ sample \in Nat /\ n \in Nat /\ input_rate \in Nat \ {0}
    BY RatePositive, StageAssumption DEF StageInv, StageAssumption
  <2>2. With(stage, <<>>) \in Fed
    BY <2>1, WithFacts
  <2> QED BY <2>1, <2>2, BatchIsTicks
<1> QED BY <1>1, StageBegin, StageStep, PTL DEF StageSpec
=============================================================================
