------------------------------ MODULE Z80Proofs ------------------------------
(* The Z80's interrupts and the CTC that raises them.  Channel: its counters *)
(* are loaded before they count, and it divides exactly.  CPU: what one      *)
(* cycle does to the record of it, on lines that change (LinesInv) and on an *)
(* MCR board (BoardInv), the inductive invariants their theorems rest on.    *)
EXTENDS CtcChannel, McrBoard, Z80Lines, ArithmeticLemmas, SequenceTheorems

Timer == ~Has(ch.control, COUNTER_MODE)

(* A channel runs in timer mode only.                                        *)
Loaded == CountersLoaded /\ (ch.running => Timer)

(* Since the load, what has elapsed and what both counters still hold add up *)
(* to the period; prescaler + (down - 1) * P are the ticks still to come.    *)
Divides ==
  steady =>
    /\ ~ch.waitingForTc /\ ch.timeConstant > 0
    /\ ch.waitingForTrigger => ~ch.running
    /\ ch.running => elapsed + ch.prescaler + ch.down * PrescalerOf(ch)
                       = (ch.timeConstant + 1) * PrescalerOf(ch)
    /\ ch.waitingForTrigger => Timer /\ elapsed = 0 /\ ch.down = ch.timeConstant
    /\ ~Timer => elapsed + ch.down = ch.timeConstant /\ ch.down > 0

IInv == ChannelTypeOK /\ Loaded /\ Divides

-----------------------------------------------------------------------------
(* Products step by their second factor.                                     *)
LEMMA OneMore ==
  \A n, p \in Nat : n * p \in Nat /\ (n + 1) * p = n * p + p
  OBVIOUS
(* Multiples of one less.                                                    *)
LEMMA OneLess ==
  ASSUME NEW n \in Nat \ {0}, NEW p \in Nat
  PROVE n * p = (n - 1) * p + p /\ (n - 1) * p \in Nat
  <1>1. n - 1 \in Nat OBVIOUS
  <1>2. ((n - 1) + 1) * p = (n - 1) * p + p BY <1>1, OneMore
  <1> QED BY <1>1, <1>2, OneMore

(* While a whole step of the prescaler, or a part of one, is still to come,  *)
(* the period is not over with the next tick.                                *)
LEMMA NotYet ==
  ASSUME NEW e \in Nat, NEW s \in Nat \ {0}, NEW a \in Nat, NEW p \in Nat, NEW t \in Nat,
         NEW x, NEW y, x = a + p, y = t + p, e + s + x = y, s # 1 \/ a > 0
  PROVE e + 1 < t
  OBVIOUS

(* The prescaler is one of the two constants.                                *)
LEMMA PrescalerType ==
  ASSUME NEW c PROVE PrescalerOf(c) \in 1..Prescale256
  BY CtcAssumption DEF PrescalerOf

(* Taking the RESET bit out of a control word leaves its other bits.         *)
LEMMA ResetTaken ==
  ASSUME NEW b \in 0..255, Has(b, RESET)
  PROVE /\ b - RESET \in 0..255
        /\ Has(b - RESET, COUNTER_MODE) <=> Has(b, COUNTER_MODE)
        /\ Has(b - RESET, PRESCALER_256) <=> Has(b, PRESCALER_256)
  <1>1. b - 2 \in 0..255
    BY DEF Has, RESET
  <1>2. (b - 2) \div 64 = b \div 64
    BY DEF Has, RESET
  <1>3. (b - 2) \div 32 = b \div 32
    BY DEF Has, RESET
  <1> QED BY <1>1, <1>2, <1>3 DEF Has, RESET, COUNTER_MODE, PRESCALER_256

(* What a count leaves alone.                                                *)
SameButCount(c, d) ==
  /\ d.control = c.control /\ d.timeConstant = c.timeConstant
  /\ d.prescaler = c.prescaler /\ d.waitingForTc = c.waitingForTc
  /\ d.running = c.running /\ d.waitingForTrigger = c.waitingForTrigger

(* A count of a loaded counter: the new counter, and when it pulses.         *)
LEMMA CountLoaded ==
  ASSUME NEW c \in ChannelType, c.down > 0
  PROVE /\ Count(c) \in ChannelType
        /\ Count(c).down = IF c.down = 1 THEN c.timeConstant ELSE c.down - 1
        /\ c.down = 1 => Count(c).zcPulse
        /\ c.down # 1 => Count(c).zcPulse = c.zcPulse
        /\ SameButCount(c, Count(c))
  <1> DEFINE asks == c.pending \/ Has(c.control, INTERRUPT_EN)
  <1>1. asks \in BOOLEAN BY DEF Has, ChannelType
  <1>2. c.down - 1 \in 0..TcRange BY CtcAssumption DEF ChannelType
  <1>3. c.timeConstant \in 0..TcRange BY DEF ChannelType
  <1>4. Count(c) = IF c.down = 1
                     THEN [c EXCEPT !.down = c.timeConstant, !.zcPulse = TRUE,
                                    !.pending = asks]
                     ELSE [c EXCEPT !.down = @ - 1]
    BY DEF Count
  <1> HIDE DEF asks
  <1>5. CASE c.down = 1
    <2> DEFINE d == [c EXCEPT !.down = c.timeConstant, !.zcPulse = TRUE, !.pending = asks]
    <2>1. Count(c) = d BY <1>4, <1>5
    <2>2. d \in ChannelType BY <1>1, <1>3 DEF ChannelType
    <2>3. d.down = c.timeConstant /\ SameButCount(c, d) BY DEF ChannelType, SameButCount
    <2>4. d.zcPulse BY DEF ChannelType
    <2> HIDE DEF d
    <2> QED BY <1>5, <2>1, <2>2, <2>3, <2>4
  <1>6. CASE c.down # 1
    <2> DEFINE d == [c EXCEPT !.down = @ - 1]
    <2>1. Count(c) = d BY <1>4, <1>6
    <2>2. d \in ChannelType BY <1>2 DEF ChannelType
    <2>3. d.down = c.down - 1 /\ SameButCount(c, d) BY DEF ChannelType, SameButCount
    <2>4. d.zcPulse = c.zcPulse BY DEF ChannelType
    <2> HIDE DEF d
    <2> QED BY <1>6, <2>1, <2>2, <2>3, <2>4
  <1> QED BY <1>5, <1>6

(* A tick of a running timer, by what its prescaler and its counter hold.    *)
LEMMA TickOfTimer ==
  ASSUME NEW c \in ChannelType, c.running, ~Has(c.control, COUNTER_MODE),
         c.prescaler > 0, c.down > 0,
         NEW d, d = TickChannel(c)
  PROVE /\ d \in ChannelType
        /\ d.control = c.control /\ d.timeConstant = c.timeConstant
        /\ d.waitingForTc = c.waitingForTc /\ d.running = c.running
        /\ d.waitingForTrigger = c.waitingForTrigger
        /\ c.prescaler # 1 => /\ d.prescaler = c.prescaler - 1 /\ d.down = c.down
                              /\ ~d.zcPulse
        /\ c.prescaler = 1 => /\ d.prescaler = PrescalerOf(c)
                              /\ d.down = IF c.down = 1 THEN c.timeConstant ELSE c.down - 1
                              /\ c.down = 1 => d.zcPulse
                              /\ c.down # 1 => ~d.zcPulse
  <1> DEFINE e == [c EXCEPT !.zcPulse = FALSE]
             r == [e EXCEPT !.prescaler = PrescalerOf(e)]
  <1>1. e \in ChannelType /\ e.down = c.down /\ ~e.zcPulse /\ SameButCount(c, e)
    BY DEF ChannelType, SameButCount
  <1>2. PrescalerOf(e) = PrescalerOf(c) /\ PrescalerOf(c) \in 0..Prescale256
    BY <1>1, PrescalerType DEF SameButCount, PrescalerOf
  <1>3. /\ r \in ChannelType /\ r.down = c.down /\ ~r.zcPulse
        /\ r.prescaler = PrescalerOf(c) /\ r.control = c.control
        /\ r.timeConstant = c.timeConstant /\ r.waitingForTc = c.waitingForTc
        /\ r.running = c.running /\ r.waitingForTrigger = c.waitingForTrigger
    BY <1>1, <1>2 DEF ChannelType, SameButCount
  <1>4. d = IF e.prescaler # 1 THEN [e EXCEPT !.prescaler = @ - 1] ELSE Count(r)
    BY <1>1 DEF TickChannel, SameButCount
  <1> HIDE DEF e, r
  <1>5. CASE c.prescaler # 1
    <2>1. d = [e EXCEPT !.prescaler = @ - 1] BY <1>1, <1>4, <1>5 DEF SameButCount
    <2>2. e.prescaler - 1 \in 0..Prescale256
      BY <1>1, CtcAssumption DEF ChannelType, SameButCount
    <2>3. d \in ChannelType BY <1>1, <2>1, <2>2 DEF ChannelType
    <2>4. d.prescaler = c.prescaler - 1 BY <1>1, <2>1 DEF ChannelType, SameButCount
    <2>5. d.zcPulse = e.zcPulse BY <1>1, <2>1 DEF ChannelType
    <2>6. /\ d.control = c.control /\ d.timeConstant = c.timeConstant /\ d.down = c.down
          /\ d.waitingForTc = c.waitingForTc /\ d.running = c.running
          /\ d.waitingForTrigger = c.waitingForTrigger
      BY <1>1, <2>1 DEF ChannelType, SameButCount
    <2> QED BY <1>1, <1>5, <2>3, <2>4, <2>5, <2>6
  <1>6. CASE c.prescaler = 1
    <2>1. d = Count(r) BY <1>1, <1>4, <1>6 DEF SameButCount
    <2>2. d \in ChannelType /\ SameButCount(r, d)
      BY <1>3, <2>1, CountLoaded
    <2>3. d.down = IF c.down = 1 THEN c.timeConstant ELSE c.down - 1
      BY <1>3, <2>1, CountLoaded
    <2>4. c.down = 1 => d.zcPulse
      BY <1>3, <2>1, CountLoaded
    <2>5. c.down # 1 => ~d.zcPulse
      BY <1>3, <2>1, CountLoaded
    <2>6. /\ d.control = c.control /\ d.timeConstant = c.timeConstant
          /\ d.waitingForTc = c.waitingForTc /\ d.running = c.running
          /\ d.waitingForTrigger = c.waitingForTrigger /\ d.prescaler = PrescalerOf(c)
      BY <1>3, <2>2 DEF SameButCount
    <2> QED BY <1>6, <2>2, <2>3, <2>4, <2>5, <2>6
  <1> QED BY <1>5, <1>6

(* A tick of any other channel takes its pulse away.                         *)
LEMMA TickOfOther ==
  ASSUME NEW c \in ChannelType, Has(c.control, COUNTER_MODE) \/ ~c.running
  PROVE TickChannel(c) = [c EXCEPT !.zcPulse = FALSE]
  BY DEF TickChannel, ChannelType

(* An edge that a counter counts.                                            *)
LEMMA CountedEdge ==
  ASSUME NEW c \in ChannelType, NEW level \in BOOLEAN, NEW d, d = TriggerChannel(c, level),
         Has(c.control, COUNTER_MODE), ~c.waitingForTc, c.down > 0,
         IF Has(c.control, EDGE_RISING) THEN ~c.triggerState /\ level
                                        ELSE c.triggerState /\ ~level
  PROVE /\ d \in ChannelType /\ SameButCount(c, d)
        /\ d.down = IF c.down = 1 THEN c.timeConstant ELSE c.down - 1
        /\ c.down = 1 => d.zcPulse
        /\ c.down # 1 => d.zcPulse = c.zcPulse
  <1> DEFINE e == [c EXCEPT !.triggerState = level]
  <1>1. e \in ChannelType BY DEF ChannelType
  <1>2. e.down = c.down /\ e.zcPulse = c.zcPulse /\ SameButCount(c, e)
    BY DEF ChannelType, SameButCount
  <1>3. d = Count(e)
    <2>1. e.control = c.control /\ e.waitingForTc = c.waitingForTc BY <1>2 DEF SameButCount
    <2> HIDE DEF e
    <2>2. e.down # 0 BY <1>2
    <2> QED BY <2>1, <2>2 DEF TriggerChannel, e
  <1> HIDE DEF e
  <1>4. d \in ChannelType /\ SameButCount(e, d) BY <1>1, <1>2, <1>3, CountLoaded
  <1>5. d.down = IF c.down = 1 THEN c.timeConstant ELSE c.down - 1
    BY <1>1, <1>2, <1>3, CountLoaded DEF SameButCount
  <1>6. c.down = 1 => d.zcPulse BY <1>1, <1>2, <1>3, CountLoaded
  <1>7. c.down # 1 => d.zcPulse = c.zcPulse BY <1>1, <1>2, <1>3, CountLoaded
  <1>8. SameButCount(c, d) BY <1>2, <1>4 DEF SameButCount
  <1> QED BY <1>4, <1>5, <1>6, <1>7, <1>8

(* An edge that is not counted starts a timer that waits for it, or nothing. *)
LEMMA UncountedEdge ==
  ASSUME NEW c \in ChannelType, NEW level \in BOOLEAN, NEW d, d = TriggerChannel(c, level),
         ~ /\ Has(c.control, COUNTER_MODE) /\ ~c.waitingForTc /\ c.down # 0
           /\ IF Has(c.control, EDGE_RISING) THEN ~c.triggerState /\ level
                                             ELSE c.triggerState /\ ~level
  PROVE /\ d \in ChannelType
        /\ d.control = c.control /\ d.timeConstant = c.timeConstant /\ d.down = c.down
        /\ d.waitingForTc = c.waitingForTc /\ d.zcPulse = c.zcPulse
        /\ \/ /\ d.waitingForTrigger = c.waitingForTrigger /\ d.running = c.running
              /\ d.prescaler = c.prescaler
           \/ /\ ~Has(c.control, COUNTER_MODE) /\ c.waitingForTrigger
              /\ ~d.waitingForTrigger /\ d.running /\ d.prescaler = PrescalerOf(c)
  <1> DEFINE e == [c EXCEPT !.triggerState = level]
             f == [e EXCEPT !.waitingForTrigger = FALSE, !.running = TRUE,
                            !.prescaler = PrescalerOf(e)]
  <1>1. /\ e \in ChannelType /\ SameButCount(c, e) /\ e.zcPulse = c.zcPulse
        /\ e.down = c.down
    BY DEF ChannelType, SameButCount
  <1>2. PrescalerOf(e) = PrescalerOf(c) /\ PrescalerOf(c) \in 0..Prescale256
    BY <1>1, PrescalerType DEF SameButCount, PrescalerOf
  <1>3. /\ f \in ChannelType /\ ~f.waitingForTrigger /\ f.running
        /\ f.prescaler = PrescalerOf(c) /\ f.control = c.control
        /\ f.timeConstant = c.timeConstant /\ f.down = c.down
        /\ f.waitingForTc = c.waitingForTc /\ f.zcPulse = c.zcPulse
    <2> HIDE DEF e
    <2>1. f \in ChannelType BY <1>1, <1>2 DEF ChannelType
    <2>2. ~f.waitingForTrigger /\ f.running BY <1>1 DEF ChannelType
    <2>3. f.prescaler = PrescalerOf(e) BY <1>1 DEF ChannelType
    <2>4. /\ f.control = e.control /\ f.timeConstant = e.timeConstant
          /\ f.down = e.down /\ f.waitingForTc = e.waitingForTc
      BY <1>1 DEF ChannelType
    <2>5. f.zcPulse = e.zcPulse BY <1>1 DEF ChannelType
    <2> HIDE DEF f
    <2> QED BY <1>1, <1>2, <2>1, <2>2, <2>3, <2>4, <2>5 DEF SameButCount
  <1>4. d = e \/ (d = f /\ ~Has(c.control, COUNTER_MODE) /\ c.waitingForTrigger)
    <2>1. /\ e.control = c.control /\ e.waitingForTc = c.waitingForTc /\ e.down = c.down
          /\ e.waitingForTrigger = c.waitingForTrigger
      BY <1>1 DEF SameButCount
    <2>2. d = IF /\ IF Has(c.control, EDGE_RISING) THEN ~c.triggerState /\ level
                                                   ELSE c.triggerState /\ ~level
                 /\ ~Has(c.control, COUNTER_MODE) /\ c.waitingForTrigger
              THEN f ELSE e
      <3> HIDE DEF e
      <3> QED BY <2>1 DEF TriggerChannel, e
    <2> HIDE DEF e, f
    <2> QED BY <2>2
  <1> HIDE DEF e, f
  <1>5. CASE d = e BY <1>1, <1>5 DEF SameButCount
  <1>6. CASE d = f /\ ~Has(c.control, COUNTER_MODE) /\ c.waitingForTrigger BY <1>3, <1>6
  <1> QED BY <1>4, <1>5, <1>6

(* A time constant loaded: both counters hold it, in the mode of before.     *)
LEMMA LoadFacts ==
  ASSUME NEW c \in ChannelType, NEW data \in 0..255, data <= TcRange,
         NEW d, d = load_time_constant(c, data)
  PROVE /\ d \in ChannelType /\ d.timeConstant > 0 /\ d.down = d.timeConstant
        /\ ~d.waitingForTc
        /\ d.running => /\ ~d.waitingForTrigger /\ ~Has(d.control, COUNTER_MODE)
                        /\ d.prescaler = PrescalerOf(d)
        /\ d.waitingForTrigger => ~Has(d.control, COUNTER_MODE)
  <1> DEFINE tc == IF data = 0 THEN TcRange ELSE data
             timer == ~Has(c.control, COUNTER_MODE)
             waits == timer /\ Has(c.control, CLK_TRIGGER)
             control == IF Has(c.control, RESET) THEN c.control - RESET ELSE c.control
             prescaler == IF timer /\ ~waits THEN PrescalerOf(c) ELSE c.prescaler
             runs == timer /\ ~waits
             p == PrescalerOf(c)
  <1>1. tc \in 1..TcRange BY CtcAssumption
  <1>2. timer \in BOOLEAN /\ waits \in BOOLEAN /\ runs \in BOOLEAN BY DEF Has
  <1>3. c.control \in 0..255 BY DEF ChannelType
  <1>4. /\ control \in 0..255
        /\ Has(control, COUNTER_MODE) <=> Has(c.control, COUNTER_MODE)
        /\ Has(control, PRESCALER_256) <=> Has(c.control, PRESCALER_256)
    BY <1>3, ResetTaken
  <1>5. prescaler \in 0..Prescale256 /\ (runs => prescaler = p)
    BY PrescalerType DEF ChannelType
  <1>6. d = [c EXCEPT !.timeConstant = tc, !.down = tc, !.waitingForTc = FALSE,
                      !.control = control, !.running = runs,
                      !.waitingForTrigger = waits, !.prescaler = prescaler]
    BY DEF load_time_constant
  <1>7. waits => timer OBVIOUS
  <1>8. runs => timer /\ ~waits OBVIOUS
  <1>9. timer <=> ~Has(control, COUNTER_MODE) BY <1>4
  <1>10. p = IF Has(control, PRESCALER_256) THEN Prescale256 ELSE Prescale16
    BY <1>4 DEF PrescalerOf
  <1> HIDE DEF tc, timer, waits, control, prescaler, runs, p
  <1> DEFINE e == [c EXCEPT !.timeConstant = tc, !.down = tc, !.control = control,
                            !.prescaler = prescaler]
             f == [e EXCEPT !.waitingForTc = FALSE, !.running = runs,
                            !.waitingForTrigger = waits]
  <1>11. d \in ChannelType
    <2>1. d = f BY <1>6 DEF ChannelType
    <2>2. e \in ChannelType
      <3>1. tc \in 0..TcRange /\ control \in 0..255 /\ prescaler \in 0..Prescale256
        BY <1>1, <1>4, <1>5
      <3> QED BY <3>1 DEF ChannelType
    <2> HIDE DEF e
    <2>3. f \in ChannelType BY <1>2, <2>2 DEF ChannelType
    <2> HIDE DEF f
    <2> QED BY <2>1, <2>3
  <1> HIDE DEF e, f
  <1>12. d.timeConstant = tc /\ d.down = tc /\ d.control = control /\ d.prescaler = prescaler
    BY <1>6 DEF ChannelType
  <1>13. d.running = runs /\ d.waitingForTrigger = waits /\ d.waitingForTc = FALSE
    BY <1>6 DEF ChannelType
  <1>14. PrescalerOf(d) = p BY <1>10, <1>12 DEF PrescalerOf
  <1>15. tc > 0 BY <1>1, CtcAssumption
  <1> QED BY <1>5, <1>7, <1>8, <1>9, <1>11, <1>12, <1>13, <1>14, <1>15

(* A control word leaves the counters, and stops a timer that it makes a     *)
(* counter.                                                                  *)
LEMMA ControlFacts ==
  ASSUME NEW c \in ChannelType, NEW data \in 0..255, NEW d, d = write_control(c, data)
  PROVE /\ d \in ChannelType
        /\ d.timeConstant = c.timeConstant /\ d.down = c.down /\ d.prescaler = c.prescaler
        /\ d.control = data
        /\ d.running =>
             /\ c.running
             /\ ~(Has(data, COUNTER_MODE) /\ ~Has(c.control, COUNTER_MODE))
        /\ d.waitingForTrigger => c.waitingForTrigger
  <1> DEFINE toCounter == Has(data, COUNTER_MODE) /\ ~Has(c.control, COUNTER_MODE)
             runs == c.running /\ ~Has(data, RESET) /\ ~toCounter
             waits == c.waitingForTrigger /\ ~Has(data, RESET)
             pulse == c.zcPulse /\ ~Has(data, RESET)
             asks == c.pending /\ Has(data, INTERRUPT_EN)
             constant == c.waitingForTc \/ Has(data, TC_FOLLOWS)
  <1>1. /\ runs \in BOOLEAN /\ waits \in BOOLEAN /\ pulse \in BOOLEAN
        /\ asks \in BOOLEAN /\ constant \in BOOLEAN
    BY DEF ChannelType
  <1>2. d = [c EXCEPT !.control = data, !.running = runs, !.waitingForTrigger = waits,
                      !.zcPulse = pulse, !.pending = asks, !.waitingForTc = constant]
    BY DEF write_control
  <1>3. runs => c.running /\ ~toCounter OBVIOUS
  <1>4. waits => c.waitingForTrigger OBVIOUS
  <1> HIDE DEF runs, waits, pulse, asks, constant
  <1> DEFINE e == [c EXCEPT !.control = data, !.waitingForTc = constant]
             f == [e EXCEPT !.running = runs, !.waitingForTrigger = waits,
                            !.zcPulse = pulse, !.pending = asks]
  <1>5. d \in ChannelType
    <2>1. d = f BY <1>2 DEF ChannelType
    <2>2. e \in ChannelType BY <1>1 DEF ChannelType
    <2> HIDE DEF e
    <2>3. f \in ChannelType BY <1>1, <2>2 DEF ChannelType
    <2> HIDE DEF f
    <2> QED BY <2>1, <2>3
  <1> HIDE DEF e, f
  <1>6. /\ d.timeConstant = c.timeConstant /\ d.down = c.down
        /\ d.prescaler = c.prescaler /\ d.control = data
    BY <1>2 DEF ChannelType
  <1>7. d.running = runs /\ d.waitingForTrigger = waits BY <1>2 DEF ChannelType
  <1> QED BY <1>3, <1>4, <1>5, <1>6, <1>7

-----------------------------------------------------------------------------
(* A channel at power-on keeps the invariant: nothing is loaded.             *)
LEMMA InitIInv == ChannelInit => IInv
  <1> SUFFICES ASSUME ChannelInit PROVE IInv OBVIOUS
  <1>1. ch = PowerOnChannel /\ elapsed = 0 /\ steady = FALSE BY DEF ChannelInit
  <1>2. ch \in ChannelType BY <1>1, CtcAssumption DEF PowerOnChannel, ChannelType
  <1>3. ~ch.running /\ ~ch.waitingForTrigger /\ ch.down = 0 BY <1>1 DEF PowerOnChannel
  <1>4. ChannelTypeOK BY <1>1, <1>2 DEF ChannelTypeOK
  <1>5. Loaded BY <1>3 DEF Loaded, CountersLoaded, TimerRuns
  <1>6. Divides BY <1>1 DEF Divides
  <1> QED BY <1>4, <1>5, <1>6 DEF IInv

(* A tick of a running timer: the two counters and elapsed move together.    *)
LEMMA TickTimer ==
  ASSUME IInv, Tick, TimerRuns
  PROVE IInv' /\ (steady => (ch'.zcPulse <=> elapsed' = 0))
  <1> DEFINE P == PrescalerOf(ch)
  <1>1. /\ ch \in ChannelType /\ elapsed \in Nat /\ steady \in BOOLEAN
        /\ ch.running /\ Timer /\ ch.prescaler > 0 /\ ch.down > 0 /\ ch.timeConstant > 0
    BY DEF IInv, ChannelTypeOK, Loaded, CountersLoaded, TimerRuns, Timer
  <1>2. ch' = TickChannel(ch) /\ steady' = steady
        /\ elapsed' = IF steady THEN NextElapsed ELSE elapsed
    BY DEF Tick
  <1>3. P \in Nat \ {0} /\ P <= Prescale256 BY PrescalerType, CtcAssumption
  <1>4. /\ ch.prescaler \in Nat \ {0} /\ ch.down \in Nat \ {0}
        /\ ch.timeConstant \in Nat \ {0}
    BY <1>1, CtcAssumption DEF ChannelType
  <1>5. /\ ch' \in ChannelType
        /\ ch'.control = ch.control /\ ch'.timeConstant = ch.timeConstant
        /\ ch'.waitingForTc = ch.waitingForTc /\ ch'.running = ch.running
        /\ ch'.waitingForTrigger = ch.waitingForTrigger
        /\ ch.prescaler # 1 => /\ ch'.prescaler = ch.prescaler - 1 /\ ch'.down = ch.down
                               /\ ~ch'.zcPulse
        /\ ch.prescaler = 1 => /\ ch'.prescaler = P
                               /\ ch'.down = IF ch.down = 1 THEN ch.timeConstant ELSE ch.down - 1
                               /\ ch.down = 1 => ch'.zcPulse
                               /\ ch.down # 1 => ~ch'.zcPulse
    BY <1>1, <1>2, TickOfTimer DEF Timer
  <1>6. PrescalerOf(ch') = P /\ Timer'
    BY <1>1, <1>5 DEF PrescalerOf, Timer
  <1>7. Period = ch.timeConstant * P BY <1>1 DEF Period, Timer
  <1> HIDE DEF P
  <1>8. Loaded'
    <2>1. ch'.prescaler > 0 /\ ch'.down > 0 BY <1>3, <1>4, <1>5
    <2> QED BY <1>1, <1>4, <1>5, <1>6, <2>1 DEF Loaded, CountersLoaded, TimerRuns
  <1>9. CASE ~steady
    <2>1. elapsed' = elapsed /\ ~steady' BY <1>2, <1>9
    <2>2. ChannelTypeOK' BY <1>1, <1>2, <1>5, <2>1 DEF ChannelTypeOK
    <2>3. Divides' BY <2>1 DEF Divides
    <2> QED BY <1>8, <1>9, <2>2, <2>3 DEF IInv
  <1>10. CASE steady
    <2>1. /\ ~ch.waitingForTc /\ ~ch.waitingForTrigger
          /\ elapsed + ch.prescaler + ch.down * P = (ch.timeConstant + 1) * P
      BY <1>1, <1>10 DEF IInv, Divides, P
    <2>2. elapsed' = IF elapsed + 1 = ch.timeConstant * P THEN 0 ELSE elapsed + 1
      BY <1>2, <1>7, <1>10 DEF NextElapsed
    <2>3. (ch.timeConstant + 1) * P = ch.timeConstant * P + P /\ ch.timeConstant * P \in Nat
      BY <1>3, <1>4, OneMore
    <2>4. ch.down * P = (ch.down - 1) * P + P /\ (ch.down - 1) * P \in Nat
      BY <1>3, <1>4, OneLess
    <2>5. /\ elapsed' \in Nat
          /\ elapsed' + ch'.prescaler + ch'.down * P = (ch.timeConstant + 1) * P
          /\ ch'.zcPulse <=> elapsed' = 0
      <3>1. CASE ch.prescaler # 1
        <4>1. elapsed + 1 < ch.timeConstant * P BY <1>1, <1>3, <1>4, <2>1, <2>3, <2>4, <3>1, NotYet
        <4>2. elapsed' = elapsed + 1 /\ elapsed' # 0 BY <1>1, <2>2, <4>1
        <4>3. ch'.prescaler = ch.prescaler - 1 /\ ch'.down = ch.down /\ ~ch'.zcPulse
          BY <1>5, <3>1
        <4>4. elapsed' + ch'.prescaler = elapsed + ch.prescaler BY <1>1, <1>4, <4>2, <4>3
        <4> QED BY <1>1, <2>1, <4>2, <4>3, <4>4
      <3>2. CASE ch.prescaler = 1 /\ ch.down # 1
        <4>1. ch.down - 1 \in Nat \ {0} BY <1>4, <3>2
        <4>2. (ch.down - 1) * P = (ch.down - 2) * P + P /\ (ch.down - 2) * P \in Nat
          <5>1. (ch.down - 1) - 1 = ch.down - 2 BY <1>4
          <5> QED BY <1>3, <4>1, <5>1, OneLess
        <4>3. elapsed + 1 < ch.timeConstant * P BY <1>1, <1>3, <2>1, <2>3, <2>4, <3>2, <4>2
        <4>4. elapsed' = elapsed + 1 /\ elapsed' # 0 BY <1>1, <2>2, <4>3
        <4>5. ch'.prescaler = P /\ ch'.down = ch.down - 1 /\ ~ch'.zcPulse BY <1>5, <3>2
        <4>6. elapsed' + ch'.prescaler + ch'.down * P = elapsed + 1 + ch.down * P
          BY <1>1, <1>3, <2>4, <4>4, <4>5
        <4> QED BY <1>1, <2>1, <3>2, <4>4, <4>5, <4>6
      <3>3. CASE ch.prescaler = 1 /\ ch.down = 1
        <4>1. 1 * P = P BY <1>3
        <4>2. elapsed + 1 = ch.timeConstant * P BY <1>1, <1>3, <2>1, <2>3, <3>3, <4>1
        <4>3. elapsed' = 0 BY <2>2, <4>2
        <4>4. ch'.prescaler = P /\ ch'.down = ch.timeConstant /\ ch'.zcPulse BY <1>5, <3>3
        <4> QED BY <1>3, <2>3, <4>3, <4>4
      <3> QED BY <3>1, <3>2, <3>3
    <2>6. Divides'
      BY <1>1, <1>5, <1>6, <2>1, <2>5 DEF Divides
    <2>7. ChannelTypeOK' BY <1>1, <1>2, <1>5, <2>5 DEF ChannelTypeOK
    <2> QED BY <1>8, <1>10, <2>5, <2>6, <2>7 DEF IInv
  <1> QED BY <1>1, <1>9, <1>10

(* A tick of a channel that is no running timer.                             *)
LEMMA TickOther ==
  ASSUME IInv, Tick, ~TimerRuns
  PROVE IInv'
  <1>1. /\ ch \in ChannelType /\ elapsed \in Nat /\ steady \in BOOLEAN
        /\ Has(ch.control, COUNTER_MODE) \/ ~ch.running
    BY DEF IInv, ChannelTypeOK, TimerRuns
  <1>2. ch' = [ch EXCEPT !.zcPulse = FALSE] /\ elapsed' = elapsed /\ steady' = steady
    BY <1>1, TickOfOther DEF Tick
  <1>3. /\ ch' \in ChannelType /\ SameButCount(ch, ch') /\ ch'.down = ch.down
    BY <1>1, <1>2 DEF ChannelType, SameButCount
  <1>4. PrescalerOf(ch') = PrescalerOf(ch) /\ (Timer' <=> Timer)
    BY <1>3 DEF PrescalerOf, SameButCount, Timer
  <1>5. ChannelTypeOK' BY <1>1, <1>2, <1>3 DEF ChannelTypeOK
  <1>6. Loaded'
    BY <1>3, <1>4 DEF IInv, Loaded, CountersLoaded, TimerRuns, SameButCount, Timer
  <1>7. Divides'
    BY <1>2, <1>3, <1>4 DEF IInv, Divides, SameButCount
  <1> QED BY <1>5, <1>6, <1>7 DEF IInv

(* An edge the channel counts, one tick of its division.                     *)
LEMMA TriggerCounted ==
  ASSUME IInv, NEW level \in BOOLEAN, Trigger(level), EdgeCounts(level)
  PROVE IInv' /\ (steady => (ch'.zcPulse <=> ch.zcPulse \/ elapsed' = 0))
  <1>1. /\ ch \in ChannelType /\ elapsed \in Nat /\ steady \in BOOLEAN /\ ~Timer
        /\ ch' = TriggerChannel(ch, level) /\ steady' = steady
        /\ elapsed' = IF steady THEN NextElapsed ELSE elapsed
    BY DEF IInv, ChannelTypeOK, Trigger, EdgeCounts, Timer
  <1>2. ch.down \in Nat \ {0} /\ ch.timeConstant \in Nat \ {0}
    BY <1>1, CtcAssumption DEF EdgeCounts, ChannelType, IInv, Loaded, CountersLoaded
  <1>3. /\ ch' \in ChannelType /\ SameButCount(ch, ch')
        /\ ch'.down = IF ch.down = 1 THEN ch.timeConstant ELSE ch.down - 1
        /\ ch.down = 1 => ch'.zcPulse
        /\ ch.down # 1 => ch'.zcPulse = ch.zcPulse
    BY <1>1, <1>2, CountedEdge DEF EdgeCounts
  <1>4. ~Timer' BY <1>1, <1>3 DEF Timer, SameButCount
  <1>5. ch'.down \in Nat \ {0} BY <1>2, <1>3
  <1>6. Loaded'
    BY <1>1, <1>2, <1>3, <1>4, <1>5
      DEF IInv, Loaded, CountersLoaded, TimerRuns, SameButCount, Timer
  <1>7. CASE ~steady
    <2>1. ChannelTypeOK' BY <1>1, <1>3, <1>7 DEF ChannelTypeOK
    <2>2. Divides' BY <1>1, <1>7 DEF Divides
    <2> QED BY <1>6, <1>7, <2>1, <2>2 DEF IInv
  <1>8. CASE steady
    <2>1. /\ ~ch.waitingForTc /\ ~ch.waitingForTrigger /\ elapsed + ch.down = ch.timeConstant
      BY <1>1, <1>8 DEF IInv, Divides
    <2>2. elapsed' = IF elapsed + 1 = ch.timeConstant THEN 0 ELSE elapsed + 1
      BY <1>1, <1>8 DEF NextElapsed, Period, Timer
    <2>3. elapsed' \in Nat /\ elapsed' + ch'.down = ch.timeConstant BY <1>1, <1>2, <1>3, <2>1, <2>2
    <2>4. elapsed' = 0 <=> ch.down = 1 BY <1>1, <1>2, <2>1, <2>2
    <2>5. ChannelTypeOK' BY <1>1, <1>3, <2>3 DEF ChannelTypeOK
    <2>6. ~ch.running BY <1>1 DEF IInv, Loaded
    <2>7. Divides'
      BY <1>2, <1>3, <1>4, <1>5, <2>1, <2>3, <2>6 DEF Divides, SameButCount
    <2>8. ch'.zcPulse <=> ch.zcPulse \/ elapsed' = 0
      <3>1. CASE ch.down = 1 BY <1>3, <2>4, <3>1
      <3>2. CASE ch.down # 1 BY <1>3, <2>4, <3>2
      <3> QED BY <3>1, <3>2
    <2> QED BY <1>6, <2>5, <2>7, <2>8 DEF IInv
  <1> QED BY <1>1, <1>7, <1>8

(* An edge it does not count, which may start a timer.                       *)
LEMMA TriggerUncounted ==
  ASSUME IInv, NEW level \in BOOLEAN, Trigger(level), ~EdgeCounts(level)
  PROVE IInv'
  <1> DEFINE P == PrescalerOf(ch)
  <1>1. /\ ch \in ChannelType /\ elapsed \in Nat /\ steady \in BOOLEAN
        /\ ch' = TriggerChannel(ch, level) /\ steady' = steady /\ elapsed' = elapsed
    BY DEF IInv, ChannelTypeOK, Trigger
  <1>2. /\ ch' \in ChannelType
        /\ ch'.control = ch.control /\ ch'.timeConstant = ch.timeConstant /\ ch'.down = ch.down
        /\ ch'.waitingForTc = ch.waitingForTc
        /\ \/ /\ ch'.waitingForTrigger = ch.waitingForTrigger /\ ch'.running = ch.running
              /\ ch'.prescaler = ch.prescaler
           \/ /\ Timer /\ ch.waitingForTrigger
              /\ ~ch'.waitingForTrigger /\ ch'.running /\ ch'.prescaler = P
    BY <1>1, UncountedEdge DEF EdgeCounts, Timer
  <1>3. P \in Nat \ {0} BY PrescalerType, CtcAssumption
  <1>4. PrescalerOf(ch') = P /\ (Timer' <=> Timer) BY <1>2 DEF PrescalerOf, Timer
  <1> HIDE DEF P
  <1>5. ChannelTypeOK' BY <1>1, <1>2 DEF ChannelTypeOK
  <1>6. CASE /\ ch'.waitingForTrigger = ch.waitingForTrigger /\ ch'.running = ch.running
             /\ ch'.prescaler = ch.prescaler
    <2>1. Loaded' BY <1>2, <1>4, <1>6 DEF IInv, Loaded, CountersLoaded, TimerRuns, Timer
    <2>2. Divides' BY <1>1, <1>2, <1>4, <1>6 DEF IInv, Divides, P
    <2> QED BY <1>5, <2>1, <2>2 DEF IInv
  <1>7. CASE /\ Timer /\ ch.waitingForTrigger
             /\ ~ch'.waitingForTrigger /\ ch'.running /\ ch'.prescaler = P
    <2>1. ch.down > 0 /\ ch.timeConstant > 0 BY <1>7 DEF IInv, Loaded, CountersLoaded
    <2>2. Loaded'
      BY <1>2, <1>3, <1>4, <1>7, <2>1 DEF Loaded, CountersLoaded, TimerRuns, Timer
    <2>3. ASSUME steady PROVE elapsed = 0 /\ ch.down = ch.timeConstant /\ ~ch.waitingForTc
      BY <1>7, <2>3 DEF IInv, Divides
    <2>4. ch.timeConstant \in Nat BY <1>1, CtcAssumption DEF ChannelType
    <2>5. (ch.timeConstant + 1) * P = ch.timeConstant * P + P /\ ch.timeConstant * P \in Nat
      BY <1>3, <2>4, OneMore
    <2>6. 0 + P + ch.timeConstant * P = (ch.timeConstant + 1) * P BY <1>3, <2>5
    <2>7. Divides' BY <1>1, <1>2, <1>4, <1>7, <2>1, <2>3, <2>6 DEF Divides
    <2> QED BY <1>5, <2>2, <2>7 DEF IInv
  <1> QED BY <1>2, <1>6, <1>7

(* A byte written: a time constant begins a division, control words end it. *)
LEMMA WriteKeeps ==
  ASSUME IInv, NEW byte \in Bytes, Write(byte)
  PROVE IInv'
  <1>1. ch \in ChannelType /\ elapsed \in Nat /\ byte \in 0..255
    BY CtcAssumption DEF IInv, ChannelTypeOK
  <1>2. CASE ch.waitingForTc
    <2>1. /\ byte <= MaxTimeConstant /\ ch' = load_time_constant(ch, byte)
          /\ elapsed' = 0 /\ steady' = TRUE
      BY <1>2 DEF Write
    <2>0. byte <= TcRange
      BY <1>1, <2>1, CtcAssumption
    <2>2. /\ ch' \in ChannelType /\ ch'.timeConstant > 0 /\ ch'.down = ch'.timeConstant
          /\ ~ch'.waitingForTc
          /\ ch'.running => ~ch'.waitingForTrigger /\ Timer' /\ ch'.prescaler = PrescalerOf(ch')
          /\ ch'.waitingForTrigger => Timer'
      BY <1>1, <2>0, <2>1, LoadFacts DEF Timer
    <2>3. PrescalerOf(ch') \in Nat \ {0} BY PrescalerType, CtcAssumption
    <2>4. ch'.timeConstant \in Nat BY <2>2, CtcAssumption DEF ChannelType
    <2>5. ChannelTypeOK' BY <2>1, <2>2 DEF ChannelTypeOK
    <2>6. Loaded' BY <2>2, <2>3 DEF Loaded, CountersLoaded, TimerRuns
    <2>7. 0 + PrescalerOf(ch') + ch'.timeConstant * PrescalerOf(ch')
            = (ch'.timeConstant + 1) * PrescalerOf(ch')
      BY <2>3, <2>4, OneMore
    <2>8. 0 + ch'.down = ch'.timeConstant BY <2>2, <2>4
    <2>9. Divides' BY <2>1, <2>2, <2>7, <2>8 DEF Divides
    <2> QED BY <2>5, <2>6, <2>9 DEF IInv
  <1>3. CASE ~ch.waitingForTc
    <2>1. ch' = write_control(ch, byte) /\ elapsed' = elapsed /\ steady' = FALSE
      BY <1>3 DEF Write
    <2>2. /\ ch' \in ChannelType
          /\ ch'.timeConstant = ch.timeConstant /\ ch'.down = ch.down
          /\ ch'.prescaler = ch.prescaler /\ ch'.control = byte
          /\ ch'.running =>
               /\ ch.running
               /\ ~(Has(byte, COUNTER_MODE) /\ ~Has(ch.control, COUNTER_MODE))
          /\ ch'.waitingForTrigger => ch.waitingForTrigger
      BY <1>1, <2>1, ControlFacts, ZenonT(30)
    <2>3. ChannelTypeOK' BY <1>1, <2>1, <2>2 DEF ChannelTypeOK
    <2>4. ch'.running => TimerRuns /\ Timer' BY <2>2 DEF IInv, Loaded, TimerRuns, Timer
    <2>5. Loaded' BY <2>2, <2>4 DEF IInv, Loaded, CountersLoaded, TimerRuns
    <2>6. Divides' BY <2>1 DEF Divides
    <2> QED BY <2>3, <2>5, <2>6 DEF IInv
  <1> QED BY <1>2, <1>3

(* An acknowledge touches no counter.                                        *)
LEMMA AcknowledgeKeeps ==
  ASSUME IInv, Acknowledge
  PROVE IInv'
  <1>1. /\ ch \in ChannelType /\ elapsed \in Nat /\ steady \in BOOLEAN
        /\ ch' = [ch EXCEPT !.pending = FALSE] /\ elapsed' = elapsed /\ steady' = steady
    BY DEF IInv, ChannelTypeOK, Acknowledge
  <1>2. ch' \in ChannelType /\ SameButCount(ch, ch') /\ ch'.down = ch.down
    BY <1>1 DEF ChannelType, SameButCount
  <1>3. PrescalerOf(ch') = PrescalerOf(ch) /\ (Timer' <=> Timer)
    BY <1>2 DEF PrescalerOf, SameButCount, Timer
  <1>4. ChannelTypeOK' BY <1>1, <1>2 DEF ChannelTypeOK
  <1>5. Loaded'
    BY <1>2, <1>3 DEF IInv, Loaded, CountersLoaded, TimerRuns, SameButCount, Timer
  <1>6. Divides' BY <1>1, <1>2, <1>3 DEF IInv, Divides, SameButCount
  <1> QED BY <1>4, <1>5, <1>6 DEF IInv

(* Every step keeps the invariant.                                           *)
LEMMA StepKeeps == IInv /\ [ChannelNext]_channelVars => IInv'
  <1> SUFFICES ASSUME IInv, [ChannelNext]_channelVars PROVE IInv' OBVIOUS
  <1>1. CASE Tick BY <1>1, TickTimer, TickOther
  <1>2. ASSUME NEW level \in BOOLEAN, Trigger(level) PROVE IInv'
    BY <1>2, TriggerCounted, TriggerUncounted
  <1>3. ASSUME NEW byte \in Bytes, Write(byte) PROVE IInv'
    BY <1>3, WriteKeeps
  <1>4. CASE Acknowledge BY <1>4, AcknowledgeKeeps
  <1>5. CASE ChannelReset
    <2>1. ChannelInit' BY <1>5 DEF ChannelReset, ChannelInit
    <2>2. ChannelInit' => IInv' BY InitIInv, PTL
    <2> QED BY <2>1, <2>2
  <1>6. CASE UNCHANGED channelVars
    BY <1>6 DEF channelVars, IInv, ChannelTypeOK, Loaded, CountersLoaded, TimerRuns,
                Timer, Divides
  <1> QED BY <1>1, <1>2, <1>3, <1>4, <1>5, <1>6 DEF ChannelNext

-----------------------------------------------------------------------------
(* The invariant holds throughout.                                           *)
THEOREM ChannelInvariant == ChannelSpec => []IInv
  <1> QED BY InitIInv, StepKeeps, PTL DEF ChannelSpec

(* The channel keeps its type: no u16 counter runs below zero.               *)
THEOREM ChannelTyped == ChannelSpec => []ChannelTypeOK
  <1>1. IInv => ChannelTypeOK BY DEF IInv
  <1> QED BY <1>1, ChannelInvariant, PTL

(* Whatever bytes, edges, ticks, acknowledges and resets reach a channel,    *)
(* tick() and trigger() never count a counter that is not loaded.            *)
THEOREM CountersStayLoaded == ChannelSpec => []CountersLoaded
  <1>1. IInv => CountersLoaded BY DEF IInv, Loaded
  <1> QED BY <1>1, ChannelInvariant, PTL

(* A loaded channel divides by time constant times prescaler, for every time *)
(* constant and prescaler, in timer and in counter mode.                     *)
THEOREM ChannelDivides == ChannelSpec => DividesExactly
  <1> DEFINE exact == steady =>
        /\ TimerRuns /\ Tick => (ch'.zcPulse <=> elapsed' = 0)
        /\ \A level \in BOOLEAN :
             EdgeCounts(level) /\ Trigger(level)
               => (ch'.zcPulse <=> ch.zcPulse \/ elapsed' = 0)
  <1>1. IInv => exact BY TickTimer, TriggerCounted
  <1>2. IInv /\ [ChannelNext]_channelVars => [exact]_channelVars BY <1>1
  <1> QED BY <1>2, ChannelInvariant, PTL DEF ChannelSpec, DividesExactly

-----------------------------------------------------------------------------
Levels == [nmi : BOOLEAN, irq : BOOLEAN]

Places == {"Fetch", "FetchRead", "Execute", "Nmi", "Im01", "Im2"}

(* Updates of the CPU keep its type, and all else.                           *)
LEMMA GotoFacts ==
  ASSUME NEW c \in CpuType, NEW at \in Places, NEW d, d = Goto(c, at)
  PROVE  /\ d \in CpuType /\ d.at = at /\ d.cyc = 0
         /\ d.op = c.op /\ d.pc = c.pc /\ d.iff1 = c.iff1 /\ d.iff2 = c.iff2 /\ d.im = c.im
         /\ d.halted = c.halted /\ d.eiDelay = c.eiDelay
         /\ d.prefixPending = c.prefixPending /\ d.nmiPrevious = c.nmiPrevious
<1>1. d = [c EXCEPT !.at = at, !.cyc = 0]
  BY DEF Goto
<1>2. d \in CpuType
  <2> DEFINE e == [c EXCEPT !.cyc = 0]
  <2>1. e \in CpuType
    BY DEF CpuType
  <2>2. d = [e EXCEPT !.at = at]
    BY <1>1 DEF CpuType
  <2> HIDE DEF e
  <2> QED BY <2>1, <2>2 DEF CpuType, Places
<1> QED BY <1>1, <1>2 DEF CpuType

(* Raising or clearing one of its flags leaves a record of the CPU in its    *)
(* type.                                                                     *)
LEMMA FlagUpdates ==
  ASSUME NEW c \in CpuType, NEW b \in BOOLEAN
  PROVE  /\ [c EXCEPT !.halted = b] \in CpuType
         /\ [c EXCEPT !.prefixPending = b] \in CpuType
         /\ [c EXCEPT !.eiDelay = b] \in CpuType
         /\ [c EXCEPT !.nmiPrevious = b] \in CpuType
         /\ [c EXCEPT !.iff1 = b] \in CpuType
         /\ [c EXCEPT !.iff2 = b] \in CpuType
BY DEF CpuType

(* So does moving its program counter.                                       *)
LEMMA PcUpdate ==
  ASSUME NEW c \in CpuType, NEW pc \in {"start", "beforeStart", "elsewhere"}
  PROVE  [c EXCEPT !.pc = pc] \in CpuType
BY DEF CpuType

(* What starting an opcode does.                                             *)
LEMMA StartFacts ==
  ASSUME NEW c \in CpuType, NEW d, d = StartOpcode(c)
  PROVE  /\ d \in CpuType /\ d.at = "FetchRead" /\ d.cyc = 0
         /\ d.op = c.op /\ d.iff1 = c.iff1 /\ d.iff2 = c.iff2 /\ d.im = c.im
         /\ d.halted = c.halted /\ d.eiDelay = c.eiDelay /\ d.nmiPrevious = c.nmiPrevious
         /\ ~ c.halted => ~ d.prefixPending
         /\ c.halted => d.prefixPending = c.prefixPending
<1> DEFINE e == Goto(c, "FetchRead")
           pc == BeforePc(e.pc)
<1>1. /\ e \in CpuType /\ e.at = "FetchRead" /\ e.cyc = 0
      /\ e.op = c.op /\ e.iff1 = c.iff1 /\ e.iff2 = c.iff2 /\ e.im = c.im
      /\ e.halted = c.halted /\ e.eiDelay = c.eiDelay /\ e.nmiPrevious = c.nmiPrevious
      /\ e.prefixPending = c.prefixPending
  BY GotoFacts DEF Places
<1>2. pc \in {"start", "beforeStart", "elsewhere"}
  BY DEF BeforePc
<1>3. d = IF c.halted THEN [e EXCEPT !.pc = pc] ELSE [e EXCEPT !.prefixPending = FALSE]
  BY DEF StartOpcode
<1> HIDE DEF e, pc
<1>4. CASE c.halted
  <2>1. d = [e EXCEPT !.pc = pc]
    BY <1>3, <1>4
  <2>2. d \in CpuType
    BY <1>1, <1>2, <2>1, PcUpdate
  <2>3. /\ d.at = e.at /\ d.cyc = e.cyc /\ d.op = e.op /\ d.iff1 = e.iff1 /\ d.iff2 = e.iff2
        /\ d.im = e.im /\ d.halted = e.halted /\ d.eiDelay = e.eiDelay
        /\ d.nmiPrevious = e.nmiPrevious
        /\ d.prefixPending = e.prefixPending
    BY <1>1, <2>1 DEF CpuType
  <2> QED BY <1>1, <1>4, <2>2, <2>3
<1>5. CASE ~ c.halted
  <2>1. d = [e EXCEPT !.prefixPending = FALSE]
    BY <1>3, <1>5
  <2>2. d \in CpuType
    BY <1>1, <2>1, FlagUpdates
  <2>3. /\ d.at = e.at /\ d.cyc = e.cyc /\ d.op = e.op /\ d.iff1 = e.iff1 /\ d.iff2 = e.iff2
        /\ d.im = e.im /\ d.halted = e.halted /\ d.eiDelay = e.eiDelay
        /\ d.nmiPrevious = e.nmiPrevious
        /\ d.prefixPending = FALSE
    BY <1>1, <2>1 DEF CpuType
  <2> QED BY <1>1, <1>5, <2>2, <2>3
<1> QED BY <1>4, <1>5

(* A fetch starts an opcode or answers an interrupt; it answers one only     *)
(* between instructions, and not right after EI.                             *)
LEMMA FetchFacts ==
  ASSUME NEW c \in CpuType, NEW lines \in Levels, NEW d, d = Fetch(c, lines)
  PROVE  /\ d \in CpuType /\ d.cyc = 0
         /\ d.op = c.op /\ d.iff1 = c.iff1 /\ d.iff2 = c.iff2 /\ d.im = c.im
         /\ \/ /\ d.at = "FetchRead" /\ d.halted = c.halted
               /\ ~ c.halted => ~ d.prefixPending
               /\ c.halted => d.prefixPending = c.prefixPending
               /\ c.prefixPending => d.eiDelay = c.eiDelay
               /\ ~ c.prefixPending => ~ d.eiDelay
               /\ c.prefixPending \/ c.eiDelay => d.nmiPrevious = c.nmiPrevious
               /\ ~ c.prefixPending /\ ~ c.eiDelay =>
                    d.nmiPrevious = lines.nmi /\ ~ (lines.nmi /\ ~ c.nmiPrevious)
            \/ /\ d.at \in {"Nmi", "Im01", "Im2"} /\ ~ d.halted
               /\ ~ c.prefixPending /\ ~ c.eiDelay /\ ~ d.prefixPending /\ ~ d.eiDelay
               /\ d.nmiPrevious = lines.nmi
               /\ d.at = "Nmi" => lines.nmi /\ ~ c.nmiPrevious
               /\ d.at # "Nmi" => lines.irq /\ c.iff1 /\ ~ (lines.nmi /\ ~ c.nmiPrevious)
               /\ d.at = "Im2" => c.im = 2
<1> DEFINE s == [c EXCEPT !.nmiPrevious = lines.nmi]
           u == [c EXCEPT !.eiDelay = FALSE]
           At(at) == [Goto(s, at) EXCEPT !.halted = FALSE]
<1>0. lines.nmi \in BOOLEAN /\ lines.irq \in BOOLEAN
  BY DEF Levels
<1>1. /\ s \in CpuType /\ s.op = c.op /\ s.iff1 = c.iff1 /\ s.iff2 = c.iff2 /\ s.im = c.im
      /\ s.halted = c.halted /\ s.eiDelay = c.eiDelay /\ s.nmiPrevious = lines.nmi
      /\ s.prefixPending = c.prefixPending
  BY <1>0 DEF CpuType
<1>2. /\ u \in CpuType /\ u.op = c.op /\ u.iff1 = c.iff1 /\ u.iff2 = c.iff2 /\ u.im = c.im
      /\ u.halted = c.halted /\ ~ u.eiDelay /\ u.nmiPrevious = c.nmiPrevious
      /\ u.prefixPending = c.prefixPending
  BY DEF CpuType
<1>3. ASSUME NEW at \in {"Nmi", "Im01", "Im2"}
      PROVE  /\ At(at) \in CpuType /\ At(at).cyc = 0 /\ At(at).at = at /\ ~ At(at).halted
             /\ At(at).op = c.op /\ At(at).iff1 = c.iff1 /\ At(at).iff2 = c.iff2
             /\ At(at).im = c.im /\ At(at).eiDelay = c.eiDelay
             /\ At(at).nmiPrevious = lines.nmi /\ At(at).prefixPending = c.prefixPending
  <2> DEFINE g == Goto(s, at)
  <2>1. /\ g \in CpuType /\ g.at = at /\ g.cyc = 0 /\ g.op = c.op /\ g.iff1 = c.iff1
        /\ g.iff2 = c.iff2 /\ g.im = c.im /\ g.eiDelay = c.eiDelay
        /\ g.nmiPrevious = lines.nmi /\ g.prefixPending = c.prefixPending
    <3> HIDE DEF s
    <3> QED BY <1>1, GotoFacts DEF Places
  <2>2. At(at) = [g EXCEPT !.halted = FALSE]
    OBVIOUS
  <2> HIDE DEF s, g, At
  <2>3. At(at) \in CpuType
    BY <2>1, <2>2, FlagUpdates
  <2> QED BY <2>1, <2>2, <2>3 DEF CpuType
<1>4. d = IF c.prefixPending THEN StartOpcode(c)
          ELSE IF c.eiDelay THEN StartOpcode(u)
          ELSE IF lines.nmi /\ ~ c.nmiPrevious THEN At("Nmi")
          ELSE IF lines.irq /\ c.iff1 THEN At(IF c.im = 2 THEN "Im2" ELSE "Im01")
          ELSE StartOpcode(s)
  BY DEF Fetch
<1> HIDE DEF s, u, At
<1>5. CASE c.prefixPending
  <2>1. d = StartOpcode(c)
    BY <1>4, <1>5
  <2>2. c.eiDelay \in BOOLEAN
    BY DEF CpuType
  <2> QED BY <1>5, <2>1, <2>2, StartFacts
<1>6. CASE ~ c.prefixPending /\ c.eiDelay
  <2>1. d = StartOpcode(u)
    BY <1>4, <1>6
  <2>2. /\ d \in CpuType /\ d.at = "FetchRead" /\ d.cyc = 0
        /\ d.op = u.op /\ d.iff1 = u.iff1 /\ d.iff2 = u.iff2 /\ d.im = u.im
        /\ d.halted = u.halted /\ d.eiDelay = u.eiDelay /\ d.nmiPrevious = u.nmiPrevious
        /\ ~ u.halted => ~ d.prefixPending
        /\ u.halted => d.prefixPending = u.prefixPending
    BY <1>2, <2>1, StartFacts
  <2> QED BY <1>2, <1>6, <2>2
<1>7. CASE ~ c.prefixPending /\ ~ c.eiDelay /\ lines.nmi /\ ~ c.nmiPrevious
  <2>1. d = At("Nmi")
    BY <1>4, <1>7
  <2> QED BY <1>3, <1>7, <2>1
<1>8. CASE /\ ~ c.prefixPending /\ ~ c.eiDelay /\ ~ (lines.nmi /\ ~ c.nmiPrevious)
           /\ lines.irq /\ c.iff1
  <2> DEFINE at == IF c.im = 2 THEN "Im2" ELSE "Im01"
  <2>1. d = At(at) /\ at \in {"Nmi", "Im01", "Im2"} /\ at # "Nmi" /\ (at = "Im2" => c.im = 2)
    BY <1>4, <1>8
  <2> HIDE DEF at
  <2> QED BY <1>3, <1>8, <2>1
<1>9. CASE /\ ~ c.prefixPending /\ ~ c.eiDelay /\ ~ (lines.nmi /\ ~ c.nmiPrevious)
           /\ ~ (lines.irq /\ c.iff1)
  <2>1. d = StartOpcode(s)
    BY <1>4, <1>9
  <2>2. /\ d \in CpuType /\ d.at = "FetchRead" /\ d.cyc = 0
        /\ d.op = s.op /\ d.iff1 = s.iff1 /\ d.iff2 = s.iff2 /\ d.im = s.im
        /\ d.halted = s.halted /\ d.eiDelay = s.eiDelay /\ d.nmiPrevious = s.nmiPrevious
        /\ ~ s.halted => ~ d.prefixPending
        /\ s.halted => d.prefixPending = s.prefixPending
    BY <1>1, <2>1, StartFacts
  <2> QED BY <1>1, <1>9, <2>2
<1> QED BY <1>0, <1>5, <1>6, <1>7, <1>8, <1>9

(* Reading the opcode: the program chooses it, unless HALT is read again.    *)
LEMMA ReadFacts ==
  ASSUME NEW c \in CpuType, NEW op \in OpKinds, NEW d, d = FetchRead(c, op)
  PROVE  /\ d \in CpuType /\ d.at = "Execute" /\ d.cyc = 0
         /\ d.op = (IF RereadsHalt(c) THEN c.op ELSE op)
         /\ d.iff1 = c.iff1 /\ d.iff2 = c.iff2 /\ d.im = c.im /\ d.halted = c.halted
         /\ d.eiDelay = c.eiDelay /\ d.prefixPending = c.prefixPending
         /\ d.nmiPrevious = c.nmiPrevious
<1> DEFINE o == IF RereadsHalt(c) THEN c.op ELSE op
           pc == AfterPc(c.pc)
           e == Goto(c, "Execute")
<1>1. pc \in {"start", "beforeStart", "elsewhere"} /\ o \in OpKinds
  BY DEF AfterPc, CpuType
<1>2. /\ e \in CpuType /\ e.op = c.op /\ e.pc = c.pc /\ e.iff1 = c.iff1 /\ e.iff2 = c.iff2
      /\ e.im = c.im /\ e.halted = c.halted /\ e.eiDelay = c.eiDelay
      /\ e.prefixPending = c.prefixPending /\ e.nmiPrevious = c.nmiPrevious
      /\ e.at = "Execute" /\ e.cyc = 0
  BY GotoFacts DEF Places
<1> HIDE DEF e
<1>3. d = [e EXCEPT !.op = o, !.pc = pc]
  BY <1>2 DEF FetchRead, e
<1> HIDE DEF o, pc
<1> DEFINE f == [e EXCEPT !.pc = pc]
<1>4. f \in CpuType
  BY <1>1, <1>2, PcUpdate
<1>5. d = [f EXCEPT !.op = o]
  BY <1>2, <1>3 DEF CpuType
<1>6. d \in CpuType
  <2> HIDE DEF f
  <2> QED BY <1>1, <1>4, <1>5 DEF CpuType
<1>7. d.op = o
  BY <1>2, <1>3 DEF CpuType
<1>8. /\ d.at = "Execute" /\ d.cyc = 0 /\ d.iff1 = c.iff1 /\ d.iff2 = c.iff2 /\ d.im = c.im
      /\ d.halted = c.halted /\ d.eiDelay = c.eiDelay /\ d.prefixPending = c.prefixPending
      /\ d.nmiPrevious = c.nmiPrevious
  BY <1>2, <1>3 DEF CpuType
<1> QED BY <1>6, <1>7, <1>8 DEF o

(* The last cycle of an instruction.                                         *)
LEMMA LastCycleFacts ==
  ASSUME NEW op \in OpKinds, NEW last \in LastCycles(op)
  PROVE  last \in 1..17 /\ (op = "retn" => last = 11)
<1>1. Longest \in 1..17
  BY CpuAssumption DEF CpuAssumption
<1> QED BY <1>1 DEF LastCycles, OpKinds

(* What an instruction has done when its last cycle ends.                    *)
LEMMA FinishFacts ==
  ASSUME NEW c \in CpuType, NEW d, d = Finish(c)
  PROVE  /\ d \in CpuType /\ d.at = "Fetch" /\ d.cyc = 0 /\ d.op = c.op
         /\ d.nmiPrevious = c.nmiPrevious /\ (c.op # "im2" => d.im = c.im)
         /\ c.op = "ei" => d.iff1 /\ d.iff2 /\ d.eiDelay
         /\ c.op = "di" => ~ d.iff1 /\ ~ d.iff2
         /\ c.op \notin {"ei", "di"} => d.iff1 = c.iff1 /\ d.iff2 = c.iff2
         /\ c.op # "ei" => d.eiDelay = c.eiDelay
         /\ c.op # "halt" => d.halted = c.halted
         /\ c.op # "prefix" => d.prefixPending = c.prefixPending
<1> DEFINE e == Goto(c, "Fetch")
           pc == AfterPc(e.pc)
<1>1. /\ e \in CpuType /\ e.at = "Fetch" /\ e.cyc = 0
      /\ e.op = c.op /\ e.iff1 = c.iff1 /\ e.iff2 = c.iff2 /\ e.im = c.im
      /\ e.halted = c.halted /\ e.eiDelay = c.eiDelay /\ e.nmiPrevious = c.nmiPrevious
      /\ e.prefixPending = c.prefixPending
  BY GotoFacts DEF Places
<1>2. pc \in {"start", "beforeStart", "elsewhere"}
  BY DEF AfterPc
<1>3. c.op \in OpKinds
  BY DEF CpuType
<1>4. CASE c.op = "ei"
  <2> DEFINE f == [e EXCEPT !.iff1 = TRUE]
             g == [f EXCEPT !.iff2 = TRUE]
  <2>1. d = [e EXCEPT !.iff1 = TRUE, !.iff2 = TRUE, !.eiDelay = TRUE]
    BY <1>4 DEF Finish
  <2> HIDE DEF e
  <2>2. d = [g EXCEPT !.eiDelay = TRUE]
    BY <1>1, <2>1 DEF CpuType
  <2>3. d \in CpuType
    <3>1. f \in CpuType
      BY <1>1, FlagUpdates
    <3> HIDE DEF f
    <3>2. g \in CpuType
      BY <3>1, FlagUpdates
    <3> HIDE DEF g
    <3> QED BY <2>2, <3>2, FlagUpdates
  <2>4. /\ d.at = e.at /\ d.cyc = e.cyc /\ d.op = e.op /\ d.iff1 /\ d.iff2 /\ d.eiDelay
        /\ d.im = e.im /\ d.halted = e.halted /\ d.nmiPrevious = e.nmiPrevious
        /\ d.prefixPending = e.prefixPending
    BY <1>1, <2>1 DEF CpuType
  <2> QED BY <1>1, <1>4, <2>3, <2>4
<1>5. CASE c.op = "di"
  <2> DEFINE f == [e EXCEPT !.iff1 = FALSE]
  <2>1. d = [e EXCEPT !.iff1 = FALSE, !.iff2 = FALSE]
    BY <1>5 DEF Finish
  <2> HIDE DEF e
  <2>2. d = [f EXCEPT !.iff2 = FALSE]
    BY <1>1, <2>1 DEF CpuType
  <2>3. d \in CpuType
    <3>1. f \in CpuType
      BY <1>1, FlagUpdates
    <3> HIDE DEF f
    <3> QED BY <2>2, <3>1, FlagUpdates
  <2>4. /\ d.at = e.at /\ d.cyc = e.cyc /\ d.op = e.op /\ ~ d.iff1 /\ ~ d.iff2
        /\ d.eiDelay = e.eiDelay /\ d.im = e.im /\ d.halted = e.halted
        /\ d.nmiPrevious = e.nmiPrevious /\ d.prefixPending = e.prefixPending
    BY <1>1, <2>1 DEF CpuType
  <2> QED BY <1>1, <1>5, <2>3, <2>4
<1>6. CASE c.op = "halt"
  <2>1. d = [e EXCEPT !.halted = TRUE]
    BY <1>6 DEF Finish
  <2> HIDE DEF e
  <2>3. d \in CpuType
    BY <1>1, <2>1, FlagUpdates
  <2>4. /\ d.at = e.at /\ d.cyc = e.cyc /\ d.op = e.op /\ d.iff1 = e.iff1 /\ d.iff2 = e.iff2
        /\ d.eiDelay = e.eiDelay /\ d.im = e.im
        /\ d.nmiPrevious = e.nmiPrevious /\ d.prefixPending = e.prefixPending
    BY <1>1, <2>1 DEF CpuType
  <2> QED BY <1>1, <1>6, <2>3, <2>4
<1>7. CASE c.op = "prefix"
  <2>1. d = [e EXCEPT !.prefixPending = TRUE]
    BY <1>7 DEF Finish
  <2> HIDE DEF e
  <2>3. d \in CpuType
    BY <1>1, <2>1, FlagUpdates
  <2>4. /\ d.at = e.at /\ d.cyc = e.cyc /\ d.op = e.op /\ d.iff1 = e.iff1 /\ d.iff2 = e.iff2
        /\ d.eiDelay = e.eiDelay /\ d.im = e.im
        /\ d.nmiPrevious = e.nmiPrevious /\ d.halted = e.halted
    BY <1>1, <2>1 DEF CpuType
  <2> QED BY <1>1, <1>7, <2>3, <2>4
<1>8. CASE c.op = "im2"
  <2>1. d = [e EXCEPT !.im = 2]
    BY <1>8 DEF Finish
  <2> HIDE DEF e
  <2>3. d \in CpuType
    BY <1>1, <2>1 DEF CpuType
  <2>4. /\ d.at = e.at /\ d.cyc = e.cyc /\ d.op = e.op /\ d.iff1 = e.iff1 /\ d.iff2 = e.iff2
        /\ d.eiDelay = e.eiDelay /\ d.prefixPending = e.prefixPending
        /\ d.nmiPrevious = e.nmiPrevious /\ d.halted = e.halted
    BY <1>1, <2>1 DEF CpuType
  <2> QED BY <1>1, <1>8, <2>3, <2>4
<1>9. CASE c.op \in {"plain", "retn", "out"}
  <2> DEFINE p == IF c.op = "plain" THEN e.pc ELSE IF c.op = "retn" THEN "elsewhere" ELSE pc
  <2>1. d = [e EXCEPT !.pc = p]
    <3>1. c.op = "plain" => d = e
      BY DEF Finish
    <3>2. e = [e EXCEPT !.pc = e.pc]
      <4> HIDE DEF e
      <4> QED BY <1>1 DEF CpuType
    <3>3. c.op = "retn" => d = [e EXCEPT !.pc = "elsewhere"]
      BY DEF Finish
    <3>4. c.op = "out" => d = [e EXCEPT !.pc = pc]
      BY DEF Finish
    <3> HIDE DEF e, pc
    <3> QED BY <1>9, <3>1, <3>2, <3>3, <3>4
  <2>2. p \in {"start", "beforeStart", "elsewhere"}
    BY <1>1, <1>2 DEF CpuType
  <2> HIDE DEF e, p
  <2>3. d \in CpuType
    BY <1>1, <2>1, <2>2, PcUpdate
  <2>4. /\ d.at = e.at /\ d.cyc = e.cyc /\ d.op = e.op /\ d.iff1 = e.iff1 /\ d.iff2 = e.iff2
        /\ d.eiDelay = e.eiDelay /\ d.prefixPending = e.prefixPending /\ d.im = e.im
        /\ d.nmiPrevious = e.nmiPrevious /\ d.halted = e.halted
    BY <1>1, <2>1 DEF CpuType
  <2> QED BY <1>1, <1>9, <2>3, <2>4
<1> QED BY <1>3, <1>4, <1>5, <1>6, <1>7, <1>8, <1>9 DEF OpKinds

(* A cycle of an instruction ends it or goes on with it.                     *)
LEMMA ExecuteFacts ==
  ASSUME NEW c \in CpuType, NEW d \in Execute(c)
  PROVE  \/ /\ c.cyc \in LastCycles(c.op) /\ d = Finish(c)
            /\ c.op = "retn" => c.cyc = 11
         \/ /\ d \in CpuType /\ d.at = c.at /\ d.cyc = c.cyc + 1 /\ d.op = c.op
            /\ c.op = "retn" => c.cyc < 11
            /\ d.iff1 = (IF c.op = "retn" /\ c.cyc = 5 THEN c.iff2 ELSE c.iff1)
            /\ d.iff2 = c.iff2 /\ d.im = c.im /\ d.halted = c.halted
            /\ d.eiDelay = c.eiDelay /\ d.prefixPending = c.prefixPending
            /\ d.nmiPrevious = c.nmiPrevious
<1>0. c.op \in OpKinds /\ c.cyc \in 0..17 /\ c.iff1 \in BOOLEAN /\ c.iff2 \in BOOLEAN
  BY DEF CpuType
<1>1. CASE c.cyc \in LastCycles(c.op) /\ d = Finish(c)
  BY <1>0, <1>1, LastCycleFacts
<1>2. CASE /\ \E last \in LastCycles(c.op) : c.cyc < last
           /\ d = [c EXCEPT !.cyc = @ + 1,
                            !.iff1 = IF op_retn_restores(c) THEN c.iff2 ELSE @]
  <2> DEFINE n == c.cyc + 1
             b == IF c.op = "retn" /\ c.cyc = 5 THEN c.iff2 ELSE c.iff1
             e == [c EXCEPT !.cyc = n]
  <2>1. n \in 0..17 /\ (c.op = "retn" => c.cyc < 11)
    <3>1. PICK last \in LastCycles(c.op) : c.cyc < last
      BY <1>2
    <3> QED BY <1>0, <3>1, LastCycleFacts
  <2>2. b \in BOOLEAN
    BY <1>0
  <2>3. d = [c EXCEPT !.cyc = n, !.iff1 = b]
    BY <1>2 DEF op_retn_restores
  <2>4. d = [e EXCEPT !.iff1 = b] /\ d.cyc = n /\ d.iff1 = b
    <3> HIDE DEF n, b
    <3> QED BY <2>3 DEF CpuType
  <2>5. d \in CpuType
    <3> HIDE DEF n, b
    <3>1. e \in CpuType
      BY <2>1 DEF CpuType
    <3> HIDE DEF e
    <3> QED BY <2>2, <2>4, <3>1, FlagUpdates
  <2>6. /\ d.at = c.at /\ d.op = c.op /\ d.iff2 = c.iff2 /\ d.im = c.im
        /\ d.halted = c.halted /\ d.eiDelay = c.eiDelay
        /\ d.prefixPending = c.prefixPending /\ d.nmiPrevious = c.nmiPrevious
    <3> HIDE DEF n, b
    <3> QED BY <2>3 DEF CpuType
  <2> QED BY <2>1, <2>4, <2>5, <2>6
<1> QED BY <1>1, <1>2 DEF Execute

Responses == {"Nmi", "Im01", "Im2"}
InResponse(c) == c.at \in Responses => c.cyc <= LastResponseCycle(c.at)

(* A cycle of an interrupt response: its first masks, its last ends it.      *)
LEMMA RespondFacts ==
  ASSUME NEW c \in CpuType, c.at \in Responses, InResponse(c), NEW d, d = Respond(c)
  PROVE  /\ d \in CpuType /\ InResponse(d) /\ d.op = c.op /\ d.im = c.im
         /\ d.halted = c.halted /\ d.eiDelay = c.eiDelay
         /\ d.prefixPending = c.prefixPending /\ d.nmiPrevious = c.nmiPrevious
         /\ c.cyc = LastResponseCycle(c.at) => d.at = "Fetch" /\ d.cyc = 0
         /\ c.cyc # LastResponseCycle(c.at) => d.at = c.at /\ d.cyc = c.cyc + 1
         /\ c.cyc = 0 => ~ d.iff1 /\ d.iff2 = (c.at = "Nmi" /\ c.iff2)
         /\ c.cyc # 0 => d.iff1 = c.iff1 /\ d.iff2 = c.iff2
<1>0. /\ c.cyc \in 0..17 /\ c.iff2 \in BOOLEAN /\ LastResponseCycle(c.at) \in 1..17
      /\ c.cyc <= LastResponseCycle(c.at)
  BY DEF CpuType, Responses, InResponse, LastResponseCycle
<1>1. CASE c.cyc = LastResponseCycle(c.at)
  <2> DEFINE e == Goto(c, "Fetch")
  <2>1. /\ e \in CpuType /\ e.at = "Fetch" /\ e.cyc = 0
        /\ e.op = c.op /\ e.iff1 = c.iff1 /\ e.iff2 = c.iff2 /\ e.im = c.im
        /\ e.halted = c.halted /\ e.eiDelay = c.eiDelay /\ e.nmiPrevious = c.nmiPrevious
        /\ e.prefixPending = c.prefixPending
    BY GotoFacts DEF Places
  <2>2. d = [e EXCEPT !.pc = "elsewhere"]
    BY <1>1 DEF Respond
  <2> HIDE DEF e
  <2>3. d \in CpuType
    BY <2>1, <2>2, PcUpdate
  <2>4. /\ d.at = e.at /\ d.cyc = e.cyc /\ d.op = e.op /\ d.iff1 = e.iff1 /\ d.iff2 = e.iff2
        /\ d.eiDelay = e.eiDelay /\ d.prefixPending = e.prefixPending /\ d.im = e.im
        /\ d.nmiPrevious = e.nmiPrevious /\ d.halted = e.halted
    BY <2>1, <2>2 DEF CpuType
  <2> QED BY <1>0, <1>1, <2>1, <2>3, <2>4 DEF InResponse, Responses
<1>2. CASE c.cyc # LastResponseCycle(c.at) /\ c.cyc = 0
  <2> DEFINE b == c.at = "Nmi" /\ c.iff2
             e == [c EXCEPT !.cyc = 1]
             f == [e EXCEPT !.iff1 = FALSE]
  <2>1. d = [c EXCEPT !.cyc = 1, !.iff1 = FALSE, !.iff2 = b]
    BY <1>2 DEF Respond
  <2>2. b \in BOOLEAN
    BY <1>0
  <2>3. d.iff2 = b
    <3> HIDE DEF b
    <3> QED BY <2>1 DEF CpuType
  <2>4. /\ d.at = c.at /\ d.cyc = 1 /\ d.op = c.op /\ ~ d.iff1 /\ d.im = c.im
        /\ d.halted = c.halted /\ d.eiDelay = c.eiDelay
        /\ d.prefixPending = c.prefixPending /\ d.nmiPrevious = c.nmiPrevious
    <3> HIDE DEF b
    <3> QED BY <2>1 DEF CpuType
  <2>5. d \in CpuType
    <3> HIDE DEF b
    <3>1. d = [f EXCEPT !.iff2 = b]
      BY <2>1 DEF CpuType
    <3>2. e \in CpuType
      BY DEF CpuType
    <3> HIDE DEF e
    <3>3. f \in CpuType
      BY <3>2, FlagUpdates
    <3> HIDE DEF f
    <3> QED BY <2>2, <3>1, <3>3, FlagUpdates
  <2>6. InResponse(d)
    BY <1>0, <1>2, <2>4 DEF InResponse
  <2> QED BY <1>0, <1>2, <2>3, <2>4, <2>5, <2>6
<1>3. CASE c.cyc # LastResponseCycle(c.at) /\ c.cyc # 0
  <2> DEFINE n == c.cyc + 1
  <2>1. d = [c EXCEPT !.cyc = n] /\ n \in 0..17 /\ n <= LastResponseCycle(c.at)
    BY <1>0, <1>3 DEF Respond
  <2> HIDE DEF n
  <2>2. d \in CpuType
    BY <2>1 DEF CpuType
  <2>3. /\ d.at = c.at /\ d.cyc = n /\ d.op = c.op /\ d.iff1 = c.iff1 /\ d.iff2 = c.iff2
        /\ d.im = c.im /\ d.halted = c.halted /\ d.eiDelay = c.eiDelay
        /\ d.prefixPending = c.prefixPending /\ d.nmiPrevious = c.nmiPrevious
    BY <2>1 DEF CpuType
  <2>4. InResponse(d)
    BY <2>1, <2>3 DEF InResponse
  <2> QED BY <1>3, <2>2, <2>3, <2>4 DEF n
<1> QED BY <1>1, <1>2, <1>3

-----------------------------------------------------------------------------
(* HALT is read again as long as the CPU is halted, and a prefix is pending  *)
(* only between the prefix and the opcode it belongs to.  Only a reset would *)
(* bring pc back to the reset address.                                       *)
Settled(c) ==
  /\ c.pc # "beforeStart" /\ (c.halted \/ c.at = "Execute" => c.pc = "elsewhere")
  /\ c.halted => c.op = "halt"
  /\ c.prefixPending => c.at = "Fetch" /\ c.op = "prefix"

(* An opcode that starts moves the program counter back only out of a halt.  *)
LEMMA StartPc ==
  ASSUME NEW c \in CpuType
  PROVE  StartOpcode(c).pc = (IF c.halted THEN BeforePc(c.pc) ELSE c.pc)
<1> DEFINE e == Goto(c, "FetchRead")
           pc == BeforePc(e.pc)
<1>1. e \in CpuType /\ e.pc = c.pc
  BY GotoFacts DEF Places
<1>2. StartOpcode(c) = IF c.halted THEN [e EXCEPT !.pc = pc] ELSE [e EXCEPT !.prefixPending = FALSE]
  BY DEF StartOpcode
<1>3. [e EXCEPT !.pc = pc].pc = pc /\ [e EXCEPT !.prefixPending = FALSE].pc = e.pc
  <2> HIDE DEF e, pc
  <2> QED BY <1>1 DEF CpuType
<1> HIDE DEF e
<1> QED BY <1>1, <1>2, <1>3

(* A fetch, with or without a request taken, moves it one opcode back at     *)
(* most.                                                                     *)
LEMMA FetchPc ==
  ASSUME NEW c \in CpuType, NEW lines \in Levels, NEW d, d = Fetch(c, lines)
  PROVE  /\ d.pc \in {c.pc, BeforePc(c.pc)}
         /\ ~ c.halted => d.pc = c.pc
<1> DEFINE s == [c EXCEPT !.nmiPrevious = lines.nmi]
           u == [c EXCEPT !.eiDelay = FALSE]
           At(at) == [Goto(s, at) EXCEPT !.halted = FALSE]
<1>0. lines.nmi \in BOOLEAN
  BY DEF Levels
<1>1. s \in CpuType /\ s.pc = c.pc /\ s.halted = c.halted
  BY <1>0 DEF CpuType
<1>2. u \in CpuType /\ u.pc = c.pc /\ u.halted = c.halted
  BY DEF CpuType
<1>3. ASSUME NEW at \in {"Nmi", "Im01", "Im2"}
      PROVE  At(at).pc = c.pc
  <2> DEFINE g == Goto(s, at)
  <2>1. g \in CpuType /\ g.pc = c.pc
    <3> HIDE DEF s
    <3> QED BY <1>1, GotoFacts DEF Places
  <2>2. At(at) = [g EXCEPT !.halted = FALSE]
    OBVIOUS
  <2> HIDE DEF s, g, At
  <2> QED BY <2>1, <2>2 DEF CpuType
<1>4. \/ d = StartOpcode(c) \/ d = StartOpcode(u) \/ d = StartOpcode(s)
      \/ \E at \in {"Nmi", "Im01", "Im2"} : d = At(at)
  BY DEF Fetch
<1> HIDE DEF s, u, At
<1> QED BY <1>1, <1>2, <1>3, <1>4, StartPc

(* An opcode read moves it one opcode on.                                    *)
LEMMA ReadPc ==
  ASSUME NEW c \in CpuType, NEW op \in OpKinds, NEW d, d = FetchRead(c, op)
  PROVE  d.pc = AfterPc(c.pc)
<1> DEFINE e == Goto(c, "Execute")
           o == IF RereadsHalt(c) THEN e.op ELSE op
           pc == AfterPc(e.pc)
<1>1. e \in CpuType /\ e.pc = c.pc
  BY GotoFacts DEF Places
<1>2. d = [e EXCEPT !.op = o, !.pc = pc]
  <2>1. d = [e EXCEPT !.op = IF RereadsHalt(c) THEN @ ELSE op, !.pc = AfterPc(@)]
    BY DEF FetchRead
  <2> HIDE DEF e
  <2> QED BY <1>1, <2>1 DEF CpuType
<1>3. d.pc = pc
  <2> HIDE DEF e, o, pc
  <2> QED BY <1>1, <1>2 DEF CpuType
<1> HIDE DEF e
<1> QED BY <1>1, <1>3

(* An opcode executed away from the program's start stays away from it.      *)
LEMMA ExecutePc ==
  ASSUME NEW c \in CpuType, c.pc = "elsewhere", NEW d \in Execute(c)
  PROVE  d.pc = "elsewhere"
<1> DEFINE e == Goto(c, "Fetch")
           n == c.cyc + 1
           b == IF op_retn_restores(c) THEN c.iff2 ELSE c.iff1
<1>1. e \in CpuType /\ e.pc = c.pc
  BY GotoFacts DEF Places
<1>2. \/ d = e
      \/ d = [e EXCEPT !.iff1 = TRUE, !.iff2 = TRUE, !.eiDelay = TRUE]
      \/ d = [e EXCEPT !.iff1 = FALSE, !.iff2 = FALSE]
      \/ d = [e EXCEPT !.halted = TRUE]
      \/ d = [e EXCEPT !.prefixPending = TRUE]
      \/ d = [e EXCEPT !.im = 2]
      \/ d = [e EXCEPT !.pc = "elsewhere"]
      \/ d = [e EXCEPT !.pc = AfterPc(@)]
      \/ d = [c EXCEPT !.cyc = n, !.iff1 = b]
  <2>1. CASE d = Finish(c)
    <3>1. c.op \in OpKinds
      BY DEF CpuType
    <3> QED BY <2>1, <3>1 DEF Finish, OpKinds
  <2>2. CASE d = [c EXCEPT !.cyc = n, !.iff1 = b]
    BY <2>2
  <2>3. d = Finish(c) \/ d = [c EXCEPT !.cyc = n, !.iff1 = b]
    BY DEF Execute
  <2> QED BY <2>1, <2>2, <2>3
<1>3. AfterPc("elsewhere") = "elsewhere"
  BY DEF AfterPc
<1> HIDE DEF e, n, b
<1> QED BY <1>1, <1>2, <1>3 DEF CpuType

(* A response leaves the program counter or sends it to a handler.           *)
LEMMA RespondPc ==
  ASSUME NEW c \in CpuType, NEW d, d = Respond(c)
  PROVE  d.pc \in {c.pc, "elsewhere"}
<1> DEFINE e == Goto(c, "Fetch")
           n == c.cyc + 1
           b == (c.at = "Nmi") /\ c.iff2
<1>1. e \in CpuType
  BY GotoFacts DEF Places
<1>2. \/ d = [e EXCEPT !.pc = "elsewhere"]
      \/ d = [c EXCEPT !.cyc = 1, !.iff1 = FALSE, !.iff2 = b]
      \/ d = [c EXCEPT !.cyc = n]
  BY DEF Respond
<1> HIDE DEF e, n, b
<1> QED BY <1>1, <1>2 DEF CpuType

(* Every cycle of the CPU keeps that.                                        *)
LEMMA SettledKeeps ==
  ASSUME NEW c \in CpuType, InResponse(c), Settled(c), NEW lines \in Levels,
         NEW ops \in SUBSET OpKinds, NEW d \in execute_cycle(c, lines, ops)
  PROVE  Settled(d)
<1>0. c.at \in Places /\ c.op \in OpKinds
  BY DEF CpuType, Places
<1>1. CASE c.at = "Fetch"
  <2>1. d = Fetch(c, lines)
    BY <1>1 DEF execute_cycle
  <2>2. /\ d.op = c.op
        /\ \/ d.at = "FetchRead" /\ d.halted = c.halted /\ (~ c.halted => ~ d.prefixPending)
              /\ (c.halted => d.prefixPending = c.prefixPending)
           \/ d.at \in {"Nmi", "Im01", "Im2"} /\ ~ d.halted /\ ~ d.prefixPending
    BY <2>1, FetchFacts
  <2>3. d.pc = c.pc
    <3>1. d.pc \in {c.pc, BeforePc(c.pc)} /\ (~ c.halted => d.pc = c.pc)
      BY <2>1, FetchPc
    <3> QED BY <3>1 DEF Settled, BeforePc
  <2>4. c.prefixPending => ~ c.halted
    BY DEF Settled
  <2> QED BY <2>2, <2>3, <2>4 DEF Settled
<1>2. CASE c.at = "FetchRead"
  <2>1. PICK op \in ops : d = FetchRead(c, op)
    BY <1>2 DEF execute_cycle
  <2>2. /\ d.at = "Execute" /\ d.halted = c.halted /\ d.prefixPending = c.prefixPending
        /\ d.op = (IF RereadsHalt(c) THEN c.op ELSE op)
    BY <2>1, ReadFacts
  <2>3. d.pc = AfterPc(c.pc)
    BY <2>1, ReadPc
  <2> QED BY <1>2, <2>2, <2>3 DEF Settled, AfterPc, RereadsHalt
<1>3. CASE c.at = "Execute"
  <2>0. c.pc = "elsewhere" /\ ~ c.prefixPending
    BY <1>3 DEF Settled
  <2>1. d \in Execute(c)
    BY <1>3 DEF execute_cycle
  <2>2. d.pc = "elsewhere"
    BY <2>0, <2>1, ExecutePc
  <2>3. CASE d = Finish(c)
    <3>1. /\ d.at = "Fetch" /\ d.op = c.op /\ (c.op # "halt" => d.halted = c.halted)
          /\ (c.op # "prefix" => d.prefixPending = c.prefixPending)
      BY <2>3, FinishFacts
    <3> QED BY <2>0, <2>2, <3>1 DEF Settled
  <2>4. CASE /\ d.at = c.at /\ d.op = c.op /\ d.halted = c.halted
             /\ d.prefixPending = c.prefixPending
    BY <2>0, <2>2, <2>4 DEF Settled
  <2> QED BY <2>1, <2>3, <2>4, ExecuteFacts
<1>4. CASE c.at \in Responses
  <2>1. d = Respond(c)
    BY <1>4 DEF execute_cycle, Responses
  <2>2. d.op = c.op /\ d.halted = c.halted /\ d.prefixPending = c.prefixPending
        /\ d.at \in {"Fetch", c.at}
    BY <1>4, <2>1, RespondFacts
  <2>3. d.pc \in {c.pc, "elsewhere"}
    BY <2>1, RespondPc
  <2> QED BY <1>4, <2>2, <2>3 DEF Settled, Responses
<1> QED BY <1>0, <1>1, <1>2, <1>3, <1>4 DEF Places, Responses

-----------------------------------------------------------------------------
(* The CPU of a board without IM 2.  IFF1 is never up without IFF2, EI       *)
(* leaves its delay behind, and the last half of RETN has both alike.        *)
Calm(c) ==
  /\ c \in CpuType /\ InResponse(c) /\ Settled(c)
  /\ c.im = 0 /\ c.at # "Im2" /\ c.op # "im2"
  /\ c.iff1 => c.iff2
  /\ c.at = "Fetch" /\ c.op = "ei" => c.eiDelay
  /\ c.at \in Responses => c.op # "ei"
  /\ c.at = "Execute" /\ c.op = "retn" /\ c.cyc > 5 => c.iff1 = c.iff2

(* A cycle leaves a calm CPU calm, whatever the lines do.                    *)
LEMMA CalmKeeps ==
  ASSUME NEW c, Calm(c), NEW lines \in Levels,
         NEW ops \in SUBSET (OpKinds \ {"im2"}), NEW d \in execute_cycle(c, lines, ops)
  PROVE  Calm(d)
<1>0. /\ c \in CpuType /\ InResponse(c) /\ Settled(c) /\ c.at \in Places /\ c.op \in OpKinds
      /\ c.cyc \in 0..17 /\ c.iff1 \in BOOLEAN /\ c.iff2 \in BOOLEAN
      /\ c.eiDelay \in BOOLEAN
  BY DEF Calm, CpuType, Places
<1>1. ops \in SUBSET OpKinds
  OBVIOUS
<1>2. Settled(d)
  BY <1>0, <1>1, SettledKeeps
<1>3. CASE c.at = "Fetch"
  <2>1. d = Fetch(c, lines)
    BY <1>3 DEF execute_cycle
  <2>2. /\ d \in CpuType /\ d.cyc = 0 /\ d.op = c.op
        /\ d.iff1 = c.iff1 /\ d.iff2 = c.iff2 /\ d.im = c.im
        /\ \/ d.at = "FetchRead"
           \/ d.at \in {"Nmi", "Im01", "Im2"} /\ (d.at = "Im2" => c.im = 2) /\ ~ c.eiDelay
    BY <1>0, <2>1, FetchFacts
  <2>3. InResponse(d)
    BY <2>2 DEF InResponse, LastResponseCycle, Responses
  <2> QED BY <1>2, <1>3, <2>2, <2>3 DEF Calm, Responses
<1>4. CASE c.at = "FetchRead"
  <2>1. PICK op \in ops : d = FetchRead(c, op)
    BY <1>4 DEF execute_cycle
  <2>2. op \in OpKinds /\ op # "im2"
    OBVIOUS
  <2>3. /\ d \in CpuType /\ d.at = "Execute" /\ d.cyc = 0 /\ d.op \in {c.op, op}
        /\ d.iff1 = c.iff1 /\ d.iff2 = c.iff2 /\ d.im = c.im
    BY <1>0, <2>1, <2>2, ReadFacts
  <2> QED BY <1>2, <2>2, <2>3 DEF Calm, InResponse, Responses
<1>5. CASE c.at = "Execute"
  <2>1. d \in Execute(c)
    BY <1>5 DEF execute_cycle
  <2>3. CASE d = Finish(c)
    <3>1. /\ d \in CpuType /\ d.at = "Fetch" /\ d.op = c.op /\ (c.op # "im2" => d.im = c.im)
          /\ c.op = "ei" => d.iff1 /\ d.iff2 /\ d.eiDelay
          /\ c.op = "di" => ~ d.iff1 /\ ~ d.iff2
          /\ c.op \notin {"ei", "di"} => d.iff1 = c.iff1 /\ d.iff2 = c.iff2
      BY <1>0, <2>3, FinishFacts
    <3>2. InResponse(d)
      BY <3>1 DEF InResponse, Responses
    <3> QED BY <1>2, <3>1, <3>2 DEF Calm, Responses
  <2>4. CASE /\ d \in CpuType /\ d.at = c.at /\ d.cyc = c.cyc + 1 /\ d.op = c.op
             /\ d.iff1 = (IF c.op = "retn" /\ c.cyc = 5 THEN c.iff2 ELSE c.iff1)
             /\ d.iff2 = c.iff2 /\ d.im = c.im
    <3>1. InResponse(d)
      BY <1>5, <2>4 DEF InResponse, Responses
    <3>2. /\ c.im = 0 /\ c.op # "im2" /\ (c.iff1 => c.iff2)
          /\ c.op = "retn" /\ c.cyc > 5 => c.iff1 = c.iff2
      BY <1>5 DEF Calm
    <3>3. d.iff1 => d.iff2
      BY <2>4, <3>2
    <3>4. d.op = "retn" /\ d.cyc > 5 => d.iff1 = d.iff2
      BY <1>0, <2>4, <3>2
    <3> QED BY <1>2, <1>5, <2>4, <3>1, <3>2, <3>3, <3>4 DEF Calm, Responses
  <2> QED BY <1>0, <2>1, <2>3, <2>4, ExecuteFacts
<1>6. CASE c.at \in Responses
  <2>1. d = Respond(c)
    BY <1>6 DEF execute_cycle, Responses
  <2>2. /\ d \in CpuType /\ InResponse(d) /\ d.op = c.op /\ d.im = c.im
        /\ d.eiDelay = c.eiDelay /\ d.at \in {"Fetch", c.at}
        /\ c.cyc = 0 => ~ d.iff1
        /\ c.cyc # 0 => d.iff1 = c.iff1 /\ d.iff2 = c.iff2
    BY <1>0, <1>6, <2>1, RespondFacts
  <2> QED BY <1>2, <1>6, <2>2 DEF Calm, Responses
<1> QED BY <1>0, <1>3, <1>4, <1>5, <1>6 DEF Places, Responses

Handlers == [kind : {"Nmi", "Im01"}, mask : BOOLEAN]
Innermost(hs, kind) == hs # <<>> /\ hs[Len(hs)].kind = kind
AllNmi(hs) == \A i \in 1..Len(hs) : hs[i].kind = "Nmi"
NoneNmi(hs) == \A i \in 1..Len(hs) : hs[i].kind # "Nmi"

(* A handler entered is the innermost.                                       *)
LEMMA PushFacts ==
  ASSUME NEW hs \in Seq(Handlers), NEW h \in Handlers, NEW hs2, hs2 = Append(hs, h)
  PROVE  /\ hs2 \in Seq(Handlers) /\ Len(hs) \in Nat /\ Len(hs2) = Len(hs) + 1
         /\ hs2[Len(hs2)] = h /\ hs2 # <<>>
         /\ \A i \in 1..Len(hs) : hs2[i] = hs[i]
<1>1. /\ hs2 \in Seq(Handlers) /\ Len(hs) \in Nat /\ Len(hs2) = Len(hs) + 1
      /\ hs2[Len(hs2)] = h /\ (\A i \in 1..Len(hs) : hs2[i] = hs[i])
  BY AppendProperties, LenProperties
<1> QED BY <1>1, EmptySeq

(* A handler returned from is the innermost no longer; the others stay as    *)
(* they were.                                                                *)
LEMMA PopFacts ==
  ASSUME NEW hs \in Seq(Handlers), hs # <<>>, NEW hs2, hs2 = SubSeq(hs, 1, Len(hs) - 1)
  PROVE  /\ hs2 \in Seq(Handlers) /\ Len(hs) \in Nat \ {0} /\ Len(hs2) = Len(hs) - 1
         /\ \A i \in 1..Len(hs2) : hs2[i] = hs[i]
         /\ hs2 # <<>> => Len(hs2) > 0
<1>1. Len(hs) \in Nat \ {0}
  BY LenProperties, EmptySeq
<1>2. Len(hs) - 1 \in Nat
  BY <1>1
<1>3. /\ hs2 \in Seq(Handlers) /\ Len(hs2) = Len(hs) - 1
      /\ \A i \in 1..Len(hs2) : hs2[i] = hs[i]
  <2>1. \A i \in 1..(Len(hs) - 1) : hs[i] \in Handlers
    BY <1>1, ElementOfSeq
  <2>2. /\ hs2 \in Seq(Handlers)
        /\ Len(hs2) = IF 1 <= Len(hs) - 1 THEN Len(hs) - 1 - 1 + 1 ELSE 0
        /\ \A i \in 1..(Len(hs) - 1 - 1 + 1) : hs2[i] = hs[1 + i - 1]
    BY <1>2, <2>1, SubSeqProperties
  <2>3. Len(hs2) = Len(hs) - 1 /\ Len(hs) - 1 - 1 + 1 = Len(hs) - 1
    <3> DEFINE n == Len(hs)
               m == Len(hs2)
    <3>1. n \in Nat \ {0} /\ m = IF 1 <= n - 1 THEN n - 1 - 1 + 1 ELSE 0
      BY <1>1, <2>2
    <3> HIDE DEF m, n
    <3>2. m = n - 1 /\ n - 1 - 1 + 1 = n - 1
      BY <3>1
    <3> QED BY <3>2 DEF m, n
  <2>4. \A i \in 1..Len(hs2) : 1 + i - 1 = i
    BY <1>2, <2>3
  <2> QED BY <2>2, <2>3, <2>4
<1>4. hs2 # <<>> => Len(hs2) > 0
  BY <1>1, <1>3, EmptySeq
<1> QED BY <1>1, <1>3, <1>4

(* The handlers, for the CPU c.                                              *)
Nested(c, hs) ==
  /\ hs \in Seq(Handlers)
  /\ c.at \in Responses => Innermost(hs, c.at)
  /\ hs # <<>> => ~ c.halted /\ (c.at = "Execute" => c.op # "halt")
  /\ c.at = "Execute" /\ c.op = "retn" => hs # <<>>
  /\ Innermost(hs, "Im01") =>
       /\ c.at = "Execute" /\ c.op = "retn" => c.iff2
       /\ c.at \in {"Fetch", "FetchRead"} /\ c.op = "ei" => c.iff2
  /\ Innermost(hs, "Nmi") /\ c.at = "Execute" => c.op \notin {"ei", "di"}

(* IFF2 holds the mask the outermost NMI handler is to restore, unless an    *)
(* IRQ handler within it shows that the mask was open.                       *)
Masked(c, hs) ==
  /\ NoneNmi(hs) => c.iff1 = c.iff2
  /\ hs # <<>> /\ hs[1].kind = "Nmi" =>
       IF AllNmi(hs) THEN c.iff2 = hs[1].mask ELSE hs[1].mask

LinesInv ==
  /\ Calm(z80) /\ Nested(z80, handlers) /\ Masked(z80, handlers)
  /\ nmi \in BOOLEAN /\ irq \in BOOLEAN /\ edgeDue \in BOOLEAN
  /\ nmi /\ ~ z80.nmiPrevious => edgeDue

(* The invariant holds at reset,                                             *)
LEMMA LinesBegin == LinesInit => LinesInv
<1> SUFFICES ASSUME LinesInit PROVE LinesInv
  OBVIOUS
<1>1. /\ z80 = PowerOnCpu /\ nmi = FALSE /\ irq = FALSE /\ handlers = <<>> /\ edgeDue = FALSE
  BY DEF LinesInit
<1>2. Calm(z80)
  BY <1>1 DEF Calm, PowerOnCpu, CpuType, OpKinds, InResponse, Responses, Settled
<1>3. Nested(z80, handlers)
  BY <1>1 DEF Nested, PowerOnCpu, Innermost, Responses
<1>4. Masked(z80, handlers)
  BY <1>1 DEF Masked, PowerOnCpu
<1> QED BY <1>1, <1>2, <1>3, <1>4 DEF LinesInv

(* No opcode of the program selects interrupt mode 2.                        *)
LEMMA LinesOps == LinesOpcodes \in SUBSET (OpKinds \ {"im2"})
BY LinesAssumption DEF LinesAssumption, LinesOpcodes

(* The handler that runs is the innermost one.                               *)
LEMMA LastHandler ==
  \A kind : In(kind) <=> Innermost(handlers, kind)
BY DEF In, Innermost, Last

(* A cycle that neither answers nor returns leaves the handlers alone.       *)
LEMMA CycleWithin ==
  ASSUME LinesInv, LinesCycle, ~ Answers(z80, z80'), ~ Returns(z80)
  PROVE  Nested(z80', handlers') /\ Masked(z80', handlers')
<1> DEFINE c == z80
           d == z80'
           lines == [nmi |-> nmi, irq |-> irq]
<1>0. /\ Calm(c) /\ Nested(c, handlers) /\ Masked(c, handlers) /\ lines \in Levels
      /\ c \in CpuType /\ InResponse(c) /\ c.at \in Places
      /\ c.cyc \in 0..17 /\ c.iff1 \in BOOLEAN /\ c.iff2 \in BOOLEAN
  BY DEF LinesInv, Calm, Levels, CpuType, Places
<1>1. d \in execute_cycle(c, lines, LinesOpcodes) /\ handlers' = handlers
  BY DEF LinesCycle
<1>2. Calm(d)
  BY <1>0, <1>1, LinesOps, CalmKeeps
<1>2a. d.iff1 \in BOOLEAN /\ d.iff2 \in BOOLEAN
  BY <1>2 DEF Calm, CpuType
<1>3. CASE c.at = "Fetch"
  <2>1. d = Fetch(c, lines)
    BY <1>1, <1>3 DEF execute_cycle
  <2>2. d.at = "FetchRead" /\ d.halted = c.halted /\ d.op = c.op
        /\ d.iff1 = c.iff1 /\ d.iff2 = c.iff2
    <3>1. d.at \notin {"Nmi", "Im01", "Im2"}
      BY <1>2, <1>3 DEF Answers, Calm
    <3> QED BY <1>0, <2>1, <3>1, FetchFacts
  <2> HIDE DEF c, d, lines
  <2> QED BY <1>0, <1>1, <1>3, <2>2 DEF Nested, Masked, Responses, d
<1>4. CASE c.at = "FetchRead"
  <2>1. PICK op \in LinesOpcodes : d = FetchRead(c, op)
    BY <1>1, <1>4 DEF execute_cycle
  <2>2. op \in OpKinds
    BY LinesOps
  <2>3. /\ d.at = "Execute" /\ d.cyc = 0 /\ d.halted = c.halted
        /\ d.op = (IF RereadsHalt(c) THEN c.op ELSE op)
        /\ d.iff1 = c.iff1 /\ d.iff2 = c.iff2
    BY <1>0, <2>1, <2>2, ReadFacts
  <2>4. /\ op = "retn" => handlers # <<>>
        /\ Innermost(handlers, "Nmi") => op \notin {"ei", "di", "halt", "im2"}
        /\ Innermost(handlers, "Im01") => op # "halt" /\ (op = "retn" <=> c.op = "ei")
    BY LastHandler DEF LinesOpcodes
  <2>5. RereadsHalt(c) => c.halted /\ c.op = "halt"
    BY DEF RereadsHalt
  <2>6. handlers # <<>> => Innermost(handlers, "Nmi") \/ Innermost(handlers, "Im01")
    <3> SUFFICES ASSUME handlers # <<>>
                 PROVE  Innermost(handlers, "Nmi") \/ Innermost(handlers, "Im01")
      OBVIOUS
    <3>1. handlers \in Seq(Handlers)
      BY <1>0 DEF Nested
    <3>2. Len(handlers) \in 1..Len(handlers)
      BY <3>1, LenProperties, EmptySeq
    <3>3. handlers[Len(handlers)] \in Handlers
      BY <3>1, <3>2, ElementOfSeq
    <3> QED BY <3>3 DEF Innermost, Handlers
  <2> HIDE DEF c, d, lines
  <2>7. Nested(d, handlers)
    BY <1>0, <1>4, <2>3, <2>4, <2>5, <2>6 DEF Nested, Responses
  <2> QED BY <1>0, <1>1, <2>3, <2>7 DEF Masked, d
<1>5. CASE c.at = "Execute"
  <2>1. d \in Execute(c)
    BY <1>1, <1>5 DEF execute_cycle
  <2>2. CASE c.cyc \in LastCycles(c.op) /\ d = Finish(c) /\ (c.op = "retn" => c.cyc = 11)
    <3>1. /\ d.at = "Fetch" /\ d.op = c.op
          /\ c.op = "ei" => d.iff1 /\ d.iff2
          /\ c.op = "di" => ~ d.iff1 /\ ~ d.iff2
          /\ c.op \notin {"ei", "di"} => d.iff1 = c.iff1 /\ d.iff2 = c.iff2
          /\ c.op # "halt" => d.halted = c.halted
      BY <1>0, <2>2, FinishFacts
    <3>2. c.op # "retn"
      BY <1>5, <2>2 DEF Returns
    <3>3. d.iff1 = d.iff2 \/ (d.iff1 = c.iff1 /\ d.iff2 = c.iff2)
      BY <1>2a, <3>1
    <3>4. handlers # <<>> /\ AllNmi(handlers) => d.iff2 = c.iff2
      <4> SUFFICES ASSUME handlers # <<>>, AllNmi(handlers) PROVE d.iff2 = c.iff2
        OBVIOUS
      <4>1. handlers \in Seq(Handlers)
        BY <1>0 DEF Nested
      <4>2. Len(handlers) \in 1..Len(handlers)
        BY <4>1, LenProperties, EmptySeq
      <4>3. Innermost(handlers, "Nmi")
        BY <4>2 DEF AllNmi, Innermost
      <4> QED BY <1>0, <1>5, <3>1, <4>3 DEF Nested
    <3> HIDE DEF c, d, lines
    <3>5. Nested(d, handlers)
      BY <1>0, <1>5, <3>1, <3>2 DEF Nested, Responses
    <3>6. Masked(d, handlers)
      BY <1>0, <3>3, <3>4 DEF Masked
    <3> QED BY <1>1, <3>5, <3>6 DEF d
  <2>3. CASE /\ d.at = c.at /\ d.op = c.op
             /\ d.iff1 = (IF c.op = "retn" /\ c.cyc = 5 THEN c.iff2 ELSE c.iff1)
             /\ d.iff2 = c.iff2 /\ d.halted = c.halted
    <3> HIDE DEF c, d, lines
    <3>1. Nested(d, handlers)
      BY <1>0, <1>5, <2>3 DEF Nested, Responses
    <3>2. Masked(d, handlers)
      BY <1>0, <2>3 DEF Masked
    <3> QED BY <1>1, <3>1, <3>2 DEF d
  <2> QED BY <1>0, <2>1, <2>2, <2>3, ExecuteFacts
<1>6. CASE c.at \in Responses
  <2>1. d = Respond(c)
    BY <1>1, <1>6 DEF execute_cycle, Responses
  <2>2. /\ d.op = c.op /\ d.halted = c.halted /\ d.at \in {"Fetch", c.at}
        /\ c.cyc = 0 => ~ d.iff1 /\ d.iff2 = (c.at = "Nmi" /\ c.iff2)
        /\ c.cyc # 0 => d.iff1 = c.iff1 /\ d.iff2 = c.iff2
    BY <1>0, <1>6, <2>1, RespondFacts
  <2>3. handlers \in Seq(Handlers) /\ handlers # <<>> /\ Innermost(handlers, c.at) /\ c.op # "ei"
    BY <1>0, <1>6 DEF Nested, Innermost, Calm
  <2>4. Len(handlers) \in 1..Len(handlers)
    BY <2>3, LenProperties, EmptySeq
  <2>5. NoneNmi(handlers) => c.at # "Nmi"
    BY <2>3, <2>4 DEF NoneNmi, Innermost
  <2>6. AllNmi(handlers) => c.at = "Nmi"
    BY <2>3, <2>4 DEF AllNmi, Innermost
  <2> HIDE DEF c, d, lines
  <2>7. Nested(d, handlers)
    BY <1>0, <1>6, <2>2, <2>3 DEF Nested, Responses
  <2>8. Masked(d, handlers)
    <3>1. NoneNmi(handlers) => d.iff1 = d.iff2
      BY <1>0, <1>2a, <2>2, <2>5 DEF Masked
    <3>2. AllNmi(handlers) => d.iff2 = c.iff2
      BY <1>0, <2>2, <2>6
    <3> QED BY <1>0, <3>1, <3>2 DEF Masked
  <2> QED BY <1>1, <2>7, <2>8 DEF d
<1> QED BY <1>0, <1>3, <1>4, <1>5, <1>6 DEF Places, Responses

(* An interrupt is answered: its handler is the innermost one.               *)
LEMMA CycleAnswers ==
  ASSUME LinesInv, LinesCycle, Answers(z80, z80')
  PROVE  Nested(z80', handlers') /\ Masked(z80', handlers')
<1> DEFINE c == z80
           d == z80'
           lines == [nmi |-> nmi, irq |-> irq]
           h == [kind |-> d.at, mask |-> c.iff1]
<1>0. /\ Calm(c) /\ Nested(c, handlers) /\ Masked(c, handlers) /\ lines \in Levels
      /\ c \in CpuType /\ c.iff1 \in BOOLEAN /\ c.iff2 \in BOOLEAN
      /\ c.at = "Fetch" /\ handlers \in Seq(Handlers) /\ (c.iff1 => c.iff2)
  BY DEF LinesInv, Calm, Levels, CpuType, Answers, Nested
<1>1. d \in execute_cycle(c, lines, LinesOpcodes) /\ handlers' = Append(handlers, h)
  BY DEF LinesCycle
<1>2. Calm(d)
  BY <1>0, <1>1, LinesOps, CalmKeeps
<1>3. d = Fetch(c, lines)
  BY <1>0, <1>1 DEF execute_cycle
<1>4. /\ d.op = c.op /\ d.iff1 = c.iff1 /\ d.iff2 = c.iff2 /\ ~ d.halted
      /\ d.at \in {"Nmi", "Im01"} /\ (d.at = "Im01" => c.iff1)
  <2>1. d.at \in {"Nmi", "Im01"}
    BY <1>2 DEF Answers, Calm
  <2> QED BY <1>0, <1>3, <2>1, FetchFacts
<1>5. h \in Handlers /\ h.kind = d.at /\ h.mask = c.iff1
  BY <1>0, <1>4 DEF Handlers
<1> DEFINE hs == handlers
           hs2 == handlers'
<1>6. /\ hs2 \in Seq(Handlers) /\ Len(hs) \in Nat /\ Len(hs2) = Len(hs) + 1
      /\ hs2[Len(hs2)] = h /\ hs2 # <<>> /\ \A i \in 1..Len(hs) : hs2[i] = hs[i]
  BY <1>0, <1>1, <1>5, PushFacts
<1>7. hs # <<>> => 1 \in 1..Len(hs)
  BY <1>0, LenProperties, EmptySeq
<1>7a. hs = <<>> => Len(hs) = 0
  BY EmptySeq
<1> HIDE DEF c, d, lines, h, hs, hs2
<1>8. Nested(d, hs2)
  BY <1>4, <1>5, <1>6 DEF Nested, Innermost
<1>9. Masked(d, hs2)
  <2>1. Len(hs2) \in 1..Len(hs2) /\ \A i \in 1..Len(hs2) : i = Len(hs2) \/ i \in 1..Len(hs)
    BY <1>6
  <2>2. \A i \in 1..Len(hs) : i \in 1..Len(hs2)
    BY <1>6
  <2>3. AllNmi(hs2) <=> AllNmi(hs) /\ d.at = "Nmi"
    BY <1>5, <1>6, <2>1, <2>2 DEF AllNmi
  <2>4. NoneNmi(hs2) <=> NoneNmi(hs) /\ d.at # "Nmi"
    BY <1>5, <1>6, <2>1, <2>2 DEF NoneNmi
  <2>5. CASE hs = <<>>
    <3>1. Len(hs2) = 1 /\ hs2[1] = h /\ AllNmi(hs) /\ NoneNmi(hs)
      BY <1>6, <1>7a, <2>5 DEF AllNmi, NoneNmi
    <3>2. c.iff1 = c.iff2
      BY <1>0, <3>1 DEF Masked, hs
    <3> QED BY <1>4, <1>5, <2>3, <3>1, <3>2 DEF Masked
  <2>6. CASE hs # <<>>
    <3>1. hs2[1] = hs[1]
      BY <1>6, <1>7, <2>6
    <3>2. /\ NoneNmi(hs) => c.iff1 = c.iff2
          /\ hs[1].kind = "Nmi" => IF AllNmi(hs) THEN c.iff2 = hs[1].mask ELSE hs[1].mask
      BY <1>0, <2>6 DEF Masked, hs
    <3> QED BY <1>0, <1>4, <2>3, <2>4, <3>1, <3>2 DEF Masked
  <2> QED BY <2>5, <2>6
<1> QED BY <1>8, <1>9 DEF d, hs2

(* RETN leaves the innermost handler.                                        *)
LEMMA CycleReturns ==
  ASSUME LinesInv, LinesCycle, Returns(z80)
  PROVE  /\ Nested(z80', handlers') /\ Masked(z80', handlers')
         /\ Len(handlers) = 1 /\ In("Nmi") => z80'.iff1 = Last.mask
<1> DEFINE c == z80
           d == z80'
           lines == [nmi |-> nmi, irq |-> irq]
           hs == handlers
           hs2 == handlers'
<1>0. /\ Calm(c) /\ Nested(c, hs) /\ Masked(c, hs)
      /\ c \in CpuType /\ c.iff1 = c.iff2
      /\ c.at = "Execute" /\ c.op = "retn" /\ c.cyc = 11
      /\ hs # <<>> /\ hs \in Seq(Handlers)
  BY DEF LinesInv, Calm, Returns, Nested
<1>1. /\ d \in execute_cycle(c, lines, LinesOpcodes)
      /\ hs2 = SubSeq(hs, 1, Len(hs) - 1)
  BY DEF LinesCycle, Answers, Returns
<1>2. d \in Execute(c)
  BY <1>0, <1>1 DEF execute_cycle
<1>3. d = Finish(c)
  BY <1>0, <1>2, ExecuteFacts
<1>4. /\ d.at = "Fetch" /\ d.op = c.op /\ d.iff1 = c.iff1 /\ d.iff2 = c.iff2
      /\ d.halted = c.halted
  BY <1>0, <1>3, FinishFacts
<1>5. /\ hs2 \in Seq(Handlers) /\ Len(hs) \in Nat \ {0} /\ Len(hs2) = Len(hs) - 1
      /\ \A i \in 1..Len(hs2) : hs2[i] = hs[i]
      /\ hs2 # <<>> => Len(hs2) > 0
  BY <1>0, <1>1, PopFacts
<1>6. hs[Len(hs)] \in Handlers
  <2>1. Len(hs) \in 1..Len(hs)
    BY <1>5
  <2> QED BY <1>0, <2>1, ElementOfSeq
<1>7. hs[Len(hs)].kind \in {"Nmi", "Im01"}
  BY <1>6 DEF Handlers
<1>8. Len(hs) = 1 /\ Innermost(hs, "Nmi") => d.iff1 = hs[Len(hs)].mask
  <2>1. Len(hs) = 1 /\ hs[1].kind = "Nmi" => AllNmi(hs)
    BY DEF AllNmi
  <2> HIDE DEF c, d, hs, hs2
  <2> QED BY <1>0, <1>4, <2>1 DEF Innermost, Masked
<1>9. Len(handlers) = 1 /\ In("Nmi") => z80'.iff1 = Last.mask
  BY <1>8, LastHandler DEF Last
<1> HIDE DEF c, d, lines, hs, hs2
<1>10. Nested(d, hs2)
  BY <1>0, <1>4, <1>5 DEF Nested, Responses, Calm
<1>11. Masked(d, hs2)
  <2>1. \A i \in 1..Len(hs) : i = Len(hs) \/ i \in 1..Len(hs2)
    BY <1>5
  <2>2. AllNmi(hs) <=> AllNmi(hs2) /\ hs[Len(hs)].kind = "Nmi"
    <3>1. \A i \in 1..Len(hs2) : i \in 1..Len(hs)
      BY <1>5
    <3>2. Len(hs) \in 1..Len(hs)
      BY <1>5
    <3> QED BY <1>5, <2>1, <3>1, <3>2 DEF AllNmi
  <2>3. ASSUME hs2 # <<>>, hs2[1].kind = "Nmi"
        PROVE  IF AllNmi(hs2) THEN d.iff2 = hs2[1].mask ELSE hs2[1].mask
    <3>1. hs2[1] = hs[1]
      <4>1. 1 \in 1..Len(hs2)
        BY <1>5, <2>3
      <4> QED BY <1>5, <4>1
    <3>2. IF AllNmi(hs) THEN c.iff2 = hs[1].mask ELSE hs[1].mask
      BY <1>0, <2>3, <3>1 DEF Masked
    <3>3. CASE hs[Len(hs)].kind = "Nmi"
      BY <1>4, <2>2, <3>1, <3>2, <3>3
    <3>4. CASE hs[Len(hs)].kind = "Im01"
      <4>1. c.iff2
        BY <1>0, <3>4 DEF Nested, Innermost
      <4>2. hs[1].mask
        BY <2>2, <3>2, <3>4
      <4>3. hs[1] \in Handlers
        <5>1. 1 \in 1..Len(hs)
          BY <1>5
        <5> QED BY <1>0, <5>1, ElementOfSeq
      <4>4. hs[1].mask \in BOOLEAN /\ c.iff2 \in BOOLEAN
        BY <1>0, <4>3 DEF Handlers, CpuType
      <4> QED BY <1>4, <3>1, <4>1, <4>2, <4>4
    <3> QED BY <1>7, <3>3, <3>4
  <2> QED BY <1>0, <1>4, <2>3 DEF Masked
<1> QED BY <1>9, <1>10, <1>11 DEF d, hs2

(* One edge, one NMI.                                                        *)
LEMMA CycleOfEdge ==
  ASSUME LinesInv, LinesCycle
  PROVE  /\ Calm(z80') /\ edgeDue' \in BOOLEAN /\ (nmi' /\ ~ z80'.nmiPrevious => edgeDue')
         /\ Answers(z80, z80') /\ z80'.at = "Nmi" => edgeDue
<1> DEFINE c == z80
           d == z80'
           lines == [nmi |-> nmi, irq |-> irq]
<1>0. /\ Calm(c) /\ lines \in Levels /\ c \in CpuType /\ InResponse(c) /\ c.at \in Places
      /\ nmi \in BOOLEAN /\ edgeDue \in BOOLEAN /\ (nmi /\ ~ c.nmiPrevious => edgeDue)
      /\ lines.nmi = nmi /\ c.nmiPrevious \in BOOLEAN
  BY DEF LinesInv, Calm, Levels, CpuType, Places
<1>1. /\ d \in execute_cycle(c, lines, LinesOpcodes) /\ nmi' = nmi
      /\ edgeDue' = (edgeDue /\ ~ (Answers(c, d) /\ d.at = "Nmi"))
  BY DEF LinesCycle
<1>2. Calm(d)
  BY <1>0, <1>1, LinesOps, CalmKeeps
<1>3. /\ d.nmiPrevious = c.nmiPrevious \/ d.nmiPrevious = nmi
      /\ Answers(c, d) /\ d.at = "Nmi" => nmi /\ ~ c.nmiPrevious /\ d.nmiPrevious = nmi
  <2>1. CASE c.at = "Fetch"
    <3>1. d = Fetch(c, lines)
      BY <1>1, <2>1 DEF execute_cycle
    <3>2. c.prefixPending \in BOOLEAN /\ c.eiDelay \in BOOLEAN
      BY <1>0 DEF CpuType
    <3> QED BY <1>0, <3>1, <3>2, FetchFacts
  <2>2. CASE c.at = "FetchRead"
    <3>1. PICK op \in LinesOpcodes : d = FetchRead(c, op)
      BY <1>1, <2>2 DEF execute_cycle
    <3>2. op \in OpKinds
      BY LinesOps
    <3> QED BY <1>0, <2>2, <3>1, <3>2, ReadFacts DEF Answers
  <2>3. CASE c.at = "Execute"
    <3>1. d \in Execute(c)
      BY <1>1, <2>3 DEF execute_cycle
    <3>2. d.nmiPrevious = c.nmiPrevious
      BY <1>0, <3>1, ExecuteFacts, FinishFacts
    <3> QED BY <2>3, <3>2 DEF Answers
  <2>4. CASE c.at \in Responses
    <3>1. d = Respond(c)
      BY <1>1, <2>4 DEF execute_cycle, Responses
    <3>2. d.nmiPrevious = c.nmiPrevious
      BY <1>0, <2>4, <3>1, RespondFacts
    <3> QED BY <2>4, <3>2 DEF Answers, Responses
  <2> QED BY <1>0, <2>1, <2>2, <2>3, <2>4 DEF Places, Responses
<1>4. edgeDue' \in BOOLEAN
  BY <1>0, <1>1
<1> HIDE DEF lines
<1>5. nmi' /\ ~ d.nmiPrevious => edgeDue'
  BY <1>0, <1>1, <1>3
<1> QED BY <1>0, <1>2, <1>3, <1>4, <1>5

(* and every cycle and every change of a line keeps it.                      *)
LEMMA LinesStep == LinesInv /\ [LinesNext]_linesVars => LinesInv'
<1> SUFFICES ASSUME LinesInv, [LinesNext]_linesVars PROVE LinesInv'
  OBVIOUS
<1>1. CASE LinesCycle
  <2>1. Nested(z80', handlers') /\ Masked(z80', handlers')
    BY <1>1, CycleWithin, CycleAnswers, CycleReturns
  <2>2. nmi' = nmi /\ irq' = irq
    BY <1>1 DEF LinesCycle
  <2>3. /\ Calm(z80') /\ edgeDue' \in BOOLEAN /\ (nmi' /\ ~ z80'.nmiPrevious => edgeDue')
    BY <1>1, CycleOfEdge
  <2>4. nmi \in BOOLEAN /\ irq \in BOOLEAN
    BY DEF LinesInv
  <2> QED BY <2>1, <2>2, <2>3, <2>4 DEF LinesInv
<1>2. ASSUME NEW level \in BOOLEAN, SetNmi(level) PROVE LinesInv'
  <2>1. /\ z80' = z80 /\ irq' = irq /\ handlers' = handlers /\ nmi' = level
        /\ edgeDue' = (edgeDue \/ level)
    BY <1>2 DEF SetNmi
  <2>2. edgeDue' \in BOOLEAN /\ (nmi' /\ ~ z80'.nmiPrevious => edgeDue')
    BY <2>1 DEF LinesInv
  <2> QED BY <2>1, <2>2 DEF LinesInv
<1>3. ASSUME NEW level \in BOOLEAN, SetIrq(level) PROVE LinesInv'
  <2>1. /\ z80' = z80 /\ nmi' = nmi /\ handlers' = handlers /\ irq' = level
        /\ edgeDue' = edgeDue
    BY <1>3 DEF SetIrq
  <2> QED BY <2>1 DEF LinesInv
<1>4. CASE UNCHANGED linesVars
  BY <1>4 DEF linesVars, LinesInv
<1> QED BY <1>1, <1>2, <1>3, <1>4 DEF LinesNext

(* The CPU on lines that change is calm, the handlers it is in are nested as *)
(* its masks say, and an edge not yet sampled is still due.                  *)
THEOREM LinesInvariant == LinesSpec => []LinesInv
BY LinesBegin, LinesStep, PTL DEF LinesSpec

(* Every variable of the CPU on its lines stays in its type.                 *)
THEOREM LinesTyped == LinesSpec => []LinesTypeOK
<1>1. LinesInv => LinesTypeOK
  <2> SUFFICES ASSUME LinesInv PROVE LinesTypeOK
    OBVIOUS
  <2>1. /\ z80 \in CpuType /\ nmi \in BOOLEAN /\ irq \in BOOLEAN /\ edgeDue \in BOOLEAN
        /\ handlers \in Seq(Handlers)
    BY DEF LinesInv, Calm, Nested
  <2>2. \A i \in DOMAIN handlers : handlers[i] \in Handlers
    BY <2>1, LenProperties, ElementOfSeq
  <2> QED BY <2>1, <2>2 DEF LinesTypeOK, Handlers
<1> QED BY <1>1, LinesInvariant, PTL

(* A non-maskable interrupt is taken once for a rise of its line.            *)
THEOREM NmiTakenOncePerEdge == LinesSpec => OneNmiPerEdge
<1> DEFINE A == Answers(z80, z80') /\ z80'.at = "Nmi" => edgeDue
<1>1. LinesInv /\ [LinesNext]_linesVars => [A]_linesVars
  <2> SUFFICES ASSUME LinesInv, LinesNext PROVE [A]_linesVars
    OBVIOUS
  <2>1. CASE LinesCycle
    BY <2>1, CycleOfEdge
  <2>2. CASE \E level \in BOOLEAN : SetNmi(level) \/ SetIrq(level)
    <3>1. z80' = z80
      BY <2>2 DEF SetNmi, SetIrq
    <3>2. ~ Answers(z80, z80')
      BY <3>1 DEF Answers
    <3> QED BY <3>2
  <2> QED BY <2>1, <2>2 DEF LinesNext
<1> QED BY <1>1, LinesInvariant, PTL DEF LinesSpec, OneNmiPerEdge

(* The outermost NMI handler gives back the mask it found.                   *)
THEOREM NmiGivesMaskBack == LinesSpec => NmiRestoresMask
<1> DEFINE A == Returns(z80) /\ Len(handlers) = 1 /\ In("Nmi") => z80'.iff1 = Last.mask
<1>1. LinesInv /\ [LinesNext]_linesVars => [A]_linesVars
  <2> SUFFICES ASSUME LinesInv, LinesNext, Returns(z80), Len(handlers) = 1, In("Nmi")
               PROVE  z80'.iff1 = Last.mask
    OBVIOUS
  <2>1. CASE LinesCycle
    BY <2>1, CycleReturns
  <2>2. CASE \E level \in BOOLEAN : SetNmi(level) \/ SetIrq(level)
    <3>1. z80' = z80
      BY <2>2 DEF SetNmi, SetIrq
    <3>2. z80.iff1 = z80.iff2
      BY DEF LinesInv, Calm, Returns
    <3>3. Last.kind = "Nmi" /\ Last = handlers[1] /\ handlers # <<>>
      BY DEF In, Last
    <3>4. AllNmi(handlers)
      BY <3>3 DEF AllNmi
    <3> QED BY <3>1, <3>2, <3>3, <3>4 DEF LinesInv, Masked
  <2> QED BY <2>1, <2>2 DEF LinesNext
<1> QED BY <1>1, LinesInvariant, PTL DEF LinesSpec, NmiRestoresMask

-----------------------------------------------------------------------------
(* A channel whose counters are loaded when it counts.                       *)
Sound(c) ==
  /\ c \in ChannelType
  /\ c.running => ~ Has(c.control, COUNTER_MODE) /\ c.prescaler > 0 /\ c.down > 0
  /\ c.waitingForTrigger => c.down > 0
  /\ c.down > 0 => c.timeConstant > 0

(* A channel stays sound through a clock tick,                               *)
LEMMA SoundTick ==
  ASSUME NEW c, Sound(c)
  PROVE  Sound(TickChannel(c)) /\ TickChannel(c).waitingForTc = c.waitingForTc
<1> DEFINE d == TickChannel(c)
<1>0. /\ c \in ChannelType /\ c.timeConstant \in Nat /\ c.down \in Nat /\ c.prescaler \in Nat
  BY CtcAssumption DEF Sound, ChannelType
<1>1. CASE c.running
  <2>1. /\ ~ Has(c.control, COUNTER_MODE) /\ c.prescaler > 0 /\ c.down > 0
        /\ c.timeConstant > 0
    BY <1>1 DEF Sound
  <2>2. /\ d \in ChannelType
        /\ d.control = c.control /\ d.timeConstant = c.timeConstant
        /\ d.running = c.running /\ d.waitingForTrigger = c.waitingForTrigger
        /\ d.waitingForTc = c.waitingForTc
        /\ c.prescaler # 1 => d.prescaler = c.prescaler - 1 /\ d.down = c.down
        /\ c.prescaler = 1 => /\ d.prescaler = PrescalerOf(c)
                              /\ d.down = IF c.down = 1 THEN c.timeConstant ELSE c.down - 1
    BY <1>0, <1>1, <2>1, TickOfTimer
  <2>3. d.prescaler > 0
    <3>1. PrescalerOf(c) > 0
      BY PrescalerType, CtcAssumption
    <3> HIDE DEF d
    <3> QED BY <1>0, <2>1, <2>2, <3>1
  <2>4. d.down > 0
    <3> HIDE DEF d
    <3> QED BY <1>0, <2>1, <2>2
  <2> HIDE DEF d
  <2>5. Sound(d)
    BY <2>1, <2>2, <2>3, <2>4 DEF Sound
  <2> QED BY <2>2, <2>5 DEF d
<1>2. CASE ~ c.running
  <2>1. d = [c EXCEPT !.zcPulse = FALSE]
    BY <1>0, <1>2, TickOfOther
  <2>2. d \in ChannelType
    BY <1>0, <2>1 DEF ChannelType
  <2>3. /\ d.running = c.running /\ d.waitingForTrigger = c.waitingForTrigger
        /\ d.down = c.down /\ d.timeConstant = c.timeConstant
        /\ d.waitingForTc = c.waitingForTc
    BY <1>0, <2>1 DEF ChannelType
  <2> HIDE DEF d
  <2>4. Sound(d)
    BY <1>2, <2>2, <2>3 DEF Sound
  <2> QED BY <2>3, <2>4 DEF d
<1> QED BY <1>1, <1>2

(* through an edge on its trigger,                                           *)
LEMMA SoundTrigger ==
  ASSUME NEW c, Sound(c), NEW level \in BOOLEAN
  PROVE  /\ Sound(TriggerChannel(c, level))
         /\ TriggerChannel(c, level).waitingForTc = c.waitingForTc
<1> DEFINE d == TriggerChannel(c, level)
           counted == /\ Has(c.control, COUNTER_MODE) /\ ~ c.waitingForTc /\ c.down # 0
                      /\ IF Has(c.control, EDGE_RISING) THEN ~ c.triggerState /\ level
                                                       ELSE c.triggerState /\ ~ level
<1>0. /\ c \in ChannelType /\ c.timeConstant \in Nat /\ c.down \in Nat /\ c.prescaler \in Nat
  BY CtcAssumption DEF Sound, ChannelType
<1>1. CASE counted
  <2>1. c.down > 0 /\ c.timeConstant > 0 /\ ~ c.running
    BY <1>0, <1>1 DEF Sound
  <2>2. /\ d \in ChannelType /\ SameButCount(c, d)
        /\ d.down = IF c.down = 1 THEN c.timeConstant ELSE c.down - 1
    BY <1>0, <1>1, <2>1, CountedEdge
  <2> HIDE DEF d, counted
  <2>3. d.down > 0
    BY <1>0, <2>1, <2>2
  <2>4. Sound(d)
    BY <2>1, <2>2, <2>3 DEF Sound, SameButCount
  <2>5. d.waitingForTc = c.waitingForTc
    BY <2>2 DEF SameButCount
  <2> QED BY <2>4, <2>5 DEF d
<1>2. CASE ~ counted
  <2>1. /\ d \in ChannelType
        /\ d.control = c.control /\ d.timeConstant = c.timeConstant /\ d.down = c.down
        /\ d.waitingForTc = c.waitingForTc
        /\ \/ /\ d.waitingForTrigger = c.waitingForTrigger /\ d.running = c.running
              /\ d.prescaler = c.prescaler
           \/ /\ ~ Has(c.control, COUNTER_MODE) /\ c.waitingForTrigger
              /\ ~ d.waitingForTrigger /\ d.running /\ d.prescaler = PrescalerOf(c)
    BY <1>0, <1>2, UncountedEdge
  <2>2. PrescalerOf(c) > 0
    BY PrescalerType, CtcAssumption
  <2> HIDE DEF d, counted
  <2>3. Sound(d)
    BY <1>0, <2>1, <2>2 DEF Sound
  <2> QED BY <2>1, <2>3 DEF d
<1> QED BY <1>1, <1>2

(* through a time constant,                                                  *)
LEMMA SoundLoad ==
  ASSUME NEW c, Sound(c), NEW data \in 0..255, data <= TcRange
  PROVE  Sound(load_time_constant(c, data))
<1> DEFINE d == load_time_constant(c, data)
<1>1. /\ d \in ChannelType /\ d.timeConstant > 0 /\ d.down = d.timeConstant
      /\ d.running => ~ Has(d.control, COUNTER_MODE) /\ d.prescaler = PrescalerOf(d)
  BY LoadFacts DEF Sound
<1>2. PrescalerOf(d) > 0
  BY PrescalerType, CtcAssumption
<1> HIDE DEF d
<1> QED BY <1>1, <1>2 DEF Sound, d

(* through a control word,                                                   *)
LEMMA SoundControl ==
  ASSUME NEW c, Sound(c), NEW data \in 0..255
  PROVE  Sound(write_control(c, data))
<1> DEFINE d == write_control(c, data)
<1>1. /\ d \in ChannelType
      /\ d.timeConstant = c.timeConstant /\ d.down = c.down /\ d.prescaler = c.prescaler
      /\ d.control = data
      /\ d.running => /\ c.running
                      /\ ~ (Has(data, COUNTER_MODE) /\ ~ Has(c.control, COUNTER_MODE))
      /\ d.waitingForTrigger => c.waitingForTrigger
  BY ControlFacts DEF Sound
<1> HIDE DEF d
<1> QED BY <1>1 DEF Sound, d

(* and through its acknowledgement.                                          *)
LEMMA SoundServed ==
  ASSUME NEW c, Sound(c) PROVE Sound([c EXCEPT !.pending = FALSE])
<1> DEFINE d == [c EXCEPT !.pending = FALSE]
<1>0. c \in ChannelType
  BY DEF Sound
<1>1. d \in ChannelType
  BY <1>0 DEF ChannelType
<1>2. /\ d.control = c.control /\ d.timeConstant = c.timeConstant /\ d.down = c.down
      /\ d.prescaler = c.prescaler /\ d.running = c.running
      /\ d.waitingForTrigger = c.waitingForTrigger
  BY <1>0 DEF ChannelType
<1> HIDE DEF d
<1> QED BY <1>1, <1>2 DEF Sound, d

-----------------------------------------------------------------------------
(* The CTC of a board: its vector base is a multiple of 8.                   *)
CtcRecords == [vectorBase : 0..248, channels : [Channels -> ChannelType]]
Alike(x, y) ==
  /\ y.vectorBase = x.vectorBase
  /\ \A c \in Channels : y.channels[c].waitingForTc = x.channels[c].waitingForTc
SoundCtc(x) == x \in CtcRecords /\ \A c \in Channels : Sound(x.channels[c])

(* Replacing one channel.                                                    *)
Replaced(x, c, new) == [x EXCEPT !.channels[c] = new]

(* A CTC with one channel replaced by a sound one is sound.                  *)
LEMMA OneChannel ==
  ASSUME NEW x, SoundCtc(x), NEW c \in Channels, NEW ch2, Sound(ch2),
         NEW y, y = Replaced(x, c, ch2)
  PROVE  SoundCtc(y) /\ y.vectorBase = x.vectorBase
         /\ y.channels = [x.channels EXCEPT ![c] = ch2]
<1> DEFINE m == [x.channels EXCEPT ![c] = ch2]
<1>0. x \in CtcRecords /\ x.channels \in [Channels -> ChannelType] /\ ch2 \in ChannelType
  BY DEF SoundCtc, Sound, CtcRecords
<1>1. y = [x EXCEPT !.channels = m]
  BY <1>0 DEF CtcRecords, Replaced
<1>2. m \in [Channels -> ChannelType]
  BY <1>0
<1>3. \A e \in Channels : Sound(m[e])
  BY <1>0 DEF SoundCtc
<1> HIDE DEF m
<1>4. y \in CtcRecords /\ y.channels = m /\ y.vectorBase = x.vectorBase
  BY <1>0, <1>1, <1>2 DEF CtcRecords
<1> QED BY <1>3, <1>4 DEF SoundCtc, m

(* The four channels stay sound through a tick of all of them,               *)
LEMMA SoundCtcTick ==
  ASSUME NEW x, SoundCtc(x)
  PROVE  SoundCtc(CtcTick(x)) /\ Alike(x, CtcTick(x))
<1> DEFINE m == [c \in Channels |-> TickChannel(x.channels[c])]
           y == CtcTick(x)
<1>1. \A c \in Channels : Sound(m[c]) /\ m[c].waitingForTc = x.channels[c].waitingForTc
  BY SoundTick DEF SoundCtc
<1>2. m \in [Channels -> ChannelType]
  BY <1>1 DEF Sound
<1>3. y = [x EXCEPT !.channels = m] /\ x \in CtcRecords
  BY DEF CtcTick, SoundCtc
<1> HIDE DEF m, y
<1>4. y \in CtcRecords /\ y.channels = m /\ y.vectorBase = x.vectorBase
  BY <1>2, <1>3 DEF CtcRecords
<1> QED BY <1>1, <1>4 DEF SoundCtc, Alike, y

(* through an edge on one,                                                   *)
LEMMA SoundCtcTrigger ==
  ASSUME NEW x, SoundCtc(x), NEW c \in Channels, NEW level \in BOOLEAN
  PROVE  /\ SoundCtc(CtcTrigger(x, c, level))
         /\ Alike(x, CtcTrigger(x, c, level))
<1> DEFINE d == TriggerChannel(x.channels[c], level)
           y == CtcTrigger(x, c, level)
<1>1. Sound(d) /\ d.waitingForTc = x.channels[c].waitingForTc
  BY SoundTrigger DEF SoundCtc
<1>2. y = Replaced(x, c, d)
  BY DEF CtcTrigger, SoundCtc, CtcRecords, Replaced
<1> HIDE DEF d, y
<1>3. SoundCtc(y)
  BY <1>1, <1>2, OneChannel
<1>4. y.vectorBase = x.vectorBase
  BY <1>2 DEF Replaced, SoundCtc, CtcRecords
<1>5. \A e \in Channels : y.channels[e] = IF e = c THEN d ELSE x.channels[e]
  BY <1>2 DEF Replaced, SoundCtc, CtcRecords
<1>6. Alike(x, y)
  BY <1>1, <1>4, <1>5 DEF Alike
<1> QED BY <1>3, <1>6 DEF y

(* through a pulse on one,                                                   *)
LEMMA SoundCtcPulse ==
  ASSUME NEW x, SoundCtc(x), NEW c \in Channels
  PROVE  SoundCtc(CtcPulse(x, c)) /\ Alike(x, CtcPulse(x, c))
<1> DEFINE y == CtcTrigger(x, c, TRUE)
           z == CtcTrigger(y, c, FALSE)
<1>1. SoundCtc(y) /\ Alike(x, y)
  BY SoundCtcTrigger
<1>2. CtcPulse(x, c) = z
  BY DEF CtcPulse
<1> HIDE DEF y
<1>3. SoundCtc(z) /\ Alike(y, z)
  BY <1>1, SoundCtcTrigger
<1> HIDE DEF z
<1>4. Alike(x, z)
  BY <1>1, <1>3 DEF Alike
<1> QED BY <1>2, <1>3, <1>4

(* through a write to one,                                                   *)
LEMMA SoundCtcWrite ==
  ASSUME NEW x, SoundCtc(x), NEW c \in Channels, NEW data \in 0..255,
         x.channels[c].waitingForTc => data <= TcRange
  PROVE  SoundCtc(CtcWrite(x, c, data))
<1> DEFINE d == x.channels[c]
           y == CtcWrite(x, c, data)
<1>0. Sound(d) /\ x \in CtcRecords
  BY DEF SoundCtc
<1>1. CASE d.waitingForTc
  <2>1. y = Replaced(x, c, load_time_constant(d, data))
    BY <1>1 DEF CtcWrite, Replaced
  <2>2. Sound(load_time_constant(d, data))
    BY <1>0, <1>1, SoundLoad
  <2> HIDE DEF d, y
  <2> QED BY <2>1, <2>2, OneChannel DEF y
<1>2. CASE ~ d.waitingForTc /\ Has(data, CONTROL_WORD)
  <2>1. y = Replaced(x, c, write_control(d, data))
    BY <1>2 DEF CtcWrite, Replaced
  <2>2. Sound(write_control(d, data))
    BY <1>0, SoundControl
  <2> HIDE DEF d, y
  <2> QED BY <2>1, <2>2, OneChannel DEF y
<1>3. CASE ~ d.waitingForTc /\ ~ Has(data, CONTROL_WORD)
  <2> DEFINE b == data - (data % 8)
  <2>1. b \in 0..248
    OBVIOUS
  <2>2. y = [x EXCEPT !.vectorBase = b] \/ y = x
    BY <1>3 DEF CtcWrite
  <2> HIDE DEF b
  <2>3. [x EXCEPT !.vectorBase = b] \in CtcRecords /\ [x EXCEPT !.vectorBase = b].channels = x.channels
    BY <1>0, <2>1 DEF CtcRecords
  <2> QED BY <1>0, <2>2, <2>3 DEF SoundCtc
<1> QED BY <1>1, <1>2, <1>3

(* The channel of highest priority among those that ask.                     *)
LEMMA HighestAsks ==
  ASSUME NEW x, interrupt_pending(x)
  PROVE  Highest(x) \in Pending(x) /\ Highest(x) \in Channels
<1>1. Pending(x) \subseteq 0..3 /\ Pending(x) # {}
  BY DEF interrupt_pending, Pending, Channels
<1>2. \E c \in Pending(x) : \A d \in Pending(x) : c <= d
  <2>1. CASE 0 \in Pending(x)
    BY <1>1, <2>1
  <2>2. CASE 0 \notin Pending(x) /\ 1 \in Pending(x)
    BY <1>1, <2>2
  <2>3. CASE 0 \notin Pending(x) /\ 1 \notin Pending(x) /\ 2 \in Pending(x)
    BY <1>1, <2>3
  <2>4. CASE 0 \notin Pending(x) /\ 1 \notin Pending(x) /\ 2 \notin Pending(x)
    <3>1. Pending(x) = {3}
      BY <1>1, <2>4
    <3> QED BY <3>1
  <2> QED BY <2>1, <2>2, <2>3, <2>4
<1>3. Highest(x) \in Pending(x)
  BY <1>2 DEF Highest
<1> QED BY <1>1, <1>3 DEF Channels

(* and through an acknowledgement, which serves the first that asks.         *)
LEMMA SoundAcknowledge ==
  ASSUME NEW x, SoundCtc(x)
  PROVE  /\ SoundCtc(acknowledge_interrupt(x))
         /\ acknowledge_interrupt(x).vectorBase = x.vectorBase
<1>1. CASE interrupt_pending(x)
  <2> DEFINE c == Highest(x)
             d == [x.channels[c] EXCEPT !.pending = FALSE]
             y == acknowledge_interrupt(x)
  <2>1. c \in Channels
    BY <1>1, HighestAsks
  <2>2. Sound(d)
    BY <2>1, SoundServed DEF SoundCtc
  <2>3. y = Replaced(x, c, d)
    BY <1>1, <2>1 DEF acknowledge_interrupt, SoundCtc, CtcRecords, Replaced
  <2> HIDE DEF c, d, y
  <2>4. SoundCtc(y)
    BY <2>1, <2>2, <2>3, OneChannel
  <2>5. y.vectorBase = x.vectorBase
    BY <2>3 DEF Replaced, SoundCtc, CtcRecords
  <2> QED BY <2>4, <2>5 DEF y
<1>2. CASE ~ interrupt_pending(x)
  BY <1>2 DEF acknowledge_interrupt
<1> QED BY <1>1, <1>2

(* What a cycle finds: the CTC after the beam, its tick and the cascade.     *)
LEMMA BegunCtc ==
  ASSUME SoundCtc(ctc), NEW lit, lit = begin_scanline(ctc),
         NEW begun, begun = begin_cycle_inner(lit)
  PROVE  SoundCtc(begun) /\ Alike(ctc, begun)
<1>0. {0, 1, 2, 3} \subseteq Channels /\ Alike(ctc, ctc)
  BY DEF Channels, Alike
<1>1. SoundCtc(lit) /\ Alike(ctc, lit)
  <2> DEFINE line == clock \div CyclesPerScanline
             field == IF line % PairsPerField = 0 THEN CtcPulse(ctc, 2) ELSE ctc
             frame == IF line = 0 THEN CtcPulse(field, 3) ELSE field
  <2>1. SoundCtc(field) /\ Alike(ctc, field)
    BY <1>0, SoundCtcPulse
  <2>2. lit = IF clock % CyclesPerScanline = 0 THEN frame ELSE ctc
    BY DEF begin_scanline
  <2>3. SoundCtc(frame) /\ Alike(field, frame)
    <3> HIDE DEF field
    <3>1. SoundCtc(CtcPulse(field, 3)) /\ Alike(field, CtcPulse(field, 3)) /\ Alike(field, field)
      BY <1>0, <2>1, SoundCtcPulse DEF Alike
    <3> QED BY <2>1, <3>1
  <2> HIDE DEF line, field, frame
  <2>4. Alike(ctc, frame)
    BY <2>1, <2>3 DEF Alike
  <2> QED BY <1>0, <2>2, <2>3, <2>4
<1>2. SoundCtc(begun) /\ Alike(lit, begun)
  <2> DEFINE t == CtcTick(lit)
             p == CtcPulse(t, 1)
  <2>1. SoundCtc(t) /\ Alike(lit, t)
    BY <1>1, SoundCtcTick
  <2>2. begun = IF t.channels[0].zcPulse THEN p ELSE t
    BY DEF begin_cycle_inner
  <2> HIDE DEF t
  <2>3. SoundCtc(p) /\ Alike(t, p)
    BY <1>0, <2>1, SoundCtcPulse
  <2> HIDE DEF p
  <2>4. Alike(lit, p)
    BY <2>1, <2>3 DEF Alike
  <2> QED BY <2>1, <2>2, <2>3, <2>4
<1>3. Alike(ctc, begun)
  BY <1>1, <1>2 DEF Alike
<1> QED BY <1>2, <1>3

(* What the program leaves of it: it writes in the last cycle of an OUT.     *)
LEMMA WrittenCtc ==
  ASSUME SoundCtc(ctc), NEW begun, SoundCtc(begun), Alike(ctc, begun),
         NEW written \in PortEffects(begun)
  PROVE  SoundCtc(written) /\ (cpu.at # "Execute" => written = begun)
<1>1. CASE written = begun
  BY <1>1
<1>2. CASE WritesPort(cpu)
  <2>1. PICK w \in ProgramWrites : written = CtcWrite(begun, w[1], w[2])
    BY <1>2 DEF PortEffects
  <2>2. /\ w \in PortWrites
        /\ ctc.channels[w[1]].waitingForTc => w[2] <= MaxBoardConstant
    BY DEF ProgramWrites
  <2>3. w[1] \in Channels /\ w[2] \in 0..255 /\ MaxBoardConstant \in 0..TcRange
    BY <2>2, BoardAssumption DEF BoardAssumption
  <2>4. begun.channels[w[1]].waitingForTc => w[2] <= TcRange
    BY <2>2, <2>3, CtcAssumption DEF Alike
  <2>5. SoundCtc(written)
    BY <2>1, <2>3, <2>4, SoundCtcWrite
  <2> QED BY <1>2, <2>5 DEF WritesPort
<1> QED BY <1>1, <1>2 DEF PortEffects

-----------------------------------------------------------------------------
(* A handler that has let interrupts in again is on its last two             *)
(* instructions, EI and RETI.                                                *)
Leaving(c) == \/ c.at = "Fetch" /\ c.op = "ei" /\ c.eiDelay /\ ~ c.prefixPending
              \/ c.at = "FetchRead" /\ c.op = "ei"
              \/ c.at = "Execute" /\ c.op = "retn"

(* The CPU c, in d handlers, on a board that no reset or reload has torn.    *)
Undisturbed(c, d) ==
  /\ c.at \in {"Im2", "Im01"} =>
       /\ ~ c.halted
       /\ d = 1 <=> c.at = "Im2" /\ c.cyc > 12
       /\ c.cyc > 0 => ~ c.iff1
  /\ d = 1 => /\ ~ c.halted /\ (c.at = "Execute" => c.op # "halt")
              /\ c.at \in {"FetchRead", "Execute"} => ~ c.prefixPending
              /\ c.iff1 => Leaving(c)

CpuPart == /\ cpu \in CpuType /\ InResponse(cpu) /\ cpu.at # "Nmi" /\ depth \in {0, 1}
           /\ ~ torn => Undisturbed(cpu, depth)

(* The vector latched by the poll that answered belongs to a channel owed,   *)
(* until the CPU reads it.                                                   *)
LatchPart ==
  ~ torn /\ cpu.at = "Im2" /\ cpu.cyc <= 12 =>
    \E c \in Channels : c \in owed /\ vectorLatch = ctc.vectorBase + 2 * c

DataPart == /\ SoundCtc(ctc) /\ vectorLatch \in 0..255 /\ clock \in 0..(CyclesPerFrame - 1)
            /\ owed \subseteq Channels /\ phantom = FALSE
            /\ resetDue \in BOOLEAN /\ torn \in BOOLEAN

BoardInv == CpuPart /\ LatchPart /\ DataPart

(* A frame has cycles.                                                       *)
LEMMA FramePositive == CyclesPerFrame \in Nat \ {0}
<1>1. CyclesPerScanline \in Nat \ {0} /\ PairsPerField \in Nat \ {0}
  BY BoardAssumption DEF BoardAssumption
<1>2. 2 * PairsPerField \in Nat \ {0}
  BY <1>1
<1> QED BY <1>1, <1>2 DEF CyclesPerFrame

(* The invariant holds at power-on,                                          *)
LEMMA BoardBegin == Init => BoardInv
<1> SUFFICES ASSUME Init PROVE BoardInv
  OBVIOUS
<1>1. /\ cpu = PowerOnCpu /\ ctc = PowerOnCtc
      /\ vectorLatch = 0 /\ clock = 0
      /\ depth = 0 /\ owed = {} /\ phantom = FALSE /\ resetDue = TRUE /\ torn = FALSE
  BY DEF Init
<1>2. cpu \in CpuType /\ InResponse(cpu) /\ cpu.at = "Fetch"
  BY <1>1 DEF PowerOnCpu, CpuType, OpKinds, InResponse, Responses
<1>3. CpuPart
  BY <1>1, <1>2 DEF CpuPart, Undisturbed
<1>4. SoundCtc(PowerOnCtc)
  <2>1. Sound(PowerOnChannel)
    BY CtcAssumption DEF PowerOnChannel, Sound, ChannelType
  <2>2. PowerOnChannel \in ChannelType
    BY <2>1 DEF Sound
  <2>3. PowerOnCtc \in CtcRecords
    BY <2>2 DEF PowerOnCtc, CtcRecords
  <2>4. \A c \in Channels : PowerOnCtc.channels[c] = PowerOnChannel
    BY DEF PowerOnCtc
  <2> QED BY <2>1, <2>3, <2>4 DEF SoundCtc
<1>5. DataPart
  <2>1. clock \in 0..(CyclesPerFrame - 1)
    <3>1. 0 \in 0..(CyclesPerFrame - 1)
      BY FramePositive
    <3> QED BY <1>1, <3>1
  <2>2. SoundCtc(ctc)
    BY <1>1, <1>4
  <2>3. vectorLatch \in 0..255
    BY <1>1
  <2>4. owed \subseteq Channels /\ phantom = FALSE /\ resetDue \in BOOLEAN /\ torn \in BOOLEAN
    BY <1>1, Zenon
  <2> QED BY <2>1, <2>2, <2>3, <2>4 DEF DataPart
<1>6. LatchPart
  BY <1>2 DEF LatchPart
<1> QED BY <1>3, <1>5, <1>6 DEF BoardInv

NextDepth == IF EntersHandler(cpu) THEN depth + 1
             ELSE IF Returns(cpu) /\ InHandler THEN depth - 1 ELSE depth

(* The CPU and the handlers through a cycle.                                 *)
LEMMA CycleKeepsCpu ==
  ASSUME CpuPart, ~ torn, NEW lines \in Levels, ~ lines.nmi,
         NEW d \in execute_cycle(cpu, lines, NextOpcodes), NEW m, m = NextDepth
  PROVE  /\ d \in CpuType /\ InResponse(d) /\ d.at # "Nmi" /\ m \in {0, 1}
         /\ Undisturbed(d, m)
         /\ d.at = "Im2" => \/ cpu.at = "Im2" /\ d.cyc = cpu.cyc + 1
                            \/ cpu.at = "Fetch" /\ Polls(cpu) /\ lines.irq
<1> DEFINE c == cpu
           irq2 == lines.irq
<1>m. m = IF EntersHandler(cpu) THEN depth + 1
          ELSE IF Returns(cpu) /\ InHandler THEN depth - 1 ELSE depth
  BY DEF NextDepth
<1>0. /\ c \in CpuType /\ InResponse(c) /\ c.at # "Nmi" /\ depth \in {0, 1}
      /\ Undisturbed(c, depth) /\ c.at \in Places /\ lines \in Levels
      /\ c.cyc \in 0..17 /\ c.iff1 \in BOOLEAN /\ ~ lines.nmi /\ lines.irq \in BOOLEAN
      /\ c.prefixPending \in BOOLEAN /\ c.eiDelay \in BOOLEAN /\ c.op \in OpKinds
      /\ NextOpcodes \subseteq OpKinds
  BY BoardAssumption DEF CpuPart, CpuType, Places, Levels, NextOpcodes, BoardAssumption
<1>1. CASE c.at = "Fetch"
  <2>1. d = Fetch(c, lines)
    BY <1>1 DEF execute_cycle
  <2>2. m = depth
    BY <1>m, <1>1 DEF EntersHandler, ReadsVector, Returns
  <2>3. /\ d \in CpuType /\ d.cyc = 0 /\ d.op = c.op /\ d.iff1 = c.iff1
        /\ \/ /\ d.at = "FetchRead" /\ d.halted = c.halted
              /\ ~ c.halted => ~ d.prefixPending
           \/ /\ d.at \in {"Im01", "Im2"} /\ ~ d.halted
              /\ ~ c.prefixPending /\ ~ c.eiDelay /\ irq2 /\ c.iff1
    BY <1>0, <2>1, FetchFacts
  <2>4. InResponse(d)
    BY <2>3 DEF InResponse, LastResponseCycle, Responses
  <2>5. d.at = "Im2" => Polls(cpu) /\ irq2
    BY <1>1, <2>3 DEF Polls, AtInstructionBoundary
  <2>6. Undisturbed(d, m)
    BY <1>0, <1>1, <2>2, <2>3 DEF Undisturbed, Leaving
  <2> QED BY <1>0, <1>1, <2>2, <2>3, <2>4, <2>5, <2>6
<1>2. CASE c.at = "FetchRead"
  <2>1. PICK op \in NextOpcodes : d = FetchRead(c, op)
    BY <1>2 DEF execute_cycle
  <2>2. m = depth
    BY <1>m, <1>2 DEF EntersHandler, ReadsVector, Returns
  <2>3. /\ d \in CpuType /\ d.at = "Execute" /\ d.cyc = 0 /\ d.iff1 = c.iff1
        /\ d.op = (IF RereadsHalt(c) THEN c.op ELSE op)
        /\ d.halted = c.halted /\ d.prefixPending = c.prefixPending
    BY <1>0, <2>1, ReadFacts
  <2>4. depth = 1 => op # "halt" /\ (c.op = "ei" => op = "retn")
    BY <1>0 DEF NextOpcodes, InHandler
  <2>5. InResponse(d)
    BY <2>3 DEF InResponse, Responses
  <2>6. Undisturbed(d, m)
    BY <1>0, <1>2, <2>2, <2>3, <2>4 DEF Undisturbed, Leaving, RereadsHalt
  <2> QED BY <1>0, <2>2, <2>3, <2>5, <2>6
<1>3. CASE c.at = "Execute"
  <2>1. d \in Execute(c)
    BY <1>3 DEF execute_cycle
  <2>2. ~ EntersHandler(cpu)
    BY <1>3 DEF EntersHandler, ReadsVector
  <2>3. CASE d = Finish(c) /\ (c.op = "retn" => c.cyc = 11)
    <3>1. /\ d \in CpuType /\ d.at = "Fetch" /\ d.cyc = 0 /\ d.op = c.op
          /\ c.op = "ei" => d.eiDelay
          /\ c.op = "di" => ~ d.iff1
          /\ c.op \notin {"ei", "di"} => d.iff1 = c.iff1
          /\ c.op # "halt" => d.halted = c.halted
          /\ c.op # "prefix" => d.prefixPending = c.prefixPending
      BY <1>0, <2>3, FinishFacts
    <3>2. m = IF c.op = "retn" THEN 0 ELSE depth
      BY <1>m, <1>0, <1>3, <2>2, <2>3 DEF Returns, InHandler
    <3>3. InResponse(d)
      BY <3>1 DEF InResponse, Responses
    <3>4. Undisturbed(d, m)
      BY <1>0, <1>3, <3>1, <3>2 DEF Undisturbed, Leaving
    <3> QED BY <1>0, <3>1, <3>2, <3>3, <3>4
  <2>4. CASE /\ d \in CpuType /\ d.at = c.at /\ d.cyc = c.cyc + 1 /\ d.op = c.op
             /\ c.op = "retn" => c.cyc < 11
             /\ c.op # "retn" => d.iff1 = c.iff1
             /\ d.halted = c.halted /\ d.prefixPending = c.prefixPending
    <3>1. m = depth
      BY <1>m, <1>0, <2>2, <2>4 DEF Returns
    <3>2. InResponse(d)
      BY <1>3, <2>4 DEF InResponse, Responses
    <3>3. Undisturbed(d, m)
      BY <1>0, <1>3, <2>4, <3>1 DEF Undisturbed, Leaving
    <3> QED BY <1>0, <1>3, <2>4, <3>1, <3>2, <3>3
  <2> QED BY <1>0, <2>1, <2>3, <2>4, ExecuteFacts
<1>4. CASE c.at \in {"Im01", "Im2"}
  <2>1. d = Respond(c)
    BY <1>4 DEF execute_cycle
  <2>2. /\ d \in CpuType /\ InResponse(d) /\ d.op = c.op /\ d.halted = c.halted
        /\ c.cyc = LastResponseCycle(c.at) => d.at = "Fetch" /\ d.cyc = 0
        /\ c.cyc # LastResponseCycle(c.at) => d.at = c.at /\ d.cyc = c.cyc + 1
        /\ c.cyc = 0 => ~ d.iff1
        /\ c.cyc # 0 => d.iff1 = c.iff1
    BY <1>0, <1>4, <2>1, RespondFacts DEF Responses
  <2>3. LastResponseCycle("Im01") = 11 /\ LastResponseCycle("Im2") = 17
    BY DEF LastResponseCycle
  <2>4. ~ Returns(cpu)
    BY <1>4 DEF Returns
  <2>5. ~ d.iff1 /\ ~ d.halted
    BY <1>0, <1>4, <2>2 DEF Undisturbed
  <2>6. CASE c.at = "Im01"
    <3>1. depth = 0 /\ m = IF c.cyc = 11 THEN 1 ELSE 0
      BY <1>m, <1>0, <2>4, <2>6 DEF EntersHandler, ReadsVector, Undisturbed
    <3>2. Undisturbed(d, m)
      BY <1>0, <2>2, <2>3, <2>5, <2>6, <3>1 DEF Undisturbed
    <3> QED BY <2>2, <2>6, <3>1, <3>2
  <2>7. CASE c.at = "Im2"
    <3>1. m = IF c.cyc >= 12 THEN 1 ELSE 0
      BY <1>m, <1>0, <2>4, <2>7 DEF EntersHandler, ReadsVector, Undisturbed
    <3>2. Undisturbed(d, m)
      BY <1>0, <2>2, <2>3, <2>5, <2>7, <3>1 DEF Undisturbed
    <3> QED BY <2>2, <2>7, <3>1, <3>2
  <2> QED BY <1>4, <2>6, <2>7
<1> QED BY <1>0, <1>1, <1>2, <1>3, <1>4 DEF Places

(* through a cycle of the board,                                             *)
LEMMA CycleKeeps ==
  ASSUME BoardInv, Cycle
  PROVE  BoardInv'
<1>0. ~ torn /\ CpuPart /\ LatchPart /\ DataPart /\ SoundCtc(ctc)
  BY DEF BoardInv, DataPart, Cycle
<1>1. PICK lit \in {begin_scanline(ctc)} : \E begun \in {begin_cycle_inner(lit)} :
       \E written \in PortEffects(begun) :
         /\ cpu' \in execute_cycle(cpu, Lines(begun), NextOpcodes)
         /\ ctc' = IF AckNeeded(begun) THEN acknowledge_interrupt(written) ELSE written
         /\ vectorLatch' = LatchedVector(begun)
         /\ owed' = (owed \cup Pending(begun)) \
                     ((IF ReadsVector(cpu) THEN Serves(LatchedVector(begun)) ELSE {})
                        \cup (Pending(begun) \ Pending(written)))
         /\ phantom' = (/\ ReadsVector(cpu)
                        /\ (IF ReadsVector(cpu) THEN Serves(LatchedVector(begun)) ELSE {})
                             \cap (owed \cup Pending(begun)) = {})
  BY DEF Cycle
<1>2. PICK begun \in {begin_cycle_inner(lit)} : \E written \in PortEffects(begun) :
         /\ cpu' \in execute_cycle(cpu, Lines(begun), NextOpcodes)
         /\ ctc' = IF AckNeeded(begun) THEN acknowledge_interrupt(written) ELSE written
         /\ vectorLatch' = LatchedVector(begun)
         /\ owed' = (owed \cup Pending(begun)) \
                     ((IF ReadsVector(cpu) THEN Serves(LatchedVector(begun)) ELSE {})
                        \cup (Pending(begun) \ Pending(written)))
         /\ phantom' = (/\ ReadsVector(cpu)
                        /\ (IF ReadsVector(cpu) THEN Serves(LatchedVector(begun)) ELSE {})
                             \cap (owed \cup Pending(begun)) = {})
  BY <1>1
<1>3. PICK written \in PortEffects(begun) :
         /\ cpu' \in execute_cycle(cpu, Lines(begun), NextOpcodes)
         /\ ctc' = IF AckNeeded(begun) THEN acknowledge_interrupt(written) ELSE written
         /\ vectorLatch' = LatchedVector(begun)
         /\ owed' = (owed \cup Pending(begun)) \
                     ((IF ReadsVector(cpu) THEN Serves(LatchedVector(begun)) ELSE {})
                        \cup (Pending(begun) \ Pending(written)))
         /\ phantom' = (/\ ReadsVector(cpu)
                        /\ (IF ReadsVector(cpu) THEN Serves(LatchedVector(begun)) ELSE {})
                             \cap (owed \cup Pending(begun)) = {})
  BY <1>2
<1>4. /\ clock' = (clock + 1) % CyclesPerFrame
      /\ depth' = IF EntersHandler(cpu) THEN depth + 1
                  ELSE IF Returns(cpu) /\ InHandler THEN depth - 1 ELSE depth
      /\ resetDue' = (resetDue /\ cpu.at # "FetchRead")
      /\ torn' = torn
  BY DEF Cycle
<1>5. SoundCtc(begun) /\ Alike(ctc, begun)
  BY <1>0, BegunCtc
<1>6. SoundCtc(written) /\ (cpu.at # "Execute" => written = begun)
  BY <1>0, <1>3, <1>5, WrittenCtc
<1>7. SoundCtc(ctc') /\ ctc'.vectorBase = written.vectorBase
  <2>1. SoundCtc(acknowledge_interrupt(written))
        /\ acknowledge_interrupt(written).vectorBase = written.vectorBase
    BY <1>6, SoundAcknowledge
  <2> QED BY <1>3, <1>6, <2>1
<1>8. interrupt_pending(begun) \in BOOLEAN
  BY DEF interrupt_pending
<1>9. /\ cpu' \in CpuType /\ InResponse(cpu') /\ cpu'.at # "Nmi" /\ depth' \in {0, 1}
      /\ Undisturbed(cpu', depth')
      /\ cpu'.at = "Im2" => \/ cpu.at = "Im2" /\ cpu'.cyc = cpu.cyc + 1
                            \/ cpu.at = "Fetch" /\ Polls(cpu) /\ interrupt_pending(begun)
  <2>1. Lines(begun) = [nmi |-> FALSE, irq |-> interrupt_pending(begun)]
    BY DEF Lines
  <2> DEFINE p == interrupt_pending(begun)
             l == Lines(begun)
             d == cpu'
             m == depth'
  <2>2. /\ l \in Levels /\ ~ l.nmi /\ l.irq = p
        /\ d \in execute_cycle(cpu, l, NextOpcodes) /\ m = NextDepth
    BY <1>3, <1>4, <1>8, <2>1 DEF Levels, NextDepth
  <2> HIDE DEF p, l, d, m
  <2>3. /\ d \in CpuType /\ InResponse(d) /\ d.at # "Nmi" /\ m \in {0, 1}
        /\ Undisturbed(d, m)
        /\ d.at = "Im2" => \/ cpu.at = "Im2" /\ d.cyc = cpu.cyc + 1
                           \/ cpu.at = "Fetch" /\ Polls(cpu) /\ p
    BY <1>0, <2>2, CycleKeepsCpu
  <2> QED BY <2>3 DEF p, d, m
<1>10. CpuPart'
  BY <1>9 DEF CpuPart
<1> DEFINE base == ctc.vectorBase
<1>11. begun.vectorBase = base /\ base \in 0..248
  BY <1>0, <1>5 DEF Alike, SoundCtc, CtcRecords
<1>12. AckNeeded(begun) => \E c \in Channels : c \in Pending(begun)
                              /\ LatchedVector(begun) = base + 2 * c
  <2> SUFFICES ASSUME AckNeeded(begun)
               PROVE  \E c \in Channels : c \in Pending(begun) /\ LatchedVector(begun) = base + 2 * c
    OBVIOUS
  <2>1. interrupt_pending(begun)
    BY DEF AckNeeded
  <2>2. Highest(begun) \in Pending(begun) /\ Highest(begun) \in Channels
    BY <2>1, HighestAsks
  <2>3. LatchedVector(begun) = base + 2 * Highest(begun)
    BY <1>11, <2>1 DEF LatchedVector, interrupt_vector
  <2> QED BY <2>2, <2>3
<1>13. ~ AckNeeded(begun) => LatchedVector(begun) = vectorLatch
  BY DEF LatchedVector
<1>14. Pending(begun) \subseteq Channels /\ owed \subseteq Channels
  BY <1>0 DEF Pending, DataPart
<1>15. LatchedVector(begun) \in 0..255
  <2>1. CASE AckNeeded(begun)
    <3>1. PICK c \in Channels : LatchedVector(begun) = base + 2 * c
      BY <1>12, <2>1
    <3> QED BY <1>11, <3>1 DEF Channels
  <2>2. CASE ~ AckNeeded(begun)
    BY <1>0, <1>13, <2>2 DEF DataPart
  <2> QED BY <2>1, <2>2
<1>16. ReadsVector(cpu) => \E c \in Channels : /\ c \in owed \cup Pending(begun)
                                              /\ LatchedVector(begun) = base + 2 * c
  <2>1. CASE AckNeeded(begun)
    BY <1>12, <2>1
  <2>2. CASE ~ AckNeeded(begun)
    BY <1>0, <1>13, <2>2 DEF LatchPart, ReadsVector
  <2> QED BY <2>1, <2>2
<1>17. phantom' = FALSE
  <2>1. CASE ReadsVector(cpu)
    <3>1. PICK c \in Channels : c \in owed \cup Pending(begun) /\ LatchedVector(begun) = base + 2 * c
      BY <1>16, <2>1
    <3>2. c \in Serves(LatchedVector(begun))
      BY <3>1 DEF Serves
    <3> QED BY <1>3, <2>1, <3>1, <3>2
  <2>2. CASE ~ ReadsVector(cpu)
    BY <1>3, <2>2
  <2> QED BY <2>1, <2>2
<1>18. DataPart'
  <2>1. clock' \in 0..(CyclesPerFrame - 1)
    <3>1. clock + 1 \in Int
      BY <1>0, FramePositive DEF DataPart
    <3> QED BY <1>4, <3>1, FramePositive, DivMod
  <2>2. owed' \subseteq Channels
    BY <1>3, <1>14
  <2>3. resetDue' \in BOOLEAN /\ torn' \in BOOLEAN
    BY <1>0, <1>4 DEF DataPart
  <2>4. vectorLatch' \in 0..255
    BY <1>3, <1>15
  <2> QED BY <1>7, <1>17, <2>1, <2>2, <2>3, <2>4 DEF DataPart
<1>19. LatchPart'
  <2> SUFFICES ASSUME cpu'.at = "Im2", cpu'.cyc <= 12
               PROVE  \E c \in Channels : c \in owed' /\ vectorLatch' = ctc'.vectorBase + 2 * c
    BY DEF LatchPart
  <2>1. cpu.cyc \in 0..17
    BY <1>0 DEF CpuPart, CpuType
  <2>2. cpu.at # "Execute" /\ ~ ReadsVector(cpu)
    BY <1>9, <2>1 DEF ReadsVector
  <2>3. ctc'.vectorBase = base /\ owed' = owed \cup Pending(begun)
    BY <1>3, <1>6, <1>7, <1>11, <2>2
  <2>4. CASE cpu.at = "Im2" /\ cpu'.cyc = cpu.cyc + 1
    <3>1. ~ AckNeeded(begun)
      BY <2>2, <2>4 DEF AckNeeded, Polled, Polls, AtInstructionBoundary
    <3>2. PICK c \in Channels : c \in owed /\ vectorLatch = base + 2 * c
      BY <1>0, <2>1, <2>4 DEF LatchPart
    <3> QED BY <1>3, <1>13, <2>3, <3>1, <3>2
  <2>5. CASE cpu.at = "Fetch" /\ Polls(cpu) /\ interrupt_pending(begun)
    <3>1. AckNeeded(begun)
      BY <2>5 DEF AckNeeded, Polled
    <3> QED BY <1>3, <1>12, <2>3, <3>1
  <2> QED BY <1>9, <2>4, <2>5
<1> QED BY <1>10, <1>18, <1>19 DEF BoardInv

(* a reset,                                                                  *)
LEMMA ResetKeeps ==
  ASSUME BoardInv, Reset
  PROVE  BoardInv'
<1>1. /\ cpu' = [cpu EXCEPT !.pc = "start", !.im = 0]
      /\ ctc' = PowerOnCtc
      /\ vectorLatch' = 0 /\ depth' = 0 /\ owed' = {} /\ phantom' = FALSE /\ resetDue' = TRUE
      /\ torn' = (torn \/ ~ AtInstructionBoundary(cpu) \/ cpu.halted) /\ clock' = clock
  BY DEF Reset, ResetCpu
<1>2. cpu \in CpuType /\ InResponse(cpu) /\ cpu.at # "Nmi" /\ torn \in BOOLEAN
      /\ clock \in 0..(CyclesPerFrame - 1)
  BY DEF BoardInv, CpuPart, DataPart
<1>3. cpu' \in CpuType /\ cpu'.at = cpu.at /\ cpu'.cyc = cpu.cyc
  <2> DEFINE e == [cpu EXCEPT !.pc = "start"]
  <2>1. e \in CpuType
    BY <1>2, PcUpdate
  <2>2. cpu' = [e EXCEPT !.im = 0]
    BY <1>1, <1>2 DEF CpuType
  <2>3. cpu'.at = cpu.at /\ cpu'.cyc = cpu.cyc
    BY <1>1, <1>2 DEF CpuType
  <2> HIDE DEF e
  <2>4. cpu' \in CpuType
    BY <2>1, <2>2 DEF CpuType
  <2> QED BY <2>3, <2>4
<1>4. InResponse(cpu')
  BY <1>2, <1>3 DEF InResponse
<1>5. ~ torn' => cpu'.at = "Fetch"
  BY <1>1, <1>3 DEF AtInstructionBoundary
<1>6. CpuPart'
  BY <1>1, <1>2, <1>3, <1>4, <1>5 DEF CpuPart, Undisturbed
<1>7. LatchPart'
  BY <1>5 DEF LatchPart
<1>8. SoundCtc(PowerOnCtc)
  <2>1. Sound(PowerOnChannel)
    BY CtcAssumption DEF PowerOnChannel, Sound, ChannelType
  <2>2. PowerOnChannel \in ChannelType
    BY <2>1 DEF Sound
  <2>3. PowerOnCtc \in CtcRecords
    BY <2>2 DEF PowerOnCtc, CtcRecords
  <2>4. \A c \in Channels : PowerOnCtc.channels[c] = PowerOnChannel
    BY DEF PowerOnCtc
  <2> QED BY <2>1, <2>3, <2>4 DEF SoundCtc
<1>9. DataPart'
  <2>1. SoundCtc(ctc') /\ torn' \in BOOLEAN
    BY <1>1, <1>2, <1>8
  <2> QED BY <1>1, <1>2, <2>1 DEF DataPart
<1> QED BY <1>6, <1>7, <1>9 DEF BoardInv

(* and a save state loaded over it,                                          *)
LEMMA ReloadKeeps ==
  ASSUME BoardInv, Reload
  PROVE  BoardInv'
<1>1. /\ cpu' = [cpu EXCEPT !.at = "Fetch", !.cyc = 0, !.prefixPending = FALSE]
      /\ vectorLatch' = 0 /\ torn' = (torn \/ ~ AtInstructionBoundary(cpu))
      /\ ctc' = ctc /\ clock' = clock /\ depth' = depth /\ owed' = owed
      /\ phantom' = phantom /\ resetDue' = resetDue
  BY DEF Reload, SavedAndLoaded
<1>2. cpu \in CpuType /\ torn \in BOOLEAN /\ depth \in {0, 1}
  BY DEF BoardInv, CpuPart, DataPart
<1> DEFINE g == Goto(cpu, "Fetch")
           d == cpu'
<1>3. /\ g \in CpuType /\ g.at = "Fetch" /\ g.op = cpu.op /\ g.iff1 = cpu.iff1
      /\ g.halted = cpu.halted /\ g.eiDelay = cpu.eiDelay
  BY <1>2, GotoFacts DEF Places
<1>4. d = [g EXCEPT !.prefixPending = FALSE]
  BY <1>1, <1>2 DEF Goto, CpuType
<1> HIDE DEF g, d
<1>5. d \in CpuType
  BY <1>3, <1>4, FlagUpdates
<1>6. /\ d.at = "Fetch" /\ d.op = cpu.op /\ d.iff1 = cpu.iff1
      /\ d.halted = cpu.halted /\ d.eiDelay = cpu.eiDelay /\ ~ d.prefixPending
  BY <1>3, <1>4 DEF CpuType
<1>7. InResponse(d)
  BY <1>6 DEF InResponse, Responses
<1>8. ~ torn' => Undisturbed(d, depth)
  <2>1. ~ torn' => ~ torn /\ cpu.at = "Fetch"
    BY <1>1 DEF AtInstructionBoundary
  <2> QED BY <1>6, <2>1 DEF BoardInv, CpuPart, Undisturbed, Leaving
<1>9. CpuPart'
  BY <1>1, <1>2, <1>5, <1>6, <1>7, <1>8 DEF CpuPart, d
<1>10. LatchPart'
  BY <1>6 DEF LatchPart, d
<1>11. DataPart'
  <2>1. torn' \in BOOLEAN
    BY <1>1, <1>2
  <2> QED BY <1>1, <2>1 DEF BoardInv, DataPart
<1> QED BY <1>9, <1>10, <1>11 DEF BoardInv

(* so through every step.                                                    *)
LEMMA BoardStep == BoardInv /\ [Next]_vars => BoardInv'
<1> SUFFICES ASSUME BoardInv, [Next]_vars PROVE BoardInv'
  OBVIOUS
<1>1. CASE UNCHANGED vars
  BY <1>1 DEF vars, board, history, BoardInv, CpuPart, LatchPart, DataPart
<1> QED BY <1>1, CycleKeeps, ResetKeeps, ReloadKeeps DEF Next

(* What the board may rely on: sound timers, and a CPU whose requests were   *)
(* asked for by them.                                                        *)
THEOREM BoardInvariant == Spec => []BoardInv
BY BoardBegin, BoardStep, PTL DEF Spec

(* Every variable of the board stays in its type: whatever the program       *)
(* writes, the beam and the cascade trigger, no counter of the CTC runs      *)
(* below zero, and no vector leaves the page.                                *)
THEOREM BoardTyped == Spec => []TypeOK
<1>1. BoardInv => TypeOK
  <2> SUFFICES ASSUME BoardInv PROVE TypeOK
    OBVIOUS
  <2>1. ctc \in CtcRecords
    BY DEF BoardInv, DataPart, SoundCtc
  <2>2. ctc.vectorBase \in 0..255 /\ ctc.channels \in [Channels -> ChannelType]
    BY <2>1 DEF CtcRecords
  <2>3. /\ cpu \in CpuType /\ depth \in 0..3 /\ vectorLatch \in 0..255
        /\ clock \in 0..(CyclesPerFrame - 1)
    BY DEF BoardInv, CpuPart, DataPart
  <2>4. owed \subseteq Channels /\ phantom \in BOOLEAN /\ resetDue \in BOOLEAN /\ torn \in BOOLEAN
    BY DEF BoardInv, DataPart
  <2> QED BY <2>2, <2>3, <2>4 DEF TypeOK
<1> QED BY <1>1, BoardInvariant, PTL

(* A handler runs only for a channel that has asked for it.                  *)
THEOREM NoHandlerUnasked == Spec => []NoPhantomService
<1>1. BoardInv => NoPhantomService
  BY DEF BoardInv, DataPart, NoPhantomService
<1> QED BY <1>1, BoardInvariant, PTL

(* A handler that ends in EI; RETI is not entered again before it returns.   *)
THEOREM StackDoesNotGrow == Spec => []HandlersDoNotNest
<1>1. BoardInv => HandlersDoNotNest
  BY DEF BoardInv, CpuPart, HandlersDoNotNest
<1> QED BY <1>1, BoardInvariant, PTL
=============================================================================
