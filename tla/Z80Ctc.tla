------------------------------- MODULE Z80Ctc -------------------------------
(* core/src/device/z80ctc.rs: the four-channel counter/timer, as operators   *)
(* on one channel and on the record [vectorBase, channels].  A byte is a     *)
(* natural number and a bit of it is tested as in the code.  The divisors    *)
(* and the value of a zero time constant are parameters so that TLC can      *)
(* count to them; the code has 16, 256 and 256.                              *)
EXTENDS Integers

CONSTANTS Prescale16, Prescale256, TcRange

Channels == 0..3

CONTROL_WORD == 1
RESET == 2
TC_FOLLOWS == 4
CLK_TRIGGER == 8
EDGE_RISING == 16
PRESCALER_256 == 32
COUNTER_MODE == 64
INTERRUPT_EN == 128

Has(byte, mask) == (byte \div mask) % 2 = 1

PowerOnChannel ==
  [control |-> 0, timeConstant |-> 0, down |-> 0, prescaler |-> 0,
   waitingForTc |-> FALSE, running |-> FALSE, waitingForTrigger |-> FALSE,
   triggerState |-> FALSE, zcPulse |-> FALSE, pending |-> FALSE]

PowerOnCtc == [vectorBase |-> 0, channels |-> [c \in Channels |-> PowerOnChannel]]

PrescalerOf(ch) == IF Has(ch.control, PRESCALER_256) THEN Prescale256 ELSE Prescale16

(* One count: at zero the counter reloads, pulses and may ask to interrupt.  *)
CountPastZero(ch) ==
  IF ch.down = 0
    THEN [ch EXCEPT !.down = ch.timeConstant, !.zcPulse = TRUE,
                    !.pending = @ \/ Has(ch.control, INTERRUPT_EN)]
    ELSE [ch EXCEPT !.down = @ - 1]
Count(ch) ==
  IF ch.down = 1
    THEN [ch EXCEPT !.down = ch.timeConstant, !.zcPulse = TRUE,
                    !.pending = @ \/ Has(ch.control, INTERRUPT_EN)]
    ELSE [ch EXCEPT !.down = @ - 1]

TickChannel(channel) ==
  LET ch == [channel EXCEPT !.zcPulse = FALSE]
  IN IF Has(ch.control, COUNTER_MODE) \/ ~ch.running THEN ch
     ELSE IF ch.prescaler # 1 THEN [ch EXCEPT !.prescaler = @ - 1]
     ELSE Count([ch EXCEPT !.prescaler = PrescalerOf(ch)])

TriggerChannel(channel, level) ==
  LET ch == [channel EXCEPT !.triggerState = level]
      edge == IF Has(ch.control, EDGE_RISING) THEN ~channel.triggerState /\ level
                                              ELSE channel.triggerState /\ ~level
      counts == Has(ch.control, COUNTER_MODE)
  IN IF edge /\ counts /\ ~ch.waitingForTc /\ ch.down # 0 THEN Count(ch)
     ELSE IF edge /\ ~counts /\ ch.waitingForTrigger
       THEN [ch EXCEPT !.waitingForTrigger = FALSE, !.running = TRUE,
                       !.prescaler = PrescalerOf(ch)]
     ELSE ch

write_control(ch, data) ==
  LET toCounter == Has(data, COUNTER_MODE) /\ ~Has(ch.control, COUNTER_MODE)
      reset == Has(data, RESET)
  IN [ch EXCEPT !.control = data,
                !.running = @ /\ ~reset /\ ~toCounter,
                !.waitingForTrigger = @ /\ ~reset,
                !.zcPulse = @ /\ ~reset,
                !.pending = @ /\ Has(data, INTERRUPT_EN),
                !.waitingForTc = @ \/ Has(data, TC_FOLLOWS)]

load_time_constant_unranged(ch, data) ==
  LET timer == ~Has(ch.control, COUNTER_MODE)
      waits == timer /\ Has(ch.control, CLK_TRIGGER)
  IN [ch EXCEPT !.timeConstant = data, !.down = data, !.waitingForTc = FALSE,
                !.control = IF Has(@, RESET) THEN @ - RESET ELSE @,
                !.running = timer /\ ~waits, !.waitingForTrigger = waits,
                !.prescaler = IF timer /\ ~waits THEN PrescalerOf(ch) ELSE @]
load_time_constant(ch, data) ==
  LET tc == IF data = 0 THEN TcRange ELSE data
      timer == ~Has(ch.control, COUNTER_MODE)
      waits == timer /\ Has(ch.control, CLK_TRIGGER)
  IN [ch EXCEPT !.timeConstant = tc, !.down = tc, !.waitingForTc = FALSE,
                !.control = IF Has(@, RESET) THEN @ - RESET ELSE @,
                !.running = timer /\ ~waits,
                !.waitingForTrigger = waits,
                !.prescaler = IF timer /\ ~waits THEN PrescalerOf(ch) ELSE @]

(* write: a byte is a time constant, a control word or the vector base.      *)
CtcWrite(ctc, c, data) ==
  LET ch == ctc.channels[c]
  IN IF ch.waitingForTc THEN [ctc EXCEPT !.channels[c] = load_time_constant(ch, data)]
     ELSE IF Has(data, CONTROL_WORD) THEN [ctc EXCEPT !.channels[c] = write_control(ch, data)]
     ELSE IF c = 0 THEN [ctc EXCEPT !.vectorBase = data - (data % 8)]
     ELSE ctc

CtcTick(ctc) == [ctc EXCEPT !.channels = [c \in Channels |-> TickChannel(ctc.channels[c])]]
CtcTrigger(ctc, c, level) == [ctc EXCEPT !.channels[c] = TriggerChannel(@, level)]

(* How the boards drive a CLK/TRG input: one rising and one falling edge.    *)
CtcPulse(ctc, c) == CtcTrigger(CtcTrigger(ctc, c, TRUE), c, FALSE)

Pending(ctc) == {c \in Channels : ctc.channels[c].pending}
Highest(ctc) == CHOOSE c \in Pending(ctc) : \A d \in Pending(ctc) : c <= d
interrupt_pending(ctc) == Pending(ctc) # {}
interrupt_vector(ctc) ==
  IF interrupt_pending(ctc) THEN ctc.vectorBase + 2 * Highest(ctc) ELSE ctc.vectorBase
acknowledge_interrupt(ctc) ==
  IF interrupt_pending(ctc) THEN [ctc EXCEPT !.channels[Highest(ctc)].pending = FALSE] ELSE ctc

ChannelType ==
  [control : 0..255, timeConstant : 0..TcRange, down : 0..TcRange,
   prescaler : 0..Prescale256, waitingForTc : BOOLEAN, running : BOOLEAN,
   waitingForTrigger : BOOLEAN, triggerState : BOOLEAN, zcPulse : BOOLEAN,
   pending : BOOLEAN]
=============================================================================
