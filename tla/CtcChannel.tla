----------------------------- MODULE CtcChannel -----------------------------
(* One channel of the CTC under everything its board and its program may do: *)
(* clock ticks, levels on its CLK/TRG input, bytes on its port, interrupt    *)
(* acknowledges and resets, in any order.                                    *)
EXTENDS Z80Ctc

CONSTANTS Bytes,             \* what the program writes
          MaxTimeConstant    \* bound: the time constants among them

VARIABLES ch,
          elapsed,   \* ticks or edges counted since the load or the last zero
          steady     \* loaded, and no control word since

channelVars == <<ch, elapsed, steady>>

ASSUME CtcAssumption ==
  /\ Prescale16 \in Nat \ {0} /\ Prescale256 \in Nat /\ Prescale16 <= Prescale256
  /\ TcRange \in Nat \ {0} /\ Bytes \subseteq 0..255 /\ MaxTimeConstant \in 0..TcRange

TimerRuns == ch.running /\ ~Has(ch.control, COUNTER_MODE)
EdgeCounts(level) ==
  /\ Has(ch.control, COUNTER_MODE) /\ ~ch.waitingForTc /\ ch.down # 0
  /\ IF Has(ch.control, EDGE_RISING) THEN ~ch.triggerState /\ level
                                     ELSE ch.triggerState /\ ~level

(* What a channel divides by: a zero count every Period ticks or edges.      *)
Period == IF Has(ch.control, COUNTER_MODE) THEN ch.timeConstant
                                           ELSE ch.timeConstant * PrescalerOf(ch)
NextElapsed == IF elapsed + 1 = Period THEN 0 ELSE elapsed + 1

Tick ==
  /\ ch' = TickChannel(ch)
  /\ elapsed' = IF steady /\ TimerRuns THEN NextElapsed ELSE elapsed
  /\ UNCHANGED steady

Trigger(level) ==
  /\ ch' = TriggerChannel(ch, level)
  /\ elapsed' = IF steady /\ EdgeCounts(level) THEN NextElapsed ELSE elapsed
  /\ UNCHANGED steady

Write(byte) ==
  IF ch.waitingForTc
    THEN /\ byte <= MaxTimeConstant
         /\ ch' = load_time_constant(ch, byte)
         /\ elapsed' = 0 /\ steady' = TRUE
    ELSE /\ Has(byte, CONTROL_WORD)
         /\ ch' = write_control(ch, byte)
         /\ steady' = FALSE
         /\ UNCHANGED elapsed

Acknowledge ==
  /\ ch.pending
  /\ ch' = [ch EXCEPT !.pending = FALSE]
  /\ UNCHANGED <<elapsed, steady>>

ChannelReset == ch' = PowerOnChannel /\ elapsed' = 0 /\ steady' = FALSE

ChannelInit == ch = PowerOnChannel /\ elapsed = 0 /\ steady = FALSE

ChannelNext == \/ Tick
               \/ \E level \in BOOLEAN : Trigger(level)
               \/ \E byte \in Bytes : Write(byte)
               \/ Acknowledge
               \/ ChannelReset

ChannelSpec == ChannelInit /\ [][ChannelNext]_channelVars

-----------------------------------------------------------------------------
(* The channel keeps its type: a u16 counter that ran below zero would not.  *)
ChannelTypeOK == /\ ch \in ChannelType
                 /\ elapsed \in Nat /\ steady \in BOOLEAN

(* Nothing is decremented at zero, in whatever order control words, time     *)
(* constants and edges reach the channel: a running timer has both counters  *)
(* loaded (tick subtracts unguarded), and so has one that an edge may start. *)
CountersLoaded ==
  /\ TimerRuns => ch.prescaler > 0 /\ ch.down > 0 /\ ch.timeConstant > 0
  /\ ch.waitingForTrigger => ch.down > 0 /\ ch.timeConstant > 0
  /\ ch.down > 0 => ch.timeConstant > 0

(* A channel left alone since its time constant was loaded divides exactly:  *)
(* it pulses on every Period-th tick or edge and on no other, whether it     *)
(* started at once or at an edge (tick, trigger, load_time_constant).        *)
DividesExactly ==
  [][steady =>
       /\ TimerRuns /\ Tick => (ch'.zcPulse <=> elapsed' = 0)
       /\ \A level \in BOOLEAN :
            EdgeCounts(level) /\ Trigger(level)
              => (ch'.zcPulse <=> ch.zcPulse \/ elapsed' = 0)]_channelVars
=============================================================================
