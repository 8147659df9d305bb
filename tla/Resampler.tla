----------------------------- MODULE Resampler -----------------------------
(* core/src/audio/mod.rs, AudioResampler: how a sound chip's samples become  *)
(* samples at the host's rate.  Inputs are averaged over windows of the      *)
(* input clock, and each window is offered to a filter that returns an       *)
(* output for every Decimation-th.  Fed one input at a time, or a run of     *)
(* equal ones at once; retuned when the chip's clock is; reset, saved and    *)
(* loaded.  An average is its sum and count: the filter's arithmetic is left *)
(* out, and so is the buffer behind it, which SampleRing models.             *)
EXTENDS Integers, Sequences

CONSTANTS Intermediate,   \* intermediate_rate
          Decimation,     \* DECIMATION
          InputRates,     \* rates the source is clocked at
          Inputs,         \* sample values
          MaxRun,         \* bound: inputs of one tick_repeat
          MaxInputs        \* bound: inputs between two retunes

ASSUME StageAssumption ==
  /\ Intermediate \in Nat \ {0} /\ Decimation \in Nat \ {0} /\ InputRates \subseteq Nat \ {0}
  /\ Inputs \subseteq Nat /\ MaxRun \in Nat /\ MaxInputs \in Nat

VARIABLES stage,      \* [accum, count, phase, taken]: taken is pending in the filter
          input_rate,
          saved_stage,      \* the stage in a save state, or NoSavedStage
          inputs, offered, from    \* inputs and windows since the phase was from

stageVars == <<stage, input_rate, saved_stage, inputs, offered, from>>

NoSavedStage == [accum |-> 0, count |-> 0, phase |-> -1, taken |-> 0]
Fresh == [accum |-> 0, count |-> 0, phase |-> 0, taken |-> 0]

(* A stage and the averages it has offered to the filter on the way.         *)
With(st, out) == [stage |-> st, out |-> out]

(* close_window: the average once for every input period consumed.           *)
close_window_once(r) ==
  With([accum |-> 0, count |-> 0, phase |-> r.stage.phase - input_rate,
        taken |-> (r.stage.taken + 1) % Decimation],
       Append(r.out, <<r.stage.accum, r.stage.count>>))
close_window(r) ==
  LET periods == r.stage.phase \div input_rate
      average == <<r.stage.accum, r.stage.count>>
  IN With([accum |-> 0, count |-> 0, phase |-> r.stage.phase % input_rate,
           taken |-> (r.stage.taken + periods) % Decimation],
          r.out \o [i \in 1..periods |-> average])

Accumulate(st, sample, k) ==
  [st EXCEPT !.accum = @ + (k * sample), !.count = @ + k, !.phase = @ + (k * Intermediate)]
Feed(r, sample, k) ==
  LET fed == With(Accumulate(r.stage, sample, k), r.out)
  IN IF fed.stage.phase < input_rate THEN fed ELSE close_window(fed)

tick_stage(r, sample) == Feed(r, sample, 1)

(* tick_repeat: to the end of the window under way, or of the run.           *)
AtMost(x, n) == IF x <= n THEN x ELSE n
AtLeast(x, n) == IF x >= n THEN x ELSE n
ToWindowEndEvenNow(st, left) ==
  LET short == AtLeast(input_rate - st.phase, 0)
  IN AtMost((short + Intermediate - 1) \div Intermediate, left)
ToWindowEnd(st, left) ==
  LET short == AtLeast(input_rate - st.phase, 0)
  IN AtMost(AtLeast((short + Intermediate - 1) \div Intermediate, 1), left)

tick_repeat(r, sample, n) ==
  LET pass[i \in 0..n] ==
        IF i = 0 THEN [r |-> r, left |-> n]
        ELSE LET p == pass[i - 1]
                 k == ToWindowEnd(p.r.stage, p.left)
             IN IF p.left = 0 THEN p
                ELSE [r |-> Feed(p.r, sample, k), left |-> p.left - k]
  IN pass[n].r

FedInputs(r, n) ==
  /\ stage' = r.stage
  /\ offered' = offered + Len(r.out)
  /\ inputs' = inputs + n
  /\ UNCHANGED <<input_rate, saved_stage, from>>

TickStage(sample) ==
  /\ inputs < MaxInputs
  /\ FedInputs(tick_stage(With(stage, <<>>), sample), 1)
TickRepeat(sample, n) ==
  /\ inputs + n <= MaxInputs
  /\ FedInputs(tick_repeat(With(stage, <<>>), sample, n), n)

CountFrom(st) == inputs' = 0 /\ offered' = 0 /\ from' = st.phase

(* The phase is left as it is, at or past a lowered rate perhaps.            *)
set_input_rate(rate) ==
  /\ input_rate' = rate
  /\ CountFrom(stage)
  /\ UNCHANGED <<stage, saved_stage>>

reset_stage == stage' = Fresh /\ CountFrom(Fresh) /\ UNCHANGED <<input_rate, saved_stage>>

(* A save holds the stage and the filter; the rates stay those of the        *)
(* resampler it is loaded into.                                              *)
SaveStage == saved_stage' = stage /\ UNCHANGED <<stage, input_rate, inputs, offered, from>>
LoadStage ==
  /\ saved_stage # NoSavedStage
  /\ stage' = saved_stage /\ CountFrom(saved_stage)
  /\ UNCHANGED <<input_rate, saved_stage>>

StageInit == /\ stage = Fresh /\ saved_stage = NoSavedStage /\ input_rate \in InputRates
             /\ inputs = 0 /\ offered = 0 /\ from = 0

StageNext == \/ \E sample \in Inputs : \/ TickStage(sample)
                                       \/ \E n \in 1..MaxRun : TickRepeat(sample, n)
             \/ \E rate \in InputRates : set_input_rate(rate)
             \/ reset_stage \/ SaveStage \/ LoadStage

StageSpec == StageInit /\ [][StageNext]_stageVars
-----------------------------------------------------------------------------
(* Every variable stays in its type: the filter never holds a full set.      *)
StageTypeOK ==
  /\ stage \in [accum : Nat, count : Nat, phase : Nat, taken : 0..(Decimation - 1)]
  /\ input_rate \in InputRates
  /\ inputs \in 0..MaxInputs /\ offered \in Nat /\ from \in Nat

(* A run fed at once is "exactly what n calls to tick with sample produce,   *)
(* output for output, including the state left behind": in every state, also *)
(* with a phase left past a rate lowered or loaded under it (tick_repeat).   *)
BatchEqualsTicks ==
  \A sample \in Inputs, n \in 1..MaxRun :
    LET single[i \in 0..n] ==
          IF i = 0 THEN With(stage, <<>>) ELSE tick_stage(single[i - 1], sample)
    IN tick_repeat(With(stage, <<>>), sample, n) = single[n]

(* "The count of output samples per second of input is exact": windows are   *)
(* neither lost nor repeated whatever the batching, and once an input has    *)
(* been taken no whole period is owed, from any phase a retune, a reset or a *)
(* load has left (close_window, set_input_rate).                             *)
OutputCountExact ==
  /\ offered * input_rate + stage.phase = from + inputs * Intermediate
  /\ inputs > 0 => stage.phase < input_rate
=============================================================================
