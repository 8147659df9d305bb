--------------------------- MODULE AudioPlayback ---------------------------
(* frontend/src/audio.rs, AudioPlayer, and the emulator thread around it     *)
(* (emulator.rs): playback starts when the ring is half full, fades in,      *)
(* holds the last sample when it runs dry, and fades out when the loop ends. *)
(* The callback writes one sample a step, for the flag it reads changes      *)
(* under it.  SpscRing models the ring; here it is how much it holds.        *)
(* A sample is the gain it is played at, in steps of a full fade: the wave   *)
(* itself is left out, and so is stereo, whose fades count twice the samples.*)
EXTENDS Integers

CONSTANTS Capacity,       \* RING_CAPACITY_FRAMES
          FadeSamples,    \* FADE_FRAMES
          Buffer,         \* samples the sound card asks for at once
          FrameSamples,   \* what executed frames produce
          Period,         \* time between two callbacks
          Sleep           \* fade_out_duration

ASSUME PlayerAssumption ==
  /\ Capacity \in Nat /\ FadeSamples \in Nat /\ Buffer \in Nat /\ FrameSamples \subseteq Nat
  /\ Period \in Nat /\ Sleep \in Nat

VARIABLES fill,          \* samples in the ring
          started,       \* audio_started: the device was resumed
          fadeIn, fadeOut, fading,    \* of AudioPlayer
          left,          \* samples the callback under way has yet to write
          untilCallback, \* time to the next one
          quit,          \* the loop: "runs", "sleeps", "paused"
          asleep,        \* time the quitting thread has still to sleep
          gain           \* of the last sample written

playerVars == <<fill, started, fadeIn, fadeOut, fading, left, untilCallback,
                quit, asleep, gain>>

Lesser(a, b) == IF a <= b THEN a ELSE b
InCallback == left > 0

(* A frame's audio is pushed; half a ring of it starts the device.           *)
Produce(n) ==
  /\ quit = "runs"
  /\ fill' = Lesser(fill + n, Capacity)
  /\ started' = (started \/ (n > 0 /\ fill' >= Capacity \div 2))
  /\ UNCHANGED <<fadeIn, fadeOut, fading, left, untilCallback, quit, asleep, gain>>

(* The sound card calls back when the last buffer is played.                 *)
Callback ==
  /\ started /\ quit # "paused" /\ ~InCallback /\ untilCallback = 0
  /\ fill' = fill - Lesser(fill, Buffer)
  /\ left' = Buffer
  /\ untilCallback' = Period
  /\ UNCHANGED <<started, fadeIn, fadeOut, fading, quit, asleep, gain>>

WriteSampleFadingAtOnce ==
  /\ InCallback
  /\ left' = left - 1
  /\ IF fading
       THEN /\ gain' = FadeSamples - fadeOut /\ fadeOut' = Lesser(fadeOut + 1, FadeSamples)
            /\ UNCHANGED fadeIn
     ELSE gain' = fadeIn /\ fadeIn' = Lesser(fadeIn + 1, FadeSamples) /\ UNCHANGED fadeOut
  /\ UNCHANGED <<fill, started, fading, untilCallback, quit, asleep>>

(* One sample: the fade in to its end, then the fade out, then silence.      *)
WriteSample ==
  /\ InCallback
  /\ left' = left - 1
  /\ IF fadeIn < FadeSamples
       THEN gain' = fadeIn /\ fadeIn' = fadeIn + 1 /\ UNCHANGED fadeOut
     ELSE IF ~fading THEN gain' = FadeSamples /\ UNCHANGED <<fadeIn, fadeOut>>
     ELSE IF fadeOut < FadeSamples
       THEN gain' = FadeSamples - fadeOut /\ fadeOut' = fadeOut + 1 /\ UNCHANGED fadeIn
     ELSE gain' = 0 /\ UNCHANGED <<fadeIn, fadeOut>>
  /\ UNCHANGED <<fill, started, fading, untilCallback, quit, asleep>>

(* The end of run: signal the fade, sleep, pause the device.                 *)
SignalFade ==
  /\ quit = "runs"
  /\ fading' = TRUE /\ quit' = "sleeps" /\ asleep' = Sleep
  /\ UNCHANGED <<fill, started, fadeIn, fadeOut, left, untilCallback, gain>>

(* Pausing waits for a callback under way: SDL holds the device's lock.      *)
Pause ==
  /\ quit = "sleeps" /\ asleep = 0 /\ ~InCallback
  /\ quit' = "paused"
  /\ UNCHANGED <<fill, started, fadeIn, fadeOut, fading, left, untilCallback, asleep, gain>>

(* Time passes between callbacks, which are short and start when due.        *)
Tick ==
  /\ ~InCallback /\ quit # "paused" /\ (quit = "sleeps" => asleep > 0)
  /\ started => untilCallback > 0
  /\ untilCallback' = IF started THEN untilCallback - 1 ELSE untilCallback
  /\ asleep' = IF quit = "sleeps" THEN asleep - 1 ELSE asleep
  /\ UNCHANGED <<fill, started, fadeIn, fadeOut, fading, left, quit, gain>>

PlayerInit == /\ fill = 0 /\ started = FALSE
              /\ fadeIn = 0 /\ fadeOut = 0 /\ fading = FALSE
              /\ left = 0 /\ untilCallback = 0
              /\ quit = "runs" /\ asleep = 0 /\ gain = 0

PlayerNext == \/ \E n \in FrameSamples : Produce(n)
              \/ Callback \/ WriteSample \/ SignalFade \/ Pause \/ Tick

PlayerSpec == PlayerInit /\ [][PlayerNext]_playerVars
-----------------------------------------------------------------------------
(* Every variable stays in its type: no fade runs past its end.             *)
PlayerTypeOK ==
  /\ fill \in 0..Capacity /\ started \in BOOLEAN /\ fading \in BOOLEAN
  /\ fadeIn \in 0..FadeSamples /\ fadeOut \in 0..FadeSamples /\ gain \in 0..FadeSamples
  /\ left \in 0..Buffer /\ untilCallback \in 0..Period
  /\ quit \in {"runs", "sleeps", "paused"} /\ asleep \in 0..Sleep

(* No pop: from one sample to the next the gain moves one step of the fade   *)
(* at most, wherever in the fade in, or in a buffer, the loop is left.       *)
NoPop == [][gain' - gain \in -1..1]_playerVars

(* "Signal fade-out, wait for the ramp to complete, then stop the callback": *)
(* the last sample before the device is paused is silent.                    *)
RampCompleted == quit = "paused" => gain = 0
=============================================================================
