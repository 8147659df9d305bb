---------------------------- MODULE HangDetector ----------------------------
(* core/src/core/debug_hang.rs: the detector that a headless run feeds each  *)
(* CPU's program counter once a frame.  One CPU is modelled: the detector    *)
(* keeps a window of its own for each.                                       *)
EXTENDS Integers, Sequences

CONSTANTS Window,       \* widest span of addresses that still is one loop
          Threshold,    \* frames in the window before it is reported
          ProgramCounters,    \* program counters
          MaxFrames     \* bound: the frames a window counts

(* Program counters are unsigned.  A detector that reports every sample      *)
(* (Threshold 1) has no hang to be late for: the defaults are 8 and 120.     *)
ASSUME HangAssumption ==
  /\ Window \in Nat /\ Threshold \in Nat /\ Threshold >= 2
  /\ ProgramCounters \subseteq Nat /\ MaxFrames \in Nat

VARIABLES cpu,          \* CpuWindow
          report,       \* what the last observe returned, "none" or a count
          samples,      \* the last Recent program counters, newest last
          told,         \* this window has been reported
          quiet         \* observations since the window was last a reported one

hangVars == <<cpu, report, samples, told, quiet>>

Idle == [active |-> FALSE, lo |-> 0, hi |-> 0, frames |-> 0, reported |-> FALSE]
FreshWindow(pc) == [active |-> TRUE, lo |-> pc, hi |-> pc, frames |-> 1, reported |-> FALSE]

Least(a, b) == IF a <= b THEN a ELSE b
Most(a, b) == IF a >= b THEN a ELSE b

WatchNewest(w, pc) ==
  IF w.active /\ pc - w.lo <= Window /\ w.hi - pc <= Window
    THEN [w EXCEPT !.lo = pc, !.hi = pc, !.frames = @ + 1]
    ELSE FreshWindow(pc)

WatchStillReported(w, pc) ==
  LET lo == Least(w.lo, pc)
      hi == Most(w.hi, pc)
  IN IF w.active /\ hi - lo <= Window
       THEN [w EXCEPT !.lo = lo, !.hi = hi, !.frames = @ + 1]
       ELSE [FreshWindow(pc) EXCEPT !.reported = w.reported]

WatchFromLow(w, pc) ==
  IF w.active /\ pc - w.lo <= Window
    THEN [w EXCEPT !.lo = Least(w.lo, pc), !.hi = Most(w.hi, pc), !.frames = @ + 1]
    ELSE FreshWindow(pc)

Watch(w, pc) ==
  LET lo == Least(w.lo, pc)
      hi == Most(w.hi, pc)
  IN IF w.active /\ hi - lo <= Window
       THEN [w EXCEPT !.lo = lo, !.hi = hi, !.frames = @ + 1]
       ELSE FreshWindow(pc)

Due(w) == w.frames >= Threshold /\ ~w.reported

(* The most frames a hang may take to be reported; Threshold is at least 2.  *)
Recent == (2 * Threshold) - 2
Remember(pc) ==
  LET all == Append(samples, pc)
  IN SubSeq(all, Most(1, Len(all) - Recent + 1), Len(all))

observe(pc) ==
  LET w == Watch(cpu, pc)
  IN /\ w.frames <= MaxFrames
     /\ cpu' = [w EXCEPT !.reported = @ \/ Due(w)]
     /\ report' = IF Due(w) THEN w.frames ELSE 0
     /\ samples' = Remember(pc)
     /\ told' = (report' > 0 \/ (told /\ w.frames = cpu.frames + 1))
     /\ quiet' = IF told' THEN 0 ELSE Least(quiet + 1, Recent)

reset == cpu' = Idle /\ report' = 0 /\ samples' = <<>> /\ told' = FALSE /\ quiet' = 0

HangInit == cpu = Idle /\ report = 0 /\ samples = <<>> /\ told = FALSE /\ quiet = 0
HangNext == (\E pc \in ProgramCounters : observe(pc)) \/ reset
HangSpec == HangInit /\ [][HangNext]_hangVars
-----------------------------------------------------------------------------
(* Every variable stays in its type, and the window no wider than Window.    *)
HangTypeOK ==
  /\ cpu \in [active : BOOLEAN, lo : Int, hi : Int, frames : 0..MaxFrames, reported : BOOLEAN]
  /\ cpu.active => cpu.frames > 0 /\ cpu.hi - cpu.lo \in 0..Window
  /\ report \in 0..MaxFrames /\ quiet \in 0..Recent
  /\ told \in BOOLEAN /\ samples \in Seq(ProgramCounters) /\ Len(samples) <= Recent

Within(n, width) ==
  \A i, j \in (Len(samples) - n + 1)..Len(samples) : samples[i] - samples[j] <= width

(* A report is never a false alarm: the program counter did stay in one      *)
(* window for the Threshold frames up to it.                                 *)
ReportsAreJustified ==
  report > 0 => report >= Threshold /\ Len(samples) >= Threshold /\ Within(Threshold, Window)

(* A hang is reported in bounded time, although the window is anchored at    *)
(* its first sample and not at the loop: a CPU that stayed inside one loop   *)
(* for Recent frames has been in a reported window during them.  (The window *)
(* may restart once inside the loop, before it is due; one frame less would  *)
(* not do.)                                                                  *)
HangsAreReported ==
  Len(samples) = Recent /\ Within(Recent, Window) => quiet < Recent

(* The reports are the hangs: none false, none missing.                      *)
ReportsAreHangs == ReportsAreJustified /\ HangsAreReported
=============================================================================
