--------------------------- MODULE SessionCommands ---------------------------
(* frontend/src/session.rs: the session commands, the mode of a movie take,  *)
(* and the enablement table.  Operators only; FrontendLoop runs the queue.   *)
(*                                                                           *)
(* PokeMemory and DeviceControl both change the machine from outside the     *)
(* input stream and are one command here.  SetDisplay, CaptureFrame, the     *)
(* trace and the breakpoint commands change nothing the properties see; a    *)
(* breakpoint is a pause the environment may choose (FrontendLoop).          *)

Commands == {"ResetSoft", "ResetHard", "TogglePause", "AdvanceFrame",
             "StepInstruction", "StepCycle", "StepFrame", "SaveState",
             "LoadState", "SetWatchpoint", "ClearWatchpoint", "PokeMemory",
             "SetDipOption", "MovieRecordToggle"}

RunModes == {"Running", "Paused", "StepInstruction", "StepCycle", "StepFrame"}
SubFrameSteps == {"StepInstruction", "StepCycle"}

(* movie_mode                                                                *)
MovieMode(recording, replaying) ==
  CASE recording -> "Recording"
    [] ~ recording /\ replaying -> "Replaying"
    [] OTHER -> "Live"

(* Refused in both kinds of take: what changes the machine other than        *)
(* through its input.                                                        *)
OutsideInput == {"ResetSoft", "ResetHard", "LoadState", "PokeMemory",
                 "StepInstruction", "StepCycle"}

RefusedByTakeExceptLoad(mode) ==
  CASE mode = "Recording" -> OutsideInput \ {"LoadState"}
    [] mode = "Replaying" -> OutsideInput \cup {"SetDipOption", "MovieRecordToggle"}
    [] OTHER -> {}
RefusedByTake(mode) ==
  CASE mode = "Recording" -> OutsideInput
    [] mode = "Replaying" -> OutsideInput \cup {"SetDipOption", "MovieRecordToggle"}
    [] OTHER -> {}

(* enable: `paused` means any mode but Running.  The machine has a debug bus *)
(* and the DIP option exists.                                                *)
Enabled(cmd, mode, paused, debugOpen, saveFileExists) ==
  /\ cmd \notin RefusedByTake(mode)
  /\ cmd \in SubFrameSteps => debugOpen /\ paused
  /\ cmd = "StepFrame" => paused
  /\ cmd = "LoadState" => saveFileExists
==============================================================================
