----------------------------- MODULE MCFrontend -----------------------------
(* The frontend and what it calls on, in one run: the initial state says     *)
(* which part moves, and the others stay as they begin.  Two of the parts    *)
(* are the loop, under a user who pauses and steps and one who plays along   *)
(* with a movie; the others are the callees of loop and debugger, each by    *)
(* itself: watchpoints, memory map, hang detector, playback, movie files.    *)
EXTENDS FrontendLoop, MCAddressSpace, Watchpoints, HangDetector, AudioPlayback,
        MovieRoundTrip

VARIABLE part              \* the one that moves

-----------------------------------------------------------------------------
Pressing(f, value) == [frame |-> f, op |-> "button", ctl |-> 1, value |-> value]
ReleasingAll(f) == [frame |-> f, op |-> "releaseAll", ctl |-> 0, value |-> 0]

(* A press carried over frames, a frame with no record and one with two; a   *)
(* movie of a single frame; a movie of none.                                 *)
ShortMovies ==
  {[controls |-> <<"coin">>, dip |-> <<1>>, frames |-> 3,
    records |-> <<Pressing(0, 1), ReleasingAll(2), Pressing(2, 1)>>],
   [controls |-> <<"coin">>, dip |-> <<0>>, frames |-> 1, records |-> <<Pressing(0, 1)>>],
   [controls |-> <<"coin">>, dip |-> <<0>>, frames |-> 0, records |-> <<>>]}

MCControls == <<[name |-> "coin", id |-> 7], [name |-> "fire", id |-> 3]>>
MCConditions == {[test |-> "always", value |-> 0], [test |-> "changed", value |-> 0],
                 [test |-> "equals", value |-> 1]}

(* A fire button and a spinner; the replaying build lists them the other way *)
(* round, behind a control the recording build did not have.                 *)
MCRecordTable == <<[name |-> "fire", id |-> 1], [name |-> "spin", id |-> 5]>>
MCReplayTable == <<[name |-> "coin", id |-> 1], [name |-> "spin", id |-> 2],
                   [name |-> "fire", id |-> 5]>>
MCMovieCalls == {Call("button", 1, 0), Call("button", 1, 1), Call("absolute", 5, 0),
                 Call("relative", 5, 0), Call("relative", 5, 1),
                 Call("releaseAll", 0, 0), Call("dip", 0, 1)}

(* The configurations of the board agree on their regions.                   *)
ASSUME MCBoardsAssumption == ConfigurationsAgree

(* The loop as the configuration has it is that of the plays: a movie or     *)
(* none, a control the movie does not have, everything that strands held     *)
(* input, and frame advance under the movie.  That of the steps: no movie,   *)
(* the debugger's panel, every size of step.                                 *)
Steps == INSTANCE FrontendLoop WITH
  ControlTable <- <<[name |-> "coin", id |-> 7]>>, Watchpoints <- {},
  UserCommands <- {"TogglePause", "AdvanceFrame", "StepInstruction", "StepCycle",
                   "StepFrame", "ResetHard"},
  Movies <- {}, StartRecording <- {FALSE}, StartPaused <- {TRUE, FALSE},
  WindowEvents <- {"panel"}, PartialLoads <- FALSE,
  MaxPolled <- 2, MaxSubmits <- 3, MaxTakeFrames <- 2, MaxTakeCalls <- 3

-----------------------------------------------------------------------------
calledVars == <<watchVars, spaceVars, hangVars, playerVars, movieVars>>
allVars == <<part, vars, calledVars>>

(* Where another part moves, the loop begins as that of the steps, running,  *)
(* and the memory as one of its configurations.                              *)
FrontendInit ==
  /\ \/ part = "plays" /\ Init
     \/ part = "steps" /\ Steps!Init
     \/ /\ part \in {"watch", "memory", "hang", "player", "movie"}
        /\ Steps!Init /\ ~ debug.active /\ ~ disk.saveFile
  /\ WatchInit /\ HangInit /\ PlayerInit /\ MovieInit
  /\ SpaceInit /\ (part # "memory" => 1 \in DOMAIN backing[1])

StepsLoopStep == part = "steps" /\ Steps!LoopStep /\ UNCHANGED <<part, calledVars>>

FrontendNext ==
  \/ StepsLoopStep
  \/ part = "steps" /\ Steps!UserStep /\ UNCHANGED <<part, calledVars>>
  \/ part = "steps" /\ Steps!TickToBoundary /\ UNCHANGED <<part, calledVars>>
  \/ part = "plays" /\ Next /\ UNCHANGED <<part, calledVars>>
  \/ /\ part = "watch" /\ WatchNext
     /\ UNCHANGED <<part, vars, hangVars, playerVars, movieVars, spaceVars>>
  \/ /\ part = "memory" /\ SpaceNext
     /\ UNCHANGED <<part, vars, watchVars, hangVars, playerVars, movieVars>>
  \/ /\ part = "hang" /\ HangNext
     /\ UNCHANGED <<part, vars, watchVars, playerVars, movieVars, spaceVars>>
  \/ /\ part = "player" /\ PlayerNext
     /\ UNCHANGED <<part, vars, watchVars, hangVars, movieVars, spaceVars>>
  \/ /\ part = "movie" /\ MovieNext
     /\ UNCHANGED <<part, vars, watchVars, hangVars, playerVars, spaceVars>>

(* FairSpec of the loop of the steps: that of the plays may be stopped in a  *)
(* movie by the bound on its calls.                                          *)
FrontendSpec == FrontendInit /\ [][FrontendNext]_allVars /\ WF_allVars(StepsLoopStep)

-----------------------------------------------------------------------------
(* The properties of the parts, those of the modules extended under the name *)
(* they have there.                                                          *)

(* Every part keeps its type.                                                *)
PartsTypeOK == /\ part # "plays" => Steps!TypeOK
               /\ part = "plays" => TypeOK
               /\ WatchTypeOK /\ HangTypeOK /\ PlayerTypeOK /\ MovieTypeOK
               /\ SpaceTypeOK

(* Every step that was armed is consumed, in the loop of the steps, unless   *)
(* it waits for an instruction that does not end.                            *)
ArmedStepsResolve == part = "steps" => Steps!StepsResolve
(* No command is queued for ever, in the loop of the steps, unless behind    *)
(* such a step.                                                              *)
CommandsDrain == part = "steps" => Steps!QueueDrains
=============================================================================
