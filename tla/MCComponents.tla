---------------------------- MODULE MCComponents ----------------------------
(* What makes up a machine and keeps to itself, in one run: the initial      *)
(* state says which part moves, and the others stay as they begin.  Each is  *)
(* checked over the states and the steps of its own specification.           *)
EXTENDS McrBoard, Z80Lines, ClockTree, CtcChannel, RelativeCounter, Resampler,
        SampleRing

VARIABLE part              \* the one that moves

(* A CPU at 4 Hz and, on another crystal, a speech chip at 2.5 Hz as it is   *)
(* declared and 1 or 3 as it is tuned; either may be the stepping domain.    *)
MCCrystals == <<4, 5>>
MCDeclared == <<[root |-> 1, num |-> 1, den |-> 1], [root |-> 2, num |-> 1, den |-> 2]>>

(* Motion that is more than one clamp, in both directions.                   *)
MCDeltas == {-3, 1, 2}

(* Control words with every choice of reset, time constant to follow, start  *)
(* by edge and mode, for an interrupting channel that counts rising edges    *)
(* and for a silent one with the other divisor; and the time constants 0, 2. *)
MCBytes == {CONTROL_WORD + r + t + k + m + rest :
              r \in {0, RESET}, t \in {0, TC_FOLLOWS}, k \in {0, CLK_TRIGGER},
              m \in {0, COUNTER_MODE}, rest \in {EDGE_RISING + INTERRUPT_EN, PRESCALER_256}}
           \cup {0, 2}

(* The beam of McrBoard interrupts on every field and frame (channels 2 and  *)
(* 3 made to interrupt on each edge, and silenced), in frames of 8 cycles.   *)
MCPortWrites == {<<2, 197>>, <<2, 1>>, <<3, 197>>, <<3, 1>>}

-----------------------------------------------------------------------------
Parts == {"clock", "ctc", "board", "lines", "chip", "samples", "ball"}
componentVars == <<part, vars, linesVars, clockVars, channelVars, stageVars,
                   ringVars, ballVars>>

(* Where another part moves, the rate and the ball's wiring are one of those *)
(* they may begin with.                                                      *)
ComponentsInit ==
  /\ part \in Parts
  /\ Init /\ LinesInit /\ ClockInit /\ ChannelInit /\ StageInit /\ RingInit /\ BallInit
  /\ part # "chip" => input_rate = 3
  /\ part # "ball" => ball.policy = "Unit" /\ ~ball.invert

MovingLinesCycle ==
  /\ part = "lines" /\ LinesCycle
  /\ UNCHANGED <<part, vars, clockVars, channelVars, stageVars, ringVars, ballVars>>

ComponentsNext ==
  \/ /\ part = "clock" /\ ClockNext
     /\ UNCHANGED <<part, vars, linesVars, channelVars, stageVars, ringVars, ballVars>>
  \/ /\ part = "ctc" /\ ChannelNext
     /\ UNCHANGED <<part, vars, linesVars, clockVars, stageVars, ringVars, ballVars>>
  \/ /\ part = "board" /\ Next
     /\ UNCHANGED <<part, linesVars, clockVars, channelVars, stageVars, ringVars, ballVars>>
  \/ /\ part = "lines" /\ LinesNext
     /\ UNCHANGED <<part, vars, clockVars, channelVars, stageVars, ringVars, ballVars>>
  \/ /\ part = "chip" /\ StageNext
     /\ UNCHANGED <<part, vars, linesVars, clockVars, channelVars, ringVars, ballVars>>
  \/ /\ part = "samples" /\ RingNext
     /\ UNCHANGED <<part, vars, linesVars, clockVars, channelVars, stageVars, ballVars>>
  \/ /\ part = "ball" /\ BallNext
     /\ UNCHANGED <<part, vars, linesVars, clockVars, channelVars, stageVars, ringVars>>

ComponentsSpec ==
  ComponentsInit /\ [][ComponentsNext]_componentVars /\ WF_componentVars(MovingLinesCycle)

-----------------------------------------------------------------------------
(* The other properties are those of the modules extended, by their names.   *)

(* Every component keeps its type.                                           *)
ComponentsTypeOK == /\ TypeOK /\ LinesTypeOK /\ ClockTypeOK /\ ChannelTypeOK
                    /\ StageTypeOK /\ RingTypeOK /\ BallTypeOK
=============================================================================
