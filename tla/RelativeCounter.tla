-------------------------- MODULE RelativeCounter ---------------------------
(* core/src/core/input.rs, RelativeCounter: a trackball or spinner axis.     *)
(* Motion, held keys and a deflected stick turn a narrow counter that wraps, *)
(* under one of three drain policies; the game samples the counter and takes *)
(* the difference for a small signed number.  Deltas are whole units, as     *)
(* add_delta makes them, and a stick is deflected past a quarter or not.     *)
EXTENDS Integers

CONSTANTS Width,           \* of the counter: the mask plus one
          KeyStep,         \* key_step
          MaxStep,         \* max_step of the clamping policies
          Deltas,          \* motion of the pointing device
          UpdatesPerRead,  \* the most updates between two samples of the game
          MaxMotion        \* bound: units the ball is away from its start

VARIABLES ball,     \* the RelativeCounter
          sampled,  \* the counter as the game last read it
          seen,     \* where the game has the ball
          turned,   \* where the counter has it, had it no width
          fed,      \* units of motion the player owes the game
          updates   \* since the game read it

ballVars == <<ball, sampled, seen, turned, fed, updates>>

Policies == {"Unit", "ClampCarry", "ClampDrop"}
Directions == -1..1

(* Units one update may turn the ball: a key, the stick and one pending unit *)
(* can land together, or the clamp's step.                                   *)
Reach(policy) == IF policy = "Unit" THEN 3 ELSE MaxStep

ASSUME WidthAssumption == Width \in Nat \ {0}
ASSUME StepAssumption == KeyStep \in Nat /\ MaxStep \in Nat /\ Deltas \subseteq Int
(* Games sample often enough for the steps of their cabinet.                 *)
ASSUME SamplingAssumption ==
  /\ UpdatesPerRead \in Nat /\ MaxMotion \in Nat
  /\ \A policy \in Policies : 2 * (UpdatesPerRead * Reach(policy)) < Width

-----------------------------------------------------------------------------
Signum(n) == IF n > 0 THEN 1 ELSE IF n < 0 THEN -1 ELSE 0
Clamp(n) == IF n > MaxStep THEN MaxStep ELSE IF n < -MaxStep THEN -MaxStep ELSE n

(* The direction that keys and stick hold; opposite keys cancel out.         *)
Held(b) == (IF b.posHeld THEN 1 ELSE 0) - (IF b.negHeld THEN 1 ELSE 0) + b.velocity

(* accumulate_keys, for the policies that rate-limit keys and motion as one. *)
FromKeys(b) == IF b.policy = "Unit" THEN Held(b) ELSE KeyStep * Held(b)
Accumulated(b) == b.pending + FromKeys(b)

(* What update takes from the motion there is, and what it leaves.           *)
Moved(b) == IF b.policy = "Unit" THEN Held(b) + Signum(b.pending) ELSE Clamp(Accumulated(b))
LeftNothing(b) == IF b.policy = "Unit" THEN Accumulated(b) - Moved(b) ELSE 0
LeftPending(b) == IF b.policy = "ClampDrop" THEN 0 ELSE Accumulated(b) - Moved(b)
Turn(b, n) == IF b.invert THEN 0 - n ELSE n

update(b) ==
  [b EXCEPT !.counter = (@ + Turn(b, Moved(b))) % Width, !.pending = LeftPending(b)]
release_all(b) ==
  [b EXCEPT !.pending = 0, !.negHeld = FALSE, !.posHeld = FALSE, !.velocity = 0]

(* The game's reading: the difference, as a signed number of that width.     *)
Signed(n) == IF 2 * n >= Width THEN n - Width ELSE n
Reading == Signed((ball.counter - sampled) % Width)

-----------------------------------------------------------------------------
add_delta(d) ==
  /\ ball.pending + d \in -MaxMotion..MaxMotion
  /\ ball' = [ball EXCEPT !.pending = @ + d]
  /\ fed' = fed + d
  /\ UNCHANGED <<sampled, seen, turned, updates>>

set_held(pos, held) ==
  /\ ball' = IF pos THEN [ball EXCEPT !.posHeld = held] ELSE [ball EXCEPT !.negHeld = held]
  /\ UNCHANGED <<sampled, seen, turned, fed, updates>>

set_velocity(direction) ==
  /\ ball' = [ball EXCEPT !.velocity = direction]
  /\ UNCHANGED <<sampled, seen, turned, fed, updates>>

(* Once a frame, or once a tick of the board's divider.                      *)
Update ==
  /\ updates < UpdatesPerRead
  /\ turned + Turn(ball, Moved(ball)) \in -MaxMotion..MaxMotion
  /\ Accumulated(ball) \in -MaxMotion..MaxMotion
  /\ ball' = update(ball)
  /\ turned' = turned + Turn(ball, Moved(ball))
  /\ fed' = IF ball.policy = "ClampDrop" THEN 0 ELSE fed + FromKeys(ball)
  /\ updates' = updates + 1
  /\ UNCHANGED <<sampled, seen>>

GameReads ==
  /\ sampled' = ball.counter
  /\ seen' = seen + Reading
  /\ updates' = 0
  /\ UNCHANGED <<ball, turned, fed>>

(* Motion still pending is let go of: the game is owed none of it.           *)
ReleaseAll ==
  /\ ball' = release_all(ball)
  /\ fed' = fed - ball.pending
  /\ UNCHANGED <<sampled, seen, turned, updates>>

BallInit ==
  /\ \E p \in Policies, inverted \in BOOLEAN :
       ball = [counter |-> 0, pending |-> 0, negHeld |-> FALSE, posHeld |-> FALSE,
               velocity |-> 0, policy |-> p, invert |-> inverted]
  /\ sampled = 0 /\ seen = 0 /\ turned = 0 /\ fed = 0 /\ updates = 0

BallNext == \/ \E d \in Deltas : add_delta(d)
            \/ \E pos, held \in BOOLEAN : set_held(pos, held)
            \/ \E direction \in Directions : set_velocity(direction)
            \/ Update \/ GameReads \/ ReleaseAll

BallSpec == BallInit /\ [][BallNext]_ballVars

-----------------------------------------------------------------------------
(* The axis keeps its type.                                                  *)
BallTypeOK ==
  /\ ball \in [counter : 0..Width - 1, pending : Int, negHeld : BOOLEAN, posHeld : BOOLEAN,
               velocity : Directions, policy : Policies, invert : BOOLEAN]
  /\ sampled \in 0..Width - 1
  /\ seen \in Int /\ turned \in Int /\ fed \in Int
  /\ updates \in 0..UpdatesPerRead

(* A game that samples the counter in time is never more than the last       *)
(* updates behind the ball, however often the counter has wrapped: no step   *)
(* aliases into a stall or a reversal (DrainPolicy::ClampDrop).  Of the      *)
(* motion a carrying policy was fed, all that is not pending has turned the  *)
(* ball: "motion is never lost, only rate-limited" (ClampCarry).             *)
GameFollowsBall ==
  /\ updates = 0 => seen = turned
  /\ ball.policy # "ClampDrop" => fed = ball.pending + Turn(ball, turned)
=============================================================================
