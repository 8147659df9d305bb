------------------------------ MODULE McrBoard ------------------------------
(* machines/src/mcr2.rs and satans_hollow.rs (mcr_91490.rs repeats both):    *)
(* the Z80 of a Bally Midway MCR board, its CTC and the interrupt wiring     *)
(* between them, one CPU cycle a step.  The CTC's four channels interrupt in *)
(* IM 2; channels 2 and 3 count the fields and frames of the beam, and the   *)
(* zero count of channel 0 triggers channel 1.  check_interrupts latches the *)
(* vector it shows and has the channel acknowledged at the end of the cycle. *)
(*                                                                           *)
(* The program in ROM is not in src/: it runs any instructions, keeping the  *)
(* idiom of an interrupt handler (no EI but the one right before its RETI).  *)
EXTENDS Z80Interrupts, Z80Ctc

CONSTANTS CyclesPerScanline, PairsPerField,  \* the beam; two fields a frame
          Program,      \* kinds of instruction the program uses
          PortWrites,   \* <<channel, byte>>: what it writes to the CTC
          MaxBoardConstant,   \* bound: the time constants among them
          UserActions   \* between frames: subset of {"Reset", "Reload"}

ASSUME BoardAssumption ==
  /\ CyclesPerScanline \in Nat \ {0} /\ PairsPerField \in Nat \ {0}
  /\ Program \subseteq OpKinds /\ PortWrites \subseteq Channels \X (0..255)
  /\ MaxBoardConstant \in 0..TcRange

VARIABLES cpu, ctc,
          vectorLatch,   \* ctc_vector_latch
          clock,         \* cycles, modulo those of a frame
          depth,         \* handlers entered and not returned from
          owed,          \* channels that asked since they were last served
          phantom,       \* a handler was just entered for a channel not owed
          resetDue,      \* reset, and no opcode fetched since
          torn           \* a reset or a reload fell inside an instruction,
                         \* or a reset into a HALT

board == <<vectorLatch, clock>>
history == <<depth, owed, phantom, resetDue, torn>>
vars == <<cpu, ctc, board, history>>

CyclesPerFrame == 2 * PairsPerField * CyclesPerScanline

(* begin_scanline, reached by both paths of the drive on a line's first      *)
(* cycle: VBLANK every field to channel 2, net 493 every frame to channel 3. *)
begin_scanline(c) ==
  LET line == clock \div CyclesPerScanline
      field == IF line % PairsPerField = 0 THEN CtcPulse(c, 2) ELSE c
      frame == IF line = 0 THEN CtcPulse(field, 3) ELSE field
  IN IF clock % CyclesPerScanline = 0 THEN frame ELSE c

(* begin_cycle_inner: the tick and the cascade from channel 0 to channel 1.  *)
begin_cycle_inner(c) ==
  LET ticked == CtcTick(c)
  IN IF ticked.channels[0].zcPulse THEN CtcPulse(ticked, 1) ELSE ticked

(* check_interrupts: the lines, the vector latched and whether end_cycle is  *)
(* to acknowledge (ctc_ack_needed never outlives a cycle).                   *)
Polled == Polls(cpu) \/ ReadsVector(cpu)
AckNeeded(c) == Polled /\ interrupt_pending(c)
Lines(c) == [nmi |-> FALSE, irq |-> interrupt_pending(c)]
LatchedAfterAck(c) ==
  IF AckNeeded(c) THEN interrupt_vector(acknowledge_interrupt(c)) ELSE vectorLatch
LatchedVector(c) == IF AckNeeded(c) THEN interrupt_vector(c) ELSE vectorLatch

(* The instructions the program may run next.                                *)
InHandler == depth > 0
NextOpcodes ==
  {op \in Program : /\ op = "retn" => InHandler
                    /\ op = "halt" => ~InHandler
                    /\ InHandler /\ cpu.op = "ei" => op = "retn"}

ProgramWrites ==
  {w \in PortWrites : ctc.channels[w[1]].waitingForTc => w[2] <= MaxBoardConstant}

PortEffects(c) ==
  IF WritesPort(cpu) THEN {CtcWrite(c, w[1], w[2]) : w \in ProgramWrites} ELSE {c}

(* The channel a vector belongs to; the handler is entered when it is read.  *)
Serves(vector) == {c \in Channels : vector = ctc.vectorBase + 2 * c}

(* step_cycle, on a line's first cycle or another: the CTC as the beam and   *)
(* the clock leave it, the CPU's cycle with the CTC as its interrupt line,   *)
(* and end_cycle's acknowledge.  (Bound: a torn machine is not followed.)    *)
Cycle ==
  /\ ~torn
  /\ \E lit \in {begin_scanline(ctc)} : \E begun \in {begin_cycle_inner(lit)} :
     \E written \in PortEffects(begun) :
       LET vector == LatchedVector(begun)
           asked == owed \cup Pending(begun)
           served == IF ReadsVector(cpu) THEN Serves(vector) ELSE {}
       IN /\ cpu' \in execute_cycle(cpu, Lines(begun), NextOpcodes)
          /\ ctc' = IF AckNeeded(begun) THEN acknowledge_interrupt(written) ELSE written
          /\ vectorLatch' = vector
          /\ owed' = asked \ (served \cup (Pending(begun) \ Pending(written)))
          /\ phantom' = (ReadsVector(cpu) /\ served \cap asked = {})
  /\ clock' = (clock + 1) % CyclesPerFrame
  /\ depth' = IF EntersHandler(cpu) THEN depth + 1
              ELSE IF Returns(cpu) /\ InHandler THEN depth - 1 ELSE depth
  /\ resetDue' = (resetDue /\ cpu.at # "FetchRead")
  /\ UNCHANGED torn

(* The session applies these between frames.  reset: reset_board, then the   *)
(* Z80's Cpu::reset.                                                         *)
Reset ==
  /\ "Reset" \in UserActions
  /\ clock = 0
  /\ cpu' = ResetCpu(cpu)
  /\ ctc' = PowerOnCtc
  /\ vectorLatch' = 0
  /\ depth' = 0 /\ owed' = {} /\ phantom' = FALSE
  /\ resetDue' = TRUE
  /\ torn' = (torn \/ ~AtInstructionBoundary(cpu) \/ cpu.halted)
  /\ UNCHANGED clock

(* A save state taken and loaded back at once.  The CTC, memory and clock    *)
(* are saved; the CPU's temporaries and the latch are not.                   *)
Reload ==
  /\ "Reload" \in UserActions
  /\ clock = 0
  /\ cpu' = SavedAndLoaded(cpu)
  /\ vectorLatch' = 0
  /\ torn' = (torn \/ ~AtInstructionBoundary(cpu))
  /\ UNCHANGED <<ctc, clock, depth, owed, phantom, resetDue>>

Init ==
  /\ cpu = PowerOnCpu /\ ctc = PowerOnCtc
  /\ vectorLatch = 0 /\ clock = 0
  /\ depth = 0 /\ owed = {} /\ phantom = FALSE /\ resetDue = TRUE /\ torn = FALSE

Next == Cycle \/ Reset \/ Reload
Spec == Init /\ [][Next]_vars

-----------------------------------------------------------------------------
(* Every variable stays in its type: no counter of the CTC goes below zero.  *)
TypeOK ==
  /\ cpu \in CpuType
  /\ ctc.vectorBase \in 0..255 /\ ctc.channels \in [Channels -> ChannelType]
  /\ vectorLatch \in 0..255 /\ clock \in 0..(CyclesPerFrame - 1)
  /\ depth \in 0..3 /\ owed \subseteq Channels /\ phantom \in BOOLEAN
  /\ resetDue \in BOOLEAN /\ torn \in BOOLEAN

(* The handler of a channel runs only if that channel has asked since it was *)
(* last served: the latch never sends the CPU to a stale vector, whatever    *)
(* is polled, acknowledged and raised between the poll that answers and the  *)
(* read of the vector twelve cycles later (execute_interrupt, end_cycle).    *)
NoPhantomService == ~phantom

(* A handler that ends in EI; RETI is never entered again before it returns: *)
(* the one-instruction delay of EI covers the RETI, prefix and all, so the   *)
(* stack does not grow however fast the requests come (Fetch, op_ei).        *)
HandlersDoNotNest == torn \/ depth <= 1

(* "Deferred CTC interrupt acknowledge (after CPU has read the vector)": a   *)
(* request is cleared only because the CPU serves it or the program says so. *)
(* A channel still owed service is pending, or its vector is latched for the *)
(* response under way.                                                       *)
RequestsNotLost ==
  torn \/ \A c \in owed : \/ ctc.channels[c].pending
                           \/ /\ cpu.at \in {"Im2", "Im01"}
                              /\ vectorLatch = ctc.vectorBase + 2 * c

(* "Reset the machine to its initial power-on state": the first opcode after *)
(* a reset is the one at address 0, fetched as an instruction of its own.    *)
ResetRestartsAtZero ==
  resetDue => cpu.at \in {"Fetch", "FetchRead"} /\ (cpu.at = "FetchRead" => cpu.pc = "start")

(* "A save is taken at an instruction boundary": what a load does not bring  *)
(* back is then at its default.                                              *)
SavedAtBoundary == [][Reload => AtInstructionBoundary(cpu)]_vars
=============================================================================
