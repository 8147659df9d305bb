--------------------------- MODULE Z80Interrupts ---------------------------
(* core/src/cpu/z80: how the Z80 samples, masks, answers and returns from    *)
(* interrupts, one clock cycle at a time.  The CPU is a record; operators    *)
(* map a CPU, the interrupt lines and the opcode it reads to the next CPU.   *)
(* Registers and flags are left out.  The program counter keeps only whether *)
(* it is the reset address, the one before it, or another; an opcode is its  *)
(* kind, and "plain" stands for every instruction that touches none of this. *)
EXTENDS Integers

CONSTANTS Longest     \* bound: cycles of a plain instruction after its fetch

ASSUME CpuAssumption == Longest \in 1..17

OpKinds == {"plain", "ei", "di", "halt", "prefix", "retn", "im2", "out"}

PowerOnCpu ==
  [at |-> "Fetch", op |-> "plain", cyc |-> 0, pc |-> "start", iff1 |-> FALSE,
   iff2 |-> FALSE, im |-> 0, halted |-> FALSE, eiDelay |-> FALSE,
   prefixPending |-> FALSE, nmiPrevious |-> FALSE]

(* Cpu::reset sets registers and the mode, and nothing of the rest.          *)
ResetCpu(cpu) == [cpu EXCEPT !.pc = "start", !.im = 0]

(* A save holds everything but the execution temporaries.  (op is left: it   *)
(* stands for what memory holds behind pc, which a HALT reads again.)        *)
SavedAndLoaded(cpu) == [cpu EXCEPT !.at = "Fetch", !.cyc = 0, !.prefixPending = FALSE]

AtInstructionBoundary(cpu) == cpu.at = "Fetch" /\ ~cpu.prefixPending

(* The cycles in which the CPU calls check_interrupts on its bus.            *)
Polls(cpu) == AtInstructionBoundary(cpu) /\ ~cpu.eiDelay
ReadsVector(cpu) == cpu.at = "Im2" /\ cpu.cyc = 12
EntersHandler(cpu) == ReadsVector(cpu) \/ (cpu.at = "Im01" /\ cpu.cyc = 11)

Goto(cpu, at) == [cpu EXCEPT !.at = at, !.cyc = 0]

BeforePc(pc) == IF pc = "start" THEN "beforeStart" ELSE "elsewhere"
AfterPc(pc) == IF pc = "beforeStart" THEN "start" ELSE "elsewhere"

(* The rest of a Fetch that answers no interrupt.                            *)
StartOpcode(cpu) ==
  IF cpu.halted THEN [Goto(cpu, "FetchRead") EXCEPT !.pc = BeforePc(@)]
  ELSE [Goto(cpu, "FetchRead") EXCEPT !.prefixPending = FALSE]

FetchByLevel(cpu, lines) ==
  LET answer(at) == [Goto(cpu, at) EXCEPT !.halted = FALSE]
  IN IF cpu.prefixPending THEN StartOpcode(cpu)
     ELSE IF cpu.eiDelay THEN StartOpcode([cpu EXCEPT !.eiDelay = FALSE])
     ELSE IF lines.nmi THEN answer("Nmi")
     ELSE IF lines.irq /\ cpu.iff1 THEN answer(IF cpu.im = 2 THEN "Im2" ELSE "Im01")
     ELSE StartOpcode(cpu)

FetchHaltDeaf(cpu, lines) ==
  LET sampled == [cpu EXCEPT !.nmiPrevious = lines.nmi]
      answer(at) == [Goto(sampled, at) EXCEPT !.halted = FALSE]
  IN IF cpu.prefixPending \/ cpu.halted THEN StartOpcode(cpu)
     ELSE IF cpu.eiDelay THEN StartOpcode([cpu EXCEPT !.eiDelay = FALSE])
     ELSE IF lines.nmi /\ ~cpu.nmiPrevious THEN answer("Nmi")
     ELSE IF lines.irq /\ cpu.iff1 THEN answer(IF cpu.im = 2 THEN "Im2" ELSE "Im01")
     ELSE StartOpcode(sampled)

Fetch(cpu, lines) ==
  LET sampled == [cpu EXCEPT !.nmiPrevious = lines.nmi]
      answer(at) == [Goto(sampled, at) EXCEPT !.halted = FALSE]
  IN IF cpu.prefixPending THEN StartOpcode(cpu)
     ELSE IF cpu.eiDelay THEN StartOpcode([cpu EXCEPT !.eiDelay = FALSE])
     ELSE IF lines.nmi /\ ~cpu.nmiPrevious THEN answer("Nmi")
     ELSE IF lines.irq /\ cpu.iff1 THEN answer(IF cpu.im = 2 THEN "Im2" ELSE "Im01")
     ELSE StartOpcode(sampled)

(* A halted CPU reads its HALT again, unless a reset has moved pc meanwhile. *)
RereadsHalt(cpu) == cpu.halted /\ cpu.op = "halt" /\ cpu.pc # "beforeStart"

FetchRead(cpu, op) ==
  [Goto(cpu, "Execute") EXCEPT !.op = IF RereadsHalt(cpu) THEN @ ELSE op, !.pc = AfterPc(@)]

(* Cycles an instruction takes after its opcode is read, numbered from 0.    *)
LastCycles(op) ==
  CASE op = "plain" -> 1..Longest
    [] op = "out"   -> {8}
    [] op = "im2"   -> {5}
    [] op = "retn"  -> {11}
    [] OTHER        -> {1}

op_retn_restores(cpu) == cpu.op = "retn" /\ cpu.cyc = 5

(* What an instruction has done when its last cycle ends.                    *)
FinishWithoutDelay(cpu) ==
  LET done == Goto(cpu, "Fetch")
  IN CASE cpu.op = "ei"     -> [done EXCEPT !.iff1 = TRUE, !.iff2 = TRUE]
       [] cpu.op = "di"     -> [done EXCEPT !.iff1 = FALSE, !.iff2 = FALSE]
       [] cpu.op = "halt"   -> [done EXCEPT !.halted = TRUE]
       [] cpu.op = "prefix" -> [done EXCEPT !.prefixPending = TRUE]
       [] cpu.op = "im2"    -> [done EXCEPT !.im = 2]
       [] OTHER             -> done

Finish(cpu) ==
  LET done == Goto(cpu, "Fetch")
  IN CASE cpu.op = "ei"     -> [done EXCEPT !.iff1 = TRUE, !.iff2 = TRUE, !.eiDelay = TRUE]
       [] cpu.op = "di"     -> [done EXCEPT !.iff1 = FALSE, !.iff2 = FALSE]
       [] cpu.op = "halt"   -> [done EXCEPT !.halted = TRUE]
       [] cpu.op = "prefix" -> [done EXCEPT !.prefixPending = TRUE]
       [] cpu.op = "im2"    -> [done EXCEPT !.im = 2]
       [] cpu.op = "retn"   -> [done EXCEPT !.pc = "elsewhere"]
       [] cpu.op = "out"    -> [done EXCEPT !.pc = AfterPc(@)]
       [] OTHER             -> done

Execute(cpu) ==
  (IF cpu.cyc \in LastCycles(cpu.op) THEN {Finish(cpu)} ELSE {}) \cup
  (IF \E last \in LastCycles(cpu.op) : cpu.cyc < last
   THEN {[cpu EXCEPT !.cyc = @ + 1, !.iff1 = IF op_retn_restores(cpu) THEN cpu.iff2 ELSE @]}
   ELSE {})

(* An NMI masks with IFF1 alone, so that RETN can restore it from IFF2.      *)
LastResponseCycle(at) == CASE at = "Nmi" -> 9 [] at = "Im01" -> 11 [] at = "Im2" -> 17

RespondMaskingBoth(cpu) ==
  IF cpu.cyc = LastResponseCycle(cpu.at) THEN [Goto(cpu, "Fetch") EXCEPT !.pc = "elsewhere"]
  ELSE IF cpu.cyc = 0 THEN [cpu EXCEPT !.cyc = 1, !.iff1 = FALSE, !.iff2 = FALSE]
  ELSE [cpu EXCEPT !.cyc = @ + 1]

Respond(cpu) ==
  IF cpu.cyc = LastResponseCycle(cpu.at) THEN [Goto(cpu, "Fetch") EXCEPT !.pc = "elsewhere"]
  ELSE IF cpu.cyc = 0
    THEN [cpu EXCEPT !.cyc = 1, !.iff1 = FALSE, !.iff2 = (cpu.at = "Nmi") /\ @]
  ELSE [cpu EXCEPT !.cyc = @ + 1]

(* execute_cycle: the CPUs one cycle may lead to, for the opcodes of ops.    *)
execute_cycle(cpu, lines, ops) ==
  CASE cpu.at = "Fetch"     -> {Fetch(cpu, lines)}
    [] cpu.at = "FetchRead" -> {FetchRead(cpu, op) : op \in ops}
    [] cpu.at = "Execute"   -> Execute(cpu)
    [] OTHER                -> {Respond(cpu)}

Returns(cpu) == cpu.at = "Execute" /\ cpu.op = "retn" /\ cpu.cyc = 11

(* The cycle in which OUT (n),A writes its port.                             *)
WritesPort(cpu) == cpu.at = "Execute" /\ cpu.op = "out" /\ cpu.cyc = 8

CpuType ==
  [at : {"Fetch", "FetchRead", "Execute", "Nmi", "Im01", "Im2"},
   op : OpKinds,
   cyc : 0..17, pc : {"start", "beforeStart", "elsewhere"}, iff1 : BOOLEAN,
   iff2 : BOOLEAN, im : {0, 2}, halted : BOOLEAN, eiDelay : BOOLEAN,
   prefixPending : BOOLEAN, nmiPrevious : BOOLEAN]
=============================================================================
