------------------------------ MODULE Z80Lines ------------------------------
(* The Z80 on a board with an NMI line and a held IRQ line (IM 0 and 1), the *)
(* way most machines wire it: the lines change between any two cycles.  The  *)
(* program in ROM is external: its IRQ handlers end in EI; RETI and release  *)
(* the line, its NMI handlers end in RETN and leave the masks alone.         *)
EXTENDS Z80Interrupts, Sequences

CONSTANTS LinesProgram,       \* kinds of instruction the program uses
          MaxNested      \* bound: handlers entered at once

ASSUME LinesAssumption == LinesProgram \subseteq OpKinds \ {"im2"} /\ MaxNested \in Nat

VARIABLES z80, nmi, irq,
          handlers,      \* those entered, innermost last, with IFF1 at entry
          edgeDue        \* the NMI line has risen since an NMI was last taken

linesVars == <<z80, nmi, irq, handlers, edgeDue>>

Last == handlers[Len(handlers)]
In(kind) == handlers # <<>> /\ Last.kind = kind
LinesOpcodes ==
  {op \in LinesProgram : /\ op = "retn" => handlers # <<>>
                         /\ In("Nmi") => op \notin {"ei", "di", "halt", "im2"}
                         /\ In("Im01") => op # "halt"
                         /\ In("Im01") => (op = "retn" <=> z80.op = "ei")}

Answers(before, after) == before.at = "Fetch" /\ after.at \in {"Nmi", "Im01", "Im2"}

LinesCycle ==
  /\ z80' \in execute_cycle(z80, [nmi |-> nmi, irq |-> irq], LinesOpcodes)
  /\ handlers' =
       IF Answers(z80, z80') THEN Append(handlers, [kind |-> z80'.at, mask |-> z80.iff1])
       ELSE IF Returns(z80) THEN SubSeq(handlers, 1, Len(handlers) - 1)
       ELSE handlers
  /\ edgeDue' = (edgeDue /\ ~(Answers(z80, z80') /\ z80'.at = "Nmi"))
  /\ UNCHANGED <<nmi, irq>>

SetNmi(level) ==
  /\ level = ~nmi /\ (level => Len(handlers) < MaxNested)
  /\ nmi' = level
  /\ edgeDue' = (edgeDue \/ level)
  /\ UNCHANGED <<z80, irq, handlers>>

(* The IRQ is released by its handler's write, or asserted by the board.     *)
SetIrq(level) ==
  /\ level = ~irq /\ (IF level THEN Len(handlers) < MaxNested ELSE In("Im01"))
  /\ irq' = level
  /\ UNCHANGED <<z80, nmi, handlers, edgeDue>>

LinesInit == /\ z80 = PowerOnCpu /\ nmi = FALSE /\ irq = FALSE
             /\ handlers = <<>> /\ edgeDue = FALSE

LinesNext == LinesCycle \/ \E level \in BOOLEAN : SetNmi(level) \/ SetIrq(level)

(* The drive runs cycles as long as frames are asked for.                    *)
LinesSpec == LinesInit /\ [][LinesNext]_linesVars /\ WF_linesVars(LinesCycle)
-----------------------------------------------------------------------------
(* Every variable stays in its type.                                         *)
LinesTypeOK == /\ z80 \in CpuType /\ nmi \in BOOLEAN /\ irq \in BOOLEAN /\ edgeDue \in BOOLEAN
               /\ \A i \in DOMAIN handlers : handlers[i] \in [kind : {"Nmi", "Im01"}, mask : BOOLEAN]

(* A non-maskable interrupt is taken once for a rise of its line, however    *)
(* long the line stays up and whatever IRQs, EIs, prefixes and HALTs the CPU *)
(* goes through meanwhile (detect_rising_edge, sampled only by a poll).      *)
OneNmiPerEdge == [][Answers(z80, z80') /\ z80'.at = "Nmi" => edgeDue]_linesVars

(* When the outermost NMI handler returns, interrupts are masked as they     *)
(* were when it was entered: IFF2 keeps the mask through the response, also  *)
(* an NMI that strikes right after EI, in an IRQ handler or inside another.  *)
NmiRestoresMask ==
  [][Returns(z80) /\ Len(handlers) = 1 /\ In("Nmi") => z80'.iff1 = Last.mask]_linesVars

(* A halted CPU leaves its HALT for an NMI line that has risen since the CPU *)
(* last looked and stays up, and for an IRQ it does not mask: HALT goes on   *)
(* polling between its refetches, also when it comes right after EI.         *)
InterruptsWakeHalt ==
  /\ (z80.halted /\ nmi /\ ~z80.nmiPrevious) ~> (~z80.halted \/ ~nmi)
  /\ (z80.halted /\ irq /\ z80.iff1) ~> (~z80.halted \/ ~irq)
=============================================================================
