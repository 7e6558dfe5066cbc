-------------------------------- MODULE Y86 ---------------------------------
(***************************************************************************)
(* The Y86-64 tool chain end to end, as lab7/sim/ptest/tester.pm and the   *)
(* test programs of lab5 and lab6 use it: an assembly program is assembled *)
(* (Y64Asm, and Yas for comparison) and run on the pipelined processor     *)
(* (Psim), the sequential one (Seq), the instruction-set simulator (Isa)   *)
(* and the student's simulator (Y64Sim).  The instruction-level machines   *)
(* take a step whenever the pipeline completes an instruction, so they can *)
(* be compared in every cycle and not only at the end.                     *)
(***************************************************************************)
EXTENDS Yas, Psim, Seq, Y64Sim

CONSTANTS Prelude,      \* sequence of statements every program starts with
          Body,         \* [version -> the statements of the middle part]
          BodyLen,      \* number of statements chosen from it
          Trailer       \* sequence of statements every program ends with

(* The lines the programs of a version are made of. *)
ProgramText(version) ==
    Body[version] \cup {Prelude[i] : i \in 1 .. Len(Prelude)}
                  \cup {Trailer[i] : i \in 1 .. Len(Trailer)}

ASSUME ProgramAssumption ==
    /\ Len(Prelude) \in Nat /\ BodyLen \in Nat /\ Len(Trailer) \in Nat
    /\ \A version \in DOMAIN Body : \A s \in ProgramText(version) :
          IsStatement(s) /\ (IsIaddq(s) => version = "full")

VARIABLES loaded,       \* the machines have been started
          plain,        \* no instruction has used what Y64Sim does otherwise
          lost,         \* cycles the completed instructions have lost ...
          due           \* ... and those the last one makes its successor lose

vars == <<avars, pvars, svars, yvars, loaded, plain, lost, due>>
machines == <<pvars, svars, yvars, loaded, plain, lost, due>>

Init ==
    /\ AsmInit
    /\ hcl \in DOMAIN Body
    /\ LET empty == [a \in 0 .. MemLen - 1 |-> 0]
       IN  PipeInit(empty) /\ SeqInit(empty) /\ Y64Init(empty)
    /\ loaded = FALSE /\ plain = TRUE /\ lost = 0 /\ due = 0

-----------------------------------------------------------------------------
Before(i) == i <= Len(Prelude)
Within(i) == ~Before(i) /\ i <= Len(Prelude) + BodyLen

(* The statements the next line of the program may be. *)
NextStatements ==
    LET i == Len(source) + 1
        j == i - Len(Prelude) - BodyLen
    IN  IF Before(i) THEN {Prelude[i]}
        ELSE IF Within(i) THEN Body[hcl]
        ELSE IF j <= Len(Trailer) THEN {Trailer[j]}
        ELSE {}

(* The programs with iaddq, for pipe-full, are for yas alone.              *)
Read == /\ \E s \in NextStatements : IF hcl = "full" THEN NextLine(s) ELSE ParseLine(s)
        /\ UNCHANGED machines

Assemble == /\ hcl # "full"
            /\ NextStatements = {} \/ aphase # "assemble"
            /\ Assembled
            /\ UNCHANGED machines

(* The assembler exits; load_mem and load_binfile put the image in the     *)
(* memory of each machine.                                                 *)
Load == /\ ~loaded
        /\ IF hcl = "full" THEN NextStatements = {} /\ Exit ELSE finit
        /\ loaded' = TRUE
        /\ pmem' = image' /\ smem' = image' /\ ym' = image'
        /\ UNCHANGED <<hcl, preg, pcc, cur, nxt, op, wb, pstat, icount,
                       instructions, cycles, starting_up, spc, sreg, scc, spend,
                       sstat, ypc, yr, ycc, ystat, plain, lost, due>>

(* What the student's simulator does otherwise: it has no iaddq; after any *)
(* overflow, since its conditions read the sign alone; and after any result*)
(* outside the lower half of a word, whose sign bit it takes for the sign  *)
(* (y64sim.c:285): a sum of 0x80000000 is one, and overflows nothing.      *)
ExtraInstruction == get_byte_ok(ypc) /\ y_icode = I_IADDQ
WideResult ==
    /\ Does(I_ALU)
    /\ LET val == Signed(compute_alu(y_ifun, valA, valB))
           cc == compute_cc(y_ifun, valA, valB)
       IN  cc.of \/ 2 * val >= HalfModulus \/ 2 * val < -HalfModulus

(* What an instruction costs beyond its own cycle: 1 before it if it uses  *)
(* what the one before it loads, 2 after a jump that is not taken, 3 after *)
(* a ret.  pipe-full saves the first for a store and the last behind a push.*)
Completing == Fetched(PendingMem, spend.pc)
LoadUseCost(i) ==
    IF /\ spend.destM # REG_NONE /\ spend.destM \in {seq_srcA(i), seq_srcB(i)}
       /\ hcl = "full" => i.icode # I_RMMOVQ
    THEN 1 ELSE 0
ControlCost(i) ==
    IF i.icode = I_JMP /\ ~cond_holds(spend.cc, i.ifun) THEN 2
    ELSE IF i.icode = I_RET /\ ~(hcl = "full" /\ HI4(smem[spc]) = I_PUSHQ) THEN 3
    ELSE 0

Run == /\ loaded
       /\ Cycle
       /\ IF cur'.W.status \notin {"BUB", "PIP"}
          THEN /\ sim_step
               /\ IF ystat = "AOK" THEN nexti ELSE UNCHANGED yvars
               /\ plain' = (plain /\ ~ExtraInstruction /\ ~WideResult)
               /\ lost' = lost + due + LoadUseCost(Completing)
               /\ due' = ControlCost(Completing)
          ELSE UNCHANGED <<svars, yvars, plain, lost, due>>
       /\ UNCHANGED <<avars, loaded>>

Next == Read \/ Assemble \/ Load \/ Run
Spec == Init /\ [][Next]_vars

-----------------------------------------------------------------------------
(* Types of every machine's state.                                         *)
TypeOK ==
    /\ {vmaddr, lost, due} \subseteq Nat /\ loaded \in BOOLEAN /\ plain \in BOOLEAN
    /\ aphase \in {"assemble", "relocate", "binfile", "done", "exited", "error"}
    /\ image \in Mem
    /\ \A regs \in {preg, sreg, yr} : regs \in Regs
    /\ \A mem \in {pmem, smem, ym} : mem \in Mem
    /\ pcc \in CC /\ scc \in CC /\ ycc \in CC
    /\ pstat \in {"AOK", "HLT", "ADR", "INS", "PIP"}
    /\ {sstat, ystat} \subseteq {"AOK", "HLT", "ADR", "INS"}
    /\ op \in [Stages -> {"LOAD", "STALL", "BUBBLE", "ERROR"}]
    /\ icount \in 0 .. MaxInstr

(* The assembler's promise: once the image is written, every instruction   *)
(* that no later line overlaps stands at its address with its operand, and *)
(* an operand that is a label is the address the label's line begins at,   *)
(* however the definition and the use were ordered (add_symbol, add_reloc, *)
(* relocate), and no label stands for two lines.                           *)
Begin(i) == IF i = 1 THEN 0 ELSE lines[i - 1].addr + lines[i - 1].bytes
LineOf(label) == CHOOSE i \in DOMAIN source : source[i].label = label

Expected(s, offset) ==
    LET from == OperandAt(s.code)
        value == IF s.operand = "label" THEN Begin(LineOf(s.value)) ELSE s.value
    IN  IF s.operand # "none" /\ offset \in from .. from + WordBytes - 1
        THEN (value \div 256 ^ (offset - from)) % 256
        ELSE Opcodes(s)[offset]

AssembledAsWritten ==
    aphase = "done" => \A i \in DOMAIN source :
        /\ \A j \in 1 .. i - 1 : source[i].label = NoLabel \/ source[i].label # source[j].label
        /\ \A k \in 0 .. lines[i].bytes - 1 :
            LET a == lines[i].addr + k
            IN  Max(Covering(a)) = i => image[a] = Expected(source[i], k)

(* Both assemblers make of a program what it says.                         *)
AssembledRight == AssembledAsWritten /\ AssemblersAgree

(* The state of the pipeline at an instruction boundary: what W is about   *)
(* to write back counts unless W holds the instruction that failed.        *)
PipeRegs == IF pstat = "AOK" THEN WrittenBack ELSE preg

(* The pipeline computes what the sequential processor does: whatever was  *)
(* forwarded, stalled, squashed or fetched too early, after every cycle    *)
(* the registers and the memory are those of the instructions completed so *)
(* far, run one at a time.  In the last cycle before the limit update_state*)
(* holds writes back, so it is not counted.                                *)
PipeMatchesSeq ==
    icount < MaxInstr =>
        /\ PipeRegs = SeqRegs /\ pmem = SeqMem
        /\ pstat # "AOK" => pstat = sstat /\ pcc = SeqCC

(* pipe_cntl never sees a register both stalled and bubbled.               *)
NoPipeError == \A s \in Stages : op[s] # "ERROR"

(* The student's simulator agrees until the first iaddq, the first overflow*)
(* of either sign and the first result outside the lower half of a word,   *)
(* and no further; a stack access that fails has moved %rsp there.         *)
Y64SimMatches ==
    plain => /\ ystat = sstat /\ ypc = SeqPc /\ ym = SeqMem /\ ycc = SeqCC
             /\ yr = SeqRegs \/ ystat = "ADR"

(* The sequential processor implements the instruction set, with the effect*)
(* of an instruction deferred to the next step, except that an instruction *)
(* whose stack access fails leaves %rsp where it was.                      *)
IsaStep == SeqIsa!step_state \/ (SeqIsa!StackFault /\ sstat' = "ADR"
                                   /\ UNCHANGED <<SeqPc, SeqRegs, SeqMem, SeqCC>>)
SeqImplementsIsa == [][loaded => IsaStep]_<<SeqPc, SeqRegs, SeqMem, SeqCC, sstat>>

(* Every cycle in which no instruction completes is accounted for: the CPI *)
(* that run_tty_sim prints is 1 plus the penalties of load/use hazards,    *)
(* mispredicted jumps and returns, no more and no less.                    *)
CyclesAccounted == cur.W.status # "BUB" => cycles - instructions = lost
=============================================================================
