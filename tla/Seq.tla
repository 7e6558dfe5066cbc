-------------------------------- MODULE Seq ---------------------------------
(***************************************************************************)
(* The sequential processor (lab7/sim/seq: ssim.c, with the control logic  *)
(* hcl2c generates from seq-full.hcl into seq-full.c).  One sim_step runs  *)
(* an instruction through all stages; what it computed is written to the   *)
(* registers, the memory, the condition codes and the PC by update_state   *)
(* at the start of the next one, so it is pending in between.              *)
(***************************************************************************)
EXTENDS IsaOps

VARIABLES spc,      \* address of the instruction last executed
          sreg, smem, scc,
          spend,    \* pending writes: next PC, next cc, registers, memory
          sstat     \* status of the instruction last executed

svars == <<spc, sreg, smem, scc, spend, sstat>>

-----------------------------------------------------------------------------
(* Control logic, of a fetched instruction i (seq-full.c). *)

seq_instr_valid(i) == i.icode \in I_HALT .. I_IADDQ

seq_need_regids(icode) ==
    icode \in {I_RRMOVQ, I_ALU, I_PUSHQ, I_POPQ, I_IRMOVQ, I_RMMOVQ, I_MRMOVQ, I_IADDQ}
seq_need_valC(icode) ==
    icode \in {I_IRMOVQ, I_RMMOVQ, I_MRMOVQ, I_JMP, I_CALL, I_IADDQ}

seq_srcA(i) ==
    IF i.icode \in {I_RRMOVQ, I_RMMOVQ, I_ALU, I_PUSHQ} THEN i.ra
    ELSE IF i.icode \in {I_POPQ, I_RET} THEN REG_RSP
    ELSE REG_NONE
seq_srcB(i) ==
    IF i.icode \in {I_ALU, I_RMMOVQ, I_MRMOVQ, I_IADDQ} THEN i.rb
    ELSE IF i.icode \in {I_PUSHQ, I_POPQ, I_CALL, I_RET} THEN REG_RSP
    ELSE REG_NONE
(* Mutant: a conditional move always moves. *)
seq_dstE_always(i, cond) ==
    IF i.icode \in {I_RRMOVQ, I_IRMOVQ, I_ALU, I_IADDQ} THEN i.rb
    ELSE IF i.icode \in {I_PUSHQ, I_POPQ, I_CALL, I_RET} THEN REG_RSP
    ELSE REG_NONE
seq_dstE(i, cond) ==
    IF \/ i.icode = I_RRMOVQ /\ cond
       \/ i.icode \in {I_IRMOVQ, I_ALU, I_IADDQ}
    THEN i.rb
    ELSE IF i.icode \in {I_PUSHQ, I_POPQ, I_CALL, I_RET} THEN REG_RSP
    ELSE REG_NONE
seq_dstM(i) == IF i.icode \in {I_MRMOVQ, I_POPQ} THEN i.ra ELSE REG_NONE

seq_aluA(i, vala) ==
    IF i.icode \in {I_RRMOVQ, I_ALU} THEN vala
    ELSE IF i.icode \in {I_IRMOVQ, I_RMMOVQ, I_MRMOVQ, I_IADDQ} THEN i.valc
    ELSE IF i.icode \in {I_CALL, I_PUSHQ} THEN Wrap(-WordBytes)
    ELSE IF i.icode \in {I_RET, I_POPQ} THEN WordBytes
    ELSE 0
seq_aluB(i, valb) ==
    IF i.icode \in {I_RMMOVQ, I_MRMOVQ, I_ALU, I_CALL, I_PUSHQ, I_RET, I_POPQ, I_IADDQ}
    THEN valb ELSE 0
seq_alufun(i) == IF i.icode = I_ALU THEN i.ifun ELSE A_ADD
seq_set_cc(i) == i.icode \in {I_ALU, I_IADDQ}

seq_mem_read(i) == i.icode \in {I_MRMOVQ, I_POPQ, I_RET}
seq_mem_write(i) == i.icode \in {I_RMMOVQ, I_PUSHQ, I_CALL}
seq_mem_addr(i, vala, vale) ==
    IF i.icode \in {I_RMMOVQ, I_PUSHQ, I_CALL, I_MRMOVQ} THEN vale
    ELSE IF i.icode \in {I_POPQ, I_RET} THEN vala
    ELSE 0
seq_mem_data(i, vala) ==
    IF i.icode \in {I_RMMOVQ, I_PUSHQ} THEN vala
    ELSE IF i.icode = I_CALL THEN i.valp
    ELSE 0

seq_Stat(i, dmem_error) ==
    IF i.imem_error \/ dmem_error THEN "ADR"
    ELSE IF ~seq_instr_valid(i) THEN "INS"
    ELSE IF i.icode = I_HALT THEN "HLT"
    ELSE "AOK"

seq_new_pc(i, cond, valm) ==
    IF i.icode = I_CALL \/ (i.icode = I_JMP /\ cond) THEN i.valc
    ELSE IF i.icode = I_RET THEN valm
    ELSE i.valp

-----------------------------------------------------------------------------
(* update_state: what is pending becomes the state.  popq %rsp writes the  *)
(* popped value last.                                                      *)
PendingRegs == set_reg_val(set_reg_val(sreg, spend.destE, spend.vale), spend.destM, spend.valm)
PendingMem == IF spend.mem_write THEN set_word_val(smem, spend.mem_addr, spend.mem_data) ELSE smem

(* The fetch of sim_step.  A register byte or an immediate beyond the end  *)
(* of memory reads as none and 0: seq_Stat drops the status set there.     *)
Fetched(mem, pc) ==
    LET imem_error == ~get_byte_ok(pc)
        icode == IF imem_error THEN I_NOP ELSE HI4(mem[pc])
        regpc == Wrap(pc + 1)
        regs == seq_need_regids(icode) /\ get_byte_ok(regpc)
        valpc == IF seq_need_regids(icode) THEN Wrap(pc + 2) ELSE regpc
        imm == seq_need_valC(icode)
    IN  [imem_error |-> imem_error,
         icode |-> icode,
         ifun |-> IF imem_error THEN 0 ELSE LO4(mem[pc]),
         ra |-> IF regs THEN HI4(mem[regpc]) ELSE REG_NONE,
         rb |-> IF regs THEN LO4(mem[regpc]) ELSE REG_NONE,
         valc |-> IF imm /\ get_word_ok(valpc) THEN get_word_val(mem, valpc) ELSE 0,
         valp |-> IF imm THEN Wrap(valpc + WordBytes) ELSE valpc]

SeqInit(image) ==
    /\ spc = 0
    /\ sreg = [i \in 0 .. REG_NONE - 1 |-> 0]
    /\ smem = image
    /\ scc = DEFAULT_CC
    /\ spend = [pc |-> 0, cc |-> DEFAULT_CC, destE |-> REG_NONE, vale |-> 0,
                destM |-> REG_NONE, valm |-> 0,
                mem_write |-> FALSE, mem_addr |-> 0, mem_data |-> 0]
    /\ sstat = "AOK"

(* sim_step; sim_run calls it again while the status is AOK. *)
sim_step ==
    LET pc == spend.pc
        i == Fetched(PendingMem, pc)
        vala == get_reg_val(PendingRegs, seq_srcA(i))
        valb == get_reg_val(PendingRegs, seq_srcB(i))
        cond == cond_holds(spend.cc, i.ifun)
        vale == compute_alu(seq_alufun(i), seq_aluA(i, vala), seq_aluB(i, valb))
        addr == seq_mem_addr(i, vala, vale)
        uses_mem == seq_mem_read(i) \/ seq_mem_write(i)
        dmem_error == uses_mem /\ ~get_word_ok(addr)
        valm == IF ~seq_mem_read(i) THEN 0
                ELSE IF dmem_error THEN spend.valm ELSE get_word_val(PendingMem, addr)
    IN  /\ sstat = "AOK"
        /\ spc' = pc
        /\ sreg' = PendingRegs
        /\ smem' = PendingMem
        /\ scc' = spend.cc
        /\ spend' = [pc |-> seq_new_pc(i, cond, valm),
                     cc |-> IF seq_set_cc(i)
                            THEN compute_cc(seq_alufun(i), seq_aluA(i, vala), seq_aluB(i, valb))
                            ELSE spend.cc,
                     destE |-> seq_dstE(i, cond), vale |-> vale,
                     destM |-> seq_dstM(i), valm |-> valm,
                     mem_write |-> seq_mem_write(i), mem_addr |-> addr,
                     mem_data |-> seq_mem_data(i, vala)]
        /\ sstat' = seq_Stat(i, dmem_error)

-----------------------------------------------------------------------------
(* The state a program has reached: the pending writes count, except those *)
(* of an instruction that was refused, which sim_run never lets happen.    *)
SeqDone == sstat = "AOK"
SeqPc == IF SeqDone THEN spend.pc ELSE spc
SeqRegs == IF SeqDone THEN PendingRegs ELSE sreg
SeqMem == IF SeqDone THEN PendingMem ELSE smem
SeqCC == IF SeqDone THEN spend.cc ELSE scc

(* The instruction set as the sequential processor implements it. *)
SeqIsa == INSTANCE Isa WITH pc <- SeqPc, r <- SeqRegs, m <- SeqMem, cc <- SeqCC, stat <- sstat
=============================================================================
