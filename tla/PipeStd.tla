------------------------------ MODULE PipeStd -------------------------------
(***************************************************************************)
(* The control logic of the standard pipeline (lab7/sim/pipe/pipe-std.c,   *)
(* generated by hcl2c from pipe-std.hcl).  F, D, E, M, W are the pipeline  *)
(* registers in front of each stage (pc_curr .. mem_wb_curr); nE, nM, nW   *)
(* are what a stage has put in the next register during this cycle         *)
(* (id_ex_next, ex_mem_next, mem_wb_next).                                 *)
(***************************************************************************)
EXTENDS IsaOps

Bad == {"ADR", "INS", "HLT"}
Loads == {I_MRMOVQ, I_POPQ}
Returns(D, E, M) == I_RET \in {D.icode, E.icode, M.icode}

gen_f_pc(F, M, W) ==
    IF M.icode = I_JMP /\ ~M.takebranch THEN M.vala
    ELSE IF W.icode = I_RET THEN W.valm
    ELSE F.pc

gen_instr_valid(icode) == icode \in I_HALT .. I_POPQ

gen_f_stat(imem_error, valid, icode) ==
    IF imem_error THEN "ADR"
    ELSE IF ~valid THEN "INS"
    ELSE IF icode = I_HALT THEN "HLT"
    ELSE "AOK"

gen_need_regids(icode) ==
    icode \in {I_RRMOVQ, I_ALU, I_PUSHQ, I_POPQ, I_IRMOVQ, I_RMMOVQ, I_MRMOVQ}
gen_need_valC(icode) == icode \in {I_IRMOVQ, I_RMMOVQ, I_MRMOVQ, I_JMP, I_CALL}

(* Branches are predicted taken. *)
gen_f_predPC(icode, valc, valp) == IF icode \in {I_JMP, I_CALL} THEN valc ELSE valp

gen_d_srcA(D) ==
    IF D.icode \in {I_RRMOVQ, I_RMMOVQ, I_ALU, I_PUSHQ} THEN D.ra
    ELSE IF D.icode \in {I_POPQ, I_RET} THEN REG_RSP
    ELSE REG_NONE
gen_d_srcB(D) ==
    IF D.icode \in {I_ALU, I_RMMOVQ, I_MRMOVQ} THEN D.rb
    ELSE IF D.icode \in {I_PUSHQ, I_POPQ, I_CALL, I_RET} THEN REG_RSP
    ELSE REG_NONE
gen_d_dstE(D) ==
    IF D.icode \in {I_RRMOVQ, I_IRMOVQ, I_ALU} THEN D.rb
    ELSE IF D.icode \in {I_PUSHQ, I_POPQ, I_CALL, I_RET} THEN REG_RSP
    ELSE REG_NONE
gen_d_dstM(D) == IF D.icode \in Loads THEN D.ra ELSE REG_NONE

(* Mutant: what is being written back comes before what is in memory.      *)
ForwardOldest(src, regval, M, W, nM, nW) ==
    IF src = nM.deste THEN nM.vale
    ELSE IF src = W.destm THEN W.valm
    ELSE IF src = W.deste THEN W.vale
    ELSE IF src = M.destm THEN nW.valm
    ELSE IF src = M.deste THEN M.vale
    ELSE regval

(* Forwarding: the youngest instruction that will write src comes first.   *)
gen_d_valB(src, regval, M, W, nM, nW) ==
    IF src = nM.deste THEN nM.vale
    ELSE IF src = M.destm THEN nW.valm
    ELSE IF src = M.deste THEN M.vale
    ELSE IF src = W.destm THEN W.valm
    ELSE IF src = W.deste THEN W.vale
    ELSE regval

gen_d_valA(D, src, regval, M, W, nM, nW) ==
    IF D.icode \in {I_CALL, I_JMP} THEN D.valp
    ELSE gen_d_valB(src, regval, M, W, nM, nW)

gen_aluA(E) ==
    IF E.icode \in {I_RRMOVQ, I_ALU} THEN E.vala
    ELSE IF E.icode \in {I_IRMOVQ, I_RMMOVQ, I_MRMOVQ} THEN E.valc
    ELSE IF E.icode \in {I_CALL, I_PUSHQ} THEN Wrap(-WordBytes)
    ELSE IF E.icode \in {I_RET, I_POPQ} THEN WordBytes
    ELSE 0
gen_aluB(E) ==
    IF E.icode \in {I_RMMOVQ, I_MRMOVQ, I_ALU, I_CALL, I_PUSHQ, I_RET, I_POPQ}
    THEN E.valb ELSE 0
gen_alufun(E) == IF E.icode = I_ALU THEN E.ifun ELSE A_ADD

(* The condition codes are left alone behind an instruction that fails.    *)
gen_set_cc(E, W, nW) == E.icode = I_ALU /\ nW.status \notin Bad /\ W.status \notin Bad

gen_e_valA(E) == E.vala
gen_e_dstE(E, takebranch) ==
    IF E.icode = I_RRMOVQ /\ ~takebranch THEN REG_NONE ELSE E.deste

gen_mem_addr(M) ==
    IF M.icode \in {I_RMMOVQ, I_PUSHQ, I_CALL, I_MRMOVQ} THEN M.vale
    ELSE IF M.icode \in {I_POPQ, I_RET} THEN M.vala
    ELSE 0
gen_mem_read(M) == M.icode \in {I_MRMOVQ, I_POPQ, I_RET}
gen_mem_write(M) == M.icode \in {I_RMMOVQ, I_PUSHQ, I_CALL}
gen_m_stat(M, dmem_error) == IF dmem_error THEN "ADR" ELSE M.status

gen_Stat(W) == IF W.status = "BUB" THEN "AOK" ELSE W.status

-----------------------------------------------------------------------------
(* Pipeline control. *)

(* Mutant: any load stalls what follows. *)
LoadAnyUse(E, nE) == E.icode \in Loads /\ nE.srca # REG_NONE

LoadUse(E, nE) == E.icode \in Loads /\ E.destm \in {nE.srca, nE.srcb}
Mispredicted(E, nM) == E.icode = I_JMP /\ ~nM.takebranch

gen_F_stall(D, E, M, nE) == LoadUse(E, nE) \/ Returns(D, E, M)
gen_D_stall(E, nE) == LoadUse(E, nE)
(* Mutant: a ret behind a load is bubbled while it is stalled. *)
BubbleStalled(D, E, M, nE, nM) == Mispredicted(E, nM) \/ Returns(D, E, M)
gen_D_bubble(D, E, M, nE, nM) ==
    Mispredicted(E, nM) \/ (~LoadUse(E, nE) /\ Returns(D, E, M))
gen_E_bubble(E, nE, nM) == Mispredicted(E, nM) \/ LoadUse(E, nE)
gen_M_bubble(W, nW) == nW.status \in Bad \/ W.status \in Bad
gen_W_stall(W) == W.status \in Bad
=============================================================================
