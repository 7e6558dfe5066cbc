------------------------------ MODULE PipeFull ------------------------------
(***************************************************************************)
(* The functions in which the optimised pipeline (lab7/sim/pipe/           *)
(* pipe-full.c, the solution of the lab) differs from the standard one: it *)
(* has iaddq, feeds a loaded word straight to a store that follows, and    *)
(* fetches the target of a ret that follows a pushq without waiting.       *)
(***************************************************************************)
EXTENDS PipeStd

full_f_pc(F, D, E, M, W) ==
    IF M.icode = I_JMP /\ ~M.takebranch THEN M.vala
    ELSE IF W.icode = I_RET /\ M.icode = I_NOP THEN W.valm
    ELSE IF D.icode = I_RET /\ E.icode = I_PUSHQ THEN E.vala
    ELSE F.pc

full_instr_valid(icode) == icode \in I_HALT .. I_IADDQ
full_need_regids(icode) == gen_need_regids(icode) \/ icode = I_IADDQ
full_need_valC(icode) == gen_need_valC(icode) \/ icode = I_IADDQ

full_d_srcB(D) == IF D.icode = I_IADDQ THEN D.rb ELSE gen_d_srcB(D)
full_d_dstE(D) == IF D.icode = I_IADDQ THEN D.rb ELSE gen_d_dstE(D)

full_aluA(E) == IF E.icode = I_IADDQ THEN E.valc ELSE gen_aluA(E)
full_aluB(E) == IF E.icode = I_IADDQ THEN E.valb ELSE gen_aluB(E)

full_set_cc(E, W, nW) ==
    E.icode \in {I_ALU, I_IADDQ} /\ nW.status \notin Bad /\ W.status \notin Bad

full_e_valA(E, M, nW) ==
    IF M.icode \in Loads /\ M.destm \in {E.srca, E.srcb} /\ E.icode = I_RMMOVQ
    THEN nW.valm ELSE E.vala

-----------------------------------------------------------------------------
(* A store behind the load of its operand does not wait; a ret behind a    *)
(* pushq does not either.                                                  *)
FullLoadUse(D, E, nE) == LoadUse(E, nE) /\ D.icode # I_RMMOVQ
SlowReturn(front, back) == front.icode = I_RET /\ back.icode # I_PUSHQ
LaterReturns(E, M, W) == SlowReturn(E, M) \/ SlowReturn(M, W)

full_F_stall(D, E, M, W, nE) ==
    FullLoadUse(D, E, nE) \/ SlowReturn(D, E) \/ LaterReturns(E, M, W)
full_D_stall(D, E, nE) == FullLoadUse(D, E, nE)
full_D_bubble(D, E, M, W, nE, nM) ==
    \/ Mispredicted(E, nM)
    \/ ~FullLoadUse(D, E, nE) /\ SlowReturn(D, E)
    \/ LaterReturns(E, M, W)
full_E_bubble(D, E, nE, nM) == Mispredicted(E, nM) \/ FullLoadUse(D, E, nE)
=============================================================================
