-------------------------------- MODULE Psim --------------------------------
(***************************************************************************)
(* The pipelined processor (lab7/sim/pipe: psim.c), with the control logic *)
(* of pipe-std.c or of pipe-full.c.  One action is one cycle of            *)
(* sim_run_pipe: the state computed in the cycle before is loaded, then    *)
(* the stages run in the order IF, MEM, EX, ID/WB.                         *)
(***************************************************************************)
EXTENDS PipeFull

CONSTANTS MaxInstr      \* instr_limit

ASSUME LimitAssumption == MaxInstr \in Nat \ {0}

VARIABLES hcl,          \* "std" or "full": which control logic is linked in
          preg, pmem, pcc,
          cur,          \* pipeline registers F, D, E, M, W: current
          nxt,          \* ... and what the stages have put in them
          op,           \* how each is updated next
          wb,           \* writes due at the start of the next cycle
          pstat,        \* status (gen_Stat) of the last cycle
          icount,       \* sim_run_pipe's count
          instructions, cycles, starting_up     \* performance counters

pvars == <<hcl, preg, pmem, pcc, cur, nxt, op, wb, pstat, icount, instructions,
           cycles, starting_up>>

Stages == {"F", "D", "E", "M", "W"}

bubble == [
    F |-> [pc |-> 0],
    D |-> [icode |-> I_NOP, ifun |-> 0, ra |-> REG_NONE, rb |-> REG_NONE,
           valc |-> 0, valp |-> 0, status |-> "BUB"],
    E |-> [icode |-> I_NOP, ifun |-> 0, valc |-> 0, vala |-> 0, valb |-> 0,
           srca |-> REG_NONE, srcb |-> REG_NONE, deste |-> REG_NONE,
           destm |-> REG_NONE, status |-> "BUB"],
    M |-> [icode |-> I_NOP, takebranch |-> FALSE, vale |-> 0, vala |-> 0,
           deste |-> REG_NONE, destm |-> REG_NONE, status |-> "BUB"],
    W |-> [icode |-> I_NOP, vale |-> 0, valm |-> 0, deste |-> REG_NONE,
           destm |-> REG_NONE, status |-> "BUB"]]

(* sim_init and sim_reset, then load_mem. *)
PipeInit(image) ==
    /\ preg = [i \in 0 .. REG_NONE - 1 |-> 0]
    /\ pmem = image
    /\ pcc = DEFAULT_CC
    /\ cur = bubble /\ nxt = bubble
    /\ op = [s \in Stages |-> "LOAD"]
    /\ wb = [destE |-> REG_NONE, valE |-> 0, destM |-> REG_NONE, valM |-> 0,
             mem_write |-> FALSE, mem_addr |-> 0, mem_data |-> 0, cc |-> DEFAULT_CC]
    /\ pstat = "AOK"
    /\ icount = 0 /\ instructions = 0 /\ cycles = 0 /\ starting_up = TRUE

-----------------------------------------------------------------------------
(* update_state.  Near the instruction limit the memory write and the new  *)
(* condition codes are held back if enough instructions are ahead.         *)

WrittenBack == set_reg_val(set_reg_val(preg, wb.destE, wb.valE), wb.destM, wb.valM)

Stored(update_mem) ==
    IF update_mem /\ wb.mem_write /\ get_word_ok(wb.mem_addr)
    THEN set_word_val(pmem, wb.mem_addr, wb.mem_data)
    ELSE pmem

(* update_pipes, and the status sim_step_pipe gives a register in error.   *)
Updated(s) ==
    CASE op[s] = "LOAD" -> nxt[s]
      [] op[s] = "STALL" -> cur[s]
      [] op[s] = "BUBBLE" -> bubble[s]
      [] op[s] = "ERROR" -> IF s = "F" THEN bubble.F
                            ELSE [bubble[s] EXCEPT !.status = "PIP"]

pipe_cntl(stall, bub) ==
    IF stall THEN IF bub THEN "ERROR" ELSE "STALL"
    ELSE IF bub THEN "BUBBLE" ELSE "LOAD"

-----------------------------------------------------------------------------
(* The stages.  Each returns what it puts in the next pipeline register.   *)

full == hcl = "full"

(* do_if_stage: the PC it fetches at, then the instruction found there.  A *)
(* fetch also needs the byte just beyond half a word to be readable.       *)
f_pc(F, D, E, M, W) == IF full THEN full_f_pc(F, D, E, M, W) ELSE gen_f_pc(F, M, W)

do_if_stage(mem, pc) ==
    LET found == get_byte_ok(pc)
        imem_error == ~found \/ ~get_byte_ok(Wrap(pc + (WordBytes \div 2) + 1))
        icode == IF imem_error THEN I_NOP ELSE HI4(mem[pc])
        valid == IF full THEN full_instr_valid(icode) ELSE gen_instr_valid(icode)
        regs == IF full THEN full_need_regids(icode) ELSE gen_need_regids(icode)
        imm == IF full THEN full_need_valC(icode) ELSE gen_need_valC(icode)
        regpc == Wrap(pc + 1)
        immpc == IF regs THEN Wrap(pc + 2) ELSE regpc
        ids == IF regs /\ get_byte_ok(regpc) THEN mem[regpc] ELSE HPACK(REG_NONE, REG_NONE)
    IN  [icode |-> icode,
         ifun |-> IF imem_error THEN 0 ELSE LO4(mem[pc]),
         ra |-> HI4(ids), rb |-> LO4(ids),
         valc |-> IF imm /\ get_word_ok(immpc) THEN get_word_val(mem, immpc) ELSE 0,
         valp |-> IF imm THEN Wrap(immpc + WordBytes) ELSE immpc,
         status |-> gen_f_stat(imem_error, valid, icode)]

(* do_mem_stage: a write is checked here and done in the next cycle.       *)
do_mem_stage(mem, M) ==
    LET addr == gen_mem_addr(M)
        ok == get_word_ok(addr)
        dmem_error == (gen_mem_read(M) \/ gen_mem_write(M)) /\ ~ok
    IN  [icode |-> M.icode, vale |-> M.vale,
         valm |-> IF gen_mem_read(M) /\ ok THEN get_word_val(mem, addr) ELSE 0,
         deste |-> M.deste, destm |-> M.destm,
         status |-> gen_m_stat(M, dmem_error)]

EX_argA(E) == IF full THEN full_aluA(E) ELSE gen_aluA(E)
EX_argB(E) == IF full THEN full_aluB(E) ELSE gen_aluB(E)

do_ex_stage(cc, E, M, nW) ==
    LET takebranch == cond_holds(cc, E.ifun)
    IN  [icode |-> E.icode, takebranch |-> takebranch,
         vale |-> compute_alu(gen_alufun(E), EX_argA(E), EX_argB(E)),
         vala |-> IF full THEN full_e_valA(E, M, nW) ELSE gen_e_valA(E),
         deste |-> gen_e_dstE(E, takebranch), destm |-> E.destm,
         status |-> E.status]

do_id_stage(reg, D, M, W, nM, nW) ==
    LET srca == gen_d_srcA(D)
        srcb == IF full THEN full_d_srcB(D) ELSE gen_d_srcB(D)
    IN  [icode |-> D.icode, ifun |-> D.ifun, valc |-> D.valc,
         vala |-> gen_d_valA(D, srca, get_reg_val(reg, srca), M, W, nM, nW),
         valb |-> gen_d_valB(srcb, get_reg_val(reg, srcb), M, W, nM, nW),
         srca |-> srca, srcb |-> srcb,
         deste |-> IF full THEN full_d_dstE(D) ELSE gen_d_dstE(D),
         destm |-> gen_d_dstM(D), status |-> D.status]

do_stall_check(D, E, M, W, nE, nM, nW) ==
    [F |-> pipe_cntl(IF full THEN full_F_stall(D, E, M, W, nE)
                     ELSE gen_F_stall(D, E, M, nE), FALSE),
     D |-> pipe_cntl(IF full THEN full_D_stall(D, E, nE) ELSE gen_D_stall(E, nE),
                     IF full THEN full_D_bubble(D, E, M, W, nE, nM)
                     ELSE gen_D_bubble(D, E, M, nE, nM)),
     E |-> pipe_cntl(FALSE, IF full THEN full_E_bubble(D, E, nE, nM)
                            ELSE gen_E_bubble(E, nE, nM)),
     M |-> pipe_cntl(FALSE, gen_M_bubble(W, nW)),
     W |-> pipe_cntl(gen_W_stall(W), FALSE)]

-----------------------------------------------------------------------------
(* sim_run_pipe goes on until the limit or a status other than AOK.  Its   *)
(* count grows in every cycle: gen_Stat reports a bubble in W as AOK.      *)
Running == icount < MaxInstr /\ pstat = "AOK"

sim_step_pipe(max_instr) ==
    LET ahead_mem == IF cur.W.status # "BUB" THEN 1 ELSE 0
        ahead_ex == ahead_mem + (IF nxt.W.status # "BUB" THEN 1 ELSE 0)
        mem == Stored(ahead_mem < max_instr)
        cc == IF ahead_ex < max_instr THEN wb.cc ELSE pcc
        F == Updated("F")   D == Updated("D")   E == Updated("E")
        M == Updated("M")   W == Updated("W")
        nD == do_if_stage(mem, f_pc(F, D, E, M, W))
        nW == do_mem_stage(mem, M)
        nM == do_ex_stage(cc, E, M, nW)
        nE == do_id_stage(WrittenBack, D, M, W, nM, nW)
        set_cc == IF full THEN full_set_cc(E, W, nW) ELSE gen_set_cc(E, W, nW)
        retired == W.status # "BUB" /\ W.icode # I_POP2
    IN  /\ preg' = WrittenBack
        /\ pmem' = mem
        /\ pcc' = cc
        /\ cur' = [F |-> F, D |-> D, E |-> E, M |-> M, W |-> W]
        /\ nxt' = [F |-> [pc |-> gen_f_predPC(nD.icode, nD.valc, nD.valp)],
                   D |-> nD, E |-> nE, M |-> nM, W |-> nW]
        /\ op' = do_stall_check(D, E, M, W, nE, nM, nW)
        /\ wb' = [destE |-> W.deste, valE |-> W.vale, destM |-> W.destm, valM |-> W.valm,
                  mem_write |-> gen_mem_write(M), mem_addr |-> gen_mem_addr(M),
                  mem_data |-> M.vala,
                  cc |-> IF set_cc THEN compute_cc(gen_alufun(E), EX_argA(E), EX_argB(E))
                         ELSE wb.cc]
        /\ pstat' = gen_Stat(W)
        /\ instructions' = instructions + (IF retired THEN 1 ELSE 0)
        /\ cycles' = cycles + (IF retired \/ ~starting_up THEN 1 ELSE 0)
        /\ starting_up' = (starting_up /\ ~retired)

Cycle ==
    /\ Running
    /\ sim_step_pipe(MaxInstr - icount)
    /\ icount' = icount + 1
    /\ UNCHANGED hcl
=============================================================================
