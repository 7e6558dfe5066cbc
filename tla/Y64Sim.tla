------------------------------- MODULE Y64Sim -------------------------------
(***************************************************************************)
(* The student's instruction simulator (lab5/y64sim.c): nexti executes one *)
(* instruction, main calls it while the status is AOK.  It tests the sign  *)
(* of the lower half of a result, never the overflow flag in a condition,  *)
(* and no register number.                                                 *)
(***************************************************************************)
EXTENDS IsaOps

VARIABLES ypc, yr, ym, ycc, ystat

yvars == <<ypc, yr, ym, ycc, ystat>>

(* new_y64sim and load_binfile. *)
Y64Init(image) ==
    /\ ypc = 0
    /\ yr = [i \in 0 .. REG_NONE - 1 |-> 0]
    /\ ym = image
    /\ ycc = DEFAULT_CC
    /\ ystat = "AOK"

-----------------------------------------------------------------------------
HalfModulus == 2 ^ (4 * WordBytes)

(* SF is the sign of (int) val; a sum or difference of 0 is never taken    *)
(* for an overflow, nor is a difference from 0.                            *)
y_compute_cc(op, argA, argB, val) ==
    LET pos(w) == Signed(w) > 0
        neg(w) == Signed(w) < 0
    IN  [zf |-> val = 0,
         sf |-> 2 * (val % HalfModulus) >= HalfModulus,
         of |-> CASE op = A_ADD -> \/ pos(argA) /\ pos(argB) /\ neg(val)
                                   \/ neg(argA) /\ neg(argB) /\ pos(val)
                  [] op = A_SUB -> \/ pos(argA) /\ neg(argB) /\ pos(val)
                                   \/ neg(argA) /\ pos(argB) /\ neg(val)
                  [] OTHER -> FALSE]

(* Mutant: equal is not less or equal. *)
cond_strict(cc, cond) == IF cond = C_LE THEN cc.sf ELSE cond = C_YES

cond_doit(cc, cond) ==
    CASE cond = C_YES -> TRUE
      [] cond = C_LE -> cc.zf \/ cc.sf
      [] cond = C_L -> cc.sf
      [] cond = C_E -> cc.zf
      [] cond = C_NE -> ~cc.zf
      [] cond = C_GE -> ~cc.sf
      [] cond = C_G -> ~cc.zf /\ ~cc.sf
      [] OTHER -> FALSE

-----------------------------------------------------------------------------
(* Fetch. *)
y_icode == HI4(ym[ypc])
y_ifun == LO4(ym[ypc])
y_regs == y_icode \in {I_RRMOVQ, I_IRMOVQ, I_RMMOVQ, I_MRMOVQ, I_ALU, I_PUSHQ, I_POPQ}
y_has_imm == y_icode \in {I_IRMOVQ, I_RMMOVQ, I_MRMOVQ, I_JMP, I_CALL}
y_immpc == Wrap(ypc + IF y_regs THEN 2 ELSE 1)
next_pc == Wrap(y_immpc + IF y_has_imm THEN WordBytes ELSE 0)

Fetches == /\ get_byte_ok(ypc)
           /\ y_regs => get_byte_ok(Wrap(ypc + 1))
           /\ y_has_imm => get_word_ok(y_immpc)

regAid == HI4(ym[ypc + 1])
regBid == LO4(ym[ypc + 1])
imm == get_word_val(ym, y_immpc)
valA == get_reg_val(yr, regAid)
valB == get_reg_val(yr, regBid)
top == yr[REG_RSP]
pushed == Wrap(top - WordBytes)
popped == Wrap(top + WordBytes)

Does(icode) == ystat = "AOK" /\ Fetches /\ y_icode = icode

-----------------------------------------------------------------------------
YNop == Does(I_NOP) /\ ypc' = next_pc /\ UNCHANGED <<yr, ym, ycc, ystat>>

YRrmovq == /\ Does(I_RRMOVQ)
           /\ yr' = IF cond_doit(ycc, y_ifun) THEN set_reg_val(yr, regBid, valA) ELSE yr
           /\ ypc' = next_pc
           /\ UNCHANGED <<ym, ycc, ystat>>

YIrmovq == /\ Does(I_IRMOVQ)
           /\ yr' = set_reg_val(yr, regBid, imm)
           /\ ypc' = next_pc
           /\ UNCHANGED <<ym, ycc, ystat>>

YRmmovq == /\ Does(I_RMMOVQ)
           /\ get_word_ok(Wrap(imm + valB))
           /\ ym' = set_word_val(ym, Wrap(imm + valB), valA)
           /\ ypc' = next_pc
           /\ UNCHANGED <<yr, ycc, ystat>>

YMrmovq == /\ Does(I_MRMOVQ)
           /\ get_word_ok(Wrap(imm + valB))
           /\ yr' = set_reg_val(yr, regAid, get_word_val(ym, Wrap(imm + valB)))
           /\ ypc' = next_pc
           /\ UNCHANGED <<ym, ycc, ystat>>

YAlu == LET val == compute_alu(y_ifun, valA, valB)
        IN  /\ Does(I_ALU)
            /\ ycc' = y_compute_cc(y_ifun, valA, valB, val)
            /\ yr' = set_reg_val(yr, regBid, val)
            /\ ypc' = next_pc
            /\ UNCHANGED <<ym, ystat>>

YJmp == /\ Does(I_JMP)
        /\ ypc' = IF cond_doit(ycc, y_ifun) THEN imm ELSE next_pc
        /\ UNCHANGED <<yr, ym, ycc, ystat>>

(* %rsp is moved before the store is tried, and stays moved if it fails.   *)
YCall == /\ Does(I_CALL)
         /\ yr' = [yr EXCEPT ![REG_RSP] = pushed]
         /\ IF get_word_ok(pushed)
            THEN ym' = set_word_val(ym, pushed, next_pc) /\ ypc' = imm /\ ystat' = ystat
            ELSE ystat' = "ADR" /\ UNCHANGED <<ym, ypc>>
         /\ UNCHANGED ycc

YRet == /\ Does(I_RET)
        /\ yr' = [yr EXCEPT ![REG_RSP] = popped]
        /\ IF get_word_ok(top)
           THEN ypc' = get_word_val(ym, top) /\ ystat' = ystat
           ELSE ystat' = "ADR" /\ ypc' = ypc
        /\ UNCHANGED <<ym, ycc>>

YPushq == /\ Does(I_PUSHQ)
          /\ yr' = [yr EXCEPT ![REG_RSP] = pushed]
          /\ IF get_word_ok(pushed)
             THEN ym' = set_word_val(ym, pushed, valA) /\ ypc' = next_pc /\ ystat' = ystat
             ELSE ystat' = "ADR" /\ UNCHANGED <<ym, ypc>>
          /\ UNCHANGED ycc

YPopq == /\ Does(I_POPQ)
         /\ IF get_word_ok(top)
            THEN /\ yr' = set_reg_val([yr EXCEPT ![REG_RSP] = popped], regAid,
                                      get_word_val(ym, top))
                 /\ ypc' = next_pc /\ ystat' = ystat
            ELSE /\ yr' = [yr EXCEPT ![REG_RSP] = popped]
                 /\ ystat' = "ADR" /\ ypc' = ypc
         /\ UNCHANGED <<ym, ycc>>

(* halt, an unknown instruction, and an address that cannot be used.       *)
YStop ==
    /\ ystat = "AOK"
    /\ \/ ~Fetches /\ ystat' = "ADR"
       \/ Does(I_HALT) /\ ystat' = "HLT"
       \/ Fetches /\ y_icode > I_POPQ /\ ystat' = "INS"
       \/ /\ Does(I_RMMOVQ) \/ Does(I_MRMOVQ)
          /\ ~get_word_ok(Wrap(imm + valB))
          /\ ystat' = "ADR"
    /\ UNCHANGED <<ypc, yr, ym, ycc>>

nexti ==
    \/ YNop \/ YRrmovq \/ YIrmovq \/ YRmmovq \/ YMrmovq \/ YAlu \/ YJmp
    \/ YCall \/ YRet \/ YPushq \/ YPopq \/ YStop
=============================================================================
