-------------------------------- MODULE Isa ---------------------------------
(***************************************************************************)
(* The instruction-set simulator (lab7/sim/misc/isa.c step_state, driven by*)
(* yis.c and by the -t option of ssim and psim): the state a Y86-64        *)
(* program sees, one action per instruction.  The other simulators are     *)
(* checked against it.                                                     *)
(***************************************************************************)
EXTENDS IsaOps

VARIABLES pc,       \* Word
          r,        \* register file
          m,        \* memory
          cc,       \* condition codes
          stat      \* what the last step_state returned: "AOK" lets yis go on

ivars == <<pc, r, m, cc, stat>>

TypeOK ==
    /\ pc \in Word /\ r \in Regs /\ m \in Mem /\ cc \in CC
    /\ stat \in {"AOK", "HLT", "ADR", "INS"}

(* new_state, with the image that load_mem has read. *)
Init(image) ==
    /\ pc = 0
    /\ r = [i \in 0 .. REG_NONE - 1 |-> 0]
    /\ m = image
    /\ cc = DEFAULT_CC
    /\ stat = "AOK"

-----------------------------------------------------------------------------
(* Fetch. *)

hi0 == HI4(m[pc])
lo0 == LO4(m[pc])

need_regids ==
    hi0 \in {I_RRMOVQ, I_ALU, I_PUSHQ, I_POPQ, I_IRMOVQ, I_RMMOVQ, I_MRMOVQ, I_IADDQ}
need_imm == hi0 \in {I_IRMOVQ, I_RMMOVQ, I_MRMOVQ, I_JMP, I_CALL, I_IADDQ}

immpc == Wrap(pc + IF need_regids THEN 2 ELSE 1)
ftpc == Wrap(immpc + IF need_imm THEN WordBytes ELSE 0)

ok1 == ~need_regids \/ get_byte_ok(Wrap(pc + 1))
hi1 == HI4(m[pc + 1])
lo1 == LO4(m[pc + 1])
okc == ~need_imm \/ get_word_ok(immpc)
cval == get_word_val(m, immpc)

rsp == r[REG_RSP]
below == Wrap(rsp - WordBytes)
base == Wrap(cval + get_reg_val(r, lo1))

-----------------------------------------------------------------------------
(* Why an instruction is refused, in the order of the code's tests; "AOK"  *)
(* if it is executed.                                                      *)

BadReg ==
    \/ hi0 \in {I_RRMOVQ, I_RMMOVQ, I_MRMOVQ, I_PUSHQ, I_POPQ} /\ ~reg_valid(hi1)
    \/ hi0 \in {I_RRMOVQ, I_IRMOVQ, I_IADDQ} /\ ~reg_valid(lo1)

Stacking == hi0 \in {I_CALL, I_PUSHQ}

(* The word of memory the instruction uses, if it uses one. *)
DataAddress ==
    IF hi0 \in {I_RMMOVQ, I_MRMOVQ} THEN base ELSE IF Stacking THEN below ELSE rsp

BadData ==
    /\ hi0 \in {I_RMMOVQ, I_MRMOVQ, I_CALL, I_RET, I_PUSHQ, I_POPQ}
    /\ ~get_word_ok(DataAddress)

Refusal ==
    IF ~get_byte_ok(pc) THEN "ADR"
    ELSE IF hi0 = I_HALT THEN "HLT"
    ELSE IF hi0 > I_IADDQ THEN "INS"
    ELSE IF ~ok1 THEN "ADR"
    ELSE IF ~okc THEN IF hi0 \in {I_JMP, I_CALL} THEN "ADR" ELSE "INS"
    ELSE IF BadReg THEN "INS"
    ELSE IF BadData THEN "ADR"
    ELSE "AOK"

Executes(icode) == stat = "AOK" /\ Refusal = "AOK" /\ hi0 = icode

Nop == /\ Executes(I_NOP)
       /\ pc' = ftpc
       /\ UNCHANGED <<r, m, cc, stat>>

Rrmovq ==
    /\ Executes(I_RRMOVQ)
    /\ r' = IF cond_holds(cc, lo0) THEN [r EXCEPT ![lo1] = r[hi1]] ELSE r
    /\ pc' = ftpc
    /\ UNCHANGED <<m, cc, stat>>

Irmovq ==
    /\ Executes(I_IRMOVQ)
    /\ r' = [r EXCEPT ![lo1] = cval]
    /\ pc' = ftpc
    /\ UNCHANGED <<m, cc, stat>>

Rmmovq ==
    /\ Executes(I_RMMOVQ)
    /\ m' = set_word_val(m, base, r[hi1])
    /\ pc' = ftpc
    /\ UNCHANGED <<r, cc, stat>>

Mrmovq ==
    /\ Executes(I_MRMOVQ)
    /\ r' = [r EXCEPT ![hi1] = get_word_val(m, base)]
    /\ pc' = ftpc
    /\ UNCHANGED <<m, cc, stat>>

Alu ==
    LET argA == get_reg_val(r, hi1)
        argB == get_reg_val(r, lo1)
    IN  /\ Executes(I_ALU)
        /\ r' = set_reg_val(r, lo1, compute_alu(lo0, argA, argB))
        /\ cc' = compute_cc(lo0, argA, argB)
        /\ pc' = ftpc
        /\ UNCHANGED <<m, stat>>

Jmp == /\ Executes(I_JMP)
       /\ pc' = IF cond_holds(cc, lo0) THEN cval ELSE ftpc
       /\ UNCHANGED <<r, m, cc, stat>>

Call == /\ Executes(I_CALL)
        /\ r' = [r EXCEPT ![REG_RSP] = below]
        /\ m' = set_word_val(m, below, ftpc)
        /\ pc' = cval
        /\ UNCHANGED <<cc, stat>>

Ret == /\ Executes(I_RET)
       /\ r' = [r EXCEPT ![REG_RSP] = Wrap(rsp + WordBytes)]
       /\ pc' = get_word_val(m, rsp)
       /\ UNCHANGED <<m, cc, stat>>

(* The value is read before %rsp is moved, so pushq %rsp stores the old one. *)
Pushq == /\ Executes(I_PUSHQ)
         /\ r' = [r EXCEPT ![REG_RSP] = below]
         /\ m' = set_word_val(m, below, r[hi1])
         /\ pc' = ftpc
         /\ UNCHANGED <<cc, stat>>

(* ... and popq %rsp leaves the popped value. *)
Popq == /\ Executes(I_POPQ)
        /\ r' = [r EXCEPT ![REG_RSP] = Wrap(rsp + WordBytes), ![hi1] = get_word_val(m, rsp)]
        /\ pc' = ftpc
        /\ UNCHANGED <<m, cc, stat>>

Iaddq ==
    /\ Executes(I_IADDQ)
    /\ r' = [r EXCEPT ![lo1] = compute_alu(A_ADD, cval, @)]
    /\ cc' = compute_cc(A_ADD, cval, r[lo1])
    /\ pc' = ftpc
    /\ UNCHANGED <<m, stat>>

(* An instruction that is refused leaves the state, except that call,      *)
(* pushq and popq have already moved %rsp when the stack access fails.     *)
StackFault == /\ get_byte_ok(pc) /\ ok1 /\ okc
              /\ Stacking \/ hi0 = I_POPQ
              /\ ~BadReg /\ BadData

Stop ==
    /\ stat = "AOK" /\ Refusal # "AOK"
    /\ stat' = Refusal
    /\ r' = IF StackFault
            THEN [r EXCEPT ![REG_RSP] = IF Stacking THEN below ELSE Wrap(rsp + WordBytes)]
            ELSE r
    /\ UNCHANGED <<pc, m, cc>>

step_state ==
    \/ Nop \/ Rrmovq \/ Irmovq \/ Rmmovq \/ Mrmovq \/ Alu \/ Jmp \/ Call
    \/ Ret \/ Pushq \/ Popq \/ Iaddq \/ Stop
=============================================================================
