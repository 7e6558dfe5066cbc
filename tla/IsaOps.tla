------------------------------- MODULE IsaOps -------------------------------
(***************************************************************************)
(* What every Y86-64 program of the repository shares (lab7/sim/misc/isa.c *)
(* and isa.h): instruction codes, a byte memory with word access, the ALU, *)
(* the condition codes and the conditions.  A word has WordBytes bytes (8  *)
(* in the code), so registers, addresses and immediates are numbers below  *)
(* 256^WordBytes that stand for two's-complement words; wherever the code  *)
(* has 8 as a size or a stride, the model has WordBytes.                   *)
(***************************************************************************)
EXTENDS Integers

CONSTANTS WordBytes,    \* bytes of a word
          MemLen        \* bytes of memory (MEM_SIZE)

ASSUME WordAssumption == WordBytes \in Nat \ {0} /\ MemLen \in Nat \ {0}

(* The law of powers, for the proofs: the provers know none. *)
ASSUME PowerAssumption ==
    /\ 2 ^ 0 = 1 /\ \A n \in 0 .. 8 * WordBytes : 2 ^ (n + 1) = 2 * 2 ^ n
    /\ 256 ^ 0 = 1 /\ \A n \in 0 .. WordBytes : 256 ^ (n + 1) = 256 * 256 ^ n

I_HALT == 0
I_NOP == 1
I_RRMOVQ == 2
I_IRMOVQ == 3
I_RMMOVQ == 4
I_MRMOVQ == 5
I_ALU == 6
I_JMP == 7
I_CALL == 8
I_RET == 9
I_PUSHQ == 10
I_POPQ == 11
I_IADDQ == 12
I_POP2 == 13

A_ADD == 0
A_SUB == 1
A_AND == 2
A_XOR == 3

C_YES == 0
C_LE == 1
C_L == 2
C_E == 3
C_NE == 4
C_GE == 5
C_G == 6

REG_RSP == 4
REG_NONE == 15
reg_valid(id) == id < REG_NONE

HPACK(hi, lo) == 16 * hi + lo
HI4(byte) == byte \div 16
LO4(byte) == byte % 16

Byte == 0 .. 255
Modulus == 256 ^ WordBytes
Word == 0 .. Modulus - 1
Mem == [0 .. MemLen - 1 -> Byte]
Regs == [0 .. REG_NONE - 1 -> Word]

(* A word as the number it stands for. *)
Signed(w) == IF 2 * w >= Modulus THEN w - Modulus ELSE w
Wrap(n) == n % Modulus

-----------------------------------------------------------------------------
(* Memory.  An address is a word; a negative one is refused, and so is an  *)
(* access that would run over the end.                                     *)
Accessible(pos, n) == 0 <= Signed(pos) /\ Signed(pos) + n <= MemLen

get_byte_ok(pos) == Accessible(pos, 1)
get_word_ok(pos) == Accessible(pos, WordBytes)

(* A word is put together digit by digit, the lowest first. *)
Number(base, digits, n) ==
    LET val[k \in 0 .. n] ==
            IF k = 0 THEN 0 ELSE val[k - 1] + digits[k - 1] * base ^ (k - 1)
    IN  val[n]

get_word_val(m, pos) ==
    Number(256, [i \in 0 .. WordBytes - 1 |-> m[pos + i]], WordBytes)

set_word_val(m, pos, val) ==
    [a \in DOMAIN m |-> IF a \in pos .. pos + WordBytes - 1
                        THEN (val \div 256 ^ (a - pos)) % 256
                        ELSE m[a]]

get_reg_val(r, id) == IF reg_valid(id) THEN r[id] ELSE 0
set_reg_val(r, id, val) == IF reg_valid(id) THEN [r EXCEPT ![id] = val] ELSE r

-----------------------------------------------------------------------------
(* The ALU: argB op argA. *)

Bit(w, i) == (w \div 2 ^ i) % 2
BitIndex == 0 .. 8 * WordBytes - 1

FromBits(bits) == Number(2, bits, 8 * WordBytes)

compute_alu(op, argA, argB) ==
    CASE op = A_ADD -> Wrap(argA + argB)
      [] op = A_SUB -> Wrap(argB - argA)
      [] op = A_AND -> FromBits([i \in BitIndex |-> Bit(argA, i) * Bit(argB, i)])
      [] op = A_XOR -> FromBits([i \in BitIndex |-> (Bit(argA, i) + Bit(argB, i)) % 2])
      [] OTHER -> 0

DEFAULT_CC == [zf |-> TRUE, sf |-> FALSE, of |-> FALSE]
CC == [zf : BOOLEAN, sf : BOOLEAN, of : BOOLEAN]

compute_cc(op, argA, argB) ==
    LET val == compute_alu(op, argA, argB)
        neg(w) == Signed(w) < 0
        ovf == CASE op = A_ADD -> /\ neg(argA) = neg(argB)
                                  /\ neg(val) # neg(argA)
                 [] op = A_SUB -> /\ (Signed(argA) > 0) = neg(argB)
                                  /\ neg(val) # neg(argB)
                 [] OTHER -> FALSE
    IN  [zf |-> val = 0, sf |-> neg(val), of |-> ovf]

cond_holds(cc, bcond) ==
    CASE bcond = C_YES -> TRUE
      [] bcond = C_LE -> (cc.sf # cc.of) \/ cc.zf
      [] bcond = C_L  -> cc.sf # cc.of
      [] bcond = C_E  -> cc.zf
      [] bcond = C_NE -> ~cc.zf
      [] bcond = C_GE -> cc.sf = cc.of
      [] bcond = C_G  -> cc.sf = cc.of /\ ~cc.zf
      [] OTHER -> FALSE
=============================================================================
