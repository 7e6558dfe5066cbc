------------------------------- MODULE MCY86 --------------------------------
(* Small programs for Y86: one-byte words and 32 bytes of memory.          *)
EXTENDS Y86

CONSTANTS Array, Stack, Proc, End, Nowhere

Stmt(label, code, bytes, regs, operand, value) ==
    [label |-> label, code |-> code, bytes |-> bytes, regs |-> regs,
     operand |-> operand, value |-> value]

RAX == 0
RCX == 1
RBX == 3

Plain(code) == Stmt(NoLabel, HPACK(code, 0), 1, NoLabel, "none", 0)
RR(code, fun, a, b) == Stmt(NoLabel, HPACK(code, fun), 2, HPACK(a, b), "none", 0)
RI(code, a, b, operand, value) ==
    Stmt(NoLabel, HPACK(code, 0), 2 + WordBytes, HPACK(a, b), operand, value)
Dest(code, fun, label) ==
    Stmt(NoLabel, HPACK(code, fun), 1 + WordBytes, NoLabel, "label", label)
At(label, s) == [s EXCEPT !.label = label]
Pos(n) == Stmt(NoLabel, D_POS, 0, NoLabel, "number", n)
Align(n) == Stmt(NoLabel, D_ALIGN, 0, NoLabel, "number", n)
Quad(operand, value) == Stmt(NoLabel, D_DATA, WordBytes, NoLabel, operand, value)

MCPrelude == << RI(I_IRMOVQ, REG_NONE, REG_RSP, "label", Stack),
                RI(I_IRMOVQ, REG_NONE, RBX, "label", Array) >>

Common == {
    RI(I_IRMOVQ, REG_NONE, RAX, "number", 255),
    RR(I_RRMOVQ, C_L, RAX, RCX),
    RR(I_ALU, A_ADD, RAX, RCX),
    RR(I_ALU, A_SUB, RCX, RAX),
    RI(I_MRMOVQ, RAX, RBX, "number", 0),
    RI(I_RMMOVQ, RAX, RBX, "number", 1),
    RR(I_PUSHQ, 0, RAX, REG_NONE),
    RR(I_POPQ, 0, RCX, REG_NONE),
    Dest(I_JMP, C_LE, End),
    Dest(I_CALL, 0, Proc),
    Plain(I_RET) }

StdOnly == { RI(I_MRMOVQ, RBX, RBX, "number", 0), RR(I_POPQ, 0, REG_RSP, REG_NONE),
             Plain(I_NOP), Dest(I_JMP, C_YES, Nowhere), At(Proc, Plain(I_HALT)),
             Stmt(NoLabel, BAD, 0, NoLabel, "none", 0) }
(* The immediate takes no push; ret to a nop, which MCReturnBody is for.   *)
FullOnly == { RI(I_IADDQ, REG_NONE, RAX, "number", 3) }

MCBody == [std |-> Common \cup StdOnly, full |-> Common \cup FullOnly]

(* The optimised pipeline on the instructions MCBody keeps from it. *)
MCForwardBody == [full |-> {RI(I_MRMOVQ, RBX, RBX, "number", 1),
                            RI(I_RMMOVQ, RAX, RBX, "number", 0), Plain(I_NOP)}]
MCReturnBody == [full |-> {RI(I_IRMOVQ, REG_NONE, RAX, "label", Proc),
                           RR(I_PUSHQ, 0, RAX, REG_NONE), Plain(I_RET)}]

MCTrailer == << At(End, Plain(I_HALT)),
                At(Proc, RR(I_ALU, A_ADD, RAX, RAX)),
                Plain(I_RET),
                Align(4),
                At(Array, Quad("label", Array)),
                Quad("number", 3),
                Pos(30),
                Stmt(Stack, LABEL_ONLY, 0, NoLabel, "none", 0) >>

(* A procedure that starts with a nop. *)
MCReturnTrailer == << At(End, Plain(I_HALT)), At(Proc, Plain(I_NOP)) >>
                   \o [i \in 1 .. 3 |-> RR(I_ALU, A_ADD, RAX, RAX)]
                   \o << Plain(I_HALT), At(Array, Quad("number", 3)), Pos(30),
                         Stmt(Stack, LABEL_ONLY, 0, NoLabel, "none", 0) >>
=============================================================================
