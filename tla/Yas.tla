-------------------------------- MODULE Yas ---------------------------------
(***************************************************************************)
(* The assembler of the simulators (lab7/sim/misc/yas.c) with the loader   *)
(* of its .yo file (load_mem of isa.c): two passes over the same lines,    *)
(* the first for the labels, the second for the code.  Its position in     *)
(* memory, its symbol table and its code are functions of the lines.       *)
(* Statements are those of Y64Asm, and iaddq, which lab6 does not know.    *)
(***************************************************************************)
EXTENDS Y64Asm

Aligned(pos, a) == ((pos + a - 1) \div a) * a

(* finish_line: bytepos behind a line. *)
Behind(pos, s) ==
    CASE s.code = D_POS -> s.value
      [] s.code = D_ALIGN -> Aligned(pos, s.value)
      [] OTHER -> pos + s.bytes

(* bytepos at the start of each line, the same in both passes. *)
bytepos == LET pos[i \in 1 .. Len(source) + 1] ==
                   IF i = 1 THEN 0 ELSE Behind(pos[i - 1], source[i - 1])
           IN  pos

(* add_symbol does not look for the name: the first line that has it counts.*)
Defining(name) == {i \in DOMAIN source : source[i].label = name}
find_symbol(name) == bytepos[Min(Defining(name))]

(* get_num, get_mem: all the bytes of an operand.  The code of a directive *)
(* is that of iaddq, which has a register byte.                            *)
Value(s) == IF s.operand = "label" THEN find_symbol(s.value) ELSE s.value
CodeByte(s, i) ==
    LET from == IF s.regs # NoLabel THEN 2 ELSE OperandAt(s.code)
    IN  IF s.operand # "none" /\ i >= from
        THEN (Value(s) \div 256 ^ (i - from)) % 256
        ELSE IF i = 0 THEN s.code ELSE s.regs

(* fail: a line that is no instruction, an address or alignment that is no *)
(* number, both in the first pass; a label of no line, in the second.      *)
Fails(s) == \/ s.code = BAD
            \/ s.code \in {D_POS, D_ALIGN} /\ s.operand = "label"
            \/ s.operand = "label" /\ Defining(s.value) = {}
hit_error == \E i \in DOMAIN source : Fails(source[i])

(* load_mem: the lines of the file in order, each at its address; a byte   *)
(* beyond the memory ends the loading, and the simulator.                  *)
HasCode(i) == source[i].code \notin {LABEL_ONLY, D_POS, D_ALIGN}
LinesAt(a) == {i \in DOMAIN source :
                  HasCode(i) /\ a \in bytepos[i] .. bytepos[i] + source[i].bytes - 1}
yo_image == [a \in 0 .. MemLen - 1 |->
                IF LinesAt(a) = {} THEN 0
                ELSE LET i == Max(LinesAt(a)) IN CodeByte(source[i], a - bytepos[i])]

Loadable == \A i \in DOMAIN source :
                HasCode(i) /\ source[i].bytes > 0 => bytepos[i] + source[i].bytes <= MemLen

(* A line is read; the passes are over, and the program is there to load.  *)
NextLine(s) ==
    /\ aphase = "assemble"
    /\ source' = Append(source, s)
    /\ UNCHANGED <<vmaddr, symtab, reltab, lines, aphase, image>>

Exit == /\ aphase = "assemble" /\ ~hit_error /\ Loadable
        /\ image' = yo_image
        /\ aphase' = "exited" /\ source' = <<>>
        /\ UNCHANGED <<vmaddr, symtab, reltab, lines>>

-----------------------------------------------------------------------------
(* The assembler of lab6, in one pass with relocation, and this one agree: *)
(* on the image of every program lab6 assembles, and on what is refused,   *)
(* but for four things only lab6 refuses: a label that stands for two      *)
(* lines, a number to jump to, a label as the displacement of a load or a  *)
(* store, an image that leaves no byte of the memory free.                 *)
OnlyY64Refuses ==
    \/ \E i, j \in DOMAIN source :
          i # j /\ source[i].label # NoLabel /\ source[i].label = source[j].label
    \/ \E i \in DOMAIN source :
          HI4(source[i].code) \in {I_JMP, I_CALL} /\ source[i].operand = "number"
    \/ \E i \in DOMAIN source :
          HI4(source[i].code) \in {I_RMMOVQ, I_MRMOVQ} /\ source[i].operand = "label"
    \/ maxaddr >= MemLen

AssemblersAgree ==
    /\ aphase = "done" => ~hit_error /\ yo_image = image
    /\ aphase = "error" => hit_error \/ OnlyY64Refuses
=============================================================================
