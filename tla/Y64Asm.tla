------------------------------- MODULE Y64Asm -------------------------------
(***************************************************************************)
(* The assembler (lab6/y64asm.c): one pass over the lines fills a symbol   *)
(* table and a list of encoded lines, leaving the uses of labels that come *)
(* later to be patched (relocate); binfile then lays the lines out in an   *)
(* image.                                                                  *)
(*                                                                         *)
(* A statement is a parsed line: its label, the packed instruction code    *)
(* with its size, the packed register byte, and an operand that is a       *)
(* number, a label, or absent.  LABEL_ONLY is a line with a label only, BAD *)
(* one that parse_line rejects for its syntax.                             *)
(***************************************************************************)
EXTENDS IsaOps, SequencesExt

CONSTANT NoLabel

VARIABLES vmaddr,
          symtab,       \* label -> address
          reltab,       \* uses of labels to patch, <<line, label>>
          lines,        \* encoded lines
          source,       \* the statements read so far
          aphase,       \* "assemble", "relocate", "binfile", "done", "exited" or "error"
          image         \* the binary file, padded with zeros to MemLen

avars == <<vmaddr, symtab, reltab, lines, source, aphase, image>>

D_DATA == HPACK(12, 0)      \* the directives share I_DIRECTIVE = 12
D_POS == HPACK(12, 1)
D_ALIGN == HPACK(12, 2)
LABEL_ONLY == -1
BAD == -2

AsmInit ==
    /\ vmaddr = 0
    /\ symtab = [l \in {} |-> 0]
    /\ reltab = <<>> /\ lines = <<>> /\ source = <<>>
    /\ aphase = "assemble"
    /\ image = [a \in 0 .. MemLen - 1 |-> 0]

-----------------------------------------------------------------------------
(* The bytes of a value are stored until none is left, so those above its  *)
(* highest one keep what they held.                                        *)
StoreValue(codes, from, value) ==
    [i \in DOMAIN codes |->
        IF i >= from /\ value >= 256 ^ (i - from)
        THEN (value \div 256 ^ (i - from)) % 256
        ELSE codes[i]]

(* Where the operand of an instruction starts in its code. *)
OperandAt(code) ==
    IF code = D_DATA THEN 0
    ELSE IF HI4(code) \in {I_JMP, I_CALL} THEN 1
    ELSE 2

(* The code bytes of a statement before its operand: the first is the code *)
(* of the instruction, a directive's too.                                  *)
Opcodes(s) ==
    [i \in 0 .. WordBytes + 1 |->
        IF i = 0 THEN s.code ELSE IF i = 1 /\ s.regs # NoLabel THEN s.regs ELSE 0]

(* What a parsed line may be.  Its bytes are the opcode, a register byte    *)
(* and an operand; iaddq, which lab6 does not know, has the code of a data  *)
(* line, whose operand stands in its place.                                *)
IsIaddq(s) == s.code = HPACK(I_IADDQ, 0) /\ s.regs # NoLabel

IsStatement(s) ==
    /\ s.code \in Byte \cup {LABEL_ONLY, BAD}
    /\ s.regs \in Byte \cup {NoLabel}
    /\ s.regs # NoLabel => OperandAt(s.code) = 2 \/ IsIaddq(s)
    /\ s.operand \in {"none", "number", "label"}
    /\ IF s.operand = "label" THEN s.value # NoLabel ELSE s.value \in Word
    /\ s.code = D_ALIGN /\ s.operand # "label" => s.value > 0
    /\ s.code = LABEL_ONLY => s.bytes = 0 /\ s.operand = "none"
    /\ s.bytes \in 0 .. WordBytes + 2
    /\ s.regs = NoLabel => s.bytes <= 1 \/ (s.operand # "none" /\ OperandAt(s.code) < 2)
    /\ s.operand = "none" => s.bytes <= 2
    /\ s.operand # "none" /\ s.regs = NoLabel => s.bytes <= OperandAt(s.code) + WordBytes

(* add_symbol, of a label that has none yet. *)
Added(tab, label, addr) ==
    IF label = NoLabel THEN tab
    ELSE [l \in DOMAIN tab \cup {label} |-> IF l \in DOMAIN tab THEN tab[l] ELSE addr]

(* Mutant: a label is the address behind its line. *)
LabelledBehind(tab, s) == Added(tab, s.label, vmaddr + s.bytes)

Labelled(tab, s) == Added(tab, s.label, vmaddr)

Fail == aphase' = "error" /\ UNCHANGED <<vmaddr, symtab, reltab, lines, image>>

Emit(line, next) ==
    /\ lines' = Append(lines, line)
    /\ vmaddr' = next
    /\ UNCHANGED <<aphase, image>>

(* A line without code: a label alone, or a directive that moves vmaddr.   *)
Place(addr) ==
    /\ Emit([addr |-> addr, bytes |-> 0, codes |-> <<>>], addr)
    /\ UNCHANGED reltab

Rejected(s) ==
    \/ s.code = BAD
    \/ s.label \in DOMAIN symtab
    \/ HI4(s.code) \in {I_JMP, I_CALL} /\ s.operand = "number"
    \/ s.code \in {D_POS, D_ALIGN} /\ s.operand = "label"
    \/ HI4(s.code) \in {I_RMMOVQ, I_MRMOVQ} /\ s.operand = "label"

(* parse_line, of the next line that assemble reads. *)
ParseLine(s) ==
    LET known == Labelled(symtab, s)
        direct == s.operand = "none" \/ s.operand = "number" \/ s.value \in DOMAIN known
        value == IF s.operand = "label" THEN known[s.value] ELSE s.value
        aligned == vmaddr + ((value - (vmaddr % value)) % value)
        codes == IF direct /\ s.operand # "none"
                 THEN StoreValue(Opcodes(s), OperandAt(s.code), value)
                 ELSE Opcodes(s)
    IN  /\ aphase = "assemble"
        /\ source' = Append(source, s)
        /\ IF Rejected(s) THEN Fail
           ELSE /\ symtab' = known
                /\ IF s.code = LABEL_ONLY THEN Place(vmaddr)
                   ELSE IF s.code = D_POS THEN Place(value)
                   ELSE IF s.code = D_ALIGN THEN Place(aligned)
                   ELSE /\ Emit([addr |-> vmaddr, bytes |-> s.bytes, codes |-> codes],
                                vmaddr + s.bytes)
                        /\ reltab' = IF direct THEN reltab
                                     ELSE Append(reltab, <<Len(lines) + 1, s.value>>)

(* End of the file. *)
EndOfSource ==
    /\ aphase = "assemble"
    /\ aphase' = "relocate"
    /\ UNCHANGED <<vmaddr, symtab, reltab, lines, source, image>>

(* relocate: the use recorded last is patched first. *)
Relocate ==
    LET use == Last(reltab)
        line == lines[use[1]]
    IN  /\ aphase = "relocate" /\ reltab # <<>>
        /\ IF use[2] \in DOMAIN symtab
           THEN /\ lines' = [lines EXCEPT ![use[1]].codes =
                      StoreValue(@, OperandAt(line.codes[0]), symtab[use[2]])]
                /\ reltab' = Front(reltab) /\ UNCHANGED aphase
           ELSE aphase' = "error" /\ UNCHANGED <<lines, reltab>>
        /\ UNCHANGED <<vmaddr, symtab, source, image>>

Relocated ==
    /\ aphase = "relocate" /\ reltab = <<>>
    /\ aphase' = "binfile"
    /\ UNCHANGED <<vmaddr, symtab, reltab, lines, source, image>>

maxaddr == Max({lines[i].addr + lines[i].bytes : i \in {j \in DOMAIN lines : lines[j].bytes > 0}}
               \cup {0})

Covering(a) == {i \in DOMAIN lines : a \in lines[i].addr .. lines[i].addr + lines[i].bytes - 1}

(* binfile: where lines overlap, the last one stays.  A file that fills    *)
(* the memory exactly is too large for load_binfile.                       *)
Binfile ==
    /\ aphase = "binfile"
    /\ IF maxaddr >= MemLen
       THEN aphase' = "error" /\ UNCHANGED image
       ELSE /\ aphase' = "done"
            /\ image' = [a \in 0 .. MemLen - 1 |->
                            IF Covering(a) = {} THEN 0
                            ELSE LET line == lines[Max(Covering(a))]
                                 IN  line.codes[a - line.addr]]
    /\ UNCHANGED <<vmaddr, symtab, reltab, lines, source>>

(* The process ends: finit frees its tables. *)
finit ==
    /\ aphase = "done"
    /\ aphase' = "exited"
    /\ symtab' = [l \in {} |-> 0]
    /\ reltab' = <<>> /\ lines' = <<>> /\ source' = <<>>
    /\ UNCHANGED <<vmaddr, image>>

Assembled == EndOfSource \/ Relocate \/ Relocated \/ Binfile
=============================================================================
