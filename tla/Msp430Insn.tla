------------------------------ MODULE Msp430Insn ------------------------------
(***************************************************************************)
(* Disassemble of src/src/newmadrid/msp43x/disasm.go: the three words from *)
(* the program counter on, decoded into an Insn.  Load6Bytes always yields *)
(* all six bytes, so none of the "too short" errors can occur.             *)
(***************************************************************************)
EXTENDS Integers

Word == 0..(2^16 - 1)

(* The bits of a word from the one of weight  low  on, in a field of  size. *)
Bits(w, low, size) == (w \div low) % size

Families == {"single", "jump", "double"}
SrcModes == {"RegDirect", "Indexed", "RegIndirect", "IndirectIncr", "Immediate",
             "Absolute", "Const4", "Const8", "Const0", "Const1", "Const2", "ConstNeg1"}
DstModes == {"RegDirect", "Indexed", "Absolute"}

(* Single operand: RRC 0, SWPB 1, RRA 2, SXT 3, PUSH 4, CALL 5, RETI 6;    *)
(* double operand: MOV 4, ADD 5, ADDC 6, SUBC 7, SUB 8, CMP 9, DADD 10,    *)
(* BIT 11, BIC 12, BIS 13, XOR 14, AND 15.                                 *)
Insn == [family : Families, opcode : 0..15, condition : 0..7, bw : 0..1,
         as : 0..3, source : 0..15, destination : 0..15,
         mode : SrcModes, dstMode : DstModes, offset : Word,
         srcx : Word, dstx : Word, Width : {2, 4, 6}]

family(w) == IF Bits(w, 8192, 8) = 0 THEN "single"
             ELSE IF Bits(w, 8192, 8) = 1 THEN "jump" ELSE "double"

(* The low four bits are the register of a single operand and the          *)
(* destination of two; only the latter have an opcode of four bits.        *)
opcode(w) == IF family(w) = "single" THEN Bits(w, 128, 8) ELSE Bits(w, 4096, 16)
source(w) == IF family(w) = "single" THEN Bits(w, 1, 16) ELSE Bits(w, 256, 16)
As(w)     == Bits(w, 16, 4)
Ad(w)     == IF family(w) = "double" THEN Bits(w, 128, 2) ELSE 0
destination(w) == Bits(w, 1, 16)

isConstant(w) == source(w) = 3 \/ (source(w) = 2 /\ As(w) \in {2, 3})

constantMode(w) ==
  CASE source(w) = 3 /\ As(w) = 0 -> "Const0"
    [] source(w) = 3 /\ As(w) = 1 -> "Const1"
    [] source(w) = 3 /\ As(w) = 2 -> "Const2"
    [] source(w) = 3 /\ As(w) = 3 -> "ConstNeg1"
    [] source(w) = 2 /\ As(w) = 2 -> "Const4"
    [] source(w) = 2 /\ As(w) = 3 -> "Const8"

interpAs(a) == CASE a = 0 -> "RegDirect"   [] a = 1 -> "Indexed"
                 [] a = 2 -> "RegIndirect" [] a = 3 -> "IndirectIncr"

Indexes(w)    == ~isConstant(w) /\ As(w) = 1
Immediates(w) == As(w) = 3 /\ source(w) = 0

mode(w) ==
  IF isConstant(w) THEN constantMode(w)
  ELSE IF Immediates(w) THEN "Immediate"
  ELSE IF Indexes(w) /\ source(w) = 2 THEN "Absolute" ELSE interpAs(As(w))

dstMode(w) == IF Ad(w) = 0 THEN "RegDirect"
              ELSE IF destination(w) = 2 THEN "Absolute" ELSE "Indexed"

(* Mutant: the case of an immediate source with an indexed destination is  *)
(* missing, so that only one extension word is taken.                      *)
WidthNoImmediate(w) ==
  IF family(w) = "jump" THEN 2
  ELSE IF Indexes(w) /\ Ad(w) = 1 THEN 6
  ELSE IF Indexes(w) \/ Immediates(w) \/ Ad(w) = 1 THEN 4 ELSE 2

(* The cases of the switch, in their order.                                *)
Width(w) ==
  IF family(w) = "jump" THEN 2
  ELSE IF Indexes(w) /\ Ad(w) = 1 THEN 6
  ELSE IF Indexes(w) THEN 4
  ELSE IF Immediates(w) /\ Ad(w) = 1 THEN 6
  ELSE IF Immediates(w) THEN 4
  ELSE IF Ad(w) = 1 THEN 4 ELSE 2

(* Ten bits with a sign, in words.                                         *)
offset(w) == LET off == Bits(w, 1, 1024)
             IN  ((IF off >= 512 THEN off - 1024 ELSE off) * 2) % 65536

Disassemble(w, w1, w2) ==
  [family |-> family(w), opcode |-> opcode(w), condition |-> Bits(w, 1024, 8),
   bw |-> Bits(w, 64, 2), as |-> As(w),
   source |-> source(w), destination |-> destination(w),
   mode |-> mode(w), dstMode |-> dstMode(w), offset |-> offset(w),
   srcx |-> IF Indexes(w) \/ Immediates(w) THEN w1 ELSE 0,
   dstx |-> IF Ad(w) = 0 THEN 0 ELSE IF Width(w) = 6 THEN w2 ELSE w1,
   Width |-> Width(w)]

-----------------------------------------------------------------------------

Extended == {"Indexed", "Absolute", "Immediate"}
Length(src, dst) == 2 + (IF src \in Extended THEN 2 ELSE 0)
                      + (IF dst \in Extended THEN 2 ELSE 0)

(* The width of an instruction is that of its first word and of one more   *)
(* for every operand whose mode needs one: mode and width are decided by   *)
(* different branches of the code, and an instruction that disagrees with  *)
(* itself makes the processor run off into its operands.                   *)
WidthCounts(w) ==
  family(w) # "jump" =>
    Width(w) = Length(mode(w), dstMode(w))
=============================================================================
