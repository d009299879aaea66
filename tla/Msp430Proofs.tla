----------------------------- MODULE Msp430Proofs -----------------------------
(***************************************************************************)
(* What Disassemble does with every first word, whatever follows it, and   *)
(* what a step of the processor does in every state of the machine.        *)
(***************************************************************************)
EXTENDS Msp430, TLAPS

(* A word and a byte, as inequalities.                                     *)
LEMMA WordDef == \A k : k \in Word <=> k \in Int /\ 0 <= k /\ k <= 65535
  BY DEF Word

LEMMA OctetDef == \A k : k \in Octet <=> k \in Int /\ 0 <= k /\ k <= 255
  BY DEF Octet

(* Arithmetic modulo 2^16.                                                 *)
LEMMA WrapWord ==
  ASSUME NEW k \in Int
  PROVE  /\ Wrap(k) \in Word
         /\ k \in Word => Wrap(k) = k
  BY WordDef DEF Wrap

(* The fields of a word are as wide as the code's types for them.          *)
LEMMA FieldRanges ==
  ASSUME NEW w \in Word
  PROVE  /\ Bits(w, 1, 16) \in 0..15 /\ Bits(w, 256, 16) \in 0..15
         /\ Bits(w, 4096, 16) \in 0..15 /\ Bits(w, 128, 8) \in 0..7
         /\ Bits(w, 1024, 8) \in 0..7 /\ Bits(w, 8192, 8) \in 0..7
         /\ Bits(w, 16, 4) \in 0..3 /\ Bits(w, 128, 2) \in 0..1
         /\ Bits(w, 64, 2) \in 0..1 /\ Bits(w, 1, 1024) \in 0..1023
<1>1. ASSUME NEW k \in Nat PROVE /\ k % 16 \in 0..15 /\ k % 8 \in 0..7 /\ k % 4 \in 0..3
                                 /\ k % 2 \in 0..1 /\ k % 1024 \in 0..1023
  OBVIOUS
<1>2. /\ w \div 1 \in Nat /\ w \div 16 \in Nat /\ w \div 64 \in Nat /\ w \div 128 \in Nat
      /\ w \div 256 \in Nat /\ w \div 1024 \in Nat /\ w \div 4096 \in Nat
      /\ w \div 8192 \in Nat
  BY WordDef
<1> QED  BY <1>1, <1>2 DEF Bits

(* A field of two bits, spelt out.                                         *)
LEMMA Four ==
  ASSUME NEW k \in 0..3
  PROVE  k = 0 \/ k = 1 \/ k = 2 \/ k = 3
  OBVIOUS

(* Every word is of one of the three families, with fields in their ranges. *)
LEMMA FieldTypes ==
  ASSUME NEW w \in Word
  PROVE  /\ family(w) \in Families /\ opcode(w) \in 0..15
         /\ source(w) \in 0..15 /\ destination(w) \in 0..15
         /\ As(w) \in 0..3 /\ Ad(w) \in 0..1
<1>1. family(w) \in Families
  BY DEF family, Families
<1>2. opcode(w) \in 0..15
  BY FieldRanges DEF opcode
<1>3. source(w) \in 0..15 /\ destination(w) \in 0..15
  BY FieldRanges DEF source, destination
<1>4. As(w) \in 0..3 /\ Ad(w) \in 0..1
  BY FieldRanges DEF As, Ad
<1> QED  BY <1>1, <1>2, <1>3, <1>4

(* constantMode has a case for every constant operand: the panic behind its *)
(* switch, "bad constant mode logic", is never reached.                    *)
LEMMA ConstantModeTotal ==
  ASSUME NEW w \in Word, isConstant(w)
  PROVE  constantMode(w) \in {"Const4", "Const8", "Const0", "Const1", "Const2", "ConstNeg1"}
<1>1. CASE source(w) = 3
  <2>1. As(w) = 0 \/ As(w) = 1 \/ As(w) = 2 \/ As(w) = 3
    BY FieldTypes, Four
  <2> QED  BY <1>1, <2>1 DEF constantMode
<1>2. CASE source(w) = 2 /\ As(w) \in {2, 3}
  BY <1>2 DEF constantMode
<1> QED  BY <1>1, <1>2 DEF isConstant

(* The mode of a source and of a destination is one of the known ones.     *)
LEMMA ModeTypes ==
  ASSUME NEW w \in Word
  PROVE  mode(w) \in SrcModes /\ dstMode(w) \in DstModes
<1>1. As(w) = 0 \/ As(w) = 1 \/ As(w) = 2 \/ As(w) = 3
  BY FieldTypes, Four
<1>2. interpAs(As(w)) \in {"RegDirect", "Indexed", "RegIndirect", "IndirectIncr"}
  BY <1>1 DEF interpAs
<1>3. mode(w) \in SrcModes
  BY <1>2, ConstantModeTotal DEF mode, SrcModes
<1>4. dstMode(w) \in DstModes
  BY DEF dstMode, DstModes
<1> QED  BY <1>3, <1>4

(* A jump's offset of ten bits with a sign is a word.                      *)
LEMMA OffsetRange ==
  ASSUME NEW w, Bits(w, 1, 1024) \in 0..1023
  PROVE  offset(w) \in Word
<1>1. PICK b \in 0..1023 : b = Bits(w, 1, 1024)
  OBVIOUS
<1>2. PICK k \in Int : k = (IF b >= 512 THEN b - 1024 ELSE b) * 2
  OBVIOUS
<1>3. offset(w) = k % 65536
  BY <1>1, <1>2 DEF offset
<1> QED  BY <1>3, WordDef

(* An extension word that is not there counts as zero.                     *)
LEMMA ZeroRange == 0 \in Word
  BY WordDef

(* Disassemble makes an instruction of any three words: no word is left    *)
(* without a family, a mode or a width, and none makes the code panic.     *)
THEOREM DecodeTotal ==
  ASSUME NEW w \in Word, NEW w1 \in Word, NEW w2 \in Word
  PROVE  Disassemble(w, w1, w2) \in Insn
<1>1. Width(w) \in {2, 4, 6}
  BY DEF Width
<1>2. offset(w) \in Word
  BY OffsetRange, FieldRanges
<1>3. 0 \in Word
  BY ZeroRange
<1>4. Bits(w, 1024, 8) \in 0..7 /\ Bits(w, 64, 2) \in 0..1
  BY FieldRanges
<1>5. (IF Indexes(w) \/ Immediates(w) THEN w1 ELSE 0) \in Word
  BY <1>3
<1>6. (IF Ad(w) = 0 THEN 0 ELSE IF Width(w) = 6 THEN w2 ELSE w1) \in Word
  BY <1>3
<1>7. /\ family(w) \in Families /\ opcode(w) \in 0..15 /\ As(w) \in 0..3
      /\ source(w) \in 0..15 /\ destination(w) \in 0..15
  BY FieldTypes
<1>8. mode(w) \in SrcModes /\ dstMode(w) \in DstModes
  BY ModeTypes
<1> QED  BY <1>1, <1>2, <1>4, <1>5, <1>6, <1>7, <1>8, ZenonT(30) DEF Disassemble, Insn

(* The width Disassemble gives an instruction is that of its first word and *)
(* of one more for each operand whose mode needs one: the switch that sets *)
(* Width and the tests that set the modes agree for every word.            *)
THEOREM WidthsAgree ==
  ASSUME NEW w \in Word
  PROVE  WidthCounts(w)
<1> SUFFICES ASSUME family(w) # "jump"
             PROVE  Width(w) = Length(mode(w), dstMode(w))
  BY DEF WidthCounts
<1>0. As(w) \in 0..3 /\ Ad(w) \in 0..1 /\ source(w) \in 0..15
  BY FieldTypes
<1>1. As(w) = 0 \/ As(w) = 1 \/ As(w) = 2 \/ As(w) = 3
  BY <1>0, Four
<1>2. Ad(w) = 0 \/ Ad(w) = 1
  <2>1. ASSUME NEW k \in 0..1 PROVE k = 0 \/ k = 1
    OBVIOUS
  <2> QED  BY <1>0, <2>1
<1>3. (dstMode(w) \in Extended) <=> Ad(w) = 1
  BY <1>2 DEF dstMode, Extended
<1>4. (mode(w) \in Extended) <=> Indexes(w) \/ Immediates(w)
  <2>1. CASE isConstant(w)
    <3>1. mode(w) \notin Extended
      BY <2>1, ConstantModeTotal DEF mode, Extended
    <3> QED  BY <1>0, <2>1, <3>1 DEF Indexes, Immediates, isConstant
  <2>2. CASE ~isConstant(w) /\ Immediates(w)
    BY <2>2 DEF mode, Extended
  <2>3. CASE ~isConstant(w) /\ ~Immediates(w)
    BY <1>0, <1>1, <2>3 DEF mode, Extended, Indexes, interpAs
  <2> QED  BY <2>1, <2>2, <2>3
<1>5. ~(Indexes(w) /\ Immediates(w))
  BY <1>0 DEF Indexes, Immediates
<1> QED  BY <1>2, <1>3, <1>4, <1>5 DEF Width, Length
-----------------------------------------------------------------------------
(* Memory *)

MemOK(mem) ==
  /\ mem = [a \in DOMAIN mem |-> mem[a]] /\ DOMAIN mem \subseteq Word
  /\ \A a \in DOMAIN mem : mem[a] \in Octet

(* Nothing but the cells S is different in  new  from what was read in old. *)
Kept(old, new, S) == \A a \in DOMAIN new \ S : new[a] = LoadByte(old, a)

(* The next address but one is where it should be.                         *)
LEMMA NextCell ==
  ASSUME NEW a \in Word
  PROVE  Wrap(a + 1) \in Word /\ Wrap(a + 1) # a
  BY WordDef DEF Wrap

(* What is read is a byte, and a word.                                     *)
LEMMA LoadTypes ==
  ASSUME NEW mem, MemOK(mem), NEW a
  PROVE  LoadByte(mem, a) \in Octet /\ RawWord(mem, a) \in Word
<1>1. \A b : LoadByte(mem, b) \in Octet
  BY OctetDef DEF LoadByte, MemOK
<1>2. PICK x \in Octet, y \in Octet : RawWord(mem, a) = x + 256 * y
  BY <1>1 DEF RawWord
<1>. QED  BY <1>1, <1>2, WordDef, OctetDef

(* One cell is written: it is a memory again, and reads back what was put. *)
LEMMA CellOK ==
  ASSUME NEW mem, MemOK(mem), NEW a \in Word, NEW v \in Octet
  PROVE  MemOK(Cell(mem, a, v))
  BY DEF Cell, MemOK

(* What is read after.                                                     *)
LEMMA CellReads ==
  ASSUME NEW mem, NEW a, NEW v, NEW b
  PROVE  LoadByte(Cell(mem, a, v), b) = IF b = a THEN v ELSE LoadByte(mem, b)
  BY DEF Cell, LoadByte

(* A word in two bytes.                                                    *)
LEMMA Halves ==
  ASSUME NEW v \in Word
  PROVE  /\ v % 256 \in Octet /\ v \div 256 \in Octet
         /\ (v % 256) + 256 * (v \div 256) = v
  BY WordDef, OctetDef

(* Memory that was not written has kept everything.                        *)
LEMMA KeptRefl == ASSUME NEW mem, MemOK(mem), NEW S PROVE Kept(mem, mem, S)
  BY DEF Kept, LoadByte

(* A store writes what it is given where it is told, unless a hook takes   *)
(* it, and nothing else.                                                   *)
LEMMA StoresByte ==
  ASSUME NEW mem, MemOK(mem), NEW a \in Word, NEW v \in Word
  PROVE  LET new == StoreByte(mem, a, v)
         IN  /\ MemOK(new) /\ Kept(mem, new, {a, Wrap(a + 1)})
             /\ a \notin Hooked => LoadByte(new, a) = v % 256
<1>1. v % 256 \in Octet
  BY Halves
<1>2. CASE a \in Hooked
  BY <1>2, KeptRefl DEF StoreByte
<1>3. CASE a \notin Hooked
  <2>1. PICK o \in Octet : o = v % 256
    BY <1>1
  <2> DEFINE new == Cell(mem, a, o)
  <2>2. MemOK(new)
    BY CellOK
  <2>3. \A b : LoadByte(new, b) = IF b = a THEN o ELSE LoadByte(mem, b)
    BY CellReads
  <2>4. StoreByte(mem, a, v) = new
    BY <1>3, <2>1 DEF StoreByte
  <2> HIDE DEF new
  <2>5. Kept(mem, new, {a, Wrap(a + 1)})
    BY <2>3 DEF Kept, LoadByte
  <2>. QED  BY <2>1, <2>2, <2>3, <2>4, <2>5
<1>. QED  BY <1>2, <1>3

(* And of a word.                                                          *)
LEMMA StoresWord ==
  ASSUME NEW mem, MemOK(mem), NEW a \in Word, NEW v \in Word
  PROVE  LET new == StoreWord(mem, a, v)
         IN  /\ MemOK(new) /\ Kept(mem, new, {a, Wrap(a + 1)})
             /\ a \notin Hooked => RawWord(new, a) = v
<1>2. CASE a \in Hooked
  BY <1>2, KeptRefl DEF StoreWord
<1>3. CASE a \notin Hooked
  <2>1. PICK low \in Octet, high \in Octet : low = v % 256 /\ high = v \div 256
    BY Halves
  <2>2. PICK next \in Word : next = Wrap(a + 1) /\ next # a
    BY NextCell
  <2> DEFINE half == Cell(mem, next, high)
             new  == Cell(half, a, low)
  <2>3. MemOK(half)
    BY CellOK
  <2>4. \A b : LoadByte(half, b) = IF b = next THEN high ELSE LoadByte(mem, b)
    BY CellReads
  <2>5. StoreWord(mem, a, v) = new
    BY <1>3, <2>1, <2>2 DEF StoreWord
  <2> HIDE DEF half
  <2>6. MemOK(new)
    BY <2>3, CellOK
  <2>7. \A b : LoadByte(new, b) = IF b = a THEN low ELSE LoadByte(half, b)
    BY CellReads
  <2> HIDE DEF new
  <2>8. LoadByte(new, a) = low /\ LoadByte(new, next) = high
    BY <2>2, <2>4, <2>7
  <2>9. RawWord(new, a) = v
    BY <2>1, <2>2, <2>8, Halves DEF RawWord
  <2>10. Kept(mem, new, {a, next})
    BY <2>4, <2>7 DEF Kept, LoadByte
  <2>. QED  BY <2>2, <2>5, <2>6, <2>9, <2>10
<1>. QED  BY <1>2, <1>3

-----------------------------------------------------------------------------
(* Flags *)

BitOf(x, w) == (x \div w) % 2

(* What is written to the status register when a flag is set.              *)
LEMMA FlagBits ==
  ASSUME NEW x \in Word, NEW b \in {0, 1}
  PROVE  /\ 2 * (x \div 2) + b \in Word
         /\ BitOf(2 * (x \div 2) + b, 1) = b
         /\ (x % 256) + 256 * b \in Word
         /\ BitOf((x % 256) + 256 * b, 1) = BitOf(x, 1)
         /\ (x % 256) - 4 * (BitOf(x, 4) - b) \in Word
         /\ BitOf((x % 256) - 4 * (BitOf(x, 4) - b), 1) = BitOf(x, 1)
         /\ BitOf((x % 256) - 4 * (BitOf(x, 4) - b), 4) = b
         /\ (x % 256) - 2 * (BitOf(x, 2) - b) \in Word
         /\ BitOf((x % 256) - 2 * (BitOf(x, 2) - b), 1) = BitOf(x, 1)
         /\ BitOf((x % 256) - 2 * (BitOf(x, 2) - b), 4) = BitOf(x, 4)
         /\ BitOf((x % 256) - 2 * (BitOf(x, 2) - b), 2) = b
         /\ BitOf((x % 256) - 2 * (BitOf(x, 2) - b), 256) = 0
<1> DEFINE c == x % 2
           z == (x \div 2) % 2
           n == (x \div 4) % 2
           h == (x \div 8) % 32
           v == x \div 256
<1>1. /\ c \in {0, 1} /\ z \in {0, 1} /\ n \in {0, 1} /\ h \in Int /\ v \in Int
      /\ 0 <= h /\ h <= 31 /\ 0 <= v /\ v <= 255
      /\ x = c + 2 * z + 4 * n + 8 * h + 256 * v
  <2>1. /\ x = c + 2 * (x \div 2) /\ x \div 2 = z + 2 * (x \div 4)
        /\ x \div 4 = n + 2 * (x \div 8) /\ x \div 8 = h + 32 * v
    BY WordDef
  <2>2. /\ c \in {0, 1} /\ z \in {0, 1} /\ n \in {0, 1} /\ h \in Int /\ v \in Int
        /\ 0 <= h /\ h <= 31 /\ 0 <= v /\ v <= 255
    BY WordDef
  <2>3. x \in Int /\ x \div 2 \in Int /\ x \div 4 \in Int /\ x \div 8 \in Int
    BY WordDef
  <2> HIDE DEF c, z, n, h, v
  <2>. QED  BY <2>1, <2>2, <2>3
<1> HIDE DEF c, z, n, h, v
<1>2. /\ x \div 2 = z + 2 * n + 4 * h + 128 * v /\ x % 256 = c + 2 * z + 4 * n + 8 * h
      /\ BitOf(x, 1) = c /\ BitOf(x, 2) = z /\ BitOf(x, 4) = n
  BY <1>1 DEF BitOf
<1>3. 2 * (x \div 2) + b \in Word /\ BitOf(2 * (x \div 2) + b, 1) = b
  BY <1>1, <1>2, WordDef DEF BitOf
<1>4. (x % 256) + 256 * b \in Word /\ BitOf((x % 256) + 256 * b, 1) = BitOf(x, 1)
  BY <1>1, <1>2, WordDef DEF BitOf
<1>5. /\ (x % 256) - 4 * (BitOf(x, 4) - b) \in Word
      /\ BitOf((x % 256) - 4 * (BitOf(x, 4) - b), 1) = BitOf(x, 1)
      /\ BitOf((x % 256) - 4 * (BitOf(x, 4) - b), 4) = b
  BY <1>1, <1>2, WordDef DEF BitOf
<1>6. /\ (x % 256) - 2 * (BitOf(x, 2) - b) \in Word
      /\ BitOf((x % 256) - 2 * (BitOf(x, 2) - b), 1) = BitOf(x, 1)
      /\ BitOf((x % 256) - 2 * (BitOf(x, 2) - b), 4) = BitOf(x, 4)
      /\ BitOf((x % 256) - 2 * (BitOf(x, 2) - b), 2) = b
      /\ BitOf((x % 256) - 2 * (BitOf(x, 2) - b), 256) = 0
  BY <1>1, <1>2, WordDef DEF BitOf
<1>. QED  BY <1>3, <1>4, <1>5, <1>6

File == [Regs -> Word]

(* Nothing but the registers S is different.                               *)
SameBut(r, s, S) == \A n \in Regs \ S : s[n] = r[n]

(* Where the flags are read from.                                          *)
LEMMA FlagIs ==
  ASSUME NEW r \in File
  PROVE  /\ S_C(r) = BitOf(r[2], 1) /\ S_Z(r) = BitOf(r[2], 2)
         /\ S_N(r) = BitOf(r[2], 4) /\ S_V(r) = BitOf(r[2], 256)
         /\ S_C(r) \in {0, 1}
         /\ r[2] \in Word /\ 2 \in Regs
  BY WordDef DEF File, Regs, S_C, S_Z, S_N, S_V, Flag, Bits, BitOf

(* A new value of the status register.                                     *)
LEMMA PutFlags ==
  ASSUME NEW r \in File, NEW x \in Word
  PROVE  LET s == [r EXCEPT ![2] = x]
         IN  /\ s \in File /\ SameBut(r, s, {2})
             /\ S_C(s) = BitOf(x, 1) /\ S_Z(s) = BitOf(x, 2)
             /\ S_N(s) = BitOf(x, 4) /\ S_V(s) = BitOf(x, 256)
<1> DEFINE s == [r EXCEPT ![2] = x]
<1>1. s \in File /\ s[2] = x /\ SameBut(r, s, {2})
  BY DEF File, SameBut, Regs
<1> HIDE DEF s
<1>2. /\ S_C(s) = BitOf(x, 1) /\ S_Z(s) = BitOf(x, 2)
      /\ S_N(s) = BitOf(x, 4) /\ S_V(s) = BitOf(x, 256)
  BY <1>1, FlagIs
<1>. QED  BY <1>1, <1>2 DEF s

(* The flag that is set, those that survive it, and the one that does not. *)
LEMMA SetFlags ==
  ASSUME NEW r \in File, NEW b
  PROVE  /\ set_C(r, b) \in File /\ SameBut(r, set_C(r, b), {2}) /\ S_C(set_C(r, b)) = BoolBit(b)
         /\ set_V(r, b) \in File /\ SameBut(r, set_V(r, b), {2}) /\ S_C(set_V(r, b)) = S_C(r)
         /\ set_N(r, b) \in File /\ SameBut(r, set_N(r, b), {2}) /\ S_C(set_N(r, b)) = S_C(r)
         /\ S_N(set_N(r, b)) = BoolBit(b)
         /\ set_Z(r, b) \in File /\ SameBut(r, set_Z(r, b), {2}) /\ S_C(set_Z(r, b)) = S_C(r)
         /\ S_N(set_Z(r, b)) = S_N(r) /\ S_Z(set_Z(r, b)) = BoolBit(b) /\ S_V(set_Z(r, b)) = 0
<1>1. PICK k \in {0, 1} : k = BoolBit(b)
  BY DEF BoolBit
<1>2. PICK x \in Word : x = r[2]
  BY FlagIs
<1>3. Flag(r, 2) = BitOf(x, 2) /\ Flag(r, 4) = BitOf(x, 4)
  BY <1>2 DEF Flag, Bits, BitOf
<1>4. /\ set_C(r, b) \in File /\ SameBut(r, set_C(r, b), {2})
      /\ S_C(set_C(r, b)) = BoolBit(b)
  <2>1. PICK y \in Word : y = 2 * (x \div 2) + k /\ BitOf(y, 1) = k
    BY FlagBits
  <2>2. set_C(r, b) = [r EXCEPT ![2] = y]
    BY <1>1, <1>2, <2>1 DEF set_C
  <2>3. PICK s \in File : /\ s = [r EXCEPT ![2] = y] /\ SameBut(r, s, {2})
                          /\ S_C(s) = BitOf(y, 1) /\ S_Z(s) = BitOf(y, 2)
                          /\ S_N(s) = BitOf(y, 4) /\ S_V(s) = BitOf(y, 256)
    BY PutFlags
  <2>. QED  BY <1>1, <2>1, <2>2, <2>3, FlagIs
<1>5. /\ set_V(r, b) \in File /\ SameBut(r, set_V(r, b), {2})
      /\ S_C(set_V(r, b)) = S_C(r)
  <2>1. PICK y \in Word : y = (x % 256) + 256 * k /\ BitOf(y, 1) = BitOf(x, 1)
    BY FlagBits
  <2>2. set_V(r, b) = [r EXCEPT ![2] = y]
    BY <1>1, <1>2, <2>1 DEF set_V
  <2>3. PICK s \in File : /\ s = [r EXCEPT ![2] = y] /\ SameBut(r, s, {2})
                          /\ S_C(s) = BitOf(y, 1) /\ S_Z(s) = BitOf(y, 2)
                          /\ S_N(s) = BitOf(y, 4) /\ S_V(s) = BitOf(y, 256)
    BY PutFlags
  <2>. QED  BY <1>2, <2>1, <2>2, <2>3, FlagIs
<1>6. /\ set_N(r, b) \in File /\ SameBut(r, set_N(r, b), {2})
      /\ S_C(set_N(r, b)) = S_C(r) /\ S_N(set_N(r, b)) = BoolBit(b)
  <2>1. PICK y \in Word : /\ y = (x % 256) - 4 * (BitOf(x, 4) - k)
                          /\ BitOf(y, 1) = BitOf(x, 1) /\ BitOf(y, 4) = k
    BY FlagBits
  <2>2. set_N(r, b) = [r EXCEPT ![2] = y]
    BY <1>1, <1>2, <1>3, <2>1 DEF set_N
  <2>3. PICK s \in File : /\ s = [r EXCEPT ![2] = y] /\ SameBut(r, s, {2})
                          /\ S_C(s) = BitOf(y, 1) /\ S_Z(s) = BitOf(y, 2)
                          /\ S_N(s) = BitOf(y, 4) /\ S_V(s) = BitOf(y, 256)
    BY PutFlags
  <2>. QED  BY <1>1, <1>2, <2>1, <2>2, <2>3, FlagIs
<1>7. /\ set_Z(r, b) \in File /\ SameBut(r, set_Z(r, b), {2})
      /\ S_C(set_Z(r, b)) = S_C(r) /\ S_N(set_Z(r, b)) = S_N(r)
      /\ S_Z(set_Z(r, b)) = BoolBit(b) /\ S_V(set_Z(r, b)) = 0
  <2>1. PICK y \in Word : /\ y = (x % 256) - 2 * (BitOf(x, 2) - k)
                          /\ BitOf(y, 1) = BitOf(x, 1) /\ BitOf(y, 4) = BitOf(x, 4)
                          /\ BitOf(y, 2) = k /\ BitOf(y, 256) = 0
    BY FlagBits
  <2>2. set_Z(r, b) = [r EXCEPT ![2] = y]
    BY <1>1, <1>2, <1>3, <2>1 DEF set_Z
  <2>3. PICK s \in File : /\ s = [r EXCEPT ![2] = y] /\ SameBut(r, s, {2})
                          /\ S_C(s) = BitOf(y, 1) /\ S_Z(s) = BitOf(y, 2)
                          /\ S_N(s) = BitOf(y, 4) /\ S_V(s) = BitOf(y, 256)
    BY PutFlags
  <2>. QED  BY <1>1, <1>2, <2>1, <2>2, <2>3, FlagIs
<1>. QED  BY <1>4, <1>5, <1>6, <1>7

-----------------------------------------------------------------------------
(* Operands *)

(* The ranges of the fields of an instruction.                             *)
LEMMA InsnFields ==
  ASSUME NEW i \in Insn
  PROVE  /\ i.family \in Families /\ i.opcode \in 0..15 /\ i.condition \in 0..7
         /\ i.bw \in 0..1 /\ i.as \in 0..3 /\ i.source \in Regs /\ i.destination \in Regs
         /\ i.mode \in SrcModes /\ i.dstMode \in DstModes /\ i.offset \in Word
         /\ i.srcx \in Word /\ i.dstx \in Word
  BY DEF Insn, Regs

(* A bit is 0 or 1.                                                        *)
LEMMA BitIs ==
  ASSUME NEW x \in Int, NEW k \in 0..15
  PROVE  Bit(x, k) \in {0, 1}
<1>1. /\ Bit(x, 0) \in {0, 1} /\ Bit(x, 1) \in {0, 1} /\ Bit(x, 2) \in {0, 1}
      /\ Bit(x, 3) \in {0, 1} /\ Bit(x, 4) \in {0, 1} /\ Bit(x, 5) \in {0, 1}
      /\ Bit(x, 6) \in {0, 1} /\ Bit(x, 7) \in {0, 1} /\ Bit(x, 8) \in {0, 1}
      /\ Bit(x, 9) \in {0, 1} /\ Bit(x, 10) \in {0, 1} /\ Bit(x, 11) \in {0, 1}
      /\ Bit(x, 12) \in {0, 1} /\ Bit(x, 13) \in {0, 1} /\ Bit(x, 14) \in {0, 1}
      /\ Bit(x, 15) \in {0, 1}
  BY DEF Bit
<1>2. \/ k = 0 \/ k = 1 \/ k = 2 \/ k = 3 \/ k = 4 \/ k = 5 \/ k = 6 \/ k = 7 \/ k = 8
      \/ k = 9 \/ k = 10 \/ k = 11 \/ k = 12 \/ k = 13 \/ k = 14 \/ k = 15
  OBVIOUS
<1>. QED  BY <1>1, <1>2

(* Sixteen bits make a word.                                               *)
LEMMA OfBitsWord ==
  ASSUME NEW b, \A k \in 0..15 : b[k] \in {0, 1}
  PROVE  OfBits(b) \in Word
<1>1. ASSUME NEW k \in {0, 4, 8, 12}
      PROVE  Nibble(b, k) \in Int /\ 0 <= Nibble(b, k) /\ Nibble(b, k) <= 15
  <2>1. k \in 0..15 /\ k + 1 \in 0..15 /\ k + 2 \in 0..15 /\ k + 3 \in 0..15
    OBVIOUS
  <2>2. /\ b[k] \in {0, 1} /\ b[k + 1] \in {0, 1}
        /\ b[k + 2] \in {0, 1} /\ b[k + 3] \in {0, 1}
    BY <2>1
  <2>. QED  BY <2>2 DEF Nibble
<1>. QED  BY <1>1, WordDef DEF OfBits

(* The operators on words make words.                                      *)
LEMMA BitwiseWord ==
  ASSUME NEW x \in Word, NEW y \in Word
  PROVE  x & y \in Word /\ x | y \in Word /\ x ^^ y \in Word
<1>1. ASSUME NEW k \in 0..15
      PROVE  /\ Bit(x, k) * Bit(y, k) \in {0, 1}
             /\ (IF Bit(x, k) = 1 THEN 1 ELSE Bit(y, k)) \in {0, 1}
             /\ (Bit(x, k) + Bit(y, k)) % 2 \in {0, 1}
  <2>1. PICK p \in {0, 1}, q \in {0, 1} : p = Bit(x, k) /\ q = Bit(y, k)
    BY BitIs, WordDef
  <2>. QED  BY <2>1
<1>2. x & y \in Word
  BY <1>1, OfBitsWord DEF &
<1>3. x | y \in Word
  BY <1>1, OfBitsWord DEF |
<1>4. x ^^ y \in Word
  BY <1>1, OfBitsWord DEF ^^
<1>. QED  BY <1>2, <1>3, <1>4

(* So does the part of a word that a byte instruction takes,               *)
LEMMA NarrowWord ==
  ASSUME NEW i, NEW v \in Word
  PROVE  Narrow(i, v) \in Word
  BY WordDef DEF Narrow

(* and what an operand reads from a register.                              *)
LEMMA RegOfWord ==
  ASSUME NEW i \in Insn, NEW r \in File, NEW n \in Regs
  PROVE  RegOf(i, r, n) \in Word
<1>1. i.as = 0 \/ i.as = 1 \/ i.as = 2 \/ i.as = 3
  BY InsnFields, Four
<1>2. cg2v(i) \in Word
  BY <1>1, WordDef DEF cg2v
<1>. QED  BY <1>2 DEF RegOf, File

(* A source has an address and a value that are words, and leaves registers.*)
LEMMA Sources ==
  ASSUME NEW i \in Insn, NEW r \in File, NEW mem, MemOK(mem)
  PROVE  /\ SrcAddr(i, r) \in Word /\ src_operand(i, r, mem) \in Word
         /\ Increment(i, r) \in File
<1>0. i.source \in Regs /\ i.srcx \in Word /\ i.mode \in SrcModes
  BY InsnFields
<1>1. RegOf(i, r, i.source) \in Word
  BY <1>0, RegOfWord
<1>2. SrcAddr(i, r) \in Word
  BY <1>0, <1>1, WordDef, WrapWord DEF SrcAddr
<1>3. src_operand(i, r, mem) \in Word
  <2>1. CASE i.mode \in DOMAIN Consts
    BY <2>1, WordDef DEF src_operand, Consts
  <2>2. CASE i.mode \notin DOMAIN Consts
    <3>1. LoadByte(mem, SrcAddr(i, r)) \in Word /\ RawWord(mem, SrcAddr(i, r)) \in Word
      BY LoadTypes, WordDef, OctetDef
    <3>2. (CASE i.mode = "Immediate" -> i.srcx
             [] i.mode = "RegDirect" -> RegOf(i, r, i.source)
             [] OTHER -> IF SrcIsWord(i) THEN RawWord(mem, SrcAddr(i, r))
                                         ELSE LoadByte(mem, SrcAddr(i, r))) \in Word
      BY <1>0, <1>1, <3>1
    <3>. QED  BY <2>2, <3>2, NarrowWord DEF src_operand
  <2>. QED  BY <2>1, <2>2
<1>4. Increment(i, r) \in File
  <2>1. r[i.source] \in Int
    BY <1>0, WordDef DEF File
  <2>2. Wrap(r[i.source] + (IF Byte(i) THEN 1 ELSE 2)) \in Word
    BY <2>1, WrapWord
  <2>. QED  BY <1>0, <2>2 DEF Increment, File
<1>. QED  BY <1>2, <1>3, <1>4

(* So has a destination.                                                   *)
LEMMA Destinations ==
  ASSUME NEW i \in Insn, NEW r \in File, NEW mem, MemOK(mem)
  PROVE  /\ DstAddr(i, r) \in Word
         /\ AtDestination(i, r, mem) \in Word /\ dst_operand(i, r, mem) \in Word
<1>0. i.destination \in Regs /\ i.dstx \in Word
  BY InsnFields
<1>1. RegOf(i, r, i.destination) \in Word
  BY <1>0, RegOfWord
<1>2. DstAddr(i, r) \in Word
  BY <1>0, <1>1, WordDef, WrapWord DEF DstAddr
<1>3. LoadByte(mem, DstAddr(i, r)) \in Word /\ RawWord(mem, DstAddr(i, r)) \in Word
  BY LoadTypes, WordDef, OctetDef
<1>4. AtDestination(i, r, mem) \in Word
  BY <1>1, <1>3, NarrowWord DEF AtDestination
<1>. QED  BY <1>2, <1>4, WordDef DEF dst_operand

-----------------------------------------------------------------------------
(* What the fields of a decoded instruction have to do with each other.    *)

Decoded(i) ==
  /\ i \in Insn
  /\ i.family = "single" => i.opcode \in 0..7
  /\ i.family = "double" => i.opcode \in 4..15
  /\ i.mode \in {"Indexed", "RegIndirect", "IndirectIncr"} => i.source \notin {2, 3}
  /\ i.dstMode = "Indexed" => i.destination # 2
  /\ i.Width = IF i.family = "jump" THEN 2 ELSE Length(i.mode, i.dstMode)

(* Disassemble makes no other instructions.                                *)
LEMMA DecodeShapes ==
  ASSUME NEW w \in Word, NEW w1 \in Word, NEW w2 \in Word
  PROVE  Decoded(Disassemble(w, w1, w2))
<1> DEFINE i == Disassemble(w, w1, w2)
<1>1. i \in Insn
  BY DecodeTotal
<1>2. /\ i.family = family(w) /\ i.opcode = opcode(w) /\ i.mode = mode(w)
      /\ i.source = source(w) /\ i.dstMode = dstMode(w) /\ i.destination = destination(w)
      /\ i.Width = Width(w)
  BY DEF Disassemble
<1> HIDE DEF i
<1>3. i.family = "single" => i.opcode \in 0..7
  BY <1>2, FieldRanges DEF opcode
<1>4. i.family = "double" => i.opcode \in 4..15
  <2>1. SUFFICES ASSUME family(w) = "double" PROVE opcode(w) \in 4..15
    BY <1>2
  <2>2. Bits(w, 8192, 8) # 0 /\ Bits(w, 8192, 8) # 1
    BY <2>1 DEF family
  <2>3. Bits(w, 4096, 16) \in 4..15
    BY <2>2, WordDef DEF Bits
  <2>. QED  BY <2>1, <2>3 DEF opcode
<1>5. i.mode \in {"Indexed", "RegIndirect", "IndirectIncr"} => i.source \notin {2, 3}
  <2>1. SUFFICES ASSUME mode(w) \in {"Indexed", "RegIndirect", "IndirectIncr"}
                 PROVE  source(w) \notin {2, 3}
    BY <1>2
  <2>2. ~isConstant(w)
    BY <2>1, ConstantModeTotal DEF mode
  <2>3. As(w) = 0 \/ As(w) = 1 \/ As(w) = 2 \/ As(w) = 3
    BY FieldTypes, Four
  <2>4. ~(Indexes(w) /\ source(w) = 2)
    BY <2>1, <2>2 DEF mode, Immediates, Indexes
  <2>5. As(w) # 0
    BY <2>1, <2>2, <2>4 DEF mode, Immediates, interpAs
  <2>. QED  BY <2>2, <2>3, <2>4, <2>5 DEF isConstant, Indexes
<1>6. i.dstMode = "Indexed" => i.destination # 2
  BY <1>2 DEF dstMode
<1>7. i.Width = IF i.family = "jump" THEN 2 ELSE Length(i.mode, i.dstMode)
  BY <1>2, WidthsAgree DEF WidthCounts, Width
<1>. QED  BY <1>1, <1>3, <1>4, <1>5, <1>6, <1>7 DEF Decoded, i

(* What most proofs need of an instruction.                                *)
LEMMA DecodedFields ==
  ASSUME NEW i, Decoded(i)
  PROVE  i \in Insn /\ i.family \in Families /\ i.source \in Regs /\ i.destination \in Regs
         /\ i.offset \in Word
  BY InsnFields DEF Decoded

-----------------------------------------------------------------------------
(* What each part of an instruction may leave a trace in. *)

(* A larger set of registers may be different.                             *)
LEMMA SameMore ==
  ASSUME NEW r, NEW s, NEW S, NEW T, SameBut(r, s, S), S \subseteq T
  PROVE  SameBut(r, s, T)
  BY DEF SameBut

(* One register is written.                                                *)
LEMMA Put ==
  ASSUME NEW r \in File, NEW n \in Regs, NEW v \in Word
  PROVE  LET s == [r EXCEPT ![n] = v]
         IN  s \in File /\ s[n] = v /\ SameBut(r, s, {n})
  BY DEF File, SameBut

(* A result is written to a register, if it is not the constant one.       *)
LEMMA PutRegs ==
  ASSUME NEW i \in Insn, NEW r \in File, NEW n \in Regs, NEW v \in Word
  PROVE  LET s == PutReg(i, r, n, v)
         IN  /\ s \in File /\ SameBut(r, s, {n})
             /\ n # 3 => s = [r EXCEPT ![n] = Narrow(i, v)] /\ s[n] = Narrow(i, v)
  BY NarrowWord DEF File, SameBut, PutReg

(* An increment moves the register of its mode.                            *)
LEMMA Increments ==
  ASSUME NEW i \in Insn, NEW r \in File
  PROVE  /\ Increment(i, r) \in File
         /\ SameBut(r, Increment(i, r), IF i.mode = "IndirectIncr" THEN {i.source} ELSE {})
<1>1. i.source \in Regs
  BY InsnFields
<1>2. r[i.source] \in Int
  BY <1>1, WordDef DEF File
<1>3. Wrap(r[i.source] + (IF Byte(i) THEN 1 ELSE 2)) \in Word
  BY <1>2, WrapWord
<1>. QED  BY <1>1, <1>3 DEF Increment, File, SameBut

(* A result is written to memory.                                          *)
LEMMA PutsMem ==
  ASSUME NEW i, NEW mem, MemOK(mem), NEW a \in Word, NEW v \in Word
  PROVE  LET new == PutMem(i, mem, a, v)
         IN  /\ MemOK(new) /\ Kept(mem, new, CellsAt(a))
             /\ a \notin Hooked /\ ~Byte(i) => RawWord(new, a) = v
  BY StoresByte, StoresWord DEF PutMem, CellsAt

(* The addresses do not depend on the flags.                               *)
LEMMA FlaglessAddresses ==
  ASSUME NEW i, Decoded(i), NEW r \in File, NEW s \in File, SameBut(r, s, {2})
  PROVE  /\ i.mode \in SrcInMemory => SrcAddr(i, s) = SrcAddr(i, r)
         /\ i.dstMode \in {"Absolute", "Indexed"} => DstAddr(i, s) = DstAddr(i, r)
<1>1. \A n \in Regs \ {2} : RegOf(i, s, n) = RegOf(i, r, n)
  BY DEF RegOf, SameBut
<1>2. i.mode \in SrcInMemory => SrcAddr(i, s) = SrcAddr(i, r)
  BY <1>1, DecodedFields DEF SrcAddr, SrcInMemory, Decoded
<1>3. i.dstMode \in {"Absolute", "Indexed"} => DstAddr(i, s) = DstAddr(i, r)
  BY <1>1, DecodedFields DEF DstAddr, Decoded
<1>. QED  BY <1>2, <1>3

(* The parts of a machine that executes.                                   *)
LEMMA Machines ==
  ASSUME NEW r, NEW mem, NEW e
  PROVE  /\ Machine(r, mem, e).regs = r /\ Machine(r, mem, e).mem = mem
         /\ Machine(r, mem, e).err = e
         /\ Finish(r, mem).regs = r /\ Finish(r, mem).mem = mem
         /\ Finish(r, mem).err \in {"none", "Halted"}
  BY DEF Machine, Finish

(* The flags of one operand are in the status register.                    *)
LEMMA Flags1Types ==
  ASSUME NEW i, NEW r \in File, NEW src, NEW tmp
  PROVE  /\ Flags1(i, r, src, tmp) \in File
         /\ SameBut(r, Flags1(i, r, src, tmp), {2})
         /\ i.opcode \notin {0, 2, 3} => Flags1(i, r, src, tmp) = r
<1> DEFINE c == IF i.opcode \in {0, 2} THEN set_C(r, src % 2 = 1)
                ELSE IF i.opcode = 3 THEN set_C(r, tmp # 0) ELSE r
           v == set_V(c, FALSE)
           z == set_Z(v, tmp = 0)
           negative == IF Byte(i) THEN tmp % 256 >= 128 ELSE Neg(tmp)
<1>1. c \in File /\ SameBut(r, c, {2}) /\ (i.opcode \notin {0, 2, 3} => c = r)
  BY SetFlags DEF SameBut
<1>2. Flags1(i, r, src, tmp) = IF i.opcode \notin {0, 2, 3} THEN c
                               ELSE IF negative THEN set_N(z, TRUE) ELSE set_Z(z, FALSE)
  BY DEF Flags1
<1> HIDE DEF c, negative
<1>3. v \in File /\ SameBut(c, v, {2})
  BY <1>1, SetFlags
<1> HIDE DEF v
<1>4. z \in File /\ SameBut(v, z, {2})
  BY <1>3, SetFlags
<1> HIDE DEF z
<1>5. /\ set_N(z, TRUE) \in File /\ SameBut(z, set_N(z, TRUE), {2})
      /\ set_Z(z, FALSE) \in File /\ SameBut(z, set_Z(z, FALSE), {2})
  BY <1>4, SetFlags
<1>6. SameBut(r, set_N(z, TRUE), {2}) /\ SameBut(r, set_Z(z, FALSE), {2})
  BY <1>1, <1>3, <1>4, <1>5 DEF SameBut
<1>. QED  BY <1>1, <1>2, <1>5, <1>6

Sets2(i) == i.opcode \in Adds \cup Subs \cup Ands \cup {14}

IsZero(k) == k = 0

(* The flags of two operands, as the conditional jumps read them.          *)
LEMMA Flags2Are ==
  ASSUME NEW i, NEW r \in File, NEW src, NEW dst, NEW tmp
  PROVE  LET s == Flags2(i, r, src, dst, tmp)
         IN  /\ s \in File /\ SameBut(r, s, {2})
             /\ ~Sets2(i) => s = r
             /\ Sets2(i) => /\ S_C(s) = IF Carry(i, src, dst, tmp) THEN 1 ELSE 0
                            /\ S_N(s) = IF Negative(i, tmp) THEN 1 ELSE 0
                            /\ S_Z(s) = IF tmp = 0 THEN 1 ELSE 0
                            /\ S_V(s) = 0
<1> DEFINE c == set_C(r, Carry(i, src, dst, tmp))
           v == set_V(c, Overflow(i, src, dst, tmp))
           n == set_N(v, Negative(i, tmp))
           z == set_Z(n, IsZero(tmp))
<1>1. Flags2(i, r, src, dst, tmp) = IF Sets2(i) THEN z ELSE r
  BY DEF Flags2, Sets2, IsZero
<1>2. /\ c \in File /\ SameBut(r, c, {2}) /\ S_C(c) = IF Carry(i, src, dst, tmp) THEN 1 ELSE 0
  BY SetFlags DEF BoolBit
<1> HIDE DEF c
<1>3. v \in File /\ SameBut(c, v, {2}) /\ S_C(v) = S_C(c)
  BY <1>2, SetFlags DEF BoolBit
<1> HIDE DEF v
<1>4. n \in File /\ SameBut(v, n, {2}) /\ S_C(n) = S_C(v) /\ S_N(n) = IF Negative(i, tmp) THEN 1 ELSE 0
  BY <1>3, SetFlags DEF BoolBit
<1> HIDE DEF n
<1>5. /\ z \in File /\ SameBut(n, z, {2}) /\ S_C(z) = S_C(n) /\ S_N(z) = S_N(n)
      /\ S_Z(z) = (IF IsZero(tmp) THEN 1 ELSE 0) /\ S_V(z) = 0
  BY <1>4, SetFlags DEF BoolBit
<1> HIDE DEF z
<1>6. SameBut(r, z, {2}) /\ SameBut(r, r, {2})
  BY <1>2, <1>3, <1>4, <1>5 DEF SameBut
<1>. QED  BY <1>1, <1>2, <1>3, <1>4, <1>5, <1>6 DEF IsZero

(* Results of one operand are words,                                       *)
LEMMA Eval1Word ==
  ASSUME NEW i, NEW r \in File, NEW src \in Word
  PROVE  Eval1(i, r, src) \in Word
<1>1. PICK top \in {128, 32768} : top = IF Byte(i) THEN 128 ELSE 32768
  OBVIOUS
<1>2. ((src \div 2) | (top * S_C(r))) % (2 * top) \in Word
  <2>1. src \div 2 \in Word /\ top * S_C(r) \in Word
    BY FlagIs, WordDef
  <2>2. PICK k \in Int : k = (src \div 2) | (top * S_C(r))
    BY <2>1, BitwiseWord, WordDef
  <2>3. k % (2 * top) \in Word
    BY WordDef
  <2>. QED  BY <2>2, <2>3
<1>3. (src \div 256) + 256 * (src % 256) \in Word
  BY WordDef
<1>4. Bits(src, top, 2) * (top + (top \div 2)) \in Word
  <2>1. PICK b \in {0, 1} : b = Bits(src, top, 2)
    BY WordDef DEF Bits
  <2>. QED  BY <2>1, WordDef
<1>5. (src % 256) + 65280 * Bits(src, 128, 2) \in Word
  <2>1. PICK b \in {0, 1} : b = Bits(src, 128, 2)
    BY WordDef DEF Bits
  <2>. QED  BY <2>1, WordDef
<1>. QED  BY <1>1, <1>2, <1>3, <1>4, <1>5, ZeroRange DEF Eval1

(* and so are results of two.                                              *)
LEMMA Eval2Word ==
  ASSUME NEW i, NEW r \in File, NEW src \in Word, NEW dst \in Word
  PROVE  Eval2(i, r, src, dst) \in Word
<1>1. PICK size \in {256, 65536} : size = Size(i)
  BY DEF Size
<1>2. PICK x \in Word, y \in Word : x = src % size /\ y = dst % size
  BY WordDef
<1>3. PICK c \in {0, 1} : c = S_C(r)
  BY FlagIs
<1>4. \A k \in Int : k % size \in Word
  BY WordDef
<1>5. (y + x) % size \in Word /\ (y + x + c) % size \in Word
  BY <1>4, WordDef
<1>6. (y - x + c) % size \in Word /\ (y - x) % size \in Word
  BY <1>4, WordDef
<1>7. x & y \in Word /\ x | y \in Word /\ x ^^ y \in Word
  BY BitwiseWord
<1>. QED  BY <1>1, <1>2, <1>3, <1>5, <1>6, <1>7, ZeroRange DEF Eval2

-----------------------------------------------------------------------------
(* What an instruction leaves a trace in. *)

(* The cells an instruction may store to, from its registers as they are   *)
(* after the source.                                                       *)
Stored(i, r) ==
  UNION { IF Is1(i, {4, 5}) THEN CellsAt(Wrap(r[1] - 2)) ELSE {},
          IF Is1(i, {0, 1, 2, 3, 7}) /\ i.mode \in SrcInMemory
          THEN CellsAt(SrcAddr(i, r)) ELSE {},
          IF i.family = "double" /\ ~Is2(i, {9, 11}) /\ i.dstMode # "RegDirect"
          THEN CellsAt(DstAddr(i, r)) ELSE {} }

Traces(i, r, r1, mem, m) ==
  /\ m.regs \in File /\ MemOK(m.mem)
  /\ SameBut(r, m.regs, MayChange(i)) /\ Kept(mem, m.mem, Stored(i, r1))

(* More cells may be different.                                            *)
LEMMA KeptMore ==
  ASSUME NEW old, NEW new, NEW S, NEW T, Kept(old, new, S), S \subseteq T
  PROVE  Kept(old, new, T)
  BY DEF Kept

(* A jump changes the program counter.                                     *)
LEMMA JumpTraces ==
  ASSUME NEW i, Decoded(i), NEW r \in File, NEW mem, MemOK(mem), i.family = "jump"
  PROVE  Traces(i, r, r, mem, ExecuteJump(i, r, mem))
<1> DEFINE s == IF Taken(i.condition, r) THEN [r EXCEPT ![0] = Wrap(@ + i.offset)] ELSE r
<1>1. 0 \in Regs /\ r[0] \in Int /\ i.offset \in Int
  BY DecodedFields, WordDef DEF Regs, File
<1>2. Wrap(r[0] + i.offset) \in Word
  BY <1>1, WrapWord
<1>3. s \in File /\ SameBut(r, s, {0})
  BY <1>1, <1>2 DEF File, SameBut
<1>4. {0} \subseteq MayChange(i)
  BY <1>1 DEF MayChange
<1>5. SameBut(r, s, MayChange(i))
  BY <1>3, <1>4, SameMore
<1>6. ExecuteJump(i, r, mem) = Finish(s, mem)
  BY DEF ExecuteJump
<1> HIDE DEF s
<1>. QED  BY <1>3, <1>5, <1>6, Machines, KeptRefl DEF Traces

(* The increment of the source leaves a trace in the source.               *)
LEMMA IncrementTraces ==
  ASSUME NEW i, Decoded(i), NEW r \in File, i.family # "jump"
  PROVE  Increment(i, r) \in File /\ SameBut(r, Increment(i, r), MayChange(i))
<1>1. (IF i.mode = "IndirectIncr" THEN {i.source} ELSE {}) \subseteq MayChange(i)
  BY DecodedFields DEF MayChange
<1>2. /\ Increment(i, r) \in File
      /\ SameBut(r, Increment(i, r), IF i.mode = "IndirectIncr" THEN {i.source} ELSE {})
  BY Increments, DecodedFields
<1>. QED  BY <1>1, <1>2, SameMore

(* RRC and the others store to their source, PUSH and CALL to the stack.   *)
LEMMA SingleTraces ==
  ASSUME NEW i, Decoded(i), NEW r \in File, NEW mem, MemOK(mem), i.family = "single"
  PROVE  Traces(i, r, Increment(i, r), mem, ExecuteSingle(i, r, mem))
<1> DEFINE src == src_operand(i, r, mem)
           r1  == Increment(i, r)
           tmp == Eval1(i, r1, src)
           f   == Flags1(i, r1, src, tmp)
           sp  == Wrap(r1[1] - 2)
           m   == ExecuteSingle(i, r, mem)
<1>1. r1 \in File /\ SameBut(r, r1, MayChange(i)) /\ src \in Word /\ i \in Insn
  BY IncrementTraces, Sources, DecodedFields
<1>2. 0 \in Regs /\ 1 \in Regs /\ 2 \in Regs
  BY DEF Regs
<1>3. sp \in Word
  <2>1. r1[1] \in Int
    BY <1>1, <1>2, WordDef DEF File
  <2>. QED  BY <2>1, WrapWord
<1>4. tmp \in Word /\ f \in File /\ SameBut(r1, f, {2}) /\ (i.opcode \notin {0, 2, 3} => f = r1)
  BY <1>1, Eval1Word, Flags1Types
<1>5. \/ m.regs = r1 /\ m.mem = mem
      \/ i.opcode = 4 /\ m = Push(i, r1, mem, src)
      \/ i.opcode = 5 /\ m = Call(r1, mem, src)
      \/ i.opcode \in {0, 1, 2, 3, 7} /\ m = src_operand_store(i, f, mem, tmp)
  <2>1. \/ m = Machine(r1, mem, src_error(i, r)) \/ m = Machine(r1, mem, "none")
        \/ i.opcode = 4 /\ m = Push(i, r1, mem, src)
        \/ i.opcode = 5 /\ m = Call(r1, mem, src)
        \/ i.opcode \notin {4, 5, 6} /\ m = src_operand_store(i, f, mem, tmp)
    BY DEF ExecuteSingle
  <2>2. i.opcode \in 0..7
    BY DEF Decoded
  <2>. QED  BY <2>1, <2>2, Machines
<1> HIDE DEF src, r1, tmp, f, sp, m
<1> SUFFICES Traces(i, r, r1, mem, m)
  BY DEF r1, m
<1>9. CASE m.regs = r1 /\ m.mem = mem
  BY <1>1, <1>9, KeptRefl DEF Traces
<1>6. CASE i.opcode = 4 /\ m = Push(i, r1, mem, src)
  <2>1. m.regs = [r1 EXCEPT ![1] = sp] /\ m.mem = PutMem(i, mem, sp, src)
    BY <1>6, Machines DEF Push, sp
  <2>2. m.regs \in File /\ SameBut(r1, m.regs, {1})
    BY <1>1, <1>2, <1>3, <2>1, Put
  <2>3. 1 \in MayChange(i) /\ CellsAt(sp) \subseteq Stored(i, r1)
    BY <1>2, <1>6 DEF MayChange, Is1, Stored, sp
  <2>4. MemOK(m.mem) /\ Kept(mem, m.mem, CellsAt(sp))
    <3>1. MemOK(PutMem(i, mem, sp, src)) /\ Kept(mem, PutMem(i, mem, sp, src), CellsAt(sp))
      BY <1>1, <1>3, PutsMem
    <3>. QED  BY <2>1, <3>1
  <2>5. SameBut(r, m.regs, MayChange(i))
    BY <1>1, <2>2, <2>3 DEF SameBut
  <2>. QED  BY <2>2, <2>3, <2>4, <2>5, KeptMore DEF Traces
<1>7. CASE i.opcode = 5 /\ m = Call(r1, mem, src)
  <2>1. m.regs = [[r1 EXCEPT ![0] = src] EXCEPT ![1] = sp] /\ m.mem = StoreWord(mem, sp, r1[0])
    BY <1>7, Machines DEF Call, sp
  <2>2. PICK s \in File : s = [r1 EXCEPT ![0] = src] /\ SameBut(r1, s, {0})
    BY <1>1, <1>2, Put
  <2>3. m.regs \in File /\ SameBut(s, m.regs, {1})
    <3>1. [s EXCEPT ![1] = sp] \in File /\ SameBut(s, [s EXCEPT ![1] = sp], {1})
      BY <1>2, <1>3, Put
    <3>. QED  BY <2>1, <2>2, <3>1
  <2>4. 0 \in MayChange(i) /\ 1 \in MayChange(i) /\ CellsAt(sp) \subseteq Stored(i, r1)
    BY <1>2, <1>7 DEF MayChange, Is1, Stored, sp
  <2>5. r1[0] \in Word
    BY <1>1, <1>2 DEF File
  <2>6. MemOK(m.mem) /\ Kept(mem, m.mem, CellsAt(sp))
    BY <1>3, <2>1, <2>5, StoresWord DEF CellsAt
  <2>7. SameBut(r, m.regs, MayChange(i))
    BY <1>1, <2>2, <2>3, <2>4 DEF SameBut
  <2>. QED  BY <2>3, <2>4, <2>6, <2>7, KeptMore DEF Traces
<1>8. CASE i.opcode \in {0, 1, 2, 3, 7} /\ m = src_operand_store(i, f, mem, tmp)
  <2>1. SameBut(r, f, MayChange(i))
    <3>1. i.opcode \in {0, 2, 3} => 2 \in MayChange(i)
      BY <1>2 DEF MayChange, Is1
    <3>. QED  BY <1>1, <1>4, <3>1 DEF SameBut
  <2>2. CASE i.mode = "RegDirect"
    <3>1. m.regs = PutReg(i, f, i.source, tmp) /\ m.mem = mem
      BY <1>8, <2>2, Machines DEF src_operand_store
    <3>2. m.regs \in File /\ SameBut(f, m.regs, {i.source})
      <4>1. /\ PutReg(i, f, i.source, tmp) \in File
            /\ SameBut(f, PutReg(i, f, i.source, tmp), {i.source})
        BY <1>1, <1>4, PutRegs, DecodedFields
      <4>. QED  BY <3>1, <4>1
    <3>3. i.source \in MayChange(i)
      BY <1>8, <2>2, DecodedFields DEF MayChange, Is1
    <3>4. SameBut(r, m.regs, MayChange(i))
      BY <2>1, <3>2, <3>3 DEF SameBut
    <3>. QED  BY <3>1, <3>2, <3>4, KeptRefl DEF Traces
  <2>3. CASE i.mode \in SrcInMemory
    <3>1. m.regs = Increment(i, f) /\ m.mem = PutMem(i, mem, SrcAddr(i, f), tmp)
      BY <1>8, <2>3, Machines DEF src_operand_store, SrcInMemory
    <3>2. m.regs \in File /\ SameBut(f, m.regs, MayChange(i))
      BY <1>4, <3>1, IncrementTraces
    <3>3. SrcAddr(i, f) = SrcAddr(i, r1) /\ SrcAddr(i, r1) \in Word
      BY <1>1, <1>4, <2>3, FlaglessAddresses, Sources
    <3>4. MemOK(m.mem) /\ Kept(mem, m.mem, CellsAt(SrcAddr(i, r1)))
      BY <1>4, <3>1, <3>3, PutsMem
    <3>5. CellsAt(SrcAddr(i, r1)) \subseteq Stored(i, r1)
      BY <1>8, <2>3 DEF Stored, Is1
    <3>6. SameBut(r, m.regs, MayChange(i))
      BY <2>1, <3>2 DEF SameBut
    <3>. QED  BY <3>2, <3>4, <3>5, <3>6, KeptMore DEF Traces
  <2>4. CASE i.mode # "RegDirect" /\ i.mode \notin SrcInMemory
    <3>1. m.regs = f /\ m.mem = mem
      BY <1>8, <2>4, Machines DEF src_operand_store
    <3>. QED  BY <1>4, <2>1, <3>1, KeptRefl DEF Traces
  <2>. QED  BY <2>2, <2>3, <2>4
<1>. QED  BY <1>5, <1>6, <1>7, <1>8, <1>9

(* An instruction of two operands fails with its registers incremented, or *)
(* compares, or stores.                                                    *)
LEMMA DoubleRuns ==
  ASSUME NEW i, NEW r, NEW mem
  PROVE  LET src == src_operand(i, r, mem)
             r1  == Increment(i, r)
             dst == dst_operand(i, r1, mem)
             tmp == Eval2(i, r1, src, dst)
             r2  == Flags2(i, r1, src, dst, tmp)
             m   == ExecuteDouble(i, r, mem)
         IN  \/ m.regs = r1 /\ m.mem = mem /\ m.err \notin {"none", "Halted"}
             \/ i.opcode \in {9, 11} /\ m = Finish(r2, mem)
             \/ i.opcode \notin {9, 11} /\ m = dst_operand_store(i, r2, mem, tmp)
<1>1. \A a : WordError(a) \in {"AddressUnaligned", "AddressTooHigh", "none"}
  BY DEF WordError
<1>2. /\ src_error(i, r) \in {"AddressUnaligned", "AddressTooHigh", "none"}
      /\ dst_error(i, Increment(i, r)) \in {"AddressUnaligned", "AddressTooHigh", "none"}
  BY <1>1 DEF src_error, dst_error
<1>3. CASE src_error(i, r) # "none"
  <2>1. ExecuteDouble(i, r, mem) = Machine(Increment(i, r), mem, src_error(i, r))
    BY <1>3 DEF ExecuteDouble
  <2>. QED  BY <1>2, <1>3, <2>1, Machines
<1>4. CASE src_error(i, r) = "none" /\ dst_error(i, Increment(i, r)) # "none"
  <2>1. ExecuteDouble(i, r, mem)
          = Machine(Increment(i, r), mem, dst_error(i, Increment(i, r)))
    BY <1>4 DEF ExecuteDouble
  <2>. QED  BY <1>2, <1>4, <2>1, Machines
<1>5. CASE src_error(i, r) = "none" /\ dst_error(i, Increment(i, r)) = "none"
  BY <1>5 DEF ExecuteDouble
<1>. QED  BY <1>3, <1>4, <1>5

(* What two operands make are words.                                       *)
LEMMA DoubleTypes ==
  ASSUME NEW i, Decoded(i), NEW r \in File, NEW mem, MemOK(mem)
  PROVE  LET src == src_operand(i, r, mem)
             r1  == Increment(i, r)
             dst == dst_operand(i, r1, mem)
             tmp == Eval2(i, r1, src, dst)
             r2  == Flags2(i, r1, src, dst, tmp)
         IN  /\ src \in Word /\ r1 \in File /\ dst \in Word /\ tmp \in Word /\ r2 \in File
             /\ SameBut(r1, r2, {2}) /\ (~Sets2(i) => r2 = r1)
<1> DEFINE src == src_operand(i, r, mem)
           r1  == Increment(i, r)
           dst == dst_operand(i, r1, mem)
           tmp == Eval2(i, r1, src, dst)
           r2  == Flags2(i, r1, src, dst, tmp)
<1>1. i \in Insn
  BY DEF Decoded
<1>2. src \in Word /\ r1 \in File
  BY <1>1, Sources
<1> HIDE DEF src, r1
<1>3. dst \in Word
  BY <1>1, <1>2, Destinations
<1> HIDE DEF dst
<1>4. tmp \in Word
  BY <1>2, <1>3, Eval2Word
<1> HIDE DEF tmp
<1>5. r2 \in File /\ SameBut(r1, r2, {2}) /\ (~Sets2(i) => r2 = r1)
  BY <1>2, Flags2Are
<1>. QED  BY <1>2, <1>3, <1>4, <1>5 DEF r1, src, dst, tmp

(* Two operands: the result is stored, except by CMP and BIT.              *)
LEMMA DoubleTraces ==
  ASSUME NEW i, Decoded(i), NEW r \in File, NEW mem, MemOK(mem), i.family = "double"
  PROVE  Traces(i, r, Increment(i, r), mem, ExecuteDouble(i, r, mem))
<1> DEFINE src == src_operand(i, r, mem)
           r1  == Increment(i, r)
           dst == dst_operand(i, r1, mem)
           tmp == Eval2(i, r1, src, dst)
           r2  == Flags2(i, r1, src, dst, tmp)
           m   == ExecuteDouble(i, r, mem)
<1>1. /\ src \in Word /\ r1 \in File /\ dst \in Word /\ tmp \in Word /\ r2 \in File
      /\ SameBut(r1, r2, {2}) /\ (~Sets2(i) => r2 = r1)
  BY DoubleTypes
<1>2. SameBut(r, r1, MayChange(i))
  BY IncrementTraces
<1>3. \/ m.regs = r1 /\ m.mem = mem
      \/ i.opcode \in {9, 11} /\ m = Finish(r2, mem)
      \/ i.opcode \notin {9, 11} /\ m = dst_operand_store(i, r2, mem, tmp)
  BY DoubleRuns
<1> HIDE DEF src, r1, dst, tmp, r2, m
<1> SUFFICES Traces(i, r, r1, mem, m)
  BY DEF r1, m
<1>4. SameBut(r, r2, MayChange(i))
  <2>1. Sets2(i) => 2 \in MayChange(i)
    BY DEF MayChange, Is2, Regs, Sets2
  <2>. QED  BY <1>1, <1>2, <2>1 DEF SameBut
<1>5. CASE m.regs = r1 /\ m.mem = mem
  BY <1>1, <1>2, <1>5, KeptRefl DEF Traces
<1>6. CASE m = Finish(r2, mem)
  BY <1>1, <1>4, <1>6, Machines, KeptRefl DEF Traces
<1>7. CASE i.opcode \notin {9, 11} /\ m = dst_operand_store(i, r2, mem, tmp)
  <2>1. CASE i.dstMode = "RegDirect"
    <3>1. m.regs = PutReg(i, r2, i.destination, tmp) /\ m.mem = mem
      BY <1>7, <2>1, Machines DEF dst_operand_store
    <3>2. /\ PutReg(i, r2, i.destination, tmp) \in File
          /\ SameBut(r2, PutReg(i, r2, i.destination, tmp), {i.destination})
      BY <1>1, PutRegs, DecodedFields
    <3>3. i.destination \in MayChange(i)
      BY <1>7, <2>1, DecodedFields DEF MayChange, Is2
    <3>4. SameBut(r, m.regs, MayChange(i))
      BY <1>4, <3>1, <3>2, <3>3 DEF SameBut
    <3>. QED  BY <3>1, <3>2, <3>4, KeptRefl DEF Traces
  <2>2. CASE i.dstMode # "RegDirect"
    <3>1. m.regs = r2 /\ m.mem = PutMem(i, mem, DstAddr(i, r2), tmp)
      BY <1>7, <2>2, Machines DEF dst_operand_store
    <3>2. i.dstMode \in {"Absolute", "Indexed"}
      BY <2>2, InsnFields DEF Decoded, DstModes
    <3>3. DstAddr(i, r2) = DstAddr(i, r1) /\ DstAddr(i, r1) \in Word
      BY <1>1, <3>2, FlaglessAddresses, Destinations, DecodedFields
    <3>4. MemOK(m.mem) /\ Kept(mem, m.mem, CellsAt(DstAddr(i, r1)))
      BY <1>1, <3>1, <3>3, PutsMem
    <3>5. CellsAt(DstAddr(i, r1)) \subseteq Stored(i, r1)
      BY <1>7, <2>2 DEF Stored, Is2
    <3>. QED  BY <1>1, <1>4, <3>1, <3>4, <3>5, KeptMore DEF Traces
  <2>. QED  BY <2>1, <2>2
<1>. QED  BY <1>3, <1>5, <1>6, <1>7

(* An instruction of any kind.                                             *)
LEMMA ExecuteTraces ==
  ASSUME NEW i, Decoded(i), NEW r \in File, NEW mem, MemOK(mem)
  PROVE  Traces(i, r, IF i.family = "jump" THEN r ELSE Increment(i, r), mem, Execute(i, r, mem))
<1>1. CASE i.family = "jump"
  BY <1>1, JumpTraces DEF Execute
<1>2. CASE i.family = "single"
  BY <1>2, SingleTraces DEF Execute
<1>3. CASE i.family = "double"
  BY <1>3, DoubleTraces DEF Execute
<1>. QED  BY <1>1, <1>2, <1>3, DecodedFields DEF Families

-----------------------------------------------------------------------------
(* Every state *)

(* The registers are words, and every cell that was written is a byte at   *)
(* an address.                                                             *)
MachineOK == regs \in File /\ MemOK(memory)

(* What is fetched is a decoded instruction.                               *)
LEMMA FetchedDecoded ==
  ASSUME MachineOK
  PROVE  Decoded(Fetched)
<1>1. /\ RawWord(memory, regs[0]) \in Word /\ RawWord(memory, Wrap(regs[0] + 2)) \in Word
      /\ RawWord(memory, Wrap(regs[0] + 4)) \in Word
  BY LoadTypes DEF MachineOK
<1>. QED  BY <1>1, DecodeShapes DEF Fetched

(* What a step does when the fetch does not fail.                          *)
LEMMA StepExecutes ==
  ASSUME MachineOK, Step, Fetchable
  PROVE  LET i == Fetched
             m == Execute(i, AtFetch(i), memory)
         IN  /\ Decoded(i) /\ AtFetch(i) \in File
             /\ regs' = m.regs /\ memory' = m.mem /\ err' = m.err
<1> DEFINE i == Fetched
<1>1. Decoded(i)
  BY FetchedDecoded
<1>2. regs' = Execute(i, [regs EXCEPT ![0] = Wrap(@ + i.Width)], memory).regs
      /\ memory' = Execute(i, [regs EXCEPT ![0] = Wrap(@ + i.Width)], memory).mem
      /\ err' = Execute(i, [regs EXCEPT ![0] = Wrap(@ + i.Width)], memory).err
  BY DEF Step, Fetchable
<1> HIDE DEF i
<1>3. AtFetch(i) = [regs EXCEPT ![0] = Wrap(@ + i.Width)]
  BY <1>1 DEF AtFetch, Decoded
<1>4. AtFetch(i) \in File
  <2>1. 0 \in Regs /\ regs[0] \in Int /\ i.Width \in Int
    BY <1>1, WordDef DEF MachineOK, Regs, File, Decoded, Length
  <2>2. Wrap(regs[0] + i.Width) \in Word
    BY <2>1, WrapWord
  <2>3. [regs EXCEPT ![0] = Wrap(regs[0] + i.Width)] \in File
    BY <2>1, <2>2, Put DEF MachineOK
  <2>. QED  BY <1>3, <2>3
<1>. QED  BY <1>1, <1>2, <1>3, <1>4 DEF i

(* A step leaves no more traces than its instruction.                      *)
LEMMA StepTraces ==
  ASSUME MachineOK, Step, Fetchable
  PROVE  Traces(Fetched, AtFetch(Fetched), AtStore(Fetched), memory,
                [regs |-> regs', mem |-> memory', err |-> err'])
<1> DEFINE i == Fetched
           m == Execute(i, AtFetch(i), memory)
<1>1. Decoded(i) /\ AtFetch(i) \in File /\ regs' = m.regs /\ memory' = m.mem /\ err' = m.err
  BY StepExecutes
<1> HIDE DEF i, m
<1>2. Traces(i, AtFetch(i), AtStore(i), memory, m)
  BY <1>1, ExecuteTraces DEF AtStore, m, MachineOK
<1>. QED  BY <1>1, <1>2 DEF Traces, i

(* The machine stays a machine: no step leaves a register outside a word,  *)
(* or a cell outside a byte.                                               *)
THEOREM MachineStays == Spec => []MachineOK
<1>1. Init => MachineOK
  BY Msp430Assumption DEF Init, Begin, MachineOK, MemOK, File
<1>2. MachineOK /\ [Next]_vars => MachineOK'
  <2> SUFFICES ASSUME MachineOK, [Next]_vars PROVE MachineOK'
    OBVIOUS
  <2>1. CASE Step /\ Fetchable
    BY <2>1, StepTraces DEF Traces, MachineOK
  <2>2. CASE Step /\ ~Fetchable
    BY <2>2 DEF Step, Fetchable, MachineOK
  <2>3. CASE Rest \/ UNCHANGED vars
    BY <2>3 DEF Rest, vars, MachineOK
  <2>. QED  BY <2>1, <2>2, <2>3 DEF Next
<1>. QED  BY <1>1, <1>2, PTL DEF Spec

(* A step changes the registers and the cells its instruction names and no *)
(* other, whatever the instruction and the state it finds.                 *)
THEOREM NothingElseTouched == Spec => TouchesOnly
<1>1. ASSUME MachineOK, Step, Fetchable
      PROVE  /\ \A n \in Regs \ MayChange(Fetched) : regs'[n] = AtFetch(Fetched)[n]
             /\ \A a \in DOMAIN memory' \ MayStore(Fetched) :
                  memory'[a] = LoadByte(memory, a)
  <2>1. Traces(Fetched, AtFetch(Fetched), AtStore(Fetched), memory,
               [regs |-> regs', mem |-> memory', err |-> err'])
    BY <1>1, StepTraces
  <2>2. MayStore(Fetched) = Stored(Fetched, AtStore(Fetched))
    BY DEF MayStore, Stored
  <2>. QED  BY <2>1, <2>2 DEF Traces, SameBut, Kept
<1>. QED  BY <1>1, MachineStays, PTL DEF Spec, TouchesOnly

-----------------------------------------------------------------------------
(* What comes back from the stack *)

(* MOV @SP+, Rn.                                                           *)
LEMMA PopIs ==
  ASSUME NEW n \in {0, 4}
  PROVE  LET i == Pop(n)
         IN  /\ Decoded(i) /\ i.family = "double" /\ i.opcode = 4 /\ i.bw = 0
             /\ i.mode = "IndirectIncr" /\ i.source = 1
             /\ i.dstMode = "RegDirect" /\ i.destination = n
<1> DEFINE w == 16688 + n
<1>1. w \in Word /\ 0 \in Word
  BY WordDef
<1>2. /\ Bits(w, 8192, 8) = 2 /\ Bits(w, 4096, 16) = 4 /\ Bits(w, 256, 16) = 1
      /\ Bits(w, 16, 4) = 3 /\ Bits(w, 128, 2) = 0 /\ Bits(w, 64, 2) = 0 /\ Bits(w, 1, 16) = n
  BY DEF Bits
<1>3. Decoded(Disassemble(w, 0, 0))
  BY <1>1, DecodeShapes
<1> HIDE DEF w
<1>4. /\ family(w) = "double" /\ opcode(w) = 4 /\ source(w) = 1 /\ As(w) = 3 /\ Ad(w) = 0
      /\ destination(w) = n
  BY <1>2 DEF family, opcode, source, As, Ad, destination
<1>5. mode(w) = "IndirectIncr" /\ dstMode(w) = "RegDirect"
  BY <1>4 DEF mode, dstMode, isConstant, Immediates, Indexes, interpAs
<1>. QED  BY <1>2, <1>3, <1>4, <1>5 DEF Disassemble, Pop, w

(* Popping a word that lies on an even stack, below the last word.         *)
LEMMA Pops ==
  ASSUME NEW n \in {0, 4}, NEW r \in File, NEW mem, MemOK(mem), WordError(r[1]) = "none"
  PROVE  Execute(Pop(n), r, mem).regs
           = [[r EXCEPT ![1] = Wrap(@ + 2)] EXCEPT ![n] = RawWord(mem, r[1])]
<1> DEFINE i == Pop(n)
           v == RawWord(mem, r[1])
           r1 == [r EXCEPT ![1] = Wrap(@ + 2)]
<1>1. /\ Decoded(i) /\ i.family = "double" /\ i.opcode = 4 /\ i.bw = 0
      /\ i.mode = "IndirectIncr" /\ i.source = 1
      /\ i.dstMode = "RegDirect" /\ i.destination = n
  BY PopIs
<1> HIDE DEF i
<1>2. ~Byte(i)
  BY <1>1 DEF Byte
<1>3. v \in Word /\ v % 65536 = v
  BY LoadTypes, WordDef
<1>4. r[1] \in Word
  BY DEF File, Regs
<1>5. SrcAddr(i, r) = r[1]
  BY <1>1, <1>4, WrapWord, WordDef DEF SrcAddr, RegOf
<1>6. src_error(i, r) = "none"
  BY <1>5 DEF src_error
<1> HIDE DEF v
<1>7. src_operand(i, r, mem) = v
  BY <1>1, <1>2, <1>5 DEF src_operand, Consts, SrcIsWord, Narrow, v
<1>8. Increment(i, r) = r1
  BY <1>1, <1>2 DEF Increment
<1> HIDE DEF r1
<1>9. dst_error(i, r1) = "none"
  BY <1>1 DEF dst_error
<1>10. \A dst : Eval2(i, r1, v, dst) = v /\ Flags2(i, r1, v, dst, v) = r1
  <2>1. i.opcode \notin Adds \cup Subs \cup Ands \cup {14}
    BY <1>1 DEF Adds, Subs, Ands
  <2>. QED  BY <1>1, <1>2, <1>3, <2>1 DEF Eval2, Size, Flags2
<1>11. ExecuteDouble(i, r, mem) = dst_operand_store(i, r1, mem, v)
  BY <1>1, <1>6, <1>7, <1>8, <1>9, <1>10 DEF ExecuteDouble
<1>12. dst_operand_store(i, r1, mem, v).regs = PutReg(i, r1, n, v)
  BY <1>1, Machines DEF dst_operand_store
<1>13. PutReg(i, r1, n, v) = [r1 EXCEPT ![n] = v]
  BY <1>2 DEF PutReg, Narrow
<1>. QED  BY <1>1, <1>11, <1>12, <1>13 DEF Execute, i, v, r1

(* A word below another, and back.                                         *)
LEMMA DownAndUp ==
  ASSUME NEW k \in Word
  PROVE  Wrap(k - 2) \in Word /\ Wrap(Wrap(k - 2) + 2) = k
  BY WordDef DEF Wrap

(* PUSH and CALL, unless the source cannot be read.                        *)
LEMMA SinglePushes ==
  ASSUME NEW i, i.family = "single", NEW r, NEW mem,
         Execute(i, r, mem).err \in {"none", "Halted"}
  PROVE  /\ i.opcode = 5 =>
              Execute(i, r, mem) = Call(Increment(i, r), mem, src_operand(i, r, mem))
         /\ i.opcode = 4 =>
              Execute(i, r, mem) = Push(i, Increment(i, r), mem, src_operand(i, r, mem))
<1>1. Execute(i, r, mem) = ExecuteSingle(i, r, mem)
  BY DEF Execute
<1>2. \A a : WordError(a) \in {"AddressUnaligned", "AddressTooHigh", "none"}
  BY DEF WordError
<1>3. src_error(i, r) \in {"AddressUnaligned", "AddressTooHigh", "none"}
  BY <1>2 DEF src_error
<1>4. src_error(i, r) = "none"
  <2>1. SUFFICES ASSUME src_error(i, r) # "none" PROVE FALSE
    OBVIOUS
  <2>2. ExecuteSingle(i, r, mem) = Machine(Increment(i, r), mem, src_error(i, r))
    BY <2>1 DEF ExecuteSingle
  <2>. QED  BY <1>1, <1>3, <2>1, <2>2, Machines
<1>. QED  BY <1>1, <1>4 DEF ExecuteSingle

(* RET after CALL.                                                         *)
LEMMA CallRestores ==
  ASSUME NEW i, Decoded(i), i.family = "single", i.opcode = 5,
         NEW r \in File, NEW mem, MemOK(mem),
         NEW m, m = Execute(i, r, mem), m.err \in {"none", "Halted"},
         WordError(m.regs[1]) = "none", m.regs[1] \notin Hooked
  PROVE  /\ m.regs[0] = src_operand(i, r, mem)
         /\ Execute(Pop(0), m.regs, m.mem).regs = Increment(i, r)
<1> DEFINE r1  == Increment(i, r)
           src == src_operand(i, r, mem)
           sp  == Wrap(r1[1] - 2)
<1>1. r1 \in File /\ src \in Word
  BY Sources, DecodedFields
<1>2. m = Call(r1, mem, src)
  BY SinglePushes
<1> HIDE DEF r1, src
<1>3. r1[0] \in Word /\ r1[1] \in Word /\ 0 \in Regs /\ 1 \in Regs
  BY <1>1 DEF File, Regs
<1>4. sp \in Word /\ Wrap(sp + 2) = r1[1]
  BY <1>3, DownAndUp
<1>5. m.regs = [r1 EXCEPT ![0] = src, ![1] = sp] /\ m.mem = StoreWord(mem, sp, r1[0])
  BY <1>2, Machines DEF Call
<1> HIDE DEF sp
<1>6. m.regs \in File /\ m.regs[1] = sp /\ m.regs[0] = src
  BY <1>1, <1>3, <1>4, <1>5 DEF File
<1>7. MemOK(m.mem) /\ RawWord(m.mem, sp) = r1[0]
  <2>1. /\ MemOK(StoreWord(mem, sp, r1[0]))
        /\ sp \notin Hooked => RawWord(StoreWord(mem, sp, r1[0]), sp) = r1[0]
    BY <1>3, <1>4, StoresWord
  <2>. QED  BY <1>5, <1>6, <2>1
<1>8. Execute(Pop(0), m.regs, m.mem).regs
        = [[m.regs EXCEPT ![1] = Wrap(@ + 2)] EXCEPT ![0] = RawWord(m.mem, m.regs[1])]
  BY <1>6, <1>7, Pops
<1>9. Execute(Pop(0), m.regs, m.mem).regs = [[m.regs EXCEPT ![1] = r1[1]] EXCEPT ![0] = r1[0]]
  BY <1>4, <1>6, <1>7, <1>8
<1>10. [[m.regs EXCEPT ![1] = r1[1]] EXCEPT ![0] = r1[0]] = r1
  BY <1>1, <1>3, <1>5 DEF File
<1>. QED  BY <1>6, <1>9, <1>10 DEF r1, src

(* MOV @SP+, R4 after PUSH.                                                *)
LEMMA PushRestores ==
  ASSUME NEW i, Decoded(i), i.family = "single", i.opcode = 4, ~Byte(i),
         NEW r \in File, NEW mem, MemOK(mem),
         NEW m, m = Execute(i, r, mem), m.err \in {"none", "Halted"},
         WordError(m.regs[1]) = "none", m.regs[1] \notin Hooked
  PROVE  Execute(Pop(4), m.regs, m.mem).regs
           = [Increment(i, r) EXCEPT ![4] = src_operand(i, r, mem)]
<1> DEFINE r1  == Increment(i, r)
           src == src_operand(i, r, mem)
           sp  == Wrap(r1[1] - 2)
<1>1. r1 \in File /\ src \in Word
  BY Sources, DecodedFields
<1>2. m = Push(i, r1, mem, src)
  BY SinglePushes
<1> HIDE DEF r1, src
<1>3. r1[1] \in Word /\ 1 \in Regs
  BY <1>1 DEF File, Regs
<1>4. sp \in Word /\ Wrap(sp + 2) = r1[1]
  BY <1>3, DownAndUp
<1>5. m.regs = [r1 EXCEPT ![1] = sp] /\ m.mem = PutMem(i, mem, sp, src)
  BY <1>2, Machines DEF Push
<1> HIDE DEF sp
<1>6. m.regs \in File /\ m.regs[1] = sp
  BY <1>1, <1>3, <1>4, <1>5 DEF File
<1>7. MemOK(m.mem) /\ RawWord(m.mem, sp) = src
  BY <1>1, <1>4, <1>5, <1>6, PutsMem
<1>8. Execute(Pop(4), m.regs, m.mem).regs
        = [[m.regs EXCEPT ![1] = Wrap(@ + 2)] EXCEPT ![4] = RawWord(m.mem, m.regs[1])]
  BY <1>6, <1>7, Pops
<1>9. Execute(Pop(4), m.regs, m.mem).regs = [[m.regs EXCEPT ![1] = r1[1]] EXCEPT ![4] = src]
  BY <1>4, <1>6, <1>7, <1>8
<1>10. [m.regs EXCEPT ![1] = r1[1]] = r1
  BY <1>1, <1>3, <1>5 DEF File
<1>. QED  BY <1>9, <1>10 DEF r1, src

(* What CALL and PUSH put on a usable stack comes back from it, from every *)
(* state: RET finds the registers the call found, MOV @SP+ what was pushed. *)
THEOREM StackIsAStack == Spec => StackRestores
<1> DEFINE Back ==
      LET i   == Fetched
          src == src_operand(i, AtFetch(i), memory)
      IN  /\ Is1(i, {5}) => /\ regs'[0] = src
                            /\ Execute(Pop(0), regs', memory').regs = AtStore(i)
          /\ Is1(i, {4}) /\ ~Byte(i) =>
               Execute(Pop(4), regs', memory').regs = [AtStore(i) EXCEPT ![4] = src]
<1>1. ASSUME MachineOK, Step, Fetchable, err' \in {"none", "Halted"},
             WordError(regs'[1]) = "none", regs'[1] \notin Hooked
      PROVE  Back
  <2> DEFINE i == Fetched
             r == AtFetch(i)
             m == Execute(i, r, memory)
  <2>1. Decoded(i) /\ r \in File /\ regs' = m.regs /\ memory' = m.mem /\ err' = m.err
    BY <1>1, StepExecutes
  <2>2. MemOK(memory)
    BY <1>1 DEF MachineOK
  <2> HIDE DEF i, m
  <2>3. i.family = "single" => AtStore(i) = Increment(i, r)
    BY DEF AtStore
  <2> HIDE DEF r
  <2>4. Is1(i, {5}) => /\ regs'[0] = src_operand(i, r, memory)
                       /\ Execute(Pop(0), regs', memory').regs = AtStore(i)
    BY <1>1, <2>1, <2>2, <2>3, CallRestores DEF Is1, m
  <2>5. Is1(i, {4}) /\ ~Byte(i) =>
          Execute(Pop(4), regs', memory').regs = [AtStore(i) EXCEPT ![4] = src_operand(i, r, memory)]
    BY <1>1, <2>1, <2>2, <2>3, PushRestores DEF Is1, m
  <2>. QED  BY <2>4, <2>5 DEF i, r
<1>. QED  BY <1>1, MachineStays, PTL DEF Spec, StackRestores

-----------------------------------------------------------------------------
(* Sums, differences and comparisons *)

(* The instructions of two operands that did not fail.                     *)
LEMMA DoubleSucceeds ==
  ASSUME NEW i, Decoded(i), i.family = "double", NEW r \in File, NEW mem, MemOK(mem),
         Execute(i, r, mem).err \in {"none", "Halted"}
  PROVE  LET src == src_operand(i, r, mem)
             r1  == Increment(i, r)
             dst == dst_operand(i, r1, mem)
             tmp == Eval2(i, r1, src, dst)
             r2  == Flags2(i, r1, src, dst, tmp)
         IN  Execute(i, r, mem) = IF i.opcode \in {9, 11} THEN Finish(r2, mem)
                                  ELSE dst_operand_store(i, r2, mem, tmp)
<1>1. Execute(i, r, mem) = ExecuteDouble(i, r, mem)
  BY DEF Execute
<1>. QED  BY <1>1, DoubleRuns

(* A sum with its carry, and a difference with its borrow.                 *)
LEMMA ExactSums ==
  ASSUME NEW i, NEW r, ~Byte(i), NEW src \in Word, NEW dst \in Word
  PROVE  LET tmp == Eval2(i, r, src, dst)
             c   == IF Carry(i, src, dst, tmp) THEN 1 ELSE 0
         IN  /\ i.opcode = 5 => 65536 * c + tmp = dst + src
             /\ i.opcode = 8 => tmp - 65536 * (1 - c) = dst - src
<1>1. Size(i) = 65536
  BY DEF Size
<1>2. src % 65536 = src /\ dst % 65536 = dst
  BY WordDef
<1>3. CASE i.opcode = 5
  <2>1. Eval2(i, r, src, dst) = (dst + src) % 65536
    BY <1>1, <1>2, <1>3 DEF Eval2
  <2>2. Carry(i, src, dst, Eval2(i, r, src, dst)) <=> src + dst >= 65536
    BY <1>1, <1>3 DEF Carry, Adds
  <2>. QED  BY <1>3, <2>1, <2>2, WordDef
<1>4. CASE i.opcode = 8
  <2>1. Eval2(i, r, src, dst) = (dst - src) % 65536
    BY <1>1, <1>2, <1>4 DEF Eval2
  <2>2. Carry(i, src, dst, Eval2(i, r, src, dst)) <=> dst >= src
    BY <1>4 DEF Carry, Adds, Subs
  <2>. QED  BY <1>4, <2>1, <2>2, WordDef
<1>. QED  BY <1>3, <1>4

(* The same of ADD and SUB, read back from where they are stored.          *)
LEMMA SumExact ==
  ASSUME NEW i, Decoded(i), i.family = "double", i.opcode \in {5, 8}, ~Byte(i),
         NEW r \in File, NEW mem, MemOK(mem),
         NEW m, m = Execute(i, r, mem), m.err \in {"none", "Halted"},
         \/ i.dstMode = "RegDirect" /\ i.destination \notin {2, 3}
         \/ i.dstMode = "Indexed" /\ DstAddr(i, Increment(i, r)) \notin Hooked
  PROVE  LET src == src_operand(i, r, mem)
             dst == AtDestination(i, Increment(i, r), mem)
         IN  Sum(i, S_C(m.regs), AtDestination(i, m.regs, m.mem))
               = IF i.opcode = 5 THEN dst + src ELSE dst - src
<1> DEFINE src == src_operand(i, r, mem)
           r1  == Increment(i, r)
           dst == dst_operand(i, r1, mem)
           tmp == Eval2(i, r1, src, dst)
           r2  == Flags2(i, r1, src, dst, tmp)
<1>1. /\ src \in Word /\ r1 \in File /\ dst \in Word /\ tmp \in Word /\ r2 \in File
      /\ SameBut(r1, r2, {2})
  BY DoubleTypes
<1>2. m = dst_operand_store(i, r2, mem, tmp)
  BY DoubleSucceeds
<1>3. dst = AtDestination(i, r1, mem)
  BY DEF dst_operand
<1>4. S_C(r2) = IF Carry(i, src, dst, tmp) THEN 1 ELSE 0
  <2>1. Sets2(i)
    BY DEF Sets2, Adds, Subs
  <2>. QED  BY <1>1, <2>1, Flags2Are
<1>5. Sum(i, S_C(r2), tmp) = IF i.opcode = 5 THEN dst + src ELSE dst - src
  <2> HIDE DEF src, dst, r1, r2
  <2>1. /\ i.opcode = 5 => 65536 * S_C(r2) + tmp = dst + src
        /\ i.opcode = 8 => tmp - 65536 * (1 - S_C(r2)) = dst - src
    BY <1>1, <1>4, ExactSums
  <2>. QED  BY <2>1 DEF Sum
<1> HIDE DEF src, r1, dst, tmp, r2
<1>6. S_C(m.regs) = S_C(r2) /\ AtDestination(i, m.regs, m.mem) = tmp
  <2>1. CASE i.dstMode = "RegDirect" /\ i.destination \notin {2, 3}
    <3>1. m.regs = PutReg(i, r2, i.destination, tmp)
      BY <1>2, <2>1, Machines DEF dst_operand_store
    <3>2. m.regs = [r2 EXCEPT ![i.destination] = tmp]
      BY <2>1, <3>1 DEF PutReg, Narrow
    <3>3. m.regs[i.destination] = tmp /\ m.regs[2] = r2[2]
      BY <1>1, <2>1, <3>2, DecodedFields DEF File
    <3>4. S_C(m.regs) = S_C(r2)
      BY <3>3 DEF S_C, Flag
    <3>. QED  BY <2>1, <3>3, <3>4 DEF AtDestination, RegOf, Narrow
  <2>2. CASE i.dstMode = "Indexed" /\ DstAddr(i, r1) \notin Hooked
    <3>1. m.regs = r2 /\ m.mem = PutMem(i, mem, DstAddr(i, r2), tmp)
      BY <1>2, <2>2, Machines DEF dst_operand_store
    <3>2. DstAddr(i, r2) = DstAddr(i, r1) /\ DstAddr(i, r1) \in Word
      BY <1>1, <2>2, FlaglessAddresses, Destinations, DecodedFields
    <3>3. RawWord(PutMem(i, mem, DstAddr(i, r2), tmp), DstAddr(i, r2)) = tmp
      BY <1>1, <2>2, <3>2, PutsMem
    <3>. QED  BY <2>2, <3>1, <3>3 DEF AtDestination, Narrow
  <2>. QED  BY <2>1, <2>2 DEF r1
<1>. QED  BY <1>3, <1>5, <1>6 DEF src, r1

(* ADD and SUB of words are exact with their carry, whatever the operands. *)
THEOREM SumsAreExact == Spec => ArithmeticExact
<1>1. ASSUME MachineOK, Step, Fetchable, Is2(Fetched, {5, 8}), ~Byte(Fetched),
             err' \in {"none", "Halted"},
             \/ Fetched.dstMode = "RegDirect" /\ Fetched.destination \notin {2, 3}
             \/ /\ Fetched.dstMode = "Indexed"
                /\ DstAddr(Fetched, AtStore(Fetched)) \notin Hooked
      PROVE  LET i   == Fetched
                 src == src_operand(i, AtFetch(i), memory)
                 dst == AtDestination(i, AtStore(i), memory)
             IN  Sum(i, S_C(regs'), AtDestination(i, regs', memory'))
                   = IF i.opcode = 5 THEN dst + src ELSE dst - src
  <2> DEFINE i == Fetched
             r == AtFetch(i)
             m == Execute(i, r, memory)
  <2>1. Decoded(i) /\ r \in File /\ regs' = m.regs /\ memory' = m.mem /\ err' = m.err
    BY <1>1, StepExecutes
  <2>2. MemOK(memory) /\ i.family = "double" /\ i.opcode \in {5, 8} /\ ~Byte(i)
        /\ AtStore(i) = Increment(i, r)
    BY <1>1 DEF MachineOK, Is2, AtStore
  <2>3. \/ i.dstMode = "RegDirect" /\ i.destination \notin {2, 3}
        \/ i.dstMode = "Indexed" /\ DstAddr(i, AtStore(i)) \notin Hooked
    BY <1>1
  <2> HIDE DEF i, m
  <2>4. Sum(i, S_C(m.regs), AtDestination(i, m.regs, m.mem))
          = IF i.opcode = 5
            THEN AtDestination(i, Increment(i, r), memory) + src_operand(i, r, memory)
            ELSE AtDestination(i, Increment(i, r), memory) - src_operand(i, r, memory)
    BY <1>1, <2>1, <2>2, <2>3, SumExact DEF m
  <2>. QED  BY <2>1, <2>2, <2>4 DEF i
<1>. QED  BY <1>1, MachineStays, PTL DEF Spec, ArithmeticExact

-----------------------------------------------------------------------------

(* A number of sixteen bits with a sign, as inequalities.                  *)
LEMMA Int16Def == \A k : k \in Int16 <=> k \in Int /\ -32768 <= k /\ k <= 32767
  BY DEF Int16

(* What a comparison says of two words, and of two bytes.                  *)
LEMMA Compared ==
  ASSUME NEW i, i.family = "double", i.opcode = 9, NEW r,
         NEW src \in Word, NEW dst \in Word, Byte(i) => src <= 255 /\ dst <= 255
  PROVE  LET tmp == Eval2(i, r, src, dst)
         IN  /\ Carry(i, src, dst, tmp) <=> dst >= src
             /\ tmp = 0 <=> dst = src
             /\ ~Byte(i) /\ Signed(dst) - Signed(src) \in Int16 =>
                  (Negative(i, tmp) <=> Signed(dst) < Signed(src))
<1> DEFINE tmp == Eval2(i, r, src, dst)
<1>1. Carry(i, src, dst, tmp) <=> dst >= src
  BY DEF Carry, Adds, Subs
<1>3. CASE Byte(i)
  <2>1. tmp = ((dst % 256) - (src % 256)) % 256
    BY <1>3 DEF Eval2, Size
  <2> HIDE DEF tmp
  <2>2. tmp = 0 <=> dst = src
    BY <1>3, <2>1, WordDef
  <2>. QED  BY <1>1, <1>3, <2>2 DEF tmp
<1>4. CASE ~Byte(i)
  <2>1. tmp = ((dst % 65536) - (src % 65536)) % 65536
    BY <1>4 DEF Eval2, Size
  <2> HIDE DEF tmp
  <2>2. tmp = IF dst >= src THEN dst - src ELSE dst - src + 65536
    BY <2>1, WordDef
  <2>3. tmp = 0 <=> dst = src
    BY <2>2, WordDef
  <2>4. Negative(i, tmp) <=> tmp >= 32768
    BY DEF Negative, Adds, Subs, Neg
  <2>5. PICK x \in Int, y \in Int : x = Signed(dst) /\ y = Signed(src)
    BY WordDef DEF Neg, Signed
  <2>6. /\ x = IF dst >= 32768 THEN dst - 65536 ELSE dst
        /\ y = IF src >= 32768 THEN src - 65536 ELSE src
    BY <2>5 DEF Neg, Signed
  <2>7. ASSUME x - y \in Int16
        PROVE  Negative(i, tmp) <=> x < y
    BY <2>2, <2>4, <2>6, <2>7, WordDef, Int16Def
  <2>. QED  BY <1>1, <2>3, <2>5, <2>7 DEF tmp
<1>. QED  BY <1>3, <1>4

(* A byte of a register or of memory.                                      *)
LEMMA NarrowByte ==
  ASSUME NEW i, Byte(i), i.opcode = 9, NEW v \in Word
  PROVE  Narrow(i, v) <= 255
  BY WordDef DEF Narrow

(* The operands of CMP.B are bytes, but for the constant -1.               *)
LEMMA ByteOperands ==
  ASSUME NEW i, Decoded(i), i.opcode = 9, Byte(i), i.mode # "ConstNeg1",
         NEW r \in File, NEW mem, MemOK(mem)
  PROVE  src_operand(i, r, mem) <= 255 /\ AtDestination(i, r, mem) <= 255
<1>0. /\ i \in Insn /\ i.source \in Regs /\ i.destination \in Regs /\ i.srcx \in Word
      /\ i.mode \in SrcModes
  BY DecodedFields, InsnFields
<1>1. /\ RegOf(i, r, i.source) \in Word /\ RegOf(i, r, i.destination) \in Word
      /\ SrcAddr(i, r) \in Word
  BY <1>0, RegOfWord, Sources
<1>2. /\ \A a : LoadByte(mem, a) \in Word /\ RawWord(mem, a) \in Word
  BY LoadTypes, WordDef, OctetDef
<1>3. src_operand(i, r, mem) <= 255
  <2>1. CASE i.mode \in DOMAIN Consts
    BY <2>1 DEF src_operand, Consts
  <2>2. CASE i.mode \notin DOMAIN Consts
    <3>1. (CASE i.mode = "Immediate" -> i.srcx
             [] i.mode = "RegDirect" -> RegOf(i, r, i.source)
             [] OTHER -> IF SrcIsWord(i) THEN RawWord(mem, SrcAddr(i, r))
                                         ELSE LoadByte(mem, SrcAddr(i, r))) \in Word
      BY <1>0, <1>1, <1>2
    <3>. QED  BY <2>2, <3>1, NarrowByte DEF src_operand
  <2>. QED  BY <2>1, <2>2
<1>4. AtDestination(i, r, mem) <= 255
  <2>1. (IF i.dstMode = "RegDirect" THEN RegOf(i, r, i.destination)
         ELSE IF Byte(i) THEN LoadByte(mem, DstAddr(i, r))
         ELSE RawWord(mem, DstAddr(i, r))) \in Word
    BY <1>1, <1>2
  <2>. QED  BY <2>1, NarrowByte DEF AtDestination
<1>. QED  BY <1>3, <1>4

(* The flags CMP leaves, as JC, JZ and JL read them.                       *)
LEMMA CompareDecides ==
  ASSUME NEW i, Decoded(i), i.family = "double", i.opcode = 9,
         ~(i.dstMode = "Absolute" /\ ~Byte(i)), ~(i.mode = "ConstNeg1" /\ Byte(i)),
         NEW r \in File, NEW mem, MemOK(mem),
         NEW m, m = Execute(i, r, mem), m.err \in {"none", "Halted"}
  PROVE  LET src == src_operand(i, r, mem)
             dst == AtDestination(i, Increment(i, r), mem)
         IN  /\ Taken(3, m.regs) <=> dst >= src
             /\ Taken(1, m.regs) <=> dst = src
             /\ ~Byte(i) /\ Signed(dst) - Signed(src) \in Int16 =>
                  (Taken(6, m.regs) <=> Signed(dst) < Signed(src))
<1> DEFINE src == src_operand(i, r, mem)
           r1  == Increment(i, r)
           dst == dst_operand(i, r1, mem)
           tmp == Eval2(i, r1, src, dst)
           r2  == Flags2(i, r1, src, dst, tmp)
<1>1. src \in Word /\ r1 \in File /\ dst \in Word /\ tmp \in Word /\ r2 \in File
  BY DoubleTypes
<1>2. m = Finish(r2, mem)
  BY DoubleSucceeds
<1>3. m.regs = r2
  BY <1>2, Machines
<1>4. dst = AtDestination(i, r1, mem)
  BY DEF dst_operand
<1>5. /\ S_C(r2) = IF Carry(i, src, dst, tmp) THEN 1 ELSE 0
      /\ S_N(r2) = IF Negative(i, tmp) THEN 1 ELSE 0
      /\ S_Z(r2) = IF tmp = 0 THEN 1 ELSE 0
      /\ S_V(r2) = 0
  <2>1. Sets2(i)
    BY DEF Sets2, Adds, Subs
  <2>. QED  BY <1>1, <2>1, Flags2Are
<1>6. Byte(i) => src <= 255 /\ dst <= 255
  <2>1. SUFFICES ASSUME Byte(i) PROVE src <= 255 /\ dst <= 255
    OBVIOUS
  <2>2. src <= 255
    BY <2>1, ByteOperands
  <2>3. AtDestination(i, r1, mem) <= 255
    <3> HIDE DEF r1
    <3>. QED  BY <1>1, <2>1, ByteOperands
  <2>. QED  BY <1>4, <2>2, <2>3
<1>7. /\ Carry(i, src, dst, tmp) <=> dst >= src
      /\ tmp = 0 <=> dst = src
      /\ ~Byte(i) /\ Signed(dst) - Signed(src) \in Int16 =>
           (Negative(i, tmp) <=> Signed(dst) < Signed(src))
  <2> HIDE DEF src, r1, dst
  <2>. QED  BY <1>1, <1>6, Compared
<1> HIDE DEF src, r1, dst, tmp, r2
<1>8. /\ Taken(3, m.regs) <=> S_C(r2) = 1
      /\ Taken(1, m.regs) <=> S_Z(r2) = 1
      /\ Taken(6, m.regs) <=> S_N(r2) # S_V(r2)
  BY <1>3 DEF Taken
<1>9. /\ Taken(3, m.regs) <=> Carry(i, src, dst, tmp)
      /\ Taken(1, m.regs) <=> tmp = 0
      /\ Taken(6, m.regs) <=> Negative(i, tmp)
  BY <1>5, <1>8
<1>. QED  BY <1>4, <1>7, <1>9 DEF src, r1

(* CMP makes the jumps that follow it decide rightly, for all operands.    *)
THEOREM ComparesRightly == Spec => ComparisonsDecide
<1>1. ASSUME MachineOK, Step, Fetchable, Is2(Fetched, {9}), err' \in {"none", "Halted"},
             ~(Fetched.dstMode = "Absolute" /\ ~Byte(Fetched)),
             ~(Fetched.mode = "ConstNeg1" /\ Byte(Fetched))
      PROVE  LET i   == Fetched
                 src == src_operand(i, AtFetch(i), memory)
                 dst == AtDestination(i, AtStore(i), memory)
             IN  /\ Taken(3, regs') <=> dst >= src
                 /\ Taken(1, regs') <=> dst = src
                 /\ ~Byte(i) /\ Signed(dst) - Signed(src) \in Int16 =>
                      (Taken(6, regs') <=> Signed(dst) < Signed(src))
  <2> DEFINE i == Fetched
             r == AtFetch(i)
             m == Execute(i, r, memory)
             src == src_operand(i, r, memory)
             dst == AtDestination(i, Increment(i, r), memory)
  <2>1. Decoded(i) /\ r \in File /\ regs' = m.regs /\ memory' = m.mem /\ err' = m.err
    BY <1>1, StepExecutes
  <2>2. MemOK(memory) /\ i.family = "double" /\ i.opcode = 9
        /\ AtStore(i) = Increment(i, r)
    BY <1>1 DEF MachineOK, Is2, AtStore
  <2>3. ~(i.dstMode = "Absolute" /\ ~Byte(i)) /\ ~(i.mode = "ConstNeg1" /\ Byte(i))
    BY <1>1
  <2> HIDE DEF i, m
  <2>4. /\ Taken(3, m.regs) <=> dst >= src
        /\ Taken(1, m.regs) <=> dst = src
        /\ ~Byte(i) /\ Signed(dst) - Signed(src) \in Int16 =>
             (Taken(6, m.regs) <=> Signed(dst) < Signed(src))
    BY <1>1, <2>1, <2>2, <2>3, CompareDecides DEF m
  <2> HIDE DEF r, src, dst
  <2>6. /\ src = src_operand(Fetched, AtFetch(Fetched), memory)
        /\ dst = AtDestination(Fetched, AtStore(Fetched), memory)
        /\ i = Fetched /\ regs' = m.regs
    BY <2>1, <2>2 DEF i, r, src, dst
  <2>7. /\ Taken(3, regs') <=> dst >= src
        /\ Taken(1, regs') <=> dst = src
    BY <2>4, <2>6
  <2>8. ~Byte(Fetched) /\ Signed(dst) - Signed(src) \in Int16 =>
          (Taken(6, regs') <=> Signed(dst) < Signed(src))
    BY <2>4, <2>6
  <2>. QED  BY <2>6, <2>7, <2>8
<1>. QED  BY <1>1, MachineStays, PTL DEF Spec, ComparisonsDecide
=============================================================================
