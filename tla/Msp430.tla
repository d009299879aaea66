-------------------------------- MODULE Msp430 --------------------------------
(***************************************************************************)
(* The emulated processor of src/src/newmadrid/msp43x/cpu.go and its       *)
(* memory.  A word is a number modulo 2^16, a byte one modulo 2^8; memory  *)
(* is kept where it has been written, the rest is zero.  What a write hook *)
(* does is CpuServer's business: here it only keeps the store away from    *)
(* memory.  The program has no read hooks.                                 *)
(***************************************************************************)
EXTENDS Msp430Insn

CONSTANTS
  Hooked,     (* addresses with a write hook                                 *)
  MaxSteps    (* bound on the steps of a run                                 *)

ASSUME Msp430Assumption == Hooked \subseteq Word /\ MaxSteps \in Nat

VARIABLES
  regs,       (* PC is 0, SP 1, SR 2                                         *)
  memory,
  err,        (* what Step returned: "none", or the error                    *)
  steps       (* how many steps have been made                               *)

vars == <<regs, memory, err, steps>>

Regs  == 0..15
Octet == 0..(2^8 - 1)
Wrap(x) == x % 65536

-----------------------------------------------------------------------------
(* The operators of Go on words, bit by bit.                               *)

Bit(x, k)    == (x \div 2^k) % 2
Nibble(b, k) == b[k] + 2 * b[k + 1] + 4 * b[k + 2] + 8 * b[k + 3]
OfBits(b)    == Nibble(b, 0) + 16 * Nibble(b, 4) + 256 * Nibble(b, 8) + 4096 * Nibble(b, 12)

x & y  == OfBits([k \in 0..15 |-> Bit(x, k) * Bit(y, k)])
x | y  == OfBits([k \in 0..15 |-> IF Bit(x, k) = 1 THEN 1 ELSE Bit(y, k)])
x ^^ y == OfBits([k \in 0..15 |-> (Bit(x, k) + Bit(y, k)) % 2])

-----------------------------------------------------------------------------
(* Memory *)

LoadByte(mem, a) == IF a \in DOMAIN mem THEN mem[a] ELSE 0
RawWord(mem, a)  == LoadByte(mem, a) + 256 * LoadByte(mem, Wrap(a + 1))

(* The error of LoadWord, which refuses the last word too.                 *)
WordError(a) == IF a % 2 = 1 THEN "AddressUnaligned"
                ELSE IF a > 65532 THEN "AddressTooHigh" ELSE "none"
FetchError(a) == IF a % 2 = 1 THEN "AddressUnaligned"
                 ELSE IF a > 65530 THEN "AddressTooHigh" ELSE "none"

(* An odd address is as good as an even one for a store.                   *)
Cell(mem, a, v)      == [b \in DOMAIN mem \cup {a} |-> IF b = a THEN v ELSE mem[b]]
StoreByte(mem, a, v) == IF a \in Hooked THEN mem ELSE Cell(mem, a, v % 256)
StoreWord(mem, a, v) ==
  IF a \in Hooked THEN mem ELSE Cell(Cell(mem, Wrap(a + 1), v \div 256), a, v % 256)

-----------------------------------------------------------------------------
(* Flags.  set_Z, set_N and set_V clear more of the register than the flag. *)

Flag(r, bit) == Bits(r[2], bit, 2)
S_C(r) == Flag(r, 1)
S_Z(r) == Flag(r, 2)
S_N(r) == Flag(r, 4)
S_V(r) == Flag(r, 256)

BoolBit(b) == IF b THEN 1 ELSE 0

set_C(r, b) == [r EXCEPT ![2] = 2 * (@ \div 2) + BoolBit(b)]
set_Z(r, b) == [r EXCEPT ![2] = (@ % 256) - 2 * (Flag(r, 2) - BoolBit(b))]
set_N(r, b) == [r EXCEPT ![2] = (@ % 256) - 4 * (Flag(r, 4) - BoolBit(b))]
set_V(r, b) == [r EXCEPT ![2] = (@ % 256) + 256 * BoolBit(b)]

(* int16(x) < 0 and int16(x) > 0                                           *)
Neg(x) == x >= 32768
Pos(x) == x > 0 /\ x < 32768

-----------------------------------------------------------------------------
(* Operands *)

Byte(i) == i.bw = 1 /\ (i.family = "double" \/ (i.family = "single" /\ i.opcode \in {0, 2, 4}))

(* bw_eval and bw_store exempt SWPB, SXT, CALL and RETI by their opcodes   *)
(* alone; two of those numbers are ADD and ADDC with two operands.         *)
Narrow(i, v) == IF Byte(i) /\ i.opcode \notin {1, 3, 5, 6} THEN v % 256 ELSE v

cg2v(i) == CASE i.as = 0 -> 4 [] i.as = 1 -> 8 [] i.as = 2 -> 0 [] i.as = 3 -> 65535
RegOf(i, r, n) == IF n = 3 THEN cg2v(i) ELSE r[n]

Consts == [Const4 |-> 4, Const8 |-> 8, Const0 |-> 0, Const1 |-> 1, Const2 |-> 2,
           ConstNeg1 |-> 65535]

SrcInMemory == {"Absolute", "Indexed", "RegIndirect", "IndirectIncr"}
SrcAddr(i, r) == IF i.mode = "Absolute" THEN i.srcx
                 ELSE Wrap(RegOf(i, r, i.source) + (IF i.mode = "Indexed" THEN i.srcx ELSE 0))

(* An absolute source is read as a word even by a byte instruction.        *)
SrcIsWord(i) == ~Byte(i) \/ i.mode = "Absolute"

src_error(i, r) ==
  IF i.mode \in SrcInMemory /\ SrcIsWord(i) THEN WordError(SrcAddr(i, r)) ELSE "none"

src_operand(i, r, mem) ==
  IF i.mode \in DOMAIN Consts THEN Consts[i.mode]
  ELSE Narrow(i, CASE i.mode = "Immediate" -> i.srcx
                   [] i.mode = "RegDirect" -> RegOf(i, r, i.source)
                   [] OTHER -> IF SrcIsWord(i) THEN RawWord(mem, SrcAddr(i, r))
                                               ELSE LoadByte(mem, SrcAddr(i, r)))

(* The register moves on even if the load failed.                          *)
Increment(i, r) ==
  IF i.mode = "IndirectIncr"
  THEN [r EXCEPT ![i.source] = Wrap(@ + (IF Byte(i) THEN 1 ELSE 2))] ELSE r

DstAddr(i, r) == IF i.dstMode = "Absolute" THEN i.dstx
                 ELSE Wrap(RegOf(i, r, i.destination) + i.dstx)

dst_error(i, r) ==
  IF i.dstMode # "RegDirect" /\ ~Byte(i) THEN WordError(DstAddr(i, r)) ELSE "none"

(* What is at the destination.                                             *)
AtDestination(i, r, mem) ==
  Narrow(i, IF i.dstMode = "RegDirect" THEN RegOf(i, r, i.destination)
            ELSE IF Byte(i) THEN LoadByte(mem, DstAddr(i, r))
            ELSE RawWord(mem, DstAddr(i, r)))

(* An absolute word is loaded, but the variable of the byte is returned.   *)
dst_operand(i, r, mem) ==
  IF i.dstMode = "Absolute" /\ ~Byte(i) THEN 0 ELSE AtDestination(i, r, mem)

-----------------------------------------------------------------------------
(* A machine that executes, from the loaded operands on. *)

Machine(r, mem, e) == [regs |-> r, mem |-> mem, err |-> e]

(* Halted when the status register says so.                                *)
Finish(r, mem) == Machine(r, mem, IF Flag(r, 16) = 1 THEN "Halted" ELSE "none")

PutReg(i, r, n, v) == IF n = 3 THEN r ELSE [r EXCEPT ![n] = Narrow(i, v)]
PutMem(i, mem, a, v) == IF Byte(i) THEN StoreByte(mem, a, v) ELSE StoreWord(mem, a, v)

dst_operand_store(i, r, mem, v) ==
  IF i.dstMode = "RegDirect" THEN Finish(PutReg(i, r, i.destination, v), mem)
  ELSE Finish(r, PutMem(i, mem, DstAddr(i, r), v))

(* The address is computed from the register as it is by now, incremented  *)
(* where the mode says so, and then incremented once more.                 *)
src_operand_store(i, r, mem, v) ==
  IF i.mode = "RegDirect" THEN Finish(PutReg(i, r, i.source, v), mem)
  ELSE IF i.mode \in SrcInMemory
       THEN Finish(Increment(i, r), PutMem(i, mem, SrcAddr(i, r), v))
       ELSE Machine(r, mem, "mode")

(* JNZ, JZ, JNC, JC, JN, JGE, JL, JMP                                      *)
Taken(c, r) ==
  CASE c = 0 -> S_Z(r) = 0 [] c = 1 -> S_Z(r) = 1
    [] c = 2 -> S_C(r) = 0 [] c = 3 -> S_C(r) = 1
    [] c = 4 -> S_N(r) = 1
    [] c = 5 -> S_N(r) = S_V(r) [] c = 6 -> S_N(r) # S_V(r)
    [] c = 7 -> TRUE

ExecuteJump(i, r, mem) ==
  Finish(IF Taken(i.condition, r) THEN [r EXCEPT ![0] = Wrap(@ + i.offset)] ELSE r, mem)

-----------------------------------------------------------------------------
(* One operand *)

(* What RRC, SWPB, RRA and SXT make of it.  RRA keeps the sign, twice, and  *)
(* nothing else.                                                           *)
Eval1(i, r, src) ==
  LET top == IF Byte(i) THEN 128 ELSE 32768
  IN  CASE i.opcode = 0 -> ((src \div 2) | (top * S_C(r))) % (2 * top)
        [] i.opcode = 1 -> (src \div 256) + 256 * (src % 256)
        [] i.opcode = 2 -> Bits(src, top, 2) * (top + (top \div 2))
        [] i.opcode = 3 -> (src % 256) + 65280 * Bits(src, 128, 2)
        [] OTHER        -> 0

(* A result that is not negative takes the zero flag back.                 *)
Flags1(i, r, src, tmp) ==
  LET c == IF i.opcode \in {0, 2} THEN set_C(r, src % 2 = 1)
           ELSE IF i.opcode = 3 THEN set_C(r, tmp # 0) ELSE r
      z == set_Z(set_V(c, FALSE), tmp = 0)
      negative == IF Byte(i) THEN tmp % 256 >= 128 ELSE Neg(tmp)
  IN  IF i.opcode \notin {0, 2, 3} THEN c
      ELSE IF negative THEN set_N(z, TRUE) ELSE set_Z(z, FALSE)

(* Mutant: the return address is that of the call itself.                  *)
CallPushesJump(r, mem, src) ==
  LET sp == Wrap(r[1] - 2)
  IN  Finish([r EXCEPT ![0] = src, ![1] = sp], StoreWord(mem, sp, src))

Call(r, mem, src) ==
  LET sp == Wrap(r[1] - 2)
  IN  Finish([r EXCEPT ![0] = src, ![1] = sp], StoreWord(mem, sp, r[0]))

(* PUSH.B moves the stack pointer by a word too.                           *)
Push(i, r, mem, src) ==
  LET sp == Wrap(r[1] - 2)
  IN  Finish([r EXCEPT ![1] = sp], PutMem(i, mem, sp, src))

ExecuteSingle(i, r, mem) ==
  LET src == src_operand(i, r, mem)
      r1  == Increment(i, r)
      tmp == Eval1(i, r1, src)
  IN  CASE src_error(i, r) # "none" -> Machine(r1, mem, src_error(i, r))
        [] src_error(i, r) = "none" /\ i.opcode = 4 -> Push(i, r1, mem, src)
        [] src_error(i, r) = "none" /\ i.opcode = 5 -> Call(r1, mem, src)
        [] src_error(i, r) = "none" /\ i.opcode = 6 -> Machine(r1, mem, "none")
        [] OTHER -> src_operand_store(i, Flags1(i, r1, src, tmp), mem, tmp)

-----------------------------------------------------------------------------
(* Two operands *)

Size(i) == IF Byte(i) THEN 256 ELSE 65536

(* BIC and DADD compute nothing.                                           *)
Eval2(i, r, src, dst) ==
  LET x == src % Size(i)
      y == dst % Size(i)
  IN  CASE i.opcode = 4          -> x
        [] i.opcode = 5          -> (y + x) % Size(i)
        [] i.opcode = 6          -> (y + x + S_C(r)) % Size(i)
        [] i.opcode = 7          -> (y - x + S_C(r)) % Size(i)
        [] i.opcode \in {8, 9}   -> (y - x) % Size(i)
        [] i.opcode \in {11, 15} -> x & y
        [] i.opcode = 13         -> x | y
        [] i.opcode = 14         -> x ^^ y
        [] OTHER                 -> 0

Adds == {5, 6}
Subs == {7, 8, 9}
Ands == {11, 15}

(* Mutant: equal operands leave a borrow.                                  *)
CarryStrict(i, src, dst, tmp) ==
  IF i.opcode \in Adds THEN src + dst >= Size(i)
  ELSE IF i.opcode \in Subs THEN dst > src ELSE tmp # 0

(* Mutant: a sum of exactly 2^8 or 2^16 does not carry.                    *)
CarryLate(i, src, dst, tmp) ==
  IF i.opcode \in Adds THEN src + dst > Size(i)
  ELSE IF i.opcode \in Subs THEN dst >= src ELSE tmp # 0

Carry(i, src, dst, tmp) ==
  IF i.opcode \in Adds THEN src + dst >= Size(i)
  ELSE IF i.opcode \in Subs THEN dst >= src ELSE tmp # 0

Overflow(i, src, dst, tmp) ==
  CASE i.opcode \in Adds -> \/ Pos(src) /\ Pos(dst) /\ Neg(tmp)
                            \/ Neg(src) /\ Neg(dst) /\ Pos(tmp)
    [] i.opcode \in Subs -> \/ Pos(src) /\ Neg(dst) /\ Neg(tmp)
                            \/ Neg(src) /\ Pos(dst) /\ Pos(tmp)
    [] i.opcode \in Ands -> FALSE
    [] OTHER             -> Neg(src) /\ Neg(dst)

(* The sign of a sum or a difference of bytes is that of a word.           *)
Negative(i, tmp) ==
  IF i.opcode \in Adds \cup Subs THEN Neg(tmp) ELSE 2 * tmp >= Size(i)

Flags2(i, r, src, dst, tmp) ==
  IF i.opcode \notin Adds \cup Subs \cup Ands \cup {14} THEN r
  ELSE LET c == set_C(r, Carry(i, src, dst, tmp))
           v == set_V(c, Overflow(i, src, dst, tmp))
       IN  set_Z(set_N(v, Negative(i, tmp)), tmp = 0)

ExecuteDouble(i, r, mem) ==
  LET src == src_operand(i, r, mem)
      r1  == Increment(i, r)
      dst == dst_operand(i, r1, mem)
      tmp == Eval2(i, r1, src, dst)
      r2  == Flags2(i, r1, src, dst, tmp)
  IN  CASE src_error(i, r) # "none" -> Machine(r1, mem, src_error(i, r))
        [] src_error(i, r) = "none" /\ dst_error(i, r1) # "none" ->
             Machine(r1, mem, dst_error(i, r1))
        [] OTHER -> IF i.opcode \in {9, 11} THEN Finish(r2, mem)
                    ELSE dst_operand_store(i, r2, mem, tmp)

Execute(i, r, mem) ==
  CASE i.family = "jump"   -> ExecuteJump(i, r, mem)
    [] i.family = "single" -> ExecuteSingle(i, r, mem)
    [] i.family = "double" -> ExecuteDouble(i, r, mem)

-----------------------------------------------------------------------------
(* The CPU is at the start of a run of steps, with whatever the debugger   *)
(* and the loaded image have put into it.                                  *)
Begin(r, mem) == regs = r /\ memory = mem /\ err = "none" /\ steps = 0

Init == \E r \in [Regs -> Word], D \in SUBSET Word :
          \E mem \in [D -> Octet] : Begin(r, mem)

Fetched == Disassemble(RawWord(memory, regs[0]), RawWord(memory, Wrap(regs[0] + 2)),
                       RawWord(memory, Wrap(regs[0] + 4)))

(* The program counter is past the instruction when it executes, and stays *)
(* there when it fails; one that cannot be fetched changes nothing.        *)
Step ==
  /\ steps < MaxSteps
  /\ steps' = steps + 1
  /\ IF FetchError(regs[0]) # "none"
     THEN err' = FetchError(regs[0]) /\ UNCHANGED <<regs, memory>>
     ELSE LET i == Fetched
              m == Execute(i, [regs EXCEPT ![0] = Wrap(@ + i.Width)], memory)
          IN  regs' = m.regs /\ memory' = m.mem /\ err' = m.err

(* Nobody asks for another step.                                           *)
Rest == steps = MaxSteps /\ UNCHANGED vars

Next == Step \/ Rest
Spec == Init /\ [][Next]_vars

-----------------------------------------------------------------------------
(* Properties *)

Fetchable == FetchError(regs[0]) = "none"

(* The registers as the instruction finds them, and after its source.      *)
AtFetch(i) == [regs EXCEPT ![0] = Wrap(@ + (IF i.family = "jump" THEN 2
                                             ELSE Length(i.mode, i.dstMode)))]
AtStore(i) == IF i.family = "jump" THEN AtFetch(i) ELSE Increment(i, AtFetch(i))

Is1(i, ops) == i.family = "single" /\ i.opcode \in ops
Is2(i, ops) == i.family = "double" /\ i.opcode \in ops

(* Where an instruction of each kind may leave a trace.                    *)
MayChange(i) ==
  {n \in Regs : \/ n = 0 /\ (i.family = "jump" \/ Is1(i, {5}))
                \/ n = 1 /\ Is1(i, {4, 5})
                \/ n = 2 /\ (Is1(i, {0, 2, 3}) \/ Is2(i, Adds \cup Subs \cup Ands \cup {14}))
                \/ n = i.destination /\ i.dstMode = "RegDirect"
                   /\ i.family = "double" /\ ~Is2(i, {9, 11})
                \/ n = i.source /\ i.mode = "RegDirect" /\ Is1(i, {0, 1, 2, 3, 7})
                \/ n = i.source /\ i.mode = "IndirectIncr" /\ i.family # "jump"}
CellsAt(a) == {a, Wrap(a + 1)}
MayStore(i) ==
  LET r == AtStore(i)
  IN  UNION { IF Is1(i, {4, 5}) THEN CellsAt(Wrap(r[1] - 2)) ELSE {},
              IF Is1(i, {0, 1, 2, 3, 7}) /\ i.mode \in SrcInMemory
              THEN CellsAt(SrcAddr(i, r)) ELSE {},
              IF i.family = "double" /\ ~Is2(i, {9, 11}) /\ i.dstMode # "RegDirect"
              THEN CellsAt(DstAddr(i, r)) ELSE {} }

(* A step changes the registers and cells its instruction names and no     *)
(* other: a comparison keeps what it compares, and an instruction that is  *)
(* not a jump, or fails, is left behind with all of its extension words.   *)
TouchesOnly ==
  [][LET i == Fetched
     IN  Step /\ Fetchable =>
           /\ \A n \in Regs \ MayChange(i) : regs'[n] = AtFetch(i)[n]
           /\ \A a \in DOMAIN memory' \ MayStore(i) : memory'[a] = LoadByte(memory, a)]_vars

(* A word as a number with a sign, and the range of such numbers.          *)
Int16     == -(2^15)..(2^15 - 1)
Signed(x) == IF Neg(x) THEN x - 65536 ELSE x

(* CMP makes the conditional jumps that follow it decide rightly: JC and JZ *)
(* for all unsigned words and bytes, JL for signed words whose difference  *)
(* is one.  Two oddities of the code are excepted: an absolute word        *)
(* destination reads as zero, and the constant -1 is a word to CMP.B too.  *)
ComparisonsDecide ==
  [][LET i   == Fetched
         src == src_operand(i, AtFetch(i), memory)
         dst == AtDestination(i, AtStore(i), memory)
     IN  Step /\ Fetchable /\ Is2(i, {9}) /\ err' \in {"none", "Halted"}
         /\ ~(i.dstMode = "Absolute" /\ ~Byte(i)) /\ ~(i.mode = "ConstNeg1" /\ Byte(i)) =>
           /\ Taken(3, regs') <=> dst >= src
           /\ Taken(1, regs') <=> dst = src
           /\ ~Byte(i) /\ Signed(dst) - Signed(src) \in Int16 =>
                (Taken(6, regs') <=> Signed(dst) < Signed(src))]_vars

(* What PUSH and CALL put on the stack comes back: MOV @SP+ finds what was *)
(* pushed, and RET goes on after the call, with the stack pointer where it *)
(* was.  The stack has to be even, below the last word, and not hooked.    *)
(* Pop(n) is MOV @SP+, Rn.                                                 *)
Pop(n) == Disassemble(16688 + n, 0, 0)
StackRestores ==
  [][LET i   == Fetched
         src == src_operand(i, AtFetch(i), memory)
     IN  Step /\ Fetchable /\ err' \in {"none", "Halted"}
         /\ WordError(regs'[1]) = "none" /\ regs'[1] \notin Hooked =>
           /\ Is1(i, {5}) =>
                LET back == Execute(Pop(0), regs', memory').regs
                IN  regs'[0] = src /\ back = AtStore(i)
           /\ Is1(i, {4}) /\ ~Byte(i) =>
                LET back == Execute(Pop(4), regs', memory').regs
                IN  back = [AtStore(i) EXCEPT ![4] = src]]_vars

(* ADD and SUB of words are exact with their carry, as sums of more than   *)
(* one word need: two to the sixteenth times the carry and the word stored *)
(* make the sum, and a missing carry is a borrow of that much.  The result *)
(* must be stored: not in the constant register, over the flags, in a      *)
(* hooked cell; and an absolute word destination reads as zero.            *)
Sum(i, c, v) == IF i.opcode = 5 THEN 65536 * c + v ELSE v - 65536 * (1 - c)
ArithmeticExact ==
  [][LET i   == Fetched
         src == src_operand(i, AtFetch(i), memory)
         dst == AtDestination(i, AtStore(i), memory)
     IN  Step /\ Fetchable /\ Is2(i, {5, 8}) /\ ~Byte(i) /\ err' \in {"none", "Halted"}
         /\ (\/ i.dstMode = "RegDirect" /\ i.destination \notin {2, 3}
             \/ i.dstMode = "Indexed" /\ DstAddr(i, AtStore(i)) \notin Hooked) =>
           Sum(i, S_C(regs'), AtDestination(i, regs', memory'))
             = IF i.opcode = 5 THEN dst + src ELSE dst - src]_vars

(* "Resolve the destination operand of an instruction to its value, reading *)
(* from memory if needed", says the comment on dst_operand: so what ADD    *)
(* leaves in a word given by its address is the sum of the operands.       *)
DestinationIsRead ==
  [][LET i   == Fetched
         src == src_operand(i, AtFetch(i), memory)
     IN  Step /\ Fetchable /\ Is2(i, {5}) /\ ~Byte(i) /\ i.dstMode = "Absolute"
         /\ err' \in {"none", "Halted"} /\ i.dstx \notin Hooked =>
           RawWord(memory', i.dstx) = Wrap(RawWord(memory, i.dstx) + src)]_vars
=============================================================================
