------------------------------ MODULE MCMsp430 ------------------------------
(***************************************************************************)
(* Starting points for Msp430.  EveryWord: each of the 65,536 first words, *)
(* with extension words and registers that are small and even, or next to  *)
(* the end of memory.  EveryPair: each two-operand instruction of R5 and   *)
(* R6, in words and bytes, over the boundary values of both.               *)
(***************************************************************************)
EXTENDS Msp430, TLC

Code == 4096
WordAt(a, w) == (a :> w % 256) @@ (a + 1 :> w \div 256)

(* SP is 8192, the others are next to each other, with data where they and *)
(* the indexed modes point.  The hooked cell is where an absolute or an    *)
(* indexed destination may fall.                                           *)
LowRegs == [n \in Regs |-> CASE n = 0 -> Code [] n = 1 -> 8192 [] n = 2 -> 0
                             [] OTHER -> 12288 + 2 * n]
LowData == [a \in 12288..12330 |-> (a * 37) % 256]

(* All four flags set, registers at the end of memory and the stack at its *)
(* start.                                                                  *)
HighRegs == [n \in Regs |-> CASE n = 0 -> Code [] n = 1 -> 0 [] n = 2 -> 263
                              [] OTHER -> 65520 + n]
HighData == [a \in 65520..65535 |-> a % 256]

EveryWord ==
  \E w \in Word :
    \/ Begin(LowRegs, WordAt(Code, w) @@ WordAt(Code + 2, 4) @@ WordAt(Code + 4, 6) @@ LowData)
    \/ Begin(HighRegs, WordAt(Code, w) @@ WordAt(Code + 2, 65533) @@ WordAt(Code + 4, 65532)
                       @@ HighData)

Boundary == {0, 1, 2, 127, 128, 255, 256, 32767, 32768, 65535}

EveryPair ==
  \E op \in 4..15, bw \in 0..1, carry \in 0..1, x, y \in Boundary :
    Begin([LowRegs EXCEPT ![2] = carry, ![5] = x, ![6] = y],
          WordAt(Code, 4096 * op + 256 * 5 + 64 * bw + 6))

MCInit == EveryWord \/ EveryPair
MCSpec == MCInit /\ [][Next]_vars
=============================================================================
