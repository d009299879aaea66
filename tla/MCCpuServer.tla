----------------------------- MODULE MCCpuServer -----------------------------
(* Small instances of CpuServer for TLC, and its mapping to DebugSession.   *)
EXTENDS CpuServer, TLC

CONSTANTS h1, h2, n1, n2, kBoot, kGood, kBad, kIo, kGone, a1, a2

(* One key of each kind; a run picks some of them as Keys.                  *)
Kinds == (kBoot :> "ok") @@ (kGood :> "ok") @@ (kBad :> "malformed")
         @@ (kIo :> "hooked") @@ (kGone :> "missing")
MCKeyKind == [k \in Keys |-> Kinds[k]]

Symmetry == Permutations(Handlers)
=============================================================================
