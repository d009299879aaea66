------------------------------ MODULE ScanPolicy ------------------------------
(***************************************************************************)
(* DefaultPolicy of src/src/matasano/util/portscan.go and the moving       *)
(* averages of src/src/matasano/ewma/ewma.go that it keeps: the workers of *)
(* a scan report how long each probe took, in any order, and ask how long  *)
(* to wait for the next one.  Times are in milliseconds.  No delay that a  *)
(* probe can wait for makes the 64 bits of an average overflow, so its     *)
(* integers are unbounded here.                                            *)
(***************************************************************************)
EXTENDS Integers, Sequences

CONSTANTS
  Hosts,      (* addresses                                                   *)
  Delays,     (* the durations its answers can take, in whole milliseconds   *)
  Fastest,    (* a bound below them, for each address                        *)
  Slowest     (* a bound above them, for each address                        *)

ASSUME ScanPolicyAssumption ==
  /\ Fastest \in [Hosts -> Nat] /\ Slowest \in [Hosts -> Nat]
  /\ \A h \in Hosts : Delays[h] \subseteq Fastest[h]..Slowest[h]

VARIABLES
  alltimeout, (* average over all hosts                                      *)
  timeouts    (* averages of those hosts that have answered                  *)

vars == <<alltimeout, timeouts>>

Codes == {"success", "refused", "failed", "timeout"}
Answers == {"success", "refused"}

-----------------------------------------------------------------------------
(* Averages *)

Ewma == [internal : Nat, weight : Nat, factor : Nat]
NewEwma == [internal |-> 0, weight |-> 0, factor |-> 0]

(* math.Ilogb and the shifts, on the weights and factors that occur.       *)
Powers == <<1, 2, 4, 8, 16, 32, 64, 128, 256, 512, 1024, 2048>>
Pow2(k) == Powers[k + 1]
Ilogb(x) == CHOOSE k \in 0..10 : Pow2(k) <= x /\ x < Pow2(k + 1)

(* The first sample, or one that follows an average of nothing, also turns *)
(* weight and factor into their logarithms.                                *)
First(e, sample) ==
  LET f == Ilogb(IF e.factor = 0 THEN 8 ELSE e.factor)
  IN  [internal |-> sample * Pow2(f),
       weight   |-> Ilogb(IF e.weight = 0 THEN 1024 ELSE e.weight),
       factor   |-> f]

Later(e, sample) ==
  (e.internal * Pow2(e.weight) - e.internal + sample * Pow2(e.factor))
    \div Pow2(e.weight)

(* Mutants: the old value is not taken out of the new one; the sample gets *)
(* the weight of a faster average.                                         *)
AddKeepingOld(e, sample) ==
  IF e.internal = 0 THEN First(e, sample)
  ELSE [e EXCEPT !.internal =
          (@ * Pow2(e.weight) + sample * Pow2(e.factor)) \div Pow2(e.weight)]
AddFast(e, sample) ==
  IF e.internal = 0 THEN First(e, sample)
  ELSE [e EXCEPT !.internal = (@ * 7 + sample * Pow2(e.factor)) \div 8]

Add(e, sample) ==
  IF e.internal = 0 THEN First(e, sample)
  ELSE [e EXCEPT !.internal = Later(e, sample)]

Read(e) == e.internal \div Pow2(e.factor)

-----------------------------------------------------------------------------
(* The policy; each call holds its mutex throughout. *)

Init ==
  /\ alltimeout = NewEwma
  /\ timeouts = [h \in {} |-> NewEwma]

Known == DOMAIN timeouts

(* What a worker found out, and how long that took.  A duration of nothing *)
(* is no sample; to the average of a host one is added first.              *)
Elapsed(h, d, code) ==
  IF code \in Answers
  THEN /\ alltimeout' = IF d # 0 THEN Add(alltimeout, d) ELSE alltimeout
       /\ LET e == IF h \in Known THEN timeouts[h] ELSE NewEwma
          IN  timeouts' = [g \in Known \cup {h} |->
                             IF g = h THEN Add(e, d + 1) ELSE timeouts[g]]
  ELSE UNCHANGED vars

AtLeast(low, t) == IF t < low THEN low ELSE t

(* Mutant: the average of all hosts comes before the host's own.           *)
ComputeTimeoutOfAll(h) ==
  AtLeast(20, IF Read(alltimeout) # 0 THEN Read(alltimeout) * 8
              ELSE IF h \in Known THEN Read(timeouts[h]) * 4
              ELSE 5000)

ComputeTimeout(h) ==
  AtLeast(20, IF h \in Known THEN Read(timeouts[h]) * 4
              ELSE IF Read(alltimeout) # 0 THEN Read(alltimeout) * 8
              ELSE 5000)

Next == \E h \in Hosts : \E d \in Delays[h], code \in Codes : Elapsed(h, d, code)

Spec == Init /\ [][Next]_vars

-----------------------------------------------------------------------------
(* Properties *)

(* An average that has had a sample, in the scale of its samples, stays    *)
(* between the least and the greatest of them, although every Add rounds   *)
(* down: so it never becomes zero again, which would take the logarithm of *)
(* the weight a second time (weight 1024 would become 10, then 3).         *)
Within(e, low, high) ==
  /\ e.weight = 10 /\ e.factor = 3
  /\ e.internal \in (8 * low)..(8 * high)

(* The averages that the policy keeps, see Within: a probe of no duration  *)
(* is no sample of the one, and counts as one millisecond in the others.   *)
AveragesInRange ==
  /\ \/ alltimeout = NewEwma
     \/ \E g, h \in Hosts :
          Within(alltimeout, AtLeast(1, Fastest[g]), Slowest[h])
  /\ \A h \in Known : Within(timeouts[h], Fastest[h] + 1, Slowest[h] + 1)

(* The shortcoming of the integer arithmetic of Add: the rounding hides    *)
(* every sample that is less than 128 ms above the average, so only one    *)
(* further up than that makes the average of a host rise, whereas any      *)
(* sample below makes it fall.                                             *)
MovesAsRounded ==
  [][\A h \in Known : \A d \in Delays[h] :
       LET above == 8 * (d + 1) - timeouts[h].internal
           moved == timeouts'[h].internal - timeouts[h].internal
       IN  Elapsed(h, d, "success") => /\ moved > 0 <=> above >= 1024
                                       /\ moved < 0 <=> above < 0]_vars

(* A host that has answered once is waited for at least four times as long *)
(* as its fastest answer, whatever the other hosts and the order of the    *)
(* reports: so a probe that takes no more than that is never given up, and *)
(* fast hosts do not hide the ports of a slow one once it is known.        *)
KnownHostsAwaited ==
  \A h \in Known : ComputeTimeout(h) >= AtLeast(20, 4 * (Fastest[h] + 1))
=============================================================================
