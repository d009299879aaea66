---------------------------- MODULE PortScanProofs ----------------------------
(***************************************************************************)
(* Proofs about PortScan: no positive gets lost between the goroutine that *)
(* counts results and the table; every request is accounted for; and what  *)
(* PortScan returns is complete, as far as its arithmetic allows.  All for *)
(* any hosts, ports, arguments, workers, capacity of the channel and       *)
(* failures of sockets and inserts.                                        *)
(***************************************************************************)
EXTENDS PortScan, SequenceTheorems, FiniteSetTheorems, TLAPS

(* What is known of the policy, of which Policy is the same instance.      *)
PolicyProofs == INSTANCE ScanPolicyProofs

(* The main goroutine is in one of three places, and has a positive in     *)
(* hand only where there is a channel for it.                              *)
MainOK ==
  /\ main.at \in {"recv", "live", "returned"}
  /\ main = [at |-> main.at, left |-> main.left, pair |-> main.pair]
  /\ over \in {"no", "exit", "panic"}

(* What is in the channel or on its way there has been found.              *)
LiveOK == live \in Seq(ret) /\ (main.at = "live" => main.pair \in ret)

(* When the process has ended, all goroutines but the feeder and the       *)
(* workers had come to their end.                                          *)
EndOK ==
  Live /\ over = "exit" => main.at = "returned" /\ live = <<>> /\ batch = {}

IInv == MainOK /\ LiveOK /\ EndOK /\ NothingDropped
-----------------------------------------------------------------------------
LEMMA RangeOfAppend ==
  ASSUME NEW S, NEW s \in Seq(S), NEW e \in S
  PROVE  Append(s, e) \in Seq(S) /\ Range(Append(s, e)) = Range(s) \cup {e}
<1>1. /\ Len(s) \in Nat /\ DOMAIN s = 1..Len(s)
      /\ DOMAIN Append(s, e) = 1..(Len(s) + 1)
      /\ \A i \in 1..Len(s) : Append(s, e)[i] = s[i]
      /\ Append(s, e)[Len(s) + 1] = e
  OBVIOUS
<1>. QED  BY <1>1 DEF Range

LEMMA RangeOfTail ==
  ASSUME NEW S, NEW s \in Seq(S), s # <<>>
  PROVE  Tail(s) \in Seq(S) /\ Range(s) = {Head(s)} \cup Range(Tail(s))
<1>1. /\ Len(s) \in Nat /\ Len(s) > 0 /\ DOMAIN s = 1..Len(s)
      /\ DOMAIN Tail(s) = 1..(Len(s) - 1)
      /\ Head(s) = s[1]
      /\ \A i \in 1..(Len(s) - 1) : Tail(s)[i] = s[i + 1]
  OBVIOUS
<1>2. ASSUME NEW i \in 1..Len(s) PROVE s[i] \in {Head(s)} \cup Range(Tail(s))
  <2>1. CASE i = 1
    BY <1>1, <2>1
  <2>2. CASE i # 1
    <3>1. i - 1 \in 1..(Len(s) - 1) /\ Tail(s)[i - 1] = s[i]
      BY <1>1, <2>2
    <3>. QED  BY <1>1, <3>1 DEF Range
  <2>. QED  BY <2>1, <2>2
<1>3. ASSUME NEW i \in 1..(Len(s) - 1) PROVE Tail(s)[i] \in Range(s)
  <2>1. i + 1 \in 1..Len(s) /\ Tail(s)[i] = s[i + 1]
    BY <1>1
  <2>. QED  BY <1>1, <2>1 DEF Range
<1>. QED  BY <1>1, <1>2, <1>3 DEF Range

LEMMA InitIInv == Init => IInv
  BY DEF Init, IInv, MainOK, LiveOK, EndOK, NothingDropped, Range

LEMMA StepKeeps == IInv /\ [Next]_vars => IInv'
<1> SUFFICES ASSUME IInv, [Next]_vars PROVE IInv'
  OBVIOUS
<1> USE DEF IInv, MainOK, EndOK, NothingDropped, Running, plan, pvars, store
<1>0. LiveOK
  OBVIOUS
(* Steps of the feeder and of the workers, but for reports.                *)
<1>1. ASSUME UNCHANGED <<main, ret, live, batch, saved, lost, over>> PROVE IInv'
  BY <1>1 DEF LiveOK
<1>2. CASE Pick
  BY <1>2 DEF Pick, LiveOK
<1>3. ASSUME NEW w \in Workers, Hand(w) \/ Pill(w) \/ Start(w) \/ Probe(w) PROVE IInv'
  BY <1>1, <1>3 DEF Hand, Pill, Start, Probe
<1>4. ASSUME NEW w \in Workers, Report(w) PROVE IInv'
  <2>1. LiveOK'
    <3>1. ret \subseteq ret' /\ live \in Seq(ret) /\ live' = live
      BY <1>4 DEF Report, LiveOK
    <3>2. main'.at = "live" => main'.pair \in ret'
      BY <1>4 DEF Report
    <3>. QED  BY <3>1, <3>2, SeqMonotonic DEF LiveOK
  <2>2. CASE worker[w].code = "success" /\ Live
    BY <1>4, <2>1, <2>2 DEF Report
  <2>3. CASE ~ Live
    BY <1>4, <2>1, <2>3 DEF Report
  <2>4. CASE worker[w].code # "success"
    BY <1>4, <2>1, <2>4 DEF Report
  <2>. QED  BY PortScanAssumption, <2>2, <2>3, <2>4
<1>5. CASE SendLive
  <2>1. Range(live') = Range(live) \cup {main.pair} /\ LiveOK'
    BY <1>0, <1>5, RangeOfAppend DEF SendLive, LiveOK
  <2>. QED  BY <1>5, <2>1 DEF SendLive
<1>6. CASE Return
  BY <1>6 DEF Return, LiveOK
<1>7. CASE Collect
  <2>1. Range(live) = {Head(live)} \cup Range(live') /\ LiveOK'
    BY <1>0, <1>7, RangeOfTail DEF Collect, LiveOK
  <2>. QED  BY <1>7, <2>1 DEF Collect
<1>8. CASE Timer
  BY <1>8 DEF Timer, PushQuery, LiveOK
<1>9. CASE Exit
  <2>1. Range(live) = {}
    BY <1>9 DEF Exit, Range
  <2>. QED  BY <1>9, <2>1 DEF Exit, PushQuery, LiveOK
<1>10. CASE Ended \/ UNCHANGED vars
  BY <1>1, <1>10 DEF Ended, vars
<1>. QED  BY <1>2, <1>3, <1>4, <1>5, <1>6, <1>7, <1>8, <1>9, <1>10 DEF Next, Scan, Work, Store

(* Whatever was found is stored, lost to a failed insert or on its way,    *)
(* and all of it has arrived when the program exits.                       *)
THEOREM NeverDropped == Spec => []NothingDropped
<1>1. IInv => NothingDropped
  BY DEF IInv
<1>. QED  BY <1>1, InitIInv, StepKeeps, PTL DEF Spec

-----------------------------------------------------------------------------
(* Every request is accounted for: types *)

Hands == {"start", "probe", "report"}

ScanType ==
  /\ offset \in [Hosts -> Nat]
  /\ feeder \in [at : {"pick", "send", "pill"}, hostoff : Nat, pair : Pairs \cup {NoPair},
                 pills : Nat]
  /\ worker \in [Workers -> [at : Hands \cup {"recv", "gone"}, pair : Pairs \cup {NoPair},
                             timeout : Int, code : Policy!Codes]]
  /\ main.left \in Nat

(* What was chosen at the start.                                           *)
PlanOK ==
  /\ arg \in Arguments /\ mask \in Randomizer
  /\ perm \in Bijection(1..Cardinality(Hosts), Hosts)

(* There are requests only if there are hosts, and never more for a host   *)
(* than the sum of the counts.                                             *)
FeederOK ==
  /\ feeder.at # "pill" => Hosts # {}
  /\ feeder.at = "send" => feeder.pair \in Pairs
  /\ \A h \in Hosts : offset[h] <= Sum

(* A probe that is sure to succeed, unless a system call fails.            *)
Sure(pair) == pair \in Open \ failed /\ Slowest[pair[1]] < 20

(* A probe waits for 20 ms at least, so those that are sure succeed, and   *)
(* only open ports do.                                                     *)
WorkerOK ==
  \A w \in Workers :
    /\ worker[w].at \in Hands => worker[w].pair \in Pairs
    /\ worker[w].at = "probe" => worker[w].timeout >= 20
    /\ worker[w].at = "report" =>
         /\ worker[w].code = "success" => worker[w].pair \in Open
         /\ Sure(worker[w].pair) => worker[w].code = "success"

(* A pair for which a request was made is with the feeder or a worker, or  *)
(* has been reported, and found if it was sure to be.                      *)
Dealt(p) ==
  \/ feeder.at = "send" /\ feeder.pair = p
  \/ \E w \in Busy : worker[w].pair = p
  \/ Sure(p) => p \in ret
DealtOK == \A h \in Hosts : \A i \in 1..offset[h] : Dealt(<<h, mask[i]>>)

ReturnOK == /\ ret \subseteq Open
            /\ main.at = "returned" => main.left = 0

ScanInv ==
  /\ MainOK /\ ScanType /\ PlanOK /\ FeederOK /\ WorkerOK /\ DealtOK /\ ReturnOK
  /\ Accounted /\ PolicyProofs!IInv

-----------------------------------------------------------------------------
(* The numbers of requests and hands *)

LEMMA Numbers ==
  /\ IsFiniteSet(Hosts) /\ Cardinality(Hosts) \in Nat
  /\ (Cardinality(Hosts) = 0 <=> Hosts = {})
  /\ IsFiniteSet(Ports) /\ Ports \subseteq Nat
<1>1. IsFiniteSet(Hosts) /\ PortLimit \in Nat \ {0}
  BY PortScanAssumption
<1>2. IsFiniteSet(Ports)
  BY <1>1, FS_Interval DEF Ports
<1>. QED  BY <1>1, <1>2, FS_CardinalityType, FS_EmptySet DEF Ports

(* The pairs of a range and a number are finitely many.                    *)
LEMMA Finite ==
  ASSUME arg \in Arguments
  PROVE  /\ IsFiniteSet(Slots) /\ Cardinality(Slots) \in Nat
         /\ IsFiniteSet(Counted) /\ Sum \in Nat /\ Total \in Nat
         /\ arg \in Seq([dash : BOOLEAN, start : Ports, stop : Ports])
<1>1. arg \in Seq([dash : BOOLEAN, start : Ports, stop : Ports])
  BY PortScanAssumption
<1>2. IsFiniteSet(ranges)
  <2>1. Len(arg) \in Nat /\ DOMAIN arg = 1..Len(arg)
    BY <1>1
  <2>2. IsFiniteSet(1..Len(arg))
    BY <2>1, FS_Interval
  <2>. QED  BY <2>1, <2>2, FS_Subset DEF ranges, ParsePortRanges
<1>3. IsFiniteSet(ranges \X Ports)
  BY <1>2, Numbers, FS_Product
<1>4. IsFiniteSet(Slots) /\ IsFiniteSet(Counted)
  BY <1>3, FS_Subset DEF Slots, Counted
<1>5. Sum \in Nat /\ Cardinality(Slots) \in Nat
  BY <1>4, FS_CardinalityType DEF Sum
<1>. QED  BY <1>1, <1>4, <1>5, Numbers DEF Total

LEMMA BusyFinite ==
  IsFiniteSet(Busy) /\ Cardinality(Busy) \in Nat /\ IsFiniteSet(Busy)' /\ Cardinality(Busy)' \in Nat
<1>1. IsFiniteSet(Workers)
  BY PortScanAssumption
<1>2. IsFiniteSet(Busy) /\ IsFiniteSet(Busy')
  BY <1>1, FS_Subset DEF Busy
<1>. QED  BY <1>2, FS_CardinalityType

(* The requests made: a host gets one more.                                *)
LEMMA RequestedFinite ==
  ASSUME NEW f \in [Hosts -> Nat], NEW n \in Nat, \A h \in Hosts : f[h] <= n
  PROVE  LET made == UNION {{h} \X (1..f[h]) : h \in Hosts}
         IN  /\ made \subseteq Hosts \X (1..n)
             /\ IsFiniteSet(made) /\ Cardinality(made) \in Nat
<1> DEFINE made == UNION {{h} \X (1..f[h]) : h \in Hosts}
<1>1. made \subseteq Hosts \X (1..n)
  OBVIOUS
<1>2. IsFiniteSet(1..n)
  BY FS_Interval
<1>3. IsFiniteSet(Hosts \X (1..n))
  BY <1>2, Numbers, FS_Product
<1>4. IsFiniteSet(made)
  BY <1>1, <1>3, FS_Subset
<1>. QED  BY <1>1, <1>4, FS_CardinalityType

LEMMA OneMore ==
  ASSUME NEW f \in [Hosts -> Nat], NEW n \in Nat, \A h \in Hosts : f[h] <= n,
         NEW g \in Hosts
  PROVE  Cardinality(UNION {{h} \X (1..[f EXCEPT ![g] = @ + 1][h]) : h \in Hosts})
           = Cardinality(UNION {{h} \X (1..f[h]) : h \in Hosts}) + 1
<1> DEFINE made == UNION {{h} \X (1..f[h]) : h \in Hosts}
           f2   == [f EXCEPT ![g] = @ + 1]
           more == UNION {{h} \X (1..f2[h]) : h \in Hosts}
           new  == <<g, f[g] + 1>>
<1>1. IsFiniteSet(made) /\ new \notin made
  BY RequestedFinite
<1>2. more = made \cup {new}
  <2>1. \A h, i : <<h, i>> \in made <=> h \in Hosts /\ i \in 1..f[h]
    OBVIOUS
  <2>2. \A h, i : <<h, i>> \in more <=> h \in Hosts /\ i \in 1..f2[h]
    OBVIOUS
  <2>3. \A h \in Hosts : \A i : i \in 1..f2[h] <=> i \in 1..f[h] \/ (h = g /\ i = f[g] + 1)
    OBVIOUS
  <2>4. \A x : x \in made \/ x \in more => x = <<x[1], x[2]>>
    OBVIOUS
  <2>5. \A h, i : <<h, i>> \in more <=> <<h, i>> \in made \cup {new}
    BY <2>1, <2>2, <2>3
  <2> HIDE DEF made, more
  <2>. QED  BY <2>4, <2>5
<1> HIDE DEF made, more, new
<1>3. Cardinality(more) = Cardinality(made) + 1
  BY <1>1, <1>2, FS_AddElement
<1>. QED  BY <1>3 DEF made, more

-----------------------------------------------------------------------------
(* The policy of the scan is a ScanPolicy *)

LEMMA PolicyConstants == PolicyProofs!ScanPolicyAssumption
BY PortScanAssumption DEF PolicyProofs!ScanPolicyAssumption

LEMMA PolicyInits == Init => PolicyProofs!IInv
<1>1. Init => PolicyProofs!Init
  BY DEF Init, Policy!Init, PolicyProofs!Init, Policy!NewEwma, PolicyProofs!NewEwma
<1>. QED  BY <1>1, PolicyConstants, PolicyProofs!InitIInv

LEMMA PolicyStays ==
  ASSUME PolicyProofs!IInv, UNCHANGED pvars
  PROVE  PolicyProofs!IInv'
<1>1. [PolicyProofs!Next]_(PolicyProofs!vars)
  BY DEF pvars, PolicyProofs!vars
<1>. QED  BY <1>1, PolicyConstants, PolicyProofs!NextIInv

LEMMA PolicyElapses ==
  ASSUME PolicyProofs!IInv, NEW h \in Hosts, NEW d \in Delays[h], NEW code \in Policy!Codes,
         Policy!Elapsed(h, d, code)
  PROVE  PolicyProofs!IInv'
<1>1. Policy!Elapsed(h, d, code) = PolicyProofs!Elapsed(h, d, code)
  BY DEF Policy!Elapsed, Policy!Add, Policy!First, Policy!Later, Policy!Pow2, Policy!Powers,
         Policy!Ilogb, Policy!NewEwma, Policy!Answers, Policy!Known, Policy!vars,
         PolicyProofs!Elapsed, PolicyProofs!Add, PolicyProofs!First, PolicyProofs!Later,
         PolicyProofs!Pow2, PolicyProofs!Powers, PolicyProofs!Ilogb, PolicyProofs!NewEwma,
         PolicyProofs!Answers, PolicyProofs!Known, PolicyProofs!vars
<1>2. code \in PolicyProofs!Codes
  BY DEF Policy!Codes, PolicyProofs!Codes
<1>3. PolicyProofs!Next
  BY <1>1, <1>2 DEF PolicyProofs!Next
<1>. QED  BY <1>3, PolicyConstants, PolicyProofs!NextIInv

(* No timeout is below 20 ms.                                              *)
LEMMA TimeoutLeast ==
  ASSUME PolicyProofs!IInv, NEW h \in Hosts
  PROVE  Policy!ComputeTimeout(h) \in Int /\ Policy!ComputeTimeout(h) >= 20
<1>1. Policy!ComputeTimeout(h) = PolicyProofs!ComputeTimeout(h)
  BY DEF Policy!ComputeTimeout, Policy!AtLeast, Policy!Read, Policy!Known, Policy!Pow2,
         Policy!Powers, PolicyProofs!ComputeTimeout, PolicyProofs!AtLeast,
         PolicyProofs!Read, PolicyProofs!Known, PolicyProofs!Pow2, PolicyProofs!Powers
<1>. QED  BY <1>1, PolicyConstants, PolicyProofs!TimeoutLeast

-----------------------------------------------------------------------------
(* The plan *)

LEMMA PlanStays ==
  ASSUME PlanOK, UNCHANGED plan
  PROVE  PlanOK' /\ Sum' = Sum /\ Total' = Total
<1>1. arg' = arg /\ mask' = mask /\ perm' = perm
  BY DEF plan
<1>2. Counted' = Counted /\ Slots' = Slots
  BY <1>1 DEF Counted, Slots, ranges, ParsePortRanges
<1>. QED  BY <1>1, <1>2 DEF PlanOK, Sum, Total, Randomizer

(* The mask lists the ports of the ranges.                                 *)
LEMMA MaskFacts ==
  ASSUME PlanOK
  PROVE  /\ mask \in Seq(Ports) /\ Len(mask) = Cardinality(Slots)
         /\ \A s \in Slots : \E k \in 1..Cardinality(Slots) : mask[k] = s[2]
<1>1. Cardinality(Slots) \in Nat
  BY Finite DEF PlanOK
<1>2. PICK f \in Bijection(1..Cardinality(Slots), Slots) : mask = [i \in DOMAIN f |-> f[i][2]]
  BY DEF PlanOK, Randomizer
<1>3. /\ f \in [1..Cardinality(Slots) -> Slots]
      /\ \A s \in Slots : \E k \in 1..Cardinality(Slots) : f[k] = s
  BY <1>2 DEF Bijection, Surjection
<1>4. mask = [i \in 1..Cardinality(Slots) |-> f[i][2]]
  BY <1>2, <1>3
<1>5. \A i \in 1..Cardinality(Slots) : f[i][2] \in Ports
  BY <1>3 DEF Slots
<1>6. mask \in Seq(Ports) /\ Len(mask) = Cardinality(Slots)
  BY <1>1, <1>4, <1>5
<1>. QED  BY <1>3, <1>4, <1>6

LEMMA PermFacts ==
  ASSUME PlanOK, Hosts # {}, NEW n \in Nat
  PROVE  LET next == (n + 1) % Cardinality(Hosts)
         IN  next \in Nat /\ perm[next + 1] \in Hosts
<1>1. perm \in [1..Cardinality(Hosts) -> Hosts]
  BY DEF PlanOK, Bijection, Injection
<1>2. Cardinality(Hosts) \in Nat \ {0}
  BY Numbers
<1>3. (n + 1) % Cardinality(Hosts) \in 0..(Cardinality(Hosts) - 1)
  BY <1>2
<1>. QED  BY <1>1, <1>2, <1>3

-----------------------------------------------------------------------------
(* The start *)

LEMMA ScanInitInv == Init => ScanInv
<1> SUFFICES ASSUME Init PROVE ScanInv
  OBVIOUS
<1> USE DEF Init
<1>1. PlanOK
  BY DEF PlanOK
<1>2. Total \in Nat /\ Sum \in Nat /\ (Hosts = {} => Total = 0)
  BY <1>1, Finite, Numbers DEF PlanOK, Total
<1>3. MainOK
  BY DEF MainOK
<1>4. ScanType
  BY <1>2 DEF ScanType, Policy!Codes
<1>5. FeederOK
  BY <1>2 DEF FeederOK
<1>6. WorkerOK
  BY DEF WorkerOK, Hands
<1>7. DealtOK
  BY DEF DealtOK
<1>8. ReturnOK
  BY DEF ReturnOK
<1>9. Accounted
  <2>1. Busy = {} /\ Requested = {}
    BY DEF Busy, Requested
  <2>. QED  BY <1>2, <2>1, FS_EmptySet DEF Accounted, Held
<1>. QED  BY <1>1, <1>3, <1>4, <1>5, <1>6, <1>7, <1>8, <1>9, PolicyInits DEF ScanInv

-----------------------------------------------------------------------------
(* The steps *)

(* The quantities that Accounted relates are numbers.                       *)
LEMMA Counts ==
  ASSUME ScanInv
  PROVE  Held \in Int /\ Cardinality(Requested) \in Int /\ main.left \in Nat
<1>1. Total \in Nat /\ main.left \in Nat
  BY Finite DEF ScanInv, PlanOK, ScanType
<1>2. Held \in Int
  BY BusyFinite DEF Held
<1>3. Cardinality(Requested) = Total - main.left + Held
  BY DEF ScanInv, Accounted
<1> HIDE DEF Requested, Held, Total
<1>. QED  BY <1>1, <1>2, <1>3

(* A request is accounted for when one is made and a hand takes it, or it  *)
(* goes from hand to hand, or a hand gives it up to be counted.            *)
LEMMA Accounts ==
  ASSUME ScanInv, PlanOK', UNCHANGED plan,
         NEW k \in {0, 1}, NEW n \in {0, 1},
         Cardinality(Requested)' = Cardinality(Requested) + k,
         main'.left = main.left - n, Held' = Held + k - n
  PROVE  Accounted'
<1>1. Total' = Total /\ Total \in Nat
  BY PlanStays, Finite DEF ScanInv, PlanOK
<1>2. Held \in Int /\ main.left \in Nat /\ Cardinality(Requested) \in Int
  BY <1>1, BusyFinite DEF ScanInv, ScanType, Held, Accounted
<1>3. Cardinality(Requested) = Total - main.left + Held
  BY DEF ScanInv, Accounted
<1> HIDE DEF Requested, Held, Total
<1>. QED  BY <1>1, <1>2, <1>3 DEF Accounted

(* Hands: a worker that takes a request has one more, one that gives it up *)
(* one less.                                                               *)
LEMMA OneBusyMore ==
  ASSUME NEW w \in Workers, w \notin Busy, Busy' = Busy \cup {w}
  PROVE  Cardinality(Busy)' = Cardinality(Busy) + 1
BY BusyFinite, FS_AddElement

LEMMA OneBusyLess ==
  ASSUME NEW w \in Busy, Busy' = Busy \ {w}
  PROVE  Cardinality(Busy)' = Cardinality(Busy) - 1
BY BusyFinite, FS_RemoveElement

(* What was dealt out stays so while failures come and results are found.  *)
LEMMA DealtStays ==
  ASSUME NEW p, Dealt(p), failed \subseteq failed', ret \subseteq ret',
         feeder.at = "send" /\ feeder.pair = p => Dealt(p)',
         \A w \in Busy : worker[w].pair = p => Dealt(p)'
  PROVE  Dealt(p)'
<1>1. Sure(p)' => Sure(p)
  BY DEF Sure
<1>. QED  BY <1>1 DEF Dealt

LEMMA PickKeeps == ASSUME ScanInv, Pick PROVE ScanInv'
<1> USE DEF ScanInv
<1>1. /\ UNCHANGED plan /\ worker' = worker /\ main' = main /\ ret' = ret /\ failed' = failed
      /\ UNCHANGED pvars /\ feeder.at = "pick"
  BY DEF Pick
<1>2. PlanOK' /\ Sum' = Sum /\ Sum \in Nat /\ Hosts # {}
  BY <1>1, PlanStays, Finite DEF PlanOK, FeederOK
<1>3. PolicyProofs!IInv'
  BY <1>1, PolicyStays
<1>4. MainOK' /\ ReturnOK' /\ WorkerOK' /\ Busy' = Busy
  <2>1. MainOK'
    BY <1>1 DEF MainOK, Pick
  <2>. QED  BY <1>1, <2>1 DEF ReturnOK, WorkerOK, Sure, Busy
<1> DEFINE next == (feeder.hostoff + 1) % Cardinality(Hosts)
           h == perm[next + 1]
<1>5. next \in Nat /\ h \in Hosts
  BY <1>2, PermFacts DEF ScanType
<1> HIDE DEF next, h
<1>6. CASE UNCHANGED offset /\ (feeder' = [feeder EXCEPT !.hostoff = next] \/ UNCHANGED feeder)
  <2>1. ScanType' /\ feeder'.at = "pick"
    BY <1>1, <1>5, <1>6 DEF ScanType
  <2>2. FeederOK'
    BY <1>2, <1>6, <2>1 DEF FeederOK
  <2>3. DealtOK'
    BY <1>1, <1>4, <1>6, <2>1 DEF DealtOK, Dealt, Sure, plan
  <2>4. Requested' = Requested /\ Held' = Held
    BY <1>1, <1>4, <1>6, <2>1 DEF Requested, Held
  <2>5. Accounted'
    <3>1. Held \in Int /\ Cardinality(Requested) \in Int /\ main.left \in Nat
      BY Counts
    <3> HIDE DEF Requested, Held
    <3>. QED  BY <1>1, <1>2, <2>4, <3>1, Accounts
  <2>. QED  BY <1>2, <1>3, <1>4, <2>1, <2>2, <2>3, <2>5
<1>7. CASE /\ offset[h] < Sum /\ offset[h] < Len(mask)
           /\ feeder' = [feeder EXCEPT !.hostoff = next, !.at = "send",
                                       !.pair = <<h, mask[offset[h] + 1]>>]
           /\ offset' = [offset EXCEPT ![h] = @ + 1]
  <2>1. offset[h] \in Nat /\ mask[offset[h] + 1] \in Ports
    <3>1. offset[h] \in Nat
      BY <1>5 DEF ScanType
    <3>. QED  BY <1>7, <3>1, MaskFacts
  <2>2. <<h, mask[offset[h] + 1]>> \in Pairs
    BY <1>5, <2>1 DEF Pairs
  <2>3. ScanType'
    <3>1. feeder' \in [at : {"pick", "send", "pill"}, hostoff : Nat,
                       pair : Pairs \cup {NoPair}, pills : Nat]
      BY <1>5, <1>7, <2>2 DEF ScanType
    <3>2. offset' \in [Hosts -> Nat]
      BY <1>5, <1>7, <2>1 DEF ScanType
    <3>. QED  BY <1>1, <3>1, <3>2 DEF ScanType
  <2>4. feeder'.at = "send" /\ feeder'.pair = <<h, mask[offset[h] + 1]>>
    BY <1>7 DEF ScanType
  <2>5. /\ offset'[h] = offset[h] + 1
        /\ \A g \in Hosts : g # h => offset'[g] = offset[g]
    BY <1>5, <1>7 DEF ScanType
  <2>6. FeederOK'
    <3>1. \A g \in Hosts : offset'[g] <= Sum
      BY <1>2, <1>7, <2>1, <2>5 DEF FeederOK
    <3>. QED  BY <1>2, <2>2, <2>4, <3>1 DEF FeederOK
  <2>7. DealtOK'
    <3>1. ASSUME NEW g \in Hosts, NEW i \in 1..offset'[g] PROVE Dealt(<<g, mask[i]>>)'
      <4>1. CASE g = h /\ i = offset[h] + 1
        BY <1>1, <2>4, <4>1 DEF Dealt, plan
      <4>2. CASE ~ (g = h /\ i = offset[h] + 1)
        <5>1. i \in 1..offset[g]
          BY <2>1, <2>5, <3>1, <4>2 DEF ScanType
        <5>. QED  BY <1>1, <1>4, <5>1 DEF DealtOK, Dealt, Sure, plan
      <4>. QED  BY <4>1, <4>2
    <3>. QED  BY <1>1, <3>1 DEF DealtOK, plan
  <2>8. Cardinality(Requested)' = Cardinality(Requested) + 1
    <3>1. offset \in [Hosts -> Nat] /\ \A g \in Hosts : offset[g] <= Sum
      BY DEF ScanType, FeederOK
    <3>2. offset' = [offset EXCEPT ![h] = @ + 1]
      BY <1>7
    <3>3. Cardinality(UNION {{g} \X (1..[offset EXCEPT ![h] = @ + 1][g]) : g \in Hosts})
            = Cardinality(UNION {{g} \X (1..offset[g]) : g \in Hosts}) + 1
      BY <1>2, <1>5, <3>1, OneMore
    <3>. QED  BY <3>2, <3>3, Zenon DEF Requested
  <2>9. Held' = Held + 1
    BY <1>1, <1>4, <2>4, BusyFinite DEF Held
  <2>10. Accounted'
    <3>1. Held \in Int /\ main.left \in Nat
      BY BusyFinite DEF ScanType, Held
    <3> HIDE DEF Held
    <3>. QED  BY <1>1, <1>2, <2>8, <2>9, <3>1, Accounts
  <2>. QED  BY <1>2, <1>3, <1>4, <2>3, <2>6, <2>7, <2>10
<1>. QED  BY <1>6, <1>7 DEF Pick, next, h

(* The steps that touch neither requests nor workers.                      *)
LEMMA RestKeeps ==
  ASSUME ScanInv, UNCHANGED <<plan, offset, feeder, worker, ret, failed, pvars>>,
         main'.left = main.left, MainOK',
         main'.at = "returned" => main.at = "returned" \/ main.left = 0
  PROVE  ScanInv'
<1> USE DEF ScanInv
<1>1. PlanOK' /\ Sum' = Sum
  BY PlanStays
<1>2. PolicyProofs!IInv'
  BY PolicyStays
<1>3. ScanType' /\ FeederOK' /\ WorkerOK' /\ ReturnOK'
  BY <1>1 DEF ScanType, FeederOK, WorkerOK, Sure, ReturnOK
<1>4. DealtOK' /\ Requested' = Requested /\ Held' = Held
  BY DEF DealtOK, Dealt, Sure, Busy, plan, Requested, Held
<1>5. Accounted'
  <2>1. Held \in Int /\ Cardinality(Requested) \in Int /\ main.left \in Nat
    BY Counts
  <2> HIDE DEF Requested, Held
  <2>. QED  BY <1>1, <1>4, <2>1, Accounts
<1>. QED  BY <1>1, <1>2, <1>3, <1>4, <1>5

(* A worker goes on, with a request or without, and with what it had.      *)
LEMMA WorkerGoes ==
  ASSUME ScanInv, UNCHANGED <<plan, offset, feeder, main, ret, over>>,
         NEW w \in Workers, failed \subseteq failed', PolicyProofs!IInv',
         NEW r \in [at : Hands \cup {"recv", "gone"}, pair : Pairs \cup {NoPair},
                    timeout : Int, code : Policy!Codes],
         worker' = [worker EXCEPT ![w] = r],
         worker[w].at \in Hands <=> r.at \in Hands,
         r.at \in Hands => r.pair = worker[w].pair,
         r.at = "probe" => r.timeout >= 20,
         r.at = "report" => /\ r.code = "success" => r.pair \in Open
                            /\ Sure(r.pair)' => r.code = "success"
  PROVE  ScanInv'
<1> USE DEF ScanInv
<1>0. worker'[w] = r /\ \A v \in Workers : v # w => worker'[v] = worker[v]
  BY DEF ScanType
<1>1. PlanOK' /\ Sum' = Sum
  BY PlanStays
<1>2. ScanType' /\ FeederOK' /\ ReturnOK' /\ MainOK'
  BY <1>1 DEF ScanType, FeederOK, ReturnOK, MainOK
<1>3. \A p : Sure(p)' => Sure(p)
  BY DEF Sure
<1>4. WorkerOK'
  <2>1. r.at \in Hands => r.pair \in Pairs
    BY DEF WorkerOK
  <2>2. ASSUME NEW v \in Workers
        PROVE  /\ worker'[v].at \in Hands => worker'[v].pair \in Pairs
               /\ worker'[v].at = "probe" => worker'[v].timeout >= 20
               /\ worker'[v].at = "report" =>
                    /\ worker'[v].code = "success" => worker'[v].pair \in Open
                    /\ Sure(worker[v].pair)' => worker'[v].code = "success"
    <3>1. CASE v = w
      BY <1>0, <2>1, <3>1
    <3>2. CASE v # w
      BY <1>0, <1>3, <3>2 DEF WorkerOK
    <3>. QED  BY <3>1, <3>2
  <2>. QED  BY <2>2 DEF WorkerOK
<1>5. Busy' = Busy
  BY <1>0 DEF Busy, Hands
<1>6. \A v \in Busy : worker'[v].pair = worker[v].pair
  BY <1>0 DEF Busy, Hands
<1>7. DealtOK'
  BY <1>3, <1>5, <1>6 DEF DealtOK, Dealt, plan
<1>8. Accounted'
  <2>1. Held \in Int /\ Cardinality(Requested) \in Int /\ main.left \in Nat
    BY Counts
  <2>2. Requested' = Requested /\ Held' = Held
    BY <1>5 DEF Requested, Held
  <2> HIDE DEF Requested, Held
  <2>. QED  BY <1>1, <2>1, <2>2, Accounts
<1>. QED  BY <1>1, <1>2, <1>4, <1>7, <1>8

LEMMA StartKeeps == ASSUME ScanInv, NEW w \in Workers, Start(w) PROVE ScanInv'
<1> DEFINE t == Policy!ComputeTimeout(worker[w].pair[1])
           r == [worker[w] EXCEPT !.at = "probe", !.timeout = t]
<1>1. worker[w].at = "start" /\ worker[w].pair \in Pairs
  BY DEF Start, ScanInv, WorkerOK, Hands
<1>2. t \in Int /\ t >= 20
  BY <1>1, TimeoutLeast DEF ScanInv, Pairs
<1> HIDE DEF t
<1>3. r \in [at : Hands \cup {"recv", "gone"}, pair : Pairs \cup {NoPair},
             timeout : Int, code : Policy!Codes]
      /\ r.at = "probe" /\ r.pair = worker[w].pair /\ r.timeout = t
  BY <1>2 DEF ScanInv, ScanType, Hands
<1>4. worker' = [worker EXCEPT ![w] = r]
  BY DEF Start, t, ScanInv, ScanType
<1> HIDE DEF r
<1>5. PolicyProofs!IInv'
  BY PolicyStays DEF Start, ScanInv
<1>. QED  BY <1>1, <1>2, <1>3, <1>4, <1>5, WorkerGoes DEF Start, Hands

LEMMA ProbeKeeps == ASSUME ScanInv, NEW w \in Workers, Probe(w) PROVE ScanInv'
<1>0. PICK pair : pair = worker[w].pair
  OBVIOUS
<1>1. worker[w].at = "probe" /\ pair \in Pairs /\ pair[1] \in Hosts
      /\ worker[w].timeout \in Int /\ worker[w].timeout >= 20
  BY <1>0 DEF Probe, ScanInv, ScanType, WorkerOK, Hands, Pairs
<1>d. PICK d \in Delays[pair[1]] : \E code \in Findings(pair, d, worker[w].timeout) :
        /\ Policy!Elapsed(pair[1], d, code)
        /\ worker' = [worker EXCEPT ![w].at = "report", ![w].code = code]
        /\ failed' = IF code = "failed" THEN failed \cup {pair} ELSE failed
  BY <1>0 DEF Probe
<1>2. PICK code \in Findings(pair, d, worker[w].timeout) :
        /\ Policy!Elapsed(pair[1], d, code)
        /\ worker' = [worker EXCEPT ![w].at = "report", ![w].code = code]
        /\ failed' = IF code = "failed" THEN failed \cup {pair} ELSE failed
  BY <1>d
<1>3. code \in Policy!Codes
  BY DEF Findings, Policy!Codes
<1>4. PolicyProofs!IInv'
  BY <1>1, <1>2, <1>3, PolicyElapses DEF ScanInv
<1>5. code = "success" => pair \in Open
  BY DEF Findings
<1>6. Sure(pair)' => code = "success"
  <2>1. d \in Int /\ Slowest[pair[1]] \in Int /\ d <= Slowest[pair[1]]
    BY <1>1, PortScanAssumption
  <2>2. Sure(pair)' => d < worker[w].timeout /\ code # "failed" /\ pair \in Open
    BY <1>1, <1>2, <2>1 DEF Sure
  <2>. QED  BY <1>1, <2>1, <2>2 DEF Findings
<1> DEFINE r == [worker[w] EXCEPT !.at = "report", !.code = code]
<1>7. r \in [at : Hands \cup {"recv", "gone"}, pair : Pairs \cup {NoPair},
             timeout : Int, code : Policy!Codes]
      /\ r.at = "report" /\ r.pair = pair /\ r.code = code
  BY <1>0, <1>3 DEF ScanInv, ScanType, Hands
<1>8. worker' = [worker EXCEPT ![w] = r]
  BY <1>2 DEF ScanInv, ScanType
<1>9. failed \subseteq failed' /\ UNCHANGED <<plan, offset, feeder, main, ret, over>>
  BY <1>2 DEF Probe
<1> HIDE DEF r
<1>. QED  BY <1>0, <1>1, <1>4, <1>5, <1>6, <1>7, <1>8, <1>9, WorkerGoes DEF Hands

LEMMA PillKeeps == ASSUME ScanInv, NEW w \in Workers, Pill(w) PROVE ScanInv'
<1> DEFINE r == [worker[w] EXCEPT !.at = "gone"]
           f == [feeder EXCEPT !.pills = @ + 1]
<1> USE DEF ScanInv
<1>1. worker[w].at = "recv" /\ UNCHANGED <<plan, offset, main, ret, over, failed, pvars>>
  BY DEF Pill
<1>2. worker' = [worker EXCEPT ![w] = r] /\ r.at = "gone"
      /\ r \in [at : Hands \cup {"recv", "gone"}, pair : Pairs \cup {NoPair},
                timeout : Int, code : Policy!Codes]
  BY DEF Pill, ScanType, Hands
<1>3. feeder' = f /\ f.at = feeder.at /\ f.pair = feeder.pair
      /\ f \in [at : {"pick", "send", "pill"}, hostoff : Nat, pair : Pairs \cup {NoPair},
                pills : Nat]
  BY DEF Pill, ScanType
<1> HIDE DEF r, f
<1>4. worker'[w] = r /\ \A v \in Workers : v # w => worker'[v] = worker[v]
  BY <1>2 DEF ScanType
<1>5. PlanOK' /\ Sum' = Sum /\ PolicyProofs!IInv'
  BY <1>1, PlanStays, PolicyStays
<1>6. ScanType' /\ FeederOK' /\ ReturnOK' /\ MainOK'
  BY <1>1, <1>2, <1>3, <1>5 DEF ScanType, FeederOK, ReturnOK, MainOK
<1>7. Busy' = Busy /\ \A v \in Busy : worker'[v] = worker[v]
  BY <1>1, <1>2, <1>4 DEF Busy
<1>8. WorkerOK'
  BY <1>1, <1>2, <1>4 DEF WorkerOK, Sure, Hands
<1>9. DealtOK'
  BY <1>1, <1>3, <1>7 DEF DealtOK, Dealt, Sure, plan
<1>10. Accounted'
  <2>1. Held \in Int /\ Cardinality(Requested) \in Int /\ main.left \in Nat
    BY Counts
  <2>2. Requested' = Requested /\ Held' = Held
    BY <1>1, <1>3, <1>7 DEF Requested, Held
  <2> HIDE DEF Requested, Held
  <2>. QED  BY <1>1, <1>5, <2>1, <2>2, Accounts
<1>. QED  BY <1>5, <1>6, <1>8, <1>9, <1>10

LEMMA HandKeeps == ASSUME ScanInv, NEW w \in Workers, Hand(w) PROVE ScanInv'
<1> DEFINE r == [worker[w] EXCEPT !.at = "start", !.pair = feeder.pair]
           f == [feeder EXCEPT !.at = "pick", !.pair = NoPair]
<1> USE DEF ScanInv
<1>1. /\ worker[w].at = "recv" /\ feeder.at = "send" /\ feeder.pair \in Pairs
      /\ UNCHANGED <<plan, offset, main, ret, over, failed, pvars>>
  BY DEF Hand, FeederOK
<1>2. worker' = [worker EXCEPT ![w] = r] /\ r.at = "start" /\ r.pair = feeder.pair
      /\ r \in [at : Hands \cup {"recv", "gone"}, pair : Pairs \cup {NoPair},
                timeout : Int, code : Policy!Codes]
  BY <1>1 DEF Hand, ScanType, Hands
<1>3. feeder' = f /\ f.at = "pick"
      /\ f \in [at : {"pick", "send", "pill"}, hostoff : Nat, pair : Pairs \cup {NoPair},
                pills : Nat]
  BY DEF Hand, ScanType
<1> HIDE DEF r, f
<1>4. worker'[w] = r /\ \A v \in Workers : v # w => worker'[v] = worker[v]
  BY <1>2 DEF ScanType
<1>5. PlanOK' /\ Sum' = Sum /\ PolicyProofs!IInv'
  BY <1>1, PlanStays, PolicyStays
<1>6. ScanType' /\ FeederOK' /\ ReturnOK' /\ MainOK'
  BY <1>1, <1>2, <1>3, <1>5 DEF ScanType, FeederOK, ReturnOK, MainOK
<1>7. w \notin Busy /\ Busy' = Busy \cup {w} /\ \A v \in Busy : worker'[v] = worker[v]
  BY <1>1, <1>2, <1>4 DEF Busy
<1>8. WorkerOK'
  BY <1>1, <1>2, <1>4 DEF WorkerOK, Sure, Hands
<1>9. DealtOK'
  <2>1. ASSUME NEW p, Dealt(p) PROVE Dealt(p)'
    BY <1>1, <1>2, <1>4, <1>7, <2>1 DEF Dealt, Sure
  <2>. QED  BY <1>1, <2>1 DEF DealtOK, plan
<1>10. Accounted'
  <2>1. Held' = Held
    <3>1. Cardinality(Busy)' = Cardinality(Busy) + 1 /\ Cardinality(Busy) \in Nat
      BY <1>7, OneBusyMore, BusyFinite
    <3>. QED  BY <1>1, <1>3, <3>1 DEF Held
  <2>2. Held \in Int /\ Cardinality(Requested) \in Int /\ main.left \in Nat
    BY Counts
  <2>3. Requested' = Requested
    BY <1>1 DEF Requested
  <2> HIDE DEF Requested, Held
  <2>. QED  BY <1>1, <1>5, <2>1, <2>2, <2>3, Accounts
<1>. QED  BY <1>5, <1>6, <1>8, <1>9, <1>10

LEMMA ReportKeeps == ASSUME ScanInv, NEW w \in Workers, Report(w) PROVE ScanInv'
<1> DEFINE r == [worker[w] EXCEPT !.at = "recv", !.pair = NoPair]
<1> USE DEF ScanInv
<1>1. /\ worker[w].at = "report" /\ main.at = "recv" /\ main.left > 0 /\ main.left \in Nat
      /\ UNCHANGED <<plan, offset, feeder, over, failed, pvars>>
  BY DEF Report, ScanType
<1>2. worker' = [worker EXCEPT ![w] = r] /\ r.at = "recv"
      /\ r \in [at : Hands \cup {"recv", "gone"}, pair : Pairs \cup {NoPair},
                timeout : Int, code : Policy!Codes]
  BY DEF Report, ScanType, Hands
<1> HIDE DEF r
<1>3. worker'[w] = r /\ \A v \in Workers : v # w => worker'[v] = worker[v]
  BY <1>2 DEF ScanType
<1>4. PlanOK' /\ Sum' = Sum /\ PolicyProofs!IInv'
  BY <1>1, PlanStays, PolicyStays
<1>5. MainOK' /\ main'.left = main.left - 1 /\ main'.at # "returned"
  <2>1. \/ main' = [main EXCEPT !.left = @ - 1, !.at = "live", !.pair = worker[w].pair]
        \/ main' = [main EXCEPT !.left = @ - 1]
    BY DEF Report
  <2>. QED  BY <1>1, <2>1 DEF MainOK
<1>6. /\ ret' \subseteq Open /\ ret \subseteq ret'
      /\ Sure(worker[w].pair) => worker[w].pair \in ret'
  BY <1>1 DEF Report, WorkerOK, ReturnOK
<1>7. ScanType'
  BY <1>1, <1>2, <1>5 DEF ScanType
<1>8. FeederOK' /\ ReturnOK'
  BY <1>1, <1>4, <1>5, <1>6 DEF FeederOK, ReturnOK
<1>9. w \in Busy /\ Busy' = Busy \ {w}
  BY <1>1, <1>2, <1>3 DEF Busy
<1>10. WorkerOK'
  BY <1>1, <1>2, <1>3 DEF WorkerOK, Sure, Hands
<1>11. DealtOK'
  <2>1. ASSUME NEW p, Dealt(p) PROVE Dealt(p)'
    <3>1. CASE feeder.at = "send" /\ feeder.pair = p
      BY <1>1, <3>1 DEF Dealt
    <3>2. CASE Sure(p) => p \in ret
      BY <1>1, <1>6, <3>2 DEF Dealt, Sure
    <3>3. ASSUME NEW v \in Busy, worker[v].pair = p PROVE Dealt(p)'
      <4>1. CASE v = w
        BY <1>1, <1>6, <3>3, <4>1 DEF Dealt, Sure
      <4>2. CASE v # w
        BY <1>3, <1>9, <3>3, <4>2 DEF Dealt, Busy
      <4>. QED  BY <4>1, <4>2
    <3>. QED  BY <2>1, <3>1, <3>2, <3>3 DEF Dealt
  <2>. QED  BY <1>1, <2>1 DEF DealtOK, plan
<1>12. Accounted'
  <2>1. Held' = Held - 1
    <3>1. Cardinality(Busy)' = Cardinality(Busy) - 1 /\ Cardinality(Busy) \in Nat
      BY <1>9, OneBusyLess, BusyFinite
    <3>. QED  BY <1>1, <3>1 DEF Held
  <2>2. Held \in Int /\ Cardinality(Requested) \in Int /\ main.left \in Nat
    BY Counts
  <2>3. Requested' = Requested
    BY <1>1 DEF Requested
  <2> HIDE DEF Requested, Held
  <2>. QED  BY <1>1, <1>4, <1>5, <2>1, <2>2, <2>3, Accounts
<1>. QED  BY <1>4, <1>5, <1>7, <1>8, <1>10, <1>11, <1>12

LEMMA ScanStepKeeps == ScanInv /\ [Next]_vars => ScanInv'
<1> SUFFICES ASSUME ScanInv, [Next]_vars PROVE ScanInv'
  OBVIOUS
<1>1. ASSUME NEW w \in Workers, Work(w) PROVE ScanInv'
  BY <1>1, HandKeeps, PillKeeps, StartKeeps, ProbeKeeps, ReportKeeps DEF Work
<1>2. CASE SendLive
  BY <1>2, RestKeeps DEF SendLive, ScanInv, MainOK
<1>3. CASE Return
  BY <1>3, RestKeeps DEF Return, ScanInv, MainOK
<1>4. CASE Store
  BY <1>4, RestKeeps DEF Store, Collect, Timer, Exit, ScanInv, MainOK
<1>5. CASE Ended \/ UNCHANGED vars
  BY <1>5, RestKeeps DEF Ended, vars, plan, pvars, ScanInv, MainOK
<1>. QED  BY <1>1, <1>2, <1>3, <1>4, <1>5, PickKeeps DEF Next, Scan

-----------------------------------------------------------------------------
(* The result *)

(* Numbers that the width of a port does not change.                       *)
LEMMA Fits == ASSUME NEW n \in Nat \ {0}, NEW x \in 0..(n - 1) PROVE x % n = x
OBVIOUS

LEMMA PairOf ==
  ASSUME NEW A, NEW B, NEW x \in A \X B
  PROVE  x = <<x[1], x[2]>> /\ x[1] \in A /\ x[2] \in B
OBVIOUS

(* If the counts are right, the mask is as long as they say.               *)
LEMMA CountsRight ==
  ASSUME PlanOK, Countable
  PROVE  ranges = DOMAIN arg /\ Cardinality(Slots) = Sum
<1>1. ranges = DOMAIN arg
  BY DEF ranges, ParsePortRanges, Countable
<1>2. ASSUME NEW i \in ranges
      PROVE  /\ arg[i].start \in Nat /\ arg[i].stop \in Nat
             /\ arg[i].start <= arg[i].stop /\ arg[i].stop \in Ports
             /\ Count(arg[i]) = arg[i].stop - arg[i].start + 1
  <2>1. /\ arg[i].start \in Ports /\ arg[i].stop \in Ports /\ arg[i].start <= arg[i].stop
        /\ arg[i].stop - arg[i].start + 1 < PortLimit
    <3>1. arg \in Seq([dash : BOOLEAN, start : Ports, stop : Ports])
      BY Finite DEF PlanOK
    <3>2. i \in 1..Len(arg)
      BY <1>1, <1>2, <3>1
    <3>3. arg[i] \in [dash : BOOLEAN, start : Ports, stop : Ports]
      BY <3>1, <3>2, ElementOfSeq
    <3>. QED  BY <1>1, <1>2, <3>3 DEF Countable
  <2>2. PortLimit \in Nat \ {0} /\ arg[i].start \in Nat /\ arg[i].stop \in Nat
    BY <2>1, Numbers, PortScanAssumption
  <2> DEFINE x == arg[i].stop - arg[i].start
  <2>3. x \in 0..(PortLimit - 1) /\ x + 1 \in 0..(PortLimit - 1)
    BY <2>1, <2>2
  <2> HIDE DEF x
  <2>4. x % PortLimit = x /\ (x + 1) % PortLimit = x + 1
    BY <2>2, <2>3, Fits
  <2>. QED  BY <2>1, <2>2, <2>4 DEF Count, x
<1> DEFINE f == [s \in Slots |-> <<s[1], s[2] - arg[s[1]].start>>]
<1>3. f \in [Slots -> Counted]
  <2>1. ASSUME NEW s \in Slots PROVE <<s[1], s[2] - arg[s[1]].start>> \in Counted
    <3>1. /\ s[1] \in ranges /\ s[2] \in Ports /\ s[2] \in Nat
          /\ arg[s[1]].start <= s[2] /\ s[2] <= arg[s[1]].stop
      BY Numbers DEF Slots
    <3>2. s[2] - arg[s[1]].start \in Ports
      BY <1>2, <3>1, PortScanAssumption DEF Ports
    <3>. QED  BY <1>2, <3>1, <3>2 DEF Counted
  <2>. QED  BY <2>1
<1>4. ASSUME NEW s \in Slots, NEW t \in Slots, f[s] = f[t] PROVE s = t
  <2>1. /\ s = <<s[1], s[2]>> /\ t = <<t[1], t[2]>>
        /\ s[1] \in ranges /\ s[2] \in Nat /\ t[2] \in Nat
    <3>1. s \in ranges \X Ports /\ t \in ranges \X Ports
      BY DEF Slots
    <3>. QED  BY <3>1, Numbers, PairOf, ZenonT(30)
  <2>2. s[1] = t[1] /\ s[2] - arg[s[1]].start = t[2] - arg[t[1]].start
    BY <1>4
  <2>3. s[2] = t[2]
    BY <1>2, <2>1, <2>2
  <2>. QED  BY <2>1, <2>2, <2>3
<1>5. ASSUME NEW c \in Counted PROVE \E s \in Slots : f[s] = c
  <2>1. c = <<c[1], c[2]>> /\ c[1] \in ranges /\ c[2] \in Nat /\ c[2] < Count(arg[c[1]])
    <3>1. c \in ranges \X Ports /\ c[2] < Count(arg[c[1]])
      BY DEF Counted
    <3>. QED  BY <3>1, Numbers, PairOf
  <2> DEFINE s == <<c[1], c[2] + arg[c[1]].start>>
  <2>2. s \in Slots
    <3>1. c[2] + arg[c[1]].start \in Ports
      BY <1>2, <2>1, PortScanAssumption DEF Ports
    <3>. QED  BY <1>2, <2>1, <3>1 DEF Slots
  <2>3. s[1] = c[1] /\ s[2] - arg[s[1]].start = c[2]
    BY <1>2, <2>1
  <2>. QED  BY <2>1, <2>2, <2>3
<1>6. f \in Bijection(Slots, Counted)
  BY <1>3, <1>4, <1>5 DEF Bijection, Injection, Surjection, IsInjective
<1>7. Cardinality(Counted) = Cardinality(Slots)
  BY <1>6, Finite, FS_Bijection DEF ExistsBijection, PlanOK
<1>. QED  BY <1>1, <1>7 DEF Sum

(* When PortScan has returned, all requests had been made and reported.    *)
LEMMA AllRequested ==
  ASSUME ScanInv, main.at = "returned"
  PROVE  Busy = {} /\ feeder.at # "send" /\ \A h \in Hosts : offset[h] = Sum
<1> DEFINE all == Hosts \X (1..Sum)
<1>1. Sum \in Nat /\ Total \in Nat
  BY Finite DEF ScanInv, PlanOK
<1>2. IsFiniteSet(1..Sum) /\ Cardinality(1..Sum) = Sum
  BY <1>1, FS_Interval
<1>3. IsFiniteSet(all) /\ Cardinality(all) = Total
  <2>1. Cardinality(all) = Cardinality(Hosts) * Sum
    BY <1>2, Numbers, FS_Product, ZenonT(30)
  <2>2. IsFiniteSet(all)
    BY <1>2, Numbers, FS_Product
  <2>3. Cardinality(Hosts) * Sum = Sum * Cardinality(Hosts)
    BY <1>1, Numbers
  <2>. QED  BY <2>1, <2>2, <2>3 DEF Total
<1>4. Requested \subseteq all /\ IsFiniteSet(Requested) /\ Cardinality(Requested) \in Nat
  BY <1>1, RequestedFinite DEF Requested, ScanInv, ScanType, FeederOK
<1>5. Cardinality(Requested) = Total + Held
  BY <1>1 DEF ScanInv, Accounted, ReturnOK, Held
<1>6. Cardinality(Requested) <= Total
  BY <1>3, <1>4, FS_Subset
<1>7. Held = 0 /\ Cardinality(Requested) = Total
  BY <1>1, <1>5, <1>6, BusyFinite DEF Held
<1>8. Requested = all
  BY <1>3, <1>4, <1>7, FS_Subset
<1>9. Cardinality(Busy) = 0 /\ feeder.at # "send"
  BY <1>7, BusyFinite DEF Held
<1>10. ASSUME NEW h \in Hosts, offset[h] # Sum PROVE FALSE
  <2>1. offset[h] \in Nat /\ offset[h] < Sum
    BY <1>1, <1>10 DEF ScanInv, ScanType, FeederOK
  <2>2. <<h, Sum>> \in all
    BY <1>1, <2>1
  <2>3. <<h, Sum>> \notin Requested
    BY <1>1, <2>1 DEF Requested
  <2>. QED  BY <1>8, <2>2, <2>3
<1>. QED  BY <1>9, <1>10, BusyFinite, FS_EmptySet

LEMMA FindsAll == ScanInv => FoundAll
<1> SUFFICES ASSUME ScanInv, main.at = "returned", Countable,
                    NEW pair \in Open \ failed, Slowest[pair[1]] < 20,
                    NEW i \in DOMAIN arg, arg[i].start <= pair[2], pair[2] <= arg[i].stop
             PROVE  pair \in ret
  BY DEF FoundAll, ScanInv, ReturnOK
<1>1. pair = <<pair[1], pair[2]>> /\ pair[1] \in Hosts /\ pair[2] \in Ports
  BY PortScanAssumption DEF Pairs
<1>2. <<i, pair[2]>> \in Slots
  BY <1>1, CountsRight DEF Slots, ScanInv
<1>3. PICK k \in 1..Cardinality(Slots) : mask[k] = pair[2]
  BY <1>2, MaskFacts DEF ScanInv
<1>4. k \in 1..offset[pair[1]]
  BY <1>1, <1>3, CountsRight, AllRequested DEF ScanInv
<1>5. Dealt(pair)
  BY <1>1, <1>3, <1>4 DEF ScanInv, DealtOK
<1>. QED  BY <1>5, AllRequested DEF Dealt, Sure

(* Requests and results are balanced, for any number of workers and hosts  *)
(* and any argument.                                                       *)
THEOREM AlwaysAccounted == Spec => []Accounted
<1>1. ScanInv => Accounted
  BY DEF ScanInv
<1>. QED  BY <1>1, ScanInitInv, ScanStepKeeps, PTL DEF Spec

(* What PortScan returns are open ports, and for an argument whose counts  *)
(* fit, all that answer within 20 ms and whose probe did not fail.         *)
THEOREM AlwaysFoundAll == Spec => []FoundAll
<1>. QED  BY FindsAll, ScanInitInv, ScanStepKeeps, PTL DEF Spec
=============================================================================
