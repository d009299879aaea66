--------------------------- MODULE ScanPolicyProofs ---------------------------
(***************************************************************************)
(* What the timeouts of a port scan can be, for any addresses and delays.  *)
(* The inductive invariant is AveragesInRange itself: an average that has  *)
(* had a sample has its final weight and scale and lies between the least  *)
(* and the greatest sample, so that Add is the linear formula Later, which *)
(* preserves both bounds although it rounds down.                          *)
(***************************************************************************)
EXTENDS ScanPolicy, TLAPS

(* The powers of two that the averages use.                                *)
LEMMA Logarithms ==
  Pow2(3) = 8 /\ Pow2(10) = 1024 /\ Ilogb(8) = 3 /\ Ilogb(1024) = 10
<1>1. \A k \in 0..11 : Pow2(k) = Powers[k + 1]
  BY DEF Pow2
<1>2. /\ Pow2(0) = 1 /\ Pow2(1) = 2 /\ Pow2(2) = 4 /\ Pow2(3) = 8
      /\ Pow2(4) = 16 /\ Pow2(5) = 32 /\ Pow2(6) = 64 /\ Pow2(7) = 128
      /\ Pow2(8) = 256 /\ Pow2(9) = 512 /\ Pow2(10) = 1024 /\ Pow2(11) = 2048
  BY DEF Pow2, Powers
<1>3. ASSUME NEW k \in 0..10
      PROVE  \/ k = 0 /\ k + 1 = 1
             \/ k = 1 /\ k + 1 = 2
             \/ k = 2 /\ k + 1 = 3
             \/ k = 3 /\ k + 1 = 4
             \/ k = 4 /\ k + 1 = 5
             \/ k = 5 /\ k + 1 = 6
             \/ k = 6 /\ k + 1 = 7
             \/ k = 7 /\ k + 1 = 8
             \/ k = 8 /\ k + 1 = 9
             \/ k = 9 /\ k + 1 = 10
             \/ k = 10 /\ k + 1 = 11
  OBVIOUS
<1>4. /\ \A k \in 0..10 : Pow2(k) <= 8 /\ 8 < Pow2(k + 1) <=> k = 3
      /\ \A k \in 0..10 : Pow2(k) <= 1024 /\ 1024 < Pow2(k + 1) <=> k = 10
  BY <1>2, <1>3
<1>5. Ilogb(8) = 3
  BY <1>4 DEF Ilogb
<1>6. Ilogb(1024) = 10
  BY <1>4 DEF Ilogb
<1>. QED  BY <1>2, <1>5, <1>6

(* The first sample of an average sets it to that sample.                  *)
LEMMA FirstSample ==
  ASSUME NEW s \in Nat
  PROVE  Add(NewEwma, s) = [internal |-> 8 * s, weight |-> 10, factor |-> 3]
BY Logarithms DEF Add, First, NewEwma

(* A later one moves it by the 1024th part of the difference, rounded      *)
(* down.                                                                   *)
LEMMA LaterSample ==
  ASSUME NEW low \in Nat \ {0}, NEW high \in Nat, NEW e,
         Within(e, low, high), NEW s \in Nat,
         e = [internal |-> e.internal, weight |-> 10, factor |-> 3]
  PROVE  Add(e, s) = [internal |-> (1023 * e.internal + 8 * s) \div 1024,
                      weight |-> 10, factor |-> 3]
<1>1. e.internal \in Nat \ {0} /\ e.weight = 10 /\ e.factor = 3
  BY DEF Within
<1>2. Later(e, s) = (1023 * e.internal + 8 * s) \div 1024
  <2>1. Later(e, s) = (e.internal * 1024 - e.internal + s * 8) \div 1024
    BY <1>1, Logarithms DEF Later
  <2>2. e.internal * 1024 - e.internal + s * 8 = 1023 * e.internal + 8 * s
    BY <1>1
  <2>. QED  BY <2>1, <2>2
<1>. QED  BY <1>1, <1>2 DEF Add

(* Wider bounds hold too.                                                  *)
LEMMA Widen ==
  ASSUME NEW low \in Nat, NEW high \in Nat, NEW e, Within(e, low, high),
         NEW l \in Nat, NEW h \in Nat, l <= low, high <= h
  PROVE  Within(e, l, h)
BY DEF Within

(* A record of an average, written out.                                    *)
LEMMA EwmaRecord ==
  ASSUME NEW e \in Ewma
  PROVE  e = [internal |-> e.internal, weight |-> e.weight, factor |-> e.factor]
BY DEF Ewma

(* Whether it is the first one or not, a sample between the bounds of an   *)
(* average leaves the average between them.                                *)
LEMMA RangeKept ==
  ASSUME NEW low \in Nat \ {0}, NEW high \in Nat, NEW s \in low..high,
         NEW e \in Ewma, e = NewEwma \/ Within(e, low, high)
  PROVE  Add(e, s) \in Ewma /\ Within(Add(e, s), low, high)
<1>1. CASE e = NewEwma
  <2>1. Add(e, s) = [internal |-> 8 * s, weight |-> 10, factor |-> 3]
    BY <1>1, FirstSample
  <2>. QED  BY <2>1 DEF Within, Ewma
<1>2. CASE Within(e, low, high)
  <2>1. e = [internal |-> e.internal, weight |-> 10, factor |-> 3]
    BY <1>2, EwmaRecord DEF Within
  <2>2. Add(e, s) = [internal |-> (1023 * e.internal + 8 * s) \div 1024,
                     weight |-> 10, factor |-> 3]
    BY <1>2, <2>1, LaterSample
  <2>3. /\ e.internal \in Nat
        /\ 8 * low <= e.internal /\ e.internal <= 8 * high
        /\ low <= s /\ s <= high /\ s \in Nat
    BY <1>2 DEF Within
  <2>4. /\ (1023 * e.internal + 8 * s) \div 1024 \in Nat
        /\ 8 * low <= (1023 * e.internal + 8 * s) \div 1024
        /\ (1023 * e.internal + 8 * s) \div 1024 <= 8 * high
    BY <2>3
  <2>. QED  BY <2>2, <2>4 DEF Within, Ewma
<1>. QED  BY <1>1, <1>2

-----------------------------------------------------------------------------
(* The inductive invariant *)

PolicyType ==
  /\ alltimeout \in Ewma
  /\ Known \subseteq Hosts
  /\ timeouts \in [Known -> Ewma]

IInv == PolicyType /\ AveragesInRange

(* No sample has come yet.                                                 *)
LEMMA InitIInv == Init => IInv
BY DEF Init, IInv, PolicyType, AveragesInRange, Known, NewEwma, Ewma

(* An answer moves the average over all hosts within the bounds of all of  *)
(* their answers.                                                          *)
LEMMA AllStep ==
  ASSUME IInv, NEW k \in Hosts, NEW d \in Delays[k], d # 0
  PROVE  /\ Add(alltimeout, d) \in Ewma
         /\ \E g, h \in Hosts :
              Within(Add(alltimeout, d), AtLeast(1, Fastest[g]), Slowest[h])
<1>1. d \in AtLeast(1, Fastest[k])..Slowest[k]
  <2>1. Fastest[k] \in Nat /\ Slowest[k] \in Nat /\ d \in Fastest[k]..Slowest[k]
    BY ScanPolicyAssumption
  <2>. QED  BY <2>1 DEF AtLeast
<1>2. \A h \in Hosts : /\ AtLeast(1, Fastest[h]) \in Nat \ {0}
                       /\ Slowest[h] \in Nat
  <2>. SUFFICES ASSUME NEW h \in Hosts
                PROVE  /\ AtLeast(1, Fastest[h]) \in Nat \ {0}
                       /\ Slowest[h] \in Nat
    OBVIOUS
  <2>1. Fastest[h] \in Nat /\ Slowest[h] \in Nat
    BY ScanPolicyAssumption
  <2>. QED  BY <2>1 DEF AtLeast
<1>3. CASE alltimeout = NewEwma
  <2>1. /\ Add(alltimeout, d) \in Ewma
        /\ Within(Add(alltimeout, d), AtLeast(1, Fastest[k]), Slowest[k])
    BY <1>1, <1>2, <1>3, RangeKept DEF IInv, PolicyType
  <2>. QED  BY <2>1
<1>4. CASE alltimeout # NewEwma
  <2>1. PICK g, h \in Hosts :
          Within(alltimeout, AtLeast(1, Fastest[g]), Slowest[h])
    BY <1>4 DEF IInv, AveragesInRange
  <2>2. PICK l \in {g, k} : /\ AtLeast(1, Fastest[l]) <= AtLeast(1, Fastest[g])
                            /\ AtLeast(1, Fastest[l]) <= AtLeast(1, Fastest[k])
    BY <1>2
  <2>3. PICK m \in {h, k} : Slowest[h] <= Slowest[m] /\ Slowest[k] <= Slowest[m]
    BY <1>2
  <2>4. l \in Hosts /\ m \in Hosts
    BY <2>2, <2>3
  <2>5. Within(alltimeout, AtLeast(1, Fastest[l]), Slowest[m])
    BY <1>2, <2>1, <2>2, <2>3, <2>4, Widen
  <2>6. d \in AtLeast(1, Fastest[l])..Slowest[m]
    BY <1>1, <1>2, <2>2, <2>3, <2>4
  <2>7. /\ Add(alltimeout, d) \in Ewma
        /\ Within(Add(alltimeout, d), AtLeast(1, Fastest[l]), Slowest[m])
    BY <1>2, <2>4, <2>5, <2>6, RangeKept DEF IInv, PolicyType
  <2>. QED  BY <2>4, <2>7
<1>. QED  BY <1>3, <1>4

(* The average of a host with one answer more.                             *)
Own(h) == IF h \in Known THEN timeouts[h] ELSE NewEwma

(* It moves within the bounds of that host's answers.                      *)
LEMMA OwnStep ==
  ASSUME IInv, NEW h \in Hosts, NEW d \in Delays[h]
  PROVE  /\ Add(Own(h), d + 1) \in Ewma
         /\ Within(Add(Own(h), d + 1), Fastest[h] + 1, Slowest[h] + 1)
<1>1. /\ Fastest[h] + 1 \in Nat \ {0} /\ Slowest[h] + 1 \in Nat
      /\ d + 1 \in (Fastest[h] + 1)..(Slowest[h] + 1)
  BY ScanPolicyAssumption
<1>2. Own(h) \in Ewma
  BY DEF Own, IInv, PolicyType, NewEwma, Ewma
<1>3. Own(h) = NewEwma \/ Within(Own(h), Fastest[h] + 1, Slowest[h] + 1)
  BY DEF Own, IInv, AveragesInRange
<1>. QED  BY <1>1, <1>2, <1>3, RangeKept

(* So a report keeps every average in its range.                           *)
LEMMA NextIInv == IInv /\ [Next]_vars => IInv'
<1>. SUFFICES ASSUME IInv, [Next]_vars PROVE IInv'
  OBVIOUS
<1>1. CASE UNCHANGED vars
  BY <1>1 DEF vars, IInv, PolicyType, AveragesInRange, Known
<1>2. ASSUME NEW k \in Hosts, NEW d \in Delays[k], NEW code \in Codes,
             Elapsed(k, d, code), code \in Answers
      PROVE  IInv'
  <2>1. /\ alltimeout' \in Ewma
        /\ \/ alltimeout' = NewEwma
           \/ \E g, h \in Hosts :
                Within(alltimeout', AtLeast(1, Fastest[g]), Slowest[h])
    <3>1. CASE d # 0
      BY <1>2, <3>1, AllStep DEF Elapsed
    <3>2. CASE d = 0
      BY <1>2, <3>2 DEF Elapsed, IInv, PolicyType, AveragesInRange
    <3>. QED  BY <3>1, <3>2
  <2>2. timeouts' = [g \in Known \cup {k} |->
                       IF g = k THEN Add(Own(k), d + 1) ELSE timeouts[g]]
    BY <1>2 DEF Elapsed, Own
  <2>3. Known' = Known \cup {k} /\ Known' \subseteq Hosts
    BY <2>2 DEF Known, IInv, PolicyType
  <2>4. ASSUME NEW g \in Known'
        PROVE  timeouts'[g] \in Ewma
               /\ Within(timeouts'[g], Fastest[g] + 1, Slowest[g] + 1)
    <3>1. CASE g = k
      BY <2>2, <2>3, <3>1, OwnStep
    <3>2. CASE g # k
      BY <2>2, <2>3, <3>2 DEF IInv, PolicyType, AveragesInRange
    <3>. QED  BY <3>1, <3>2
  <2>5. timeouts' \in [Known' -> Ewma]
    BY <2>2, <2>3, <2>4
  <2>. QED  BY <2>1, <2>3, <2>4, <2>5 DEF IInv, PolicyType, AveragesInRange
<1>3. ASSUME NEW k \in Hosts, NEW d \in Delays[k], NEW code \in Codes,
             Elapsed(k, d, code), code \notin Answers
      PROVE  IInv'
  BY <1>1, <1>3 DEF Elapsed
<1>. QED  BY <1>1, <1>2, <1>3 DEF Next

(* No timeout is below 20 ms.                                              *)
LEMMA TimeoutLeast ==
  ASSUME IInv, NEW h \in Hosts
  PROVE  ComputeTimeout(h) \in Int /\ ComputeTimeout(h) >= 20
<1>1. \A e : e = NewEwma \/ (\E low \in Nat, high \in Nat : Within(e, low, high))
              => Read(e) \in Int
  BY Logarithms DEF NewEwma, Within, Read, Pow2, Powers
<1>2. Read(alltimeout) \in Int /\ (h \in Known => Read(timeouts[h]) \in Int)
  BY <1>1, ScanPolicyAssumption DEF IInv, PolicyType, AveragesInRange, AtLeast
<1>. QED  BY <1>2 DEF ComputeTimeout, AtLeast

-----------------------------------------------------------------------------
(* Theorems *)

(* Every average of the policy stays between its least and its greatest    *)
(* sample for good, and so is initialised once.                            *)
THEOREM AveragesBounded == Spec => []AveragesInRange
<1>1. Spec => []IInv
  BY InitIInv, NextIInv, PTL DEF Spec
<1>2. IInv => AveragesInRange
  BY DEF IInv
<1>. QED  BY <1>1, <1>2, PTL

(* A host that has answered is waited for at least four times as long as   *)
(* its fastest answer.                                                     *)
THEOREM KnownAwaited == Spec => []KnownHostsAwaited
<1>1. Spec => []IInv
  BY InitIInv, NextIInv, PTL DEF Spec
<1>2. IInv => KnownHostsAwaited
  <2>. SUFFICES ASSUME IInv, NEW h \in Known
                PROVE  ComputeTimeout(h) >= AtLeast(20, 4 * (Fastest[h] + 1))
    BY DEF KnownHostsAwaited
  <2>1. h \in Hosts /\ Fastest[h] \in Nat /\ Slowest[h] \in Nat
    BY ScanPolicyAssumption DEF IInv, PolicyType
  <2>2. Within(timeouts[h], Fastest[h] + 1, Slowest[h] + 1)
    BY DEF IInv, AveragesInRange
  <2>3. Read(timeouts[h]) = timeouts[h].internal \div 8
    BY <2>2, Logarithms DEF Within, Read
  <2>4. /\ timeouts[h].internal \in Nat
        /\ timeouts[h].internal >= 8 * (Fastest[h] + 1)
    BY <2>1, <2>2 DEF Within
  <2>5. Read(timeouts[h]) \in Nat /\ Read(timeouts[h]) >= Fastest[h] + 1
    BY <2>1, <2>3, <2>4
  <2>6. ComputeTimeout(h) = AtLeast(20, Read(timeouts[h]) * 4)
    BY DEF ComputeTimeout
  <2>. QED  BY <2>1, <2>5, <2>6 DEF AtLeast
<1>. QED  BY <1>1, <1>2, PTL

(* A sample less than 128 ms above the average of its host does not move   *)
(* it, one further up raises it, one below lowers it.                      *)
THEOREM AveragesFavourFast == Spec => MovesAsRounded
<1>1. Spec => []IInv
  BY InitIInv, NextIInv, PTL DEF Spec
<1>2. ASSUME IInv, NEW h \in Known, NEW d \in Delays[h], Elapsed(h, d, "success")
      PROVE  LET above == 8 * (d + 1) - timeouts[h].internal
                 moved == timeouts'[h].internal - timeouts[h].internal
             IN  (moved > 0 <=> above >= 1024) /\ (moved < 0 <=> above < 0)
  <2>1. h \in Hosts /\ d \in Nat /\ Fastest[h] \in Nat /\ Slowest[h] \in Nat
    BY <1>2, ScanPolicyAssumption DEF IInv, PolicyType
  <2>2. Within(timeouts[h], Fastest[h] + 1, Slowest[h] + 1)
    BY <1>2 DEF IInv, AveragesInRange
  <2>3. timeouts'[h] = Add(timeouts[h], d + 1)
    BY <1>2 DEF Elapsed, Answers
  <2>4. timeouts[h] = [internal |-> timeouts[h].internal,
                       weight |-> 10, factor |-> 3]
    BY <1>2, <2>2, EwmaRecord DEF Within, IInv, PolicyType
  <2>5. timeouts'[h].internal
          = (1023 * timeouts[h].internal + 8 * (d + 1)) \div 1024
    <3>1. /\ Fastest[h] + 1 \in Nat \ {0} /\ Slowest[h] + 1 \in Nat
          /\ d + 1 \in Nat
      BY <2>1
    <3>2. Add(timeouts[h], d + 1)
            = [internal |-> (1023 * timeouts[h].internal + 8 * (d + 1)) \div 1024,
               weight |-> 10, factor |-> 3]
      BY <2>2, <2>4, <3>1, LaterSample
    <3>. QED  BY <2>3, <3>2
  <2>6. timeouts[h].internal \in Nat
    BY <2>1, <2>2 DEF Within
  <2>. QED  BY <2>1, <2>5, <2>6
<1>3. IInv /\ [Next]_vars
        => [\A h \in Known : \A d \in Delays[h] :
              LET above == 8 * (d + 1) - timeouts[h].internal
                  moved == timeouts'[h].internal - timeouts[h].internal
              IN  Elapsed(h, d, "success") => /\ moved > 0 <=> above >= 1024
                                              /\ moved < 0 <=> above < 0]_vars
  BY <1>2
<1>. QED  BY <1>1, <1>3, PTL DEF Spec, MovesAsRounded
=============================================================================
