------------------------------- MODULE PortScan -------------------------------
(***************************************************************************)
(* PortScan of src/src/matasano/util/portscan.go and the part of           *)
(* src/src/matasano/portbot3k/main.go that calls it: a feeder goroutine    *)
(* hands requests to a fixed number of workers, the workers probe, report  *)
(* to the policy and send results, the main goroutine collects them and    *)
(* passes positives on, and a collector stores these in batches.           *)
(*                                                                         *)
(* Hosts are distinct addresses, ports numbers of a smaller width than 16  *)
(* bits.  ProbeSquelch is left out: no probe returns it.                   *)
(***************************************************************************)
EXTENDS Integers, Sequences, FiniteSets, Functions

CONSTANTS
  Hosts, Delays, Fastest, Slowest,   \* see ScanPolicy
  PortLimit,     (* ports and counts are numbers modulo this (uint16)        *)
  Arguments,     (* the lists of port ranges to choose from                  *)
  Open,          (* the pairs <<host, port>> that accept a connection        *)
  Workers,       (* as many as MaxInFlight                                   *)
  Live,          (* the policy has a channel for positives                   *)
  LiveCap,       (* its capacity                                             *)
  SocketsFail    (* the system calls of a probe may fail                     *)

Ports == 0..(PortLimit - 1)
Pairs == Hosts \X Ports

ASSUME PortScanAssumption ==
  /\ IsFiniteSet(Hosts) /\ IsFiniteSet(Workers) /\ Workers # {}
  /\ PortLimit \in Nat \ {0} /\ LiveCap \in Nat \ {0}
  /\ \A a \in Arguments : a \in Seq([dash : BOOLEAN, start : Ports, stop : Ports])
  /\ Open \subseteq Pairs
  /\ Fastest \in [Hosts -> Nat] /\ Slowest \in [Hosts -> Nat]
  /\ \A h \in Hosts : Delays[h] \subseteq Fastest[h]..Slowest[h]
  /\ Live \in BOOLEAN /\ SocketsFail \in BOOLEAN

VARIABLES
  arg,        (* the argument of the program                                 *)
  mask,       (* random_port_mask                                            *)
  perm,       (* hostperm, applied to the addresses                          *)
  offset,     (* how many ports of each host have been requested             *)
  feeder,     (* the goroutine that makes requests                           *)
  worker,     (* the goroutines that probe                                   *)
  main,       (* the goroutine of PortScan                                   *)
  ret,        (* the positives it will return                                *)
  live,       (* the channel LiveResults                                     *)
  batch,      (* the collector's rows not yet stored                         *)
  saved,      (* rows of the table                                           *)
  lost,       (* rows whose insert failed                                    *)
  over,       (* "exit", "panic" or "no": how the process ended              *)
  failed,     (* history: the pairs whose probe failed for a local reason    *)
  alltimeout, timeouts

Policy == INSTANCE ScanPolicy

plan  == <<arg, mask, perm>>
pvars == <<alltimeout, timeouts>>
store == <<batch, saved, lost>>
vars  == <<arg, mask, perm, offset, feeder, worker, main, ret, live, batch,
           saved, lost, over, failed, alltimeout, timeouts>>

-----------------------------------------------------------------------------
(* Port ranges *)

(* The places of those that are kept.  A number without a dash is parsed   *)
(* as a signed one: the upper half of the ports is rejected in this form.  *)
ParsePortRanges(a) == {i \in DOMAIN a : a[i].dash \/ a[i].start < PortLimit \div 2}

ranges == ParsePortRanges(arg)

(* Mutant: the last port of a range is not counted.                        *)
CountShort(r) == (r.stop - r.start) % PortLimit

(* ParsePortRanges computes the count in sixteen bits, so that the range   *)
(* of all ports has none and a reversed one has nearly as many.            *)
Count(r) == (((r.stop - r.start) % PortLimit) + 1) % PortLimit

(* The sum of the counts: a range has a number for each below its count.   *)
Counted == {s \in ranges \X Ports : s[2] < Count(arg[s[1]])}
Sum     == Cardinality(Counted)

(* The ports that Randomizer lists, each tagged with its range.            *)
Slots ==
  {s \in ranges \X Ports : arg[s[1]].start <= s[2] /\ s[2] <= arg[s[1]].stop}

(* Its shuffle can return them in any order.                               *)
Randomizer ==
  {[i \in DOMAIN f |-> f[i][2]] : f \in Bijection(1..Cardinality(Slots), Slots)}

Total == Sum * Cardinality(Hosts)

-----------------------------------------------------------------------------

(* A pair that nobody looks at.                                            *)
NoPair == <<>>

Init ==
  /\ arg \in Arguments
  /\ mask \in Randomizer
  /\ perm \in Bijection(1..Cardinality(Hosts), Hosts)
  /\ offset = [h \in Hosts |-> 0]
  /\ feeder = [at |-> IF Total > 0 THEN "pick" ELSE "pill",
               hostoff |-> 0, pair |-> NoPair, pills |-> 0]
  /\ worker = [w \in Workers |->
                 [at |-> "recv", pair |-> NoPair, timeout |-> 0, code |-> "failed"]]
  /\ main = [at |-> "recv", left |-> Total, pair |-> NoPair]
  /\ ret = {} /\ live = <<>>
  /\ batch = {} /\ saved = {} /\ lost = {}
  /\ over = "no" /\ failed = {}
  /\ Policy!Init

Running == over = "no"

-----------------------------------------------------------------------------
(* The feeder *)

(* One turn of its inner loop, which never ends: when all requests are     *)
(* made it goes on looking at the hosts.  The index into the mask is out   *)
(* of range when the counts exceed the ports.                              *)
Pick ==
  /\ Running /\ feeder.at = "pick"
  /\ LET next == (feeder.hostoff + 1) % Cardinality(Hosts)
         h == perm[next + 1]
     IN  \/ /\ offset[h] >= Sum
            /\ feeder' = [feeder EXCEPT !.hostoff = next]
            /\ UNCHANGED <<offset, over>>
         \/ /\ offset[h] < Sum /\ offset[h] < Len(mask)
            /\ feeder' = [feeder EXCEPT !.hostoff = next, !.at = "send",
                                        !.pair = <<h, mask[offset[h] + 1]>>]
            /\ offset' = [offset EXCEPT ![h] = @ + 1]
            /\ UNCHANGED over
         \/ /\ offset[h] < Sum /\ offset[h] >= Len(mask)
            /\ over' = "panic"
            /\ UNCHANGED <<feeder, offset>>
  /\ UNCHANGED <<plan, worker, main, ret, live, store, failed, pvars>>

(* requests is not buffered: a worker that waits gets the request.         *)
Hand(w) ==
  /\ Running /\ feeder.at = "send" /\ worker[w].at = "recv"
  /\ feeder' = [feeder EXCEPT !.at = "pick", !.pair = NoPair]
  /\ worker' = [worker EXCEPT ![w].at = "start", ![w].pair = feeder.pair]
  /\ UNCHANGED <<plan, offset, main, ret, live, store, over, failed, pvars>>

(* With nothing to scan, one request without an address for each worker.   *)
Pill(w) ==
  /\ Running /\ feeder.at = "pill" /\ worker[w].at = "recv"
  /\ feeder.pills < Cardinality(Workers)
  /\ feeder' = [feeder EXCEPT !.pills = @ + 1]
  /\ worker' = [worker EXCEPT ![w].at = "gone"]
  /\ UNCHANGED <<plan, offset, main, ret, live, store, over, failed, pvars>>

-----------------------------------------------------------------------------
(* A worker *)

Start(w) ==
  /\ Running /\ worker[w].at = "start"
  /\ worker' = [worker EXCEPT
                  ![w].at = "probe",
                  ![w].timeout = Policy!ComputeTimeout(worker[w].pair[1])]
  /\ UNCHANGED <<plan, offset, feeder, main, ret, live, store, over, failed, pvars>>

(* What ProbePortTimeout can find out about a pair whose answer, if there  *)
(* is one, takes d.  A closed port refuses or stays silent.                *)
Findings(pair, d, timeout) ==
  (IF SocketsFail THEN {"failed"} ELSE {})
    \cup (IF d >= timeout THEN {"timeout"}
          ELSE IF pair \in Open THEN {"success"} ELSE {"refused", "timeout"})

Probe(w) ==
  /\ Running /\ worker[w].at = "probe"
  /\ LET pair == worker[w].pair IN
     \E d \in Delays[pair[1]] : \E code \in Findings(pair, d, worker[w].timeout) :
       /\ Policy!Elapsed(pair[1], d, code)
       /\ worker' = [worker EXCEPT ![w].at = "report", ![w].code = code]
       /\ failed' = IF code = "failed" THEN failed \cup {pair} ELSE failed
  /\ UNCHANGED <<plan, offset, feeder, main, ret, live, store, over>>

-----------------------------------------------------------------------------
(* The main goroutine *)

(* Mutant: with a channel, a positive is not counted down.                 *)
ReportUncounted(w) ==
  /\ Running /\ worker[w].at = "report" /\ main.at = "recv" /\ main.left > 0
  /\ worker' = [worker EXCEPT ![w].at = "recv", ![w].pair = NoPair]
  /\ IF worker[w].code = "success"
     THEN /\ ret' = ret \cup {worker[w].pair}
          /\ main' = IF Live THEN [main EXCEPT !.at = "live", !.pair = worker[w].pair]
                     ELSE [main EXCEPT !.left = @ - 1]
     ELSE /\ main' = [main EXCEPT !.left = @ - 1]
          /\ UNCHANGED ret
  /\ UNCHANGED <<plan, offset, feeder, live, store, over, failed, pvars>>

(* results is not buffered either.                                         *)
Report(w) ==
  /\ Running /\ worker[w].at = "report" /\ main.at = "recv" /\ main.left > 0
  /\ worker' = [worker EXCEPT ![w].at = "recv", ![w].pair = NoPair]
  /\ IF worker[w].code = "success"
     THEN /\ ret' = ret \cup {worker[w].pair}
          /\ main' = IF Live THEN [main EXCEPT !.left = @ - 1, !.at = "live",
                                               !.pair = worker[w].pair]
                     ELSE [main EXCEPT !.left = @ - 1]
     ELSE /\ main' = [main EXCEPT !.left = @ - 1]
          /\ UNCHANGED ret
  /\ UNCHANGED <<plan, offset, feeder, live, store, over, failed, pvars>>

SendLive ==
  /\ Running /\ main.at = "live" /\ Len(live) < LiveCap
  /\ live' = Append(live, main.pair)
  /\ main' = [main EXCEPT !.at = "recv", !.pair = NoPair]
  /\ UNCHANGED <<plan, offset, feeder, worker, ret, store, over, failed, pvars>>

(* Without a channel the program then prints the positives and ends; with  *)
(* one, PortScan closes it and the process waits for the collector.        *)
Return ==
  /\ Running /\ main.at = "recv" /\ main.left = 0
  /\ main' = [main EXCEPT !.at = "returned"]
  /\ over' = IF Live THEN over ELSE "exit"
  /\ UNCHANGED <<plan, offset, feeder, worker, ret, live, store, failed, pvars>>

-----------------------------------------------------------------------------
(* The collector of portbot3k *)

Collect ==
  /\ Running /\ live # <<>>
  /\ batch' = batch \cup {Head(live)} /\ live' = Tail(live)
  /\ UNCHANGED <<plan, offset, feeder, worker, main, ret, saved, lost, over, failed, pvars>>

(* The insert may fail, and the batch is emptied nevertheless.             *)
PushQuery ==
  /\ \/ saved' = saved \cup batch /\ UNCHANGED lost
     \/ lost' = lost \cup batch /\ UNCHANGED saved
  /\ batch' = {}

(* Five seconds without a positive.                                        *)
Timer ==
  /\ Running /\ Live /\ batch # {}
  /\ PushQuery
  /\ UNCHANGED <<plan, offset, feeder, worker, main, ret, live, over, failed, pvars>>

(* Mutant: the collector does not drain the closed channel.                *)
ExitAtOnce ==
  /\ Running /\ Live /\ main.at = "returned"
  /\ PushQuery
  /\ over' = "exit"
  /\ UNCHANGED <<plan, offset, feeder, worker, main, ret, live, failed, pvars>>

Exit ==
  /\ Running /\ Live /\ main.at = "returned" /\ live = <<>>
  /\ PushQuery
  /\ over' = "exit"
  /\ UNCHANGED <<plan, offset, feeder, worker, main, ret, live, failed, pvars>>

(* The process has ended.                                                  *)
Ended == ~Running /\ UNCHANGED vars

-----------------------------------------------------------------------------

Scan == Pick \/ SendLive \/ Return
Work(w) == Hand(w) \/ Pill(w) \/ Start(w) \/ Probe(w) \/ Report(w)
Store == Collect \/ Timer \/ Exit

Next == Scan \/ (\E w \in Workers : Work(w)) \/ Store \/ Ended

Spec == Init /\ [][Next]_vars

(* The scheduler runs every goroutine that can run, and lets the feeder's  *)
(* endless loop not keep the others from it.                               *)
FairSpec ==
  /\ Spec
  /\ WF_vars(Pick) /\ WF_vars(SendLive) /\ WF_vars(Return)
  /\ WF_vars(Collect) /\ WF_vars(Exit)
  /\ \A w \in Workers : WF_vars(Work(w))

-----------------------------------------------------------------------------
(* Properties *)

(* The requests made, by host and number, and the hands they can be in.    *)
Requested == UNION {{h} \X (1..offset[h]) : h \in Hosts}
Busy      == {w \in Workers : worker[w].at \in {"start", "probe", "report"}}
Held      == Cardinality(Busy) + (IF feeder.at = "send" THEN 1 ELSE 0)

(* Every request made is in one pair of hands until its result has been    *)
(* counted, and as many are made as results are counted down: so the main  *)
(* goroutine neither waits for a result that cannot come nor returns       *)
(* before the last one came.                                               *)
Accounted == Cardinality(Requested) = Total - main.left + Held

(* Arguments that ParsePortRanges gets right.                              *)
Countable ==
  \A i \in DOMAIN arg :
    /\ arg[i].start <= arg[i].stop /\ arg[i].stop - arg[i].start + 1 < PortLimit
    /\ arg[i].dash \/ arg[i].start < PortLimit \div 2

(* When PortScan returns, its result has open ports only, and every open   *)
(* port of the argument on a host that always answers within 20 ms, unless *)
(* the probe failed for a local reason -- provided that no count wrapped   *)
(* around and no number was rejected, else it may miss ports or die.       *)
FoundAll ==
  main.at = "returned" /\ Countable =>
    /\ ret \subseteq Open
    /\ \A pair \in Open \ failed :
         /\ \E i \in DOMAIN arg : arg[i].start <= pair[2] /\ pair[2] <= arg[i].stop
         /\ Slowest[pair[1]] < 20
         => pair \in ret

(* No positive is dropped between the result and the table: what has been  *)
(* found is stored, lost to a failed insert, or still on its way, and the  *)
(* collector does not exit before all of it has arrived.                   *)
NothingDropped ==
  Live => /\ ret = saved \cup lost \cup batch \cup Range(live)
                     \cup (IF main.at = "live" THEN {main.pair} ELSE {})
          /\ over = "exit" => ret = saved \cup lost

(* A scan comes to an end, although the feeder and the workers do not.     *)
ScanEnds == <>(over # "no")
=============================================================================
