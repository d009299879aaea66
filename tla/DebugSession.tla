---------------------------- MODULE DebugSession ----------------------------
(***************************************************************************)
(* What the service promises to those who debug a CPU: requests that       *)
(* change whether it runs take effect once, between question and answer,   *)
(* and nothing else sets a CPU running.  Waiting for input is invisible.   *)
(***************************************************************************)
CONSTANTS Handlers, Names, Nothing

VARIABLES
  mode,   (* "absent", "Stopped", "Running" or "Fault", of each CPU          *)
  asked,  (* the open request of each handler, or Nothing                    *)
  done    (* the handlers whose request took effect: they answer success      *)

vars == <<mode, asked, done>>

RunOps == {"boot", "continue", "stop", "step"}

Effect(op) == IF op \in {"boot", "continue"} THEN "Running" ELSE "Stopped"

Init ==
  /\ mode = [n \in Names |-> "absent"]
  /\ asked = [h \in Handlers |-> Nothing]
  /\ done = {}

Ask(h, n, op) ==
  /\ asked[h] = Nothing
  /\ asked' = [asked EXCEPT ![h] = [name |-> n, op |-> op]]
  /\ UNCHANGED <<mode, done>>

(* A CPU comes into being, halted, when somebody first names it.           *)
Create(n) ==
  /\ mode[n] = "absent"
  /\ mode' = [mode EXCEPT ![n] = "Stopped"]
  /\ UNCHANGED <<asked, done>>

TakeEffect(h) ==
  /\ asked[h] # Nothing /\ h \notin done
  /\ mode[asked[h].name] # "absent"
  /\ mode' = [mode EXCEPT ![asked[h].name] = Effect(asked[h].op)]
  /\ done' = done \cup {h}
  /\ UNCHANGED asked

(* A request that did not take effect is answered with an error.           *)
Finish(h) ==
  /\ asked[h] # Nothing
  /\ asked' = [asked EXCEPT ![h] = Nothing]
  /\ done' = done \ {h}
  /\ UNCHANGED mode

(* A running CPU stops at a breakpoint or at a fault.                      *)
Halt(n) ==
  /\ mode[n] = "Running"
  /\ \E m \in {"Stopped", "Fault"} : mode' = [mode EXCEPT ![n] = m]
  /\ UNCHANGED <<asked, done>>

Next ==
  \/ \E h \in Handlers, n \in Names, op \in RunOps : Ask(h, n, op)
  \/ \E h \in Handlers : TakeEffect(h) \/ Finish(h)
  \/ \E n \in Names : Create(n) \/ Halt(n)

Spec == Init /\ [][Next]_vars

=============================================================================
