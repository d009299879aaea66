------------------------------ MODULE MCAnswered ------------------------------
(* What must happen, in two small instances of CpuServer for TLC.  A        *)
(* behaviour is of the one that  scene  names: "typed", two handlers of one *)
(* CPU whose user types, and "apart", one handler of two CPUs, whose users  *)
(* need not.                                                                *)
EXTENDS MCCpuServer

VARIABLE scene

sceneVars == <<scene, vars>>

InScene ==
  /\ \A h \in Handlers : hpc[h] # "idle" =>
       IF scene = "typed" THEN req[h].name = n1 ELSE h = h1 /\ req[h].op # "step"
  /\ scene = "typed" => inbox[n2] = "none"

SceneInit == Init /\ scene \in {"typed", "apart"}
SceneNext == Next /\ UNCHANGED scene /\ InScene'

(* The strong part of CpuServer's Fairness, and in "typed" UsersType, for   *)
(* the handlers and CPUs of each scene.  The number of such conditions is   *)
(* what TLC's time depends on most, and a behaviour has one scene, so       *)
(* Either states a condition of "typed" and one of "apart" as one.          *)
Taken(n, h) == TakeQuick(n, h) \/ TakeStep(n, h) \/ TakeLoad(n, h)
Either(typed, apart) == (scene = "typed" /\ typed) \/ (scene = "apart" /\ apart)

StrongInScenes ==
  /\ SF_vars(ControllerTake(h1)) /\ SF_vars(Taken(n1, h1)) /\ SF_vars(RedisTake(n1))
  /\ SF_vars(Either(ControllerTake(h2), Taken(n2, h1)))
  /\ SF_vars(Either(Taken(n1, h2), RedisTake(n2)))
  /\ SF_vars(Either(Type(n1, "text"), FALSE))

SceneSpec == SceneInit /\ [][SceneNext]_sceneVars /\ WeakFairness /\ StrongInScenes

(* If its user types, the requests of a CPU are answered and its program,   *)
(* when it has been given input, goes on.                                   *)
TypedAnswered == scene = "typed" => EveryRequestAnswered
TypedWakes    == scene = "typed" => SleepersWake
===============================================================================
