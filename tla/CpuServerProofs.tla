--------------------------- MODULE CpuServerProofs ---------------------------
(***************************************************************************)
(* Invariants of CpuServer for any number of handlers, CPUs and images.    *)
(***************************************************************************)
EXTENDS CpuServer, TLAPS

(* What is left to send after a closure that needs no reply.               *)
LEMMA TodoShrinks ==
  ASSUME NEW t \in Todos, t # <<>>, Head(t) \notin {"load", "poll", "getrange"}
  PROVE  /\ Tail(t) \in Todos
         /\ Tail(t) # <<"poll">> /\ Tail(t) # <<"load">>
<1>1. /\ Tail(<<"set", "log", "credit">>) = <<"log", "credit">>
      /\ Tail(<<"log", "credit">>) = <<"credit">>
      /\ Tail(<<"credit">>) = <<>>
      /\ Tail(<<"set", "log">>) = <<"log">>
      /\ Tail(<<"log">>) = <<>>
      /\ Tail(<<"set">>) = <<>>
  OBVIOUS
<1>2. /\ Head(<<"load">>) = "load" /\ Head(<<"poll">>) = "poll"
      /\ Head(<<"getrange", "set">>) = "getrange"
  OBVIOUS
<1>3. CASE t = <<"set", "log", "credit">>
  BY <1>1, <1>3 DEF Todos
<1>4. CASE t = <<"log", "credit">>
  <2>1. <<"credit">> # <<"poll">> /\ <<"credit">> # <<"load">>
    OBVIOUS
  <2>2. QED
    BY <1>1, <1>4, <2>1 DEF Todos
<1>5. CASE t \in {<<"credit">>, <<"log">>, <<"set">>}
  <2>1. <<>> # <<"poll">> /\ <<>> # <<"load">>
    OBVIOUS
  <2>2. QED
    BY <1>1, <1>5, <2>1, Zenon DEF Todos
<1>6. CASE t = <<"set", "log">>
  BY <1>1, <1>6 DEF Todos
<1>7. QED
  BY <1>2, <1>3, <1>4, <1>5, <1>6 DEF Todos

(* The next thing a loop has to send is a closure of RedisLand, and only   *)
(* one sequence starts with a load, a poll or a getrange each.             *)
LEMMA HeadIsClosure ==
  ASSUME NEW t \in Todos, t # <<>>
  PROVE  /\ Head(t) \in Closures
         /\ Head(t) = "load" <=> t = <<"load">>
         /\ Head(t) = "poll" <=> t = <<"poll">>
         /\ Head(t) = "getrange" <=> t = <<"getrange", "set">>
<1>1. /\ Head(<<"load">>) = "load" /\ Head(<<"poll">>) = "poll"
      /\ Head(<<"getrange", "set">>) = "getrange"
      /\ Head(<<"set", "log", "credit">>) = "set"
      /\ Head(<<"log", "credit">>) = "log"
      /\ Head(<<"credit">>) = "credit"
      /\ Head(<<"set", "log">>) = "set"
      /\ Head(<<"log">>) = "log"
      /\ Head(<<"set">>) = "set"
  OBVIOUS
<1>2. QED
  BY <1>1 DEF Todos, Closures

(* What an instruction sends is one of the hooks' sequences, a poll for    *)
(* input alone, and never a load.                                          *)
LEMMA SendsTodos ==
  ASSUME NEW i
  PROVE  /\ Sends(i) \in Todos
         /\ Sends(i) = <<"poll">> <=> i = "input"
         /\ Sends(i) # <<"load">>
BY DEF Sends, Todos

-----------------------------------------------------------------------------
(* Type correctness *)

(* There is a name for the requests of idle handlers to carry.             *)
LEMMA AnyNameType == AnyName \in Names
BY CpuServerAssumption DEF AnyName

(* Idle requests, new CPUs, an idle RedisLand and fresh loops are well     *)
(* typed.                                                                  *)
LEMMA InitialTypes ==
  /\ NoRequest \in Request /\ NewUserCpu \in Cpu /\ RedisIdle \in RlRec
  /\ LoopAt("none") \in LoopRec /\ LoopAt("top") \in LoopRec /\ LoopAt("exec") \in LoopRec
BY AnyNameType, CpuServerAssumption
   DEF NoRequest, Request, NewUserCpu, Cpu, Images, Breaks, States, RedisIdle, RlRec,
       Closures, LoopAt, LoopRec, Todos

(* The answers to a poll or a getrange leave the loops well typed.         *)
LEMMA LoopFields ==
  ASSUME NEW f \in [Names -> LoopRec], NEW n \in Names, NEW t \in Todos
  PROVE  /\ [f EXCEPT ![n].at = "exec", ![n].todo = t] \in [Names -> LoopRec]
         /\ [f EXCEPT ![n].at = "nap"] \in [Names -> LoopRec]
<1>1. \A g \in [Names -> LoopRec] : [g EXCEPT ![n].todo = t] \in [Names -> LoopRec]
  BY DEF LoopRec
<1>2. [f EXCEPT ![n].at = "exec"] \in [Names -> LoopRec]
  BY DEF LoopRec
<1>3. [f EXCEPT ![n].at = "nap"] \in [Names -> LoopRec]
  BY DEF LoopRec
<1>4. QED
  BY <1>1, <1>2, <1>3

(* A new value of one field of one CPU leaves the CPUs well typed.         *)
LEMMA CpuFields ==
  ASSUME NEW f \in [Names -> Cpu], NEW n \in Names
  PROVE  /\ \A s \in States : [f EXCEPT ![n].state = s] \in [Names -> Cpu]
         /\ \A k \in Keys : [f EXCEPT ![n].image = k] \in [Names -> Cpu]
         /\ \A k \in Images : /\ [f EXCEPT ![n].hash = k] \in [Names -> Cpu]
                             /\ [f EXCEPT ![n].mem = k] \in [Names -> Cpu]
         /\ \A b \in BOOLEAN : [f EXCEPT ![n].whole = b] \in [Names -> Cpu]
<1>1. ASSUME NEW s \in States PROVE [f EXCEPT ![n].state = s] \in [Names -> Cpu]
  BY DEF Cpu
<1>2. ASSUME NEW k \in Keys PROVE [f EXCEPT ![n].image = k] \in [Names -> Cpu]
  BY DEF Cpu
<1>3. ASSUME NEW k \in Images PROVE [f EXCEPT ![n].hash = k] \in [Names -> Cpu]
  BY DEF Cpu
<1>4. ASSUME NEW k \in Images PROVE [f EXCEPT ![n].mem = k] \in [Names -> Cpu]
  BY DEF Cpu
<1>5. ASSUME NEW b \in BOOLEAN PROVE [f EXCEPT ![n].whole = b] \in [Names -> Cpu]
  BY DEF Cpu
<1>6. QED
  BY <1>1, <1>2, <1>3, <1>4, <1>5

(* A reply leaves the handlers well typed, whatever the operation and the  *)
(* outcome.                                                                *)
LEMMA ReplyType ==
  ASSUME TypeOK, NEW h, NEW ok \in BOOLEAN, Reply(h, ok)
  PROVE  /\ hpc' \in [Handlers -> HandlerPcs]
         /\ req' \in [Handlers -> Request]
         /\ res' \in [Handlers -> {"none", "ok", "error", "refused"}]
<1>1. \A p \in HandlerPcs : [hpc EXCEPT ![h] = p] \in [Handlers -> HandlerPcs]
  BY DEF TypeOK
<1>2. [req EXCEPT ![h].stage = 2] \in [Handlers -> Request]
  <2>1. \A r \in Request : [r EXCEPT !.stage = 2] \in Request
    BY DEF Request
  <2>2. QED
    BY <2>1 DEF TypeOK
<1>3. QED
  BY <1>1, <1>2 DEF TypeOK, Reply, Outcome, Goto, HandlerPcs

(* An instruction that begins leaves the CPU and its loop well typed.      *)
LEMMA BeginInsnType ==
  ASSUME TypeOK, NEW n \in Names, NEW d \in Handlers \cup {None}, NEW b \in BOOLEAN,
         BeginInsn(n, d, b)
  PROVE  cpu' \in [Names -> Cpu] /\ loop' \in [Names -> LoopRec]
<1>1. PICK i \in InsnsIn(n), a \in Addrs :
    /\ cpu' = [cpu EXCEPT ![n].pc = a,
                          ![n].state = IF i = "input" THEN "IoSleep" ELSE @]
    /\ loop' = [loop EXCEPT ![n] =
                  [LoopAt("exec") EXCEPT
                     !.todo = Sends(i), !.drv = d, !.halt = b,
                     !.by = IF i = "unlock" THEN cpu[n].mem ELSE NoKey,
                     !.err = (i = "fault"), !.saved = cpu[n].state]]
  BY DEF BeginInsn
<1>2. cpu[n] \in Cpu
  BY DEF TypeOK
<1>3. cpu' \in [Names -> Cpu]
  BY <1>1, <1>2 DEF TypeOK, Cpu, States
<1>4. Sends(i) \in Todos
  BY SendsTodos
<1>5. (i = "fault") \in BOOLEAN
  OBVIOUS
<1>6. [LoopAt("exec") EXCEPT
                     !.todo = Sends(i), !.drv = d, !.halt = b,
                     !.by = IF i = "unlock" THEN cpu[n].mem ELSE NoKey,
                     !.err = (i = "fault"), !.saved = cpu[n].state] \in LoopRec
  BY <1>2, <1>4, <1>5, CpuServerAssumption DEF LoopAt, LoopRec, Cpu, Images
<1>7. QED
  BY <1>1, <1>3, <1>6 DEF TypeOK

(* Every step of the service keeps the types.                              *)
LEMMA TypeStep ==
  ASSUME TypeOK, [Next]_vars PROVE TypeOK'
<1>1. ASSUME NEW h \in Handlers, HandlerStep(h) PROVE TypeOK'
  <2>1. CASE Accept(h)
    BY <2>1 DEF Accept, Requests, Goto, TypeOK, HandlerPcs
  <2>2. CASE ControllerTake(h)
    BY <2>2 DEF ControllerTake, Goto, TypeOK, HandlerPcs
  <2>3. CASE Dispatch(h)
    <3>1. ImageReads(req[h].name) \subseteq Keys
      BY DEF ImageReads, TypeOK, Request, Cpu
    <3>2. \A k \in Keys : [req EXCEPT ![h].key = k] \in [Handlers -> Request]
      BY DEF TypeOK, Request
    <3>3. QED
      BY <2>3, <3>1, <3>2 DEF Dispatch, Outcome, Goto, TypeOK, HandlerPcs
  <2>4. CASE RejectBody(h)
    BY <2>4 DEF RejectBody, Outcome, Goto, TypeOK, HandlerPcs
  <2>5. CASE Enqueue(h)
    BY <2>5 DEF Enqueue, Goto, TypeOK, HandlerPcs
  <2>6. CASE SetImage(h)
    <3>1. [cpu EXCEPT ![req[h].name].image = req[h].key] \in [Names -> Cpu]
      BY CpuFields DEF TypeOK, Request
    <3>2. QED
      BY <2>6, <3>1 DEF SetImage, Outcome, Goto, TypeOK, HandlerPcs
  <2>7. CASE Answer(h)
    BY <2>7, InitialTypes DEF Answer, Goto, TypeOK, HandlerPcs
  <2>8. QED
    BY <1>1, <2>1, <2>2, <2>3, <2>4, <2>5, <2>6, <2>7 DEF HandlerStep
<1>2. CASE ControllerReply
  BY <1>2, InitialTypes DEF ControllerReply, Goto, TypeOK, HandlerPcs
<1>3. ASSUME NEW n \in Names, LoopStep(n) PROVE TypeOK'
  <2>1. ASSUME NEW h \in Handlers, TakeQuick(n, h) PROVE TypeOK'
    <3>1. \A a \in Addrs : Applied(cpu[n], req[h], a) \in Cpu
      <4> DEFINE c == cpu[n]
      <4>1. c \in Cpu /\ req[h] \in Request /\ Entry \in Addrs
        BY CpuServerAssumption DEF TypeOK
      <4>2. [c EXCEPT !.bp[req[h].addr] = req[h].kind] \in Cpu
        BY <4>1 DEF Cpu, Request
      <4>3. \A x \in Addrs : [c EXCEPT !.pc = x] \in Cpu
        BY <4>1 DEF Cpu
      <4>4. [c EXCEPT !.state = "Running"] \in Cpu /\ [c EXCEPT !.state = "Stopped"] \in Cpu
        BY <4>1 DEF Cpu, States
      <4>5. QED
        BY <4>1, <4>2, <4>3, <4>4 DEF Applied
    <3>2. QED
      BY <2>1, <3>1, ReplyType DEF TakeQuick, TypeOK
  <2>2. ASSUME NEW h \in Handlers, TakeStep(n, h) PROVE TypeOK'
    BY <2>2, BeginInsnType DEF TakeStep, Goto, TypeOK, HandlerPcs
  <2>3. ASSUME NEW h \in Handlers, TakeLoad(n, h) PROVE TypeOK'
    <3>1. [LoopAt("exec") EXCEPT
              !.todo = <<"load">>, !.drv = h, !.key = req[h].key] \in LoopRec
      BY CpuServerAssumption DEF LoopAt, LoopRec, Todos, TypeOK, Request, Images, States
    <3>2. QED
      BY <2>3, <3>1 DEF TakeLoad, Goto, TypeOK, HandlerPcs
  <2>4. CASE BreakStop(n)
    <3>1. [cpu EXCEPT ![n].state = "Stopped"] \in [Names -> Cpu]
      BY CpuFields DEF TypeOK, States
    <3>2. QED
      BY <2>4, <3>1 DEF BreakStop, hvars, TypeOK
  <2>5. CASE RunInsn(n)
    BY <2>5, BeginInsnType DEF RunInsn, hvars, TypeOK
  <2>6. CASE InsnDone(n)
    <3>1. /\ (~loop[n].err) \in BOOLEAN
          /\ loop' = [loop EXCEPT ![n] = LoopAt("top")]
      BY <2>6 DEF InsnDone
    <3>2. CASE loop[n].drv = None
      <4>1. PICK s \in States : cpu' = [cpu EXCEPT ![n].state = s]
        BY <2>6, <3>2 DEF InsnDone, TypeOK, Cpu, States
      <4>2. cpu' \in [Names -> Cpu]
        BY <4>1 DEF TypeOK, Cpu
      <4>3. QED
        BY <2>6, <3>1, <3>2, <4>2, InitialTypes DEF InsnDone, hvars, TypeOK
    <3>3. CASE loop[n].drv # None
      BY <2>6, <3>1, <3>3, InitialTypes, ReplyType DEF InsnDone, TypeOK
    <3>4. QED
      BY <3>2, <3>3
  <2>7. CASE NapEnd(n)
    <3>1. [loop EXCEPT ![n].at = "exec"] \in [Names -> LoopRec]
      BY DEF TypeOK, LoopRec
    <3>2. QED
      BY <2>7, <3>1 DEF NapEnd, hvars, TypeOK
  <2>8. QED
    BY <1>3, <2>1, <2>2, <2>3, <2>4, <2>5, <2>6, <2>7 DEF LoopStep
<1>4. CASE RedisStep
  <2>1. ASSUME NEW n \in Names, RedisTake(n) PROVE TypeOK'
    <3> DEFINE what == Head(loop[n].todo)
    <3>1. loop[n] \in LoopRec /\ loop[n].todo \in Todos /\ loop[n].todo # <<>>
      BY <2>1 DEF RedisTake, TypeOK, LoopRec
    <3>2. what \in Closures
      BY <3>1, HeadIsClosure
    <3>3. rl' \in RlRec
      BY <2>1, <3>1, <3>2 DEF RedisTake, RlRec, LoopRec
    <3>4. loop' \in [Names -> LoopRec]
      <4>1. CASE what = "load"
        BY <2>1, <4>1, InitialTypes DEF RedisTake, TypeOK
      <4>2. CASE what \in {"poll", "getrange"}
        BY <2>1, <3>1, <4>2 DEF RedisTake, TypeOK, LoopRec
      <4>3. CASE what \notin {"load", "poll", "getrange"}
        <5>1. Tail(loop[n].todo) \in Todos
          BY <3>1, <4>3, TodoShrinks
        <5>2. [loop[n] EXCEPT !.todo = Tail(loop[n].todo)] \in LoopRec
          BY <3>1, <5>1 DEF LoopRec
        <5>3. loop' = [loop EXCEPT ![n] = [loop[n] EXCEPT !.todo = Tail(loop[n].todo)]]
          BY <2>1, <4>3 DEF RedisTake
        <5>4. QED
          BY <5>2, <5>3 DEF TypeOK
      <4>4. QED
        BY <4>1, <4>2, <4>3
    <3>5. QED
      BY <2>1, <3>3, <3>4 DEF RedisTake, hvars, TypeOK
  <2>2. CASE RedisWrite
    BY <2>2, InitialTypes DEF RedisWrite, hvars, TypeOK
  <2>3. CASE RedisCredit
    BY <2>3, InitialTypes DEF RedisCredit, hvars, TypeOK, RlRec, Cpu
  <2>4. CASE RedisGetrange
    <3>1. \A n \in Names : [loop EXCEPT ![n].at = "exec", ![n].todo = <<"set">>]
                             \in [Names -> LoopRec]
      BY LoopFields DEF TypeOK, Todos
    <3>2. rl.name \in Names
      BY DEF TypeOK, RlRec
    <3>3. QED
      BY <2>4, <3>1, <3>2, InitialTypes DEF RedisGetrange, hvars, TypeOK
  <2>5. CASE RedisPoll
    <3>1. rl.name \in Names
      BY DEF TypeOK, RlRec
    <3>2. [cpu EXCEPT ![rl.name].state = loop[rl.name].saved] \in [Names -> Cpu]
      <4>1. loop[rl.name].saved \in States
        BY <3>1 DEF TypeOK, LoopRec
      <4>2. \A s \in States : [cpu EXCEPT ![rl.name].state = s] \in [Names -> Cpu]
        BY <3>1, CpuFields DEF TypeOK
      <4>3. QED
        BY <4>1, <4>2
    <3>3. /\ [loop EXCEPT ![rl.name].at = "exec", ![rl.name].todo = <<>>] \in [Names -> LoopRec]
          /\ [loop EXCEPT ![rl.name].at = "nap"] \in [Names -> LoopRec]
      BY <3>1, LoopFields DEF TypeOK, Todos
    <3>4. [inbox EXCEPT ![rl.name] = "none"] \in [Names -> Lines]
      BY DEF TypeOK, Lines
    <3>5. QED
      BY <2>5, <3>2, <3>3, <3>4, InitialTypes DEF RedisPoll, PollAnswers, PollFindsNothing, hvars, TypeOK
  <2>6. CASE RedisGetImage
    <3>1. [cpu EXCEPT ![rl.name].hash = rl.key] \in [Names -> Cpu]
      BY CpuFields DEF TypeOK, RlRec, Images
    <3>2. [rl EXCEPT !.at = "clear"] \in RlRec
      BY DEF TypeOK, RlRec
    <3>3. QED
      BY <2>6, <3>1, <3>2, InitialTypes, ReplyType DEF RedisGetImage, hvars, TypeOK
  <2>7. CASE LoadHexClear
    <3>1. [cpu EXCEPT ![rl.name].mem = rl.key, ![rl.name].whole = FALSE] \in [Names -> Cpu]
      <4>1. [cpu EXCEPT ![rl.name].mem = rl.key] \in [Names -> Cpu]
        BY CpuFields DEF TypeOK, RlRec, Images
      <4>2. rl.name \in Names
        BY DEF TypeOK, RlRec
      <4>3. QED
        BY <4>1, <4>2, CpuFields
    <3>2. [rl EXCEPT !.at = "store"] \in RlRec
      BY DEF TypeOK, RlRec
    <3>3. QED
      BY <2>7, <3>1, <3>2 DEF LoadHexClear, hvars, TypeOK
  <2>8. CASE LoadHexStore
    <3>1. /\ rl.name \in Names /\ cpu[rl.name].state \in States
          /\ [cpu EXCEPT ![rl.name].whole = TRUE] \in [Names -> Cpu]
      <4>1. rl.name \in Names
        BY DEF TypeOK, RlRec
      <4>2. cpu[rl.name].state \in States
        BY <4>1 DEF TypeOK, Cpu
      <4>3. QED
        BY <4>1, <4>2, CpuFields DEF TypeOK
    <3>2. \A s \in States : [cpu EXCEPT ![rl.name].state = s] \in [Names -> Cpu]
      BY <3>1, CpuFields DEF TypeOK
    <3>3. [rl EXCEPT !.at = "stuck"] \in RlRec
      BY DEF TypeOK, RlRec
    <3>4. CASE KeyKind[rl.key] = "hooked"
      BY <2>8, <3>1, <3>2, <3>3, <3>4 DEF LoadHexStore, hvars, TypeOK, States
    <3>5. CASE KeyKind[rl.key] = "ok"
      BY <2>8, <3>1, <3>5, InitialTypes, ReplyType DEF LoadHexStore, TypeOK
    <3>6. CASE KeyKind[rl.key] = "malformed"
      BY <2>8, <3>6, InitialTypes, ReplyType DEF LoadHexStore, TypeOK
    <3>7. QED
      BY <2>8, <3>4, <3>5, <3>6 DEF LoadHexStore
  <2>9. QED
    BY <1>4, <2>1, <2>2, <2>3, <2>4, <2>5, <2>6, <2>7, <2>8 DEF RedisStep
<1>5. CASE Environment
  BY <1>5 DEF Environment, RedisFails, Type, hvars, TypeOK
<1>6. CASE UNCHANGED vars
  BY <1>6 DEF vars, TypeOK
<1>7. QED
  BY <1>1, <1>2, <1>3, <1>4, <1>5, <1>6 DEF Next

(* Every field of every struct holds a value of its type, for any number   *)
(* of handlers and CPUs and any contents of Redis.                         *)
THEOREM TypeCorrect == Spec => []TypeOK
<1>1. Init => TypeOK
  BY InitialTypes, CpuServerAssumption DEF Init, TypeOK, HandlerPcs, Lines
<1>2. TypeOK /\ [Next]_vars => TypeOK'
  BY TypeStep
<1>3. QED
  BY <1>1, <1>2, PTL DEF Spec

-----------------------------------------------------------------------------
(* The inductive invariant *)

(* The controller serves one handler, which waits for it.                  *)
Serving == ctl # None => hpc[ctl] = "asked"

(* A closure of a load belongs to a handler; a closure that replies to a   *)
(* loop finds that loop at the receive; only a load gets stuck.            *)
HandOff ==
  /\ rl.at # "run" => rl.op = "load"
  /\ rl.op = "load" => rl.drv \in Handlers
  /\ rl.op = "poll" => loop[rl.name].at = "reply" /\ loop[rl.name].todo = <<"poll">>
  /\ rl.op = "getrange" => /\ loop[rl.name].at = "reply"
                           /\ loop[rl.name].todo = <<"getrange", "set">>
  /\ \A n \in Names : loop[n].todo = <<"load">> => loop[n].drv \in Handlers

(* What the input hook will restore is a state other than IoSleep.         *)
WakesUp == \A n \in Names : Polling(n) => loop[n].saved # "IoSleep" \/ rl.at = "stuck"

IInv == /\ TypeOK /\ Serving /\ HandOff /\ WakesUp
        /\ WaitIffOwed /\ ReplyComes /\ SleepIffPolling

-----------------------------------------------------------------------------
(* What the shared pieces of the actions change *)

(* A reply ends its handler's wait, moves no other handler, and no         *)
(* request changes its CPU.                                                *)
LEMMA ReplyEffect ==
  ASSUME TypeOK, NEW h \in Handlers, NEW ok \in BOOLEAN, Reply(h, ok)
  PROVE  /\ hpc'[h] \in {"image", "go", "answer"}
         /\ \A g \in Handlers : g # h => hpc'[g] = hpc[g]
         /\ \A g \in Handlers : req'[g].name = req[g].name
BY DEF TypeOK, Reply, Outcome, Goto, Request

(* An instruction begins in its own loop and CPU only, for its driver,     *)
(* and puts the CPU to sleep exactly if it is about to poll.               *)
LEMMA BeginInsnEffect ==
  ASSUME TypeOK, NEW n \in Names, NEW d \in Handlers \cup {None}, NEW b \in BOOLEAN,
         BeginInsn(n, d, b)
  PROVE  /\ loop'[n].at = "exec" /\ loop'[n].drv = d
         /\ loop'[n].todo # <<"load">>
         /\ loop'[n].todo = <<"poll">> => cpu'[n].state = "IoSleep"
         /\ loop'[n].todo # <<"poll">> => cpu'[n].state = cpu[n].state
         /\ loop'[n].saved = cpu[n].state
         /\ \A m \in Names : m # n => loop'[m] = loop[m] /\ cpu'[m] = cpu[m]
<1>1. PICK i \in InsnsIn(n), a \in Addrs :
    /\ cpu' = [cpu EXCEPT ![n].pc = a,
                          ![n].state = IF i = "input" THEN "IoSleep" ELSE @]
    /\ loop' = [loop EXCEPT ![n] =
                  [LoopAt("exec") EXCEPT
                     !.todo = Sends(i), !.drv = d, !.halt = b,
                     !.by = IF i = "unlock" THEN cpu[n].mem ELSE NoKey,
                     !.err = (i = "fault"), !.saved = cpu[n].state]]
  BY DEF BeginInsn
<1>2. /\ loop'[n].at = "exec" /\ loop'[n].drv = d /\ loop'[n].saved = cpu[n].state
      /\ loop'[n].todo = Sends(i)
      /\ \A m \in Names : m # n => loop'[m] = loop[m]
  BY <1>1 DEF TypeOK, LoopAt
<1>3. /\ i = "input" => cpu'[n].state = "IoSleep"
      /\ i # "input" => cpu'[n].state = cpu[n].state
      /\ \A m \in Names : m # n => cpu'[m] = cpu[m]
  BY <1>1 DEF TypeOK, Cpu
<1>4. QED
  BY <1>2, <1>3, SendsTodos

(* A fresh loop has nothing to send and works for no handler.              *)
LEMMA TopFields ==
  \A w : /\ LoopAt(w).at = w /\ LoopAt(w).todo = <<>> /\ LoopAt(w).drv = None
BY DEF LoopAt

(* An idle RedisLand holds no closure.                                     *)
LEMMA IdleFields == RedisIdle.op = "idle" /\ RedisIdle.at = "run"
BY DEF RedisIdle

(* RedisLand takes over the first closure of one loop, with its driver:    *)
(* after a load that loop is free, for a poll or a getrange it waits, and  *)
(* after any other it goes on.                                             *)
LEMMA RedisTakeEffect ==
  ASSUME TypeOK, NEW n \in Names, RedisTake(n)
  PROVE  /\ rl'.op \in Closures /\ rl'.at = "run" /\ rl'.name = n /\ rl'.drv = loop[n].drv
         /\ rl'.op = "load" <=> loop[n].todo = <<"load">>
         /\ rl'.op = "poll" <=> loop[n].todo = <<"poll">>
         /\ rl'.op = "getrange" <=> loop[n].todo = <<"getrange", "set">>
         /\ rl'.op = "load" => loop'[n] = LoopAt("top")
         /\ rl'.op # "load" => loop'[n].drv = loop[n].drv /\ loop'[n].saved = loop[n].saved
         /\ rl'.op \in {"poll", "getrange"} =>
              loop'[n].at = "reply" /\ loop'[n].todo = loop[n].todo
         /\ rl'.op \notin {"load", "poll", "getrange"} =>
              /\ loop'[n].at = "exec"
              /\ loop'[n].todo # <<"poll">> /\ loop'[n].todo # <<"load">>
         /\ \A m \in Names : m # n => loop'[m] = loop[m]
<1> DEFINE what == Head(loop[n].todo)
<1>1. loop[n] \in LoopRec /\ loop[n].todo \in Todos /\ loop[n].todo # <<>> /\ loop[n].at = "exec"
  BY DEF RedisTake, TypeOK, LoopRec
<1>2. rl'.op = what /\ rl'.at = "run" /\ rl'.name = n /\ rl'.drv = loop[n].drv
  BY DEF RedisTake
<1>3. \A m \in Names : m # n => loop'[m] = loop[m]
  BY DEF RedisTake, TypeOK
<1>4. what = "load" => loop'[n] = LoopAt("top")
  BY DEF RedisTake, TypeOK
<1>5. CASE what \in {"poll", "getrange"}
  <2>1. loop'[n] = [loop[n] EXCEPT !.at = "reply"]
    BY <1>5 DEF RedisTake, TypeOK
  <2>2. QED
    BY <1>1, <1>2, <1>3, <1>5, <2>1, HeadIsClosure DEF LoopRec
<1>6. CASE what \notin {"load", "poll", "getrange"}
  <2>1. loop'[n] = [loop[n] EXCEPT !.todo = Tail(loop[n].todo)]
    BY <1>6 DEF RedisTake, TypeOK
  <2>2. Tail(loop[n].todo) # <<"poll">> /\ Tail(loop[n].todo) # <<"load">>
    BY <1>1, <1>6, TodoShrinks
  <2>3. loop'[n].at = "exec" /\ loop'[n].todo = Tail(loop[n].todo)
        /\ loop'[n].drv = loop[n].drv /\ loop'[n].saved = loop[n].saved
    BY <1>1, <2>1 DEF LoopRec
  <2>4. QED
    BY <1>1, <1>2, <1>3, <1>6, <2>2, <2>3, HeadIsClosure
<1>7. QED
  BY <1>1, <1>2, <1>3, <1>4, <1>5, <1>6, HeadIsClosure

(* A handler's own steps touch no loop, no RedisLand, no other handler     *)
(* and no CPU's state, and neither start nor end a wait for a reply.       *)
LEMMA HandlerEffect ==
  ASSUME TypeOK, NEW h \in Handlers, HandlerStep(h)
  PROVE  /\ loop' = loop /\ rl' = rl /\ up' = up
         /\ hpc[h] \notin {"wait", "asked"} /\ hpc'[h] # "wait"
         /\ \A g \in Handlers : g # h => hpc'[g] = hpc[g] /\ req'[g] = req[g]
         /\ \A n \in Names : cpu'[n].state = cpu[n].state
         /\ ctl' = ctl \/ (ctl = None /\ ctl' = h /\ hpc'[h] = "asked")
<1>1. CASE Accept(h)
  BY <1>1 DEF Accept, Goto, TypeOK
<1>2. CASE ControllerTake(h)
  BY <1>2 DEF ControllerTake, Goto, TypeOK
<1>3. CASE Dispatch(h)
  BY <1>3 DEF Dispatch, Outcome, Goto, TypeOK
<1>4. CASE RejectBody(h)
  BY <1>4 DEF RejectBody, Outcome, Goto, TypeOK
<1>5. CASE Enqueue(h)
  BY <1>5 DEF Enqueue, Goto, TypeOK
<1>6. CASE SetImage(h)
  <2>1. \A n \in Names : cpu'[n].state = cpu[n].state
    BY <1>6 DEF SetImage, TypeOK, Cpu, Request
  <2>2. QED
    BY <1>6, <2>1 DEF SetImage, Outcome, Goto, TypeOK
<1>7. CASE Answer(h)
  BY <1>7 DEF Answer, Goto, TypeOK
<1>8. QED
  BY <1>1, <1>2, <1>3, <1>4, <1>5, <1>6, <1>7 DEF HandlerStep

(* The controller's reply releases the handler it serves and at most       *)
(* starts one loop, with a stopped CPU.                                    *)
LEMMA ControllerEffect ==
  ASSUME TypeOK, Serving, ControllerReply
  PROVE  /\ rl' = rl /\ up' = up /\ req' = req /\ ctl' = None
         /\ ctl \in Handlers /\ hpc[ctl] = "asked" /\ hpc'[ctl] = "got"
         /\ \A g \in Handlers : g # ctl => hpc'[g] = hpc[g]
         /\ \A n \in Names :
              \/ loop'[n] = loop[n] /\ cpu'[n] = cpu[n]
              \/ /\ loop[n].at = "none" /\ loop'[n] = LoopAt("top")
                 /\ cpu'[n].state = "Stopped"
<1>1. ctl \in Handlers /\ req[ctl].name \in Names
  BY CpuServerAssumption DEF ControllerReply, TypeOK, Request
<1>2. NewUserCpu.state = "Stopped"
  BY DEF NewUserCpu
<1>3. QED
  BY <1>1, <1>2 DEF ControllerReply, Serving, Goto, TypeOK

(* Every step keeps the controller serving a handler that waits for it.    *)
LEMMA ServingStep ==
  ASSUME IInv, [Next]_vars PROVE Serving'
<1> USE DEF IInv
<1>1. ASSUME NEW h \in Handlers, HandlerStep(h) PROVE Serving'
  BY <1>1, HandlerEffect DEF Serving, TypeOK
<1>2. CASE ControllerReply
  BY <1>2 DEF ControllerReply, Serving
<1>3. ASSUME NEW n \in Names, LoopStep(n) PROVE Serving'
  <2>1. ASSUME NEW h \in Handlers, Reply(h, TRUE) \/ Reply(h, FALSE), hpc[h] # "asked", ctl' = ctl
        PROVE  Serving'
    BY <2>1, ReplyEffect DEF Serving, TypeOK
  <2>2. ASSUME NEW h \in Handlers, TakeQuick(n, h) PROVE Serving'
    BY <2>1, <2>2 DEF TakeQuick, Takes, Waiting
  <2>3. ASSUME NEW h \in Handlers, TakeStep(n, h) \/ TakeLoad(n, h) PROVE Serving'
    BY <2>3 DEF TakeStep, TakeLoad, Takes, Waiting, Goto, Serving, TypeOK
  <2>4. CASE InsnDone(n)
    <3>1. CASE loop[n].drv = None
      BY <2>4, <3>1 DEF InsnDone, hvars, Serving
    <3>2. CASE loop[n].drv # None
      <4>1. loop[n].drv \in Handlers /\ loop[n].err \in BOOLEAN
        BY <3>2 DEF TypeOK, LoopRec
      <4>2. hpc[loop[n].drv] = "wait"
        BY <2>4, <4>1 DEF InsnDone, WaitIffOwed, LoopOwes
      <4>3. Reply(loop[n].drv, TRUE) \/ Reply(loop[n].drv, FALSE)
        BY <2>4, <3>2, <4>1 DEF InsnDone
      <4>4. QED
        BY <2>1, <2>4, <4>1, <4>2, <4>3 DEF InsnDone
    <3>3. QED
      BY <3>1, <3>2
  <2>5. CASE BreakStop(n) \/ RunInsn(n) \/ NapEnd(n)
    BY <2>5 DEF BreakStop, RunInsn, NapEnd, hvars, Serving
  <2>6. QED
    BY <1>3, <2>2, <2>3, <2>4, <2>5 DEF LoopStep
<1>4. CASE RedisStep
  <2>1. ASSUME rl.op = "load", Reply(rl.drv, TRUE) \/ Reply(rl.drv, FALSE), ctl' = ctl
        PROVE  Serving'
    <3>1. rl.drv \in Handlers
      BY <2>1 DEF HandOff
    <3>2. hpc[rl.drv] = "wait"
      BY <2>1, <3>1 DEF WaitIffOwed, RedisOwes
    <3>3. QED
      BY <2>1, <3>1, <3>2, ReplyEffect DEF Serving, TypeOK
  <2>2. CASE RedisGetImage \/ LoadHexStore
    BY <2>1, <2>2 DEF RedisGetImage, LoadHexStore, hvars, Serving
  <2>3. CASE ~(RedisGetImage \/ LoadHexStore)
    BY <1>4, <2>3 DEF RedisStep, RedisTake, RedisWrite, RedisCredit, RedisGetrange,
                      RedisPoll, PollAnswers, PollFindsNothing, LoadHexClear, hvars, Serving
  <2>4. QED
    BY <2>2, <2>3
<1>5. CASE Environment \/ UNCHANGED vars
  BY <1>5 DEF Environment, RedisFails, Type, hvars, vars, Serving
<1>6. QED
  BY <1>1, <1>2, <1>3, <1>4, <1>5 DEF Next

(* Every step keeps loads for handlers, polls and getranges for loops at   *)
(* the receive.                                                            *)
LEMMA HandOffStep ==
  ASSUME IInv, [Next]_vars PROVE HandOff'
<1> USE DEF IInv
<1>0. rl.name \in Names /\ rl' \in RlRec'
  <2>1. TypeOK'
    BY TypeStep
  <2>2. QED
    BY <2>1 DEF TypeOK, RlRec
<1>1. ASSUME NEW h \in Handlers, HandlerStep(h) PROVE HandOff'
  BY <1>1, HandlerEffect DEF HandOff
<1>2. CASE ControllerReply
  BY <1>0, <1>2, ControllerEffect, TopFields DEF HandOff
<1>3. ASSUME NEW n \in Names, LoopStep(n) PROVE HandOff'
  <2>1. ASSUME loop[n].at \in {"top", "nap"} \/ (loop[n].at = "exec" /\ loop[n].todo = <<>>),
               rl' = rl,
               \A m \in Names : m # n => loop'[m] = loop[m],
               loop'[n].todo = <<"load">> => loop'[n].drv \in Handlers
        PROVE  HandOff'
    BY <1>0, <2>1 DEF HandOff
  <2>2. ASSUME NEW h \in Handlers, TakeQuick(n, h) PROVE HandOff'
    BY <2>2 DEF TakeQuick, HandOff
  <2>3. ASSUME NEW h \in Handlers, TakeStep(n, h) PROVE HandOff'
    BY <2>1, <2>3, BeginInsnEffect DEF TakeStep, Takes
  <2>4. ASSUME NEW h \in Handlers, TakeLoad(n, h) PROVE HandOff'
    <3>1. /\ loop[n].at = "top" /\ rl' = rl
          /\ \A m \in Names : m # n => loop'[m] = loop[m]
          /\ loop'[n].drv = h
      BY <2>4 DEF TakeLoad, Takes, TypeOK, LoopAt
    <3>2. QED
      BY <2>1, <3>1
  <2>5. CASE BreakStop(n)
    BY <2>5 DEF BreakStop, HandOff
  <2>6. CASE RunInsn(n)
    <3>1. (cpu[n].bp[cpu[n].pc] = "step") \in BOOLEAN
      OBVIOUS
    <3>2. QED
      BY <2>1, <2>6, <3>1, BeginInsnEffect DEF RunInsn, Runs
  <2>7. CASE InsnDone(n)
    <3>1. /\ loop[n].at = "exec" /\ loop[n].todo = <<>> /\ rl' = rl
          /\ loop' = [loop EXCEPT ![n] = LoopAt("top")]
      BY <2>7 DEF InsnDone
    <3>2. loop'[n].todo = <<>> /\ \A m \in Names : m # n => loop'[m] = loop[m]
      BY <3>1, TopFields DEF TypeOK
    <3>3. <<>> # <<"load">>
      OBVIOUS
    <3>4. QED
      BY <2>1, <3>1, <3>2, <3>3
  <2>8. CASE NapEnd(n)
    <3>1. /\ loop[n].at = "nap" /\ rl' = rl
          /\ \A m \in Names : m # n => loop'[m] = loop[m]
          /\ loop'[n].todo = loop[n].todo /\ loop'[n].drv = loop[n].drv
      BY <2>8 DEF NapEnd, TypeOK, LoopRec
    <3>2. QED
      BY <2>1, <3>1 DEF HandOff
  <2>9. QED
    BY <1>3, <2>2, <2>3, <2>4, <2>5, <2>6, <2>7, <2>8 DEF LoopStep
<1>4. CASE RedisStep
  <2>1. ASSUME NEW n \in Names, RedisTake(n) PROVE HandOff'
    BY <2>1, RedisTakeEffect, TopFields DEF HandOff
  <2>2. ASSUME rl' = RedisIdle, loop' = loop PROVE HandOff'
    BY <2>2, IdleFields DEF HandOff
  <2>3. CASE RedisWrite \/ RedisCredit
    BY <2>2, <2>3 DEF RedisWrite, RedisCredit
  <2>4. CASE RedisGetrange
    <3>1. \A m \in Names : loop'[m].todo = <<"load">> => loop'[m] = loop[m]
      BY <1>0, <2>4 DEF RedisGetrange, TypeOK, LoopRec
    <3>2. QED
      BY <2>4, <3>1, IdleFields DEF RedisGetrange, HandOff
  <2>5. CASE RedisPoll
    <3>1. \A m \in Names : m # rl.name => loop'[m] = loop[m]
      BY <1>0, <2>5 DEF RedisPoll, PollAnswers, PollFindsNothing, TypeOK
    <3>2. loop[rl.name].todo = <<"poll">>
      BY <2>5 DEF RedisPoll, PollAnswers, PollFindsNothing, HandOff
    <3>3. loop'[rl.name].todo \in {<<>>, <<"poll">>}
      <4>1. CASE loop' = loop
        BY <3>2, <4>1
      <4>2. CASE loop' = [loop EXCEPT ![rl.name].at = "exec", ![rl.name].todo = <<>>]
        BY <1>0, <4>2 DEF TypeOK, LoopRec
      <4>3. CASE loop' = [loop EXCEPT ![rl.name].at = "nap"]
        <5>1. loop'[rl.name].todo = loop[rl.name].todo
          BY <1>0, <4>3 DEF TypeOK, LoopRec
        <5>2. QED
          BY <3>2, <5>1
      <4>4. QED
        BY <2>5, <4>1, <4>2, <4>3 DEF RedisPoll, PollAnswers, PollFindsNothing
    <3>4. loop'[rl.name].todo # <<"load">>
      <4>1. <<>> # <<"load">>
        OBVIOUS
      <4>2. <<"poll">> # <<"load">>
        OBVIOUS
      <4>3. QED
        BY <3>3, <4>1, <4>2, Zenon
    <3>5. rl' = RedisIdle
      BY <2>5 DEF RedisPoll, PollAnswers, PollFindsNothing
    <3>6. QED
      BY <3>1, <3>4, <3>5, IdleFields DEF HandOff
  <2>6. CASE RedisGetImage
    <3>1. CASE rl' = [rl EXCEPT !.at = "clear"]
      BY <2>6, <3>1 DEF RedisGetImage, HandOff, TypeOK, RlRec
    <3>2. CASE rl' = RedisIdle
      BY <2>2, <2>6, <3>2 DEF RedisGetImage
    <3>3. QED
      BY <2>6, <3>1, <3>2 DEF RedisGetImage
  <2>7. CASE LoadHexClear
    BY <2>7 DEF LoadHexClear, HandOff, TypeOK, RlRec
  <2>8. CASE LoadHexStore
    <3>1. CASE rl' = [rl EXCEPT !.at = "stuck"]
      BY <2>8, <3>1 DEF LoadHexStore, HandOff, TypeOK, RlRec
    <3>2. CASE rl' = RedisIdle
      BY <2>2, <2>8, <3>2 DEF LoadHexStore
    <3>3. QED
      BY <2>8, <3>1, <3>2 DEF LoadHexStore
  <2>9. QED
    BY <1>4, <2>1, <2>3, <2>4, <2>5, <2>6, <2>7, <2>8 DEF RedisStep
<1>5. CASE Environment \/ UNCHANGED vars
  BY <1>5 DEF Environment, RedisFails, Type, hvars, vars, HandOff
<1>6. QED
  BY <1>1, <1>2, <1>3, <1>4, <1>5 DEF Next

(* A step that hands no closure over and answers nobody.                   *)
LEMMA WaitFrame ==
  ASSUME WaitIffOwed,
         \A h \in Handlers :
           /\ hpc'[h] = "wait" <=> hpc[h] = "wait"
           /\ hpc[h] = "wait" => req'[h].name = req[h].name
           /\ RedisOwes(h)' <=> RedisOwes(h)
           /\ \A n \in Names : LoopOwes(n, h)' <=> LoopOwes(n, h),
         rl.op = "load" => rl'.name = rl.name
  PROVE  WaitIffOwed'
BY DEF WaitIffOwed, RedisOwes

(* A closure is answered: its handler goes on and nobody owes it any more. *)
LEMMA WaitAnswered ==
  ASSUME TypeOK, WaitIffOwed, NEW g \in Handlers, NEW ok \in BOOLEAN, Reply(g, ok),
         ~RedisOwes(g)', \A n \in Names : ~LoopOwes(n, g)',
         \A h \in Handlers : h # g =>
           /\ RedisOwes(h)' <=> RedisOwes(h)
           /\ \A n \in Names : LoopOwes(n, h)' <=> LoopOwes(n, h),
         rl'.op = "load" => rl'.name = rl.name
  PROVE  WaitIffOwed'
<1>1. /\ hpc'[g] # "wait"
      /\ \A h \in Handlers : h # g => hpc'[h] = hpc[h]
      /\ \A h \in Handlers : req'[h].name = req[h].name
  BY ReplyEffect
<1>2. QED
  BY <1>1 DEF WaitIffOwed, RedisOwes

(* A loop takes the closure of a handler and keeps it.                     *)
LEMMA WaitTaken ==
  ASSUME TypeOK, WaitIffOwed, NEW n \in Names, NEW g \in Handlers, Takes(n, g),
         Goto(g, "wait"), req' = req, rl' = rl, loop'[n].at = "exec", loop'[n].drv = g,
         \A m \in Names : m # n => loop'[m] = loop[m]
  PROVE  WaitIffOwed'
<1>1. /\ hpc'[g] = "wait" /\ hpc[g] = "send" /\ req[g].name = n /\ loop[n].at = "top"
      /\ \A h \in Handlers : h # g => hpc'[h] = hpc[h]
  BY DEF Takes, Waiting, Goto, TypeOK
<1>2. QED
  BY <1>1 DEF WaitIffOwed, RedisOwes, LoopOwes

(* Every step keeps handlers waiting exactly while one goroutine owes      *)
(* them.                                                                   *)
LEMMA WaitStep ==
  ASSUME IInv, [Next]_vars PROVE WaitIffOwed'
<1> USE DEF IInv
<1>0. rl.name \in Names
  BY DEF TypeOK, RlRec
<1>1. ASSUME NEW h \in Handlers, HandlerStep(h) PROVE WaitIffOwed'
  BY <1>1, HandlerEffect, WaitFrame DEF RedisOwes, LoopOwes
<1>2. CASE ControllerReply
  <2>1. \A n \in Names, h \in Handlers : LoopOwes(n, h)' <=> LoopOwes(n, h)
    BY <1>2, ControllerEffect, TopFields DEF LoopOwes
  <2>2. QED
    BY <1>2, <2>1, ControllerEffect, WaitFrame DEF RedisOwes
<1>3. ASSUME NEW n \in Names, LoopStep(n) PROVE WaitIffOwed'
  <2>1. ASSUME NEW h \in Handlers, TakeQuick(n, h) PROVE WaitIffOwed'
    <3>1. hpc[h] = "send" /\ Reply(h, TRUE) /\ loop' = loop /\ rl' = rl
      BY <2>1 DEF TakeQuick, Takes, Waiting
    <3>2. ~RedisOwes(h) /\ \A m \in Names : ~LoopOwes(m, h)
      BY <3>1 DEF WaitIffOwed
    <3>3. QED
      BY <3>1, <3>2, WaitAnswered DEF RedisOwes, LoopOwes
  <2>2. ASSUME NEW h \in Handlers, TakeStep(n, h) PROVE WaitIffOwed'
    BY <2>2, BeginInsnEffect, WaitTaken DEF TakeStep
  <2>3. ASSUME NEW h \in Handlers, TakeLoad(n, h) PROVE WaitIffOwed'
    <3>1. /\ \A m \in Names : m # n => loop'[m] = loop[m]
          /\ loop'[n].drv = h /\ loop'[n].at = "exec"
      BY <2>3 DEF TakeLoad, TypeOK, LoopAt
    <3>2. QED
      BY <2>3, <3>1, WaitTaken DEF TakeLoad
  <2>4. CASE BreakStop(n)
    BY <2>4, WaitFrame DEF BreakStop, hvars, RedisOwes, LoopOwes
  <2>5. CASE RunInsn(n)
    <3>1. (cpu[n].bp[cpu[n].pc] = "step") \in BOOLEAN
      OBVIOUS
    <3>2. /\ loop[n].at = "top" /\ loop'[n].drv = None
          /\ \A m \in Names : m # n => loop'[m] = loop[m]
      BY <2>5, <3>1, BeginInsnEffect DEF RunInsn, Runs
    <3>3. \A m \in Names, h \in Handlers : LoopOwes(m, h)' <=> LoopOwes(m, h)
      BY <3>2, CpuServerAssumption DEF LoopOwes
    <3>4. QED
      BY <2>5, <3>3, WaitFrame DEF RunInsn, hvars, RedisOwes
  <2>6. CASE InsnDone(n)
    <3>1. /\ loop[n].at = "exec" /\ rl' = rl
          /\ loop' = [loop EXCEPT ![n] = LoopAt("top")]
      BY <2>6 DEF InsnDone
    <3>2. loop'[n].at = "top" /\ \A m \in Names : m # n => loop'[m] = loop[m]
      BY <3>1, TopFields DEF TypeOK
    <3>3. CASE loop[n].drv = None
      <4>1. \A m \in Names, h \in Handlers : LoopOwes(m, h)' <=> LoopOwes(m, h)
        BY <3>2, <3>3, CpuServerAssumption DEF LoopOwes
      <4>2. QED
        BY <2>6, <3>1, <3>3, <4>1, WaitFrame DEF InsnDone, hvars, RedisOwes
    <3>4. CASE loop[n].drv # None
      <4>0. PICK g \in Handlers : g = loop[n].drv
        BY <3>4 DEF TypeOK, LoopRec
      <4>1. PICK ok \in BOOLEAN : Reply(g, ok)
        BY <2>6, <3>4, <4>0 DEF InsnDone, TypeOK, LoopRec
      <4>2. LoopOwes(n, g) /\ ~RedisOwes(g)
            /\ \A m \in Names : LoopOwes(m, g) => m = n
        BY <3>1, <4>0 DEF LoopOwes, WaitIffOwed
      <4>3. ~RedisOwes(g)' /\ \A m \in Names : ~LoopOwes(m, g)'
        BY <3>1, <3>2, <4>2 DEF LoopOwes, RedisOwes
      <4>4. \A h \in Handlers : h # g =>
               /\ RedisOwes(h)' <=> RedisOwes(h)
               /\ \A m \in Names : LoopOwes(m, h)' <=> LoopOwes(m, h)
        BY <3>1, <3>2, <4>0 DEF LoopOwes, RedisOwes
      <4>5. QED
        BY <3>1, <4>1, <4>3, <4>4, WaitAnswered
    <3>5. QED
      BY <3>3, <3>4
  <2>7. CASE NapEnd(n)
    <3>1. \A m \in Names, h \in Handlers : LoopOwes(m, h)' <=> LoopOwes(m, h)
      BY <2>7 DEF NapEnd, LoopOwes, TypeOK, LoopRec
    <3>2. QED
      BY <2>7, <3>1, WaitFrame DEF NapEnd, hvars, RedisOwes
  <2>8. QED
    BY <1>3, <2>1, <2>2, <2>3, <2>4, <2>5, <2>6, <2>7 DEF LoopStep
<1>4. CASE RedisStep
  <2>1. ASSUME NEW n \in Names, RedisTake(n) PROVE WaitIffOwed'
    <3>1. /\ rl.op = "idle" /\ loop[n].at = "exec"
          /\ hpc' = hpc /\ req' = req
      BY <2>1 DEF RedisTake, hvars
    <3>2. \A h \in Handlers : ~RedisOwes(h)
      BY <3>1 DEF RedisOwes
    <3>3. CASE rl'.op = "load"
      <4>1. /\ loop'[n].at = "top" /\ rl'.name = n /\ rl'.drv = loop[n].drv
            /\ \A m \in Names : m # n => loop'[m] = loop[m]
        BY <2>1, <3>3, RedisTakeEffect, TopFields
      <4>2. QED
        BY <3>1, <3>2, <3>3, <4>1 DEF WaitIffOwed, LoopOwes, RedisOwes
    <3>4. CASE rl'.op # "load"
      <4>1. \A m \in Names, h \in Handlers : LoopOwes(m, h)' <=> LoopOwes(m, h)
        BY <2>1, <3>1, <3>4, RedisTakeEffect DEF LoopOwes
      <4>2. QED
        BY <3>1, <3>2, <3>4, <4>1, WaitFrame DEF RedisOwes
    <3>5. QED
      BY <3>3, <3>4
  <2>2. ASSUME rl.op # "load", rl' = RedisIdle, hpc' = hpc, req' = req,
               \A m \in Names, h \in Handlers : LoopOwes(m, h)' <=> LoopOwes(m, h)
        PROVE  WaitIffOwed'
    BY <2>2, IdleFields, WaitFrame DEF RedisOwes
  <2>3. CASE RedisWrite \/ RedisCredit
    BY <2>2, <2>3 DEF RedisWrite, RedisCredit, hvars, LoopOwes
  <2>4. CASE RedisGetrange
    <3>1. \A m \in Names, h \in Handlers : LoopOwes(m, h)' <=> LoopOwes(m, h)
      BY <1>0, <2>4 DEF RedisGetrange, HandOff, LoopOwes, TypeOK, LoopRec
    <3>2. QED
      BY <2>2, <2>4, <3>1 DEF RedisGetrange, hvars
  <2>5. CASE RedisPoll
    <3>1. loop[rl.name].at = "reply"
      BY <2>5 DEF RedisPoll, PollAnswers, PollFindsNothing, HandOff
    <3>2. \A m \in Names, h \in Handlers : LoopOwes(m, h)' <=> LoopOwes(m, h)
      <4>1. CASE loop' = loop
        BY <4>1 DEF LoopOwes
      <4>2. CASE loop' = [loop EXCEPT ![rl.name].at = "exec", ![rl.name].todo = <<>>]
        BY <1>0, <3>1, <4>2 DEF LoopOwes, TypeOK, LoopRec
      <4>3. CASE loop' = [loop EXCEPT ![rl.name].at = "nap"]
        BY <1>0, <3>1, <4>3 DEF LoopOwes, TypeOK, LoopRec
      <4>4. QED
        BY <2>5, <4>1, <4>2, <4>3 DEF RedisPoll, PollAnswers, PollFindsNothing
    <3>3. QED
      BY <2>2, <2>5, <3>2 DEF RedisPoll, PollAnswers, PollFindsNothing, hvars
  <2>6. ASSUME rl.op = "load", rl' = RedisIdle, loop' = loop,
               Reply(rl.drv, TRUE) \/ Reply(rl.drv, FALSE)
        PROVE  WaitIffOwed'
    <3>0. PICK g \in Handlers : g = rl.drv
      BY <2>6 DEF HandOff
    <3>1. RedisOwes(g)
      BY <2>6, <3>0 DEF RedisOwes
    <3>2. \A m \in Names : ~LoopOwes(m, g)
      BY <3>1 DEF WaitIffOwed
    <3>3. /\ ~RedisOwes(g)' /\ \A m \in Names : ~LoopOwes(m, g)'
          /\ rl'.op # "load"
          /\ \A h \in Handlers : h # g =>
               /\ RedisOwes(h)' <=> RedisOwes(h)
               /\ \A m \in Names : LoopOwes(m, h)' <=> LoopOwes(m, h)
      BY <2>6, <3>0, <3>2, IdleFields DEF RedisOwes, LoopOwes
    <3>4. PICK ok \in BOOLEAN : Reply(g, ok)
      BY <2>6, <3>0
    <3>5. QED
      BY <3>3, <3>4, WaitAnswered
  <2>7. ASSUME NEW w, rl' = [rl EXCEPT !.at = w], loop' = loop, hpc' = hpc, req' = req
        PROVE  WaitIffOwed'
    <3>1. rl'.op = rl.op /\ rl'.drv = rl.drv /\ rl'.name = rl.name
      BY <2>7 DEF TypeOK, RlRec
    <3>2. QED
      BY <2>7, <3>1, WaitFrame DEF RedisOwes, LoopOwes
  <2>8. CASE RedisGetImage
    BY <2>6, <2>7, <2>8 DEF RedisGetImage, hvars
  <2>9. CASE LoadHexClear
    BY <2>7, <2>9 DEF LoadHexClear, hvars
  <2>10. CASE LoadHexStore
    BY <2>6, <2>7, <2>10 DEF LoadHexStore, hvars
  <2>11. QED
    BY <1>4, <2>1, <2>3, <2>4, <2>5, <2>8, <2>9, <2>10 DEF RedisStep
<1>5. CASE Environment \/ UNCHANGED vars
  BY <1>5, WaitFrame DEF Environment, RedisFails, Type, hvars, vars, RedisOwes, LoopOwes
<1>6. QED
  BY <1>1, <1>2, <1>3, <1>4, <1>5 DEF Next

(* Every step keeps the closure of a waiting loop in RedisLand.            *)
LEMMA ReplyComesStep ==
  ASSUME IInv, [Next]_vars PROVE ReplyComes'
<1> USE DEF IInv
<1>0. rl.name \in Names
  BY DEF TypeOK, RlRec
<1>1. ASSUME NEW h \in Handlers, HandlerStep(h) PROVE ReplyComes'
  BY <1>1, HandlerEffect DEF ReplyComes
<1>2. CASE ControllerReply
  BY <1>2, ControllerEffect, TopFields DEF ReplyComes
<1>3. ASSUME NEW n \in Names, LoopStep(n) PROVE ReplyComes'
  <2>1. ASSUME rl' = rl, up' = up, loop'[n].at # "reply",
               \A m \in Names : m # n => loop'[m] = loop[m]
        PROVE  ReplyComes'
    BY <2>1 DEF ReplyComes
  <2>2. ASSUME NEW h \in Handlers, TakeQuick(n, h) PROVE ReplyComes'
    BY <2>2 DEF TakeQuick, ReplyComes
  <2>3. ASSUME NEW h \in Handlers, TakeStep(n, h) PROVE ReplyComes'
    BY <2>1, <2>3, BeginInsnEffect DEF TakeStep
  <2>4. ASSUME NEW h \in Handlers, TakeLoad(n, h) PROVE ReplyComes'
    <3>1. /\ \A m \in Names : m # n => loop'[m] = loop[m]
          /\ loop'[n].at = "exec"
      BY <2>4 DEF TakeLoad, TypeOK, LoopAt
    <3>2. QED
      BY <2>1, <2>4, <3>1 DEF TakeLoad
  <2>5. CASE BreakStop(n)
    BY <2>5 DEF BreakStop, ReplyComes
  <2>6. CASE RunInsn(n)
    <3>1. (cpu[n].bp[cpu[n].pc] = "step") \in BOOLEAN
      OBVIOUS
    <3>2. QED
      BY <2>1, <2>6, <3>1, BeginInsnEffect DEF RunInsn
  <2>7. CASE InsnDone(n)
    <3>1. loop'[n].at = "top" /\ \A m \in Names : m # n => loop'[m] = loop[m]
      BY <2>7, TopFields DEF InsnDone, TypeOK
    <3>2. QED
      BY <2>1, <2>7, <3>1 DEF InsnDone
  <2>8. CASE NapEnd(n)
    <3>1. loop'[n].at = "exec" /\ \A m \in Names : m # n => loop'[m] = loop[m]
      BY <2>8 DEF NapEnd, TypeOK, LoopRec
    <3>2. QED
      BY <2>1, <2>8, <3>1 DEF NapEnd
  <2>9. QED
    BY <1>3, <2>2, <2>3, <2>4, <2>5, <2>6, <2>7, <2>8 DEF LoopStep
<1>4. CASE RedisStep
  <2>1. ASSUME NEW n \in Names, RedisTake(n) PROVE ReplyComes'
    <3>1. up' = up /\ rl.op = "idle"
      BY <2>1 DEF RedisTake
    <3>2. QED
      BY <2>1, <3>1, RedisTakeEffect, TopFields DEF ReplyComes
  <2>2. ASSUME rl.op \notin {"poll", "getrange"}, loop' = loop, up' = up
        PROVE  ReplyComes'
    BY <2>2 DEF ReplyComes
  <2>3. CASE RedisWrite \/ RedisCredit \/ RedisGetImage \/ LoadHexClear \/ LoadHexStore
    BY <2>2, <2>3 DEF RedisWrite, RedisCredit, RedisGetImage, LoadHexClear, LoadHexStore
  <2>4. ASSUME up' = up, ~up PROVE ReplyComes'
    BY <2>4 DEF ReplyComes
  <2>5. ASSUME up' = up, loop'[rl.name].at # "reply",
               \A m \in Names : m # rl.name => loop'[m] = loop[m]
        PROVE  ReplyComes'
    BY <2>5 DEF ReplyComes
  <2>6. CASE RedisGetrange /\ up
    <3>1. /\ loop'[rl.name].at # "reply"
          /\ \A m \in Names : m # rl.name => loop'[m] = loop[m]
      BY <1>0, <2>6 DEF RedisGetrange, TypeOK, LoopRec
    <3>2. QED
      BY <2>5, <2>6, <3>1 DEF RedisGetrange
  <2>7. CASE RedisPoll /\ up
    <3>1. /\ loop'[rl.name].at # "reply"
          /\ \A m \in Names : m # rl.name => loop'[m] = loop[m]
      BY <1>0, <2>7 DEF RedisPoll, PollAnswers, PollFindsNothing, TypeOK, LoopRec
    <3>2. QED
      BY <2>5, <2>7, <3>1 DEF RedisPoll, PollAnswers, PollFindsNothing
  <2>8. CASE (RedisGetrange \/ RedisPoll) /\ ~up
    BY <2>4, <2>8 DEF RedisGetrange, RedisPoll, PollAnswers, PollFindsNothing
  <2>9. QED
    BY <1>4, <2>1, <2>3, <2>6, <2>7, <2>8 DEF RedisStep
<1>5. CASE Environment \/ UNCHANGED vars
  BY <1>5 DEF Environment, RedisFails, Type, vars, ReplyComes
<1>6. QED
  BY <1>1, <1>2, <1>3, <1>4, <1>5 DEF Next

(* The input hook of n, and the state that n shows.                        *)
SleepsWell(n) ==
  /\ Polling(n) => cpu[n].state = "IoSleep"
  /\ Polling(n) => loop[n].saved # "IoSleep" \/ rl.at = "stuck"
  /\ cpu[n].state = "IoSleep" => Polling(n) \/ rl.at = "stuck"

(* A step that touches the loop and the state of at most one CPU.          *)
LEMMA SleepFrame ==
  ASSUME IInv, NEW n \in Names, SleepsWell(n)', rl.at = "stuck" => rl'.at = "stuck",
         \A m \in Names : m # n => loop'[m] = loop[m] /\ cpu'[m].state = cpu[m].state
  PROVE  SleepIffPolling' /\ WakesUp'
BY DEF IInv, SleepIffPolling, WakesUp, SleepsWell, Polling

(* A step that changes no state of a CPU and no goroutine of one.          *)
LEMMA SleepSame ==
  ASSUME IInv, loop' = loop, rl.at = "stuck" => rl'.at = "stuck",
         \A m \in Names : cpu'[m].state = cpu[m].state
  PROVE  SleepIffPolling' /\ WakesUp'
BY DEF IInv, SleepIffPolling, WakesUp, Polling

(* Every step keeps a CPU asleep exactly while its input hook polls, and   *)
(* the state it will wake up in one that is awake.                         *)
LEMMA SleepStep ==
  ASSUME IInv, [Next]_vars PROVE SleepIffPolling' /\ WakesUp'
<1> USE DEF IInv
<1>0. rl.name \in Names /\ (rl.at = "stuck" => rl.op = "load")
      /\ \A m \in Names : SleepsWell(m)
  BY DEF TypeOK, RlRec, HandOff, SleepIffPolling, WakesUp, SleepsWell
<1> DEFINE Goal == SleepIffPolling' /\ WakesUp'
<1>1. ASSUME NEW h \in Handlers, HandlerStep(h) PROVE Goal
  BY <1>1, HandlerEffect, SleepSame
<1>2. CASE ControllerReply
  <2>1. PICK n \in Names : n = req[ctl].name
    BY <1>2, ControllerEffect DEF TypeOK, Request
  <2>2. \A m \in Names : m # n => loop'[m] = loop[m] /\ cpu'[m] = cpu[m]
    BY <1>2, <2>1 DEF ControllerReply, TypeOK
  <2>3. \/ loop'[n] = loop[n] /\ cpu'[n] = cpu[n]
        \/ loop'[n] = LoopAt("top") /\ cpu'[n].state = "Stopped"
    BY <1>2, ControllerEffect
  <2>4. rl' = rl
    BY <1>2, ControllerEffect
  <2>5. SleepsWell(n)'
    BY <1>0, <2>3, <2>4, TopFields DEF SleepsWell, Polling
  <2>6. QED
    BY <2>2, <2>4, <2>5, SleepFrame
<1>3. ASSUME NEW n \in Names, LoopStep(n) PROVE Goal
  <2>1. ASSUME NEW d \in Handlers \cup {None}, NEW b \in BOOLEAN, BeginInsn(n, d, b),
               loop[n].at = "top", rl' = rl
        PROVE  Goal
    <3>1. SleepsWell(n)'
      BY <1>0, <2>1, BeginInsnEffect DEF SleepsWell, Polling
    <3>2. QED
      BY <2>1, <3>1, BeginInsnEffect, SleepFrame
  <2>2. ASSUME NEW h \in Handlers, TakeQuick(n, h) PROVE Goal
    <3>1. /\ loop[n].at = "top" /\ loop' = loop /\ rl' = rl
          /\ \A m \in Names : m # n => cpu'[m] = cpu[m]
      BY <2>2 DEF TakeQuick, Takes, TypeOK
    <3>2. cpu'[n].state \in {"Running", "Stopped", cpu[n].state}
      <4>1. PICK a \in Addrs : cpu' = [cpu EXCEPT ![n] = Applied(cpu[n], req[h], a)]
        BY <2>2 DEF TakeQuick
      <4>2. cpu[n] \in Cpu
        BY DEF TypeOK
      <4>3. Applied(cpu[n], req[h], a).state \in {"Running", "Stopped", cpu[n].state}
        <5> DEFINE c == cpu[n]
        <5>1. /\ [c EXCEPT !.bp[req[h].addr] = req[h].kind].state = c.state
              /\ [c EXCEPT !.state = "Running"].state = "Running"
              /\ [c EXCEPT !.state = "Stopped"].state = "Stopped"
              /\ \A x : [c EXCEPT !.pc = x].state = c.state
          BY <4>2 DEF Cpu
        <5> HIDE DEF c
        <5>2. Applied(c, req[h], a).state \in {"Running", "Stopped", c.state}
          BY <5>1 DEF Applied
        <5>3. QED
          BY <5>2 DEF c
      <4>4. QED
        BY <4>1, <4>3 DEF TypeOK
    <3>3. SleepsWell(n)'
      BY <1>0, <3>1, <3>2 DEF SleepsWell, Polling
    <3>4. QED
      BY <3>1, <3>3, SleepFrame
  <2>3. ASSUME NEW h \in Handlers, TakeStep(n, h) PROVE Goal
    BY <2>1, <2>3 DEF TakeStep, Takes
  <2>4. ASSUME NEW h \in Handlers, TakeLoad(n, h) PROVE Goal
    <3>1. /\ loop[n].at = "top" /\ cpu' = cpu /\ rl' = rl
          /\ loop'[n].todo = <<"load">>
          /\ \A m \in Names : m # n => loop'[m] = loop[m]
      BY <2>4 DEF TakeLoad, Takes, TypeOK, LoopAt
    <3>2. <<"load">> # <<"poll">>
      OBVIOUS
    <3>3. SleepsWell(n)'
      BY <1>0, <3>1, <3>2 DEF SleepsWell, Polling
    <3>4. QED
      BY <3>1, <3>3, SleepFrame
  <2>5. CASE BreakStop(n)
    <3>1. /\ loop' = loop /\ rl' = rl /\ loop[n].at = "top" /\ cpu'[n].state = "Stopped"
          /\ \A m \in Names : m # n => cpu'[m] = cpu[m]
      BY <2>5 DEF BreakStop, Runs, TypeOK, Cpu
    <3>2. SleepsWell(n)'
      BY <3>1 DEF SleepsWell, Polling
    <3>3. QED
      BY <3>1, <3>2, SleepFrame
  <2>6. CASE RunInsn(n)
    <3>1. (cpu[n].bp[cpu[n].pc] = "step") \in BOOLEAN
      OBVIOUS
    <3>2. QED
      BY <2>1, <2>6, <3>1 DEF RunInsn, Runs
  <2>7. CASE InsnDone(n)
    <3>1. /\ loop[n].at = "exec" /\ loop[n].todo = <<>> /\ rl' = rl
          /\ loop'[n].at = "top"
          /\ \A m \in Names : m # n => loop'[m] = loop[m]
      BY <2>7, TopFields DEF InsnDone, TypeOK
    <3>2. /\ cpu'[n].state \in {"Stopped", "Fault", cpu[n].state}
          /\ \A m \in Names : m # n => cpu'[m] = cpu[m]
      <4>1. CASE loop[n].drv = None
        BY <2>7, <4>1 DEF InsnDone, TypeOK, Cpu
      <4>2. CASE loop[n].drv # None
        BY <2>7, <4>2 DEF InsnDone
      <4>3. QED
        BY <4>1, <4>2
    <3>3. <<>> # <<"poll">>
      OBVIOUS
    <3>4. SleepsWell(n)'
      BY <1>0, <3>1, <3>2, <3>3 DEF SleepsWell, Polling
    <3>5. QED
      BY <3>1, <3>2, <3>4, SleepFrame
  <2>8. CASE NapEnd(n)
    <3>1. /\ loop[n].at = "nap" /\ loop'[n].at = "exec" /\ rl' = rl /\ cpu' = cpu
          /\ loop'[n].todo = loop[n].todo /\ loop'[n].saved = loop[n].saved
          /\ \A m \in Names : m # n => loop'[m] = loop[m]
      BY <2>8 DEF NapEnd, TypeOK, LoopRec
    <3>2. SleepsWell(n)'
      BY <1>0, <3>1 DEF SleepsWell, Polling
    <3>3. QED
      BY <3>1, <3>2, SleepFrame
  <2>9. QED
    BY <1>3, <2>2, <2>3, <2>4, <2>5, <2>6, <2>7, <2>8 DEF LoopStep
<1>4. CASE RedisStep
  <2>1. ASSUME NEW n \in Names, RedisTake(n) PROVE Goal
    <3>1. /\ rl.op = "idle" /\ loop[n].at = "exec" /\ cpu' = cpu /\ rl.at # "stuck"
      BY <1>0, <2>1 DEF RedisTake
    <3>2. SleepsWell(n)'
      <4>1. CASE rl'.op = "poll"
        <5>1. /\ loop'[n].at = "reply" /\ loop'[n].saved = loop[n].saved
              /\ loop[n].todo = <<"poll">> /\ loop'[n].todo = <<"poll">>
          BY <2>1, <4>1, RedisTakeEffect
        <5>2. QED
          BY <1>0, <3>1, <5>1 DEF SleepsWell, Polling
      <4>2. CASE rl'.op # "poll"
        <5>1. loop[n].todo # <<"poll">>
          BY <2>1, <4>2, RedisTakeEffect
        <5>2. ~Polling(n)'
          BY <2>1, <5>1, RedisTakeEffect, TopFields DEF Polling
        <5>3. cpu[n].state # "IoSleep"
          BY <1>0, <3>1, <5>1 DEF SleepsWell, Polling
        <5>4. QED
          BY <3>1, <5>2, <5>3 DEF SleepsWell
      <4>3. QED
        BY <4>1, <4>2
    <3>3. QED
      BY <2>1, <3>1, <3>2, RedisTakeEffect, SleepFrame
  <2>2. CASE RedisWrite \/ RedisCredit
    BY <1>0, <2>2, SleepSame DEF RedisWrite, RedisCredit
  <2>3. CASE RedisGetrange
    <3>1. PICK n \in Names : n = rl.name
      BY <1>0
    <3>2. loop[n].todo = <<"getrange", "set">> /\ cpu' = cpu /\ rl.at # "stuck"
      BY <1>0, <2>3, <3>1 DEF RedisGetrange, HandOff
    <3>3. loop'[n].todo \in {<<"getrange", "set">>, <<"set">>}
      <4>1. CASE loop' = loop
        BY <3>2, <4>1
      <4>2. CASE loop' = [loop EXCEPT ![n].at = "exec", ![n].todo = <<"set">>]
        BY <4>2 DEF TypeOK, LoopRec
      <4>3. QED
        BY <2>3, <3>1, <4>1, <4>2 DEF RedisGetrange
    <3>4. /\ loop[n].todo # <<"poll">> /\ loop'[n].todo # <<"poll">>
      BY <3>2, <3>3
    <3>5. \A m \in Names : m # n => loop'[m] = loop[m]
      BY <2>3, <3>1 DEF RedisGetrange, TypeOK
    <3>6. SleepsWell(n)'
      BY <1>0, <3>2, <3>4 DEF SleepsWell, Polling
    <3>7. QED
      BY <3>2, <3>5, <3>6, SleepFrame
  <2>4. CASE RedisPoll
    <3>1. PICK n \in Names : n = rl.name
      BY <1>0
    <3>2. /\ loop[n].todo = <<"poll">> /\ loop[n].at = "reply" /\ rl.at # "stuck"
      BY <1>0, <2>4, <3>1 DEF RedisPoll, PollAnswers, PollFindsNothing, HandOff
    <3>3. /\ \A m \in Names : m # n => loop'[m] = loop[m] /\ cpu'[m] = cpu[m]
      BY <2>4, <3>1 DEF RedisPoll, PollAnswers, PollFindsNothing, TypeOK
    <3>4. cpu[n].state = "IoSleep" /\ loop[n].saved # "IoSleep"
      BY <1>0, <3>2 DEF SleepsWell, Polling
    <3>5. CASE /\ cpu' = [cpu EXCEPT ![n].state = loop[n].saved]
               /\ loop' = [loop EXCEPT ![n].at = "exec", ![n].todo = <<>>]
      <4>1. cpu'[n].state # "IoSleep"
        BY <3>4, <3>5 DEF TypeOK, Cpu
      <4>2. loop'[n].todo = <<>>
        BY <3>5 DEF TypeOK, LoopRec
      <4>3. <<>> # <<"poll">>
        OBVIOUS
      <4>4. QED
        BY <3>2, <3>3, <4>1, <4>2, <4>3, SleepFrame DEF SleepsWell, Polling
    <3>6. CASE /\ cpu' = cpu
               /\ loop' = [loop EXCEPT ![n].at = "nap"]
      <4>1. /\ loop'[n].at = "nap" /\ loop'[n].todo = loop[n].todo
            /\ loop'[n].saved = loop[n].saved
        BY <3>6 DEF TypeOK, LoopRec
      <4>2. SleepsWell(n)'
        BY <3>2, <3>4, <3>6, <4>1 DEF SleepsWell, Polling
      <4>3. QED
        BY <3>2, <3>3, <4>2, SleepFrame
    <3>7. CASE cpu' = cpu /\ loop' = loop
      BY <3>2, <3>7, SleepSame
    <3>8. QED
      BY <2>4, <3>1, <3>5, <3>6, <3>7 DEF RedisPoll, PollAnswers, PollFindsNothing
  <2>5. CASE RedisGetImage
    <3>1. rl.at # "stuck" /\ loop' = loop
      BY <2>5 DEF RedisGetImage
    <3>2. \A m \in Names : cpu'[m].state = cpu[m].state
      <4>1. cpu' = cpu \/ cpu' = [cpu EXCEPT ![rl.name].hash = rl.key]
        BY <2>5 DEF RedisGetImage
      <4>2. QED
        BY <4>1 DEF TypeOK, Cpu
    <3>3. QED
      BY <3>1, <3>2, SleepSame
  <2>6. CASE LoadHexClear
    <3>1. rl.at # "stuck" /\ loop' = loop
      BY <2>6 DEF LoadHexClear
    <3>2. \A m \in Names : cpu'[m].state = cpu[m].state
      BY <2>6 DEF LoadHexClear, TypeOK, Cpu
    <3>3. QED
      BY <3>1, <3>2, SleepSame
  <2>7. CASE LoadHexStore
    <3>1. rl.at # "stuck" /\ loop' = loop
      BY <2>7 DEF LoadHexStore
    <3>2. CASE \A m \in Names : cpu'[m].state = cpu[m].state
      BY <3>1, <3>2, SleepSame
    <3>3. CASE rl' = [rl EXCEPT !.at = "stuck"]
      <4>1. rl'.at = "stuck"
        BY <3>3 DEF TypeOK, RlRec
      <4>2. PICK n \in Names : n = rl.name
        BY <1>0
      <4>3. /\ \A m \in Names : m # n => cpu'[m] = cpu[m]
            /\ cpu'[n].state \in {"IoSleep", cpu[n].state}
        <5>1. \/ cpu' = cpu
              \/ cpu' = [cpu EXCEPT ![n].whole = TRUE]
              \/ \E s \in {"IoSleep", cpu[n].state} : cpu' = [cpu EXCEPT ![n].state = s]
          BY <2>7, <4>2 DEF LoadHexStore
        <5>2. cpu[n] \in Cpu
          BY DEF TypeOK
        <5>3. QED
          BY <5>1, <5>2 DEF TypeOK, Cpu
      <4>4. SleepsWell(n)'
        BY <1>0, <3>1, <4>1, <4>3 DEF SleepsWell, Polling
      <4>5. QED
        BY <3>1, <4>1, <4>3, <4>4, SleepFrame
    <3>4. CASE cpu' = [cpu EXCEPT ![rl.name].whole = TRUE]
      BY <3>2, <3>4 DEF TypeOK, Cpu
    <3>5. QED
      BY <2>7, <3>2, <3>3, <3>4 DEF LoadHexStore
  <2>8. QED
    BY <1>4, <2>1, <2>2, <2>3, <2>4, <2>5, <2>6, <2>7 DEF RedisStep
<1>5. CASE Environment \/ UNCHANGED vars
  BY <1>5, SleepSame DEF Environment, RedisFails, Type, vars
<1>6. QED
  BY <1>1, <1>2, <1>3, <1>4, <1>5 DEF Next

-----------------------------------------------------------------------------
(* The theorems *)

(* The inductive invariant holds at the start.                             *)
LEMMA InitIInv == Init => IInv
<1> SUFFICES ASSUME Init PROVE IInv
  OBVIOUS
<1>1. TypeOK
  BY InitialTypes, CpuServerAssumption DEF Init, TypeOK, HandlerPcs, Lines
<1>2. /\ \A n \in Names : /\ loop[n].at = "none" /\ loop[n].todo = <<>>
                           /\ cpu[n].state = "Stopped"
      /\ \A h \in Handlers : hpc[h] = "idle"
      /\ rl.op = "idle" /\ rl.at = "run" /\ ctl = None
  BY TopFields, IdleFields DEF Init, NewUserCpu
<1>3. <<>> # <<"load">> /\ <<>> # <<"poll">>
  OBVIOUS
<1>4. QED
  BY <1>1, <1>2, <1>3 DEF IInv, Serving, HandOff, WakesUp, Polling, WaitIffOwed, LoopOwes,
                          RedisOwes, ReplyComes, SleepIffPolling

(* The inductive invariant holds in every reachable state.                 *)
LEMMA IInvInvariant == Spec => []IInv
<1>1. IInv /\ [Next]_vars => IInv'
  <2> SUFFICES ASSUME IInv, [Next]_vars PROVE IInv'
    OBVIOUS
  <2>1. TypeOK'
    BY TypeStep DEF IInv
  <2>2. QED
    BY <2>1, ServingStep, HandOffStep, WaitStep, ReplyComesStep, SleepStep DEF IInv
<1>2. QED
  BY <1>1, InitIInv, PTL DEF Spec

(* A handler waits exactly while one goroutine owes it a reply, whatever   *)
(* the interleaving, the contents of Redis and the failures of Redis.      *)
THEOREM NoOrphanWaits == Spec => []WaitIffOwed
<1>1. IInv => WaitIffOwed
  BY DEF IInv
<1>2. QED
  BY <1>1, IInvInvariant, PTL

(* A loop that waits for Redis is owed a reply while Redis works.          *)
THEOREM RepliesCome == Spec => []ReplyComes
<1>1. IInv => ReplyComes
  BY DEF IInv
<1>2. QED
  BY <1>1, IInvInvariant, PTL

(* IoSleep shows exactly while the input hook waits, unless an image has   *)
(* been loaded over an I/O register.                                       *)
THEOREM SleepOnlyForInput == Spec => []SleepIffPolling
<1>1. IInv => SleepIffPolling
  BY DEF IInv
<1>2. QED
  BY <1>1, IInvInvariant, PTL

-----------------------------------------------------------------------------
(* The digest and the memory *)

(* A load belongs to a CPU that exists; once LoadHex runs, the digest is   *)
(* already that of the image being loaded.                                 *)
Digesting ==
  rl.op = "load" => /\ loop[rl.name].at # "none"
                    /\ rl.at # "run" => cpu[rl.name].hash = rl.key
                    /\ rl.at \in {"store", "stuck"} => cpu[rl.name].mem = rl.key

DInv == Digesting /\ DigestOfMemory

(* A step that leaves digests and memories alone keeps DInv, whether it    *)
(* leaves the closure in RedisLand alone or replaces it.                   *)
LEMMA DigestFrame ==
  ASSUME IInv, DInv,
         \A n \in Names : /\ cpu'[n].hash = cpu[n].hash /\ cpu'[n].mem = cpu[n].mem
                          /\ loop[n].at # "none" => loop'[n].at # "none",
         \/ rl' = rl
         \/ rl'.op # "load" /\ (rl.op # "load" \/ rl.at = "run")
         \/ rl.op # "load" /\ rl'.at = "run" /\ rl'.name \in Names /\ loop'[rl'.name].at # "none"
  PROVE  DInv'
<1>1. rl.name \in Names
  BY DEF IInv, TypeOK, RlRec
<1>2. Digesting'
  BY <1>1 DEF DInv, Digesting
<1>3. DigestOfMemory'
  BY DEF DInv, DigestOfMemory, Loading
<1>4. QED
  BY <1>2, <1>3 DEF DInv

(* A single instruction begins: neither digest nor memory changes.         *)
LEMMA BeginInsnKeepsMemory ==
  ASSUME IInv, NEW n \in Names, NEW d \in Handlers \cup {None}, NEW b \in BOOLEAN,
         BeginInsn(n, d, b)
  PROVE  \A m \in Names : /\ cpu'[m].hash = cpu[m].hash /\ cpu'[m].mem = cpu[m].mem
                          /\ loop[m].at # "none" => loop'[m].at # "none"
<1>1. \A m \in Names : cpu'[m].hash = cpu[m].hash /\ cpu'[m].mem = cpu[m].mem
  BY DEF BeginInsn, IInv, TypeOK, Cpu
<1>2. loop'[n].at = "exec" /\ \A m \in Names : m # n => loop'[m] = loop[m]
  BY BeginInsnEffect DEF IInv
<1>3. QED
  BY <1>1, <1>2

(* Every step keeps DInv.                                                  *)
LEMMA DigestStep ==
  ASSUME IInv, DInv, [Next]_vars PROVE DInv'
<1> USE DEF IInv
<1>0. rl.name \in Names /\ rl.key \in Keys /\ \A n \in Names : cpu[n] \in Cpu /\ loop[n] \in LoopRec
  BY DEF TypeOK, RlRec
<1>1. ASSUME NEW h \in Handlers, HandlerStep(h) PROVE DInv'
  <2>1. \A n \in Names : cpu'[n].hash = cpu[n].hash /\ cpu'[n].mem = cpu[n].mem
    <3>1. CASE SetImage(h)
      BY <3>1 DEF SetImage, TypeOK, Cpu, Request
    <3>2. CASE ~SetImage(h)
      BY <1>1, <3>2 DEF HandlerStep, Accept, ControllerTake, Dispatch, RejectBody, Enqueue, Answer
    <3>3. QED
      BY <3>1, <3>2
  <2>2. QED
    BY <1>1, <2>1, HandlerEffect, DigestFrame
<1>2. CASE ControllerReply
  <2>1. PICK n \in Names : n = req[ctl].name
    BY <1>2, CpuServerAssumption DEF ControllerReply, TypeOK, Request
  <2>2. CASE loop[n].at = "none"
    <3>1. /\ cpu' = [cpu EXCEPT ![n] = NewUserCpu] /\ loop' = [loop EXCEPT ![n] = LoopAt("top")]
          /\ rl' = rl
      BY <1>2, <2>1, <2>2 DEF ControllerReply
    <3>2. /\ cpu'[n].hash = NoKey /\ cpu'[n].mem = NoKey /\ loop'[n].at = "top"
          /\ \A m \in Names : m # n => cpu'[m] = cpu[m] /\ loop'[m] = loop[m]
      BY <3>1 DEF NewUserCpu, LoopAt, TypeOK
    <3>3. rl.op = "load" => rl.name # n
      BY <2>2 DEF DInv, Digesting
    <3>4. QED
      BY <1>0, <3>1, <3>2, <3>3 DEF DInv, Digesting, DigestOfMemory, Loading
  <2>3. CASE loop[n].at # "none"
    BY <1>2, <2>1, <2>3, DigestFrame DEF ControllerReply
  <2>4. QED
    BY <2>2, <2>3
<1>3. ASSUME NEW n \in Names, LoopStep(n) PROVE DInv'
  <2>1. rl' = rl
    BY <1>3 DEF LoopStep, TakeQuick, TakeStep, TakeLoad, BreakStop, RunInsn, InsnDone, NapEnd
  <2>2. ASSUME NEW h \in Handlers, TakeQuick(n, h) PROVE DInv'
    <3>1. PICK a \in Addrs : cpu' = [cpu EXCEPT ![n] = Applied(cpu[n], req[h], a)]
      BY <2>2 DEF TakeQuick
    <3>2. cpu'[n].hash = cpu[n].hash /\ cpu'[n].mem = cpu[n].mem
      BY <1>0, <3>1 DEF Applied, TypeOK, Cpu
    <3>3. \A m \in Names : m # n => cpu'[m] = cpu[m]
      BY <3>1 DEF TypeOK
    <3>4. loop' = loop
      BY <2>2 DEF TakeQuick
    <3>5. QED
      BY <2>1, <3>2, <3>3, <3>4, DigestFrame
  <2>3. ASSUME NEW h \in Handlers, TakeStep(n, h) PROVE DInv'
    <3>1. BeginInsn(n, h, FALSE)
      BY <2>3 DEF TakeStep
    <3>2. QED
      BY <2>1, <3>1, BeginInsnKeepsMemory, DigestFrame
  <2>4. ASSUME NEW h \in Handlers, TakeLoad(n, h) PROVE DInv'
    <3>1. cpu' = cpu /\ loop'[n].at = "exec" /\ \A m \in Names : m # n => loop'[m] = loop[m]
      BY <2>4 DEF TakeLoad, LoopAt, TypeOK
    <3>2. QED
      BY <2>1, <3>1, DigestFrame
  <2>5. CASE BreakStop(n)
    BY <1>0, <2>1, <2>5, DigestFrame DEF BreakStop, TypeOK, Cpu
  <2>6. CASE RunInsn(n)
    <3>1. BeginInsn(n, None, cpu[n].bp[cpu[n].pc] = "step")
      BY <2>6 DEF RunInsn
    <3>2. QED
      BY <2>1, <3>1, BeginInsnKeepsMemory, DigestFrame
  <2>7. CASE InsnDone(n)
    <3>1. \A m \in Names : cpu'[m].hash = cpu[m].hash /\ cpu'[m].mem = cpu[m].mem
      BY <1>0, <2>7 DEF InsnDone, TypeOK, Cpu
    <3>2. loop'[n].at = "top" /\ \A m \in Names : m # n => loop'[m] = loop[m]
      BY <2>7 DEF InsnDone, LoopAt, TypeOK
    <3>3. QED
      BY <2>1, <3>1, <3>2, DigestFrame
  <2>8. CASE NapEnd(n)
    <3>1. cpu' = cpu /\ loop'[n].at = "exec" /\ \A m \in Names : m # n => loop'[m] = loop[m]
      BY <1>0, <2>8 DEF NapEnd, TypeOK, LoopRec
    <3>2. QED
      BY <2>1, <3>1, DigestFrame
  <2>9. QED
    BY <1>3, <2>2, <2>3, <2>4, <2>5, <2>6, <2>7, <2>8 DEF LoopStep
<1>4. CASE RedisStep
  <2>1. ASSUME NEW n \in Names, RedisTake(n) PROVE DInv'
    <3>1. cpu' = cpu /\ rl.op = "idle" /\ rl'.name = n /\ rl'.at = "run"
      BY <2>1 DEF RedisTake
    <3>2. loop'[n].at # "none" /\ \A m \in Names : m # n => loop'[m] = loop[m]
      BY <2>1, RedisTakeEffect, TopFields
    <3>3. QED
      BY <3>1, <3>2, DigestFrame
  <2>2. CASE RedisWrite \/ RedisCredit
    BY <2>2, IdleFields, DigestFrame DEF RedisWrite, RedisCredit, hvars
  <2>3. CASE RedisGetrange
    <3>1. \A m \in Names : loop[m].at # "none" => loop'[m].at # "none"
      BY <1>0, <2>3 DEF RedisGetrange, TypeOK, LoopRec
    <3>2. QED
      BY <2>3, <3>1, IdleFields, DigestFrame DEF RedisGetrange
  <2>4. CASE RedisPoll
    <3>1. \A m \in Names : loop[m].at # "none" => loop'[m].at # "none"
      BY <1>0, <2>4 DEF RedisPoll, PollAnswers, PollFindsNothing, TypeOK, LoopRec
    <3>2. \A m \in Names : cpu'[m].hash = cpu[m].hash /\ cpu'[m].mem = cpu[m].mem
      <4>1. cpu' = cpu \/ cpu' = [cpu EXCEPT ![rl.name].state = loop[rl.name].saved]
        BY <2>4 DEF RedisPoll, PollAnswers, PollFindsNothing
      <4>2. ASSUME NEW s, cpu' = [cpu EXCEPT ![rl.name].state = s]
            PROVE  \A m \in Names : cpu'[m].hash = cpu[m].hash /\ cpu'[m].mem = cpu[m].mem
        BY <1>0, <4>2 DEF TypeOK, Cpu
      <4>3. QED
        BY <4>1, <4>2
    <3>3. rl.op = "poll" /\ rl' = RedisIdle
      BY <2>4 DEF RedisPoll
    <3>4. QED
      BY <3>1, <3>2, <3>3, IdleFields, DigestFrame
  <2>5. CASE RedisGetImage
    <3>1. CASE rl' = RedisIdle /\ cpu' = cpu
      BY <2>5, <3>1, IdleFields, DigestFrame DEF RedisGetImage
    <3>2. CASE cpu' = [cpu EXCEPT ![rl.name].hash = rl.key] /\ rl' = [rl EXCEPT !.at = "clear"]
      <4>1. /\ cpu'[rl.name].hash = rl.key /\ rl'.name = rl.name /\ rl'.key = rl.key
            /\ rl'.op = "load" /\ rl'.at = "clear" /\ loop' = loop
        BY <1>0, <2>5, <3>2 DEF RedisGetImage, TypeOK, Cpu, RlRec
      <4>2. \A m \in Names : m # rl.name => cpu'[m] = cpu[m]
        BY <3>2 DEF TypeOK
      <4>3. rl.op = "load" /\ rl.at = "run"
        BY <2>5 DEF RedisGetImage
      <4>4. Digesting'
        BY <4>1, <4>3 DEF DInv, Digesting
      <4>5. DigestOfMemory'
        BY <4>1, <4>2, <4>3 DEF DInv, DigestOfMemory, Loading
      <4>6. QED
        BY <4>4, <4>5 DEF DInv
    <3>3. QED
      BY <2>5, <3>1, <3>2 DEF RedisGetImage
  <2>6. CASE LoadHexClear
    <3>1. /\ rl.op = "load" /\ rl.at = "clear" /\ loop' = loop
          /\ cpu' = [cpu EXCEPT ![rl.name].mem = rl.key, ![rl.name].whole = FALSE]
          /\ rl' = [rl EXCEPT !.at = "store"]
      BY <2>6 DEF LoadHexClear
    <3>2. rl'.op = "load" /\ rl'.name = rl.name /\ rl'.key = rl.key /\ rl'.at = "store"
      BY <3>1 DEF TypeOK, RlRec
    <3>3. /\ cpu'[rl.name].hash = cpu[rl.name].hash /\ cpu'[rl.name].mem = rl.key
          /\ \A m \in Names : m # rl.name => cpu'[m] = cpu[m]
      BY <1>0, <3>1 DEF TypeOK, Cpu
    <3>4. Digesting'
      BY <3>1, <3>2, <3>3 DEF DInv, Digesting
    <3>5. DigestOfMemory'
      BY <3>1, <3>2, <3>3 DEF DInv, DigestOfMemory, Loading
    <3>6. QED
      BY <3>4, <3>5 DEF DInv
  <2>7. CASE LoadHexStore
    <3>1. rl.op = "load" /\ rl.at = "store" /\ loop' = loop
      BY <2>7 DEF LoadHexStore
    <3>2. \A m \in Names : cpu'[m].hash = cpu[m].hash /\ cpu'[m].mem = cpu[m].mem
      <4>1. \/ cpu' = cpu
            \/ cpu' = [cpu EXCEPT ![rl.name].whole = TRUE]
            \/ \E s \in {"IoSleep", cpu[rl.name].state} : cpu' = [cpu EXCEPT ![rl.name].state = s]
        BY <2>7 DEF LoadHexStore
      <4>2. CASE cpu' = cpu \/ cpu' = [cpu EXCEPT ![rl.name].whole = TRUE]
        BY <1>0, <4>2 DEF TypeOK, Cpu
      <4>3. ASSUME NEW s, cpu' = [cpu EXCEPT ![rl.name].state = s]
            PROVE  \A m \in Names : cpu'[m].hash = cpu[m].hash /\ cpu'[m].mem = cpu[m].mem
        BY <1>0, <4>3 DEF TypeOK, Cpu
      <4>4. QED
        BY <4>1, <4>2, <4>3
    <3>3. CASE rl' = [rl EXCEPT !.at = "stuck"]
      <4>1. rl'.op = "load" /\ rl'.name = rl.name /\ rl'.key = rl.key /\ rl'.at = "stuck"
        BY <3>1, <3>3 DEF TypeOK, RlRec
      <4>2. QED
        BY <1>0, <3>1, <3>2, <4>1 DEF DInv, Digesting, DigestOfMemory, Loading
    <3>4. CASE rl' = RedisIdle /\ KeyKind[rl.key] \in {"ok", "malformed"}
      <4>1. cpu[rl.name].hash = cpu[rl.name].mem
        BY <3>1 DEF DInv, Digesting
      <4>2. QED
        BY <3>1, <3>2, <3>4, <4>1, IdleFields DEF DInv, Digesting, DigestOfMemory, Loading
    <3>5. QED
      BY <2>7, <3>3, <3>4 DEF LoadHexStore
  <2>8. QED
    BY <1>4, <2>1, <2>2, <2>3, <2>4, <2>5, <2>6, <2>7 DEF RedisStep
<1>5. CASE Environment \/ UNCHANGED vars
  BY <1>5, DigestFrame DEF Environment, RedisFails, Type, vars
<1>6. QED
  BY <1>1, <1>2, <1>3, <1>4, <1>5 DEF Next

(* The digest is that of the image in memory, whatever loads succeed, fail *)
(* or stop half-way.                                                       *)
THEOREM DigestIsOfMemory == Spec => []DigestOfMemory
<1>1. Init => DInv
  <2>1. Init => Digesting
    BY IdleFields DEF Init, Digesting
  <2>2. Init => DigestOfMemory
    BY DEF Init, NewUserCpu, DigestOfMemory
  <2>3. QED
    BY <2>1, <2>2 DEF DInv
<1>2. IInv /\ DInv /\ [Next]_vars => DInv'
  BY DigestStep
<1>3. DInv => DigestOfMemory
  BY DEF DInv
<1>4. QED
  BY <1>1, <1>2, <1>3, IInvInvariant, PTL DEF Spec

-----------------------------------------------------------------------------
(* The service implements DebugSession *)

(* No image has bytes at the address of an I/O register.                   *)
NoHooks == \A k \in Keys : KeyKind[k] # "hooked"

(* A handler has an outcome only when it is about to answer, and what the  *)
(* handlers at each place serve.                                           *)
Outcomes ==
  \A h \in Handlers :
    /\ hpc[h] # "answer" => res[h] = "none"
    /\ hpc[h] = "idle" => req[h].op = "none"
    /\ hpc[h] = "image" => req[h].op = "load"
    /\ hpc[h] = "wait" => req[h].stage = 1 /\ req[h].op \notin {"boot", "stop"}

(* An instruction that a loop executes on its own account is one of a      *)
(* running CPU.                                                            *)
Executing(n) == loop[n].at \in {"exec", "reply", "nap"} /\ loop[n].drv = None
OwnRun == \A n \in Names : Executing(n) => Mode(n) = "Running"

SInv == Outcomes /\ OwnRun /\ rl.at # "stuck"

(* The open requests that DebugSession knows of, and those that succeeded. *)
RunOp(h) == req[h].op \in {"boot", "continue", "stop", "step"}
Done(h)  == RunOp(h) /\ res[h] = "ok"

(* A step that leaves modes, open requests and successes alone stutters.   *)
LEMMA SessionStutters ==
  ASSUME \A n \in Names : Mode(n)' = Mode(n),
         \A h \in Handlers : /\ RunOp(h)' <=> RunOp(h)
                             /\ RunOp(h) => req'[h].name = req[h].name /\ req'[h].op = req[h].op
                             /\ Done(h)' <=> Done(h)
  PROVE  UNCHANGED Session!vars
<1>1. [n \in Names |-> Mode(n)]' = [n \in Names |-> Mode(n)]
  OBVIOUS
<1>2. [h \in Handlers |->
              IF req[h].op \in {"boot", "continue", "stop", "step"}
              THEN [name |-> req[h].name, op |-> req[h].op] ELSE None]'
      = [h \in Handlers |->
              IF req[h].op \in {"boot", "continue", "stop", "step"}
              THEN [name |-> req[h].name, op |-> req[h].op] ELSE None]
  BY DEF RunOp
<1>3. {h \in Handlers : /\ req[h].op \in {"boot", "continue", "stop", "step"}
                        /\ res[h] = "ok"}'
      = {h \in Handlers : /\ req[h].op \in {"boot", "continue", "stop", "step"}
                          /\ res[h] = "ok"}
  BY DEF Done, RunOp
<1>4. QED
  BY <1>1, <1>2, <1>3 DEF Session!vars

(* The reply to a closure moves one handler; it is a success of a request  *)
(* that runs or stops a CPU only after its second closure, or its only     *)
(* one.                                                                    *)
LEMMA ReplyOutcome ==
  ASSUME TypeOK, NEW h \in Handlers, NEW ok \in BOOLEAN, Reply(h, ok), res[h] = "none"
  PROVE  /\ \A g \in Handlers : g # h => hpc'[g] = hpc[g] /\ req'[g] = req[g] /\ res'[g] = res[g]
         /\ hpc'[h] \in {"image", "go", "answer"}
         /\ hpc'[h] # "answer" => res'[h] = "none"
         /\ hpc'[h] = "image" => req[h].op = "load"
         /\ req'[h].op = req[h].op /\ req'[h].name = req[h].name
         /\ res'[h] = "ok" => req[h].stage = 2 \/ req[h].op \notin {"load", "continue", "step", "reset"}
         /\ ok /\ RunOp(h) /\ (req[h].stage = 2 \/ req[h].op \in {"boot", "stop"}) => res'[h] = "ok"
BY DEF TypeOK, Reply, Outcome, Goto, Request, RunOp

(* So every reply keeps Outcomes, and one that a handler waits for in the  *)
(* stage of its first closure is no success.                               *)
LEMMA ReplyKeeps ==
  ASSUME TypeOK, Outcomes, NEW h \in Handlers, NEW ok \in BOOLEAN, Reply(h, ok),
         hpc[h] \in {"send", "wait"}
  PROVE  /\ Outcomes'
         /\ \A g \in Handlers : /\ req'[g].op = req[g].op /\ req'[g].name = req[g].name
                                /\ hpc[h] = "wait" => (Done(g)' <=> Done(g))
<1>1. res[h] = "none"
  BY DEF Outcomes
<1>2. /\ \A g \in Handlers : g # h => hpc'[g] = hpc[g] /\ req'[g] = req[g] /\ res'[g] = res[g]
      /\ hpc'[h] \in {"image", "go", "answer"}
      /\ hpc'[h] # "answer" => res'[h] = "none"
      /\ hpc'[h] = "image" => req[h].op = "load"
      /\ req'[h].op = req[h].op /\ req'[h].name = req[h].name
      /\ res'[h] = "ok" => req[h].stage = 2 \/ req[h].op \notin {"load", "continue", "step", "reset"}
  BY <1>1, ReplyOutcome
<1>3. Outcomes'
  BY <1>2 DEF Outcomes
<1>4. ASSUME hpc[h] = "wait" PROVE ~Done(h)' /\ ~Done(h)
  BY <1>1, <1>2, <1>4 DEF Outcomes, Done, RunOp
<1>5. QED
  BY <1>2, <1>3, <1>4 DEF Done, RunOp

(* A handler's own steps keep Outcomes and neither make nor undo a         *)
(* success of a request that runs or stops a CPU, except for its answer.   *)
LEMMA HandlerOutcome ==
  ASSUME TypeOK, Outcomes, NEW h \in Handlers, HandlerStep(h)
  PROVE  /\ Outcomes'
         /\ ~Accept(h) /\ ~Answer(h) =>
              \A g \in Handlers : /\ req'[g].op = req[g].op /\ req'[g].name = req[g].name
                                  /\ Done(g)' <=> Done(g)
<1>1. CASE Accept(h)
  BY <1>1 DEF Accept, Goto, TypeOK, Outcomes, HandlerPcs
<1>2. CASE ControllerTake(h)
  BY <1>2 DEF ControllerTake, Goto, TypeOK, Outcomes, Done, RunOp
<1>3. CASE Dispatch(h)
  <2>1. /\ \A g \in Handlers : g # h => hpc'[g] = hpc[g] /\ req'[g] = req[g] /\ res'[g] = res[g]
        /\ hpc[h] = "got" /\ hpc'[h] \in {"go", "answer"}
        /\ req'[h].op = req[h].op /\ req'[h].name = req[h].name
        /\ hpc'[h] = "go" => res'[h] = res[h]
        /\ res'[h] \in {res[h], "ok", "refused"}
        /\ res'[h] = "ok" => res[h] = "ok" \/ req[h].op = "peek"
    BY <1>3 DEF Dispatch, Outcome, Goto, TypeOK, Request
  <2>2. QED
    BY <1>3, <2>1 DEF Outcomes, Done, RunOp
<1>4. CASE RejectBody(h)
  BY <1>4 DEF RejectBody, ParsingOps, Outcome, Goto, TypeOK, Outcomes, Done, RunOp
<1>5. CASE Enqueue(h)
  BY <1>5 DEF Enqueue, Goto, TypeOK, Outcomes, Done, RunOp
<1>6. CASE SetImage(h)
  BY <1>6 DEF SetImage, Outcome, Goto, TypeOK, Outcomes, Done, RunOp
<1>7. CASE Answer(h)
  BY <1>7, InitialTypes DEF Answer, Goto, TypeOK, Outcomes, NoRequest
<1>8. QED
  BY <1>1, <1>2, <1>3, <1>4, <1>5, <1>6, <1>7 DEF HandlerStep

(* A step that touches the loop and the state of at most one CPU, and      *)
(* keeps its mode.                                                         *)
LEMMA ModeFrame ==
  ASSUME SInv, NEW n \in Names, Mode(n)' = Mode(n), Executing(n)' => Executing(n) \/ Mode(n) = "Running",
         \A m \in Names : m # n => loop'[m] = loop[m] /\ cpu'[m].state = cpu[m].state
  PROVE  OwnRun' /\ \A m \in Names : Mode(m)' = Mode(m)
<1>1. \A m \in Names : m # n => Mode(m)' = Mode(m) /\ (Executing(m)' <=> Executing(m))
  BY DEF Mode, Executing
<1>2. QED
  BY <1>1 DEF SInv, OwnRun

(* A step that leaves the loops and the states of the CPUs alone.          *)
LEMMA ModeSame ==
  ASSUME SInv, loop' = loop, \A m \in Names : cpu'[m].state = cpu[m].state
  PROVE  OwnRun' /\ \A m \in Names : Mode(m)' = Mode(m)
BY DEF SInv, OwnRun, Mode, Executing

(* A request arrives: one that runs or stops a CPU is asked of the         *)
(* session, any other is none of its business.                             *)
LEMMA AcceptAsks ==
  ASSUME IInv, SInv, NEW h \in Handlers, Accept(h)
  PROVE  [Session!Next]_(Session!vars)
<1>1. PICK r \in Request : /\ req' = [req EXCEPT ![h] = r] /\ hpc[h] = "idle"
                          /\ res' = res /\ cpu' = cpu /\ loop' = loop
  BY DEF Accept, Requests
<1>2. /\ req[h].op = "none" /\ res[h] = "none"
      /\ req'[h] = r /\ \A g \in Handlers : g # h => req'[g] = req[g]
  BY <1>1 DEF IInv, TypeOK, SInv, Outcomes
<1>3. \A n \in Names : Mode(n)' = Mode(n)
  BY <1>1 DEF Mode
<1>4. \A g \in Handlers : Done(g)' <=> Done(g)
  BY <1>1, <1>2 DEF Done, RunOp
<1>5. CASE r.op \in {"boot", "continue", "stop", "step"}
  <2>1. Session!Ask(h, r.name, r.op)
    <3>1. [n \in Names |-> Mode(n)]' = [n \in Names |-> Mode(n)]
      BY <1>3
    <3>2. {g \in Handlers : /\ req[g].op \in {"boot", "continue", "stop", "step"}
                            /\ res[g] = "ok"}'
          = {g \in Handlers : /\ req[g].op \in {"boot", "continue", "stop", "step"}
                              /\ res[g] = "ok"}
      BY <1>4 DEF Done, RunOp
    <3>3. QED
      BY <1>2, <1>5, <3>1, <3>2 DEF Session!Ask
  <2>2. r.name \in Names /\ r.op \in Session!RunOps
    BY <1>5 DEF Request, Session!RunOps
  <2>3. QED
    BY <2>1, <2>2 DEF Session!Next
<1>6. CASE r.op \notin {"boot", "continue", "stop", "step"}
  <2>1. \A g \in Handlers : /\ RunOp(g)' <=> RunOp(g)
                            /\ RunOp(g) => req'[g].name = req[g].name /\ req'[g].op = req[g].op
    BY <1>2, <1>6 DEF RunOp
  <2>2. QED
    BY <1>3, <1>4, <2>1, SessionStutters
<1>7. QED
  BY <1>5, <1>6

(* An open request is no model value.                                      *)
LEMMA OpenIsSomething ==
  ASSUME TypeOK, NEW h \in Handlers, RunOp(h)
  PROVE  [name |-> req[h].name, op |-> req[h].op] # None
<1>1. req[h].name \in Names /\ req[h].op \in AllOps
  BY DEF TypeOK, Request, RunOp, AllOps
<1>2. QED
  BY <1>1, CpuServerAssumption

(* An answer closes the request.                                           *)
LEMMA AnswerFinishes ==
  ASSUME IInv, SInv, NEW h \in Handlers, Answer(h)
  PROVE  [Session!Next]_(Session!vars)
<1>1. /\ cpu' = cpu /\ loop' = loop
      /\ req'[h].op = "none" /\ \A g \in Handlers : g # h => req'[g] = req[g] /\ res'[g] = res[g]
  BY DEF Answer, NoRequest, IInv, TypeOK
<1>2. \A n \in Names : Mode(n)' = Mode(n)
  BY <1>1 DEF Mode
<1>3. CASE RunOp(h)
  <2>1. Session!Finish(h)
    <3>1. [n \in Names |-> Mode(n)]' = [n \in Names |-> Mode(n)]
      BY <1>2
    <3>2. {g \in Handlers : /\ req[g].op \in {"boot", "continue", "stop", "step"}
                            /\ res[g] = "ok"}'
          = {g \in Handlers : /\ req[g].op \in {"boot", "continue", "stop", "step"}
                              /\ res[g] = "ok"} \ {h}
      BY <1>1
    <3>3. [name |-> req[h].name, op |-> req[h].op] # None
      BY <1>3, OpenIsSomething DEF IInv
    <3>4. QED
      BY <1>1, <1>3, <3>1, <3>2, <3>3 DEF Session!Finish, RunOp
  <2>2. QED
    BY <2>1 DEF Session!Next
<1>4. CASE ~RunOp(h)
  <2>1. \A g \in Handlers : /\ RunOp(g)' <=> RunOp(g)
                            /\ RunOp(g) => req'[g].name = req[g].name /\ req'[g].op = req[g].op
                            /\ Done(g)' <=> Done(g)
    BY <1>1, <1>4 DEF RunOp, Done
  <2>2. QED
    BY <1>2, <2>1, SessionStutters
<1>5. QED
  BY <1>3, <1>4

(* A loop at its receive is awake, and shows its mode.                     *)
LEMMA AwakeMode ==
  ASSUME IInv, SInv, NEW n \in Names, loop[n].at # "none", ~Polling(n)
  PROVE  cpu[n].state # "IoSleep" /\ Mode(n) = cpu[n].state
BY DEF IInv, SInv, SleepIffPolling, Mode

(* The last closure of a request that runs or stops a CPU takes effect;    *)
(* those of other requests do not touch the session.                       *)
LEMMA QuickTakesEffect ==
  ASSUME IInv, SInv, NEW n \in Names, NEW h \in Handlers, TakeQuick(n, h)
  PROVE  SInv' /\ [Session!Next]_(Session!vars)
<1> USE DEF IInv
<1>1. /\ loop[n].at = "top" /\ hpc[h] = "send" /\ req[h].name = n
      /\ req[h].stage = 2 \/ req[h].op \notin {"load", "reset", "continue", "step"}
      /\ Reply(h, TRUE) /\ loop' = loop /\ rl' = rl /\ res[h] = "none"
  BY DEF TakeQuick, Takes, Waiting, SInv, Outcomes
<1>2. PICK a \in Addrs : cpu' = [cpu EXCEPT ![n] = Applied(cpu[n], req[h], a)]
  BY DEF TakeQuick
<1>3. cpu[n].state # "IoSleep" /\ Mode(n) = cpu[n].state
  BY <1>1, AwakeMode DEF Polling
<1>4. \A m \in Names : m # n => cpu'[m] = cpu[m]
  BY <1>2 DEF TypeOK
<1>5. cpu'[n] = Applied(cpu[n], req[h], a) /\ cpu[n] \in Cpu
  BY <1>2 DEF TypeOK
<1>6. \A g \in Handlers : /\ g # h => res'[g] = res[g]
                          /\ req'[g].op = req[g].op /\ req'[g].name = req[g].name
  BY <1>1, ReplyOutcome
<1>7. Outcomes' /\ rl'.at # "stuck"
  BY <1>1, ReplyKeeps DEF SInv
<1>8. OwnRun'
  <2>1. \A m \in Names : Executing(m)' => Executing(m) /\ m # n
    BY <1>1 DEF Executing
  <2>2. \A m \in Names : m # n => Mode(m)' = Mode(m)
    BY <1>1, <1>4 DEF Mode
  <2>3. QED
    BY <2>1, <2>2 DEF SInv, OwnRun
<1>9. CASE RunOp(h)
  <2>1. res'[h] = "ok"
    BY <1>1, <1>9, ReplyOutcome DEF RunOp
  <2>2. cpu'[n].state = Session!Effect(req[h].op)
    BY <1>5, <1>9 DEF Applied, RunOp, Session!Effect, Cpu
  <2>3. \A m \in Names : Mode(m)' = IF m = n THEN Session!Effect(req[h].op) ELSE Mode(m)
    BY <1>1, <1>4, <2>2 DEF Mode, Session!Effect
  <2>4. Mode(n) # "absent"
    BY <1>3, <1>5 DEF Cpu, States
  <2>5. [name |-> req[h].name, op |-> req[h].op] # None
    BY <1>9, OpenIsSomething
  <2>6. Session!TakeEffect(h)
    <3>1. [m \in Names |-> Mode(m)]'
          = [[m \in Names |-> Mode(m)] EXCEPT ![n] = Session!Effect(req[h].op)]
      BY <2>3
    <3>2. [g \in Handlers |->
              IF req[g].op \in {"boot", "continue", "stop", "step"}
              THEN [name |-> req[g].name, op |-> req[g].op] ELSE None]'
          = [g \in Handlers |->
              IF req[g].op \in {"boot", "continue", "stop", "step"}
              THEN [name |-> req[g].name, op |-> req[g].op] ELSE None]
      BY <1>6
    <3>3. {g \in Handlers : /\ req[g].op \in {"boot", "continue", "stop", "step"}
                            /\ res[g] = "ok"}'
          = {g \in Handlers : /\ req[g].op \in {"boot", "continue", "stop", "step"}
                              /\ res[g] = "ok"} \cup {h}
      BY <1>6, <1>9, <2>1 DEF RunOp
    <3>4. QED
      BY <1>1, <1>9, <2>4, <2>5, <3>1, <3>2, <3>3 DEF Session!TakeEffect, RunOp
  <2>7. QED
    BY <1>7, <1>8, <2>6 DEF SInv, Session!Next
<1>10. CASE ~RunOp(h)
  <2>1. cpu'[n].state = cpu[n].state
    <3>1. [cpu[n] EXCEPT !.bp[req[h].addr] = req[h].kind].state = cpu[n].state
      BY <1>5 DEF Cpu
    <3>2. \A x : [cpu[n] EXCEPT !.pc = x].state = cpu[n].state
      BY <1>5 DEF Cpu
    <3>3. QED
      BY <1>5, <1>10, <3>1, <3>2 DEF Applied, RunOp
  <2>2. \A m \in Names : Mode(m)' = Mode(m)
    BY <1>1, <1>4, <2>1 DEF Mode
  <2>3. UNCHANGED Session!vars
    BY <1>6, <1>10, <2>2, SessionStutters DEF Done, RunOp
  <2>4. QED
    BY <1>7, <1>8, <2>3 DEF SInv
<1>11. QED
  BY <1>9, <1>10

(* An instruction that begins hides behind the state its CPU had before.   *)
LEMMA BeginKeepsMode ==
  ASSUME IInv, SInv, NEW n \in Names, NEW d \in Handlers \cup {None}, NEW b \in BOOLEAN,
         BeginInsn(n, d, b), loop[n].at = "top", d # None \/ cpu[n].state = "Running"
  PROVE  OwnRun' /\ \A m \in Names : Mode(m)' = Mode(m)
<1>1. cpu[n].state # "IoSleep" /\ Mode(n) = cpu[n].state
  BY AwakeMode DEF Polling
<1>2. /\ loop'[n].at = "exec" /\ loop'[n].drv = d /\ loop'[n].saved = cpu[n].state
      /\ cpu'[n].state \in {"IoSleep", cpu[n].state}
      /\ \A m \in Names : m # n => loop'[m] = loop[m] /\ cpu'[m] = cpu[m]
  BY BeginInsnEffect DEF IInv
<1>3. Mode(n)' = Mode(n)
  BY <1>1, <1>2 DEF Mode
<1>4. Executing(n)' => Mode(n) = "Running"
  BY <1>1, <1>2 DEF Executing
<1>5. QED
  BY <1>2, <1>3, <1>4, ModeFrame

(* A breakpoint stops a running CPU.                                       *)
LEMMA BreakHalts ==
  ASSUME IInv, SInv, NEW n \in Names, BreakStop(n)
  PROVE  SInv' /\ [Session!Next]_(Session!vars)
<1>1. /\ loop[n].at = "top" /\ cpu[n].state = "Running"
      /\ cpu' = [cpu EXCEPT ![n].state = "Stopped"] /\ loop' = loop /\ rl' = rl
      /\ hpc' = hpc /\ req' = req /\ res' = res
  BY DEF BreakStop, Runs, hvars
<1>2. cpu'[n].state = "Stopped" /\ \A m \in Names : m # n => cpu'[m] = cpu[m]
  BY <1>1 DEF IInv, TypeOK, Cpu
<1>3. \A m \in Names : Mode(m)' = IF m = n THEN "Stopped" ELSE Mode(m)
  BY <1>1, <1>2 DEF Mode
<1>4. Mode(n) = "Running"
  BY <1>1 DEF Mode
<1>5. Session!Halt(n)
  <2>1. [m \in Names |-> Mode(m)]' = [[m \in Names |-> Mode(m)] EXCEPT ![n] = "Stopped"]
    BY <1>3
  <2>2. QED
    BY <1>1, <1>4, <2>1 DEF Session!Halt
<1>6. \A m \in Names : Executing(m)' => Executing(m) /\ m # n
  BY <1>1 DEF Executing
<1>7. OwnRun'
  BY <1>3, <1>6 DEF SInv, OwnRun
<1>8. QED
  BY <1>1, <1>5, <1>7 DEF SInv, Outcomes, Session!Next

(* An instruction that a running CPU executed by itself ends: the CPU runs *)
(* on, or halts.                                                           *)
LEMMA OwnInsnEnds ==
  ASSUME IInv, SInv, NEW n \in Names, InsnDone(n), loop[n].drv = None
  PROVE  SInv' /\ [Session!Next]_(Session!vars)
<1>1. /\ loop[n].at = "exec" /\ loop[n].todo = <<>> /\ rl' = rl
      /\ hpc' = hpc /\ req' = req /\ res' = res
      /\ loop' = [loop EXCEPT ![n] = LoopAt("top")]
  BY DEF InsnDone, hvars
<1>2. loop'[n].at = "top" /\ \A m \in Names : m # n => loop'[m] = loop[m]
  BY <1>1, TopFields DEF IInv, TypeOK
<1>3. cpu[n].state = "Running" /\ Mode(n) = "Running"
  <2>1. ~Polling(n)
    BY <1>1 DEF Polling
  <2>2. QED
    BY <1>1, <2>1, AwakeMode DEF SInv, OwnRun, Executing
<1>4. PICK s \in {"Stopped", "Fault", "Running"} : cpu' = [cpu EXCEPT ![n].state = s]
  BY <1>3 DEF InsnDone
<1>5. cpu'[n].state = s /\ \A m \in Names : m # n => cpu'[m] = cpu[m]
  BY <1>4 DEF IInv, TypeOK, Cpu
<1>6. \A m \in Names : Mode(m)' = IF m = n THEN s ELSE Mode(m)
  BY <1>2, <1>5 DEF Mode
<1>7. [Session!Next]_(Session!vars)
  <2>1. CASE s = "Running"
    BY <1>1, <1>3, <1>6, <2>1, SessionStutters DEF Done, RunOp
  <2>2. CASE s # "Running"
    <3>1. [m \in Names |-> Mode(m)]' = [[m \in Names |-> Mode(m)] EXCEPT ![n] = s]
      BY <1>6
    <3>2. Session!Halt(n)
      BY <1>1, <1>3, <2>2, <3>1 DEF Session!Halt
    <3>3. QED
      BY <3>2 DEF Session!Next
  <2>3. QED
    BY <2>1, <2>2
<1>8. OwnRun'
  BY <1>2, <1>6 DEF SInv, OwnRun, Executing
<1>9. QED
  BY <1>1, <1>7, <1>8 DEF SInv, Outcomes

(* The controller creates the CPU of a name it does not know.              *)
LEMMA ControllerCreates ==
  ASSUME IInv, SInv, ControllerReply
  PROVE  SInv' /\ [Session!Next]_(Session!vars)
<1> USE DEF IInv
<1>1. /\ rl' = rl /\ req' = req /\ res' = res
      /\ ctl \in Handlers /\ hpc[ctl] = "asked" /\ hpc'[ctl] = "got"
      /\ \A g \in Handlers : g # ctl => hpc'[g] = hpc[g]
  BY ControllerEffect DEF ControllerReply
<1>2. Outcomes'
  BY <1>1 DEF SInv, Outcomes
<1>3. PICK n \in Names : n = req[ctl].name
  BY <1>1 DEF TypeOK, Request
<1>4. CASE loop[n].at # "none"
  <2>1. cpu' = cpu /\ loop' = loop
    BY <1>3, <1>4 DEF ControllerReply
  <2>2. QED
    BY <1>1, <1>2, <2>1, ModeSame, SessionStutters DEF SInv, Done, RunOp
<1>5. CASE loop[n].at = "none"
  <2>1. cpu' = [cpu EXCEPT ![n] = NewUserCpu] /\ loop' = [loop EXCEPT ![n] = LoopAt("top")]
    BY <1>3, <1>5 DEF ControllerReply
  <2>2. /\ loop'[n].at = "top" /\ cpu'[n].state = "Stopped"
        /\ \A m \in Names : m # n => loop'[m] = loop[m] /\ cpu'[m] = cpu[m]
    BY <2>1, TopFields DEF TypeOK, NewUserCpu
  <2>3. \A m \in Names : Mode(m)' = IF m = n THEN "Stopped" ELSE Mode(m)
    BY <2>2 DEF Mode
  <2>4. Session!Create(n)
    <3>1. [m \in Names |-> Mode(m)]' = [[m \in Names |-> Mode(m)] EXCEPT ![n] = "Stopped"]
      BY <2>3
    <3>2. Mode(n) = "absent"
      BY <1>5 DEF Mode
    <3>3. QED
      BY <1>1, <3>1, <3>2 DEF Session!Create
  <2>5. OwnRun'
    BY <2>2, <2>3 DEF SInv, OwnRun, Executing
  <2>6. QED
    BY <1>1, <1>2, <2>4, <2>5 DEF SInv, Session!Next
<1>6. QED
  BY <1>4, <1>5

(* A step that keeps every mode, and answers nobody or only a handler that *)
(* waits for its first closure, is no business of the session.             *)
LEMMA SessionFrame ==
  ASSUME IInv, SInv, OwnRun', rl'.at # "stuck", \A m \in Names : Mode(m)' = Mode(m),
         \/ UNCHANGED hvars
         \/ \E h \in Handlers, ok \in BOOLEAN : Reply(h, ok) /\ hpc[h] = "wait"
  PROVE  SInv' /\ [Session!Next]_(Session!vars)
<1>1. CASE UNCHANGED hvars
  BY <1>1, SessionStutters DEF hvars, SInv, Outcomes, Done, RunOp
<1>2. ASSUME NEW h \in Handlers, NEW ok \in BOOLEAN, Reply(h, ok), hpc[h] = "wait"
      PROVE  SInv' /\ UNCHANGED Session!vars
  <2>1. /\ Outcomes'
        /\ \A g \in Handlers : /\ req'[g].op = req[g].op /\ req'[g].name = req[g].name
                               /\ Done(g)' <=> Done(g)
    BY <1>2, ReplyKeeps DEF IInv, SInv
  <2>2. QED
    BY <2>1, SessionStutters DEF SInv, RunOp
<1>3. QED
  BY <1>1, <1>2

(* Every step of the service is one of the session or invisible to it.     *)
LEMMA SessionStep ==
  ASSUME NoHooks, IInv, SInv, [Next]_vars
  PROVE  SInv' /\ [Session!Next]_(Session!vars)
<1> USE DEF IInv
<1> DEFINE Goal == SInv' /\ [Session!Next]_(Session!vars)
<1>0. rl.name \in Names /\ rl.key \in Keys /\ rl.at # "stuck"
      /\ \A n \in Names : cpu[n] \in Cpu /\ loop[n] \in LoopRec
  BY DEF TypeOK, RlRec, SInv
<1>1. ASSUME NEW h \in Handlers, HandlerStep(h) PROVE Goal
  <2>1. /\ loop' = loop /\ rl' = rl /\ \A m \in Names : cpu'[m].state = cpu[m].state
    BY <1>1, HandlerEffect
  <2>2. OwnRun' /\ (\A m \in Names : Mode(m)' = Mode(m)) /\ Outcomes'
    BY <1>1, <2>1, ModeSame, HandlerOutcome DEF SInv
  <2>3. SInv'
    BY <1>0, <2>1, <2>2 DEF SInv
  <2>4. CASE Accept(h) \/ Answer(h)
    BY <2>3, <2>4, AcceptAsks, AnswerFinishes
  <2>5. CASE ~Accept(h) /\ ~Answer(h)
    BY <1>1, <2>2, <2>3, <2>5, HandlerOutcome, SessionStutters DEF SInv, RunOp
  <2>6. QED
    BY <2>4, <2>5
<1>2. CASE ControllerReply
  BY <1>2, ControllerCreates
<1>3. ASSUME NEW n \in Names, LoopStep(n) PROVE Goal
  <2>1. ASSUME NEW h \in Handlers, TakeQuick(n, h) PROVE Goal
    BY <2>1, QuickTakesEffect
  <2>2. ASSUME NEW h \in Handlers, TakeStep(n, h) PROVE Goal
    <3>1. /\ loop[n].at = "top" /\ BeginInsn(n, h, FALSE) /\ h # None
          /\ req[h].stage = 1 /\ req[h].op \in {"continue", "step"}
          /\ req' = req /\ res' = res /\ rl' = rl /\ hpc[h] = "send"
          /\ hpc' = [hpc EXCEPT ![h] = "wait"]
      BY <2>2, CpuServerAssumption DEF TakeStep, Takes, Waiting, Goto
    <3>2. OwnRun' /\ \A m \in Names : Mode(m)' = Mode(m)
      BY <3>1, BeginKeepsMode
    <3>3. Outcomes'
      BY <3>1 DEF SInv, Outcomes, TypeOK
    <3>4. QED
      BY <1>0, <3>1, <3>2, <3>3, SessionStutters DEF SInv, Done, RunOp
  <2>3. ASSUME NEW h \in Handlers, TakeLoad(n, h) PROVE Goal
    <3>1. /\ loop[n].at = "top" /\ h # None /\ cpu' = cpu
          /\ req[h].stage = 1 /\ req[h].op \in {"load", "reset"}
          /\ req' = req /\ res' = res /\ rl' = rl /\ hpc[h] = "send"
          /\ hpc' = [hpc EXCEPT ![h] = "wait"]
          /\ loop'[n].at = "exec" /\ loop'[n].drv = h
          /\ \A m \in Names : m # n => loop'[m] = loop[m]
      BY <2>3, CpuServerAssumption DEF TakeLoad, Takes, Waiting, Goto, LoopAt, TypeOK
    <3>2. cpu[n].state # "IoSleep" /\ Mode(n) = cpu[n].state
      BY <3>1, AwakeMode DEF Polling
    <3>3. OwnRun' /\ \A m \in Names : Mode(m)' = Mode(m)
      BY <3>1, <3>2, ModeFrame DEF Mode, Executing
    <3>4. Outcomes'
      BY <3>1 DEF SInv, Outcomes, TypeOK
    <3>5. QED
      BY <1>0, <3>1, <3>3, <3>4, SessionStutters DEF SInv, Done, RunOp
  <2>4. CASE BreakStop(n)
    BY <2>4, BreakHalts
  <2>5. CASE RunInsn(n)
    <3>1. (cpu[n].bp[cpu[n].pc] = "step") \in BOOLEAN
      OBVIOUS
    <3>2. OwnRun' /\ \A m \in Names : Mode(m)' = Mode(m)
      BY <2>5, <3>1, BeginKeepsMode DEF RunInsn, Runs
    <3>3. QED
      BY <1>0, <2>5, <3>2, SessionFrame DEF RunInsn
  <2>6. CASE InsnDone(n)
    <3>1. CASE loop[n].drv = None
      BY <2>6, <3>1, OwnInsnEnds
    <3>2. CASE loop[n].drv # None
      <4>1. PICK g \in Handlers : g = loop[n].drv
        BY <1>0, <3>2 DEF LoopRec
      <4>2. /\ loop[n].at = "exec" /\ loop[n].todo = <<>> /\ rl' = rl /\ cpu' = cpu
            /\ loop' = [loop EXCEPT ![n] = LoopAt("top")]
        BY <2>6, <3>2 DEF InsnDone
      <4>3. \E ok \in BOOLEAN : Reply(g, ok)
        BY <1>0, <2>6, <3>2, <4>1 DEF InsnDone, LoopRec
      <4>4. hpc[g] = "wait"
        BY <4>1, <4>2 DEF WaitIffOwed, LoopOwes
      <4>5. cpu[n].state # "IoSleep" /\ Mode(n) = cpu[n].state
        BY <4>2, AwakeMode DEF Polling
      <4>6. loop'[n].at = "top" /\ \A m \in Names : m # n => loop'[m] = loop[m]
        BY <4>2, TopFields DEF TypeOK
      <4>7. OwnRun' /\ \A m \in Names : Mode(m)' = Mode(m)
        BY <4>2, <4>5, <4>6, ModeFrame DEF Mode, Executing
      <4>8. QED
        BY <1>0, <4>2, <4>3, <4>4, <4>7, SessionFrame
    <3>3. QED
      BY <3>1, <3>2
  <2>7. CASE NapEnd(n)
    <3>1. /\ loop'[n].at = "exec" /\ loop[n].at = "nap"
          /\ loop'[n].drv = loop[n].drv /\ loop'[n].saved = loop[n].saved
          /\ cpu' = cpu /\ rl' = rl /\ \A m \in Names : m # n => loop'[m] = loop[m]
      BY <1>0, <2>7 DEF NapEnd, TypeOK, LoopRec
    <3>2. OwnRun' /\ \A m \in Names : Mode(m)' = Mode(m)
      BY <3>1, ModeFrame DEF Mode, Executing
    <3>3. QED
      BY <1>0, <2>7, <3>1, <3>2, SessionFrame DEF NapEnd
  <2>8. QED
    BY <1>3, <2>1, <2>2, <2>3, <2>4, <2>5, <2>6, <2>7 DEF LoopStep
<1>4. CASE RedisStep
  <2>1. ASSUME NEW n \in Names, RedisTake(n) PROVE Goal
    <3>1. cpu' = cpu /\ loop[n].at = "exec" /\ UNCHANGED hvars
      BY <2>1 DEF RedisTake
    <3>2. rl'.at = "run" /\ \A m \in Names : m # n => loop'[m] = loop[m]
      BY <2>1, RedisTakeEffect
    <3>3. CASE rl'.op = "load"
      <4>1. loop'[n].at = "top" /\ loop[n].todo = <<"load">>
        BY <2>1, <3>3, RedisTakeEffect, TopFields
      <4>2. <<"load">> # <<"poll">>
        OBVIOUS
      <4>3. cpu[n].state # "IoSleep" /\ Mode(n) = cpu[n].state
        BY <3>1, <4>1, <4>2, AwakeMode DEF Polling
      <4>4. OwnRun' /\ \A m \in Names : Mode(m)' = Mode(m)
        BY <3>1, <3>2, <4>1, <4>3, ModeFrame DEF Mode, Executing
      <4>5. QED
        BY <3>1, <3>2, <4>4, SessionFrame
    <3>4. CASE rl'.op # "load"
      <4>1. /\ loop'[n].at \in {"exec", "reply"}
            /\ loop'[n].drv = loop[n].drv /\ loop'[n].saved = loop[n].saved
        BY <2>1, <3>4, RedisTakeEffect
      <4>2. OwnRun' /\ \A m \in Names : Mode(m)' = Mode(m)
        BY <3>1, <3>2, <4>1, ModeFrame DEF Mode, Executing
      <4>3. QED
        BY <3>1, <3>2, <4>2, SessionFrame
    <3>5. QED
      BY <3>3, <3>4
  <2>2. CASE RedisWrite \/ RedisCredit
    BY <2>2, IdleFields, ModeSame, SessionFrame DEF RedisWrite, RedisCredit
  <2>3. CASE RedisGetrange
    <3>1. PICK n \in Names : n = rl.name
      BY <1>0
    <3>2. /\ loop[n].at = "reply" /\ rl' = RedisIdle /\ cpu' = cpu /\ UNCHANGED hvars
          /\ \/ loop' = loop
             \/ loop' = [loop EXCEPT ![n].at = "exec", ![n].todo = <<"set">>]
      BY <2>3, <3>1 DEF RedisGetrange, HandOff
    <3>3. /\ loop'[n].at \in {"exec", "reply"} /\ loop'[n].saved = loop[n].saved
          /\ loop'[n].drv = loop[n].drv /\ \A m \in Names : m # n => loop'[m] = loop[m]
      BY <1>0, <3>2 DEF TypeOK, LoopRec
    <3>4. OwnRun' /\ \A m \in Names : Mode(m)' = Mode(m)
      BY <3>2, <3>3, ModeFrame DEF Mode, Executing
    <3>5. QED
      BY <3>2, <3>4, IdleFields, SessionFrame
  <2>4. CASE RedisPoll
    <3>1. PICK n \in Names : n = rl.name
      BY <1>0
    <3>2. loop[n].at = "reply" /\ rl' = RedisIdle /\ UNCHANGED hvars /\ Polling(n)
      BY <2>4, <3>1 DEF RedisPoll, PollAnswers, PollFindsNothing, HandOff, Polling
    <3>3. cpu[n].state = "IoSleep" /\ loop[n].saved # "IoSleep" /\ Mode(n) = loop[n].saved
      BY <1>0, <3>2 DEF SleepIffPolling, WakesUp, Mode
    <3>4. CASE cpu' = cpu /\ loop' = loop
      BY <3>2, <3>4, IdleFields, ModeSame, SessionFrame
    <3>5. CASE /\ cpu' = [cpu EXCEPT ![n].state = loop[n].saved]
               /\ loop' = [loop EXCEPT ![n].at = "exec", ![n].todo = <<>>]
      <4>1. /\ loop'[n].at = "exec" /\ loop'[n].drv = loop[n].drv
            /\ \A m \in Names : m # n => loop'[m] = loop[m]
        BY <1>0, <3>5 DEF TypeOK, LoopRec
      <4>2. /\ cpu'[n].state = loop[n].saved /\ \A m \in Names : m # n => cpu'[m] = cpu[m]
        BY <1>0, <3>5 DEF TypeOK, Cpu
      <4>3. OwnRun' /\ \A m \in Names : Mode(m)' = Mode(m)
        BY <3>2, <3>3, <4>1, <4>2, ModeFrame DEF Mode, Executing
      <4>4. QED
        BY <3>2, <4>3, IdleFields, SessionFrame
    <3>6. CASE cpu' = cpu /\ loop' = [loop EXCEPT ![n].at = "nap"]
      <4>1. /\ loop'[n].at = "nap" /\ loop'[n].drv = loop[n].drv
            /\ loop'[n].saved = loop[n].saved
            /\ \A m \in Names : m # n => loop'[m] = loop[m]
        BY <1>0, <3>6 DEF TypeOK, LoopRec
      <4>2. OwnRun' /\ \A m \in Names : Mode(m)' = Mode(m)
        BY <3>2, <3>6, <4>1, ModeFrame DEF Mode, Executing
      <4>3. QED
        BY <3>2, <4>2, IdleFields, SessionFrame
    <3>7. QED
      BY <2>4, <3>1, <3>4, <3>5, <3>6 DEF RedisPoll, PollAnswers, PollFindsNothing
  <2>5. ASSUME rl.op = "load", Reply(rl.drv, TRUE) \/ Reply(rl.drv, FALSE)
        PROVE  \E h \in Handlers, ok \in BOOLEAN : Reply(h, ok) /\ hpc[h] = "wait"
    <3>1. rl.drv \in Handlers /\ hpc[rl.drv] = "wait"
      BY <2>5 DEF HandOff, WaitIffOwed, RedisOwes
    <3>2. QED
      BY <2>5, <3>1
  <2>6. CASE RedisGetImage
    <3>1. loop' = loop /\ \A m \in Names : cpu'[m].state = cpu[m].state
      <4>1. loop' = loop /\ (cpu' = cpu \/ cpu' = [cpu EXCEPT ![rl.name].hash = rl.key])
        BY <2>6 DEF RedisGetImage
      <4>2. ASSUME cpu' = [cpu EXCEPT ![rl.name].hash = rl.key]
            PROVE  \A m \in Names : cpu'[m].state = cpu[m].state
        BY <1>0, <4>2 DEF TypeOK, Cpu
      <4>3. QED
        BY <4>1, <4>2
    <3>2. rl'.at # "stuck"
      BY <2>6, IdleFields DEF RedisGetImage, TypeOK, RlRec
    <3>3. QED
      BY <2>5, <2>6, <3>1, <3>2, ModeSame, SessionFrame DEF RedisGetImage
  <2>7. CASE LoadHexClear
    <3>1. loop' = loop /\ \A m \in Names : cpu'[m].state = cpu[m].state
      BY <1>0, <2>7 DEF LoadHexClear, TypeOK, Cpu
    <3>2. rl'.at # "stuck"
      BY <2>7 DEF LoadHexClear, TypeOK, RlRec
    <3>3. QED
      BY <2>7, <3>1, <3>2, ModeSame, SessionFrame DEF LoadHexClear
  <2>8. CASE LoadHexStore
    <3>1. loop' = loop /\ rl' = RedisIdle /\ \A m \in Names : cpu'[m].state = cpu[m].state
      <4>1. /\ loop' = loop /\ rl' = RedisIdle
            /\ cpu' = cpu \/ cpu' = [cpu EXCEPT ![rl.name].whole = TRUE]
        BY <1>0, <2>8 DEF LoadHexStore, NoHooks
      <4>2. ASSUME cpu' = [cpu EXCEPT ![rl.name].whole = TRUE]
            PROVE  \A m \in Names : cpu'[m].state = cpu[m].state
        BY <1>0, <4>2 DEF TypeOK, Cpu
      <4>3. QED
        BY <4>1, <4>2
    <3>2. rl.op = "load" /\ (Reply(rl.drv, TRUE) \/ Reply(rl.drv, FALSE))
      BY <1>0, <2>8 DEF LoadHexStore, NoHooks
    <3>3. QED
      BY <2>5, <3>1, <3>2, IdleFields, ModeSame, SessionFrame
  <2>9. QED
    BY <1>4, <2>1, <2>2, <2>3, <2>4, <2>6, <2>7, <2>8 DEF RedisStep
<1>5. CASE Environment \/ UNCHANGED vars
  BY <1>0, <1>5, ModeSame, SessionFrame DEF Environment, RedisFails, Type, vars, hvars
<1>6. QED
  BY <1>1, <1>2, <1>3, <1>4, <1>5 DEF Next

(* The service keeps the promises of DebugSession, for any number of       *)
(* handlers, CPUs and breakpoints and whatever images Redis holds, as long *)
(* as none has bytes at the address of an I/O register: requests that run  *)
(* or stop a CPU take effect once, before their success is answered, and   *)
(* nothing else sets a CPU running.                                        *)
THEOREM SessionIsKept ==
  ASSUME NoHooks PROVE Spec => KeepsSession
<1>1. Init => SInv
  <2> SUFFICES ASSUME Init PROVE SInv
    OBVIOUS
  <2>1. /\ \A h \in Handlers : hpc[h] = "idle" /\ req[h].op = "none" /\ res[h] = "none"
        /\ \A n \in Names : loop[n].at = "none"
        /\ rl.at = "run"
    BY TopFields, IdleFields DEF Init, NoRequest
  <2>2. QED
    BY <2>1 DEF SInv, Outcomes, OwnRun, Executing
<1>2. Init => Session!Init
  <2> SUFFICES ASSUME Init PROVE Session!Init
    OBVIOUS
  <2>1. /\ \A h \in Handlers : req[h].op = "none"
        /\ \A n \in Names : Mode(n) = "absent"
    BY TopFields DEF Init, NoRequest, Mode
  <2>2. QED
    BY <2>1 DEF Session!Init
<1>3. IInv /\ SInv /\ [Next]_vars => SInv' /\ [Session!Next]_(Session!vars)
  BY SessionStep
<1>4. QED
  BY <1>1, <1>2, <1>3, IInvInvariant, PTL DEF Spec, KeepsSession, Session!Spec

-----------------------------------------------------------------------------
(* Completions and resets of one careful client *)

(* One request is open at a time, and one that replaces or reloads the     *)
(* image of a CPU is sent only when that CPU does not execute.             *)
CarefulClient == Careful /\ \A g, h \in Handlers : g = h

Reloading(h) == req[h].op \in {"load", "reset"}
Busy(n)      == loop[n].at \in {"exec", "reply", "nap"}

(* A loop sends only while it executes, what a CPU executes by itself it   *)
(* executes running, and a completion on its way to RedisLand is that of   *)
(* the digest its CPU still has.                                           *)
LoopFine(n) ==
  /\ loop[n].todo # <<>> => Busy(n)
  /\ Executing(n) => /\ loop[n].saved = "Running"
                     /\ cpu[n].state = "Running" \/ Polling(n)
  /\ loop[n].todo \in {<<"set", "log", "credit">>, <<"log", "credit">>, <<"credit">>} =>
       cpu[n].hash = loop[n].by

(* A load is the one that its handler asks for.                            *)
LoadsAsked ==
  /\ \A n \in Names : loop[n].todo = <<"load">> =>
       \E h \in Handlers : loop[n].drv = h /\ Reloading(h) /\ loop[n].key = req[h].key
  /\ rl.op = "load" => Reloading(rl.drv) /\ rl.key = req[rl.drv].key

(* A completion that RedisLand records.                                    *)
Crediting == rl.op = "credit" => loop[rl.name].at # "none" /\ cpu[rl.name].hash = rl.by

(* A CPU whose image is being replaced or reloaded does not execute.       *)
Still(h) ==
  Reloading(h) => /\ cpu[req[h].name].state # "Running" /\ ~Executing(req[h].name)
                  /\ \A n \in Names : LoopOwes(n, h) => loop[n].todo = <<"load">>

(* A reset loads the image that its CPU had when it was dispatched, which  *)
(* still is the image of the CPU; after the load it is in memory.          *)
Restored(n) ==
  up /\ KeyKind[cpu[n].image] = "ok" => cpu[n].mem = cpu[n].image /\ cpu[n].whole
Resetting(h) ==
  req[h].op = "reset" =>
    /\ hpc[h] \in {"get", "asked", "got"} => req[h].stage = 1
    /\ hpc[h] \in {"go", "send", "wait"} /\ req[h].stage = 1 =>
         req[h].key = cpu[req[h].name].image
    /\ hpc[h] \in {"go", "send", "answer"} /\ req[h].stage = 2 => Restored(req[h].name)
    /\ hpc[h] = "answer" => req[h].stage = 2

CInv == /\ LoadsAsked /\ Crediting
        /\ \A n \in Names : LoopFine(n)
        /\ \A h \in Handlers : Still(h) /\ Resetting(h)

(* While a handler is not waiting, nothing loads and no loop works for it. *)
LEMMA NothingLoads ==
  ASSUME CarefulClient, IInv, CInv, NEW h \in Handlers, hpc[h] # "wait"
  PROVE  /\ rl.op # "load"
         /\ \A n \in Names : loop[n].todo # <<"load">>
         /\ \A n \in Names, g \in Handlers : ~LoopOwes(n, g)
<1>1. \A g \in Handlers : hpc[g] # "wait"
  BY DEF CarefulClient
<1>2. \A n \in Names, g \in Handlers : ~LoopOwes(n, g)
  BY <1>1 DEF IInv, WaitIffOwed
<1>3. rl.op # "load"
  BY <1>1 DEF IInv, WaitIffOwed, RedisOwes, HandOff
<1>4. ASSUME NEW n \in Names, loop[n].todo = <<"load">> PROVE FALSE
  <2>1. Busy(n)
    <3>1. <<"load">> # <<>>
      OBVIOUS
    <3>2. QED
      BY <1>4, <3>1 DEF CInv, LoopFine
  <2>2. PICK g \in Handlers : loop[n].drv = g
    BY <1>4 DEF CInv, LoadsAsked
  <2>3. QED
    BY <1>2, <2>1, <2>2 DEF Busy, LoopOwes
<1>5. QED
  BY <1>2, <1>3, <1>4

(* While RedisLand loads, it is for the only handler, which waits; the     *)
(* loop of that CPU is at its receive, and no other loop has a load.       *)
LEMMA LoadQuiet ==
  ASSUME CarefulClient, IInv, CInv, rl.op = "load"
  PROVE  /\ rl.drv \in Handlers /\ hpc[rl.drv] = "wait" /\ Reloading(rl.drv)
         /\ rl.name = req[rl.drv].name /\ rl.key = req[rl.drv].key
         /\ ~Busy(rl.name) /\ loop[rl.name].todo = <<>>
         /\ cpu[rl.name].state # "Running"
         /\ \A n \in Names : /\ loop[n].todo # <<"load">>
                             /\ \A g \in Handlers : ~LoopOwes(n, g)
<1> USE DEF IInv
<1>1. PICK g \in Handlers : g = rl.drv
  BY DEF HandOff
<1>2. RedisOwes(g) /\ hpc[g] = "wait" /\ rl.name = req[g].name /\ rl.name \in Names
  BY <1>1 DEF RedisOwes, WaitIffOwed, TypeOK, RlRec
<1>3. Reloading(g) /\ rl.key = req[g].key
  BY <1>1 DEF CInv, LoadsAsked
<1>4. \A n \in Names : ~LoopOwes(n, g)
  BY <1>2 DEF WaitIffOwed
<1>5. \A n \in Names, f \in Handlers : ~LoopOwes(n, f)
  BY <1>4 DEF CarefulClient
<1>6. cpu[rl.name].state # "Running" /\ ~Executing(rl.name)
  BY <1>2, <1>3 DEF CInv, Still
<1>7. ~Busy(rl.name)
  <2>1. loop[rl.name].drv \in Handlers \cup {None}
    BY <1>2 DEF TypeOK, LoopRec
  <2>2. QED
    BY <1>2, <1>5, <1>6, <2>1 DEF Busy, Executing, LoopOwes
<1>8. loop[rl.name].todo = <<>>
  BY <1>2, <1>7 DEF CInv, LoopFine
<1>9. ASSUME NEW n \in Names, loop[n].todo = <<"load">> PROVE FALSE
  <2>1. Busy(n)
    <3>1. <<"load">> # <<>>
      OBVIOUS
    <3>2. QED
      BY <1>9, <3>1 DEF CInv, LoopFine
  <2>2. PICK f \in Handlers : loop[n].drv = f
    BY <1>9 DEF CInv, LoadsAsked
  <2>3. QED
    BY <1>5, <2>1, <2>2 DEF Busy, LoopOwes
<1>10. QED
  BY <1>1, <1>2, <1>3, <1>5, <1>6, <1>7, <1>8, <1>9

(* A step that leaves the handlers alone and touches the loop and the      *)
(* state of at most one CPU, which it does not set going.                  *)
LEMMA QuietFrame ==
  ASSUME CInv, NEW n \in Names, UNCHANGED hvars, up' => up, LoopFine(n)',
         cpu'[n].state = "Running" \/ Executing(n)' => cpu[n].state = "Running" \/ Executing(n),
         \A h \in Handlers : LoopOwes(n, h)' =>
           LoopOwes(n, h) /\ (loop'[n].todo = loop[n].todo \/ loop[n].todo # <<"load">>),
         loop'[n].todo = <<"load">> =>
           /\ loop[n].todo = <<"load">>
           /\ loop'[n].drv = loop[n].drv /\ loop'[n].key = loop[n].key,
         loop[n].at # "none" => loop'[n].at # "none",
         \A m \in Names : m # n => loop'[m] = loop[m] /\ cpu'[m].state = cpu[m].state,
         \A m \in Names : /\ cpu'[m].hash = cpu[m].hash /\ cpu'[m].mem = cpu[m].mem
                          /\ cpu'[m].image = cpu[m].image /\ cpu'[m].whole = cpu[m].whole,
         rl' = rl \/ rl'.op \notin {"load", "credit"},
         rl.name \in Names, \A h \in Handlers : req[h].name \in Names
  PROVE  CInv'
<1>0. hpc' = hpc /\ req' = req
  BY DEF hvars
<1>1. \A m \in Names : LoopFine(m)'
  <2>1. ASSUME NEW m \in Names, m # n PROVE LoopFine(m)'
    BY <2>1 DEF CInv, LoopFine, Busy, Executing, Polling
  <2>2. QED
    BY <2>1
<1>2. LoadsAsked'
  BY <1>0 DEF CInv, LoadsAsked, Reloading
<1>3. Crediting'
  BY DEF CInv, Crediting
<1>4. ASSUME NEW h \in Handlers PROVE Still(h)'
  <2>1. CASE Reloading(h)
    <3>1. ASSUME NEW m \in Names, LoopOwes(m, h)' PROVE loop'[m].todo = <<"load">>
      <4>1. CASE m = n
        BY <2>1, <3>1, <4>1 DEF CInv, Still
      <4>2. CASE m # n
        BY <2>1, <3>1, <4>2 DEF CInv, Still, LoopOwes
      <4>3. QED
        BY <4>1, <4>2
    <3>2. cpu'[req[h].name].state # "Running" /\ ~Executing(req[h].name)'
      <4>1. cpu[req[h].name].state # "Running" /\ ~Executing(req[h].name)
        BY <2>1 DEF CInv, Still
      <4>2. CASE req[h].name = n
        BY <1>0, <4>1, <4>2 DEF Executing
      <4>3. CASE req[h].name # n
        BY <1>0, <4>1, <4>3 DEF Executing
      <4>4. QED
        BY <4>2, <4>3
    <3>3. QED
      BY <1>0, <3>1, <3>2 DEF Still
  <2>2. CASE ~Reloading(h)
    BY <1>0, <2>2 DEF Still, Reloading
  <2>3. QED
    BY <2>1, <2>2
<1>5. ASSUME NEW h \in Handlers PROVE Resetting(h)'
  BY <1>0 DEF CInv, Resetting, Restored
<1>6. QED
  BY <1>1, <1>2, <1>3, <1>4, <1>5 DEF CInv

(* A step of the handlers or the outside keeps what concerns the loops.    *)
LEMMA LoopsSame ==
  ASSUME CInv, loop' = loop, rl' = rl \/ rl'.op \notin {"load", "credit"},
         \A n \in Names : cpu'[n].state = cpu[n].state /\ cpu'[n].hash = cpu[n].hash,
         rl.name \in Names
  PROVE  Crediting' /\ \A n \in Names : LoopFine(n)'
BY DEF CInv, Crediting, LoopFine, Busy, Executing, Polling

(* The steps of a handler itself.                                          *)
LEMMA CarefulHandler ==
  ASSUME CarefulClient, IInv, Outcomes, CInv, NEW h \in Handlers, HandlerStep(h)
  PROVE  CInv'
<1> USE DEF IInv
<1>1. /\ loop' = loop /\ rl' = rl /\ up' = up
      /\ hpc[h] \notin {"wait", "asked"} /\ hpc'[h] # "wait"
      /\ \A n \in Names : cpu'[n].state = cpu[n].state
  BY HandlerEffect
<1>2. /\ rl.op # "load" /\ \A n \in Names : loop[n].todo # <<"load">>
      /\ \A n \in Names, g \in Handlers : ~LoopOwes(n, g)
  BY <1>1, NothingLoads
<1>3. LoadsAsked'
  BY <1>1, <1>2 DEF LoadsAsked
<1>4. \A g \in Handlers : g = h
  BY DEF CarefulClient
<1>5. rl.name \in Names /\ req[h] \in Request /\ req[h].name \in Names /\ cpu[req[h].name] \in Cpu
  BY DEF TypeOK, RlRec, Request
<1>6. ASSUME \A n \in Names : cpu'[n].hash = cpu[n].hash, Still(h)', Resetting(h)'
      PROVE  CInv'
  <2>1. \A g \in Handlers : Still(g)' /\ Resetting(g)'
    BY <1>4, <1>6
  <2>2. Crediting' /\ \A n \in Names : LoopFine(n)'
    BY <1>1, <1>5, <1>6, LoopsSame
  <2>3. QED
    BY <1>3, <2>1, <2>2 DEF CInv
<1>7. ASSUME req'[h].op = req[h].op, req'[h].name = req[h].name PROVE Still(h)'
  <2>1. \A n \in Names : ~LoopOwes(n, h)'
    BY <1>1, <1>2 DEF LoopOwes
  <2>2. QED
    BY <1>1, <1>5, <1>7, <2>1 DEF CInv, Still, Reloading, Executing
<1>8. CASE Accept(h)
  <2>1. PICK r \in Requests : ClientDiscipline(r) /\ req' = [req EXCEPT ![h] = r]
    BY <1>8 DEF Accept
  <2>2. cpu' = cpu /\ hpc'[h] = "get" /\ req'[h] = r /\ r.stage = 1 /\ r.name \in Names
    BY <1>8, <2>1 DEF Accept, Goto, TypeOK, Requests, Request
  <2>3. Resetting(h)'
    BY <2>2 DEF Resetting
  <2>4. Still(h)'
    <3>1. \A n \in Names : ~LoopOwes(n, h)'
      BY <1>1, <1>2 DEF LoopOwes
    <3>2. ASSUME Reloading(h)' PROVE cpu[r.name].state # "Running" /\ ~Executing(r.name)
      <4>1. cpu[r.name].state \in {"Stopped", "Fault"}
        BY <2>1, <2>2, <3>2 DEF ClientDiscipline, CarefulClient, Reloading
      <4>2. ~Polling(r.name)
        BY <2>2, <4>1 DEF SleepIffPolling
      <4>3. QED
        BY <2>2, <4>1, <4>2 DEF CInv, LoopFine
    <3>3. QED
      BY <1>1, <2>2, <3>1, <3>2 DEF Still, Executing
  <2>5. QED
    BY <1>6, <2>2, <2>3, <2>4
<1>9. CASE ControllerTake(h)
  <2>1. cpu' = cpu /\ req' = req /\ hpc[h] = "get" /\ hpc'[h] = "asked"
    BY <1>9 DEF ControllerTake, Goto, TypeOK
  <2>2. Resetting(h)'
    BY <2>1 DEF CInv, Resetting
  <2>3. QED
    BY <1>6, <1>7, <2>1, <2>2
<1>10. CASE Dispatch(h)
  <2>1. cpu' = cpu /\ hpc[h] = "got" /\ ImageReads(req[h].name) = {cpu[req[h].name].image}
    BY <1>4, <1>10 DEF Dispatch, ImageReads
  <2>2. CASE req[h].op = "reset"
    <3>1. /\ req' = [req EXCEPT ![h].key = cpu[req[h].name].image] /\ hpc'[h] = "go"
      BY <1>10, <2>1, <2>2 DEF Dispatch, GuardedOps, Goto, TypeOK
    <3>2. /\ req'[h].op = req[h].op /\ req'[h].name = req[h].name
          /\ req'[h].stage = req[h].stage /\ req'[h].key = cpu[req[h].name].image
      BY <1>5, <3>1 DEF TypeOK, Request
    <3>3. Resetting(h)'
      BY <2>1, <2>2, <3>1, <3>2 DEF CInv, Resetting
    <3>4. QED
      BY <1>6, <1>7, <2>1, <3>2, <3>3
  <2>3. CASE req[h].op # "reset"
    <3>1. req' = req
      BY <1>10, <2>3 DEF Dispatch
    <3>2. Resetting(h)'
      BY <2>3, <3>1 DEF Resetting
    <3>3. QED
      BY <1>6, <1>7, <2>1, <3>1, <3>2
  <2>4. QED
    BY <2>2, <2>3
<1>11. CASE RejectBody(h)
  <2>1. cpu' = cpu /\ req' = req /\ req[h].op # "reset"
    BY <1>11 DEF RejectBody, ParsingOps
  <2>2. Resetting(h)'
    BY <2>1 DEF Resetting
  <2>3. QED
    BY <1>6, <1>7, <2>1, <2>2
<1>12. CASE Enqueue(h)
  <2>1. cpu' = cpu /\ req' = req /\ hpc[h] = "go" /\ hpc'[h] = "send"
    BY <1>12 DEF Enqueue, Goto, TypeOK
  <2>2. Resetting(h)'
    BY <1>1, <2>1 DEF CInv, Resetting, Restored
  <2>3. QED
    BY <1>6, <1>7, <2>1, <2>2
<1>13. CASE SetImage(h)
  <2>1. /\ req' = req /\ req[h].op = "load"
        /\ cpu' = [cpu EXCEPT ![req[h].name].image = req[h].key]
    BY <1>13 DEF SetImage, Outcomes
  <2>2. \A n \in Names : cpu'[n].hash = cpu[n].hash
    BY <2>1 DEF TypeOK, Cpu
  <2>3. Resetting(h)'
    BY <2>1 DEF Resetting
  <2>4. QED
    BY <1>6, <1>7, <2>1, <2>2, <2>3
<1>14. CASE Answer(h)
  <2>1. cpu' = cpu /\ req'[h].op = "none"
    BY <1>14 DEF Answer, NoRequest, TypeOK
  <2>2. Still(h)' /\ Resetting(h)'
    BY <2>1 DEF Still, Reloading, Resetting
  <2>3. QED
    BY <1>6, <2>1, <2>2
<1>15. QED
  BY <1>8, <1>9, <1>10, <1>11, <1>12, <1>13, <1>14 DEF HandlerStep

(* The controller creates a CPU for the handler it serves.                 *)
LEMMA CarefulController ==
  ASSUME CarefulClient, IInv, CInv, ControllerReply
  PROVE  CInv'
<1> USE DEF IInv
<1>1. /\ rl' = rl /\ up' = up /\ req' = req
      /\ ctl \in Handlers /\ hpc[ctl] = "asked" /\ hpc'[ctl] = "got"
  BY ControllerEffect
<1>2. PICK h \in Handlers : h = ctl
  BY <1>1
<1>3. /\ rl.op # "load" /\ \A n \in Names : loop[n].todo # <<"load">>
      /\ \A n \in Names, g \in Handlers : ~LoopOwes(n, g)
  BY <1>1, NothingLoads
<1>4. PICK n \in Names : n = req[h].name
  BY DEF TypeOK, Request
<1>5. rl.name \in Names /\ \A g \in Handlers : g = h
  BY DEF CarefulClient, TypeOK, RlRec
<1>6. Resetting(h)'
  BY <1>1, <1>2 DEF CInv, Resetting
<1>7. CASE loop[n].at # "none"
  <2>1. cpu' = cpu /\ loop' = loop
    BY <1>2, <1>4, <1>7 DEF ControllerReply
  <2>2. Crediting' /\ \A m \in Names : LoopFine(m)'
    BY <1>1, <1>5, <2>1, LoopsSame
  <2>3. LoadsAsked'
    BY <1>1, <1>3, <2>1 DEF LoadsAsked
  <2>4. Still(h)'
    BY <1>1, <2>1 DEF CInv, Still, Reloading, Executing, LoopOwes
  <2>5. QED
    BY <1>5, <1>6, <2>2, <2>3, <2>4 DEF CInv
<1>8. CASE loop[n].at = "none"
  <2>1. cpu' = [cpu EXCEPT ![n] = NewUserCpu] /\ loop' = [loop EXCEPT ![n] = LoopAt("top")]
    BY <1>2, <1>4, <1>8 DEF ControllerReply
  <2>2. /\ loop'[n].at = "top" /\ loop'[n].todo = <<>> /\ cpu'[n].state = "Stopped"
        /\ \A m \in Names : m # n => loop'[m] = loop[m] /\ cpu'[m] = cpu[m]
    BY <2>1, TopFields DEF TypeOK, NewUserCpu
  <2>3. ASSUME NEW m \in Names PROVE LoopFine(m)'
    <3>1. CASE m = n
      BY <2>2, <3>1 DEF LoopFine, Executing
    <3>2. CASE m # n
      BY <2>2, <3>2 DEF CInv, LoopFine, Busy, Executing, Polling
    <3>3. QED
      BY <3>1, <3>2
  <2>4. Crediting'
    BY <1>1, <1>5, <1>8, <2>2 DEF CInv, Crediting
  <2>5. LoadsAsked'
    <3>1. <<>> # <<"load">>
      OBVIOUS
    <3>2. QED
      BY <1>1, <1>3, <2>2, <3>1 DEF LoadsAsked
  <2>6. Still(h)'
    <3>1. \A m \in Names : ~LoopOwes(m, h)'
      BY <1>3, <2>2 DEF LoopOwes
    <3>2. QED
      BY <1>1, <1>4, <2>2, <3>1 DEF Still, Executing
  <2>7. QED
    BY <1>5, <1>6, <2>3, <2>4, <2>5, <2>6 DEF CInv
<1>9. QED
  BY <1>7, <1>8

(* An instruction that begins changes nothing of the image, and only one   *)
(* that unlocks has a completion to record: that of the memory it is in.   *)
LEMMA BeginInsnCredits ==
  ASSUME TypeOK, NEW n \in Names, NEW d \in Handlers \cup {None}, NEW b \in BOOLEAN,
         BeginInsn(n, d, b)
  PROVE  /\ loop'[n].todo \in {<<"set", "log", "credit">>, <<"log", "credit">>, <<"credit">>} =>
              loop'[n].by = cpu[n].mem
         /\ \A m \in Names : /\ cpu'[m].hash = cpu[m].hash /\ cpu'[m].mem = cpu[m].mem
                             /\ cpu'[m].image = cpu[m].image /\ cpu'[m].whole = cpu[m].whole
<1>1. PICK i \in InsnsIn(n), a \in Addrs :
    /\ cpu' = [cpu EXCEPT ![n].pc = a,
                          ![n].state = IF i = "input" THEN "IoSleep" ELSE @]
    /\ loop' = [loop EXCEPT ![n] =
                  [LoopAt("exec") EXCEPT
                     !.todo = Sends(i), !.drv = d, !.halt = b,
                     !.by = IF i = "unlock" THEN cpu[n].mem ELSE NoKey,
                     !.err = (i = "fault"), !.saved = cpu[n].state]]
  BY DEF BeginInsn
<1>2. \A m \in Names : /\ cpu'[m].hash = cpu[m].hash /\ cpu'[m].mem = cpu[m].mem
                       /\ cpu'[m].image = cpu[m].image /\ cpu'[m].whole = cpu[m].whole
  BY <1>1 DEF TypeOK, Cpu
<1>3. /\ loop'[n].todo = Sends(i)
      /\ loop'[n].by = IF i = "unlock" THEN cpu[n].mem ELSE NoKey
  BY <1>1 DEF TypeOK, LoopAt
<1>4. Sends(i) \in {<<"set", "log", "credit">>, <<"log", "credit">>, <<"credit">>} => i = "unlock"
  BY DEF Sends
<1>5. QED
  BY <1>2, <1>3, <1>4

(* The last closure of a request, and the only one of most.                *)
LEMMA CarefulQuick ==
  ASSUME CarefulClient, IInv, Outcomes, CInv, NEW n \in Names, NEW h \in Handlers, TakeQuick(n, h)
  PROVE  CInv'
<1> USE DEF IInv
<1>1. /\ loop[n].at = "top" /\ hpc[h] = "send" /\ req[h].name = n
      /\ req[h].stage = 2 \/ req[h].op \notin {"load", "reset", "continue", "step"}
      /\ Reply(h, TRUE) /\ loop' = loop /\ rl' = rl /\ up' = up
  BY DEF TakeQuick, Takes, Waiting
<1>2. PICK a \in Addrs : cpu' = [cpu EXCEPT ![n] = Applied(cpu[n], req[h], a)]
  BY DEF TakeQuick
<1>3. cpu'[n] = Applied(cpu[n], req[h], a) /\ \A m \in Names : m # n => cpu'[m] = cpu[m]
  BY <1>2 DEF TypeOK
<1>4. cpu[n] \in Cpu /\ rl.name \in Names /\ \A g \in Handlers : g = h
  BY DEF CarefulClient, TypeOK, RlRec
<1>5. /\ cpu'[n].hash = cpu[n].hash /\ cpu'[n].mem = cpu[n].mem
      /\ cpu'[n].image = cpu[n].image /\ cpu'[n].whole = cpu[n].whole
  BY <1>3, <1>4 DEF Applied, Cpu
<1>6. /\ rl.op # "load" /\ \A m \in Names : loop[m].todo # <<"load">>
      /\ \A m \in Names, g \in Handlers : ~LoopOwes(m, g)
  BY <1>1, NothingLoads
<1>7. ASSUME NEW m \in Names PROVE LoopFine(m)'
  <2>1. CASE m = n
    <3>1. loop[n].todo = <<>>
      BY <1>1 DEF CInv, LoopFine, Busy
    <3>2. QED
      BY <1>1, <2>1, <3>1 DEF LoopFine, Executing
  <2>2. CASE m # n
    BY <1>1, <1>3, <2>2 DEF CInv, LoopFine, Busy, Executing, Polling
  <2>3. QED
    BY <2>1, <2>2
<1>8. LoadsAsked'
  BY <1>1, <1>6 DEF LoadsAsked
<1>9. Crediting'
  BY <1>1, <1>3, <1>4, <1>5 DEF CInv, Crediting
<1>10. req'[h].op = req[h].op /\ req'[h].name = req[h].name /\ req[h] \in Request
  BY <1>1, ReplyOutcome DEF Outcomes, TypeOK
<1>11. Still(h)'
  <2>1. \A m \in Names : ~LoopOwes(m, h)'
    BY <1>1, <1>6 DEF LoopOwes
  <2>2. ASSUME Reloading(h) PROVE cpu'[n].state = cpu[n].state
    <3>1. [cpu[n] EXCEPT !.pc = Entry].state = cpu[n].state
      BY <1>4 DEF Cpu
    <3>2. QED
      BY <1>3, <2>2, <3>1 DEF Applied, Reloading
  <2>3. QED
    BY <1>1, <1>10, <2>1, <2>2 DEF CInv, Still, Reloading, Executing
<1>12. Resetting(h)'
  <2>1. ASSUME req[h].op = "reset" PROVE req[h].stage = 2 /\ req' = req /\ hpc'[h] = "answer"
    BY <1>1, <2>1 DEF Reply, Outcome, Goto, TypeOK
  <2>2. ASSUME req[h].op = "reset" PROVE Restored(n)'
    BY <1>1, <1>5, <2>1, <2>2 DEF CInv, Resetting, Restored
  <2>3. QED
    BY <1>1, <1>10, <2>1, <2>2 DEF Resetting
<1>13. QED
  BY <1>4, <1>7, <1>8, <1>9, <1>11, <1>12 DEF CInv

(* A loop takes the first closure of a step or of a continue.              *)
LEMMA CarefulStep ==
  ASSUME CarefulClient, IInv, DInv, CInv, NEW n \in Names, NEW h \in Handlers, TakeStep(n, h)
  PROVE  CInv'
<1> USE DEF IInv
<1>1. /\ loop[n].at = "top" /\ hpc[h] = "send" /\ req[h].name = n
      /\ req[h].op \in {"continue", "step"} /\ BeginInsn(n, h, FALSE)
      /\ req' = req /\ rl' = rl /\ up' = up /\ h # None
  BY CpuServerAssumption DEF TakeStep, Takes, Waiting
<1>2. /\ loop'[n].at = "exec" /\ loop'[n].drv = h /\ loop'[n].todo # <<"load">>
      /\ \A m \in Names : m # n => loop'[m] = loop[m] /\ cpu'[m] = cpu[m]
  BY <1>1, BeginInsnEffect
<1>3. /\ loop'[n].todo \in {<<"set", "log", "credit">>, <<"log", "credit">>, <<"credit">>} =>
           loop'[n].by = cpu[n].mem
      /\ \A m \in Names : cpu'[m].hash = cpu[m].hash
  BY <1>1, BeginInsnCredits
<1>4. rl.name \in Names /\ \A g \in Handlers : g = h
  BY DEF CarefulClient, TypeOK, RlRec
<1>5. rl.op # "load" /\ \A m \in Names : loop[m].todo # <<"load">>
  BY <1>1, NothingLoads
<1>6. cpu[n].hash = cpu[n].mem
  BY <1>5 DEF DInv, DigestOfMemory, Loading
<1>7. ASSUME NEW m \in Names PROVE LoopFine(m)'
  <2>1. CASE m = n
    BY <1>1, <1>2, <1>3, <1>6, <2>1 DEF LoopFine, Executing, Busy
  <2>2. CASE m # n
    BY <1>2, <2>2 DEF CInv, LoopFine, Busy, Executing, Polling
  <2>3. QED
    BY <2>1, <2>2
<1>8. LoadsAsked'
  BY <1>1, <1>2, <1>5 DEF LoadsAsked
<1>9. Crediting'
  BY <1>1, <1>2, <1>3, <1>4 DEF CInv, Crediting
<1>10. Still(h)' /\ Resetting(h)'
  BY <1>1 DEF Still, Reloading, Resetting
<1>11. QED
  BY <1>4, <1>7, <1>8, <1>9, <1>10 DEF CInv

(* A loop takes the closure of a load or of a reset.                       *)
LEMMA CarefulLoad ==
  ASSUME CarefulClient, IInv, CInv, NEW n \in Names, NEW h \in Handlers, TakeLoad(n, h)
  PROVE  CInv'
<1> USE DEF IInv
<1>1. /\ loop[n].at = "top" /\ hpc[h] = "send" /\ req[h].name = n /\ Reloading(h)
      /\ req[h].stage = 1 /\ hpc'[h] = "wait"
      /\ req' = req /\ rl' = rl /\ up' = up /\ cpu' = cpu /\ h # None
  BY CpuServerAssumption DEF TakeLoad, Takes, Waiting, Reloading, Goto, TypeOK
<1>2. /\ loop'[n].at = "exec" /\ loop'[n].drv = h /\ loop'[n].todo = <<"load">>
      /\ loop'[n].key = req[h].key
      /\ \A m \in Names : m # n => loop'[m] = loop[m]
  BY DEF TakeLoad, LoopAt, TypeOK
<1>3. rl.name \in Names /\ \A g \in Handlers : g = h
  BY DEF CarefulClient, TypeOK, RlRec
<1>4. /\ rl.op # "load" /\ \A m \in Names : loop[m].todo # <<"load">>
      /\ \A m \in Names, g \in Handlers : ~LoopOwes(m, g)
  BY <1>1, NothingLoads
<1>5. ASSUME NEW m \in Names PROVE LoopFine(m)'
  <2>1. CASE m = n
    <3>1. <<"load">> \notin {<<"set", "log", "credit">>, <<"log", "credit">>, <<"credit">>}
      OBVIOUS
    <3>2. QED
      BY <1>1, <1>2, <2>1, <3>1 DEF LoopFine, Executing, Busy
  <2>2. CASE m # n
    BY <1>1, <1>2, <2>2 DEF CInv, LoopFine, Busy, Executing, Polling
  <2>3. QED
    BY <2>1, <2>2
<1>6. LoadsAsked'
  BY <1>1, <1>2, <1>4 DEF LoadsAsked, Reloading
<1>7. Crediting'
  BY <1>1, <1>2, <1>3 DEF CInv, Crediting
<1>8. Still(h)'
  BY <1>1, <1>2, <1>4 DEF CInv, Still, Reloading, Executing, LoopOwes
<1>9. Resetting(h)'
  BY <1>1 DEF CInv, Resetting
<1>10. QED
  BY <1>3, <1>5, <1>6, <1>7, <1>8, <1>9 DEF CInv

(* The steps that a loop takes by itself.                                  *)
LEMMA CarefulOwn ==
  ASSUME CarefulClient, IInv, DInv, CInv, NEW n \in Names,
         BreakStop(n) \/ RunInsn(n) \/ NapEnd(n) \/ (InsnDone(n) /\ loop[n].drv = None)
  PROVE  CInv'
<1> USE DEF IInv
<1>0. /\ rl.name \in Names /\ \A h \in Handlers : req[h].name \in Names
      /\ cpu[n] \in Cpu /\ loop[n] \in LoopRec
  BY DEF TypeOK, RlRec, Request
<1>1. CASE BreakStop(n)
  <2>1. /\ loop[n].at = "top" /\ loop' = loop /\ rl' = rl /\ up' = up /\ UNCHANGED hvars
        /\ cpu' = [cpu EXCEPT ![n].state = "Stopped"]
    BY <1>1 DEF BreakStop, Runs
  <2>2. /\ cpu'[n].state = "Stopped"
        /\ \A m \in Names : /\ m # n => cpu'[m] = cpu[m]
                            /\ cpu'[m].hash = cpu[m].hash /\ cpu'[m].mem = cpu[m].mem
                            /\ cpu'[m].image = cpu[m].image /\ cpu'[m].whole = cpu[m].whole
    BY <2>1 DEF TypeOK, Cpu
  <2>3. loop[n].todo = <<>> /\ <<>> # <<"load">>
    BY <2>1 DEF CInv, LoopFine, Busy
  <2>4. LoopFine(n)'
    BY <2>1, <2>3 DEF LoopFine, Executing
  <2>5. ~Executing(n)' /\ \A h \in Handlers : ~LoopOwes(n, h)'
    BY <2>1 DEF Executing, LoopOwes
  <2>6. QED
    BY <1>0, <2>1, <2>2, <2>3, <2>4, <2>5, QuietFrame
<1>2. CASE RunInsn(n)
  <2>1. /\ loop[n].at = "top" /\ cpu[n].state = "Running" /\ rl' = rl /\ up' = up
        /\ UNCHANGED hvars
    BY <1>2 DEF RunInsn, Runs
  <2>2. PICK b \in BOOLEAN : BeginInsn(n, None, b)
    <3>1. (cpu[n].bp[cpu[n].pc] = "step") \in BOOLEAN
      OBVIOUS
    <3>2. QED
      BY <1>2, <3>1 DEF RunInsn
  <2>3. /\ loop'[n].at = "exec" /\ loop'[n].drv = None
        /\ loop'[n].todo # <<"load">>
        /\ loop'[n].todo = <<"poll">> => cpu'[n].state = "IoSleep"
        /\ loop'[n].todo # <<"poll">> => cpu'[n].state = cpu[n].state
        /\ loop'[n].saved = cpu[n].state
        /\ \A m \in Names : m # n => loop'[m] = loop[m] /\ cpu'[m] = cpu[m]
    BY <2>2, BeginInsnEffect
  <2>4. /\ loop'[n].todo \in {<<"set", "log", "credit">>, <<"log", "credit">>, <<"credit">>} =>
             loop'[n].by = cpu[n].mem
        /\ \A m \in Names : /\ cpu'[m].hash = cpu[m].hash /\ cpu'[m].mem = cpu[m].mem
                            /\ cpu'[m].image = cpu[m].image /\ cpu'[m].whole = cpu[m].whole
    BY <2>2, BeginInsnCredits
  <2>5. cpu[n].hash = cpu[n].mem
    <3>1. rl.op = "load" => rl.name # n
      BY <2>1, LoadQuiet
    <3>2. QED
      BY <3>1 DEF DInv, DigestOfMemory, Loading
  <2>6. LoopFine(n)'
    BY <2>1, <2>3, <2>4, <2>5 DEF LoopFine, Busy, Polling
  <2>7. \A h \in Handlers : ~LoopOwes(n, h)'
    BY <2>3, CpuServerAssumption DEF LoopOwes
  <2>8. QED
    BY <1>0, <2>1, <2>3, <2>4, <2>6, <2>7, QuietFrame
<1>3. CASE NapEnd(n)
  <2>1. /\ loop[n].at = "nap" /\ rl' = rl /\ up' = up /\ cpu' = cpu /\ UNCHANGED hvars
        /\ loop' = [loop EXCEPT ![n].at = "exec"]
    BY <1>3 DEF NapEnd
  <2>2. /\ loop'[n].at = "exec" /\ loop'[n].todo = loop[n].todo /\ loop'[n].by = loop[n].by
        /\ loop'[n].drv = loop[n].drv /\ loop'[n].key = loop[n].key
        /\ loop'[n].saved = loop[n].saved
        /\ \A m \in Names : m # n => loop'[m] = loop[m]
    BY <1>0, <2>1 DEF TypeOK, LoopRec
  <2>3. LoopFine(n)'
    BY <2>1, <2>2 DEF CInv, LoopFine, Busy, Executing, Polling
  <2>4. /\ Executing(n)' => Executing(n)
        /\ \A h \in Handlers : LoopOwes(n, h)' => LoopOwes(n, h)
    BY <2>1, <2>2 DEF Executing, LoopOwes
  <2>5. QED
    BY <1>0, <2>1, <2>2, <2>3, <2>4, QuietFrame
<1>4. CASE InsnDone(n) /\ loop[n].drv = None
  <2>1. /\ loop[n].at = "exec" /\ loop[n].todo = <<>> /\ rl' = rl /\ up' = up
        /\ UNCHANGED hvars /\ loop' = [loop EXCEPT ![n] = LoopAt("top")]
    BY <1>4 DEF InsnDone
  <2>2. /\ loop'[n].at = "top" /\ loop'[n].todo = <<>>
        /\ \A m \in Names : m # n => loop'[m] = loop[m]
    BY <2>1, TopFields DEF TypeOK
  <2>3. PICK s \in States : cpu' = [cpu EXCEPT ![n].state = s]
    BY <1>0, <1>4 DEF InsnDone, States, Cpu
  <2>4. \A m \in Names : /\ m # n => cpu'[m] = cpu[m]
                         /\ cpu'[m].hash = cpu[m].hash /\ cpu'[m].mem = cpu[m].mem
                         /\ cpu'[m].image = cpu[m].image /\ cpu'[m].whole = cpu[m].whole
    BY <2>3 DEF TypeOK, Cpu
  <2>5. <<>> # <<"load">>
    OBVIOUS
  <2>6. LoopFine(n)'
    BY <2>2 DEF LoopFine, Executing
  <2>7. Executing(n) /\ \A h \in Handlers : ~LoopOwes(n, h)'
    BY <1>4, <2>1, <2>2 DEF Executing, LoopOwes
  <2>8. QED
    BY <1>0, <2>1, <2>2, <2>4, <2>5, <2>6, <2>7, QuietFrame
<1>5. QED
  BY <1>1, <1>2, <1>3, <1>4

(* An instruction that a loop executed for a handler ends: it was not a    *)
(* load.                                                                   *)
LEMMA CarefulStepEnds ==
  ASSUME CarefulClient, IInv, CInv, NEW n \in Names, InsnDone(n), loop[n].drv # None
  PROVE  CInv'
<1> USE DEF IInv
<1>1. /\ loop[n].at = "exec" /\ loop[n].todo = <<>> /\ rl' = rl /\ up' = up /\ cpu' = cpu
      /\ loop' = [loop EXCEPT ![n] = LoopAt("top")]
  BY DEF InsnDone
<1>2. PICK h \in Handlers : h = loop[n].drv
  BY DEF TypeOK, LoopRec
<1>3. LoopOwes(n, h) /\ <<>> # <<"load">>
  BY <1>1, <1>2 DEF LoopOwes
<1>4. ~Reloading(h) /\ \A g \in Handlers : g = h
  BY <1>1, <1>3 DEF CInv, Still, CarefulClient
<1>5. req'[h].op = req[h].op
  <2>1. PICK ok \in BOOLEAN : Reply(h, ok)
    BY <1>2 DEF InsnDone, TypeOK, LoopRec
  <2>2. QED
    BY <2>1 DEF Reply, TypeOK, Request
<1>6. Still(h)' /\ Resetting(h)'
  BY <1>4, <1>5 DEF Still, Reloading, Resetting
<1>7. /\ loop'[n].at = "top" /\ loop'[n].todo = <<>>
      /\ \A m \in Names : m # n => loop'[m] = loop[m]
  BY <1>1, TopFields DEF TypeOK
<1>8. ASSUME NEW m \in Names PROVE LoopFine(m)'
  <2>1. CASE m = n
    BY <1>7, <2>1 DEF LoopFine, Executing
  <2>2. CASE m # n
    BY <1>1, <1>7, <2>2 DEF CInv, LoopFine, Busy, Executing, Polling
  <2>3. QED
    BY <2>1, <2>2
<1>9. LoadsAsked'
  <2>1. rl.op # "load"
    BY <1>4, LoadQuiet
  <2>2. \A m \in Names : loop[m].todo # <<"load">>
    BY <1>4 DEF CInv, LoadsAsked
  <2>3. QED
    BY <1>1, <1>3, <1>7, <2>1, <2>2 DEF LoadsAsked
<1>10. Crediting'
  BY <1>1, <1>7 DEF CInv, Crediting, TypeOK, RlRec
<1>11. QED
  BY <1>4, <1>6, <1>8, <1>9, <1>10 DEF CInv

(* What RedisLand takes over with a closure, and what is left of the       *)
(* others.                                                                 *)
LEMMA RedisTakeCredits ==
  ASSUME TypeOK, NEW n \in Names, RedisTake(n)
  PROVE  LET Credits == {<<"set", "log", "credit">>, <<"log", "credit">>, <<"credit">>}
         IN  /\ rl'.key = loop[n].key /\ rl'.by = loop[n].by
             /\ rl'.op = "credit" => loop[n].todo \in Credits
             /\ rl'.op # "load" => loop'[n].by = loop[n].by /\ loop'[n].key = loop[n].key
             /\ loop'[n].todo \in Credits => rl'.op # "load" /\ loop[n].todo \in Credits
<1> DEFINE what == Head(loop[n].todo)
           Credits == {<<"set", "log", "credit">>, <<"log", "credit">>, <<"credit">>}
<1>1. loop[n] \in LoopRec /\ loop[n].todo \in Todos /\ loop[n].todo # <<>>
  BY DEF RedisTake, TypeOK, LoopRec
<1>2. rl'.op = what /\ rl'.key = loop[n].key /\ rl'.by = loop[n].by
  BY DEF RedisTake
<1>3. what = "credit" => loop[n].todo \in Credits
  <2>1. /\ Head(<<"load">>) # "credit" /\ Head(<<"poll">>) # "credit"
        /\ Head(<<"getrange", "set">>) # "credit" /\ Head(<<"set", "log">>) # "credit"
        /\ Head(<<"log">>) # "credit" /\ Head(<<"set">>) # "credit"
    OBVIOUS
  <2>2. QED
    BY <1>1, <2>1 DEF Todos
<1>4. CASE what = "load"
  <2>1. loop'[n].todo = <<>>
    BY <1>4, TopFields DEF RedisTake, TypeOK
  <2>2. <<>> \notin Credits
    OBVIOUS
  <2>3. QED
    BY <1>2, <1>3, <1>4, <2>1, <2>2
<1>5. CASE what \in {"poll", "getrange"}
  <2>1. loop'[n] = [loop[n] EXCEPT !.at = "reply"]
    BY <1>5 DEF RedisTake, TypeOK
  <2>2. loop'[n].by = loop[n].by /\ loop'[n].key = loop[n].key /\ loop'[n].todo = loop[n].todo
    BY <1>1, <2>1 DEF LoopRec
  <2>3. QED
    BY <1>2, <1>3, <1>5, <2>2
<1>6. CASE what \notin {"load", "poll", "getrange"}
  <2>1. loop'[n] = [loop[n] EXCEPT !.todo = Tail(loop[n].todo)]
    BY <1>6 DEF RedisTake, TypeOK
  <2>2. /\ loop'[n].by = loop[n].by /\ loop'[n].key = loop[n].key
        /\ loop'[n].todo = Tail(loop[n].todo)
    BY <1>1, <2>1 DEF LoopRec
  <2>3. Tail(loop[n].todo) \in Credits => loop[n].todo \in Credits
    <3>1. /\ Tail(<<"load">>) \notin Credits /\ Tail(<<"poll">>) \notin Credits
          /\ Tail(<<"getrange", "set">>) \notin Credits /\ Tail(<<"set", "log">>) \notin Credits
          /\ Tail(<<"log">>) \notin Credits /\ Tail(<<"set">>) \notin Credits
      OBVIOUS
    <3>2. QED
      BY <1>1, <3>1 DEF Todos
  <2>4. QED
    BY <1>2, <1>3, <1>6, <2>2, <2>3
<1>7. QED
  BY <1>4, <1>5, <1>6

(* RedisLand takes a closure over.                                         *)
LEMMA CarefulTake ==
  ASSUME CarefulClient, IInv, CInv, NEW n \in Names, RedisTake(n)
  PROVE  CInv'
<1> USE DEF IInv
<1> DEFINE Credits == {<<"set", "log", "credit">>, <<"log", "credit">>, <<"credit">>}
<1>1. /\ rl.op = "idle" /\ loop[n].at = "exec" /\ cpu' = cpu /\ up' = up
      /\ hpc' = hpc /\ req' = req
  BY DEF RedisTake, hvars
<1>2. /\ rl'.name = n /\ rl'.drv = loop[n].drv
      /\ rl'.op = "load" <=> loop[n].todo = <<"load">>
      /\ rl'.op = "poll" <=> loop[n].todo = <<"poll">>
      /\ rl'.op = "load" => loop'[n].at = "top" /\ loop'[n].todo = <<>>
      /\ rl'.op # "load" => loop'[n].drv = loop[n].drv /\ loop'[n].saved = loop[n].saved
      /\ rl'.op \in {"poll", "getrange"} =>
           loop'[n].at = "reply" /\ loop'[n].todo = loop[n].todo
      /\ rl'.op \notin {"load", "poll", "getrange"} =>
           /\ loop'[n].at = "exec"
           /\ loop'[n].todo # <<"poll">> /\ loop'[n].todo # <<"load">>
      /\ \A m \in Names : m # n => loop'[m] = loop[m]
  BY RedisTakeEffect, TopFields
<1>3. /\ rl'.key = loop[n].key /\ rl'.by = loop[n].by
      /\ rl'.op = "credit" => loop[n].todo \in Credits
      /\ rl'.op # "load" => loop'[n].by = loop[n].by /\ loop'[n].key = loop[n].key
      /\ loop'[n].todo \in Credits => rl'.op # "load" /\ loop[n].todo \in Credits
  BY RedisTakeCredits
<1>4. /\ loop'[n].at \in {"top", "exec", "reply"}
      /\ loop'[n].at = "top" <=> rl'.op = "load"
      /\ loop'[n].todo # <<"load">>
  <2>1. <<>> # <<"load">>
    OBVIOUS
  <2>2. QED
    BY <1>2, <2>1
<1> HIDE DEF Credits
<1>5. ASSUME NEW m \in Names PROVE LoopFine(m)'
  <2>1. CASE m = n
    <3>1. LoopFine(n)
      BY DEF CInv
    <3>2. (loop[n].todo \in Credits => cpu[n].hash = loop[n].by)
      BY <3>1 DEF LoopFine, Credits
    <3>3. loop'[n].todo \in Credits => cpu'[n].hash = loop'[n].by
      BY <1>1, <1>3, <3>2
    <3>4. loop'[n].todo # <<>> => Busy(n)'
      BY <1>2, <1>4 DEF Busy
    <3>5. Executing(n)' => /\ loop'[n].saved = "Running"
                           /\ cpu'[n].state = "Running" \/ Polling(n)'
      <4>1. ASSUME Executing(n)' PROVE Executing(n) /\ rl'.op # "load"
        BY <1>1, <1>2, <1>4, <4>1 DEF Executing
      <4>2. ASSUME Polling(n), rl'.op # "load" PROVE Polling(n)'
        BY <1>2, <4>2 DEF Polling
      <4>3. QED
        BY <1>1, <1>2, <3>1, <4>1, <4>2 DEF LoopFine
    <3>6. QED
      BY <2>1, <3>3, <3>4, <3>5 DEF LoopFine, Credits
  <2>2. CASE m # n
    BY <1>1, <1>2, <2>2 DEF CInv, LoopFine, Busy, Executing, Polling
  <2>3. QED
    BY <2>1, <2>2
<1>6. LoadsAsked'
  <2>1. rl'.op = "load" => Reloading(rl'.drv) /\ rl'.key = req[rl'.drv].key
    <3>1. ASSUME rl'.op = "load"
          PROVE  \E h \in Handlers : loop[n].drv = h /\ Reloading(h) /\ loop[n].key = req[h].key
      BY <1>2, <3>1 DEF CInv, LoadsAsked
    <3>2. QED
      BY <1>2, <1>3, <3>1
  <2>2. \A m \in Names : loop'[m].todo = <<"load">> => loop'[m] = loop[m]
    BY <1>2, <1>4
  <2>3. QED
    BY <1>1, <2>1, <2>2 DEF CInv, LoadsAsked, Reloading
<1>7. Crediting'
  BY <1>1, <1>2, <1>3, <1>4 DEF CInv, LoopFine, Crediting, Credits
<1>8. ASSUME NEW h \in Handlers PROVE Still(h)' /\ Resetting(h)'
  <2>1. Resetting(h)'
    BY <1>1 DEF CInv, Resetting, Restored
  <2>2. \A m \in Names : Executing(m)' => Executing(m)
    BY <1>1, <1>2, <1>4 DEF Executing
  <2>3. \A m \in Names : LoopOwes(m, h)' => LoopOwes(m, h) /\ (m = n => rl'.op # "load")
    BY <1>1, <1>2, <1>4 DEF LoopOwes
  <2>4. req[h].name \in Names
    BY DEF TypeOK, Request
  <2>5. Still(h)'
    BY <1>1, <1>2, <2>2, <2>3, <2>4 DEF CInv, Still, Reloading
  <2>6. QED
    BY <2>1, <2>5
<1>9. QED
  BY <1>5, <1>6, <1>7, <1>8 DEF CInv

(* The closures that are not loads.                                        *)
LEMMA CarefulClosures ==
  ASSUME CarefulClient, IInv, CInv,
         RedisWrite \/ RedisCredit \/ RedisGetrange \/ RedisPoll
  PROVE  CInv'
<1> USE DEF IInv
<1>1. PICK n \in Names : n = rl.name
  BY DEF TypeOK, RlRec
<1>2. /\ rl' = RedisIdle /\ rl'.op = "idle" /\ up' = up /\ UNCHANGED hvars
      /\ cpu[n] \in Cpu /\ loop[n] \in LoopRec /\ \A h \in Handlers : req[h].name \in Names
  BY IdleFields DEF RedisWrite, RedisCredit, RedisGetrange, RedisPoll, TypeOK, Request
<1>3. LoopFine(n)
  BY DEF CInv
<1>4. CASE cpu' = cpu /\ loop' = loop
  <2>1. LoopFine(n)'
    BY <1>3, <1>4 DEF LoopFine, Busy, Executing, Polling
  <2>2. (Executing(n)' <=> Executing(n)) /\ \A h \in Handlers : LoopOwes(n, h)' <=> LoopOwes(n, h)
    BY <1>4 DEF Executing, LoopOwes
  <2>3. QED
    BY <1>1, <1>2, <1>4, <2>1, <2>2, QuietFrame
<1>5. CASE RedisGetrange /\ up
  <2>1. /\ cpu' = cpu /\ loop[n].at = "reply" /\ loop[n].todo = <<"getrange", "set">>
        /\ loop' = [loop EXCEPT ![n].at = "exec", ![n].todo = <<"set">>]
    BY <1>1, <1>5 DEF RedisGetrange, HandOff
  <2>2. /\ loop'[n].at = "exec" /\ loop'[n].todo = <<"set">>
        /\ loop'[n].drv = loop[n].drv /\ loop'[n].saved = loop[n].saved
        /\ \A m \in Names : m # n => loop'[m] = loop[m]
    BY <1>2, <2>1 DEF TypeOK, LoopRec
  <2>3. /\ <<"set">> # <<"load">> /\ <<"getrange", "set">> # <<"poll">>
        /\ <<"getrange", "set">> # <<"load">>
        /\ <<"set">> \notin {<<"set", "log", "credit">>, <<"log", "credit">>, <<"credit">>}
    OBVIOUS
  <2>4. LoopFine(n)'
    BY <1>3, <2>1, <2>2, <2>3 DEF LoopFine, Busy, Executing, Polling
  <2>5. /\ Executing(n)' => Executing(n)
        /\ \A h \in Handlers : LoopOwes(n, h)' => LoopOwes(n, h)
    BY <2>1, <2>2 DEF Executing, LoopOwes
  <2>6. QED
    BY <1>1, <1>2, <2>1, <2>2, <2>3, <2>4, <2>5, QuietFrame
<1>6. CASE RedisPoll /\ ~(cpu' = cpu /\ loop' = loop)
  <2>1. /\ loop[n].at = "reply" /\ loop[n].todo = <<"poll">>
        /\ \/ /\ cpu' = [cpu EXCEPT ![n].state = loop[n].saved]
              /\ loop' = [loop EXCEPT ![n].at = "exec", ![n].todo = <<>>]
           \/ cpu' = cpu /\ loop' = [loop EXCEPT ![n].at = "nap"]
    BY <1>1, <1>6 DEF RedisPoll, PollAnswers, PollFindsNothing, HandOff
  <2>2. /\ <<"poll">> # <<"load">> /\ <<>> # <<"load">> /\ <<"poll">> # <<>>
        /\ <<>> \notin {<<"set", "log", "credit">>, <<"log", "credit">>, <<"credit">>}
        /\ <<"poll">> \notin {<<"set", "log", "credit">>, <<"log", "credit">>, <<"credit">>}
    OBVIOUS
  <2>3. ASSUME NEW h \in Handlers, Reloading(h) PROVE req[h].name # n
    <3>1. loop[n].drv \in Handlers \cup {None}
      BY <1>2 DEF LoopRec
    <3>2. ~LoopOwes(n, h)
      BY <2>1, <2>2, <2>3 DEF CInv, Still
    <3>3. loop[n].drv # h /\ \A g \in Handlers : g = h
      BY <2>1, <3>2 DEF LoopOwes, CarefulClient
    <3>4. Executing(n)
      BY <2>1, <3>1, <3>3 DEF Executing
    <3>5. QED
      BY <2>3, <3>4 DEF CInv, Still
  <2>4. \A m \in Names : /\ m # n => loop'[m] = loop[m] /\ cpu'[m] = cpu[m]
                         /\ cpu'[m].hash = cpu[m].hash /\ cpu'[m].mem = cpu[m].mem
                         /\ cpu'[m].image = cpu[m].image /\ cpu'[m].whole = cpu[m].whole
    <3>1. ASSUME NEW s, cpu' = [cpu EXCEPT ![n].state = s]
          PROVE  \A m \in Names : /\ m # n => cpu'[m] = cpu[m]
                         /\ cpu'[m].hash = cpu[m].hash /\ cpu'[m].mem = cpu[m].mem
                         /\ cpu'[m].image = cpu[m].image /\ cpu'[m].whole = cpu[m].whole
      BY <3>1 DEF TypeOK, Cpu
    <3>2. \A m \in Names : m # n => loop'[m] = loop[m]
      BY <2>1 DEF TypeOK
    <3>3. QED
      BY <2>1, <3>1, <3>2
  <2>5. /\ loop'[n].at \in {"exec", "nap"} /\ loop'[n].todo \in {<<>>, <<"poll">>}
        /\ loop'[n].drv = loop[n].drv /\ loop'[n].saved = loop[n].saved
        /\ \/ cpu'[n].state = loop[n].saved
           \/ cpu'[n].state = cpu[n].state /\ loop'[n].at = "nap" /\ loop'[n].todo = <<"poll">>
    <3>1. CASE /\ cpu' = [cpu EXCEPT ![n].state = loop[n].saved]
               /\ loop' = [loop EXCEPT ![n].at = "exec", ![n].todo = <<>>]
      BY <1>2, <3>1 DEF TypeOK, Cpu, LoopRec
    <3>2. CASE cpu' = cpu /\ loop' = [loop EXCEPT ![n].at = "nap"]
      <4>1. /\ loop'[n].at = "nap" /\ loop'[n].todo = loop[n].todo
            /\ loop'[n].drv = loop[n].drv /\ loop'[n].saved = loop[n].saved
        BY <1>2, <3>2 DEF TypeOK, LoopRec
      <4>2. QED
        BY <2>1, <3>2, <4>1
    <3>3. QED
      BY <2>1, <3>1, <3>2
  <2>6. LoopFine(n)'
    <3>1. loop'[n].todo \notin {<<"set", "log", "credit">>, <<"log", "credit">>, <<"credit">>}
      BY <2>2, <2>5
    <3>2. Executing(n)' => Executing(n)
      BY <2>1, <2>5 DEF Executing
    <3>3. Executing(n)' => loop'[n].saved = "Running" /\ (cpu'[n].state = "Running" \/ Polling(n)')
      BY <1>3, <2>5, <3>2 DEF LoopFine, Polling
    <3>4. QED
      BY <2>5, <3>1, <3>3 DEF LoopFine, Busy
  <2>7. LoadsAsked' /\ Crediting'
    <3>1. loop'[n].todo # <<"load">>
      BY <2>2, <2>5
    <3>2. QED
      BY <1>2, <2>4, <3>1 DEF CInv, LoadsAsked, Reloading, Crediting, hvars
  <2>8. ASSUME NEW m \in Names PROVE LoopFine(m)'
    <3>1. CASE m # n
      BY <2>4, <3>1 DEF CInv, LoopFine, Busy, Executing, Polling
    <3>2. QED
      BY <2>6, <3>1
  <2>9. ASSUME NEW h \in Handlers PROVE Still(h)' /\ Resetting(h)'
    <3>1. \A m \in Names : LoopOwes(m, h)' => LoopOwes(m, h)
      BY <2>1, <2>4, <2>5 DEF LoopOwes
    <3>2. Still(h)'
      <4>1. CASE Reloading(h)
        <5>1. req[h].name # n /\ req[h].name \in Names /\ ~LoopOwes(n, h)
          BY <1>2, <2>1, <2>2, <2>3, <4>1 DEF CInv, Still
        <5>2. cpu[req[h].name].state # "Running" /\ ~Executing(req[h].name)
          BY <4>1 DEF CInv, Still
        <5>3. cpu'[req[h].name].state # "Running" /\ ~Executing(req[h].name)'
          BY <1>2, <2>4, <5>1, <5>2 DEF Executing, hvars
        <5>4. \A m \in Names : LoopOwes(m, h)' => loop'[m].todo = <<"load">>
          BY <2>4, <3>1, <4>1, <5>1 DEF CInv, Still
        <5>5. QED
          BY <1>2, <5>3, <5>4 DEF Still, hvars
      <4>2. CASE ~Reloading(h)
        BY <1>2, <4>2 DEF Still, Reloading, hvars
      <4>3. QED
        BY <4>1, <4>2
    <3>3. Resetting(h)'
      BY <1>2, <2>4 DEF CInv, Resetting, Restored, hvars
    <3>4. QED
      BY <3>2, <3>3
  <2>10. QED
    BY <2>7, <2>8, <2>9 DEF CInv
<1>7. QED
  BY <1>4, <1>5, <1>6 DEF RedisWrite, RedisCredit, RedisGetrange, RedisPoll

(* A step of a load: the loops stay as they are, and only the CPU being    *)
(* loaded changes, which does not execute.                                 *)
LEMMA LoadFrame ==
  ASSUME CarefulClient, IInv, CInv, rl.op = "load", loop' = loop,
         \A h \in Handlers : req'[h].op = req[h].op /\ req'[h].name = req[h].name,
         cpu'[rl.name].state # "Running",
         \A m \in Names : m # rl.name => cpu'[m] = cpu[m],
         \/ rl'.op = "idle"
         \/ req' = req /\ rl'.op = "load" /\ rl'.drv = rl.drv /\ rl'.key = rl.key,
         \A h \in Handlers : Resetting(h)'
  PROVE  CInv'
<1> USE DEF IInv
<1>1. PICK n \in Names : n = rl.name
  BY DEF TypeOK, RlRec
<1>2. PICK g \in Handlers : g = rl.drv
  BY LoadQuiet
<1>3. /\ Reloading(g) /\ n = req[g].name /\ rl.key = req[g].key
      /\ ~Busy(n) /\ loop[n].todo = <<>>
      /\ \A m \in Names : /\ loop[m].todo # <<"load">>
                          /\ \A h \in Handlers : ~LoopOwes(m, h)
      /\ \A h \in Handlers : h = g
  BY <1>1, <1>2, LoadQuiet DEF CarefulClient
<1>4. ASSUME NEW m \in Names PROVE LoopFine(m)'
  <2>1. CASE m = n
    BY <1>3, <2>1 DEF LoopFine, Busy, Executing
  <2>2. CASE m # n
    BY <1>1, <2>2 DEF CInv, LoopFine, Busy, Executing, Polling
  <2>3. QED
    BY <2>1, <2>2
<1>5. LoadsAsked'
  <2>1. CASE rl'.op = "idle"
    BY <1>3, <2>1 DEF LoadsAsked
  <2>2. CASE req' = req /\ rl'.drv = rl.drv /\ rl'.key = rl.key
    BY <1>2, <1>3, <2>2 DEF LoadsAsked, Reloading
  <2>3. QED
    BY <2>1, <2>2
<1>6. Crediting'
  BY DEF Crediting
<1>7. Still(g)'
  BY <1>1, <1>3 DEF Still, Busy, Executing, LoopOwes
<1>8. QED
  BY <1>3, <1>4, <1>5, <1>6, <1>7 DEF CInv

(* A load is answered, with or without success.                            *)
LEMMA LoadAnswered ==
  ASSUME CarefulClient, IInv, Outcomes, CInv, rl.op = "load", loop' = loop,
         NEW ok \in BOOLEAN, Reply(rl.drv, ok), rl' = RedisIdle,
         NEW n \in Names, n = rl.name, cpu'[n].state # "Running", Restored(n)',
         \A m \in Names : m # rl.name => cpu'[m] = cpu[m]
  PROVE  CInv'
<1> USE DEF IInv
<1>1. PICK g \in Handlers : g = rl.drv
  BY LoadQuiet
<1>2. hpc[g] = "wait" /\ n = req[g].name /\ \A h \in Handlers : h = g
  BY <1>1, LoadQuiet DEF CarefulClient
<1>3. /\ req'[g].op = req[g].op /\ req'[g].name = req[g].name /\ Reply(g, ok)
      /\ req[g].stage = 1 /\ req[g] \in Request
  BY <1>1, <1>2, ReplyOutcome DEF Outcomes, TypeOK
<1>4. Resetting(g)'
  <2>1. CASE req[g].op = "reset"
    <3>1. hpc'[g] = "go" /\ req'[g].stage = 2
      BY <1>3, <2>1 DEF Reply, Goto, Outcome, TypeOK, Request
    <3>2. QED
      BY <1>2, <1>3, <3>1 DEF Resetting
  <2>2. CASE req[g].op # "reset"
    BY <1>3, <2>2 DEF Resetting
  <2>3. QED
    BY <2>1, <2>2
<1>5. QED
  BY <1>2, <1>3, <1>4, IdleFields, LoadFrame

(* The steps of LoadHexFromRedis' closure.                                 *)
LEMMA CarefulLoading ==
  ASSUME CarefulClient, IInv, DInv, Outcomes, CInv,
         RedisGetImage \/ LoadHexClear \/ LoadHexStore
  PROVE  CInv'
<1> USE DEF IInv
<1>1. PICK n \in Names : n = rl.name
  BY DEF TypeOK, RlRec
<1>2. rl.op = "load" /\ loop' = loop /\ up' = up
  BY DEF RedisGetImage, LoadHexClear, LoadHexStore
<1>3. PICK g \in Handlers : g = rl.drv
  BY <1>2, LoadQuiet
<1>4. /\ hpc[g] = "wait" /\ n = req[g].name /\ rl.key = req[g].key /\ req[g].stage = 1
      /\ cpu[n].state # "Running" /\ \A h \in Handlers : h = g
  BY <1>1, <1>2, <1>3, LoadQuiet DEF CarefulClient, Outcomes
<1>5. cpu[n] \in Cpu /\ rl \in RlRec
  BY DEF TypeOK
<1>6. req[g].op = "reset" => rl.key = cpu[n].image
  BY <1>4 DEF CInv, Resetting
<1>7. Reloading(g)
  BY <1>2, <1>3, LoadQuiet
<1>8. ASSUME UNCHANGED hvars, NEW w, rl' = [rl EXCEPT !.at = w],
             cpu'[n].state # "Running", cpu'[n].image = cpu[n].image,
             \A m \in Names : m # n => cpu'[m] = cpu[m]
      PROVE  CInv'
  <2>1. hpc' = hpc /\ req' = req /\ rl'.op = rl.op /\ rl'.drv = rl.drv /\ rl'.key = rl.key
    BY <1>5, <1>8 DEF hvars, RlRec
  <2>2. Resetting(g)'
    BY <1>4, <1>6, <1>8, <2>1 DEF Resetting
  <2>3. QED
    BY <1>1, <1>2, <1>4, <1>8, <2>1, <2>2, LoadFrame
<1>9. CASE RedisGetImage
  <2>1. CASE up /\ KeyKind[rl.key] # "missing"
    <3>1. /\ cpu' = [cpu EXCEPT ![n].hash = rl.key] /\ UNCHANGED hvars
          /\ rl' = [rl EXCEPT !.at = "clear"]
      BY <1>1, <1>9, <2>1 DEF RedisGetImage
    <3>2. /\ cpu'[n].state = cpu[n].state /\ cpu'[n].image = cpu[n].image
          /\ \A m \in Names : m # n => cpu'[m] = cpu[m]
      BY <1>5, <3>1 DEF TypeOK, Cpu
    <3>3. QED
      BY <1>4, <1>8, <3>1, <3>2
  <2>2. CASE ~(up /\ KeyKind[rl.key] # "missing")
    <3>1. Reply(rl.drv, FALSE) /\ rl' = RedisIdle /\ cpu' = cpu
      BY <1>9, <2>2 DEF RedisGetImage
    <3>2. CASE req[g].op = "reset"
      <4>1. Restored(n)'
        BY <1>2, <1>6, <2>2, <3>1, <3>2 DEF Restored
      <4>2. QED
        BY <1>1, <1>2, <1>4, <3>1, <4>1, LoadAnswered
    <3>3. CASE req[g].op # "reset"
      <4>1. /\ \A h \in Handlers : req'[h].op = req[h].op /\ req'[h].name = req[h].name
            /\ Resetting(g)'
        BY <1>3, <1>4, <3>1, <3>3, ReplyOutcome DEF Outcomes, Resetting
      <4>2. QED
        BY <1>1, <1>2, <1>4, <3>1, <4>1, IdleFields, LoadFrame
    <3>4. QED
      BY <3>2, <3>3
  <2>3. QED
    BY <2>1, <2>2
<1>10. CASE LoadHexClear
  <2>1. /\ cpu' = [cpu EXCEPT ![n].mem = rl.key, ![n].whole = FALSE] /\ UNCHANGED hvars
        /\ rl' = [rl EXCEPT !.at = "store"]
    BY <1>1, <1>10 DEF LoadHexClear
  <2>2. /\ cpu'[n].state = cpu[n].state /\ cpu'[n].image = cpu[n].image
        /\ \A m \in Names : m # n => cpu'[m] = cpu[m]
    BY <1>5, <2>1 DEF TypeOK, Cpu
  <2>3. QED
    BY <1>4, <1>8, <2>1, <2>2
<1>11. CASE LoadHexStore
  <2>1. rl.at = "store" /\ cpu[n].mem = rl.key
    BY <1>1, <1>2, <1>11 DEF LoadHexStore, DInv, Digesting
  <2>2. CASE KeyKind[rl.key] = "hooked"
    <3>1. PICK s \in {"IoSleep", cpu[n].state} : cpu' = [cpu EXCEPT ![n].state = s]
      BY <1>1, <1>11, <2>2 DEF LoadHexStore
    <3>2. rl' = [rl EXCEPT !.at = "stuck"] /\ UNCHANGED hvars
      BY <1>11, <2>2 DEF LoadHexStore
    <3>3. /\ cpu'[n].state = s /\ cpu'[n].image = cpu[n].image
          /\ \A m \in Names : m # n => cpu'[m] = cpu[m]
      BY <1>5, <3>1 DEF TypeOK, Cpu
    <3>4. QED
      BY <1>4, <1>8, <3>1, <3>2, <3>3
  <2>3. ASSUME NEW ok \in BOOLEAN, Reply(rl.drv, ok), rl' = RedisIdle,
               cpu' = cpu \/ cpu' = [cpu EXCEPT ![n].whole = TRUE],
               req[g].op = "reset" => Restored(n)'
        PROVE  CInv'
    <3>1. /\ cpu'[n].state = cpu[n].state /\ \A m \in Names : m # n => cpu'[m] = cpu[m]
      BY <1>5, <2>3 DEF TypeOK, Cpu
    <3>2. CASE req[g].op = "reset"
      BY <1>1, <1>2, <1>4, <2>3, <3>1, <3>2, LoadAnswered
    <3>3. CASE req[g].op # "reset"
      <4>1. /\ \A h \in Handlers : req'[h].op = req[h].op /\ req'[h].name = req[h].name
            /\ Resetting(g)'
        BY <1>3, <1>4, <2>3, <3>3, ReplyOutcome DEF Outcomes, Resetting
      <4>2. QED
        BY <1>1, <1>2, <1>4, <2>3, <3>1, <4>1, IdleFields, LoadFrame
    <3>4. QED
      BY <3>2, <3>3
  <2>4. CASE KeyKind[rl.key] = "ok"
    <3>1. /\ Reply(rl.drv, TRUE) /\ rl' = RedisIdle
          /\ cpu' = [cpu EXCEPT ![n].whole = TRUE]
      BY <1>1, <1>11, <2>4 DEF LoadHexStore
    <3>2. /\ cpu'[n].whole = TRUE /\ cpu'[n].mem = cpu[n].mem /\ cpu'[n].image = cpu[n].image
      BY <1>5, <3>1 DEF TypeOK, Cpu
    <3>3. req[g].op = "reset" => Restored(n)'
      BY <1>6, <2>1, <3>2 DEF Restored
    <3>4. QED
      BY <2>3, <3>1, <3>3
  <2>5. CASE KeyKind[rl.key] = "malformed"
    <3>1. Reply(rl.drv, FALSE) /\ rl' = RedisIdle /\ cpu' = cpu
      BY <1>11, <2>5 DEF LoadHexStore
    <3>2. req[g].op = "reset" => Restored(n)'
      BY <1>6, <2>5, <3>1 DEF Restored
    <3>3. QED
      BY <2>3, <3>1, <3>2
  <2>6. QED
    BY <1>11, <2>2, <2>4, <2>5 DEF LoadHexStore
<1>12. QED
  BY <1>9, <1>10, <1>11

(* Every step keeps what the handlers at each place serve.                 *)
LEMMA OutcomesStep ==
  ASSUME IInv, Outcomes, [Next]_vars PROVE Outcomes'
<1> USE DEF IInv
<1>1. ASSUME NEW h \in Handlers, HandlerStep(h) PROVE Outcomes'
  BY <1>1, HandlerOutcome
<1>2. CASE ControllerReply
  BY <1>2, ControllerEffect DEF ControllerReply, Outcomes
<1>3. ASSUME NEW h \in Handlers, Reply(h, TRUE) \/ Reply(h, FALSE), hpc[h] \in {"send", "wait"}
      PROVE  Outcomes'
  BY <1>3, ReplyKeeps
<1>4. ASSUME NEW n \in Names, LoopStep(n) PROVE Outcomes'
  <2>1. ASSUME NEW h \in Handlers, TakeQuick(n, h) PROVE Outcomes'
    BY <1>3, <2>1 DEF TakeQuick, Takes, Waiting
  <2>2. ASSUME NEW h \in Handlers, TakeStep(n, h) \/ TakeLoad(n, h) PROVE Outcomes'
    <3>1. /\ hpc[h] = "send" /\ hpc' = [hpc EXCEPT ![h] = "wait"]
          /\ req' = req /\ res' = res
          /\ req[h].stage = 1 /\ req[h].op \notin {"boot", "stop"}
      BY <2>2 DEF TakeStep, TakeLoad, Takes, Waiting, Goto
    <3>2. hpc'[h] = "wait" /\ \A g \in Handlers : g # h => hpc'[g] = hpc[g]
      BY <3>1 DEF TypeOK
    <3>3. QED
      BY <3>1, <3>2 DEF Outcomes
  <2>3. CASE InsnDone(n) /\ loop[n].drv # None
    <3>1. PICK h \in Handlers : h = loop[n].drv
      BY <2>3 DEF TypeOK, LoopRec
    <3>2. hpc[h] = "wait" /\ (Reply(h, TRUE) \/ Reply(h, FALSE))
      BY <2>3, <3>1 DEF InsnDone, WaitIffOwed, LoopOwes, TypeOK, LoopRec
    <3>3. QED
      BY <1>3, <3>2
  <2>4. CASE BreakStop(n) \/ RunInsn(n) \/ NapEnd(n) \/ (InsnDone(n) /\ loop[n].drv = None)
    BY <2>4 DEF BreakStop, RunInsn, NapEnd, InsnDone, hvars, Outcomes
  <2>5. QED
    BY <1>4, <2>1, <2>2, <2>3, <2>4 DEF LoopStep
<1>5. CASE RedisStep
  <2>1. CASE UNCHANGED hvars
    BY <2>1 DEF hvars, Outcomes
  <2>2. CASE rl.op = "load" /\ (Reply(rl.drv, TRUE) \/ Reply(rl.drv, FALSE))
    BY <1>3, <2>2 DEF HandOff, WaitIffOwed, RedisOwes
  <2>3. QED
    BY <1>5, <2>1, <2>2 DEF RedisStep, RedisTake, RedisWrite, RedisCredit, RedisGetrange,
                            RedisPoll, PollAnswers, PollFindsNothing, RedisGetImage,
                            LoadHexClear, LoadHexStore
<1>6. CASE Environment \/ UNCHANGED vars
  BY <1>6 DEF Environment, RedisFails, Type, hvars, vars, Outcomes
<1>7. QED
  BY <1>1, <1>2, <1>4, <1>5, <1>6 DEF Next

(* What happens outside the service leaves all of this alone.              *)
LEMMA NothingTouched ==
  ASSUME CInv, cpu' = cpu, loop' = loop, rl' = rl, hpc' = hpc, req' = req, up' => up
  PROVE  CInv'
<1>1. \A n \in Names : LoopFine(n)'
  BY DEF CInv, LoopFine, Busy, Executing, Polling
<1>2. \A h \in Handlers : Still(h)' /\ Resetting(h)'
  BY DEF CInv, Still, Reloading, Executing, LoopOwes, Resetting, Restored
<1>3. QED
  BY <1>1, <1>2 DEF CInv, LoadsAsked, Reloading, Crediting

(* Every step of a service with one careful client keeps CInv.             *)
LEMMA CarefulNext ==
  ASSUME CarefulClient, IInv, DInv, Outcomes, CInv, [Next]_vars
  PROVE  CInv'
<1>1. ASSUME NEW h \in Handlers, HandlerStep(h) PROVE CInv'
  BY <1>1, CarefulHandler
<1>2. CASE ControllerReply
  BY <1>2, CarefulController
<1>3. ASSUME NEW n \in Names, LoopStep(n) PROVE CInv'
  <2>1. ASSUME NEW h \in Handlers, TakeQuick(n, h) \/ TakeStep(n, h) \/ TakeLoad(n, h)
        PROVE  CInv'
    BY <2>1, CarefulQuick, CarefulStep, CarefulLoad
  <2>2. CASE InsnDone(n) /\ loop[n].drv # None
    BY <2>2, CarefulStepEnds
  <2>3. CASE BreakStop(n) \/ RunInsn(n) \/ NapEnd(n) \/ (InsnDone(n) /\ loop[n].drv = None)
    BY <2>3, CarefulOwn
  <2>4. QED
    BY <1>3, <2>1, <2>2, <2>3 DEF LoopStep
<1>4. CASE RedisStep
  BY <1>4, CarefulTake, CarefulClosures, CarefulLoading DEF RedisStep
<1>5. CASE Environment \/ UNCHANGED vars
  BY <1>5, NothingTouched DEF Environment, RedisFails, Type, hvars, vars
<1>6. QED
  BY <1>1, <1>2, <1>3, <1>4, <1>5 DEF Next

(* It holds in every reachable state.                                      *)
LEMMA CInvInvariant ==
  ASSUME CarefulClient PROVE Spec => []CInv
<1>1. Init => Outcomes /\ DInv /\ CInv
  <2> SUFFICES ASSUME Init PROVE Outcomes /\ DInv /\ CInv
    OBVIOUS
  <2>1. /\ \A h \in Handlers : hpc[h] = "idle" /\ req[h].op = "none" /\ res[h] = "none"
        /\ \A n \in Names : /\ loop[n].at = "none" /\ loop[n].todo = <<>>
                            /\ cpu[n].hash = cpu[n].mem
        /\ rl.op = "idle"
    BY TopFields, IdleFields DEF Init, NoRequest, NewUserCpu
  <2>2. /\ <<>> # <<"load">>
        /\ <<>> \notin {<<"set", "log", "credit">>, <<"log", "credit">>, <<"credit">>}
    OBVIOUS
  <2>3. \A n \in Names : LoopFine(n)
    BY <2>1, <2>2 DEF LoopFine, Executing
  <2>4. \A h \in Handlers : Still(h) /\ Resetting(h)
    BY <2>1 DEF Still, Reloading, Resetting
  <2>5. QED
    BY <2>1, <2>2, <2>3, <2>4
       DEF Outcomes, DInv, Digesting, DigestOfMemory, CInv, LoadsAsked, Crediting
<1>2. IInv /\ DInv /\ [Next]_vars => DInv'
  BY DigestStep
<1>3. IInv /\ Outcomes /\ [Next]_vars => Outcomes'
  BY OutcomesStep
<1>4. IInv /\ DInv /\ Outcomes /\ CInv /\ [Next]_vars => CInv'
  BY CarefulNext
<1>5. QED
  BY <1>1, <1>2, <1>3, <1>4, IInvInvariant, PTL DEF Spec

(* A completion is recorded under the digest of the image whose bytes      *)
(* executed the unlock, if the one client of the service replaces and      *)
(* reloads images of halted CPUs only: whatever other CPUs do meanwhile,   *)
(* and whenever Redis fails.                                               *)
THEOREM CreditIsEarnedByCareful ==
  ASSUME CarefulClient PROVE Spec => []CreditIsEarned
<1>1. CInv => CreditIsEarned
  BY DEF CInv, Crediting, CreditIsEarned
<1>2. QED
  BY <1>1, CInvInvariant, PTL

(* For such a client a reset, once answered, has put back all of the image *)
(* last loaded with success.                                               *)
THEOREM ResetRestoresForCareful ==
  ASSUME CarefulClient PROVE Spec => []ResetRestores
<1>1. CInv => ResetRestores
  BY DEF CInv, Resetting, Restored, ResetRestores
<1>2. QED
  BY <1>1, CInvInvariant, PTL
=============================================================================
