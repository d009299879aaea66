------------------------------ MODULE CpuServer ------------------------------
(***************************************************************************)
(* The debugger service of src/src/newmadrid/cpuserver: HTTP handlers, the *)
(* CPU controller, one Loop goroutine per emulated CPU, and the RedisLand  *)
(* goroutine that owns the one Redis connection.  They share nothing but   *)
(* unbuffered channels of closures, some fields read or written without    *)
(* synchronisation, and the memory of the CPUs.                            *)
(*                                                                         *)
(* An emulated instruction is abstracted to the I/O it causes; a memory    *)
(* image to the Redis key its bytes came from and whether all of them are  *)
(* in memory; a digest to the image it is the digest of.                   *)
(***************************************************************************)
EXTENDS Integers, Sequences, FiniteSets

CONSTANTS
  Handlers,      (* goroutines of net/http, one request at a time each       *)
  Names,         (* CPU names that sessions carry                            *)
  Keys,          (* Redis keys that clients ask to be loaded                 *)
  BootKey,       (* the key "boot", Image of a new CPU                       *)
  NoKey,         (* no image: the digest and the memory of a new CPU         *)
  KeyKind,       (* what Redis holds under each key, see KeyKinds            *)
  Addrs,         (* values of the program counter                            *)
  Entry,         (* 0x4400, where a CPU starts                               *)
  Ops,           (* the operations that clients ask for                      *)
  Insns,         (* the kinds of instruction that images hold                *)
  None,          (* not a handler                                            *)
  Careful,       (* clients replace the image of a halted CPU only           *)
  RedisMayFail   (* the connection to Redis may break                        *)

(* The routes of CpuInterface.  "peek" stands for the five GET routes that *)
(* read a CPU without asking its goroutine (page, regs_form, regs, state,  *)
(* memory).                                                                *)
AllOps == {"peek", "regs", "load", "insns", "events", "event", "boot",
           "stop", "continue", "step", "reset"}

(* "missing": GET answers nil; "malformed": LoadHex fails part of the way; *)
(* "hooked": the image has bytes at the address of an I/O register.        *)
KeyKinds == {"ok", "malformed", "missing", "hooked"}

(* An instruction writes no I/O register, fails, or writes one of them.    *)
AllInsns == {"plain", "fault", "input", "output", "device", "unlock", "debug"}

ASSUME CpuServerAssumption ==
  /\ Names # {} /\ None \notin Handlers
  /\ None \notin [name : Names, op : AllOps]     \* nor an open request
  /\ BootKey \in Keys /\ NoKey \notin Keys
  /\ KeyKind \in [Keys -> KeyKinds]
  /\ Entry \in Addrs
  /\ Ops \subseteq AllOps
  /\ Insns \subseteq AllInsns
  /\ Careful \in BOOLEAN /\ RedisMayFail \in BOOLEAN

VARIABLES
  hpc,        (* where each handler is                                       *)
  req,        (* the request it serves                                       *)
  res,        (* the answer it is about to write                             *)
  ctl,        (* the handler whose CpuReq the controller holds, or None      *)
  cpu,        (* the UserCpu structs                                         *)
  loop,       (* where the Loop goroutine of each CPU is, with its locals    *)
  rl,         (* the closure that RedisLand.Loop is running                  *)
  up,         (* the Redis connection works                                  *)
  inbox,      (* the Redis key <name>:input                                  *)
  completed   (* the Redis keys <name>:<digest> that are "completed"         *)

hvars == <<hpc, req, res>>
vars  == <<hpc, req, res, ctl, cpu, loop, rl, up, inbox, completed>>

-----------------------------------------------------------------------------
(* Types *)

States  == {"Stopped", "Running", "Fault", "IoSleep"}
Breaks  == {"none", "stop", "step"}     \* a BreakTrace entry acts like none
Images  == Keys \cup {NoKey}
Lines   == {"none", "blank", "text"}    \* "blank": nothing but newlines

Request == [op : AllOps \cup {"none"}, name : Names, key : Keys,
            addr : Addrs, kind : Breaks, stage : {1, 2}]

Cpu == [state : States, pc : Addrs, bp : [Addrs -> Breaks], image : Keys,
        hash : Images, mem : Images, whole : BOOLEAN]

(* What a Loop goroutine can be waiting to send to RedisLand.              *)
Closures == {"load", "poll", "getrange", "set", "log", "credit"}
Todos    == {<<>>, <<"load">>, <<"poll">>, <<"getrange", "set">>,
             <<"set", "log", "credit">>, <<"log", "credit">>, <<"credit">>,
             <<"set", "log">>, <<"log">>, <<"set">>}

LoopRec == [at : {"none", "top", "exec", "reply", "nap"}, todo : Todos,
            drv : Handlers \cup {None}, key : Keys, by : Images,
            halt : BOOLEAN, err : BOOLEAN, saved : States]

RlRec == [op : Closures \cup {"idle"}, at : {"run", "clear", "store", "stuck"},
          name : Names, drv : Handlers \cup {None}, key : Keys, by : Images]

HandlerPcs == {"idle", "get", "asked", "got", "go", "send", "wait",
               "image", "answer"}

TypeOK ==
  /\ hpc \in [Handlers -> HandlerPcs]
  /\ req \in [Handlers -> Request]
  /\ res \in [Handlers -> {"none", "ok", "error", "refused"}]
  /\ ctl \in Handlers \cup {None}
  /\ cpu \in [Names -> Cpu]
  /\ loop \in [Names -> LoopRec]
  /\ rl \in RlRec
  /\ up \in BOOLEAN
  /\ inbox \in [Names -> Lines]
  /\ completed \subseteq (Names \X Images)

-----------------------------------------------------------------------------
(* Initial values *)

AnyName == CHOOSE n \in Names : TRUE

NoRequest == [op |-> "none", name |-> AnyName, key |-> BootKey,
              addr |-> Entry, kind |-> "none", stage |-> 1]

(* NewUserCpu: blank memory, no breakpoints, no digest.                    *)
NewUserCpu == [state |-> "Stopped", pc |-> Entry,
               bp |-> [a \in Addrs |-> "none"], image |-> BootKey,
               hash |-> NoKey, mem |-> NoKey, whole |-> TRUE]

LoopAt(where) == [at |-> where, todo |-> <<>>, drv |-> None, key |-> BootKey,
                  by |-> NoKey, halt |-> FALSE, err |-> FALSE,
                  saved |-> "Stopped"]

RedisIdle == [op |-> "idle", at |-> "run", name |-> AnyName, drv |-> None,
              key |-> BootKey, by |-> NoKey]

Init ==
  /\ hpc = [h \in Handlers |-> "idle"]
  /\ req = [h \in Handlers |-> NoRequest]
  /\ res = [h \in Handlers |-> "none"]
  /\ ctl = None
  /\ cpu = [n \in Names |-> NewUserCpu]
  /\ loop = [n \in Names |-> LoopAt("none")]
  /\ rl = RedisIdle
  /\ up = TRUE
  /\ inbox = [n \in Names |-> "none"]
  /\ completed = {}

-----------------------------------------------------------------------------
(* HTTP handlers *)

Goto(h, where) == hpc' = [hpc EXCEPT ![h] = where]

(* The handler has its outcome and only writes the response from here on.  *)
Outcome(h, r) == Goto(h, "answer") /\ res' = [res EXCEPT ![h] = r]

(* Operations whose route is wrapped in mustNotBeSleeping.                 *)
GuardedOps == AllOps \ {"peek", "reset"}

(* Operations that read a body or parameters before they use the CPU.      *)
ParsingOps == {"regs", "load", "insns", "event"}

(* Only the fields that an operation reads vary.                           *)
Requests ==
  { r \in Request : /\ r.op \in Ops /\ r.stage = 1
                    /\ r.op # "load" => r.key = BootKey
                    /\ r.op # "event" => r.addr = Entry /\ r.kind = "none" }

(* What Careful clients do: they have looked at the state of the CPU and   *)
(* replace or reload its image only when it does not execute.              *)
ClientDiscipline(r) ==
  Careful /\ r.op \in {"load", "reset"} => cpu[r.name].state \in {"Stopped", "Fault"}

(* A request arrives and mustSession finds the name of its CPU.            *)
Accept(h) ==
  /\ hpc[h] = "idle"
  /\ \E r \in Requests : /\ ClientDiscipline(r)
                         /\ req' = [req EXCEPT ![h] = r]
  /\ Goto(h, "get")
  /\ UNCHANGED <<res, ctl, cpu, loop, rl, up, inbox, completed>>

(* GetCpu: the controller receives the CpuReq ...                          *)
ControllerTake(h) ==
  /\ ctl = None /\ hpc[h] = "get"
  /\ ctl' = h
  /\ Goto(h, "asked")
  /\ UNCHANGED <<req, res, cpu, loop, rl, up, inbox, completed>>

(* Mutant: the reply is sent only on behalf of a new CPU.                  *)
ControllerForgets ==
  /\ ctl # None
  /\ LET n == req[ctl].name
     IN  IF loop[n].at = "none"
         THEN /\ loop' = [loop EXCEPT ![n] = LoopAt("top")]
              /\ Goto(ctl, "got")
         ELSE UNCHANGED <<loop, hpc>>
  /\ ctl' = None
  /\ UNCHANGED <<req, res, cpu, rl, up, inbox, completed>>

(* ... and replies, after starting a CPU under a name it does not know.    *)
ControllerReply ==
  /\ ctl # None
  /\ LET n == req[ctl].name
     IN  IF loop[n].at = "none"
         THEN /\ cpu'  = [cpu EXCEPT ![n] = NewUserCpu]
              /\ loop' = [loop EXCEPT ![n] = LoopAt("top")]
         ELSE UNCHANGED <<cpu, loop>>
  /\ Goto(ctl, "got")
  /\ ctl' = None
  /\ UNCHANGED <<req, res, rl, up, inbox, completed>>

(* c.Image is a string that load handlers write without synchronisation: a *)
(* read that races with a write can pair the pointer of one value with the *)
(* length of another, and so name any key.                                 *)
ImageReads(n) ==
  IF \E g \in Handlers : hpc[g] = "image" /\ req[g].name = n
  THEN Keys ELSE {cpu[n].image}

(* mustNotBeSleeping and mustCpu: what the handler does with its CPU.      *)
Dispatch(h) ==
  LET n == req[h].name IN
  /\ hpc[h] = "got"
  /\ \/ /\ req[h].op = "peek"
        /\ Outcome(h, "ok")
        /\ UNCHANGED req
     \/ /\ req[h].op = "reset"
        /\ \E k \in ImageReads(n) : req' = [req EXCEPT ![h].key = k]
        /\ Goto(h, "go")
        /\ UNCHANGED res
     \/ /\ req[h].op \in GuardedOps /\ cpu[n].state # "IoSleep"
        /\ Goto(h, "go")
        /\ UNCHANGED <<req, res>>
     \/ /\ req[h].op \in GuardedOps /\ cpu[n].state = "IoSleep"
        /\ Outcome(h, "refused")
        /\ UNCHANGED req
  /\ UNCHANGED <<ctl, cpu, loop, rl, up, inbox, completed>>

(* The body or a parameter cannot be parsed.  regs and insns answer        *)
(* success all the same.                                                   *)
RejectBody(h) ==
  /\ hpc[h] = "go" /\ req[h].stage = 1 /\ req[h].op \in ParsingOps
  /\ Outcome(h, IF req[h].op \in {"regs", "insns"} THEN "ok" ELSE "error")
  /\ UNCHANGED <<req, ctl, cpu, loop, rl, up, inbox, completed>>

(* The handler blocks in  c.Comm <- closure.                               *)
Enqueue(h) ==
  /\ hpc[h] = "go"
  /\ Goto(h, "send")
  /\ UNCHANGED <<req, res, ctl, cpu, loop, rl, up, inbox, completed>>

(* A closure sends on  complete  and the handler, which waits for that,    *)
(* goes on: to its second closure, to the assignment of c.Image, or to its *)
(* answer.  reset ignores the error of the load.                           *)
Reply(h, ok) ==
  LET r == req[h] IN
  \/ /\ r.op = "load" /\ ok
     /\ Goto(h, "image") /\ UNCHANGED <<req, res>>
  \/ /\ r.stage = 1
     /\ r.op = "reset" \/ (r.op \in {"continue", "step"} /\ ok)
     /\ Goto(h, "go") /\ req' = [req EXCEPT ![h].stage = 2] /\ UNCHANGED res
  \/ /\ r.op \in {"load", "continue", "step"} /\ r.stage = 1 /\ ~ok
     /\ Outcome(h, "error") /\ UNCHANGED req
  \/ /\ r.stage = 2 \/ r.op \notin {"load", "continue", "step", "reset"}
     /\ Outcome(h, "ok") /\ UNCHANGED req

(* The load handler itself assigns the image name.                         *)
SetImage(h) ==
  /\ hpc[h] = "image"
  /\ cpu' = [cpu EXCEPT ![req[h].name].image = req[h].key]
  /\ Outcome(h, "ok")
  /\ UNCHANGED <<req, ctl, loop, rl, up, inbox, completed>>

Answer(h) ==
  /\ hpc[h] = "answer"
  /\ Goto(h, "idle")
  /\ req' = [req EXCEPT ![h] = NoRequest]
  /\ res' = [res EXCEPT ![h] = "none"]
  /\ UNCHANGED <<ctl, cpu, loop, rl, up, inbox, completed>>

-----------------------------------------------------------------------------
(* The Loop goroutine of a CPU *)

(* Mutant: LockHook records the completion before it writes its log.       *)
SendsCreditFirst(insn) ==
  CASE insn = "input"  -> <<"poll">>
    [] insn = "output" -> <<"getrange", "set">>
    [] insn = "device" -> <<"set", "log">>
    [] insn = "unlock" -> <<"set", "credit", "log">>
    [] insn = "debug"  -> <<"log">>
    [] OTHER           -> <<>>

(* What an instruction of each kind has to send to RedisLand, in order.    *)
Sends(insn) ==
  CASE insn = "input"  -> <<"poll">>                  \* ReadUserInputHook
    [] insn = "output" -> <<"getrange", "set">>       \* WriteUserOutputHook
    [] insn = "device" -> <<"set", "log">>            \* alarm, airflow, ..., lock
    [] insn = "unlock" -> <<"set", "log", "credit">>  \* LockHook, value # 0
    [] insn = "debug"  -> <<"log">>                   \* DebugLogHook
    [] OTHER           -> <<>>

(* Blank memory is all RRC PC: it computes and it may fail, and does no I/O. *)
InsnsIn(n) == IF cpu[n].mem = NoKey THEN Insns \cap {"plain", "fault"} ELSE Insns

(* cpu.Step starts, for the goroutine itself (None) or in a closure of the *)
(* handler  driver.  The input hook puts the CPU to sleep before it polls. *)
BeginInsn(n, driver, halt) ==
  \E i \in InsnsIn(n), a \in Addrs :
    /\ cpu' = [cpu EXCEPT ![n].pc = a,
                          ![n].state = IF i = "input" THEN "IoSleep" ELSE @]
    /\ loop' = [loop EXCEPT ![n] =
                  [LoopAt("exec") EXCEPT
                     !.todo = Sends(i), !.drv = driver, !.halt = halt,
                     !.by = IF i = "unlock" THEN cpu[n].mem ELSE NoKey,
                     !.err = (i = "fault"), !.saved = cpu[n].state]]

Waiting(n) == {h \in Handlers : hpc[h] = "send" /\ req[h].name = n}

(* The goroutine is at a receive from its Comm and h is sending.           *)
Takes(n, h) == loop[n].at = "top" /\ h \in Waiting(n)

(* What a closure that neither steps nor loads does to its CPU.            *)
Applied(c, r, a) ==
  CASE r.op = "event"              -> [c EXCEPT !.bp[r.addr] = r.kind]
    [] r.op \in {"boot", "continue"} -> [c EXCEPT !.state = "Running"]
    [] r.op \in {"stop", "step"}     -> [c EXCEPT !.state = "Stopped"]
    [] r.op = "regs"               -> [c EXCEPT !.pc = a]
    [] r.op = "reset"              -> [c EXCEPT !.pc = Entry]
    [] OTHER                       -> c

TakeQuick(n, h) ==
  /\ Takes(n, h)
  /\ req[h].stage = 2 \/ req[h].op \notin {"load", "reset", "continue", "step"}
  /\ \E a \in Addrs : /\ req[h].op # "regs" => a = Entry
                      /\ cpu' = [cpu EXCEPT ![n] = Applied(@, req[h], a)]
  /\ Reply(h, TRUE)
  /\ UNCHANGED <<ctl, loop, rl, up, inbox, completed>>

TakeStep(n, h) ==
  /\ Takes(n, h)
  /\ req[h].stage = 1 /\ req[h].op \in {"continue", "step"}
  /\ BeginInsn(n, h, FALSE)
  /\ Goto(h, "wait")
  /\ UNCHANGED <<req, res, ctl, rl, up, inbox, completed>>

(* Mutant: a reset loads the boot image, whatever was loaded since.         *)
TakeResetOfBoot(n, h) ==
  /\ Takes(n, h)
  /\ req[h].stage = 1 /\ req[h].op \in {"load", "reset"}
  /\ loop' = [loop EXCEPT ![n] = [LoopAt("exec") EXCEPT
                !.todo = <<"load">>, !.drv = h,
                !.key = IF req[h].op = "reset" THEN BootKey ELSE req[h].key]]
  /\ Goto(h, "wait")
  /\ UNCHANGED <<req, res, ctl, cpu, rl, up, inbox, completed>>

(* LoadHexFromRedis: the closure only passes another one on to RedisLand.  *)
TakeLoad(n, h) ==
  /\ Takes(n, h)
  /\ req[h].stage = 1 /\ req[h].op \in {"load", "reset"}
  /\ loop' = [loop EXCEPT ![n] = [LoopAt("exec") EXCEPT
                !.todo = <<"load">>, !.drv = h, !.key = req[h].key]]
  /\ Goto(h, "wait")
  /\ UNCHANGED <<req, res, ctl, cpu, rl, up, inbox, completed>>

(* The default branch of the select: nobody is sending.                    *)
Runs(n) == loop[n].at = "top" /\ cpu[n].state = "Running" /\ Waiting(n) = {}

BreakStop(n) ==
  /\ Runs(n) /\ cpu[n].bp[cpu[n].pc] = "stop"
  /\ cpu' = [cpu EXCEPT ![n].state = "Stopped"]
  /\ UNCHANGED <<hvars, ctl, loop, rl, up, inbox, completed>>

RunInsn(n) ==
  /\ Runs(n) /\ cpu[n].bp[cpu[n].pc] # "stop"
  /\ BeginInsn(n, None, cpu[n].bp[cpu[n].pc] = "step")
  /\ UNCHANGED <<hvars, ctl, rl, up, inbox, completed>>

(* cpu.Step returns.  To a handler its error is sent; in the loop an error *)
(* is a fault, which a breakpoint of kind step hides.                      *)
InsnDone(n) ==
  /\ loop[n].at = "exec" /\ loop[n].todo = <<>>
  /\ IF loop[n].drv = None
     THEN /\ cpu' = [cpu EXCEPT ![n].state =
                       IF loop[n].halt THEN "Stopped"
                       ELSE IF loop[n].err THEN "Fault" ELSE @]
          /\ UNCHANGED hvars
     ELSE Reply(loop[n].drv, ~loop[n].err) /\ UNCHANGED cpu
  /\ loop' = [loop EXCEPT ![n] = LoopAt("top")]
  /\ UNCHANGED <<ctl, rl, up, inbox, completed>>

(* time.Sleep between two polls for input is over.                         *)
NapEnd(n) ==
  /\ loop[n].at = "nap"
  /\ loop' = [loop EXCEPT ![n].at = "exec"]
  /\ UNCHANGED <<hvars, ctl, cpu, rl, up, inbox, completed>>

-----------------------------------------------------------------------------
(* RedisLand.Loop: one closure at a time *)

(* Mutant: the closure that forwards a load answers it as well.            *)
RedisTakeAnswersLoad(n) ==
  /\ rl.op = "idle" /\ loop[n].at = "exec" /\ loop[n].todo # <<>>
  /\ LET what == Head(loop[n].todo) IN
       /\ rl' = [op |-> what, at |-> "run", name |-> n, drv |-> loop[n].drv,
                 key |-> loop[n].key, by |-> loop[n].by]
       /\ loop' = [loop EXCEPT ![n] =
                     IF what \in {"poll", "getrange"} THEN [@ EXCEPT !.at = "reply"]
                     ELSE [@ EXCEPT !.todo = Tail(loop[n].todo)]]
  /\ UNCHANGED <<hvars, ctl, cpu, up, inbox, completed>>

(* The goroutine of n hands its next closure over.  After a load it is free *)
(* at once; a poll or a getrange it has to see answered.                    *)
RedisTake(n) ==
  /\ rl.op = "idle" /\ loop[n].at = "exec" /\ loop[n].todo # <<>>
  /\ LET what == Head(loop[n].todo) IN
       /\ rl' = [op |-> what, at |-> "run", name |-> n, drv |-> loop[n].drv,
                 key |-> loop[n].key, by |-> loop[n].by]
       /\ loop' = [loop EXCEPT ![n] =
                     IF what = "load" THEN LoopAt("top")
                     ELSE IF what \in {"poll", "getrange"}
                          THEN [@ EXCEPT !.at = "reply"]
                          ELSE [@ EXCEPT !.todo = Tail(loop[n].todo)]]
  /\ UNCHANGED <<hvars, ctl, cpu, up, inbox, completed>>

(* SET, LPUSH and LTRIM: nothing that the service reads again.             *)
RedisWrite ==
  /\ rl.op \in {"set", "log"}
  /\ rl' = RedisIdle
  /\ UNCHANGED <<hvars, ctl, cpu, loop, up, inbox, completed>>

(* LockHook's last closure reads cpu.Hash when it runs, not when it is made. *)
RedisCredit ==
  /\ rl.op = "credit"
  /\ completed' = IF up THEN completed \cup {<<rl.name, cpu[rl.name].hash>>}
                  ELSE completed
  /\ rl' = RedisIdle
  /\ UNCHANGED <<hvars, ctl, cpu, loop, up, inbox>>

(* Mutant: GETRANGE is never answered.                                     *)
RedisGetrangeSilent ==
  /\ rl.op = "getrange"
  /\ rl' = RedisIdle
  /\ UNCHANGED <<hvars, ctl, cpu, loop, up, inbox, completed>>

(* WriteUserOutputHook's first closure: no reply when Redis fails.         *)
RedisGetrange ==
  /\ rl.op = "getrange"
  /\ loop' = IF up THEN [loop EXCEPT ![rl.name].at = "exec",
                                     ![rl.name].todo = <<"set">>]
             ELSE loop
  /\ rl' = RedisIdle
  /\ UNCHANGED <<hvars, ctl, cpu, up, inbox, completed>>

(* Input is found and deleted; the CPU is in state s from here on, and the  *)
(* hook returns.                                                           *)
PollAnswers(n, s) ==
  /\ inbox[n] = "text"
  /\ cpu'  = [cpu EXCEPT ![n].state = s]
  /\ loop' = [loop EXCEPT ![n].at = "exec", ![n].todo = <<>>]
  /\ inbox' = [inbox EXCEPT ![n] = "none"]

PollFindsNothing(n) ==
  /\ inbox[n] # "text"
  /\ loop' = [loop EXCEPT ![n].at = "nap"]
  /\ inbox' = [inbox EXCEPT ![n] = "none"]
  /\ UNCHANGED cpu

(* Mutants: the input hook leaves the CPU marked asleep; it sets it running *)
(* whatever it was doing; it waits for input inside RedisLand.             *)
PollRestoring(s) ==
  /\ rl.op = "poll" /\ up
  /\ PollAnswers(rl.name, s) \/ PollFindsNothing(rl.name)
  /\ rl' = RedisIdle
  /\ UNCHANGED <<hvars, ctl, up, completed>>
PollKeepsAsleep == PollRestoring("IoSleep")
PollSetsRunning == PollRestoring("Running")
PollBlocks ==
  /\ rl.op = "poll" /\ up
  /\ PollAnswers(rl.name, loop[rl.name].saved)
  /\ rl' = RedisIdle
  /\ UNCHANGED <<hvars, ctl, up, completed>>

(* ReadUserInputHook's closure: GET and DEL, and no reply when Redis fails. *)
(* bytes.Trim makes nil of a blank line, which is deleted and then ignored. *)
RedisPoll ==
  /\ rl.op = "poll"
  /\ \/ ~up /\ UNCHANGED <<cpu, loop, inbox>>
     \/ up /\ PollAnswers(rl.name, loop[rl.name].saved)
     \/ up /\ PollFindsNothing(rl.name)
  /\ rl' = RedisIdle
  /\ UNCHANGED <<hvars, ctl, up, completed>>

(* Mutant: the digest is set before it is known whether anything was found. *)
RedisGetImageHashFirst ==
  /\ rl.op = "load" /\ rl.at = "run"
  /\ cpu' = [cpu EXCEPT ![rl.name].hash = rl.key]
  /\ IF up /\ KeyKind[rl.key] # "missing"
     THEN rl' = [rl EXCEPT !.at = "clear"] /\ UNCHANGED hvars
     ELSE Reply(rl.drv, FALSE) /\ rl' = RedisIdle
  /\ UNCHANGED <<ctl, loop, up, inbox, completed>>

(* LoadHexFromRedis' closure: GET, and the digest of what was found ...    *)
RedisGetImage ==
  /\ rl.op = "load" /\ rl.at = "run"
  /\ IF up /\ KeyKind[rl.key] # "missing"
     THEN /\ cpu' = [cpu EXCEPT ![rl.name].hash = rl.key]
          /\ rl' = [rl EXCEPT !.at = "clear"]
          /\ UNCHANGED hvars
     ELSE /\ Reply(rl.drv, FALSE)
          /\ rl' = RedisIdle
          /\ UNCHANGED cpu
  /\ UNCHANGED <<ctl, loop, up, inbox, completed>>

(* ... LoadHex clears the memory ...                                       *)
LoadHexClear ==
  /\ rl.op = "load" /\ rl.at = "clear"
  /\ cpu' = [cpu EXCEPT ![rl.name].mem = rl.key, ![rl.name].whole = FALSE]
  /\ rl' = [rl EXCEPT !.at = "store"]
  /\ UNCHANGED <<hvars, ctl, loop, up, inbox, completed>>

(* ... and stores byte after byte until the end or the first error.  A     *)
(* byte at the address of an I/O register runs its hook right here, in the *)
(* goroutine that receives from the channel the hook sends to: it never    *)
(* gets further.  The input hook has marked the CPU asleep by then, unless *)
(* the loop of a running CPU overwrote the mark.                           *)
LoadHexStore ==
  LET n == rl.name IN
  /\ rl.op = "load" /\ rl.at = "store"
  /\ \/ /\ KeyKind[rl.key] = "ok"
        /\ cpu' = [cpu EXCEPT ![n].whole = TRUE]
        /\ Reply(rl.drv, TRUE)
        /\ rl' = RedisIdle
     \/ /\ KeyKind[rl.key] = "malformed"
        /\ Reply(rl.drv, FALSE)
        /\ rl' = RedisIdle
        /\ UNCHANGED cpu
     \/ /\ KeyKind[rl.key] = "hooked"
        /\ \E s \in {"IoSleep", cpu[n].state} : cpu' = [cpu EXCEPT ![n].state = s]
        /\ rl' = [rl EXCEPT !.at = "stuck"]
        /\ UNCHANGED hvars
  /\ UNCHANGED <<ctl, loop, up, inbox, completed>>

-----------------------------------------------------------------------------
(* Outside the service *)

(* A user sends input to a CPU through the Redis key.                      *)
Type(n, line) ==
  /\ inbox[n] = "none" /\ line # "none"
  /\ inbox' = [inbox EXCEPT ![n] = line]
  /\ UNCHANGED <<hvars, ctl, cpu, loop, rl, up, completed>>

(* After one failure every call on the connection fails.                   *)
RedisFails ==
  /\ RedisMayFail /\ up
  /\ up' = FALSE
  /\ UNCHANGED <<hvars, ctl, cpu, loop, rl, inbox, completed>>

-----------------------------------------------------------------------------
HandlerStep(h) == Accept(h) \/ ControllerTake(h) \/ Dispatch(h) \/ RejectBody(h)
                  \/ Enqueue(h) \/ SetImage(h) \/ Answer(h)

LoopStep(n) == \/ \E h \in Handlers : TakeQuick(n, h) \/ TakeStep(n, h) \/ TakeLoad(n, h)
               \/ BreakStop(n) \/ RunInsn(n) \/ InsnDone(n) \/ NapEnd(n)

RedisStep == \/ \E n \in Names : RedisTake(n)
             \/ RedisWrite \/ RedisCredit \/ RedisGetrange \/ RedisPoll
             \/ RedisGetImage \/ LoadHexClear \/ LoadHexStore

Environment == RedisFails \/ \E n \in Names, line \in Lines : Type(n, line)

Next == \/ \E h \in Handlers : HandlerStep(h)
        \/ ControllerReply
        \/ \E n \in Names : LoopStep(n)
        \/ RedisStep
        \/ Environment

Spec == Init /\ [][Next]_vars

(* The Go scheduler runs every goroutine that can go on.  Senders on a     *)
(* channel are queued in order, so one that keeps being passed over is     *)
(* received in the end: strong fairness of each receive.                   *)
WeakFairness ==
  /\ \A h \in Handlers :
       /\ WF_vars(Dispatch(h)) /\ WF_vars(RejectBody(h) \/ Enqueue(h))
       /\ WF_vars(SetImage(h)) /\ WF_vars(Answer(h))
  /\ WF_vars(ControllerReply)
  /\ \A n \in Names :
       WF_vars(BreakStop(n) \/ RunInsn(n)) /\ WF_vars(InsnDone(n)) /\ WF_vars(NapEnd(n))
  /\ WF_vars(RedisWrite \/ RedisCredit \/ RedisGetrange \/ RedisPoll)
  /\ WF_vars(RedisGetImage \/ LoadHexClear \/ LoadHexStore)
StrongFairness ==
  \A h \in Handlers, n \in Names :
    /\ SF_vars(ControllerTake(h)) /\ SF_vars(RedisTake(n))
    /\ SF_vars(TakeQuick(n, h) \/ TakeStep(n, h) \/ TakeLoad(n, h))
Fairness == WeakFairness /\ StrongFairness

(* Somebody answers the program that asks for input.                       *)
UsersType == \A n \in Names : SF_vars(Type(n, "text"))

FairSpec  == Spec /\ Fairness
TypedSpec == FairSpec /\ UsersType

-----------------------------------------------------------------------------
(* Properties *)

(* The goroutines that hold the closure whose  complete  the handler h is  *)
(* receiving from: a loop (before it is handed on), or RedisLand.          *)
LoopOwes(n, h)  == loop[n].at \in {"exec", "reply", "nap"} /\ loop[n].drv = h
RedisOwes(h)    == rl.op = "load" /\ rl.drv = h

(* A handler waits for a reply exactly while one goroutine holds its       *)
(* closure: no answer is lost, none is sent twice or to a handler that has *)
(* stopped listening, which would block the sender for good.               *)
WaitIffOwed ==
  \A h \in Handlers :
    /\ hpc[h] = "wait" <=> RedisOwes(h) \/ \E n \in Names : LoopOwes(n, h)
    /\ \A n \in Names : LoopOwes(n, h) => n = req[h].name /\ ~RedisOwes(h)
    /\ RedisOwes(h) => rl.name = req[h].name

(* A Loop goroutine that waits for a reply from Redis has its closure in   *)
(* RedisLand, unless the connection failed: only then is it lost.          *)
ReplyComes ==
  \A n \in Names :
    loop[n].at = "reply" => ~up \/ (rl.op \in {"poll", "getrange"} /\ rl.name = n)

(* A CPU shows IoSleep exactly while its own input hook waits for input;   *)
(* the exception is an image with bytes at the address of the input hook.  *)
Polling(n) == loop[n].todo = <<"poll">> /\ loop[n].at \in {"exec", "reply", "nap"}
SleepIffPolling ==
  \A n \in Names :
    /\ Polling(n) => cpu[n].state = "IoSleep"
    /\ cpu[n].state = "IoSleep" => Polling(n) \/ rl.at = "stuck"

(* The digest is that of the image in memory, whole or partial, whenever   *)
(* no load of that CPU is under way.                                       *)
Loading(n) == rl.op = "load" /\ rl.name = n /\ rl.at \in {"clear", "store", "stuck"}
DigestOfMemory == \A n \in Names : ~Loading(n) => cpu[n].hash = cpu[n].mem

(* LockHook records a completion under the digest of the image whose bytes *)
(* executed the unlock.                                                    *)
CreditIsEarned == rl.op = "credit" => cpu[rl.name].hash = rl.by

(* When a reset has been answered, memory holds all of the image last      *)
(* loaded with success, unless Redis has failed or never had one.          *)
ResetRestores ==
  \A h \in Handlers :
    hpc[h] = "answer" /\ req[h].op = "reset" =>
      LET c == cpu[req[h].name]
      IN  up /\ KeyKind[c.image] = "ok" => c.mem = c.image /\ c.whole

(* The service keeps the promises of DebugSession, as long as no image has *)
(* bytes at the address of an I/O register: boot, continue, stop and step  *)
(* take effect once and before success is answered, never when an error    *)
(* is; and no CPU starts to run, or stops running, on any other account.   *)
(* A CPU that waits for input counts as being in the state it had before.  *)
Mode(n) == IF loop[n].at = "none" THEN "absent"
           ELSE IF cpu[n].state = "IoSleep" THEN loop[n].saved ELSE cpu[n].state
Session == INSTANCE DebugSession WITH
  Nothing <- None,
  mode  <- [n \in Names |-> Mode(n)],
  asked <- [h \in Handlers |->
              IF req[h].op \in {"boot", "continue", "stop", "step"}
              THEN [name |-> req[h].name, op |-> req[h].op] ELSE None],
  done  <- {h \in Handlers : /\ req[h].op \in {"boot", "continue", "stop", "step"}
                             /\ res[h] = "ok"}
KeepsSession == Session!Spec

(* Every request is answered, or meets its own CPU waiting for input: what *)
(* other CPUs and their users do never stands in its way.                  *)
AnsweredOrAsleep ==
  \A h \in Handlers, n \in Names :
    hpc[h] # "idle" /\ req[h].name = n
      ~> hpc[h] = "idle" \/ cpu[n].state = "IoSleep"

(* If users type, every request is answered.                               *)
EveryRequestAnswered == \A h \in Handlers : hpc[h] # "idle" ~> hpc[h] = "idle"

(* A program that has been given input goes on.                            *)
SleepersWake == \A n \in Names : cpu[n].state = "IoSleep" ~> cpu[n].state # "IoSleep"

=============================================================================
