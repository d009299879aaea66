# Verification of the formaldehyde repository

This directory holds TLA+ models of the Go programs in this repository, TLC
configurations that model-check them on small instances, and theorems about them
whose proofs TLAPS checks. Paths below are relative to `src/src`.

## 1. Inventory

The repository is a collection of programs by one author. Third-party code is
vendored beside them (`canonical/goamz`, `bmizerany/pat`, `garyburd/redigo`).

| component | state | operations and interactions | what is hard | what makes it correct |
|---|---|---|---|---|
| **cpuserver** (`newmadrid/cpuserver`): a web debugger for emulated processors | map of CPUs; per CPU: `State`, `Image`, `Hash`, registers, memory, breakpoints; one Redis connection | HTTP handlers ask `CpuController` for a CPU and send closures to the CPU's `Loop` goroutine; the loop and its memory-write hooks send closures to the single `RedisLand` goroutine; all channels are unbuffered | three kinds of goroutine that wait for each other, unsynchronised reads of `State`, error paths that forget to reply, a hook that polls for input for as long as the user likes | every request is answered once, a sleeping CPU blocks nobody else, digest = memory, a completion goes to the image that earned it |
| **msp43x** (`newmadrid/msp43x`): the processor | 16 registers, 64 KB with read and write hooks | `Step`: fetch, `Disassemble`, `Execute` | flags that share a register, widths, modes that one operand function handles and the other does not | an instruction does what the manual says; the program counter stays on instructions |
| **loader** (`loader.go`, `stabs.go`) | memory being filled | clear, then store record after record through the write hooks | fails half-way; stores through hooks | memory is the image or is known not to be |
| **port scanner** (`matasano/util/portscan.go`, `matasano/ewma`, `matasano/portbot3k`) | request offsets, workers, moving averages, batches of rows | feeder -> workers -> main goroutine -> channel -> collector -> database | result counting is the only way the scan ends; averages in integers, updated in any order; 16-bit counts | every request counted once, nothing found is dropped, timeouts that do not give up on a known host |
| **formaldehyd** (`github.com/latacora/formaldehyd`): forms drawn in text -> JSON | current node, gathered tokens, pending tags | recursive descent over a token list; `JSON` walks the tree | text gathered by one element and not reset for the next; kinds changed while a node is read | the tree has the shape the emitter expects, no text is lost |
| **web reader** (`matasano/web/lex.go`, `parse.go`): descriptions of HTTP requests | lexer goroutine, parser with tokens pushed back, channel of nodes | the lexer sends tokens over an unbuffered channel, the caller reads nodes from another | tokens dropped, pushed back twice, read again; a parser that stops early leaves the lexer blocked | nodes in the order of the text, no byte in two of them; the channel is closed |
| **web rules** (`matasano/web/rules.go`, `annotate.go`) | the rules of a text; a goroutine per rule | each rule says it is ready and then feeds its values; one goroutine serves the rules one after the other | rules get ready in any order; a state machine over tokens that can panic | every value of every rule once, then the end |
| **proxy**, **ca** (`matasano/proxy`, `matasano/ca`) | connections; certificate cache in memory and on disk | one goroutine per connection; the CA makes certificates on demand | unsynchronised map; key and certificate are two files that are opened, and thereby created empty, and then written over; a read that fails looks like a missing file | a client is shown the same certificate of a host again, over restarts and lost updates, until a read of its files fails |
| **replug** (`matasano/blackbag`) | two sockets, a tee with a log | two copying goroutines that share a mutex | one side hanging up; reads after the end | the log reads as pieces in order |
| **slop** (`matasano/slop`) | workers, racy count of live ones | workers connect and send results; the last one tells main | two sends on one path, the unsynchronised count, a timeout that races the handshake | one result per address, the program ends |
| **redigo** (vendored) | a connection's pending commands and buffers; idle connections | commands are written, flushed and answered in order; the pool tests, hands out and takes back | a conversation given up half-way and given back | nobody shares a connection; a `Do` gets its own reply |
| **EC2 test server** (vendored, `goamz/ec2/ec2test`) | groups, permissions, reservations, instances | one handler at a time, under a mutex | groups deleted while others, or instances, name them; state codes that coincide | what is named exists; a refusal has a visible reason |
| **S3 test server and client** (vendored, `goamz/s3`) | buckets and objects | requests under a mutex that is held while a body is read | broken bodies, panics as replies, listings page by page while keys come and go | each request whole and at one moment; complete listings |
| small tools (`ec2ctl`, `larnin`, `test`, `newmadrid/test`) | none of interest | call a service, print | - | - |

`PROJECT.json` lists the same parts with their status, and under `hazards` the
places where each can go wrong, with the properties that cover them.

## 2. Plan

1. `CpuServer`: the debugger service, the only part where many goroutines share state
   for long. `DebugSession` is what a client may rely on; a run shows that `CpuServer`
   implements it. `CpuServerProofs`: types, replies, waits, sleep, digest, the
   implementation of `DebugSession`, completions and resets.
2. `ScanPolicy` and `PortScan`, which instantiates it; `ScanPolicyProofs`,
   `PortScanProofs`.
3. `FormParser`; `Msp430Insn` (decoding) and `Msp430` (a step of the machine with its
   hooks), with `Msp430Proofs`.
4. The small concurrent programs, each a module: `RedisPool`, `Slop`, `Proxy`, `Replug`
   (with `ToolsProofs`); the readers `HttpParser`, `FormParser` and `RuleRunner` (with
   `ReadersProofs`); the test servers `Ec2Test` (with `Ec2TestProofs`) and `S3Test`,
   which implements `S3Store` (with `S3Proofs`).

All of this is done, and every safety property the passing runs check has a theorem,
under the assumptions §6 names. What would come next are the parts §7 lists.

## 3. Modules

### CpuServer (with DebugSession, MCCpuServer and MCAnswered)

State. `hpc`, `req`, `res`: each handler goroutine, its request and the answer it
writes. `ctl`: the handler whose `CpuReq` the controller holds. `cpu`: the
`UserCpu` structs (`state`, `pc`, breakpoints `bp`, `image`, `hash`, and of the
memory which image it holds, `mem`, and whether all of it, `whole`). `loop`: where a
`Loop` goroutine is and what it still has to send to `RedisLand` in the current
instruction (`todo`). `rl`: the closure `RedisLand.Loop` runs. `up`: the connection.
`inbox`, `completed`: the Redis keys a user's input and the completions live in.

Actions follow the goroutines: `Accept`, `ControllerTake/Reply`, `Dispatch`, `Reply`,
`SetImage`, `Answer` for handlers and controller; `TakeQuick/TakeStep/TakeLoad` (the
`select` of `Loop`), `RunInsn`, `InsnDone` for loops; `RedisTake` and one action per
closure (`RedisGetImage`, `LoadHexClear`, `LoadHexStore`, `RedisPoll`, ...) for
`RedisLand`; `Type` and `RedisFails` for the world outside. A send on an unbuffered
channel and its receive are one step. `Image` is a string that two goroutines may
write and read without synchronisation; `ImageReads` lets a racy read return any key.

Abstractions. An instruction is the I/O it causes (nothing, a fault, input, output, a
device, the lock, a debug print), at most one hook per instruction. The program
counter matters for breakpoints only. Rendering, sessions' encryption and the bytes of
I/O are left out. A panic that ends the process is not modelled; clients wait for
their answers.

`DebugSession` is the promise: one value per CPU, a request applied between its call
and its return, in some order.

### ScanPolicy, PortScan (with MCTools, MCPortScan)

`ScanPolicy` is `DefaultPolicy` with its averages: `Add`, `Read`, `Elapsed`,
`ComputeTimeout` under the names of the code; each call holds the mutex, so it is one
step. `PortScan` has the feeder (`Pick`: one turn of the inner loop, which in the code
has no exit), one record per worker (`Hand`, `Pill`, `Start`, `Probe`, `Report`), the
main goroutine (`Report`, `SendLive`, `Return`) and the collector (`Collect`, `Timer`,
`Exit`). `ParsePortRanges`, `Count`, `Sum` and `Randomizer` compute what the code
computes, with ports of a smaller width (`PortLimit`), so that the wrap-around of the
16-bit counts and the rejected upper half of single ports happen. Hosts are distinct.
An answer's delay is the world's choice; that a descriptor's bit is at the right place
of the `FdSet` is assumed (see the hazard).

### FormParser

The functions of `parse.go` call each other to a fixed depth, so `pc` names the one
that reads. A token is a kind, the input is any sequence of them, and `expect` holds
what a look-ahead saw, which the tokens to come must agree with. `path` is
`p.current` with its ancestors; `before` and `line` are `p.accum` up to and from its
last newline, as sets of what they hold, with text that has become part of a node
marked "used". `strange` collects kinds for which `JSON` has no case.

### Msp430Insn, Msp430 (with MCMsp430)

`Msp430Insn` is `Disassemble`: one operator per field (`family`, `opcode`, `source`,
`As`, `mode`, `Width`, ...), each under the name of the code, from the first word; the
record `Insn` adds the extension words. `Msp430` is `CPU.Step`: `src_operand`, `dst_operand`,
their `_store` counterparts, `set_C` ... `set_V` and `Execute`, split along the stages
its comments name (load, eval, flags, store). Numbers are kept modulo 2^16 and 2^8,
memory is sparse. `&`, `|` and `^^` are spelt out bit by bit, as sums of products, since
the library's are recursive and a module that reaches them cannot be proved about.
`regs` and `memory` are what `Begin` is given: the debugger can set
every register and loads any image. `Rest` is the machine nobody steps.

Oddities of the code are in the model as they are: `BIC` and `DADD` store zero, `RRA`
keeps the sign only, `ADDC` ignores the carry it adds when it computes the new one,
`SUBC` is one too high, `ADD.B` and `ADDC.B` carry out of the whole register (their
numbers are those of single-operand instructions that `bw_eval` exempts), `V` never
survives the setting of `N` and `Z`, a read-modify-write with autoincrement stores at
the next cell. No text in the repository says otherwise, so they are not findings; the
properties except what they affect and say so.

### RedisPool

`conns` are the connections ever made: the commands in the write buffer (`out`), sent
(`wire`), answered and not read (`back`), `pending`, the sticky error, the read
deadline. `idle` is the pool's list, `user` what each user holds. `Get`, `Close`,
`Send`, `Flush`, `Do` (which reads, one `Read` at a time, as many replies as are
pending) and `Receive` are the operations; the server answers in order, and a
connection may break or run into its deadline at any moment. A command is told from
the others only while the `Do` that wrote it runs, which is what `DoGetsItsReply`
needs.

### Proxy

A connection is a goroutine that reads, looks for a whole request in its buffer
(`check`), and on a CONNECT looks the host up: in the map, in two files, or by minting.
`Slurp` of a file is one step; `Barf` is two, an open that creates the file and a write
that does not truncate. Any of them may fail, and `Restart` may come between any two
steps; the files stay. `Lookup` takes every failure of `Slurp` for a missing file, so a
pair that is on the disk but cannot be read once is made anew and written over
(`SlurpFails`, then `Mint`); a write that fails may leave a part of the file
(`ToDiskFails`), and `Mint` goes on all the same. The map has no lock: while a goroutine
writes to it another may miss an entry or lose its own (`MapIsWritten`). Certificates
are numbered as they are made. A CONNECT stays in
the buffer, and a plain request ends the connection, as in the code (both hazards).

### Slop, Replug

`Slop`: `live -= 1` is a load and a store, and the comparison after it may see either
the value stored or a newer one; the handshake goroutine has two completions, of which
at most one is taken, the timeout racing the first. `Replug`: a relayed connection is
two copying goroutines, `read`, `write`, `lock`, line, dump; a piece that a read returns
together with an error is dropped (`ReadLast`); the break that leaves the switch only
makes `ReadEnd` a step that may repeat for ever.

### HttpParser, RuleRunner (with MCReaders)

`HttpParser`: the lexer is `lexed` with `Lexemes`, the tokens it may send next; `Offered`
is what `pop` returns; `p.at` names the place in `parse.go` that pops next, `p.tok` the
token in hand, `p.acc` what `collect` has. Texts are chosen as they are lexed, so that
every sequence of tokens of up to `MaxBytes` bytes happens. What the code does with a
scheme is in the model as it is: its loop takes no further token (`endless`), and the
token that started it is pushed back though `parseUrl` holds it too. `RuleRunner`:
`Parse` is `ParseRules` with its state machine, `Start` and `Run` the goroutines of
`RunAnnotated`; the panics of the two are `crashed`.

### Ec2Test, S3Test, S3Store (with MCFakeAws)

Every handler of the EC2 server holds its mutex, so an action is a whole handler. A
pointer to a group is its position in `made`, since reservations keep groups that were
deleted. The Describe handlers are operators, which `RefusalIsVisible` uses: it compares
what `DeleteSecurityGroup` decides by state codes with what the filters of the two
Describe requests show by name. It does not say that a running instance keeps its group,
which the code does not do; that is `RunningKeepGroups` (§4). The S3 server holds its mutex while it waits for its peer, so a request is
`Ask`, `Enter` (up to the wait) and `Finish`; `S3Store` is the promise: each request
takes effect at one moment between its call and its reply. A page of a listing is
`Page`: the keys `Sorted`, then `Turns`, of which each is one `Turn` of the handler's
loop; its tests are tried in the order of the code, since two of them may hold at once.
The client appends a page as it came, so that a name shown twice would stay visible, and
asks for the next after the `Highest` name.

### The modules that instantiate several

`MCTools`, `MCReaders` and `MCFakeAws` check modules that have nothing in common: a
variable (`program`, `reader`, `server`) is chosen in the initial state and only the
chosen one takes steps, so a run's behaviours are the union of theirs, each exactly as
in its own specification, and its states the sum, not the product. `MCAnswered` puts two
instances of `CpuServer` side by side in the same way (`scene`).

## 4. Runs

| run | what it asks | bounds and why they are enough |
|---|---|---|
| `races` | `WaitIffOwed`, `ReplyComes`, `SleepIffPolling`, `DigestOfMemory` | two handlers, one CPU, images of every kind, Redis may fail: two handlers are the least that interleave two loads or a load and a step |
| `careful` | `TypeOK`, `CreditIsEarned`, `ResetRestores` | one handler that replaces the image of a halted CPU only. Without this discipline TLC shows `CreditIsEarned` violated: a load can be on its way to `RedisLand` while the CPU still runs the old image |
| `session` | `KeepsSession` (refinement of `DebugSession`) | two handlers, run operations, a breakpoint, and loads: memory that has never been loaded does no I/O, so no CPU would sleep |
| `answered` | `TypedAnswered`, `TypedWakes`, `AnsweredOrAsleep` | fair goroutines, in two scenes: two handlers of one CPU whose user types (`EveryRequestAnswered` and `SleepersWake` hold), or one handler of two CPUs whose users need not type (a CPU that sleeps for good blocks only requests for itself) |
| `portscan` | `Accounted`, `FoundAll`, `NothingDropped`, `ScanEnds` | two hosts, two workers, ports of two bits, a channel of one: every goroutine can be blocked on every other; arguments that overlap, wrap and are reversed |
| `tools` | `ScanPolicy`: `AveragesInRange`, `KnownHostsAwaited`, `MovesAsRounded` | a host of 2 ms and one of 7 or 136 ms: further apart than the 128 ms below which the rounding hides a sample |
| | `RedisPool`: `HeldOnce`, `DoGetsItsReply` | two users, one idle connection, two made, two commands queued: a conversation given up with one command unsent and one unanswered reaches another user |
| | `Proxy`: `CertificateStays` | two connections, one host (hosts share nothing but the map), three certificates, so that two minted at once and one after a restart or a failed read can meet in the files |
| | `Slop`: `ScanIsComplete` | three workers and two hosts: a lost update needs two workers, and the third sees the wrong count |
| | `Replug`: `LogReads` | one relay (relays share only the log, of which each reads its own part), three pieces each way |
| `readers` | `HttpParser`: `NodesInOrder`, `HttpEnds` | texts of ten bytes, every kind of token (but `Punct`, which is read like `Dot` except in the version, where any wrong kind does); that is a request line with a URL, a whole header, or cookies after it |
| | `RuleRunner`: `RulesEnd` | two rules of up to two words |
| | `FormParser`: `FieldsAreLeft`, `NoTextWaits`, `LeaksOnlyAfter` | none: inputs of any length |
| `forms_emit` | `EmitKnowsAll`, violated | none |
| `execute` | `TouchesOnly`, `ComparisonsDecide`, `StackRestores`, `ArithmeticExact` | one step: every first word from two states (small even registers; registers at the end of memory with all flags set), and every two-operand instruction on ten boundary values per operand, words and bytes, carry clear and set |
| `execute_dst` | `DestinationIsRead`, violated | as `execute` |
| `fakes` | `Ec2Test`: `SourcesExist`, `PendingKeepGroups`, `RefusalIsVisible` | two names, two group structs and two reservations: a group deleted and one made again under its name while an instance still has the first |
| | `S3Test`: `PagesComplete`, `IsAStore` (refinement of `S3Store`), `LockIsReleased` | two clients, of which one lists; a bucket made twice; three keys of which two roll up into one prefix; pages of one |
| `fakes_running` | `Ec2Test`: `RunningKeepGroups`, violated | as `fakes` |

`execute_dst` shows a bug: `dst_operand` of an absolute word destination loads the word
into one variable and returns another that is zero (`cpu.go:380`), although its comment
promises the value (`cpu.go:358-359`): `ADD R5, &addr` stores `R5`.

`forms_emit` shows a bug: a form with a switch (`(*_)`) parses without an error into a
node of kind `NSwitchField`, and `JSON` reaches `panic("notreached: ...")`
(`emit.go:205`).

`fakes_running` shows a bug: `deleteSecurityGroup` refuses with "group is currently in
use by a running instance" (`server.go:937`), but `hasRunningMachine` (`server.go:960-967`)
takes an instance for running when its code is neither that of shutting down nor that of
terminated, and running has the code of terminated, 16 (`server.go:592-594`). So a group
is deleted under an instance that runs, and only pending instances keep theirs
(`PendingKeepGroups`).

## 5. Fairness

`CpuServer`: the Go scheduler runs every goroutine that can run (weak fairness). A
channel queues its waiting senders in order, so a receiver that keeps receiving takes
every one of them: strong fairness of each receive. That users type again and again is an
assumption about users, made in the scene "typed" of `answered` and not in "apart".
`MCAnswered` states the strong conditions of the two scenes in pairs (`Either`): a
behaviour has one scene, so a pair is the condition of that scene, and the number of such
conditions is what TLC's time depends on.

`PortScan`: weak fairness of every goroutine. The feeder's loop spins for ever after
the last request; that it does not starve the others is what
`runtime.GOMAXPROCS(runtime.NumCPU())` (`portbot3k/main.go:57`) is for on more than
one processor, and what preemption gives on one since Go 1.14.

`Slop`: `main` and the workers run, and dialling and the wait for a handshake end, as
both have a timeout of 750 ms. The handshake goroutine itself may hang. `S3Test`: the
peer of a handler that waits sends its body or reads its object (`LockIsReleased` needs
it and says so). `HttpParser` and `RuleRunner`: the goroutines are scheduled, the caller
reads what they send, and a text is finite. The safety-only modules state no fairness.

## 6. Proofs

`CpuServerProofs` proves, for any handlers, CPUs, keys, addresses and instructions,
under `CpuServerAssumption`:

* `TypeCorrect`, `NoOrphanWaits`, `RepliesCome`, `SleepOnlyForInput`. The invariant is
  `IInv`: `TypeOK`, plus `Serving` (the handler the controller serves waits for it),
  `HandOff` (a load belongs to a handler; a poll or a getrange in `RedisLand` has its
  loop at the receive; only a load gets stuck) and `WakesUp` (a polling CPU will wake
  in a state other than `IoSleep`), plus the three properties. None of the three is
  inductive alone: that a handler waits exactly while one goroutine owes it a reply
  needs to know which goroutine can hold its closure and what that goroutine does with
  it, which is what `Serving` and `HandOff` say. `HandlerEffect`, `ControllerEffect`,
  `RedisTakeEffect` and the other effect lemmas state what each action changes, so that
  every conjunct is proved once per class of actions.
* `DigestIsOfMemory`, from `DInv`: during a load the digest is that of the image being
  loaded, before the load starts to clear memory it is that of the old one.
* `SessionIsKept`: every step of the service is a step of `DebugSession` or a stutter of
  it, if no image has bytes at the address of an I/O register (`NoHooks`). The mapping
  hides what a CPU does between the states a client can tell apart, so the invariant
  `SInv` says what those hidden states may be: a handler has an outcome only when it is
  about to answer (`Outcomes`), an instruction that a loop executes on its own account
  is one of a running CPU (`OwnRun`), and `RedisLand` is not stuck. `NoHooks` is needed:
  a load that stores into an I/O register sends to `RedisLand` from `RedisLand`, and a
  CPU that it has set to `IoSleep` never wakes.
* `CreditIsEarnedByCareful` and `ResetRestoresForCareful`, for one handler that replaces
  and reloads the images of halted CPUs only (`CarefulClient`), with any number of CPUs,
  images of every kind and a Redis that may fail. The hypothesis is that of the run
  `careful`; without it TLC shows both violated. Neither property is
  inductive, since a completion takes three hops (memory hook, `Loop`, `RedisLand`) and a
  reset two requests to the loop. `CInv` follows them: while a loop has a completion to
  send, its CPU's digest is that of the bytes that earned it (`LoopFine`); the only load
  under way is the one the client asked for (`LoadsAsked`), and its CPU executes nothing
  (`Still`); a reset loads the image its CPU had, which is its image still (`Resetting`).

`ScanPolicyProofs` proves `AveragesBounded`, `KnownAwaited` and `AveragesFavourFast`
for any hosts and delays under `ScanPolicyAssumption`. The invariant is
`AveragesInRange` with the types: it makes `Add` the linear formula `LaterSample`.

`PortScanProofs` proves, for any hosts, ports, workers, arguments, capacity and
failures, under `PortScanAssumption`:

* `NeverDropped`: `NothingDropped` needs that the program can exit only when the main
  goroutine has returned and the channel and the batch are empty (`EndOK`), and that
  what is in flight was found (`LiveOK`). Only the control of the main goroutine and the
  collector takes part.
* `AlwaysAccounted` and `AlwaysFoundAll`. `ScanInv` has the types, `Accounted` itself,
  and where a request can be: a pair for which a request was made is with the feeder,
  with a worker, or reported, and found if it was sure to be (`DealtOK`); a probe waits
  for 20 ms at least, which is the invariant of `ScanPolicyProofs`, taken over for the
  policy inside the scan (`WorkerOK`). When the main goroutine returns, `Accounted` says
  as many requests were made as there can be, so all of them were made (`AllRequested`:
  a subset with as many members). For arguments whose 16-bit counts fit, the mask
  then has every port of every range (`CountsRight`, `MaskFacts`): a bijection between
  the ports and the positions the feeder counts through.

`Ec2TestProofs` proves `SourcesAlwaysExist`, `PendingAlwaysKeep` and
`RefusalAlwaysVisible` under `Ec2Assumption`. The inductive invariant adds that an
instance and its reservation name each other (`Reserved`), that permissions name
existing groups (`Granted`) and that names differ (`NamesDiffer`). The third theorem
rests on the last: the server compares structs where the filter compares names. It says
that whoever is refused can see a pending or running instance of the group, or another
group that lets it in, and that a pending instance or such a group is enough to be
refused.

`ReadersProofs` proves for texts of any length (under `HttpAssumption` and
`RuleAssumption`; the form parser needs no assumption):

* `NodesAlwaysInOrder` of `HttpParser`. The invariant is: at most one token is pushed
  back, with nothing in hand or collected, except the one `parseTryScheme` leaves both
  in hand and on the stack (`StackOK`, `Twice`); everything sent is before everything in
  hand, collected or to come (`OrderOK`); where a token may be in hand at all
  (`PlaceOK`); and the start of the URL is before its parts (`FirstOK`). `NodesInOrder`
  is not inductive, being about steps; without `Twice` one could not tell that the token
  read twice goes into one node. `HandEmptied` and `TokenTaken` carry the actions that
  push back or drop a token, and those that take one.
* `FieldsAlwaysLeft`, `TextNeverWaits` and `NothingElseLeaks` of `FormParser`. `FormInv`
  says which node is current in each function (`PathOK`: every function of `parse.go`
  that opens a node leaves it on each of its returns that go on), and at which places
  `p.accum` holds text, or text that is in a node already (`TextOK`). The second is
  what makes the three properties inductive: that text leaks only after a text field, a
  number field or an option depends on what each of the other functions found in
  `p.accum`, not on what it put there.
* `EveryValueIsSaid` of `RuleRunner`, the safety half of `RulesEnd`. A rule that has got
  ready is in the queue, being run or through, in one of these and once (`PlacesOK`);
  those through are closed and as many as `run` counts, so that the run does not end one
  rule early; and what the caller has had of a rule, with the value on its way to him,
  is what the rule says up to its `c` (`SaidOK`), whose last step is where the test in
  front of the increment in `Past` matters. `NumSaid` and `ListSaid` compare the loops
  with the closed form `Said`.

`ToolsProofs` proves of the programs that `MCTools` puts side by side:

* `AlwaysHeldOnce` and `DoAlwaysGetsItsReply` of `RedisPool`. On a connection without an
  error, the commands in its three queues are the replies it still owes and those being
  waited for, except that a `Receive` may wait for nothing (`OwedBy`); while the `Do` of
  a sound connection runs, its own command is the last one in the queues (`LastIsOwn`),
  so that the last of the replies it reads is its own. `Close` hands `pending` on with
  the connection, which is why the first fact must hold of the idle ones too.
* `CertificateIsKept` of `Proxy`, for any hosts and connections, any restarts and
  failures of reads and writes, and lost updates of the map. `ProxyInv` has the types and
  that whoever works on a CONNECT has it at the head of its buffer (`ServesOK`), so that
  the host whose files a goroutine reads is the host it answers for. The rest is about
  steps: from a settled host, each step but a failed read of its files leaves files and
  host settled (`Stays`), since every connection it changes is left in one of the places
  `Settled` allows (`Leaves`) and returns the pair shown if it returns (`Shows`).
* `TriedWhenOver` of `Slop`, the safety half of `ScanIsComplete`: the count, what a
  worker has loaded of it and what it is about to compare are never below the number of
  workers that have still to write it (`CountOK`), so a lost update leaves it too high
  and never too low; and what was handed out is tried or in the hands of one of those
  (`HandedOK`). The model splits `live -= 1` in three steps, which is what makes the
  theorem say more than that a counter counts.
* `LogCanBeRead` of `Replug`, for any number of connections and pieces. The mutex of a
  connection is held by the goroutine that has logged its line and not its dump, and
  that line is the connection's last entry (`MutexOK`); of each way there are as many
  lines as pieces passed on, but for the one that waits for the mutex (`ToldOK`). What a
  step that logs nothing may do to a stream is `Quiet`, so those steps share a proof.

`S3Proofs` proves `ServerIsAStore`: the S3 server implements `S3Store`, for any clients,
buckets, keys and objects under `S3Constants`. A request takes effect at `Enter` if it
does not wait for its peer, and at `Finish` otherwise; until then the store sees it as
called only. `S3Inv` says why `Finish` may still do what `Enter` decided: whoever waits
has the lock, and the bucket and the object it found are those of the names it was asked
for (`EnteredOK`); two names never share a bucket struct (`BucketsOK`). `FailStep`,
`PutObjectStep` and so on take one reply each.

`S3Proofs` also proves `PagesAlwaysComplete`, for any keys that are not empty, any
prefixes and maxima. `PagesInv` says of a listing that its names differ, none is above
its marker, and each key that stayed is shown or still to come (`Sound`); that such keys
are in the bucket; and that who waits for a page lists that bucket. The argument: the
names are totally ordered, by the first place where two differ (`Lower`); a finite set
has one increasing sequence, each key standing at its rank (`SortedIs`); names are in
the order of their keys (`NamesInOrder`), which is why a group, whose keys stand side by
side, needs comparing with the last prefix only; so a page has, after any number of
turns, the names above the marker of the keys it has seen, each once, up to where it was
cut (`TurnOK`), and above its highest name only what the next page will have.

`Msp430Proofs` proves of every first word that decoding is total (`DecodeTotal`: the
panic of `constantMode` is unreachable) and that the width counts the extension words of
the modes (`WidthsAgree`); and of every state of the machine, every instruction and
every extension word what TLC checks from a few states: `NothingElseTouched`,
`SumsAreExact`, `ComparesRightly`, `StackIsAStack`. The invariant is only that registers
are words and cells bytes (`MachineOK`, theorem `MachineStays`); the work is in the
step. `FlagBits` cuts a status register into its flags, which is where the order C, V,
N, Z of the assignments counts. `DecodeShapes` says what decoding promises execution: an
operand that is addressed through a register never names the status register or the
constant one, so that the address does not move when the flags are set between the load
and the store (`FlaglessAddresses`). `SingleTraces` and `DoubleTraces` follow each
return of `Execute`; `Pops` runs a second instruction on the result of the first. The
only assumption is that hooked addresses are words.

What only TLC checks, and why:

* All liveness: `TypedAnswered`, `TypedWakes`, `AnsweredOrAsleep`, `ScanEnds`,
  `LockIsReleased`, `HttpEnds`, and the liveness halves of `RulesEnd` and
  `ScanIsComplete`. The prover has no ENABLED, so no fairness.
  (Induction it does have where it can be said with a set: `SetInduction` is about the
  set of the n for which a fact holds. `TurnsAre` and `PageOfHeld` rest on it.)
* `CreditIsEarned` and `ResetRestores` without the discipline of `CarefulClient`, and
  `KeepsSession` without `NoHooks`, are not claimed: TLC finds them violated there.

## 7. Not modelled

* Conversions and I/O without a state of their own: the cookie's cipher, page rendering,
  the symbol table, the spelling of texts, the front end in JavaScript, the helpers in
  `formaldehyd/my`, the one-shot tools, `slop/scan.go` and `webrec.go`, the address
  conversions of `util.go`, the pipes of a rule and the cutting of an annotated request,
  and the vendored router and clients of SNS and SimpleDB.
* `msp43x`: read hooks and the retry after `E_Again` (no hook returns it), dumps and
  listings.
* `proxy`: the bytes of requests, TLS sessions, the signing of certificates, the
  branches of a chained proxy, which nothing reaches.
* The test servers' forms, XML, ACLs, checksums and signatures; redigo's wire format,
  scripts and subscriptions.

Two races of `CpuServer` and three oddities of `Proxy` are in the models as they are and
no property states them, since no text of the repository promises otherwise: `Image` may
name another image than memory holds after two loads; an image with bytes at an I/O
address stops `RedisLand`; a CONNECT is found in the buffer again after it was served; a
plain request dials the empty address; one failed read replaces the certificate of a host.
