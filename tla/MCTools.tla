------------------------------- MODULE MCTools -------------------------------
(* Instances of ScanPolicy, RedisPool, Proxy, Slop and Replug for TLC.     *)
(* They have nothing in common: a behaviour is one of the program that     *)
(* program  names.  ScanPolicy has a fast host and one whose answers take  *)
(* long and differ by more than 128 ms.                                    *)
EXTENDS ScanPolicy

CONSTANTS
  Users, MaxIdle, HasReadTimeout, MaxMade, MaxQueue,
  Conns, Sites, MaxBuffer, MaxMints,
  Workers, NHosts,
  Relays, MaxPieces

MCHosts   == {"fast", "slow"}
MCDelays  == [h \in MCHosts |-> IF h = "fast" THEN {2} ELSE {7, 136}]
MCFastest == [h \in MCHosts |-> IF h = "fast" THEN 2 ELSE 7]
MCSlowest == [h \in MCHosts |-> IF h = "fast" THEN 2 ELSE 136]

VARIABLES
  program,
  conns, idle, user,
  cache, files, minted, conn,
  sent, closed, live, done, worker, handshake, tried, over, lost,
  relay, canlog, log

Pool     == INSTANCE RedisPool
Proxying == INSTANCE Proxy WITH Hosts <- Sites
Scanning == INSTANCE Slop
Relaying == INSTANCE Replug

ASSUME PoolAssumption   == Pool!PoolConstants
ASSUME ProxyAssumption  == Proxying!ProxyConstants
ASSUME SlopAssumption   == Scanning!SlopConstants
ASSUME ReplugAssumption == Relaying!ReplugConstants

poolVars   == <<conns, idle, user>>
proxyVars  == <<cache, files, minted, conn>>
slopVars   == <<sent, closed, live, done, worker, handshake, tried, over, lost>>
replugVars == <<relay, canlog, log>>
toolVars   == <<program, vars, poolVars, proxyVars, slopVars, replugVars>>

ToolsInit ==
  /\ program \in {"policy", "pool", "proxy", "slop", "replug"}
  /\ Init /\ Pool!Init /\ Proxying!Init /\ Scanning!Init /\ Relaying!Init

PolicyStep ==
  program = "policy" /\ Next /\ UNCHANGED <<program, poolVars, proxyVars, slopVars, replugVars>>
PoolStep ==
  program = "pool" /\ Pool!Next /\ UNCHANGED <<program, vars, proxyVars, slopVars, replugVars>>
ProxyStep ==
  program = "proxy" /\ Proxying!Next /\ UNCHANGED <<program, vars, poolVars, slopVars, replugVars>>
SlopStep(step) ==
  program = "slop" /\ step /\ UNCHANGED <<program, vars, poolVars, proxyVars, replugVars>>
ReplugStep ==
  program = "replug" /\ Relaying!Next /\ UNCHANGED <<program, vars, poolVars, proxyVars, slopVars>>

ToolsNext == PolicyStep \/ PoolStep \/ ProxyStep \/ SlopStep(Scanning!Next) \/ ReplugStep

(* The fairness of Slop.                                                   *)
ToolsSpec ==
  /\ ToolsInit /\ [][ToolsNext]_toolVars
  /\ WF_toolVars(SlopStep(Scanning!CloseRequests)) /\ WF_toolVars(SlopStep(Scanning!MainReturns))
  /\ \A w \in Workers : WF_toolVars(SlopStep(Scanning!WorkerStep(w)))

(* The properties; those of ScanPolicy have their names already.           *)
HeldOnce        == Pool!HeldOnce
DoGetsItsReply  == Pool!DoGetsItsReply
CertificateStays == Proxying!CertificateStays
LogReads        == Relaying!LogReads
ScanIsComplete  == []Scanning!AllTried /\ (program = "slop" => Scanning!ScanEnds)
==============================================================================
