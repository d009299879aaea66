---------------------------------- MODULE Slop ----------------------------------
(***************************************************************************)
(* The scanner for certificates of src/src/matasano/slop/peercert.go: main *)
(* hands the hosts to its workers one by one, closes the channel, and      *)
(* waits for the worker that counts the live ones down to zero.  The       *)
(* workers share that count without synchronisation:  live -= 1  is a load *)
(* and a store, and the comparison that follows may use the value that was *)
(* stored or load it again.  A handshake runs in a goroutine of its own    *)
(* and its first completion races a timeout; nobody takes the second.      *)
(***************************************************************************)
EXTENDS Naturals, FiniteSets

CONSTANTS
  Workers,
  NHosts            (* lines of the file of hosts                            *)

SlopConstants == IsFiniteSet(Workers) /\ Workers # {} /\ NHosts \in Nat

Lines == 1..NHosts

VARIABLES
  sent,             (* hosts main has handed out                             *)
  closed,           (* the channel requests                                  *)
  live, done,       (* the count; the channel done is closed                 *)
  worker,           (* where a worker is, its host, the count it loaded      *)
  handshake,        (* host -> its goroutine                                 *)
  tried,            (* hosts TlsCommonName has returned for                  *)
  over,             (* "no"; main has returned, or a goroutine has panicked  *)
  lost              (* a decrement of live was overwritten                   *)

vars == <<sent, closed, live, done, worker, handshake, tried, over, lost>>

Init ==
  /\ sent = 0 /\ closed = FALSE
  /\ live = Cardinality(Workers) /\ done = FALSE
  /\ worker = [w \in Workers |-> [at |-> "take", host |-> 0, loaded |-> 0]]
  /\ handshake = [h \in Lines |-> "none"]
  /\ tried = {}
  /\ over = "no"
  /\ lost = FALSE

At(w, label) == over = "no" /\ worker[w].at = label
Goes(w, label) == worker' = [worker EXCEPT ![w].at = label]

(* requests <- line, which a worker that waits receives.                   *)
Hand(w) ==
  /\ At(w, "take") /\ sent < NHosts
  /\ sent' = sent + 1
  /\ worker' = [worker EXCEPT ![w] = [@ EXCEPT !.at = "dial", !.host = sent + 1]]
  /\ UNCHANGED <<closed, live, done, handshake, tried, over, lost>>

CloseRequests ==
  /\ over = "no" /\ sent = NHosts /\ ~ closed
  /\ closed' = TRUE
  /\ UNCHANGED <<sent, live, done, worker, handshake, tried, over, lost>>

TlsCommonNameReturns(w) ==
  /\ Goes(w, "take")
  /\ tried' = tried \cup {worker[w].host}

DialFails(w) ==
  /\ At(w, "dial")
  /\ TlsCommonNameReturns(w)
  /\ UNCHANGED <<sent, closed, live, done, handshake, over, lost>>

Dialled(w) ==
  /\ At(w, "dial")
  /\ handshake' = [handshake EXCEPT ![worker[w].host] = "runs"]
  /\ Goes(w, "wait")
  /\ UNCHANGED <<sent, closed, live, done, tried, over, lost>>

(* The goroutine comes to its first completion, good or bad.               *)
HandshakeEnds(h) ==
  /\ over = "no" /\ handshake[h] = "runs"
  /\ handshake' = [handshake EXCEPT ![h] = "sends"]
  /\ UNCHANGED <<sent, closed, live, done, worker, tried, over, lost>>

(* It goes on to a second completion, which blocks it for ever.            *)
TakeCompletion(w) ==
  /\ At(w, "wait") /\ handshake[worker[w].host] = "sends"
  /\ handshake' = [handshake EXCEPT ![worker[w].host] = "sends again"]
  /\ TlsCommonNameReturns(w)
  /\ UNCHANGED <<sent, closed, live, done, over, lost>>

TimesOut(w) ==
  /\ At(w, "wait")
  /\ TlsCommonNameReturns(w)
  /\ UNCHANGED <<sent, closed, live, done, handshake, over, lost>>

(* The channel is closed: live -= 1.                                       *)
LoadLive(w) ==
  /\ At(w, "take") /\ closed
  /\ worker' = [worker EXCEPT ![w] = [@ EXCEPT !.at = "store", !.loaded = live]]
  /\ UNCHANGED <<sent, closed, live, done, handshake, tried, over, lost>>

StoreLive(w) ==
  /\ At(w, "store")
  /\ live' = worker[w].loaded - 1
  /\ lost' = (lost \/ live # worker[w].loaded)
  /\ Goes(w, "compare")
  /\ UNCHANGED <<sent, closed, done, handshake, tried, over>>

(* Mutant: the last worker to leave is not told from the others.           *)
BelowZero(v) == v < 0

IsLast(v) == v = 0

(* A channel that is closed twice is a panic.                              *)
CompareLive(w) ==
  /\ At(w, "compare")
  /\ \E v \in {live, worker[w].loaded - 1} :
       IF IsLast(v)
       THEN /\ done' = TRUE
            /\ over' = IF done THEN "panic" ELSE over
       ELSE UNCHANGED <<done, over>>
  /\ Goes(w, "gone")
  /\ UNCHANGED <<sent, closed, live, handshake, tried, lost>>

MainReturns ==
  /\ over = "no" /\ closed /\ done
  /\ over' = "returned"
  /\ UNCHANGED <<sent, closed, live, done, worker, handshake, tried, lost>>

WorkerStep(w) ==
  \/ Hand(w) \/ DialFails(w) \/ Dialled(w) \/ TakeCompletion(w) \/ TimesOut(w)
  \/ LoadLive(w) \/ StoreLive(w) \/ CompareLive(w)

Next ==
  \/ \E w \in Workers : WorkerStep(w)
  \/ \E h \in Lines : HandshakeEnds(h)
  \/ CloseRequests \/ MainReturns

Spec == Init /\ [][Next]_vars

(* Every goroutine that can go on does; dialling and waiting for the       *)
(* handshake take 750 ms each at most.                                     *)
FairSpec ==
  Spec /\ WF_vars(CloseRequests) /\ WF_vars(MainReturns) /\ \A w \in Workers : WF_vars(WorkerStep(w))

-----------------------------------------------------------------------------
(* Properties *)

(* When the program ends, by itself or by closing done twice, every host   *)
(* has been tried and its result taken: the races on live can only make    *)
(* the count too high.  And it does end, unless a decrement was lost.      *)
AllTried       == over # "no" => tried = Lines
ScanEnds       == <>(over # "no" \/ lost)
ScanIsComplete == []AllTried /\ ScanEnds
=============================================================================
