------------------------------- MODULE RedisPool -------------------------------
(***************************************************************************)
(* redigo's pool of connections and the pipelining of one connection:      *)
(* pool.go and conn.go of src/src/github.com/garyburd/redigo/redis.  A     *)
(* command is written to a buffer, flushed to the server, answered in the  *)
(* order of arrival and its reply read.  A command is told from the others *)
(* while the Do that wrote it runs.                                        *)
(*                                                                         *)
(* A pooled connection has one user, as its documentation asks.            *)
(***************************************************************************)
EXTENDS Naturals, Sequences, SequencesExt

CONSTANTS
  Users,
  MaxIdle,        (* of NewPool                                              *)
  HasReadTimeout, (* readTimeout # 0                                         *)
  MaxMade,        (* bound on the connections that are made                  *)
  MaxQueue        (* bound on the commands of a connection                   *)

PoolConstants ==
  MaxIdle \in Nat /\ HasReadTimeout \in BOOLEAN /\ MaxMade \in Nat /\ MaxQueue \in Nat

(* The command of the Do that runs, and any other.                         *)
Own   == "own"
Other == "other"

VARIABLES
  conns,          (* the connections ever made                               *)
  idle,           (* Pool.conns                                              *)
  user            (* user -> its pooledConnection and what it waits for      *)

vars == <<conns, idle, user>>

New ==
  [out      |-> <<>>,     (* bw: written and not flushed                     *)
   wire     |-> <<>>,     (* flushed and not answered                        *)
   back     |-> <<>>,     (* br: answered and not read                       *)
   pending  |-> 0,
   err      |-> FALSE,
   broken   |-> FALSE,    (* the network connection                          *)
   deadline |-> "none"]   (* for reading: "none", "ahead" or "past"          *)

(* conn.Close: what it still had in its buffers is lost.                   *)
Released == [New EXCEPT !.err = TRUE, !.broken = TRUE]

(* wants: the replies that are still to be read; clean: a Do reads them,   *)
(* on a connection that had no error; got: what it returned.               *)
Nobody == [conn |-> 0, closed |-> TRUE, wants |-> 0, clean |-> FALSE, got |-> "nothing"]

Init ==
  /\ conns = <<>>
  /\ idle = <<>>
  /\ user = [u \in Users |-> Nobody]

Length(c) == Len(c.out) + Len(c.wire) + Len(c.back)

(* The user is between two calls, and its pooledConnection not closed.     *)
Holds(u) == ~ user[u].closed /\ user[u].wants = 0

Conn(u) == conns[user[u].conn]

(* A step of u that makes c of its connection and r of its own record.     *)
Step(u, c, r) ==
  /\ conns' = [conns EXCEPT ![user[u].conn] = c]
  /\ user' = [user EXCEPT ![u] = r]
  /\ UNCHANGED idle

Leave(s) == [i \in DOMAIN s |-> Other]

(* The commands of a connection whose Do has come to its end.              *)
Left(c) == [c EXCEPT !.out = Leave(@), !.wire = Leave(@), !.back = Leave(@)]

Fatal(c) == [c EXCEPT !.err = TRUE]

-----------------------------------------------------------------------------
(* The pool *)

GetIdle(u) ==
  /\ user[u].closed /\ idle # <<>>
  /\ user' = [user EXCEPT ![u] = [Nobody EXCEPT !.conn = Head(idle), !.closed = FALSE]]
  /\ idle' = Tail(idle)
  /\ UNCHANGED conns

(* newFn may fail, which changes nothing.                                  *)
GetNew(u) ==
  /\ user[u].closed /\ idle = <<>> /\ Len(conns) < MaxMade
  /\ conns' = Append(conns, New)
  /\ user' = [user EXCEPT ![u] = [Nobody EXCEPT !.conn = Len(conns) + 1, !.closed = FALSE]]
  /\ UNCHANGED idle

(* Mutant: Close does not note that the connection is given back.          *)
StaysOpen(u) == user[u]

(* c.err = errPoolClosed: every later call, Close too, only returns it.    *)
Closed(u) == Nobody

(* Mutant: what Close asks of a connection it gives back.                  *)
Whatever(c) == TRUE

Reusable(c) == ~ c.err

Close(u) ==
  /\ Holds(u)
  /\ user' = [user EXCEPT ![u] = Closed(u)]
  /\ IF Reusable(Conn(u)) /\ Len(idle) < MaxIdle
     THEN idle' = Append(idle, user[u].conn) /\ UNCHANGED conns
     ELSE conns' = [conns EXCEPT ![user[u].conn] = Released] /\ UNCHANGED idle

-----------------------------------------------------------------------------
(* A connection *)

(* A write fails, now or when the buffer is flushed, only if the network   *)
(* connection is broken; bufio then fails every write that follows.        *)
Send(u) ==
  /\ Holds(u) /\ Length(Conn(u)) < MaxQueue
  /\ \/ Step(u, [Conn(u) EXCEPT !.out = Append(@, Other), !.pending = @ + 1], user[u])
     \/ Conn(u).broken /\ Step(u, Fatal(Conn(u)), user[u])

Flush(u) ==
  /\ Holds(u)
  /\ IF Conn(u).broken THEN Step(u, Fatal(Conn(u)), user[u])
     ELSE Step(u, [Conn(u) EXCEPT !.wire = @ \o Conn(u).out, !.out = <<>>], user[u])

(* Mutant: Do reads one reply, as Receive does.                            *)
JustOne(c) == 1

(* The replies Do reads: those that are still owed, and its own.           *)
ToRead(c) == c.pending + 1

(* Do does not ask whether the connection has an error, and sets no        *)
(* deadline: that of an earlier Receive stays.                             *)
Do(u) ==
  LET c == Conn(u) IN
  /\ Holds(u) /\ Length(c) < MaxQueue
  /\ IF c.broken THEN Step(u, Fatal(c), user[u])
     ELSE Step(u, [c EXCEPT !.wire = @ \o Append(c.out, Own), !.out = <<>>, !.pending = 0],
               [user[u] EXCEPT !.wants = ToRead(c), !.clean = ~ c.err, !.got = "nothing"])

(* Receive waits for one reply; it may be called when none is owed.        *)
Receive(u) ==
  LET c == Conn(u) IN
  /\ Holds(u)
  /\ Step(u, [c EXCEPT !.pending = IF @ > 0 THEN @ - 1 ELSE 0,
                       !.deadline = IF HasReadTimeout THEN "ahead" ELSE @],
          [user[u] EXCEPT !.wants = 1, !.clean = FALSE, !.got = "nothing"])

(* readReply.  What is in the buffer is read whatever the deadline.        *)
Read(u) ==
  LET c == Conn(u) IN
  /\ user[u].wants > 0 /\ c.back # <<>>
  /\ IF user[u].wants > 1
     THEN Step(u, [c EXCEPT !.back = Tail(@)], [user[u] EXCEPT !.wants = @ - 1])
     ELSE Step(u, Left([c EXCEPT !.back = Tail(@)]),
               [user[u] EXCEPT !.wants = 0, !.clean = FALSE,
                               !.got = IF user[u].clean THEN Head(c.back) ELSE @])

(* The connection is broken, the deadline has passed, or what came is no   *)
(* reply: Do and Receive return, and later replies are nobody's.           *)
ReadFails(u) ==
  LET c == Conn(u) IN
  /\ user[u].wants > 0 /\ (c.broken \/ c.deadline = "past")
  /\ Step(u, Fatal(Left(c)), [user[u] EXCEPT !.wants = 0, !.clean = FALSE])

-----------------------------------------------------------------------------
(* The server and the network, for every connection that is open.          *)

Answer(i) ==
  /\ ~ conns[i].broken /\ conns[i].wire # <<>>
  /\ conns' = [conns EXCEPT ![i].wire = Tail(@), ![i].back = Append(@, Head(conns[i].wire))]
  /\ UNCHANGED <<idle, user>>

Break(i) ==
  /\ ~ conns[i].broken
  /\ conns' = [conns EXCEPT ![i].broken = TRUE]
  /\ UNCHANGED <<idle, user>>

DeadlinePasses(i) ==
  /\ conns[i].deadline = "ahead"
  /\ conns' = [conns EXCEPT ![i].deadline = "past"]
  /\ UNCHANGED <<idle, user>>

Next ==
  \/ \E u \in Users :
       \/ GetIdle(u) \/ GetNew(u) \/ Close(u)
       \/ Send(u) \/ Flush(u) \/ Do(u) \/ Receive(u)
       \/ Read(u) \/ ReadFails(u)
  \/ \E i \in DOMAIN conns : Answer(i) \/ Break(i) \/ DeadlinePasses(i)

Spec == Init /\ [][Next]_vars

-----------------------------------------------------------------------------
(* Properties *)

(* Nobody shares a connection: one is held by one user or is idle, once,   *)
(* and an idle one has no error, so Get never returns a connection that    *)
(* failed in other hands.                                                  *)
HeldOnce ==
  /\ \A u \in Users, v \in Users :
       ~ user[u].closed /\ ~ user[v].closed /\ user[u].conn = user[v].conn => u = v
  /\ \A u \in Users : ~ user[u].closed => user[u].conn \notin ToSet(idle)
  /\ \A i \in DOMAIN idle, j \in DOMAIN idle : idle[i] = idle[j] => i = j
  /\ \A i \in DOMAIN idle : ~ conns[idle[i]].err

(* A Do on a connection without an error, also on one that another user    *)
(* gave back with commands it had not flushed or replies it had not read,  *)
(* reads up to its own reply and no further: when it returns a reply, that *)
(* is the reply to its own command.                                        *)
DoGetsItsReply ==
  \A u \in Users : user[u].got # Other
=============================================================================
