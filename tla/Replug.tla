--------------------------------- MODULE Replug ---------------------------------
(***************************************************************************)
(* The relay of src/src/matasano/blackbag/replug.go.  For each connection  *)
(* that comes in it dials the target and starts two goroutines, teeCopy    *)
(* one way and the other, that pass on what they read and then log it,     *)
(* under a mutex of the connection: a line that says which way and a dump. *)
(*                                                                         *)
(* The breaks in teeCopy leave the switch and not the loop: a reader that  *)
(* is at its end is read again for ever, a write that failed is followed   *)
(* by the next read, and neither connection is ever closed.  Pieces are    *)
(* numbered as they are sent.                                              *)
(***************************************************************************)
EXTENDS Naturals, Sequences, FiniteSets

CONSTANTS
  Relays,           (* connections that come in                              *)
  MaxPieces         (* bound on the pieces sent one way                      *)

ReplugConstants == MaxPieces \in Nat

(* "out": from the client to the target; "in": back.                       *)
Ways  == {"out", "in"}
Free  == "free"

VARIABLES
  relay,            (* relay -> way -> the stream and its goroutine          *)
  canlog,           (* relay -> the way that has its mutex                   *)
  log               (* what has been logged: the lines and dumps of all      *)

vars == <<relay, canlog, log>>

Off == [at |-> "off", sent |-> 0, ended |-> FALSE, broken |-> FALSE, read |-> 0, got |-> <<>>]

Init ==
  /\ relay = [r \in Relays |-> [w \in Ways |-> Off]]
  /\ canlog = [r \in Relays |-> Free]
  /\ log = <<>>

Becomes(r, w, x) == relay' = [relay EXCEPT ![r][w] = x]
At(r, w, label)  == relay[r][w].at = label
Goes(r, w, label) == Becomes(r, w, [relay[r][w] EXCEPT !.at = label])

(* The target cannot be dialled: nothing happens any more.                 *)
Accept(r) ==
  /\ At(r, "out", "off")
  /\ \E label \in {"read", "refused"} :
       relay' = [relay EXCEPT ![r] = [w \in Ways |-> [Off EXCEPT !.at = label]]]
  /\ UNCHANGED <<canlog, log>>

(* The sender of a stream sends, or ends it; the receiver goes away.       *)
SendPiece(r, w) ==
  /\ relay[r][w].at \notin {"off", "refused"}
  /\ ~ relay[r][w].ended /\ relay[r][w].sent < MaxPieces
  /\ Becomes(r, w, [relay[r][w] EXCEPT !.sent = @ + 1])
  /\ UNCHANGED <<canlog, log>>

EndStream(r, w) ==
  /\ relay[r][w].at \notin {"off", "refused"} /\ ~ relay[r][w].ended
  /\ Becomes(r, w, [relay[r][w] EXCEPT !.ended = TRUE])
  /\ UNCHANGED <<canlog, log>>

ReceiverGoes(r, w) ==
  /\ relay[r][w].at \notin {"off", "refused"} /\ ~ relay[r][w].broken
  /\ Becomes(r, w, [relay[r][w] EXCEPT !.broken = TRUE])
  /\ UNCHANGED <<canlog, log>>

ReadPiece(r, w) ==
  /\ At(r, w, "read") /\ relay[r][w].read < relay[r][w].sent
  /\ Becomes(r, w, [relay[r][w] EXCEPT !.read = @ + 1, !.at = "write"])
  /\ UNCHANGED <<canlog, log>>

(* The read that returns the last piece and the error with it: the piece   *)
(* is dropped.                                                             *)
ReadLast(r, w) ==
  /\ At(r, w, "read") /\ relay[r][w].ended /\ relay[r][w].read + 1 = relay[r][w].sent
  /\ Becomes(r, w, [relay[r][w] EXCEPT !.read = @ + 1])
  /\ UNCHANGED <<canlog, log>>

(* The read that returns the end or the error, again and again.            *)
ReadEnd(r, w) ==
  /\ At(r, w, "read") /\ relay[r][w].ended /\ relay[r][w].read = relay[r][w].sent
  /\ UNCHANGED vars

WritePiece(r, w) ==
  /\ At(r, w, "write") /\ ~ relay[r][w].broken
  /\ Becomes(r, w, [relay[r][w] EXCEPT !.got = Append(@, relay[r][w].read), !.at = "lock"])
  /\ UNCHANGED <<canlog, log>>

WriteFails(r, w) ==
  /\ At(r, w, "write") /\ relay[r][w].broken
  /\ Goes(r, w, "read")
  /\ UNCHANGED <<canlog, log>>

(* Mutant: the tee does without the mutex.                                 *)
Anyway(r) == TRUE

MayLog(r) == canlog[r] = Free

Entry(r, w, part) == [relay |-> r, way |-> w, piece |-> relay[r][w].read, part |-> part]

(* tee: Lock, the line.                                                    *)
LogLine(r, w) ==
  /\ At(r, w, "lock") /\ MayLog(r)
  /\ canlog' = [canlog EXCEPT ![r] = w]
  /\ log' = Append(log, Entry(r, w, "line"))
  /\ Goes(r, w, "dump")

(* Hexdump, Unlock.                                                        *)
LogDump(r, w) ==
  /\ At(r, w, "dump")
  /\ canlog' = [canlog EXCEPT ![r] = Free]
  /\ log' = Append(log, Entry(r, w, "dump"))
  /\ Goes(r, w, "read")

Next ==
  \E r \in Relays :
    \/ Accept(r)
    \/ \E w \in Ways :
         \/ SendPiece(r, w) \/ EndStream(r, w) \/ ReceiverGoes(r, w)
         \/ ReadPiece(r, w) \/ ReadLast(r, w) \/ ReadEnd(r, w)
         \/ WritePiece(r, w) \/ WriteFails(r, w) \/ LogLine(r, w) \/ LogDump(r, w)

Spec == Init /\ [][Next]_vars

-----------------------------------------------------------------------------
(* Properties *)

(* Entry j of the log is the one after i of its connection.                *)
Follows(i, j) ==
  /\ i \in 1..(j - 1) /\ log[i].relay = log[j].relay
  /\ \A k \in (i + 1)..(j - 1) : log[k].relay # log[j].relay

(* The lines about one way among the first j entries.                      *)
Lines(j, r, w) ==
  {i \in 1..j : log[i].relay = r /\ log[i].way = w /\ log[i].part = "line"}
Count(j, r, w) == Cardinality(Lines(j, r, w))

(* Of one connection there are lines, each followed by its dump.           *)
LinesHaveDumps ==
  \A j \in DOMAIN log :
    /\ log[j].part = "dump" => \E i \in DOMAIN log : Follows(i, j)
    /\ \A i \in DOMAIN log : Follows(i, j) =>
         IF log[i].part = "line" THEN log[j] = [log[i] EXCEPT !.part = "dump"]
                                 ELSE log[j].part = "line"

(* Of one way the n-th line tells of the n-th piece that was passed on.    *)
Tells(j, n, got) == n <= Len(got) /\ log[j].piece = got[n]
LinesTellPieces ==
  \A j \in DOMAIN log : log[j].part = "line" =>
    Tells(j, Count(j, log[j].relay, log[j].way), relay[log[j].relay][log[j].way].got)

(* The log can be read: of one connection it holds lines that are followed *)
(* each by its dump, the last perhaps not yet, and of one way just the     *)
(* pieces that were passed on, in their order, although two goroutines     *)
(* write it and receivers go away in the middle.                           *)
LogReads == LinesHaveDumps /\ LinesTellPieces
=============================================================================
