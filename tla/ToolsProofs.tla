------------------------------ MODULE ToolsProofs ------------------------------
(***************************************************************************)
(* Proofs about the programs that MCTools puts side by side: the pool of   *)
(* the Redis client (Pool!), the certificates of the intercepting proxy    *)
(* (Proxying!), the workers of slop (Scanning!) and the log of the line    *)
(* relay (Relaying!), each for all values of its constants.  Each part has *)
(* its types, its inductive invariant and a lemma per step or per kind of  *)
(* step; the theorems are at the end.                                      *)
(***************************************************************************)
EXTENDS MCTools, Integers, FiniteSets, SequenceTheorems, FiniteSetTheorems, TLAPS

-----------------------------------------------------------------------------
(* Pool: types *)

Commands == {Pool!Own, Pool!Other}

ConnRec ==
  [out : Seq(Commands), wire : Seq(Commands), back : Seq(Commands), pending : Nat,
   err : BOOLEAN, broken : BOOLEAN, deadline : {"none", "ahead", "past"}]
UserRec ==
  [conn : Nat, closed : BOOLEAN, wants : Nat, clean : BOOLEAN,
   got : {"nothing", Pool!Own, Pool!Other}]

PoolTypeOK ==
  /\ conns \in Seq(ConnRec)
  /\ idle \in Seq(DOMAIN conns)
  /\ user \in [Users -> UserRec]
  /\ \A u \in Users : ~ user[u].closed => user[u].conn \in DOMAIN conns
  /\ \A u \in Users : user[u].closed => user[u].wants = 0 /\ ~ user[u].clean

(* The command of the Do that runs is the last one that was written.       *)
LastIsOwn(c) ==
  IF c.wire # <<>> THEN c.wire[Len(c.wire)] = Pool!Own
  ELSE c.back # <<>> /\ c.back[Len(c.back)] = Pool!Own

(* Without an error the commands in the three queues are those that are    *)
(* owed and those being waited for; but a Receive may wait for nothing.    *)
(* A clean Do waits for everything that is in the queues.                  *)
OwedBy(c, r) ==
  /\ ~ c.err => \/ c.pending + r.wants = Pool!Length(c)
                \/ c.pending = 0 /\ r.wants = 1 /\ ~ r.clean /\ Pool!Length(c) = 0
  /\ r.clean => /\ ~ c.err /\ r.wants > 0 /\ r.wants = Pool!Length(c)
                /\ c.out = <<>> /\ LastIsOwn(c)

OwedOK ==
  /\ \A u \in Users : ~ user[u].closed => OwedBy(conns[user[u].conn], user[u])
  /\ \A i \in DOMAIN idle : conns[idle[i]].pending = Pool!Length(conns[idle[i]])

PoolInv == PoolTypeOK /\ Pool!HeldOnce /\ OwedOK /\ Pool!DoGetsItsReply
-----------------------------------------------------------------------------
LEMMA SeqUpdate ==
  ASSUME NEW S, NEW s \in Seq(S), NEW i \in DOMAIN s, NEW e \in S
  PROVE  /\ [s EXCEPT ![i] = e] \in Seq(S)
         /\ DOMAIN [s EXCEPT ![i] = e] = DOMAIN s
         /\ [s EXCEPT ![i] = e][i] = e
         /\ \A j \in DOMAIN s : j # i => [s EXCEPT ![i] = e][j] = s[j]
  OBVIOUS

(* What nobody's command is any more: as many as before.                   *)
LEMMA LeaveLength ==
  ASSUME NEW s \in Seq(Commands)
  PROVE  Pool!Leave(s) \in Seq(Commands) /\ Len(Pool!Leave(s)) = Len(s)
<1>1. Len(s) \in Nat /\ DOMAIN s = 1..Len(s)
  OBVIOUS
<1>. QED  BY <1>1 DEF Pool!Leave, Commands

LEMMA Sums == \A a, b, c \in Nat : a + b + c \in Nat
  OBVIOUS

(* The queues of a connection, named, and the connection that has them.    *)
LEMMA ConnFields ==
  ASSUME NEW c \in ConnRec
  PROVE  /\ Pool!Length(c) \in Nat /\ c.pending \in Nat
         /\ \E o, w, b \in Seq(Commands) : c.out = o /\ c.wire = w /\ c.back = b
<1>1. c.out \in Seq(Commands) /\ c.wire \in Seq(Commands) /\ c.back \in Seq(Commands)
      /\ c.pending \in Nat
  BY DEF ConnRec
<1>2. Len(c.out) \in Nat /\ Len(c.wire) \in Nat /\ Len(c.back) \in Nat
  BY <1>1
<1>3. Pool!Length(c) \in Nat
  BY <1>2, Sums, Zenon DEF Pool!Length
<1>. QED  BY <1>1, <1>3, Zenon

(* A connection with other queues and another count is a connection.       *)
LEMMA Requeued ==
  ASSUME NEW c \in ConnRec, NEW o \in Seq(Commands), NEW w \in Seq(Commands),
         NEW b \in Seq(Commands), NEW p \in Nat
  PROVE  /\ [c EXCEPT !.out = o, !.pending = p] \in ConnRec
         /\ [c EXCEPT !.wire = w, !.out = o] \in ConnRec
         /\ [c EXCEPT !.wire = w, !.out = o, !.pending = p] \in ConnRec
         /\ [c EXCEPT !.back = b] \in ConnRec
         /\ [c EXCEPT !.wire = w, !.back = b] \in ConnRec
  BY DEF ConnRec

(* Writing a command, at the end of a queue or of two.                     *)
LEMMA OwnIsLast ==
  ASSUME NEW s \in Seq(Commands), NEW t \in Seq(Commands)
  PROVE  /\ s \o Append(t, Pool!Own) \in Seq(Commands)
         /\ Len(s \o Append(t, Pool!Own)) = Len(s) + Len(t) + 1
         /\ s \o Append(t, Pool!Own) # <<>>
         /\ (s \o Append(t, Pool!Own))[Len(s \o Append(t, Pool!Own))] = Pool!Own
<1>1. /\ Append(t, Pool!Own) \in Seq(Commands) /\ Len(Append(t, Pool!Own)) = Len(t) + 1
      /\ Append(t, Pool!Own)[Len(t) + 1] = Pool!Own
  BY DEF Commands
<1> DEFINE e == Append(t, Pool!Own)
<1>2. /\ e \in Seq(Commands) /\ Len(e) = Len(t) + 1 /\ e[Len(e)] = Pool!Own
      /\ Len(e) \in Nat /\ Len(e) > 0 /\ Len(s) \in Nat /\ Len(t) \in Nat
  BY <1>1
<1> HIDE DEF e
<1>3. s \o e \in Seq(Commands) /\ Len(s \o e) = Len(s) + Len(e)
  BY <1>2
<1>4. (s \o e)[Len(s) + Len(e)] = e[Len(e)]
  BY <1>2
<1>5. s \o e # <<>>
  BY <1>2, <1>3
<1>. QED  BY <1>2, <1>3, <1>4, <1>5 DEF e

LEMMA TailFacts ==
  ASSUME NEW s \in Seq(Commands), s # <<>>
  PROVE  /\ Len(s) \in Nat /\ Len(s) > 0 /\ Head(s) = s[1] /\ Head(s) \in Commands
         /\ Tail(s) \in Seq(Commands) /\ Len(Tail(s)) = Len(s) - 1
         /\ Tail(s) = <<>> <=> Len(s) = 1
         /\ Len(s) > 1 => Tail(s)[Len(Tail(s))] = s[Len(s)]
<1>1. Len(s) \in Nat /\ Len(s) > 0 /\ Head(s) = s[1] /\ s[1] \in Commands
  OBVIOUS
<1>2. Tail(s) \in Seq(Commands) /\ Len(Tail(s)) = Len(s) - 1
  OBVIOUS
<1>3. \A i \in 1..(Len(s) - 1) : Tail(s)[i] = s[i + 1]
  OBVIOUS
<1>4. Tail(s) = <<>> <=> Len(Tail(s)) = 0
  BY <1>2, EmptySeq
<1>5. Len(s) > 1 => Tail(s)[Len(s) - 1] = s[Len(s)]
  BY <1>1, <1>3
<1>. QED  BY <1>1, <1>2, <1>4, <1>5

LEMMA LeftTyped ==
  ASSUME NEW c \in ConnRec
  PROVE  /\ Pool!Left(c) \in ConnRec /\ Pool!Length(Pool!Left(c)) = Pool!Length(c)
         /\ Pool!Left(c).pending = c.pending /\ Pool!Left(c).err = c.err
<1>1. c.out \in Seq(Commands) /\ c.wire \in Seq(Commands) /\ c.back \in Seq(Commands)
  BY DEF ConnRec
<1>2. Pool!Left(c) = [c EXCEPT !.out = Pool!Leave(c.out), !.wire = Pool!Leave(c.wire),
          !.back = Pool!Leave(c.back)]
  BY DEF Pool!Left
<1>3. Pool!Left(c) \in ConnRec
  BY <1>1, <1>2, LeaveLength DEF ConnRec
<1>4. /\ Pool!Left(c).out = Pool!Leave(c.out) /\ Pool!Left(c).wire = Pool!Leave(c.wire)
          /\ Pool!Left(c).back = Pool!Leave(c.back)
      /\ Pool!Left(c).pending = c.pending /\ Pool!Left(c).err = c.err
  BY <1>2 DEF ConnRec
<1>. QED  BY <1>1, <1>3, <1>4, LeaveLength DEF Pool!Length

LEMMA PoolInitInv == Pool!Init => PoolInv
<1> SUFFICES ASSUME Pool!Init PROVE PoolInv
  OBVIOUS
<1> USE DEF Pool!Init, Pool!Nobody
<1>1. PoolTypeOK
  BY DEF PoolTypeOK, UserRec
<1>2. Pool!HeldOnce
  BY DEF Pool!HeldOnce, Pool!ToSet
<1>3. OwedOK /\ Pool!DoGetsItsReply
  BY DEF OwedOK, Pool!DoGetsItsReply, Pool!Other
<1>. QED  BY <1>1, <1>2, <1>3 DEF PoolInv
-----------------------------------------------------------------------------
(* A step of the holder of a connection touches nobody else's.             *)
LEMMA HolderStep ==
  ASSUME PoolInv, NEW u \in Users, ~ user[u].closed,
         NEW c \in ConnRec, NEW r \in UserRec, Pool!Step(u, c, r),
         r.conn = user[u].conn, ~ r.closed, OwedBy(c, r), r.got # Pool!Other
  PROVE  PoolInv'
<1> USE DEF PoolInv
<1> DEFINE n == user[u].conn
<1>1. n \in DOMAIN conns /\ conns \in Seq(ConnRec) /\ user \in [Users -> UserRec]
  BY DEF PoolTypeOK
<1>2. conns' = [conns EXCEPT ![n] = c] /\ user' = [user EXCEPT ![u] = r] /\ idle' = idle
  BY DEF Pool!Step
<1>3. /\ conns' \in Seq(ConnRec) /\ DOMAIN conns' = DOMAIN conns
      /\ conns'[n] = c /\ \A j \in DOMAIN conns : j # n => conns'[j] = conns[j]
  BY <1>1, <1>2, SeqUpdate
<1>4. /\ user' \in [Users -> UserRec] /\ user'[u] = r
      /\ \A v \in Users : v # u => user'[v] = user[v]
  BY <1>1, <1>2
<1>5. \A v \in Users : user'[v].closed = user[v].closed /\ user'[v].conn = user[v].conn
  BY <1>4, <1>1 DEF UserRec
<1>6. \A v \in Users : v # u /\ ~ user[v].closed => user[v].conn # n
  BY DEF Pool!HeldOnce
<1>7. n \notin Pool!ToSet(idle)
  BY DEF Pool!HeldOnce
<1>8. \A i \in DOMAIN idle : idle[i] \in DOMAIN conns /\ idle[i] # n
  BY <1>7, ElementOfSeq DEF PoolTypeOK, Pool!ToSet
<1>9. PoolTypeOK'
  BY <1>2, <1>3, <1>4, <1>5 DEF PoolTypeOK
<1>10. Pool!HeldOnce'
  <2>1. \A i \in DOMAIN idle' : conns'[idle'[i]] = conns[idle[i]]
    BY <1>2, <1>3, <1>8
  <2>. QED  BY <1>2, <1>5, <2>1 DEF Pool!HeldOnce
<1>11. OwedOK'
  <2>1. ASSUME NEW v \in Users, ~ user'[v].closed PROVE OwedBy(conns'[user'[v].conn], user'[v])
    <3>1. CASE v = u
      BY <1>3, <1>4, <1>5, <3>1
    <3>2. CASE v # u
      <4>1. conns'[user'[v].conn] = conns[user[v].conn] /\ user'[v] = user[v]
        BY <1>3, <1>4, <1>5, <1>6, <2>1, <3>2 DEF PoolTypeOK
      <4>. QED  BY <1>5, <2>1, <4>1 DEF OwedOK
    <3>. QED  BY <3>1, <3>2
  <2>2. \A i \in DOMAIN idle' : conns'[idle'[i]] = conns[idle[i]]
    BY <1>2, <1>3, <1>8
  <2>. QED  BY <1>2, <2>1, <2>2 DEF OwedOK
<1>12. Pool!DoGetsItsReply'
  BY <1>4 DEF Pool!DoGetsItsReply
<1>. QED  BY <1>9, <1>10, <1>11, <1>12

(* A step of the network, which only moves commands on.                    *)
LEMMA NetworkStep ==
  ASSUME PoolInv, NEW n \in DOMAIN conns, NEW c \in ConnRec,
         conns' = [conns EXCEPT ![n] = c], idle' = idle, user' = user,
         c.err = conns[n].err, c.pending = conns[n].pending, c.out = conns[n].out,
         Pool!Length(c) = Pool!Length(conns[n]), LastIsOwn(conns[n]) => LastIsOwn(c)
  PROVE  PoolInv'
<1> USE DEF PoolInv
<1>1. /\ conns' \in Seq(ConnRec) /\ DOMAIN conns' = DOMAIN conns
      /\ conns'[n] = c /\ \A j \in DOMAIN conns : j # n => conns'[j] = conns[j]
  BY SeqUpdate DEF PoolTypeOK
<1>2. \A j \in DOMAIN conns :
        /\ conns'[j].err = conns[j].err /\ conns'[j].pending = conns[j].pending
        /\ conns'[j].out = conns[j].out /\ Pool!Length(conns'[j]) = Pool!Length(conns[j])
        /\ LastIsOwn(conns[j]) => LastIsOwn(conns'[j])
  BY <1>1
<1>3. \A i \in DOMAIN idle : idle[i] \in DOMAIN conns
  BY ElementOfSeq DEF PoolTypeOK
<1>4. PoolTypeOK'
  BY <1>1 DEF PoolTypeOK
<1>5. Pool!HeldOnce'
  BY <1>2, <1>3 DEF Pool!HeldOnce
<1>6. OwedOK'
  BY <1>2, <1>3 DEF OwedOK, OwedBy, PoolTypeOK
<1>. QED  BY <1>4, <1>5, <1>6 DEF Pool!DoGetsItsReply
-----------------------------------------------------------------------------
(* What is known of the connection in hand, and that of a broken one.      *)
LEMMA InHand ==
  ASSUME PoolInv, NEW u \in Users, ~ user[u].closed
  PROVE  /\ Pool!Conn(u) \in ConnRec /\ user[u] \in UserRec /\ OwedBy(Pool!Conn(u), user[u])
         /\ user[u].got # Pool!Other
         /\ Pool!Length(Pool!Conn(u)) \in Nat /\ user[u].wants \in Nat
                /\ Pool!Conn(u).pending \in Nat
         /\ Len(Pool!Conn(u).out) \in Nat /\ Len(Pool!Conn(u).wire) \in Nat
                /\ Len(Pool!Conn(u).back) \in Nat
         /\ user[u].wants = 0 => ~ user[u].clean
<1>1. Pool!Conn(u) \in ConnRec /\ user[u] \in UserRec
  BY ElementOfSeq DEF PoolInv, PoolTypeOK, Pool!Conn
<1>2. OwedBy(Pool!Conn(u), user[u]) /\ user[u].got # Pool!Other
  BY DEF PoolInv, OwedOK, Pool!DoGetsItsReply, Pool!Conn
<1>3. Len(Pool!Conn(u).out) \in Nat /\ Len(Pool!Conn(u).wire) \in Nat
          /\ Len(Pool!Conn(u).back) \in Nat
  BY <1>1 DEF ConnRec
<1>. QED  BY <1>1, <1>2, <1>3 DEF ConnRec, UserRec, OwedBy, Pool!Length

LEMMA FatalTyped ==
  ASSUME NEW c \in ConnRec
  PROVE  Pool!Fatal(c) \in ConnRec /\ Pool!Fatal(c).err
  BY DEF Pool!Fatal, ConnRec

LEMMA FatalKeeps ==
  ASSUME PoolInv, NEW u \in Users, Pool!Holds(u), Pool!Step(u, Pool!Fatal(Pool!Conn(u)), user[u])
  PROVE  PoolInv'
<1>1. Pool!Fatal(Pool!Conn(u)) \in ConnRec /\ Pool!Fatal(Pool!Conn(u)).err /\ user[u] \in UserRec
          /\ user[u].got # Pool!Other
  BY InHand, FatalTyped DEF Pool!Holds
<1>2. OwedBy(Pool!Fatal(Pool!Conn(u)), user[u])
  BY <1>1, InHand DEF OwedBy, Pool!Holds
<1>. QED  BY <1>1, <1>2, HolderStep DEF Pool!Holds

LEMMA SendKeeps == ASSUME PoolInv, NEW u \in Users, Pool!Send(u) PROVE PoolInv'
<1> DEFINE c == Pool!Conn(u)
           d == [c EXCEPT !.out = Append(c.out, Pool!Other), !.pending = c.pending + 1]
<1>1. c \in ConnRec /\ ~ user[u].closed /\ user[u].wants = 0 /\ Pool!Holds(u)
  BY InHand DEF Pool!Send, Pool!Holds
<1>2. CASE Pool!Step(u, d, user[u])
  <2>1. d \in ConnRec /\ d.pending = c.pending + 1 /\ d.err = c.err
            /\ Pool!Length(d) = Pool!Length(c) + 1
    <3>1. PICK o, w, b \in Seq(Commands) : c.out = o /\ c.wire = w /\ c.back = b
      BY <1>1, ConnFields
    <3>2. Append(o, Pool!Other) \in Seq(Commands) /\ Len(Append(o, Pool!Other)) = Len(o) + 1
      BY DEF Commands
    <3>3. d \in ConnRec
      <4>1. c.pending + 1 \in Nat
        BY <1>1, ConnFields
      <4>2. [c EXCEPT !.out = Append(o, Pool!Other), !.pending = c.pending + 1] \in ConnRec
        BY <1>1, <3>2, <4>1, Requeued
      <4>. QED  BY <3>1, <4>2
    <3>4. /\ d.out = Append(o, Pool!Other) /\ d.wire = w /\ d.back = b
          /\ d.pending = c.pending + 1 /\ d.err = c.err
      BY <1>1, <3>1 DEF ConnRec
    <3> HIDE DEF d
    <3>5. Pool!Length(c) = Len(o) + Len(w) + Len(b) /\ Pool!Length(d) = Len(Append(o,
              Pool!Other)) + Len(w) + Len(b)
      BY <3>1, <3>4, Zenon DEF Pool!Length
    <3>6. Len(o) \in Nat /\ Len(w) \in Nat /\ Len(b) \in Nat
      OBVIOUS
    <3>7. Pool!Length(d) = Pool!Length(c) + 1
      BY <3>2, <3>5, <3>6
    <3>. QED  BY <3>3, <3>4, <3>7
  <2>2. OwedBy(d, user[u])
    BY <1>1, <2>1, InHand DEF OwedBy
  <2>. QED  BY <1>1, <1>2, <2>1, <2>2, InHand, HolderStep
<1>. QED  BY <1>1, <1>2, FatalKeeps DEF Pool!Send

LEMMA FlushKeeps == ASSUME PoolInv, NEW u \in Users, Pool!Flush(u) PROVE PoolInv'
<1> DEFINE c == Pool!Conn(u)
           d == [c EXCEPT !.wire = c.wire \o c.out, !.out = <<>>]
<1>1. c \in ConnRec /\ ~ user[u].closed /\ user[u].wants = 0 /\ Pool!Holds(u)
  BY InHand DEF Pool!Flush, Pool!Holds
<1>2. CASE Pool!Step(u, d, user[u])
  <2>1. d \in ConnRec /\ d.pending = c.pending /\ d.err = c.err /\ Pool!Length(d) = Pool!Length(c)
    <3>1. PICK o, w, b \in Seq(Commands) : c.out = o /\ c.wire = w /\ c.back = b
      BY <1>1, ConnFields
    <3>2. w \o o \in Seq(Commands) /\ Len(w \o o) = Len(w) + Len(o)
      OBVIOUS
    <3>3. d \in ConnRec
      <4>1. <<>> \in Seq(Commands)
        OBVIOUS
      <4>2. [c EXCEPT !.wire = w \o o, !.out = <<>>] \in ConnRec
        BY <1>1, <3>2, <4>1, Requeued
      <4>. QED  BY <3>1, <4>2
    <3>4. /\ d.out = <<>> /\ d.wire = w \o o /\ d.back = b
          /\ d.pending = c.pending /\ d.err = c.err
      BY <1>1, <3>1 DEF ConnRec
    <3> HIDE DEF d
    <3>5. Pool!Length(c) = Len(o) + Len(w) + Len(b)
              /\ Pool!Length(d) = Len(<<>>) + Len(w \o o) + Len(b)
      BY <3>1, <3>4, Zenon DEF Pool!Length
    <3>6. Len(o) \in Nat /\ Len(w) \in Nat /\ Len(b) \in Nat /\ Len(<<>>) = 0
      OBVIOUS
    <3>7. Pool!Length(d) = Pool!Length(c)
      BY <3>2, <3>5, <3>6
    <3>. QED  BY <3>3, <3>4, <3>7
  <2>2. OwedBy(d, user[u])
    BY <1>1, <2>1, InHand DEF OwedBy
  <2>. QED  BY <1>1, <1>2, <2>1, <2>2, InHand, HolderStep
<1>. QED  BY <1>1, <1>2, FatalKeeps DEF Pool!Flush

LEMMA DoKeeps == ASSUME PoolInv, NEW u \in Users, Pool!Do(u) PROVE PoolInv'
<1> DEFINE c == Pool!Conn(u)
           d == [c EXCEPT !.wire = c.wire \o Append(c.out, Pool!Own), !.out = <<>>, !.pending = 0]
           r == [user[u] EXCEPT !.wants = c.pending + 1, !.clean = ~ c.err, !.got = "nothing"]
<1>1. c \in ConnRec /\ ~ user[u].closed /\ user[u].wants = 0 /\ Pool!Holds(u)
          /\ user[u] \in UserRec
  BY InHand DEF Pool!Do, Pool!Holds
<1>2. CASE Pool!Step(u, d, r)
  <2>1. /\ d \in ConnRec /\ d.pending = 0 /\ d.err = c.err /\ Pool!Length(d) = Pool!Length(c) + 1
        /\ d.out = <<>> /\ d.wire # <<>> /\ d.wire[Len(d.wire)] = Pool!Own
    <3>1. PICK o, w, b \in Seq(Commands) : c.out = o /\ c.wire = w /\ c.back = b
      BY <1>1, ConnFields
    <3> DEFINE e == w \o Append(o, Pool!Own)
    <3>2. /\ e \in Seq(Commands) /\ Len(e) = Len(w) + Len(o) + 1 /\ e # <<>>
          /\ e[Len(e)] = Pool!Own
      BY OwnIsLast
    <3>3. d \in ConnRec
      <4>1. <<>> \in Seq(Commands) /\ 0 \in Nat
        OBVIOUS
      <4>2. [c EXCEPT !.wire = e, !.out = <<>>, !.pending = 0] \in ConnRec
        <5> HIDE DEF e
        <5>. QED  BY <1>1, <3>2, <4>1, Requeued
      <4>. QED  BY <3>1, <4>2
    <3>4. d.wire = e /\ d.out = <<>> /\ d.pending = 0 /\ d.err = c.err /\ d.back = b
      BY <1>1, <3>1 DEF ConnRec
    <3> HIDE DEF d, e
    <3>5. Pool!Length(c) = Len(o) + Len(w) + Len(b)
              /\ Pool!Length(d) = Len(<<>>) + Len(e) + Len(b)
      BY <3>1, <3>4, Zenon DEF Pool!Length
    <3>6. Len(o) \in Nat /\ Len(w) \in Nat /\ Len(b) \in Nat /\ Len(<<>>) = 0
      OBVIOUS
    <3>7. Pool!Length(d) = Pool!Length(c) + 1
      BY <3>2, <3>5, <3>6
    <3>. QED  BY <3>2, <3>3, <3>4, <3>7
  <2>2. /\ r \in UserRec /\ r.conn = user[u].conn /\ ~ r.closed /\ r.got # Pool!Other
        /\ r.wants = c.pending + 1 /\ r.clean = ~ c.err
    <3>1. c.pending + 1 \in Nat /\ (~ c.err) \in BOOLEAN
      BY <1>1 DEF ConnRec
    <3>. QED  BY <1>1, <3>1 DEF UserRec, Pool!Own, Pool!Other
  <2>3. OwedBy(d, r)
    <3>1. ~ c.err => c.pending = Pool!Length(c)
      BY <1>1, InHand DEF OwedBy
    <3>2. LastIsOwn(d)
      BY <2>1 DEF LastIsOwn
    <3>3. c.pending \in Nat /\ Pool!Length(c) \in Nat
      BY <1>1, ConnFields
    <3> HIDE DEF d, r
    <3>4. r.clean => ~ c.err
      BY <2>2, Zenon
    <3>5. ~ d.err => d.pending + r.wants = Pool!Length(d)
      BY <2>1, <2>2, <3>1, <3>3
    <3>6. r.clean => ~ d.err /\ r.wants > 0 /\ r.wants = Pool!Length(d) /\ d.out = <<>>
      BY <2>1, <2>2, <3>1, <3>3, <3>4
    <3>. QED  BY <3>2, <3>5, <3>6 DEF OwedBy
  <2>. QED  BY <1>1, <1>2, <2>1, <2>2, <2>3, HolderStep
<1>. QED  BY <1>1, <1>2, FatalKeeps DEF Pool!Do, Pool!ToRead

LEMMA ReceiveKeeps == ASSUME PoolInv, NEW u \in Users, Pool!Receive(u) PROVE PoolInv'
<1> DEFINE c == Pool!Conn(u)
           d == [c EXCEPT !.pending = IF c.pending > 0 THEN c.pending - 1 ELSE 0,
                          !.deadline = IF HasReadTimeout THEN "ahead" ELSE c.deadline]
           r == [user[u] EXCEPT !.wants = 1, !.clean = FALSE, !.got = "nothing"]
<1>1. /\ c \in ConnRec /\ ~ user[u].closed /\ user[u].wants = 0 /\ user[u] \in UserRec
      /\ Pool!Step(u, d, r)
  BY InHand DEF Pool!Receive, Pool!Holds
<1>2. /\ d \in ConnRec /\ d.pending = (IF c.pending > 0 THEN c.pending - 1 ELSE 0)
      /\ d.err = c.err /\ Pool!Length(d) = Pool!Length(c)
  <2>1. d \in ConnRec
    <3> DEFINE p == IF c.pending > 0 THEN c.pending - 1 ELSE 0
               t == IF HasReadTimeout THEN "ahead" ELSE c.deadline
    <3>1. p \in Nat
      BY <1>1, ConnFields
    <3>2. t \in {"none", "ahead", "past"}
      BY <1>1 DEF ConnRec
    <3> HIDE DEF p, t
    <3>3. [c EXCEPT !.pending = p, !.deadline = t] \in ConnRec
      BY <1>1, <3>1, <3>2 DEF ConnRec
    <3>. QED  BY <3>3 DEF p, t
  <2>2. /\ d.out = c.out /\ d.wire = c.wire /\ d.back = c.back /\ d.err = c.err
        /\ d.pending = (IF c.pending > 0 THEN c.pending - 1 ELSE 0)
    BY <1>1 DEF ConnRec
  <2> HIDE DEF d
  <2>. QED  BY <2>1, <2>2 DEF Pool!Length
<1>3. /\ r \in UserRec /\ r.conn = user[u].conn /\ ~ r.closed /\ r.got # Pool!Other
      /\ r.wants = 1 /\ ~ r.clean
  BY <1>1 DEF UserRec, Pool!Other
<1>4. OwedBy(d, r)
  BY <1>1, <1>2, <1>3, InHand DEF OwedBy
<1>. QED  BY <1>1, <1>2, <1>3, <1>4, HolderStep

LEMMA ReadFailsKeeps == ASSUME PoolInv, NEW u \in Users, Pool!ReadFails(u) PROVE PoolInv'
<1> DEFINE d == Pool!Fatal(Pool!Left(Pool!Conn(u)))
           r == [user[u] EXCEPT !.wants = 0, !.clean = FALSE]
<1>1. ~ user[u].closed /\ Pool!Step(u, d, r)
  BY DEF Pool!ReadFails, PoolInv, PoolTypeOK
<1>2. d \in ConnRec /\ d.err
  BY <1>1, InHand, LeftTyped, FatalTyped
<1>3. /\ r \in UserRec /\ r.conn = user[u].conn /\ ~ r.closed /\ r.got # Pool!Other
      /\ ~ r.clean
  BY <1>1, InHand DEF UserRec
<1>4. OwedBy(d, r)
  BY <1>2, <1>3 DEF OwedBy
<1>. QED  BY <1>1, <1>2, <1>3, <1>4, HolderStep

LEMMA ReadKeeps == ASSUME PoolInv, NEW u \in Users, Pool!Read(u) PROVE PoolInv'
<1> DEFINE c == Pool!Conn(u)
           d == [c EXCEPT !.back = Tail(c.back)]
<1>1. user[u].wants > 0 /\ c.back # <<>> /\ ~ user[u].closed
  BY DEF Pool!Read, PoolInv, PoolTypeOK
<1>2. /\ c \in ConnRec /\ user[u] \in UserRec /\ user[u].got # Pool!Other /\ OwedBy(c, user[u])
      /\ user[u].wants \in Nat /\ c.pending \in Nat /\ Pool!Length(c) \in Nat
  BY <1>1, InHand
<1>3. PICK o, w, b \in Seq(Commands) : c.out = o /\ c.wire = w /\ c.back = b
  BY <1>2, ConnFields
<1>4. /\ Len(b) \in Nat /\ Len(b) > 0 /\ Tail(b) \in Seq(Commands) /\ Len(Tail(b)) = Len(b) - 1
      /\ Head(b) = b[1] /\ Len(w) \in Nat /\ Len(o) \in Nat
      /\ Tail(b) = <<>> <=> Len(b) = 1
      /\ Len(b) > 1 => Tail(b)[Len(Tail(b))] = b[Len(b)]
  <2>1. b # <<>>
    BY <1>1, <1>3
  <2>. QED  BY <2>1, TailFacts
<1>5. /\ d \in ConnRec /\ d.back = Tail(b) /\ d.wire = w /\ d.out = o
      /\ d.pending = c.pending /\ d.err = c.err
  <2>1. [c EXCEPT !.back = Tail(b)] \in ConnRec
    BY <1>2, <1>4, Requeued
  <2>. QED  BY <1>2, <1>3, <2>1 DEF ConnRec
<1>6. Pool!Length(c) = Len(o) + Len(w) + Len(b)
  BY <1>3, Zenon DEF Pool!Length
<1>7. Pool!Length(d) = Len(o) + Len(w) + Len(Tail(b))
  <2> HIDE DEF d
  <2>. QED  BY <1>5, Zenon DEF Pool!Length
<1>8. Pool!Length(d) = Pool!Length(c) - 1 /\ Pool!Length(c) > 0
  BY <1>4, <1>6, <1>7
<1>9. LastIsOwn(c) = IF w # <<>> THEN w[Len(w)] = Pool!Own ELSE b # <<>> /\ b[Len(b)] = Pool!Own
  BY <1>3, Zenon DEF LastIsOwn
<1>10. LastIsOwn(d) = IF w # <<>> THEN w[Len(w)] = Pool!Own
                      ELSE Tail(b) # <<>> /\ Tail(b)[Len(Tail(b))] = Pool!Own
  <2> HIDE DEF d
  <2>. QED  BY <1>5, Zenon DEF LastIsOwn
<1>11. o = <<>> => Len(o) = 0
  OBVIOUS
<1>12. w = <<>> <=> Len(w) = 0
  OBVIOUS
<1>13. CASE user[u].wants > 1
  <2> DEFINE r == [user[u] EXCEPT !.wants = user[u].wants - 1]
  <2>1. Pool!Step(u, d, r)
    BY <1>13 DEF Pool!Read
  <2>2. /\ r \in UserRec /\ r.conn = user[u].conn /\ ~ r.closed /\ r.got # Pool!Other
        /\ r.wants = user[u].wants - 1 /\ r.clean = user[u].clean
    <3>1. user[u].wants - 1 \in Nat
      BY <1>2, <1>13
    <3>. QED  BY <1>1, <1>2, <3>1 DEF UserRec
  <2>3. user[u].clean => LastIsOwn(d)
    <3>1. user[u].clean => LastIsOwn(c) /\ user[u].wants = Pool!Length(c) /\ o = <<>>
      BY <1>2, <1>3 DEF OwedBy
    <3>2. user[u].clean /\ w = <<>> => Len(b) > 1
      BY <1>2, <1>4, <1>6, <1>11, <1>12, <1>13, <3>1
    <3>. QED  BY <1>4, <1>9, <1>10, <3>1, <3>2
  <2>4. OwedBy(d, r)
    <3>1. d.out = c.out
      BY <1>3, <1>5
    <3> HIDE DEF d, r
    <3>2. ~ d.err => \/ d.pending + r.wants = Pool!Length(d)
                     \/ d.pending = 0 /\ r.wants = 1 /\ ~ r.clean /\ Pool!Length(d) = 0
      <4>1. ~ c.err => c.pending + user[u].wants = Pool!Length(c)
        BY <1>2, <1>13 DEF OwedBy
      <4>2. d.err = c.err /\ d.pending = c.pending
        BY <1>5
      <4>. QED  BY <1>2, <1>8, <1>13, <2>2, <4>1, <4>2
    <3>3. r.clean => /\ ~ d.err /\ r.wants > 0 /\ r.wants = Pool!Length(d)
                     /\ d.out = <<>> /\ LastIsOwn(d)
      BY <1>2, <1>5, <1>8, <1>13, <2>2, <2>3, <3>1 DEF OwedBy
    <3>. QED  BY <3>2, <3>3 DEF OwedBy
  <2>. QED  BY <1>1, <1>5, <2>1, <2>2, <2>4, HolderStep
<1>14. CASE user[u].wants = 1
  <2> DEFINE got == IF user[u].clean THEN Head(c.back) ELSE user[u].got
             r == [user[u] EXCEPT !.wants = 0, !.clean = FALSE, !.got = got]
  <2>1. Pool!Step(u, Pool!Left(d), r)
    BY <1>14 DEF Pool!Read
  <2>2. got \in {"nothing", Pool!Own, Pool!Other} /\ got # Pool!Other
    <3>1. user[u].clean => Head(b) = Pool!Own
      <4>1. user[u].clean => LastIsOwn(c) /\ Pool!Length(c) = 1 /\ o = <<>>
        BY <1>2, <1>3, <1>14 DEF OwedBy
      <4>2. user[u].clean => Len(b) = 1 /\ w = <<>>
        BY <1>4, <1>6, <1>11, <1>12, <4>1
      <4>. QED  BY <1>4, <1>9, <4>1, <4>2
    <3>. QED  BY <1>2, <1>3, <3>1 DEF UserRec, Pool!Own, Pool!Other
  <2>3. /\ r \in UserRec /\ r.conn = user[u].conn /\ ~ r.closed /\ r.got # Pool!Other
        /\ r.wants = 0 /\ ~ r.clean
    <3> HIDE DEF got
    <3>. QED  BY <1>1, <1>2, <2>2 DEF UserRec
  <2>4. OwedBy(Pool!Left(d), r)
    <3>1. ~ c.err => c.pending = Pool!Length(d)
      BY <1>2, <1>8, <1>14 DEF OwedBy
    <3>2. Pool!Left(d).pending = c.pending /\ Pool!Length(Pool!Left(d)) = Pool!Length(d)
              /\ Pool!Left(d).err = c.err
      BY <1>5, LeftTyped
    <3> HIDE DEF d, r
    <3>. QED  BY <1>2, <2>3, <3>1, <3>2 DEF OwedBy
  <2>. QED  BY <1>1, <1>5, <2>1, <2>3, <2>4, LeftTyped, HolderStep
<1>. QED  BY <1>1, <1>2, <1>13, <1>14
-----------------------------------------------------------------------------
(* The pool *)

LEMMA GetIdleKeeps == ASSUME PoolInv, NEW u \in Users, Pool!GetIdle(u) PROVE PoolInv'
<1> USE DEF PoolInv
<1> DEFINE n == Head(idle)
           r == [Pool!Nobody EXCEPT !.conn = n, !.closed = FALSE]
<1>1. /\ idle \in Seq(DOMAIN conns) /\ idle # <<>> /\ conns' = conns /\ idle' = Tail(idle)
      /\ user' = [user EXCEPT ![u] = r] /\ user \in [Users -> UserRec]
  BY DEF Pool!GetIdle, PoolTypeOK
<1>2. /\ n = idle[1] /\ 1 \in DOMAIN idle /\ n \in DOMAIN conns /\ idle' \in Seq(DOMAIN conns)
      /\ \A i \in DOMAIN idle' : i + 1 \in DOMAIN idle /\ idle'[i] = idle[i + 1] /\ i + 1 # 1
                                /\ i \in Nat
  BY <1>1
<1>3. /\ r.conn = n /\ ~ r.closed /\ r.wants = 0 /\ ~ r.clean /\ r.got = "nothing"
      /\ r \in UserRec
  <2>1. n \in Nat
    BY <1>2 DEF PoolTypeOK
  <2>. QED  BY <2>1 DEF Pool!Nobody, UserRec
<1> HIDE DEF n, r
<1>4. user' \in [Users -> UserRec] /\ user'[u] = r /\ \A v \in Users : v # u => user'[v] = user[v]
  BY <1>1, <1>3
<1>5. PoolTypeOK'
  BY <1>1, <1>2, <1>3, <1>4 DEF PoolTypeOK
<1>6. \A v \in Users : ~ user[v].closed => user[v].conn # n
  BY <1>2 DEF Pool!HeldOnce, Pool!ToSet
<1>7. \A i \in DOMAIN idle' : idle'[i] # n
  BY <1>2 DEF Pool!HeldOnce
<1>8. Pool!HeldOnce'
  <2>1. \A v, x \in Users : ~ user'[v].closed /\ ~ user'[x].closed
            /\ user'[v].conn = user'[x].conn
                            => v = x
    BY <1>3, <1>4, <1>6 DEF Pool!HeldOnce
  <2>2. \A v \in Users : ~ user'[v].closed => user'[v].conn \notin Pool!ToSet(idle')
    BY <1>2, <1>3, <1>4, <1>7 DEF Pool!HeldOnce, Pool!ToSet
  <2>3. \A i, j \in DOMAIN idle' : idle'[i] = idle'[j] => i = j
    BY <1>2 DEF Pool!HeldOnce
  <2>4. \A i \in DOMAIN idle' : ~ conns'[idle'[i]].err
    BY <1>1, <1>2 DEF Pool!HeldOnce
  <2>. QED  BY <2>1, <2>2, <2>3, <2>4 DEF Pool!HeldOnce
<1>9. OwedOK'
  <2>1. conns[n].pending = Pool!Length(conns[n]) /\ conns[n].pending \in Nat
    <3>1. conns[n] \in ConnRec
      BY <1>2, ElementOfSeq DEF PoolTypeOK
    <3>. QED  BY <1>2, <3>1, ConnFields DEF OwedOK
  <2>2. OwedBy(conns[n], r)
    BY <1>3, <2>1 DEF OwedBy
  <2>. QED  BY <1>1, <1>2, <1>3, <1>4, <2>2 DEF OwedOK
<1>10. Pool!DoGetsItsReply'
  BY <1>3, <1>4 DEF Pool!DoGetsItsReply, Pool!Other
<1>. QED  BY <1>5, <1>8, <1>9, <1>10

LEMMA NewTyped == Pool!New \in ConnRec /\ Pool!Length(Pool!New) = 0 /\ Pool!New.pending = 0
                      /\ Pool!Released \in ConnRec
<1>1. <<>> \in Seq(Commands) /\ Len(<<>>) = 0
  OBVIOUS
<1>2. Pool!New \in ConnRec /\ Pool!New.out = <<>> /\ Pool!New.wire = <<>> /\ Pool!New.back = <<>>
          /\ Pool!New.pending = 0
  BY <1>1 DEF Pool!New, ConnRec
<1>3. Pool!Length(Pool!New) = Len(<<>>) + Len(<<>>) + Len(<<>>)
  BY <1>2, Zenon DEF Pool!Length
<1>4. Pool!Released \in ConnRec
  BY <1>2 DEF Pool!Released, ConnRec
<1>. QED  BY <1>1, <1>2, <1>3, <1>4

LEMMA GetNewKeeps == ASSUME PoolInv, NEW u \in Users, Pool!GetNew(u) PROVE PoolInv'
<1> USE DEF PoolInv
<1> DEFINE n == Len(conns) + 1
           r == [Pool!Nobody EXCEPT !.conn = n, !.closed = FALSE]
<1>1. /\ conns \in Seq(ConnRec) /\ idle = <<>> /\ idle' = idle /\ conns' = Append(conns, Pool!New)
      /\ user' = [user EXCEPT ![u] = r] /\ user \in [Users -> UserRec]
  BY DEF Pool!GetNew, PoolTypeOK
<1>2. /\ conns' \in Seq(ConnRec) /\ n \in Nat /\ n \in DOMAIN conns' /\ conns'[n] = Pool!New
      /\ n \notin DOMAIN conns
      /\ \A j \in DOMAIN conns : j \in DOMAIN conns' /\ conns'[j] = conns[j]
  BY <1>1, NewTyped
<1>3. /\ r.conn = n /\ ~ r.closed /\ r.wants = 0 /\ ~ r.clean /\ r.got = "nothing"
      /\ r \in UserRec
  BY <1>2 DEF Pool!Nobody, UserRec
<1> HIDE DEF n, r
<1>4. user' \in [Users -> UserRec] /\ user'[u] = r /\ \A v \in Users : v # u => user'[v] = user[v]
  BY <1>1, <1>3
<1>5. \A v \in Users : ~ user[v].closed => user[v].conn \in DOMAIN conns /\ user[v].conn # n
  BY <1>2 DEF PoolTypeOK
<1>6. DOMAIN idle' = {} /\ idle' \in Seq(DOMAIN conns')
  BY <1>1
<1>7. PoolTypeOK'
  BY <1>2, <1>3, <1>4, <1>5, <1>6 DEF PoolTypeOK
<1>8. Pool!HeldOnce'
  BY <1>3, <1>4, <1>5, <1>6 DEF Pool!HeldOnce, Pool!ToSet
<1>9. OwedOK'
  <2>1. OwedBy(conns'[n], r)
    BY <1>2, <1>3, NewTyped DEF OwedBy
  <2>. QED  BY <1>2, <1>3, <1>4, <1>5, <1>6, <2>1 DEF OwedOK
<1>10. Pool!DoGetsItsReply'
  BY <1>3, <1>4 DEF Pool!DoGetsItsReply, Pool!Other
<1>. QED  BY <1>7, <1>8, <1>9, <1>10

LEMMA CloseKeeps == ASSUME PoolInv, NEW u \in Users, Pool!Close(u) PROVE PoolInv'
<1> USE DEF PoolInv
<1> DEFINE n == user[u].conn
<1>1. /\ ~ user[u].closed /\ user[u].wants = 0 /\ user' = [user EXCEPT ![u] = Pool!Nobody]
      /\ user \in [Users -> UserRec] /\ conns \in Seq(ConnRec) /\ idle \in Seq(DOMAIN conns)
      /\ n \in DOMAIN conns
  BY DEF Pool!Close, Pool!Holds, Pool!Closed, PoolTypeOK
<1>2. Pool!Nobody \in UserRec /\ Pool!Nobody.closed /\ Pool!Nobody.wants = 0
          /\ ~ Pool!Nobody.clean /\ Pool!Nobody.got # Pool!Other
  BY DEF Pool!Nobody, UserRec, Pool!Other
<1>3. /\ user' \in [Users -> UserRec] /\ user'[u] = Pool!Nobody
      /\ \A v \in Users : v # u => user'[v] = user[v]
  BY <1>1, <1>2
<1>4. \A v \in Users : ~ user'[v].closed => v # u /\ ~ user[v].closed /\ user[v].conn # n
  BY <1>1, <1>2, <1>3 DEF Pool!HeldOnce
<1>5. Pool!DoGetsItsReply'
  BY <1>2, <1>3 DEF Pool!DoGetsItsReply
<1>6. \A i \in DOMAIN idle : idle[i] \in DOMAIN conns /\ idle[i] # n
  BY <1>1, ElementOfSeq DEF Pool!HeldOnce, Pool!ToSet
<1>7. CASE Pool!Reusable(Pool!Conn(u)) /\ idle' = Append(idle, n) /\ conns' = conns
  <2>1. /\ idle' \in Seq(DOMAIN conns) /\ DOMAIN idle' = DOMAIN idle \cup {Len(idle) + 1}
        /\ idle'[Len(idle) + 1] = n /\ \A i \in DOMAIN idle : idle'[i] = idle[i]
        /\ Len(idle) + 1 \notin DOMAIN idle
    BY <1>1, <1>7
  <2>2. ~ conns[n].err /\ conns[n].pending = Pool!Length(conns[n])
    <3>1. OwedBy(conns[n], user[u]) /\ ~ conns[n].err
      BY <1>1, <1>7 DEF OwedOK, Pool!Reusable, Pool!Conn
    <3>2. conns[n].pending \in Nat
      BY <1>1, ElementOfSeq, ConnFields
    <3>. QED  BY <1>1, <3>1, <3>2 DEF OwedBy
  <2>3. PoolTypeOK'
    BY <1>1, <1>2, <1>3, <1>7, <2>1 DEF PoolTypeOK
  <2>4. Pool!HeldOnce'
    <3>1. \A v, x \in Users : ~ user'[v].closed /\ ~ user'[x].closed
              /\ user'[v].conn = user'[x].conn
                              => v = x
      BY <1>3, <1>4 DEF Pool!HeldOnce
    <3>2. \A v \in Users : ~ user'[v].closed => user'[v].conn \notin Pool!ToSet(idle')
      BY <1>3, <1>4, <2>1 DEF Pool!HeldOnce, Pool!ToSet
    <3>3. \A i, j \in DOMAIN idle' : idle'[i] = idle'[j] => i = j
      BY <1>6, <2>1 DEF Pool!HeldOnce
    <3>4. \A i \in DOMAIN idle' : ~ conns'[idle'[i]].err
      BY <1>7, <2>1, <2>2 DEF Pool!HeldOnce
    <3>. QED  BY <3>1, <3>2, <3>3, <3>4 DEF Pool!HeldOnce
  <2>5. OwedOK'
    BY <1>3, <1>4, <1>7, <2>1, <2>2 DEF OwedOK
  <2>. QED  BY <1>5, <2>3, <2>4, <2>5
<1>8. CASE conns' = [conns EXCEPT ![n] = Pool!Released] /\ idle' = idle
  <2>1. /\ conns' \in Seq(ConnRec) /\ DOMAIN conns' = DOMAIN conns
        /\ \A j \in DOMAIN conns : j # n => conns'[j] = conns[j]
    BY <1>1, <1>8, SeqUpdate, NewTyped
  <2>2. PoolTypeOK'
    BY <1>1, <1>2, <1>3, <1>8, <2>1 DEF PoolTypeOK
  <2>3. \A i \in DOMAIN idle' : conns'[idle'[i]] = conns[idle[i]]
    BY <1>6, <1>8, <2>1
  <2>4. Pool!HeldOnce'
    BY <1>3, <1>4, <1>8, <2>3 DEF Pool!HeldOnce
  <2>5. OwedOK'
    <3>1. \A v \in Users : ~ user'[v].closed => conns'[user'[v].conn] = conns[user[v].conn]
                                              /\ user'[v] = user[v]
      BY <1>3, <1>4, <2>1 DEF PoolTypeOK
    <3>. QED  BY <1>4, <1>8, <2>3, <3>1 DEF OwedOK
  <2>. QED  BY <1>5, <2>2, <2>4, <2>5
<1>. QED  BY <1>7, <1>8 DEF Pool!Close
-----------------------------------------------------------------------------
(* The server and the network *)

LEMMA AnswerKeeps == ASSUME PoolInv, NEW n \in DOMAIN conns, Pool!Answer(n) PROVE PoolInv'
<1> DEFINE c == conns[n]
           d == [c EXCEPT !.wire = Tail(c.wire), !.back = Append(c.back, Head(c.wire))]
<1>1. c \in ConnRec /\ c.wire # <<>> /\ idle' = idle /\ user' = user
  BY ElementOfSeq DEF PoolInv, PoolTypeOK, Pool!Answer
<1>2. conns' = [conns EXCEPT ![n] = d]
  BY DEF Pool!Answer, PoolInv, PoolTypeOK
<1>3. PICK o, w, b \in Seq(Commands) : c.out = o /\ c.wire = w /\ c.back = b
  BY <1>1, ConnFields
<1> DEFINE x == Append(b, Head(w))
<1>4. w # <<>>
  BY <1>1, <1>3
<1>5. /\ Tail(w) \in Seq(Commands) /\ Len(Tail(w)) = Len(w) - 1 /\ x \in Seq(Commands)
      /\ Len(x) = Len(b) + 1 /\ x[Len(x)] = w[1] /\ x # <<>> /\ Len(w) \in Nat /\ Len(b) \in Nat
      /\ Len(o) \in Nat
      /\ Tail(w) = <<>> => Len(w) = 1
      /\ Tail(w) # <<>> => Tail(w)[Len(Tail(w))] = w[Len(w)]
  <2>1. Head(w) = w[1] /\ Head(w) \in Commands
    BY <1>4, TailFacts
  <2>2. x \in Seq(Commands) /\ Len(x) = Len(b) + 1 /\ x[Len(x)] = w[1] /\ x # <<>>
    BY <2>1
  <2>3. Tail(w) # <<>> => Len(w) > 1
    BY <1>4, TailFacts
  <2>. QED  BY <1>4, <2>2, <2>3, TailFacts
<1> HIDE DEF x
<1>6. /\ d \in ConnRec /\ d.out = o /\ d.wire = Tail(w) /\ d.back = x
      /\ d.pending = c.pending /\ d.err = c.err
  <2>1. [c EXCEPT !.wire = Tail(w), !.back = x] \in ConnRec
    BY <1>1, <1>5, Requeued
  <2>. QED  BY <1>1, <1>3, <2>1 DEF ConnRec, x
<1>7. Pool!Length(c) = Len(o) + Len(w) + Len(b)
  BY <1>3, Zenon DEF Pool!Length
<1> HIDE DEF d
<1>8. Pool!Length(d) = Len(o) + Len(Tail(w)) + Len(x)
  BY <1>6, Zenon DEF Pool!Length
<1>9. LastIsOwn(c) => LastIsOwn(d)
  <2>1. LastIsOwn(c) => w[Len(w)] = Pool!Own
    BY <1>3, <1>4, Zenon DEF LastIsOwn
  <2>2. LastIsOwn(d) = IF Tail(w) # <<>> THEN Tail(w)[Len(Tail(w))] = Pool!Own
                       ELSE x # <<>> /\ x[Len(x)] = Pool!Own
    BY <1>6, Zenon DEF LastIsOwn
  <2>3. CASE Tail(w) = <<>>
    BY <1>5, <2>1, <2>2, <2>3
  <2>4. CASE Tail(w) # <<>>
    BY <1>5, <2>1, <2>2, <2>4
  <2>. QED  BY <2>3, <2>4
<1>10. Pool!Length(d) = Pool!Length(c)
  BY <1>5, <1>7, <1>8
<1>. QED  BY <1>1, <1>2, <1>3, <1>6, <1>9, <1>10, NetworkStep

(* What is not in a queue does not matter to the queues.                   *)
LEMMA NotedKeeps ==
  ASSUME PoolInv, NEW n \in DOMAIN conns, NEW d \in ConnRec,
         conns' = [conns EXCEPT ![n] = d], idle' = idle, user' = user,
         d.out = conns[n].out, d.wire = conns[n].wire, d.back = conns[n].back,
         d.pending = conns[n].pending, d.err = conns[n].err
  PROVE  PoolInv'
<1>1. Pool!Length(d) = Pool!Length(conns[n])
  BY Zenon DEF Pool!Length
<1>2. LastIsOwn(conns[n]) => LastIsOwn(d)
  BY Zenon DEF LastIsOwn
<1>. QED  BY <1>1, <1>2, NetworkStep

LEMMA BreakKeeps == ASSUME PoolInv, NEW n \in DOMAIN conns, Pool!Break(n) PROVE PoolInv'
<1> DEFINE d == [conns[n] EXCEPT !.broken = TRUE]
<1>1. conns[n] \in ConnRec /\ idle' = idle /\ user' = user /\ conns' = [conns EXCEPT ![n] = d]
  BY ElementOfSeq DEF PoolInv, PoolTypeOK, Pool!Break
<1>2. /\ d \in ConnRec /\ d.out = conns[n].out /\ d.wire = conns[n].wire
      /\ d.back = conns[n].back /\ d.pending = conns[n].pending /\ d.err = conns[n].err
  BY <1>1 DEF ConnRec
<1>. QED  BY <1>1, <1>2, NotedKeeps

LEMMA DeadlineKeeps == ASSUME PoolInv, NEW n \in DOMAIN conns, Pool!DeadlinePasses(n)
                       PROVE PoolInv'
<1> DEFINE d == [conns[n] EXCEPT !.deadline = "past"]
<1>1. conns[n] \in ConnRec /\ idle' = idle /\ user' = user /\ conns' = [conns EXCEPT ![n] = d]
  BY ElementOfSeq DEF PoolInv, PoolTypeOK, Pool!DeadlinePasses
<1>2. /\ d \in ConnRec /\ d.out = conns[n].out /\ d.wire = conns[n].wire
      /\ d.back = conns[n].back /\ d.pending = conns[n].pending /\ d.err = conns[n].err
  BY <1>1 DEF ConnRec
<1>. QED  BY <1>1, <1>2, NotedKeeps

LEMMA PoolStepKeeps == PoolInv /\ [Pool!Next]_(Pool!vars) => PoolInv'
<1> SUFFICES ASSUME PoolInv, [Pool!Next]_(Pool!vars) PROVE PoolInv'
  OBVIOUS
<1>1. CASE UNCHANGED Pool!vars
  BY <1>1 DEF Pool!vars, PoolInv, PoolTypeOK, Pool!HeldOnce, OwedOK, Pool!DoGetsItsReply
<1>2. ASSUME NEW u \in Users,
             \/ Pool!GetIdle(u) \/ Pool!GetNew(u) \/ Pool!Close(u) \/ Pool!Send(u)
                    \/ Pool!Flush(u) \/ Pool!Do(u)
             \/ Pool!Receive(u) \/ Pool!Read(u) \/ Pool!ReadFails(u)
      PROVE  PoolInv'
  BY <1>2, GetIdleKeeps, GetNewKeeps, CloseKeeps, SendKeeps, FlushKeeps, DoKeeps,
     ReceiveKeeps, ReadKeeps, ReadFailsKeeps
<1>3. ASSUME NEW n \in DOMAIN conns, Pool!Answer(n) \/ Pool!Break(n) \/ Pool!DeadlinePasses(n)
      PROVE  PoolInv'
  BY <1>3, AnswerKeeps, BreakKeeps, DeadlineKeeps
<1>. QED  BY <1>1, <1>2, <1>3 DEF Pool!Next

-----------------------------------------------------------------------------
(* Proxying: types *)

Labels == {"closed", "read", "check", "lookup", "read key", "read crt", "mint", "open key",
           "write key", "open crt", "write crt", "store", "dial"}

FileRec == [of : Nat, exact : BOOLEAN, there : BOOLEAN]
CertRec == [host : Sites \cup {"none"}, key : Nat, crt : Nat]
ConnRecord == [at : Labels, buffer : Seq(Proxying!Requests), key : FileRec, mine : Nat,
                  cert : CertRec]

ProxyTypeOK ==
  /\ cache \in [Sites -> Nat]
  /\ files \in [Sites -> [key : FileRec, crt : FileRec]]
  /\ minted \in Nat
  /\ conn \in [Conns -> ConnRecord]

(* Whoever serves a CONNECT has it at the head of its buffer.              *)
Serves(c) == /\ conn[c].buffer # <<>>
             /\ Head(conn[c].buffer).kind = "connect" /\ Proxying!Host(c) \in Sites
ServesOK == \A c \in Conns : conn[c].at \notin {"closed", "read", "check"} => Serves(c)

ProxyInv == ProxyTypeOK /\ ServesOK

(* A closed connection, and the files that are made.                       *)
LEMMA FreshTyped ==
  /\ Proxying!Fresh \in ConnRecord /\ Proxying!Fresh.at = "closed" /\ Proxying!Fresh.buffer = <<>>
  /\ Proxying!NoFile \in FileRec /\ Proxying!EmptyFile \in FileRec
  /\ \A m \in Nat, e \in BOOLEAN : Proxying!File(m, e) \in FileRec
<1>1. <<>> \in Seq(Proxying!Requests)
  OBVIOUS
<1>2. Proxying!NoCert \in CertRec
  BY DEF Proxying!NoCert, CertRec
<1>3. Proxying!NoFile \in FileRec /\ Proxying!EmptyFile \in FileRec
  BY DEF Proxying!NoFile, Proxying!EmptyFile, FileRec
<1>4. \A m \in Nat, e \in BOOLEAN : Proxying!File(m, e) \in FileRec
  BY DEF Proxying!File, FileRec
<1>. QED  BY <1>1, <1>2, <1>3, <1>4 DEF Proxying!Fresh, ConnRecord, Labels

(* The request at the head of a buffer.                                    *)
LEMMA HeadOfBuffer ==
  ASSUME ProxyTypeOK, NEW c \in Conns, conn[c].buffer # <<>>,
         Head(conn[c].buffer).kind = "connect"
  PROVE  Proxying!Host(c) \in Sites
<1>1. conn[c].buffer \in Seq(Proxying!Requests)
  BY DEF ProxyTypeOK, ConnRecord
<1>2. Head(conn[c].buffer) \in Proxying!Requests
  BY <1>1
<1>3. Head(conn[c].buffer) \in [kind : {"connect"}, host : Sites]
  BY <1>2 DEF Proxying!Requests
<1>. QED  BY <1>3 DEF Proxying!Host

(* A step of one connection that leaves the files alone.                   *)
LEMMA ConnStep ==
  ASSUME ProxyInv, NEW c \in Conns, NEW r \in ConnRecord, Proxying!Becomes(c, r),
         cache' \in [Sites -> Nat], files' = files, minted' \in Nat,
         r.at \in {"closed", "read", "check"}
           \/ (r.buffer = conn[c].buffer /\ Serves(c))
  PROVE  ProxyInv'
<1>1. /\ conn' \in [Conns -> ConnRecord] /\ conn'[c] = r
      /\ \A d \in Conns : d # c => conn'[d] = conn[d]
  BY DEF Proxying!Becomes, ProxyInv, ProxyTypeOK
<1>2. ProxyTypeOK'
  BY <1>1 DEF ProxyInv, ProxyTypeOK
<1>3. ServesOK'
  BY <1>1 DEF ProxyInv, ServesOK, Serves, Proxying!Host
<1>. QED  BY <1>2, <1>3 DEF ProxyInv

(* It goes to another place and changes nothing else.                      *)
LEMMA GoesTyped ==
  ASSUME ProxyInv, NEW c \in Conns, NEW l \in Labels
  PROVE  LET r == [conn[c] EXCEPT !.at = l]
         IN  r \in ConnRecord /\ r.at = l /\ r.buffer = conn[c].buffer
BY DEF ProxyInv, ProxyTypeOK, ConnRecord

(* Lookup returns a key and a certificate that belong together.            *)
LEMMA ReturnsKeeps ==
  ASSUME ProxyInv, NEW c \in Conns, NEW m \in Nat, Serves(c), Proxying!Returns(c, m, m),
         cache' \in [Sites -> Nat], files' = files, minted' = minted
  PROVE  ProxyInv' /\ conn'[c].at = "dial" /\ \A d \in Conns : d # c => conn'[d] = conn[d]
<1> DEFINE r == [conn[c] EXCEPT !.at = "dial", !.key = Proxying!NoFile, !.mine = 0,
                                !.cert = [host |-> Proxying!Host(c), key |-> m, crt |-> m]]
<1>1. Proxying!Becomes(c, r)
  BY DEF Proxying!Returns
<1>2. r \in ConnRecord /\ r.at = "dial" /\ r.buffer = conn[c].buffer
  BY FreshTyped DEF Serves, ProxyInv, ProxyTypeOK, ConnRecord, Labels, CertRec
<1> HIDE DEF r
<1>3. ProxyInv'
  BY <1>1, <1>2, ConnStep DEF ProxyInv, ProxyTypeOK
<1>4. conn'[c] = r /\ \A d \in Conns : d # c => conn'[d] = conn[d]
  BY <1>1 DEF Proxying!Becomes, ProxyInv, ProxyTypeOK
<1>. QED  BY <1>2, <1>3, <1>4

(* A file of a host is written by a connection that goes on.               *)
LEMMA FileStep ==
  ASSUME ProxyInv, NEW c \in Conns, NEW l \in Labels, Proxying!Goes(c, l), Serves(c),
         NEW k \in FileRec, NEW x \in FileRec,
         NEW h \in Sites, files' = [files EXCEPT ![h] = [key |-> k, crt |-> x]],
         cache' = cache, minted' = minted
  PROVE  ProxyInv'
<1> DEFINE r == [conn[c] EXCEPT !.at = l]
<1>1. r \in ConnRecord /\ r.at = l /\ r.buffer = conn[c].buffer
  BY GoesTyped
<1> HIDE DEF r
<1>2. /\ conn' \in [Conns -> ConnRecord] /\ conn'[c] = r
      /\ \A d \in Conns : d # c => conn'[d] = conn[d]
  BY <1>1 DEF Proxying!Goes, Proxying!Becomes, ProxyInv, ProxyTypeOK, r
<1>3. files' \in [Sites -> [key : FileRec, crt : FileRec]]
  BY DEF ProxyInv, ProxyTypeOK
<1>4. ProxyTypeOK'
  BY <1>2, <1>3 DEF ProxyInv, ProxyTypeOK
<1>5. ServesOK'
  BY <1>1, <1>2 DEF ProxyInv, ServesOK, Serves, Proxying!Host
<1>. QED  BY <1>4, <1>5 DEF ProxyInv

(* What is read is added to the buffer.                                    *)
LEMMA ReadTyped ==
  ASSUME NEW b \in Seq(Proxying!Requests), NEW r \in Proxying!Requests
  PROVE  Append(Proxying!Whole(b), r) \in Seq(Proxying!Requests)
<1>1. CASE b # <<>> /\ b[Len(b)].kind = "partial"
  <2>1. Len(b) \in Nat /\ Len(b) >= 1
    BY <1>1, EmptySeq
  <2>2. SubSeq(b, 1, Len(b) - 1) \in Seq(Proxying!Requests)
    BY <2>1, SubSeqProperties
  <2>. QED  BY <1>1, <2>2 DEF Proxying!Whole
<1>2. CASE ~ (b # <<>> /\ b[Len(b)].kind = "partial")
  BY <1>2 DEF Proxying!Whole
<1>. QED  BY <1>1, <1>2

LEMMA ProxyInitInv == Proxying!Init => ProxyInv
<1> SUFFICES ASSUME Proxying!Init PROVE ProxyInv
  OBVIOUS
<1>1. ProxyTypeOK
  BY FreshTyped DEF Proxying!Init, ProxyTypeOK
<1>2. ServesOK
  BY FreshTyped DEF Proxying!Init, ServesOK
<1>. QED  BY <1>1, <1>2 DEF ProxyInv

(* The steps of a connection, by what they leave as it was: a step at      *)
(* Loop, one of Lookup that writes no file, one that writes a file.        *)
LoopStep(c) ==
  Proxying!Accept(c) \/ Proxying!Read(c) \/ Proxying!ReadFails(c)
      \/ Proxying!CheckFindsNothing(c) \/ Proxying!CheckFindsRequest(c)
    \/ Proxying!CheckFindsConnect(c) \/ Proxying!Dial(c)
LookupStep(c) ==
  Proxying!LookInCache(c) \/ Proxying!ReadKey(c) \/ Proxying!ReadCrt(c)
      \/ Proxying!SlurpFails(c) \/ Proxying!Mint(c) \/ Proxying!StoreInCache(c)
WriteStep(c) == Proxying!OpenKey(c) \/ Proxying!WriteKey(c) \/ Proxying!OpenCrt(c)
    \/ Proxying!WriteCrt(c) \/ Proxying!ToDiskFails(c)

LEMMA ProxySteps ==
  Proxying!Next <=> Proxying!Restart \/ \E c \in Conns : LoopStep(c) \/ LookupStep(c)
      \/ WriteStep(c)
BY Zenon DEF Proxying!Next, LoopStep, LookupStep, WriteStep

(* A connection that ends.                                                 *)
LEMMA EndsKeeps ==
  ASSUME ProxyInv, NEW c \in Conns, Proxying!Ends(c), UNCHANGED <<cache, files, minted>>
  PROVE  ProxyInv'
<1> USE DEF ProxyInv
<1>1. Proxying!Fresh \in ConnRecord /\ Proxying!Fresh.at = "closed"
  BY FreshTyped
<1>2. Proxying!Becomes(c, Proxying!Fresh)
  BY DEF Proxying!Ends
<1>. QED  BY <1>1, <1>2, ConnStep DEF ProxyTypeOK

(* A connection that goes on to a place where it need not serve, or does.  *)
LEMMA GoesKeeps ==
  ASSUME ProxyInv, NEW c \in Conns, NEW l \in Labels, Proxying!Goes(c, l),
         l \in {"closed", "read", "check"} \/ Serves(c),
         UNCHANGED <<cache, files, minted>>
  PROVE  ProxyInv'
<1> DEFINE r == [conn[c] EXCEPT !.at = l]
<1>1. r \in ConnRecord /\ r.at = l /\ r.buffer = conn[c].buffer
  BY GoesTyped
<1>2. Proxying!Becomes(c, r)
  BY DEF Proxying!Goes
<1> HIDE DEF r
<1>. QED  BY <1>1, <1>2, ConnStep DEF ProxyInv, ProxyTypeOK

LEMMA LoopKeeps ==
  ASSUME ProxyInv, NEW c \in Conns, LoopStep(c)
  PROVE  ProxyInv' /\ files' = files
<1> USE DEF ProxyInv
<1>1. CASE Proxying!Accept(c)
  <2> DEFINE r == [Proxying!Fresh EXCEPT !.at = "read"]
  <2>1. r \in ConnRecord /\ r.at = "read"
    BY FreshTyped DEF ConnRecord, Labels
  <2>2. Proxying!Becomes(c, r) /\ UNCHANGED <<cache, files, minted>>
    BY <1>1 DEF Proxying!Accept
  <2> HIDE DEF r
  <2>. QED  BY <2>1, <2>2, ConnStep DEF ProxyTypeOK
<1>2. CASE Proxying!Read(c)
  <2>1. PICK q \in Proxying!Requests :
          Proxying!Becomes(c, [conn[c] EXCEPT !.at = "check",
              !.buffer = Append(Proxying!Whole(conn[c].buffer), q)])
    BY <1>2 DEF Proxying!Read
  <2>2. conn[c] \in ConnRecord /\ conn[c].buffer \in Seq(Proxying!Requests)
    BY DEF ProxyTypeOK, ConnRecord
  <2>3. Append(Proxying!Whole(conn[c].buffer), q) \in Seq(Proxying!Requests)
    BY <2>2, ReadTyped
  <2> DEFINE r == [conn[c] EXCEPT !.at = "check",
          !.buffer = Append(Proxying!Whole(conn[c].buffer), q)]
  <2>4. r \in ConnRecord /\ r.at = "check"
    BY <2>2, <2>3 DEF ConnRecord, Labels
  <2>5. Proxying!Becomes(c, r) /\ UNCHANGED <<cache, files, minted>>
    BY <1>2, <2>1 DEF Proxying!Read
  <2> HIDE DEF r
  <2>. QED  BY <2>4, <2>5, ConnStep DEF ProxyTypeOK
<1>3. CASE Proxying!ReadFails(c)
  BY <1>3, EndsKeeps DEF Proxying!ReadFails
<1>4. CASE Proxying!CheckFindsNothing(c)
  BY <1>4, GoesKeeps DEF Proxying!CheckFindsNothing, Labels
<1>5. CASE Proxying!CheckFindsRequest(c)
  BY <1>5, EndsKeeps DEF Proxying!CheckFindsRequest
<1>6. CASE Proxying!CheckFindsConnect(c)
  <2>1. Serves(c)
    BY <1>6, HeadOfBuffer DEF Proxying!CheckFindsConnect, Serves
  <2>. QED  BY <1>6, <2>1, GoesKeeps DEF Proxying!CheckFindsConnect, Labels
<1>7. CASE Proxying!Dial(c)
  BY <1>7, GoesKeeps, EndsKeeps DEF Proxying!Dial, Labels
<1>. QED  BY <1>1, <1>2, <1>3, <1>4, <1>5, <1>6, <1>7 DEF LoopStep

LEMMA LookupKeeps ==
  ASSUME ProxyInv, NEW c \in Conns, LookupStep(c)
  PROVE  ProxyInv' /\ files' = files /\ Serves(c)
<1> USE DEF ProxyInv
<1>1. Serves(c) /\ Proxying!Host(c) \in Sites
  BY DEF LookupStep, Proxying!LookInCache, Proxying!ReadKey, Proxying!ReadCrt, Proxying!Mint,
         Proxying!SlurpFails, Proxying!StoreInCache, Proxying!At, ServesOK, Serves
<1>2. conn[c] \in ConnRecord /\ conn[c].mine \in Nat /\ conn[c].key \in FileRec
  BY DEF ProxyTypeOK, ConnRecord
<1>3. CASE Proxying!LookInCache(c)
  <2>1. cache[Proxying!Host(c)] \in Nat
    BY <1>1 DEF ProxyTypeOK
  <2>2. CASE Proxying!Returns(c, cache[Proxying!Host(c)], cache[Proxying!Host(c)])
    BY <1>1, <1>3, <2>1, <2>2, ReturnsKeeps DEF Proxying!LookInCache, ProxyTypeOK
  <2>3. CASE Proxying!Goes(c, "read key")
    BY <1>1, <1>3, <2>3, GoesKeeps DEF Proxying!LookInCache, Labels
  <2>. QED  BY <1>1, <1>3, <2>2, <2>3 DEF Proxying!LookInCache
<1>4. CASE Proxying!ReadKey(c)
  <2> DEFINE f == files[Proxying!Host(c)].key
             r == [conn[c] EXCEPT !.at = "read crt", !.key = f]
  <2>1. Proxying!Becomes(c, r) /\ UNCHANGED <<cache, files, minted>>
    BY <1>4 DEF Proxying!ReadKey
  <2>2. f \in FileRec
    BY <1>1 DEF ProxyTypeOK
  <2>3. r \in ConnRecord /\ r.at = "read crt" /\ r.buffer = conn[c].buffer
    BY <1>2, <2>2 DEF ConnRecord, Labels
  <2> HIDE DEF r
  <2>. QED  BY <1>1, <2>1, <2>3, ConnStep DEF ProxyTypeOK
<1>5. CASE Proxying!ReadCrt(c)
  <2>1. CASE Proxying!Goes(c, "mint")
    BY <1>1, <1>5, <2>1, GoesKeeps DEF Proxying!ReadCrt, Labels
  <2>2. CASE Proxying!KeyPair(conn[c].key, files[Proxying!Host(c)].crt)
             /\ Proxying!Returns(c, conn[c].key.of, files[Proxying!Host(c)].crt.of)
    <3>1. conn[c].key.of \in Nat /\ conn[c].key.of = files[Proxying!Host(c)].crt.of
      BY <1>2, <2>2 DEF Proxying!KeyPair, FileRec
    <3>2. Proxying!Returns(c, conn[c].key.of, conn[c].key.of)
      BY <2>2, <3>1
    <3>. QED  BY <1>1, <1>5, <3>1, <3>2, ReturnsKeeps DEF Proxying!ReadCrt, ProxyTypeOK
  <2>. QED  BY <1>5, <2>1, <2>2, <1>1 DEF Proxying!ReadCrt
<1>6. CASE Proxying!Mint(c)
  <2> DEFINE r == [conn[c] EXCEPT !.at = "open key", !.key = Proxying!NoFile, !.mine = minted + 1]
  <2>1. CASE minted' = minted + 1 /\ Proxying!Becomes(c, r)
    <3>1. minted \in Nat /\ minted + 1 \in Nat /\ Proxying!NoFile \in FileRec
      BY FreshTyped DEF ProxyTypeOK
    <3>2. r \in ConnRecord /\ r.at = "open key" /\ r.buffer = conn[c].buffer
      BY <1>2, <3>1 DEF ConnRecord, Labels
    <3> HIDE DEF r
    <3>3. cache' \in [Sites -> Nat] /\ files' = files /\ minted' \in Nat
      BY <1>6, <2>1, <3>1 DEF Proxying!Mint, ProxyTypeOK
    <3>. QED  BY <1>1, <2>1, <3>2, <3>3, ConnStep
  <2>2. CASE Proxying!Ends(c) /\ UNCHANGED minted
    BY <1>1, <1>6, <2>2, EndsKeeps DEF Proxying!Mint
  <2>. QED  BY <1>6, <2>1, <2>2 DEF Proxying!Mint
<1>7. CASE Proxying!SlurpFails(c)
  BY <1>1, <1>7, GoesKeeps DEF Proxying!SlurpFails, Labels
<1>8. CASE Proxying!StoreInCache(c)
  <2>1. cache' \in [Sites -> Nat]
    BY <1>1, <1>2, <1>8 DEF Proxying!StoreInCache, ProxyTypeOK
  <2>. QED  BY <1>1, <1>2, <1>8, <2>1, ReturnsKeeps DEF Proxying!StoreInCache
<1>. QED  BY <1>1, <1>3, <1>4, <1>5, <1>6, <1>7, <1>8 DEF LookupStep

LEMMA WriteKeeps ==
  ASSUME ProxyInv, NEW c \in Conns, WriteStep(c)
  PROVE  /\ ProxyInv' /\ Serves(c)
         /\ \A h \in Sites : h # Proxying!Host(c) => files'[h] = files[h]
<1> USE DEF ProxyInv
<1>1. Serves(c) /\ Proxying!Host(c) \in Sites
  BY DEF WriteStep, Proxying!OpenKey, Proxying!WriteKey, Proxying!OpenCrt, Proxying!WriteCrt,
         Proxying!ToDiskFails, Proxying!At, ServesOK, Serves
<1> DEFINE k == files[Proxying!Host(c)].key
           x == files[Proxying!Host(c)].crt
<1>2. /\ files \in [Sites -> [key : FileRec, crt : FileRec]]
      /\ k \in FileRec /\ x \in FileRec
      /\ \A e \in BOOLEAN : Proxying!File(conn[c].mine, e) \in FileRec
  BY <1>1, FreshTyped DEF ProxyTypeOK, ConnRecord
<1>3. \A f \in FileRec : Proxying!Opened(f) \in FileRec
  BY FreshTyped DEF Proxying!Opened
<1>4. ASSUME NEW k2 \in FileRec, NEW x2 \in FileRec,
             files' = [files EXCEPT ![Proxying!Host(c)] = [key |-> k2, crt |-> x2]],
             NEW l \in Labels, Proxying!Goes(c, l), UNCHANGED <<cache, minted>>
      PROVE  ProxyInv' /\ \A h \in Sites : h # Proxying!Host(c) => files'[h] = files[h]
  <2>1. ProxyInv'
    BY <1>1, <1>4, FileStep
  <2>2. \A h \in Sites : h # Proxying!Host(c) => files'[h] = files[h]
    BY <1>2, <1>4
  <2>. QED  BY <2>1, <2>2
<1>5. ASSUME NEW k2
      PROVE  [files EXCEPT ![Proxying!Host(c)].key = k2]
               = [files EXCEPT ![Proxying!Host(c)] = [key |-> k2, crt |-> x]]
  <2>1. [files[Proxying!Host(c)] EXCEPT !.key = k2] = [key |-> k2, crt |-> x]
    BY <1>1, <1>2
  <2>. QED  BY <1>1, <1>2, <2>1
<1>6. ASSUME NEW x2
      PROVE  [files EXCEPT ![Proxying!Host(c)].crt = x2]
               = [files EXCEPT ![Proxying!Host(c)] = [key |-> k, crt |-> x2]]
  <2>1. [files[Proxying!Host(c)] EXCEPT !.crt = x2] = [key |-> k, crt |-> x2]
    BY <1>1, <1>2
  <2>. QED  BY <1>1, <1>2, <2>1
<1>7. CASE Proxying!OpenKey(c)
  <2>1. files' = [files EXCEPT ![Proxying!Host(c)] = [key |-> Proxying!Opened(k), crt |-> x]]
    BY <1>5, <1>7 DEF Proxying!OpenKey
  <2>. QED  BY <1>1, <1>2, <1>3, <1>4, <1>7, <2>1 DEF Proxying!OpenKey, Labels
<1>8. CASE Proxying!WriteKey(c)
  <2>1. PICK e \in BOOLEAN : files' = [files EXCEPT ![Proxying!Host(c)].key
            = Proxying!File(conn[c].mine, e)]
    BY <1>8 DEF Proxying!WriteKey
  <2>2. \A m : m = Proxying!File(conn[c].mine, e) =>
          files' = [files EXCEPT ![Proxying!Host(c)] = [key |-> m, crt |-> x]]
    BY <1>5, <2>1
  <2>. QED  BY <1>1, <1>2, <1>4, <1>8, <2>2 DEF Proxying!WriteKey, Labels
<1>9. CASE Proxying!OpenCrt(c)
  <2>1. files' = [files EXCEPT ![Proxying!Host(c)] = [key |-> k, crt |-> Proxying!Opened(x)]]
    BY <1>6, <1>9 DEF Proxying!OpenCrt
  <2>. QED  BY <1>1, <1>2, <1>3, <1>4, <1>9, <2>1 DEF Proxying!OpenCrt, Labels
<1>10. CASE Proxying!WriteCrt(c)
  <2>1. PICK e \in BOOLEAN : files' = [files EXCEPT ![Proxying!Host(c)].crt
            = Proxying!File(conn[c].mine, e)]
    BY <1>10 DEF Proxying!WriteCrt
  <2>2. \A m : m = Proxying!File(conn[c].mine, e) =>
          files' = [files EXCEPT ![Proxying!Host(c)] = [key |-> k, crt |-> m]]
    BY <1>6, <2>1
  <2>. QED  BY <1>1, <1>2, <1>4, <1>10, <2>2 DEF Proxying!WriteCrt, Labels
<1>11. CASE Proxying!ToDiskFails(c)
  <2>1. Proxying!Goes(c, "store") /\ "store" \in Labels /\ UNCHANGED <<cache, minted>>
    BY <1>11 DEF Proxying!ToDiskFails, Labels
  <2>2. CASE UNCHANGED files
    BY <1>1, <2>1, <2>2, GoesKeeps
  <2> DEFINE m == Proxying!File(conn[c].mine, FALSE)
  <2>3. CASE files' = [files EXCEPT ![Proxying!Host(c)].key = m]
    <3>1. files' = [files EXCEPT ![Proxying!Host(c)] = [key |-> m, crt |-> x]] /\ m \in FileRec
      BY <1>2, <1>5, <2>3
    <3>. QED  BY <1>1, <1>2, <1>4, <2>1, <3>1
  <2>4. CASE files' = [files EXCEPT ![Proxying!Host(c)].crt = m]
    <3>1. files' = [files EXCEPT ![Proxying!Host(c)] = [key |-> k, crt |-> m]] /\ m \in FileRec
      BY <1>2, <1>6, <2>4
    <3>. QED  BY <1>1, <1>2, <1>4, <2>1, <3>1
  <2>. QED  BY <1>11, <2>2, <2>3, <2>4 DEF Proxying!ToDiskFails
<1>. QED  BY <1>1, <1>7, <1>8, <1>9, <1>10, <1>11 DEF WriteStep

LEMMA RestartKeeps ==
  ASSUME ProxyInv, Proxying!Restart
  PROVE  ProxyInv' /\ files' = files
<1>1. /\ conn' = [c \in Conns |-> Proxying!Fresh] /\ cache' = [h \in Sites |-> 0]
      /\ files' = files /\ minted' = minted
  BY DEF Proxying!Restart
<1>2. ProxyTypeOK'
  BY <1>1, FreshTyped DEF ProxyInv, ProxyTypeOK
<1>3. ServesOK'
  BY <1>1, FreshTyped DEF ServesOK
<1>. QED  BY <1>1, <1>2, <1>3 DEF ProxyInv

LEMMA ProxyStepKeeps == ProxyInv /\ [Proxying!Next]_(Proxying!vars) => ProxyInv'
<1> SUFFICES ASSUME ProxyInv, [Proxying!Next]_(Proxying!vars) PROVE ProxyInv'
  OBVIOUS
<1>1. CASE UNCHANGED Proxying!vars
  BY <1>1 DEF Proxying!vars, ProxyInv, ProxyTypeOK, ServesOK, Serves, Proxying!Host
<1>2. CASE Proxying!Next
  BY <1>2, ProxySteps, RestartKeeps, LoopKeeps, LookupKeeps, WriteKeeps
<1>. QED  BY <1>1, <1>2

(* The key and certificate of h that clients are shown.                    *)
Shown(h) == files[h].key.of
ShownCert(h) == [host |-> h, key |-> Shown(h), crt |-> Shown(h)]

(* A connection leaves the files of h alone: the part of Settled that is   *)
(* about it.                                                               *)
Leaves(r, h) ==
  r.buffer # <<>> /\ Head(r.buffer).kind = "connect" /\ Head(r.buffer).host = h =>
    \/ r.at \in {"read", "check", "lookup", "read key", "dial"}
    \/ r.at = "read crt" /\ r.key = files[h].key
    \/ r.at = "store" /\ r.mine = files[h].key.of

(* Where Lookup returns for h, it returns what is shown.                   *)
Shows(c, r, h) ==
  conn[c].at # "dial" /\ r.at = "dial" /\ Proxying!Host(c) = h => r.cert = ShownCert(h)
ShowsAll(h) == \A c \in Conns : Shows(c, conn'[c], h)

LEMMA SettledParts ==
  ASSUME NEW h \in Sites
  PROVE  /\ Proxying!Settled(h) <=> /\ Proxying!KeyPair(files[h].key, files[h].crt)
                                    /\ cache[h] \in {0, Shown(h)}
                                    /\ \A c \in Conns : Leaves(conn[c], h)
         /\ Proxying!Settled(h)' <=> /\ Proxying!KeyPair(files'[h].key, files'[h].crt)
                                     /\ cache'[h] \in {0, Shown(h)'}
                                     /\ \A c \in Conns : Leaves(conn[c], h)'
BY Zenon DEF Proxying!Settled, Leaves, Proxying!KeyPair, Proxying!Host, Shown

(* A step of c after which the files, the map and all connections are as   *)
(* Settled wants them.                                                     *)
Stays(h) == files'[h] = files[h] /\ Proxying!Settled(h)' /\ ShowsAll(h)

LEMMA SettledStays ==
  ASSUME ProxyInv, NEW h \in Sites, Proxying!Settled(h), files'[h] = files[h],
         cache'[h] \in {0, Shown(h)},
         NEW c \in Conns, NEW r, Proxying!Becomes(c, r), Leaves(r, h), Shows(c, r, h)
  PROVE  Stays(h)
<1>1. conn'[c] = r /\ \A d \in Conns : d # c => conn'[d] = conn[d]
  BY DEF Proxying!Becomes, ProxyInv, ProxyTypeOK
<1>2. \A d \in Conns : Leaves(conn[d], h)'
  <2>1. Leaves(conn[c], h)'
    BY <1>1 DEF Leaves
  <2>2. ASSUME NEW d \in Conns, d # c PROVE Leaves(conn[d], h)'
    <3>1. Leaves(conn[d], h)
      BY SettledParts
    <3>. QED  BY <1>1, <2>2, <3>1 DEF Leaves
  <2>. QED  BY <2>1, <2>2
<1>3. Proxying!KeyPair(files'[h].key, files'[h].crt) /\ cache'[h] \in {0, Shown(h)'}
  BY SettledParts DEF Shown
<1>4. ShowsAll(h)
  BY <1>1 DEF ShowsAll, Shows
<1>. QED  BY <1>2, <1>3, <1>4, SettledParts DEF Stays

(* A step of a connection that goes on with the buffer it has.             *)
LEMMA SettledGoes ==
  ASSUME ProxyInv, NEW h \in Sites, Proxying!Settled(h), files'[h] = files[h], cache' = cache,
         NEW c \in Conns, NEW l \in Labels, l # "dial", Proxying!Goes(c, l),
         l \in {"read", "check", "lookup", "read key"} \/ (Serves(c) /\ Proxying!Host(c) # h)
  PROVE  Stays(h)
<1> DEFINE r == [conn[c] EXCEPT !.at = l]
<1>1. r.at = l /\ r.buffer = conn[c].buffer
  BY DEF ProxyInv, ProxyTypeOK, ConnRecord
<1>2. Leaves(r, h) /\ Shows(c, r, h)
  BY <1>1 DEF Leaves, Serves, Proxying!Host, Shows
<1>3. cache'[h] \in {0, Shown(h)}
  BY SettledParts
<1>. QED  BY <1>2, <1>3, SettledStays DEF Proxying!Goes

LEMMA SettledEnds ==
  ASSUME ProxyInv, NEW h \in Sites, Proxying!Settled(h), files'[h] = files[h], cache' = cache,
         NEW c \in Conns, Proxying!Ends(c)
  PROVE  Stays(h)
<1>1. Leaves(Proxying!Fresh, h) /\ Shows(c, Proxying!Fresh, h)
  BY FreshTyped DEF Leaves, Shows
<1>2. cache'[h] \in {0, Shown(h)}
  BY SettledParts
<1>. QED  BY <1>1, <1>2, SettledStays DEF Proxying!Ends

(* Lookup returns what is shown, or for another host.                      *)
LEMMA SettledReturns ==
  ASSUME ProxyInv, NEW h \in Sites, Proxying!Settled(h), files'[h] = files[h],
         cache'[h] \in {0, Shown(h)}, NEW c \in Conns, NEW m, Proxying!Returns(c, m, m),
         Proxying!Host(c) = h => m = Shown(h)
  PROVE  Stays(h)
<1> DEFINE r == [conn[c] EXCEPT !.at = "dial", !.key = Proxying!NoFile, !.mine = 0,
                                !.cert = [host |-> Proxying!Host(c), key |-> m, crt |-> m]]
<1>1. r.at = "dial" /\ r.cert = [host |-> Proxying!Host(c), key |-> m, crt |-> m]
  BY DEF ProxyInv, ProxyTypeOK, ConnRecord
<1>2. Leaves(r, h) /\ Shows(c, r, h)
  BY <1>1 DEF Leaves, Shows, ShownCert
<1>. QED  BY <1>2, SettledStays DEF Proxying!Returns

LEMMA LoopStays ==
  ASSUME ProxyInv, NEW h \in Sites, Proxying!Settled(h), NEW c \in Conns, LoopStep(c)
  PROVE  Stays(h)
<1>1. files' = files /\ cache' = cache /\ cache'[h] \in {0, Shown(h)}
  BY SettledParts DEF LoopStep, Proxying!Accept, Proxying!Read, Proxying!ReadFails,
     Proxying!CheckFindsNothing, Proxying!CheckFindsRequest, Proxying!CheckFindsConnect,
     Proxying!Dial
<1>2. CASE Proxying!Accept(c)
  <2> DEFINE r == [Proxying!Fresh EXCEPT !.at = "read"]
  <2>1. Leaves(r, h) /\ Shows(c, r, h)
    BY FreshTyped DEF Leaves, Shows, Proxying!Fresh
  <2>. QED  BY <1>1, <1>2, <2>1, SettledStays DEF Proxying!Accept
<1>3. CASE Proxying!Read(c)
  <2>1. PICK q \in Proxying!Requests :
          Proxying!Becomes(c, [conn[c] EXCEPT !.at = "check",
              !.buffer = Append(Proxying!Whole(conn[c].buffer), q)])
    BY <1>3 DEF Proxying!Read
  <2> DEFINE r == [conn[c] EXCEPT !.at = "check",
            !.buffer = Append(Proxying!Whole(conn[c].buffer), q)]
  <2>2. Leaves(r, h) /\ Shows(c, r, h)
    BY DEF Leaves, Shows, ProxyInv, ProxyTypeOK, ConnRecord
  <2>. QED  BY <1>1, <2>1, <2>2, SettledStays
<1>4. CASE Proxying!ReadFails(c) \/ Proxying!CheckFindsRequest(c)
  BY <1>1, <1>4, SettledEnds DEF Proxying!ReadFails, Proxying!CheckFindsRequest
<1>5. CASE Proxying!CheckFindsNothing(c) \/ Proxying!CheckFindsConnect(c)
  BY <1>1, <1>5, SettledGoes DEF Proxying!CheckFindsNothing, Proxying!CheckFindsConnect, Labels
<1>6. CASE Proxying!Dial(c)
  BY <1>1, <1>6, SettledGoes, SettledEnds DEF Proxying!Dial, Labels
<1>. QED  BY <1>2, <1>3, <1>4, <1>5, <1>6 DEF LoopStep

LEMMA LookupStays ==
  ASSUME ProxyInv, NEW h \in Sites, Proxying!Settled(h), NEW c \in Conns, LookupStep(c),
         ~ (Proxying!SlurpFails(c) /\ Proxying!Host(c) = h)
  PROVE  Stays(h)
<1>1. files' = files /\ Serves(c)
  BY LookupKeeps
<1>2. /\ Proxying!KeyPair(files[h].key, files[h].crt) /\ Leaves(conn[c], h)
      /\ cache[h] \in {0, Shown(h)}
  BY SettledParts
<1>3. Proxying!Host(c) = h =>
        /\ conn[c].at # "mint"
        /\ conn[c].at = "read crt" => conn[c].key = files[h].key
        /\ conn[c].at = "store" => conn[c].mine = Shown(h)
  BY <1>1, <1>2 DEF Leaves, Serves, Proxying!Host, Shown
<1>4. CASE Proxying!LookInCache(c)
  <2>1. CASE Proxying!Goes(c, "read key")
    BY <1>1, <1>4, <2>1, SettledGoes DEF Proxying!LookInCache, Labels
  <2>2. CASE /\ cache[Proxying!Host(c)] # 0
             /\ Proxying!Returns(c, cache[Proxying!Host(c)], cache[Proxying!Host(c)])
    <3>1. Proxying!Host(c) = h => cache[Proxying!Host(c)] = Shown(h)
      BY <1>2, <2>2
    <3>2. cache' = cache
      BY <1>4 DEF Proxying!LookInCache
    <3>. QED  BY <1>1, <1>2, <2>2, <3>1, <3>2, SettledReturns
  <2>. QED  BY <1>4, <2>1, <2>2 DEF Proxying!LookInCache
<1>5. CASE Proxying!ReadKey(c)
  <2> DEFINE r == [conn[c] EXCEPT !.at = "read crt", !.key = files[Proxying!Host(c)].key]
  <2>1. Proxying!Becomes(c, r) /\ cache' = cache
    BY <1>5 DEF Proxying!ReadKey
  <2>2. r.at = "read crt" /\ r.key = files[Proxying!Host(c)].key
          /\ Head(r.buffer).host = Proxying!Host(c)
    BY DEF ProxyInv, ProxyTypeOK, ConnRecord, Proxying!Host
  <2>3. Leaves(r, h) /\ Shows(c, r, h)
    BY <2>2 DEF Leaves, Shows
  <2> HIDE DEF r
  <2>. QED  BY <1>1, <1>2, <2>1, <2>3, SettledStays
<1>6. CASE Proxying!ReadCrt(c)
  <2> DEFINE x == files[Proxying!Host(c)].crt
  <2>1. cache' = cache /\ conn[c].at = "read crt"
    BY <1>6 DEF Proxying!ReadCrt, Proxying!At
  <2>2. CASE /\ Proxying!KeyPair(conn[c].key, x)
             /\ Proxying!Returns(c, conn[c].key.of, x.of)
    <3>1. conn[c].key.of = x.of
      BY <2>2 DEF Proxying!KeyPair
    <3>2. Proxying!Returns(c, conn[c].key.of, conn[c].key.of)
      BY <2>2, <3>1
    <3>3. Proxying!Host(c) = h => conn[c].key.of = Shown(h)
      BY <1>3, <2>1 DEF Shown
    <3>. QED  BY <1>1, <1>2, <2>1, <3>2, <3>3, SettledReturns
  <2>3. CASE ~ Proxying!KeyPair(conn[c].key, x) /\ Proxying!Goes(c, "mint")
    <3>1. Proxying!Host(c) # h
      BY <1>2, <1>3, <2>1, <2>3
    <3>. QED  BY <1>1, <2>1, <2>3, <3>1, SettledGoes DEF Labels
  <2>. QED  BY <1>6, <2>2, <2>3 DEF Proxying!ReadCrt
<1>7. CASE Proxying!SlurpFails(c)
  BY <1>1, <1>7, SettledGoes DEF Proxying!SlurpFails, Labels
<1>8. CASE Proxying!Mint(c)
  <2>1. conn[c].at = "mint" /\ cache' = cache
    BY <1>8 DEF Proxying!Mint, Proxying!At
  <2>2. Proxying!Host(c) # h
    BY <1>3, <2>1
  <2>3. CASE Proxying!Ends(c)
    BY <1>1, <2>1, <2>3, SettledEnds
  <2> DEFINE r == [conn[c] EXCEPT !.at = "open key", !.key = Proxying!NoFile,
          !.mine = minted + 1]
  <2>4. CASE Proxying!Becomes(c, r)
    <3>1. Head(r.buffer).host = Proxying!Host(c) /\ r.at = "open key"
      BY DEF ProxyInv, ProxyTypeOK, ConnRecord, Proxying!Host
    <3>2. Leaves(r, h) /\ Shows(c, r, h)
      BY <2>2, <3>1 DEF Leaves, Shows
    <3> HIDE DEF r
    <3>. QED  BY <1>1, <1>2, <2>1, <2>4, <3>2, SettledStays
  <2>. QED  BY <1>8, <2>3, <2>4 DEF Proxying!Mint
<1>9. CASE Proxying!StoreInCache(c)
  <2>1. Proxying!Returns(c, conn[c].mine, conn[c].mine) /\ conn[c].at = "store"
    BY <1>9 DEF Proxying!StoreInCache, Proxying!At
  <2>2. Proxying!Host(c) = h => conn[c].mine = Shown(h)
    BY <1>3, <2>1
  <2>3. cache'[h] \in {0, Shown(h)}
    BY <1>2, <1>9, <2>2 DEF Proxying!StoreInCache, ProxyInv, ProxyTypeOK
  <2>. QED  BY <1>1, <2>1, <2>2, <2>3, SettledReturns
<1>. QED  BY <1>4, <1>5, <1>6, <1>7, <1>8, <1>9 DEF LookupStep

LEMMA WriteStays ==
  ASSUME ProxyInv, NEW h \in Sites, Proxying!Settled(h), NEW c \in Conns, WriteStep(c)
  PROVE  Stays(h)
<1>1. Serves(c) /\ conn[c].at \in {"open key", "write key", "open crt", "write crt"}
        /\ cache' = cache
  BY WriteKeeps DEF WriteStep, Proxying!OpenKey, Proxying!WriteKey, Proxying!OpenCrt,
         Proxying!WriteCrt, Proxying!ToDiskFails, Proxying!At
<1>2. Leaves(conn[c], h)
  BY SettledParts
<1>3. Proxying!Host(c) # h
  BY <1>1, <1>2 DEF Leaves, Serves, Proxying!Host
<1>4. files'[h] = files[h]
  BY <1>3, WriteKeeps
<1>5. \E l \in Labels : l # "dial" /\ Proxying!Goes(c, l)
  BY DEF WriteStep, Proxying!OpenKey, Proxying!WriteKey, Proxying!OpenCrt,
         Proxying!WriteCrt, Proxying!ToDiskFails, Labels
<1>. QED  BY <1>1, <1>3, <1>4, <1>5, SettledGoes

(* The step of CertificateStays.                                           *)
LEMMA CertificateStep ==
  ASSUME ProxyInv, Proxying!Next, NEW h \in Sites, Proxying!Settled(h)
  PROVE  /\ files'[h] = files[h]
         /\ Proxying!Settled(h)' \/ \E c \in Conns : Proxying!SlurpFails(c) /\ Proxying!Host(c) = h
         /\ ShowsAll(h)
<1>1. CASE Proxying!Restart
  <2>1. files' = files /\ cache'[h] = 0 /\ \A c \in Conns : conn'[c] = Proxying!Fresh
    BY <1>1 DEF Proxying!Restart
  <2>2. (\A c \in Conns : Leaves(conn[c], h)') /\ ShowsAll(h)
    BY <2>1, FreshTyped DEF Leaves, ShowsAll, Shows
  <2>. QED  BY <2>1, <2>2, SettledParts DEF Shown
<1>2. ASSUME NEW c \in Conns, LoopStep(c) \/ LookupStep(c) \/ WriteStep(c),
             ~ (Proxying!SlurpFails(c) /\ Proxying!Host(c) = h)
      PROVE  Stays(h)
  BY <1>2, LoopStays, LookupStays, WriteStays
<1>3. ASSUME NEW c \in Conns, Proxying!SlurpFails(c), Proxying!Host(c) = h
      PROVE  files' = files /\ ShowsAll(h)
  <2>1. files' = files /\ Proxying!Becomes(c, [conn[c] EXCEPT !.at = "mint"])
    BY <1>3 DEF Proxying!SlurpFails, Proxying!Goes
  <2>2. conn'[c].at = "mint" /\ \A d \in Conns : d # c => conn'[d] = conn[d]
    BY <2>1 DEF Proxying!Becomes, ProxyInv, ProxyTypeOK, ConnRecord
  <2>. QED  BY <2>1, <2>2 DEF ShowsAll, Shows
<1>. QED  BY <1>1, <1>2, <1>3, ProxySteps DEF Stays

-----------------------------------------------------------------------------
(* Scanning: types *)

Places == {"take", "dial", "wait", "store", "compare", "gone"}

SlopTypeOK ==
  /\ sent \in 0..NHosts /\ closed \in BOOLEAN /\ done \in BOOLEAN
  /\ live \in Int
  /\ worker \in [Workers -> [at : Places, host : Nat, loaded : Int]]
  /\ tried \subseteq Scanning!Lines

(* The instance has symbols of its own for those of FiniteSets.            *)
LEMMA SameCardinality ==
  \A S : /\ Scanning!Cardinality(S) = Cardinality(S)
         /\ Scanning!IsFiniteSet(S) = IsFiniteSet(S)
<1>1. \A S : Scanning!Cardinality(S) = Cardinality(S)
  BY DEF Scanning!Cardinality, Cardinality
<1>2. \A S : Scanning!IsFiniteSet(S) = IsFiniteSet(S)
  BY DEF Scanning!IsFiniteSet, IsFiniteSet
<1>. QED  BY <1>1, <1>2

(* The workers that have still to write the count.                         *)
Pending == {w \in Workers : worker[w].at \notin {"compare", "gone"}}

(* The count is never too low: not as it is, as it was loaded by one who   *)
(* has still to write it, or as it was written by one who is to compare.   *)
CountOK ==
  /\ Cardinality(Pending) <= live
  /\ \A w \in Workers : worker[w].at = "store"   => Cardinality(Pending) <= worker[w].loaded
  /\ \A w \in Workers : worker[w].at = "compare" => Cardinality(Pending) <= worker[w].loaded - 1

(* What has been handed out has been tried or is being tried; and a worker *)
(* leaves when there is nothing more to hand out.                          *)
HandedOK ==
  /\ \A h \in 1..sent : \/ h \in tried
                        \/ \E w \in Workers : worker[w].at \in {"dial", "wait"}
                               /\ worker[w].host = h
  /\ \A w \in Workers : worker[w].at \in {"dial", "wait"} => worker[w].host \in Scanning!Lines
  /\ closed => sent = NHosts
  /\ \A w \in Workers : worker[w].at \in {"store", "compare", "gone"} => closed

DoneOK ==
  /\ done => Pending = {}
  /\ over # "no" => done

SlopInv == SlopTypeOK /\ CountOK /\ HandedOK /\ DoneOK
-----------------------------------------------------------------------------
LEMMA PendingFinite ==
  ASSUME Scanning!SlopConstants
  PROVE  IsFiniteSet(Pending) /\ Cardinality(Pending) \in Nat
<1>1. IsFiniteSet(Pending)
  BY FS_Subset, SameCardinality DEF Scanning!SlopConstants, Pending
<1>. QED  BY <1>1, FS_CardinalityType

LEMMA SlopInitInv == ASSUME Scanning!SlopConstants, Scanning!Init PROVE SlopInv
<1> USE DEF Scanning!SlopConstants, Scanning!Init
<1>1. live = Cardinality(Workers) /\ Cardinality(Workers) \in Nat
  BY FS_CardinalityType, SameCardinality
<1>2. Pending = Workers
  BY DEF Pending
<1>3. Pending # {}
  BY <1>2
<1>4. SlopTypeOK
  <2>1. worker \in [Workers -> [at : Places, host : Nat, loaded : Int]]
    BY DEF Places
  <2>2. sent \in 0..NHosts /\ live \in Int
    BY <1>1
  <2>. QED  BY <2>1, <2>2 DEF SlopTypeOK
<1>5. CountOK
  BY <1>1, <1>2 DEF CountOK
<1>. QED  BY <1>4, <1>5 DEF SlopInv, HandedOK, DoneOK

(* A step of w that leaves it on the same side of the store.               *)
LEMMA SameSide ==
  ASSUME SlopInv, NEW w \in Workers, NEW r \in [at : Places, host : Nat, loaded : Int],
         worker' = [worker EXCEPT ![w] = r],
         r.at \in {"compare", "gone"} <=> worker[w].at \in {"compare", "gone"}
  PROVE  Pending' = Pending
  BY DEF SlopInv, SlopTypeOK, Pending

LEMMA SlopStepKeeps == ASSUME Scanning!SlopConstants, SlopInv, [Scanning!Next]_(Scanning!vars)
                       PROVE SlopInv'
<1> USE DEF SlopInv
<1>1. Cardinality(Pending) \in Nat /\ IsFiniteSet(Pending) /\ NHosts \in Nat
  BY PendingFinite DEF Scanning!SlopConstants
(* A worker takes a host, tries it, and is back for another.               *)
<1>2. ASSUME NEW w \in Workers, Scanning!Hand(w) PROVE SlopInv'
  <2>1. /\ worker[w].at = "take" /\ sent < NHosts /\ sent' = sent + 1
        /\ worker' = [worker EXCEPT ![w] = [worker[w] EXCEPT !.at = "dial", !.host = sent + 1]]
        /\ UNCHANGED <<closed, live, done, tried, over>>
    BY <1>2 DEF Scanning!Hand, Scanning!At
  <2>2. [worker[w] EXCEPT !.at = "dial", !.host = sent + 1] \in [at : Places, host : Nat,
            loaded : Int]
    <3>1. sent + 1 \in Nat /\ "dial" \in Places /\ worker[w] \in [at : Places, host : Nat,
              loaded : Int]
      BY <1>1 DEF SlopTypeOK, Places
    <3>. QED  BY <3>1
  <2>3. Pending' = Pending
    BY <2>1, <2>2, SameSide DEF SlopTypeOK
  <2>4. SlopTypeOK'
    BY <1>1, <2>1, <2>2 DEF SlopTypeOK
  <2>5. CountOK'
    BY <2>1, <2>3 DEF CountOK, SlopTypeOK
  <2>6. HandedOK'
    BY <1>1, <2>1 DEF HandedOK, SlopTypeOK, Scanning!Lines
  <2>7. DoneOK'
    BY <2>1, <2>3 DEF DoneOK
  <2>. QED  BY <2>4, <2>5, <2>6, <2>7
<1>3. ASSUME NEW w \in Workers, Scanning!DialFails(w) \/ Scanning!TakeCompletion(w)
          \/ Scanning!TimesOut(w) PROVE SlopInv'
  <2>1. /\ worker[w].at \in {"dial", "wait"} /\ tried' = tried \cup {worker[w].host}
        /\ worker' = [worker EXCEPT ![w] = [worker[w] EXCEPT !.at = "take"]]
        /\ UNCHANGED <<sent, closed, live, done, over>>
    BY <1>3 DEF Scanning!DialFails, Scanning!TakeCompletion, Scanning!TimesOut,
           Scanning!TlsCommonNameReturns, Scanning!Goes, Scanning!At, SlopTypeOK
  <2>2. [worker[w] EXCEPT !.at = "take"] \in [at : Places, host : Nat, loaded : Int]
    BY DEF SlopTypeOK, Places
  <2>3. Pending' = Pending
    BY <2>1, <2>2, SameSide DEF SlopTypeOK
  <2>4. SlopTypeOK'
    BY <2>1, <2>2 DEF SlopTypeOK, HandedOK
  <2>5. CountOK'
    BY <2>1, <2>3 DEF CountOK, SlopTypeOK
  <2>6. HandedOK'
    BY <2>1 DEF HandedOK, SlopTypeOK
  <2>7. DoneOK'
    BY <2>1, <2>3 DEF DoneOK
  <2>. QED  BY <2>4, <2>5, <2>6, <2>7
<1>4. ASSUME NEW w \in Workers, Scanning!Dialled(w) PROVE SlopInv'
  <2>1. /\ worker[w].at = "dial"
        /\ worker' = [worker EXCEPT ![w] = [worker[w] EXCEPT !.at = "wait"]]
        /\ UNCHANGED <<sent, closed, live, done, tried, over>>
    BY <1>4 DEF Scanning!Dialled, Scanning!Goes, Scanning!At, SlopTypeOK
  <2>2. [worker[w] EXCEPT !.at = "wait"] \in [at : Places, host : Nat, loaded : Int]
    BY DEF SlopTypeOK, Places
  <2>3. Pending' = Pending
    BY <2>1, <2>2, SameSide DEF SlopTypeOK
  <2>4. SlopTypeOK'
    BY <2>1, <2>2 DEF SlopTypeOK
  <2>5. CountOK'
    BY <2>1, <2>3 DEF CountOK, SlopTypeOK
  <2>6. HandedOK'
    BY <2>1 DEF HandedOK, SlopTypeOK
  <2>7. DoneOK'
    BY <2>1, <2>3 DEF DoneOK
  <2>. QED  BY <2>4, <2>5, <2>6, <2>7
(* It leaves: what it loads is not too low, since nobody writes the count  *)
(* before it is one of those who have written.                             *)
<1>5. ASSUME NEW w \in Workers, Scanning!LoadLive(w) PROVE SlopInv'
  <2>1. /\ worker[w].at = "take" /\ closed
        /\ worker' = [worker EXCEPT ![w] = [worker[w] EXCEPT !.at = "store", !.loaded = live]]
        /\ UNCHANGED <<sent, closed, live, done, tried, over>>
    BY <1>5 DEF Scanning!LoadLive, Scanning!At
  <2>2. [worker[w] EXCEPT !.at = "store", !.loaded = live] \in [at : Places, host : Nat,
            loaded : Int]
    BY DEF SlopTypeOK, Places
  <2>3. Pending' = Pending
    BY <2>1, <2>2, SameSide DEF SlopTypeOK
  <2>4. SlopTypeOK'
    BY <2>1, <2>2 DEF SlopTypeOK
  <2>5. CountOK'
    BY <2>1, <2>3 DEF CountOK, SlopTypeOK
  <2>6. HandedOK'
    BY <2>1 DEF HandedOK, SlopTypeOK
  <2>7. DoneOK'
    BY <2>1, <2>3 DEF DoneOK
  <2>. QED  BY <2>4, <2>5, <2>6, <2>7
<1>6. ASSUME NEW w \in Workers, Scanning!StoreLive(w) PROVE SlopInv'
  <2>1. /\ worker[w].at = "store" /\ live' = worker[w].loaded - 1
        /\ worker' = [worker EXCEPT ![w] = [worker[w] EXCEPT !.at = "compare"]]
        /\ UNCHANGED <<sent, closed, done, tried, over>>
    BY <1>6 DEF Scanning!StoreLive, Scanning!Goes, Scanning!At, SlopTypeOK
  <2>2. [worker[w] EXCEPT !.at = "compare"] \in [at : Places, host : Nat, loaded : Int]
    BY DEF SlopTypeOK, Places
  <2>3. w \in Pending /\ Pending' = Pending \ {w}
    BY <2>1, <2>2 DEF Pending, SlopTypeOK
  <2>4. Cardinality(Pending') = Cardinality(Pending) - 1
    BY <1>1, <2>3, FS_RemoveElement
  <2>5. SlopTypeOK'
    BY <2>1, <2>2 DEF SlopTypeOK
  <2>6. CountOK'
    BY <1>1, <2>1, <2>4 DEF CountOK, SlopTypeOK
  <2>7. HandedOK'
    BY <2>1 DEF HandedOK, SlopTypeOK
  <2>8. DoneOK'
    BY <2>1, <2>3 DEF DoneOK
  <2>. QED  BY <2>5, <2>6, <2>7, <2>8
<1>7. ASSUME NEW w \in Workers, Scanning!CompareLive(w) PROVE SlopInv'
  <2>1. /\ worker[w].at = "compare"
        /\ worker' = [worker EXCEPT ![w] = [worker[w] EXCEPT !.at = "gone"]]
        /\ UNCHANGED <<sent, closed, live, tried>>
    BY <1>7 DEF Scanning!CompareLive, Scanning!Goes, Scanning!At, SlopTypeOK
  <2>2. PICK v \in {live, worker[w].loaded - 1} :
          IF Scanning!IsLast(v) THEN done' = TRUE /\ over' = (IF done THEN "panic" ELSE over)
          ELSE UNCHANGED <<done, over>>
    BY <1>7 DEF Scanning!CompareLive
  <2>3. [worker[w] EXCEPT !.at = "gone"] \in [at : Places, host : Nat, loaded : Int]
    BY DEF SlopTypeOK, Places
  <2>4. Pending' = Pending
    BY <2>1, <2>3, SameSide DEF SlopTypeOK
  <2>5. v = 0 => Pending = {}
    <3>1. v \in Int /\ Cardinality(Pending) <= v
      BY <2>1, <2>2 DEF CountOK, SlopTypeOK
    <3>2. v = 0 => Cardinality(Pending) = 0
      BY <1>1, <3>1
    <3>. QED  BY <1>1, <3>2, FS_EmptySet
  <2>6. SlopTypeOK'
    BY <2>1, <2>2, <2>3 DEF SlopTypeOK
  <2>7. CountOK'
    BY <2>1, <2>4 DEF CountOK, SlopTypeOK
  <2>8. HandedOK'
    BY <2>1 DEF HandedOK, SlopTypeOK
  <2>9. DoneOK'
    BY <2>2, <2>4, <2>5 DEF DoneOK, Scanning!IsLast
  <2>. QED  BY <2>6, <2>7, <2>8, <2>9
<1>8. ASSUME UNCHANGED <<sent, live, done, worker, tried>>,
             closed' = closed \/ (sent = NHosts /\ closed' = TRUE),
             over' = over \/ done
      PROVE  SlopInv'
  <2>1. Pending' = Pending
    BY <1>8 DEF Pending
  <2>2. SlopTypeOK'
    BY <1>8 DEF SlopTypeOK
  <2>3. CountOK'
    BY <1>8, <2>1 DEF CountOK
  <2>4. HandedOK'
    BY <1>8 DEF HandedOK
  <2>5. DoneOK'
    BY <1>8, <2>1 DEF DoneOK
  <2>. QED  BY <2>2, <2>3, <2>4, <2>5
<1>9. ASSUME Scanning!CloseRequests \/ Scanning!MainReturns \/ UNCHANGED Scanning!vars
          \/ \E h \in Scanning!Lines : Scanning!HandshakeEnds(h)
      PROVE  SlopInv'
  BY <1>8, <1>9 DEF Scanning!CloseRequests, Scanning!MainReturns, Scanning!HandshakeEnds,
         Scanning!vars
<1>. QED  BY <1>2, <1>3, <1>4, <1>5, <1>6, <1>7, <1>9 DEF Scanning!Next, Scanning!WorkerStep

-----------------------------------------------------------------------------
(* Relaying: the log *)

RelayRec ==
  [at : {"off", "refused", "read", "write", "lock", "dump"}, sent : Nat,
   ended : BOOLEAN, broken : BOOLEAN, read : Nat, got : Seq(Nat)]
LogEntry == [relay : Relays, way : Relaying!Ways, piece : Nat, part : {"line", "dump"}]

RelayTypeOK ==
  /\ relay \in [Relays -> [Relaying!Ways -> RelayRec]]
  /\ canlog \in [Relays -> Relaying!Ways \cup {Relaying!Free}]
  /\ log \in Seq(LogEntry)

LastOf(r, i) ==
  /\ i \in DOMAIN log /\ log[i].relay = r
  /\ \A k \in DOMAIN log : k > i => log[k].relay # r

(* The mutex is held by the goroutine that has logged a line and no dump,  *)
(* and the line is the last entry of the connection.                       *)
MutexOK ==
  \A r \in Relays :
    /\ \A w \in Relaying!Ways : Relaying!At(r, w, "dump") <=> canlog[r] = w
    /\ \A i \in DOMAIN log : LastOf(r, i) =>
         IF canlog[r] = Relaying!Free THEN log[i].part = "dump"
         ELSE log[i] = Relaying!Entry(r, canlog[r], "line")
    /\ canlog[r] # Relaying!Free => \E i \in DOMAIN log : LastOf(r, i)

(* What was passed on has a line, but for the piece that waits for the     *)
(* mutex, which is the last.                                               *)
Told(s, n) ==
  /\ n = Len(s.got) - (IF s.at = "lock" THEN 1 ELSE 0)
  /\ s.at = "lock" => s.got # <<>> /\ s.got[Len(s.got)] = s.read
ToldOK ==
  \A r \in Relays, w \in Relaying!Ways :
    Told(relay[r][w], Relaying!Count(Len(log), r, w))

(* Nothing has happened to a connection that has not come in.              *)
OffOK ==
  \A r \in Relays :
    Relaying!At(r, "out", "off") => relay[r] = [w \in Relaying!Ways |-> Relaying!Off]

RelayInv == RelayTypeOK /\ OffOK /\ MutexOK /\ ToldOK /\ LogReads

(* The instance has a symbol of its own for that of FiniteSets.            *)
LEMMA CountIs ==
  ASSUME NEW n, NEW r, NEW w
  PROVE  /\ Relaying!Count(n, r, w) = Cardinality(Relaying!Lines(n, r, w))
         /\ Relaying!Count(n, r, w)' = Cardinality(Relaying!Lines(n, r, w)')
<1>1. \A S : Relaying!Cardinality(S) = Cardinality(S)
  BY DEF Relaying!Cardinality, Cardinality
<1>. QED  BY <1>1 DEF Relaying!Count

(* One more entry.                                                         *)
LEMMA LinesFinite ==
  ASSUME NEW n \in Nat, NEW r, NEW w
  PROVE  /\ IsFiniteSet(Relaying!Lines(n, r, w))
         /\ Relaying!Count(n, r, w) \in Nat
<1>1. IsFiniteSet(1..n)
  BY FS_Interval
<1>2. Relaying!Lines(n, r, w) \subseteq 1..n
  BY DEF Relaying!Lines
<1>. QED  BY <1>1, <1>2, CountIs, FS_Subset, FS_CardinalityType

LEMMA LineCounts ==
  ASSUME log \in Seq(LogEntry), NEW j \in DOMAIN log, log[j].part = "line"
  PROVE  Relaying!Count(j, log[j].relay, log[j].way) \in Nat \ {0}
<1>1. j \in Nat /\ j \in 1..j
  OBVIOUS
<1>2. j \in Relaying!Lines(j, log[j].relay, log[j].way)
  BY <1>1 DEF Relaying!Lines
<1>. QED  BY <1>1, <1>2, LinesFinite, CountIs, FS_EmptySet

LEMMA Appended ==
  ASSUME log \in Seq(LogEntry), NEW e \in LogEntry, log' = Append(log, e)
  PROVE  /\ log' \in Seq(LogEntry) /\ Len(log') = Len(log) + 1
         /\ DOMAIN log = 1..Len(log) /\ DOMAIN log' = 1..(Len(log) + 1)
         /\ Len(log) \in Nat
         /\ \A i \in DOMAIN log : log'[i] = log[i]
         /\ log'[Len(log) + 1] = e
  OBVIOUS

LEMMA OldEntries ==
  ASSUME log \in Seq(LogEntry), NEW e \in LogEntry, log' = Append(log, e),
         NEW j \in DOMAIN log
  PROVE  /\ \A i \in DOMAIN log : Relaying!Follows(i, j)' <=> Relaying!Follows(i, j)
         /\ \A r, w : Relaying!Lines(j, r, w)' = Relaying!Lines(j, r, w)
<1>1. /\ DOMAIN log = 1..Len(log) /\ Len(log) \in Nat
      /\ \A i \in DOMAIN log : log'[i] = log[i]
  BY Appended
<1>2. \A i \in DOMAIN log : Relaying!Follows(i, j)' <=> Relaying!Follows(i, j)
  BY <1>1 DEF Relaying!Follows
<1>3. \A r, w : Relaying!Lines(j, r, w)' = Relaying!Lines(j, r, w)
  BY <1>1 DEF Relaying!Lines
<1>. QED  BY <1>2, <1>3

LEMMA NewEntry ==
  ASSUME log \in Seq(LogEntry), NEW e \in LogEntry, log' = Append(log, e),
         NEW n, n = Len(log)
  PROVE  /\ \A i \in DOMAIN log' : Relaying!Follows(i, n + 1)' <=> LastOf(e.relay, i)
         /\ \A r, i : LastOf(r, i)' <=> IF r = e.relay THEN i = n + 1 ELSE LastOf(r, i)
<1>1. /\ DOMAIN log = 1..n /\ DOMAIN log' = 1..(n + 1) /\ n \in Nat
      /\ \A i \in DOMAIN log : log'[i] = log[i]
      /\ log'[n + 1] = e
  BY Appended
<1>2. \A i \in DOMAIN log' : Relaying!Follows(i, n + 1)' <=> LastOf(e.relay, i)
  BY <1>1 DEF Relaying!Follows, LastOf
<1>3. \A r, i : LastOf(r, i)' <=> IF r = e.relay THEN i = n + 1 ELSE LastOf(r, i)
  BY <1>1 DEF LastOf
<1>. QED  BY <1>2, <1>3

LEMMA NewCount ==
  ASSUME log \in Seq(LogEntry), NEW e \in LogEntry, log' = Append(log, e),
         NEW n, n = Len(log), NEW r, NEW w
  PROVE  Relaying!Count(n + 1, r, w)'
           = Relaying!Count(n, r, w)
             + IF e.relay = r /\ e.way = w /\ e.part = "line" THEN 1 ELSE 0
<1> DEFINE S == Relaying!Lines(n, r, w)
           T == Relaying!Lines(n + 1, r, w)'
<1>1. /\ DOMAIN log = 1..n /\ n \in Nat
      /\ \A i \in DOMAIN log : log'[i] = log[i]
      /\ log'[n + 1] = e
  BY Appended
<1>2. T = IF e.relay = r /\ e.way = w /\ e.part = "line" THEN S \cup {n + 1} ELSE S
  BY <1>1 DEF Relaying!Lines
<1>3. IsFiniteSet(S) /\ Cardinality(S) \in Nat
  BY <1>1, LinesFinite, CountIs
<1>4. n + 1 \notin S
  BY <1>1 DEF Relaying!Lines
<1> HIDE DEF S, T
<1>5. Cardinality(S \cup {n + 1}) = Cardinality(S) + 1
  BY <1>3, <1>4, FS_AddElement
<1>. QED  BY <1>2, <1>3, <1>5, CountIs DEF S, T

(* What the steps that log nothing do to a stream.                         *)
Quiet(s, t) ==
  /\ s.at = "dump" => t.read = s.read
  /\ t.at = "dump" <=> s.at = "dump"
  /\ \/ s.at # "lock" /\ t.at # "lock" /\ t.got = s.got
     \/ s.at = "lock" /\ t.at = "lock" /\ t.got = s.got /\ t.read = s.read
     \/ s.at # "lock" /\ t.at = "lock" /\ t.got = Append(s.got, t.read)

(* A step that logs nothing keeps the invariant if it is quiet.            *)
LEMMA QuietKeeps ==
  ASSUME RelayInv, RelayTypeOK', OffOK', UNCHANGED <<canlog, log>>,
         \A r \in Relays, w \in Relaying!Ways : Quiet(relay[r][w], relay'[r][w])
  PROVE  RelayInv'
<1>1. MutexOK'
  <2> SUFFICES ASSUME NEW r \in Relays
               PROVE  /\ \A w \in Relaying!Ways : Relaying!At(r, w, "dump")' <=> canlog[r] = w
                      /\ \A i \in DOMAIN log : LastOf(r, i) =>
                           IF canlog[r] = Relaying!Free THEN log[i].part = "dump"
                           ELSE log[i] = Relaying!Entry(r, canlog[r], "line")'
                      /\ canlog[r] # Relaying!Free => \E i \in DOMAIN log : LastOf(r, i)
    BY DEF MutexOK, LastOf
  <2>1. ASSUME NEW w \in Relaying!Ways
        PROVE  /\ Relaying!At(r, w, "dump")' <=> Relaying!At(r, w, "dump")
               /\ Relaying!At(r, w, "dump") => relay'[r][w].read = relay[r][w].read
    BY DEF Relaying!At, Quiet
  <2>2. canlog[r] \in Relaying!Ways \cup {Relaying!Free}
    BY DEF RelayInv, RelayTypeOK
  <2>3. CASE canlog[r] = Relaying!Free
    BY <2>1, <2>3 DEF RelayInv, MutexOK
  <2>4. CASE canlog[r] \in Relaying!Ways /\ canlog[r] # Relaying!Free
    <3>1. Relaying!At(r, canlog[r], "dump")
      BY <2>4 DEF RelayInv, MutexOK
    <3>2. Relaying!Entry(r, canlog[r], "line")' = Relaying!Entry(r, canlog[r], "line")
      BY <2>1, <2>4, <3>1 DEF Relaying!Entry
    <3>. QED  BY <2>1, <2>4, <3>2 DEF RelayInv, MutexOK
  <2>. QED  BY <2>2, <2>3, <2>4
<1>2. ToldOK'
  <2> SUFFICES ASSUME NEW r \in Relays, NEW w \in Relaying!Ways
               PROVE  Told(relay'[r][w], Relaying!Count(Len(log), r, w))
    <3>1. log' = log
      OBVIOUS
    <3>2. \A r, w : Relaying!Count(Len(log), r, w)' = Relaying!Count(Len(log), r, w)
      BY <3>1 DEF Relaying!Count, Relaying!Lines
    <3>. QED  BY <3>2 DEF ToldOK
  <2>1. PICK s \in RelayRec, t \in RelayRec : s = relay[r][w] /\ t = relay'[r][w] /\ Quiet(s, t)
    BY DEF RelayInv, RelayTypeOK
  <2>2. PICK n : n = Relaying!Count(Len(log), r, w) /\ Told(s, n)
    BY <2>1 DEF RelayInv, ToldOK
  <2>3. PICK g \in Seq(Nat), x \in Nat : g = s.got /\ x = t.read
    BY <2>1 DEF RelayRec
  <2>4. CASE t.got = Append(g, x) /\ s.at # "lock" /\ t.at = "lock"
    <3>1. Len(Append(g, x)) = Len(g) + 1 /\ Append(g, x)[Len(g) + 1] = x /\ Len(g) \in Nat
          /\ Append(g, x) # <<>>
      OBVIOUS
    <3>. QED  BY <2>1, <2>2, <2>3, <2>4, <3>1 DEF Told
  <2>5. CASE t.got = g /\ s.at # "lock" /\ t.at # "lock"
    BY <2>1, <2>2, <2>3, <2>5 DEF Told
  <2>6. CASE t.got = g /\ s.at = "lock" /\ t.at = "lock" /\ t.read = s.read
    <3>1. n = Len(g) - 1 /\ g # <<>> /\ g[Len(g)] = s.read
      BY <2>2, <2>3, <2>6 DEF Told
    <3>. QED  BY <2>1, <2>2, <2>6, <3>1 DEF Told
  <2>. QED  BY <2>1, <2>3, <2>4, <2>5, <2>6 DEF Quiet
<1>3. Relaying!LinesHaveDumps'
  BY DEF RelayInv, LogReads, Relaying!LogReads, Relaying!LinesHaveDumps, Relaying!Follows
<1>4. Relaying!LinesTellPieces'
  <2> SUFFICES ASSUME NEW j \in DOMAIN log, log[j].part = "line"
               PROVE  Relaying!Tells(j, Relaying!Count(j, log[j].relay, log[j].way),
                                     relay[log[j].relay][log[j].way].got)'
    BY DEF Relaying!LinesTellPieces
  <2>1. PICK r \in Relays, w \in Relaying!Ways : r = log[j].relay /\ w = log[j].way
    <3>1. log[j] \in LogEntry
      BY DEF RelayInv, RelayTypeOK
    <3>. QED  BY <3>1 DEF LogEntry
  <2>2. PICK n \in Nat \ {0} : n = Relaying!Count(j, r, w)
    BY <2>1, LineCounts DEF RelayInv, RelayTypeOK
  <2>3. PICK s \in RelayRec, t \in RelayRec : s = relay[r][w] /\ t = relay'[r][w] /\ Quiet(s, t)
    BY <2>1 DEF RelayInv, RelayTypeOK
  <2>4. n <= Len(s.got) /\ log[j].piece = s.got[n]
    <3>1. Relaying!Tells(j, Relaying!Count(j, log[j].relay, log[j].way),
                         relay[log[j].relay][log[j].way].got)
      <4>1. Relaying!LinesTellPieces
        BY DEF RelayInv, LogReads, Relaying!LogReads
      <4>. QED  BY <4>1 DEF Relaying!LinesTellPieces
    <3>2. Relaying!Tells(j, n, s.got)
      BY <2>1, <2>2, <2>3, <3>1
    <3>. QED  BY <3>2 DEF Relaying!Tells
  <2>5. PICK g \in Seq(Nat), x \in Nat : g = s.got /\ x = t.read
    BY <2>3 DEF RelayRec
  <2>6. t.got = g \/ t.got = Append(g, x)
    BY <2>3, <2>5 DEF Quiet
  <2>7. n \in 1..Len(g)
    BY <2>4, <2>5
  <2>8. Len(Append(g, x)) = Len(g) + 1 /\ Append(g, x)[n] = g[n]
    BY <2>7
  <2>9. n <= Len(t.got) /\ log[j].piece = t.got[n]
    BY <2>4, <2>5, <2>6, <2>7, <2>8
  <2>10. Relaying!Count(j, log[j].relay, log[j].way)' = Relaying!Count(j, r, w)
    BY <2>1 DEF Relaying!Count, Relaying!Lines
  <2>. QED  BY <2>1, <2>2, <2>3, <2>9, <2>10 DEF Relaying!Tells
<1>. QED  BY <1>1, <1>2, <1>3, <1>4 DEF RelayInv, LogReads, Relaying!LogReads

(* A stream that stays as it is.                                           *)
LEMMA QuietSame == \A s : Quiet(s, s)
BY DEF Quiet

-----------------------------------------------------------------------------
(* Relaying: the steps that log nothing, and those that log                *)

LEMMA QuietSteps ==
  ASSUME RelayInv, NEW r \in Relays,
         \/ Relaying!Accept(r)
         \/ \E w \in Relaying!Ways :
              \/ Relaying!SendPiece(r, w) \/ Relaying!EndStream(r, w)
              \/ Relaying!ReceiverGoes(r, w) \/ Relaying!ReadPiece(r, w)
              \/ Relaying!ReadLast(r, w)
              \/ Relaying!WritePiece(r, w) \/ Relaying!WriteFails(r, w)
  PROVE  RelayInv'
<1>0. RelayTypeOK /\ Relaying!Off \in RelayRec
  BY DEF RelayInv, Relaying!Off, RelayRec
<1>1. ASSUME NEW label \in {"read", "refused"}, UNCHANGED <<canlog, log>>,
             Relaying!At(r, "out", "off"),
             relay' = [relay EXCEPT ![r] = [w \in Relaying!Ways |->
                                              [Relaying!Off EXCEPT !.at = label]]]
      PROVE  RelayInv'
  <2> DEFINE t == [Relaying!Off EXCEPT !.at = label]
  <2>1. /\ t \in RelayRec /\ t.at = label /\ t.got = <<>>
        /\ Quiet(Relaying!Off, t)
    BY <1>0 DEF RelayRec, Relaying!Off, Quiet
  <2> HIDE DEF t
  <2>2. RelayTypeOK'
    BY <1>0, <1>1, <2>1 DEF RelayTypeOK, t
  <2>3. ASSUME NEW q \in Relays, NEW v \in Relaying!Ways
        PROVE  relay'[q][v] = IF q = r THEN t ELSE relay[q][v]
    BY <1>0, <1>1 DEF RelayTypeOK, t
  <2>4. \A v \in Relaying!Ways : relay[r][v] = Relaying!Off
    BY <1>1 DEF RelayInv, OffOK
  <2>5. \A q \in Relays, v \in Relaying!Ways : Quiet(relay[q][v], relay'[q][v])
    BY <2>1, <2>3, <2>4, QuietSame
  <2>6. OffOK'
    <3>1. \A q \in Relays \ {r} : relay'[q] = relay[q]
      BY <1>0, <1>1 DEF RelayTypeOK
    <3>2. "out" \in Relaying!Ways
      BY DEF Relaying!Ways
    <3>3. ~Relaying!At(r, "out", "off")'
      BY <2>1, <2>3, <3>2 DEF Relaying!At
    <3>. QED  BY <3>1, <3>3 DEF RelayInv, OffOK, Relaying!At
  <2>. QED  BY <1>1, <2>2, <2>5, <2>6, QuietKeeps
<1>2. ASSUME NEW w \in Relaying!Ways, NEW t \in RelayRec, Relaying!Becomes(r, w, t),
             relay[r][w].at # "off", t.at # "off",
             Quiet(relay[r][w], t), UNCHANGED <<canlog, log>>
      PROVE  RelayInv'
  <2>1. relay' = [relay EXCEPT ![r] = [relay[r] EXCEPT ![w] = t]]
    BY <1>2 DEF Relaying!Becomes
  <2>2. RelayTypeOK'
    BY <1>0, <1>2, <2>1 DEF RelayTypeOK
  <2>3. ASSUME NEW q \in Relays, NEW v \in Relaying!Ways
        PROVE  relay'[q][v] = IF q = r /\ v = w THEN t ELSE relay[q][v]
    BY <1>0, <2>1 DEF RelayTypeOK
  <2>4. \A q \in Relays, v \in Relaying!Ways : Quiet(relay[q][v], relay'[q][v])
    BY <1>2, <2>3, QuietSame
  <2>5. OffOK'
    <3>1. \A q \in Relays \ {r} : relay'[q] = relay[q]
      BY <1>0, <2>1 DEF RelayTypeOK
    <3>2. "out" \in Relaying!Ways
      BY DEF Relaying!Ways
    <3>3. ~Relaying!At(r, "out", "off")
      BY <1>2 DEF RelayInv, OffOK, Relaying!At, Relaying!Off
    <3>4. ~Relaying!At(r, "out", "off")'
      BY <1>2, <2>3, <3>2, <3>3 DEF Relaying!At
    <3>. QED  BY <3>1, <3>4 DEF RelayInv, OffOK, Relaying!At
  <2>. QED  BY <1>2, <2>2, <2>4, <2>5, QuietKeeps
<1>3. ASSUME NEW w \in Relaying!Ways,
             \/ Relaying!SendPiece(r, w) \/ Relaying!EndStream(r, w)
             \/ Relaying!ReceiverGoes(r, w) \/ Relaying!ReadPiece(r, w)
             \/ Relaying!ReadLast(r, w)
             \/ Relaying!WritePiece(r, w) \/ Relaying!WriteFails(r, w)
      PROVE  RelayInv'
  <2>1. PICK s \in RelayRec : s = relay[r][w]
    BY <1>0 DEF RelayTypeOK
  <2>2. UNCHANGED <<canlog, log>>
    BY <1>3 DEF Relaying!SendPiece, Relaying!EndStream, Relaying!ReceiverGoes,
                Relaying!ReadPiece, Relaying!ReadLast, Relaying!WritePiece, Relaying!WriteFails
  <2>3. CASE Relaying!SendPiece(r, w)
    <3> DEFINE t == [s EXCEPT !.sent = @ + 1]
    <3>1. s.at # "off" /\ Relaying!Becomes(r, w, t)
      BY <2>1, <2>3 DEF Relaying!SendPiece
    <3>2. t \in RelayRec /\ t.at = s.at /\ Quiet(s, t)
      BY DEF RelayRec, Quiet
    <3>. QED  BY <1>2, <2>1, <2>2, <3>1, <3>2
  <2>4. CASE Relaying!EndStream(r, w)
    <3> DEFINE t == [s EXCEPT !.ended = TRUE]
    <3>1. s.at # "off" /\ Relaying!Becomes(r, w, t)
      BY <2>1, <2>4 DEF Relaying!EndStream
    <3>2. t \in RelayRec /\ t.at = s.at /\ Quiet(s, t)
      BY DEF RelayRec, Quiet
    <3>. QED  BY <1>2, <2>1, <2>2, <3>1, <3>2
  <2>5. CASE Relaying!ReceiverGoes(r, w)
    <3> DEFINE t == [s EXCEPT !.broken = TRUE]
    <3>1. s.at # "off" /\ Relaying!Becomes(r, w, t)
      BY <2>1, <2>5 DEF Relaying!ReceiverGoes
    <3>2. t \in RelayRec /\ t.at = s.at /\ Quiet(s, t)
      BY DEF RelayRec, Quiet
    <3>. QED  BY <1>2, <2>1, <2>2, <3>1, <3>2
  <2>6. CASE Relaying!ReadPiece(r, w)
    <3> DEFINE t == [s EXCEPT !.read = s.read + 1, !.at = "write"]
    <3>1. s.at = "read" /\ Relaying!Becomes(r, w, t)
      BY <2>1, <2>6 DEF Relaying!ReadPiece, Relaying!At
    <3>2. t \in RelayRec
      <4>1. s.read + 1 \in Nat
        BY DEF RelayRec
      <4>. QED  BY <4>1 DEF RelayRec
    <3>3. t.at = "write" /\ t.got = s.got
      BY DEF RelayRec
    <3>4. Quiet(s, t)
      BY <3>1, <3>3 DEF Quiet
    <3>. QED  BY <1>2, <2>1, <2>2, <3>1, <3>2, <3>3, <3>4
  <2>7. CASE Relaying!WritePiece(r, w)
    <3> DEFINE t == [s EXCEPT !.got = Append(s.got, s.read), !.at = "lock"]
    <3>1. s.at = "write" /\ Relaying!Becomes(r, w, t)
      BY <2>1, <2>7 DEF Relaying!WritePiece, Relaying!At
    <3>2. t \in RelayRec
      <4>1. Append(s.got, s.read) \in Seq(Nat)
        BY DEF RelayRec
      <4>. QED  BY <4>1 DEF RelayRec
    <3>3. t.at = "lock" /\ t.got = Append(s.got, s.read) /\ t.read = s.read
      BY DEF RelayRec
    <3>4. Quiet(s, t)
      BY <3>1, <3>3 DEF Quiet
    <3>. QED  BY <1>2, <2>1, <2>2, <3>1, <3>2, <3>3, <3>4
  <2>8. CASE Relaying!WriteFails(r, w)
    <3> DEFINE t == [s EXCEPT !.at = "read"]
    <3>1. s.at = "write" /\ Relaying!Becomes(r, w, t)
      BY <2>1, <2>8 DEF Relaying!WriteFails, Relaying!At, Relaying!Goes
    <3>2. t \in RelayRec /\ t.at = "read" /\ Quiet(s, t)
      BY <3>1 DEF RelayRec, Quiet
    <3>. QED  BY <1>2, <2>1, <2>2, <3>1, <3>2
  <2>9. CASE Relaying!ReadLast(r, w)
    <3> DEFINE t == [s EXCEPT !.read = s.read + 1]
    <3>1. s.at = "read" /\ Relaying!Becomes(r, w, t)
      BY <2>1, <2>9 DEF Relaying!ReadLast, Relaying!At
    <3>2. s.read + 1 \in Nat
      BY DEF RelayRec
    <3>3. t \in RelayRec /\ t.at = "read" /\ t.got = s.got
      BY <3>1, <3>2 DEF RelayRec
    <3>4. Quiet(s, t)
      BY <3>1, <3>3 DEF Quiet
    <3>. QED  BY <1>2, <2>1, <2>2, <3>1, <3>3, <3>4
  <2>. QED  BY <1>3, <2>3, <2>4, <2>5, <2>6, <2>7, <2>8, <2>9
<1>4. CASE Relaying!Accept(r)
  BY <1>1, <1>4 DEF Relaying!Accept
<1>. QED  BY <1>3, <1>4

LEMMA NewCounts ==
  ASSUME log \in Seq(LogEntry), NEW e \in LogEntry, log' = Append(log, e),
         NEW r, NEW w
  PROVE  Relaying!Count(Len(log), r, w)'
           = Relaying!Count(Len(log), r, w)
             + IF e.relay = r /\ e.way = w /\ e.part = "line" THEN 1 ELSE 0
<1>1. PICK n : n = Len(log)
  OBVIOUS
<1>2. Len(log)' = n + 1
  BY <1>1, Appended
<1>. QED  BY <1>1, <1>2, NewCount

(* Both that log one entry: the first conjunct of LogReads.                *)
LEMMA DumpsFollow ==
  ASSUME log \in Seq(LogEntry), NEW e \in LogEntry, log' = Append(log, e),
         Relaying!LinesHaveDumps,
         e.part = "dump" => \E i \in DOMAIN log : LastOf(e.relay, i),
         \A i \in DOMAIN log : LastOf(e.relay, i) =>
           IF log[i].part = "line" THEN e = [log[i] EXCEPT !.part = "dump"]
                                   ELSE e.part = "line"
  PROVE  Relaying!LinesHaveDumps'
<1>1. PICK n : n = Len(log)
  OBVIOUS
<1>2. /\ DOMAIN log = 1..n /\ DOMAIN log' = 1..(n + 1) /\ n \in Nat
      /\ \A i \in DOMAIN log : log'[i] = log[i]
      /\ log'[n + 1] = e
  BY <1>1, Appended
<1>3. \A i \in DOMAIN log' : Relaying!Follows(i, n + 1)' <=> LastOf(e.relay, i)
  BY <1>1, NewEntry
<1>4. \A i \in DOMAIN log', j \in DOMAIN log : Relaying!Follows(i, j)' => i \in DOMAIN log
  BY <1>2 DEF Relaying!Follows
<1>5. \A i \in DOMAIN log, j \in DOMAIN log : Relaying!Follows(i, j)' <=> Relaying!Follows(i, j)
  BY OldEntries
<1>6. ASSUME NEW j \in DOMAIN log'
      PROVE  /\ log'[j].part = "dump" => \E i \in DOMAIN log' : Relaying!Follows(i, j)'
             /\ \A i \in DOMAIN log' : Relaying!Follows(i, j)' =>
                  IF log'[i].part = "line" THEN log'[j] = [log'[i] EXCEPT !.part = "dump"]
                                           ELSE log'[j].part = "line"
  <2>1. CASE j = n + 1
    <3>1. \A i : LastOf(e.relay, i) => i \in DOMAIN log
      BY DEF LastOf
    <3>2. DOMAIN log \subseteq DOMAIN log'
      BY <1>2
    <3>. QED  BY <1>2, <1>3, <2>1, <3>1, <3>2
  <2>2. CASE j \in DOMAIN log
    <3>1. DOMAIN log \subseteq DOMAIN log'
      BY <1>2
    <3>. QED  BY <1>2, <1>4, <1>5, <2>2, <3>1 DEF Relaying!LinesHaveDumps
  <2>. QED  BY <1>2, <2>1, <2>2
<1>. QED  BY <1>6 DEF Relaying!LinesHaveDumps

LEMMA LogSteps ==
  ASSUME RelayInv, NEW r \in Relays, NEW w \in Relaying!Ways,
         Relaying!LogLine(r, w) \/ Relaying!LogDump(r, w)
  PROVE  RelayInv'
<1>0. RelayTypeOK /\ log \in Seq(LogEntry) /\ w # Relaying!Free
  BY DEF RelayInv, RelayTypeOK, Relaying!Ways, Relaying!Free
<1>1. PICK s \in RelayRec : s = relay[r][w]
  BY <1>0 DEF RelayTypeOK
<1>2. PICK e \in LogEntry :
        /\ log' = Append(log, e) /\ e.relay = r /\ e.way = w /\ e.piece = s.read
        /\ \/ /\ Relaying!LogLine(r, w) /\ e = Relaying!Entry(r, w, "line") /\ e.part = "line"
           \/ /\ Relaying!LogDump(r, w) /\ e = Relaying!Entry(r, w, "dump") /\ e.part = "dump"
  <2>1. \A p \in {"line", "dump"} :
          /\ Relaying!Entry(r, w, p) \in LogEntry
          /\ Relaying!Entry(r, w, p).relay = r /\ Relaying!Entry(r, w, p).way = w
          /\ Relaying!Entry(r, w, p).piece = s.read /\ Relaying!Entry(r, w, p).part = p
    BY <1>1 DEF Relaying!Entry, LogEntry, RelayRec
  <2>. QED  BY <2>1 DEF Relaying!LogLine, Relaying!LogDump
<1>3. PICK t \in RelayRec :
        /\ relay' = [relay EXCEPT ![r] = [relay[r] EXCEPT ![w] = t]]
        /\ t.got = s.got /\ t.read = s.read
        /\ t.at = IF e.part = "line" THEN "dump" ELSE "read"
        /\ s.at = IF e.part = "line" THEN "lock" ELSE "dump"
  <2> DEFINE t == [s EXCEPT !.at = IF e.part = "line" THEN "dump" ELSE "read"]
  <2>1. t \in RelayRec /\ t.got = s.got /\ t.read = s.read
        /\ t.at = IF e.part = "line" THEN "dump" ELSE "read"
    BY DEF RelayRec
  <2>2. relay' = [relay EXCEPT ![r] = [relay[r] EXCEPT ![w] = t]]
    BY <1>1, <1>2 DEF Relaying!LogLine, Relaying!LogDump, Relaying!Goes, Relaying!Becomes
  <2>3. s.at = IF e.part = "line" THEN "lock" ELSE "dump"
    BY <1>1, <1>2 DEF Relaying!LogLine, Relaying!LogDump, Relaying!At
  <2>. QED  BY <2>1, <2>2, <2>3
<1>4. PICK m : m = (IF e.part = "line" THEN w ELSE Relaying!Free) /\ canlog' = [canlog EXCEPT ![r] = m]
  BY <1>2 DEF Relaying!LogLine, Relaying!LogDump
<1>5. ASSUME NEW q \in Relays, NEW v \in Relaying!Ways
      PROVE  relay'[q][v] = IF q = r /\ v = w THEN t ELSE relay[q][v]
  BY <1>0, <1>3 DEF RelayTypeOK
<1>6. \A q \in Relays : canlog'[q] = IF q = r THEN m ELSE canlog[q]
  BY <1>0, <1>4 DEF RelayTypeOK
<1>7. canlog[r] = IF e.part = "line" THEN Relaying!Free ELSE w
  <2>1. CASE e.part = "line"
    BY <1>2, <2>1 DEF Relaying!LogLine, Relaying!MayLog
  <2>2. CASE e.part = "dump"
    BY <1>2, <2>2 DEF Relaying!LogDump, RelayInv, MutexOK
  <2>. QED  BY <1>2, <2>1, <2>2
<1>8. PICK n : n = Len(log)
  OBVIOUS
<1>9. /\ DOMAIN log = 1..n /\ DOMAIN log' = 1..(n + 1) /\ n \in Nat
      /\ \A i \in DOMAIN log : log'[i] = log[i]
      /\ log'[n + 1] = e
  BY <1>0, <1>2, <1>8, Appended
<1>10. \A q, i : LastOf(q, i)' <=> IF q = r THEN i = n + 1 ELSE LastOf(q, i)
  BY <1>0, <1>2, <1>8, NewEntry
<1>11. RelayTypeOK'
  <2>1. relay' \in [Relays -> [Relaying!Ways -> RelayRec]]
    BY <1>0, <1>3 DEF RelayTypeOK
  <2>2. canlog' \in [Relays -> Relaying!Ways \cup {Relaying!Free}]
    BY <1>0, <1>4 DEF RelayTypeOK
  <2>3. log' \in Seq(LogEntry)
    BY <1>0, <1>2, Appended
  <2>. QED  BY <2>1, <2>2, <2>3 DEF RelayTypeOK
<1>12. OffOK'
  <2>1. \A q \in Relays \ {r} : relay'[q] = relay[q]
    BY <1>0, <1>3 DEF RelayTypeOK
  <2>2. "out" \in Relaying!Ways
    BY DEF Relaying!Ways
  <2>3. ~Relaying!At(r, "out", "off")
    BY <1>1, <1>3 DEF RelayInv, OffOK, Relaying!At, Relaying!Off
  <2>4. ~Relaying!At(r, "out", "off")'
    BY <1>3, <1>5, <2>2, <2>3 DEF Relaying!At
  <2>. QED  BY <2>1, <2>4 DEF RelayInv, OffOK, Relaying!At
<1>13. MutexOK'
  <2> SUFFICES ASSUME NEW q \in Relays
               PROVE  /\ \A v \in Relaying!Ways : Relaying!At(q, v, "dump")' <=> canlog'[q] = v
                      /\ \A i \in DOMAIN log' : LastOf(q, i)' =>
                           IF canlog'[q] = Relaying!Free THEN log'[i].part = "dump"
                           ELSE log'[i] = Relaying!Entry(q, canlog[q], "line")'
                      /\ canlog'[q] # Relaying!Free => \E i \in DOMAIN log' : LastOf(q, i)'
    BY DEF MutexOK
  <2>1. CASE q = r
    <3>1. ASSUME NEW v \in Relaying!Ways
          PROVE  Relaying!At(r, v, "dump")' <=> canlog'[r] = v
      <4>1. Relaying!At(r, v, "dump") <=> canlog[r] = v
        BY DEF RelayInv, MutexOK
      <4>2. v # Relaying!Free
        BY DEF Relaying!Ways, Relaying!Free
      <4>. QED  BY <1>0, <1>2, <1>3, <1>4, <1>5, <1>6, <1>7, <4>1, <4>2 DEF Relaying!At
    <3>2. ASSUME e.part = "line"
          PROVE  e = Relaying!Entry(r, canlog[r], "line")'
      <4>1. canlog'[r] = w
        BY <1>4, <1>6, <3>2
      <4>2. relay'[r][w].read = s.read
        BY <1>3, <1>5
      <4>. QED  BY <1>1, <1>2, <3>2, <4>1, <4>2 DEF Relaying!Entry
    <3>3. canlog'[r] = Relaying!Free <=> e.part = "dump"
      BY <1>0, <1>2, <1>4, <1>6
    <3>. QED  BY <1>2, <1>9, <1>10, <2>1, <3>1, <3>2, <3>3
  <2>2. CASE q # r
    <3>1. \A v \in Relaying!Ways : relay'[q][v] = relay[q][v]
      BY <1>5, <2>2
    <3>2. canlog'[q] = canlog[q] /\ canlog[q] \in Relaying!Ways \cup {Relaying!Free}
      BY <1>0, <1>6, <2>2 DEF RelayTypeOK
    <3>3. \A v \in Relaying!Ways : Relaying!At(q, v, "dump")' <=> canlog'[q] = v
      BY <3>1, <3>2 DEF RelayInv, MutexOK, Relaying!At
    <3>4. canlog[q] # Relaying!Free
            => Relaying!Entry(q, canlog[q], "line")' = Relaying!Entry(q, canlog[q], "line")
      BY <3>1, <3>2 DEF Relaying!Entry
    <3>5. \A i : LastOf(q, i) => i \in DOMAIN log
      BY DEF LastOf
    <3>6. DOMAIN log \subseteq DOMAIN log'
      BY <1>9
    <3>. QED  BY <1>9, <1>10, <2>2, <3>2, <3>3, <3>4, <3>5, <3>6 DEF RelayInv, MutexOK
  <2>. QED  BY <2>1, <2>2
<1>14. ToldOK'
  <2> SUFFICES ASSUME NEW q \in Relays, NEW v \in Relaying!Ways
               PROVE  Told(relay'[q][v], Relaying!Count(Len(log), q, v)')
    BY DEF ToldOK
  <2>1. Told(relay[q][v], Relaying!Count(n, q, v)) /\ Relaying!Count(n, q, v) \in Nat
    BY <1>8, <1>9, LinesFinite DEF RelayInv, ToldOK
  <2>2. Relaying!Count(Len(log), q, v)'
          = Relaying!Count(n, q, v)
            + IF e.relay = q /\ e.way = v /\ e.part = "line" THEN 1 ELSE 0
    BY <1>0, <1>2, <1>8, NewCounts
  <2>3. CASE q = r /\ v = w
    <3>1. PICK c \in Nat : c = Relaying!Count(n, q, v) /\ Told(s, c)
      BY <1>1, <2>1, <2>3
    <3>2. PICK g \in Seq(Nat) : g = s.got
      BY DEF RelayRec
    <3>3. CASE e.part = "line"
      <4>1. c = Len(g) - 1 /\ Len(g) \in Nat /\ t.at = "dump" /\ t.got = g
        BY <1>3, <3>1, <3>2, <3>3 DEF Told
      <4>2. Told(t, c + 1)
        BY <4>1 DEF Told
      <4>. QED  BY <1>2, <1>5, <2>2, <2>3, <3>1, <3>3, <4>2
    <3>4. CASE e.part = "dump"
      <4>1. c = Len(g) /\ Len(g) \in Nat /\ t.at = "read" /\ t.got = g
        BY <1>3, <3>1, <3>2, <3>4 DEF Told
      <4>2. Told(t, c)
        BY <4>1 DEF Told
      <4>. QED  BY <1>2, <1>5, <2>2, <2>3, <3>1, <3>4, <4>2
    <3>. QED  BY <1>2, <3>3, <3>4
  <2>4. CASE ~(q = r /\ v = w)
    <3>1. Relaying!Count(Len(log), q, v)' = Relaying!Count(n, q, v)
      BY <1>2, <2>1, <2>2, <2>4
    <3>. QED  BY <1>5, <2>1, <2>4, <3>1
  <2>. QED  BY <2>3, <2>4
<1>15. Relaying!LinesHaveDumps'
  <2>1. e.part = "dump" => \E i \in DOMAIN log : LastOf(r, i)
    BY <1>0, <1>7 DEF RelayInv, MutexOK
  <2>2. ASSUME NEW i \in DOMAIN log, LastOf(r, i)
        PROVE  IF log[i].part = "line" THEN e = [log[i] EXCEPT !.part = "dump"]
                                       ELSE e.part = "line"
    <3>1. CASE e.part = "line"
      <4>1. log[i].part = "dump"
        BY <1>7, <2>2, <3>1 DEF RelayInv, MutexOK
      <4>. QED  BY <3>1, <4>1
    <3>2. CASE e.part = "dump"
      <4>1. log[i] = Relaying!Entry(r, w, "line")
        BY <1>0, <1>7, <2>2, <3>2 DEF RelayInv, MutexOK
      <4>2. e = Relaying!Entry(r, w, "dump")
        BY <1>2, <3>2
      <4>. QED  BY <4>1, <4>2 DEF Relaying!Entry
    <3>. QED  BY <1>2, <3>1, <3>2
  <2>. QED  BY <1>0, <1>2, <2>1, <2>2, DumpsFollow DEF RelayInv, LogReads, Relaying!LogReads
<1>16. Relaying!LinesTellPieces'
  <2>1. ASSUME NEW q \in Relays, NEW v \in Relaying!Ways
        PROVE  relay'[q][v].got = relay[q][v].got
    BY <1>1, <1>3, <1>5
  <2> SUFFICES ASSUME NEW j \in DOMAIN log', log'[j].part = "line"
               PROVE  Relaying!Tells(j, Relaying!Count(j, log[j].relay, log[j].way),
                                     relay[log[j].relay][log[j].way].got)'
    BY DEF Relaying!LinesTellPieces
  <2>2. CASE j \in DOMAIN log
    <3>1. PICK q \in Relays, v \in Relaying!Ways : q = log[j].relay /\ v = log[j].way
      <4>1. log[j] \in LogEntry
        BY <1>0, <2>2
      <4>. QED  BY <4>1 DEF LogEntry
    <3>2. Relaying!Count(j, q, v)' = Relaying!Count(j, q, v)
      <4>1. Relaying!Lines(j, q, v)' = Relaying!Lines(j, q, v)
        BY <1>0, <1>2, <2>2, OldEntries
      <4>. QED  BY <4>1, CountIs
    <3>3. Relaying!Tells(j, Relaying!Count(j, q, v), relay[q][v].got)
      <4>1. Relaying!LinesTellPieces /\ log[j].part = "line"
        BY <1>9, <2>2 DEF RelayInv, LogReads, Relaying!LogReads
      <4>. QED  BY <2>2, <3>1, <4>1 DEF Relaying!LinesTellPieces
    <3>4. log'[j] = log[j]
      BY <1>9, <2>2
    <3>5. Relaying!Count(j, log[j].relay, log[j].way)' = Relaying!Count(j, q, v)'
      BY <3>1, <3>4 DEF Relaying!Count, Relaying!Lines
    <3>. QED  BY <2>1, <3>1, <3>2, <3>3, <3>4, <3>5 DEF Relaying!Tells
  <2>3. CASE j = n + 1
    <3>1. e.part = "line" /\ log'[j] = e
      BY <1>9, <2>3
    <3>2. PICK c \in Nat : c = Relaying!Count(n, r, w) /\ Told(s, c)
      BY <1>1, <1>8, <1>9, LinesFinite DEF RelayInv, ToldOK
    <3>3. Relaying!Count(n + 1, r, w)' = c + 1
      BY <1>0, <1>2, <1>8, <3>1, <3>2, NewCount
    <3>4. PICK g \in Seq(Nat) : g = s.got
      BY DEF RelayRec
    <3>5. c + 1 = Len(g) /\ g[c + 1] = s.read
      BY <1>3, <3>1, <3>2, <3>4 DEF Told
    <3>6. relay'[r][w].got = g
      BY <1>3, <1>5, <3>4
    <3>7. Relaying!Count(j, log[j].relay, log[j].way)' = Relaying!Count(n + 1, r, w)'
      BY <1>2, <2>3, <3>1 DEF Relaying!Count, Relaying!Lines
    <3>8. c + 1 <= Len(g) /\ e.piece = g[c + 1]
      BY <1>2, <3>5
    <3>. QED  BY <1>2, <2>3, <3>1, <3>3, <3>6, <3>7, <3>8 DEF Relaying!Tells
  <2>. QED  BY <1>9, <2>2, <2>3
<1>. QED
  BY <1>11, <1>12, <1>13, <1>14, <1>15, <1>16 DEF RelayInv, LogReads, Relaying!LogReads

LEMMA RelayStepKeeps == RelayInv /\ [Relaying!Next]_(Relaying!vars) => RelayInv'
<1> SUFFICES ASSUME RelayInv, [Relaying!Next]_(Relaying!vars) PROVE RelayInv'
  OBVIOUS
<1>1. CASE UNCHANGED Relaying!vars
  <2>1. relay' = relay /\ canlog' = canlog /\ log' = log
    BY <1>1 DEF Relaying!vars
  <2>2. RelayTypeOK' /\ OffOK'
    BY <2>1 DEF RelayInv, RelayTypeOK, OffOK, Relaying!At
  <2>. QED  BY <2>1, <2>2, QuietSame, QuietKeeps
<1>2. CASE Relaying!Next
  <2>1. PICK r \in Relays :
          \/ Relaying!Accept(r)
          \/ \E w \in Relaying!Ways :
               \/ Relaying!SendPiece(r, w) \/ Relaying!EndStream(r, w) \/ Relaying!ReceiverGoes(r, w)
               \/ Relaying!ReadPiece(r, w) \/ Relaying!ReadLast(r, w)
               \/ Relaying!ReadEnd(r, w) \/ Relaying!WritePiece(r, w)
               \/ Relaying!WriteFails(r, w) \/ Relaying!LogLine(r, w) \/ Relaying!LogDump(r, w)
    BY <1>2 DEF Relaying!Next
  <2>2. CASE \E w \in Relaying!Ways : Relaying!ReadEnd(r, w)
    BY <1>1, <2>2 DEF Relaying!ReadEnd
  <2>3. CASE \E w \in Relaying!Ways : Relaying!LogLine(r, w) \/ Relaying!LogDump(r, w)
    BY <2>3, LogSteps
  <2>. QED  BY <2>1, <2>2, <2>3, QuietSteps
<1>. QED  BY <1>1, <1>2

LEMMA RelayInitInv == Relaying!Init => RelayInv
<1> SUFFICES ASSUME Relaying!Init PROVE RelayInv
  OBVIOUS
<1>1. /\ relay = [r \in Relays |-> [w \in Relaying!Ways |-> Relaying!Off]]
      /\ canlog = [r \in Relays |-> Relaying!Free] /\ log = <<>> /\ DOMAIN log = {} /\ Len(log) = 0
  BY DEF Relaying!Init
<1>2. RelayTypeOK
  <2>1. Relaying!Off \in RelayRec
    BY DEF Relaying!Off, RelayRec
  <2>. QED  BY <1>1, <2>1 DEF RelayTypeOK
<1>3. OffOK
  BY <1>1 DEF OffOK
<1>4. MutexOK
  BY <1>1 DEF MutexOK, Relaying!At, Relaying!Off, Relaying!Ways, Relaying!Free
<1>5. ToldOK
  <2> SUFFICES ASSUME NEW r \in Relays, NEW w \in Relaying!Ways
               PROVE  Told(relay[r][w], Relaying!Count(Len(log), r, w))
    BY DEF ToldOK
  <2>1. Relaying!Lines(Len(log), r, w) = {}
    BY <1>1 DEF Relaying!Lines
  <2>2. Relaying!Count(Len(log), r, w) = 0
    BY <2>1, CountIs, FS_EmptySet
  <2>. QED  BY <1>1, <2>2 DEF Told, Relaying!Off
<1>6. LogReads
  BY <1>1 DEF LogReads, Relaying!LogReads, Relaying!LinesHaveDumps, Relaying!LinesTellPieces
<1>. QED  BY <1>2, <1>3, <1>4, <1>5, <1>6 DEF RelayInv

-----------------------------------------------------------------------------
(* The theorems *)

(* A step of the instance is one of the program or leaves it alone.        *)
LEMMA ToolsSteps ==
  [ToolsNext]_toolVars => /\ [Pool!Next]_(Pool!vars)
                          /\ [Proxying!Next]_(Proxying!vars)
                          /\ [Scanning!Next]_(Scanning!vars)
                          /\ [Relaying!Next]_(Relaying!vars)
<1> SUFFICES ASSUME [ToolsNext]_toolVars
             PROVE  /\ [Pool!Next]_(Pool!vars)
                    /\ [Proxying!Next]_(Proxying!vars)
                    /\ [Scanning!Next]_(Scanning!vars)
                    /\ [Relaying!Next]_(Relaying!vars)
  OBVIOUS
<1> USE DEF Pool!vars, Proxying!vars, Scanning!vars, Relaying!vars,
            poolVars, proxyVars, slopVars, replugVars, toolVars
<1>1. CASE UNCHANGED toolVars
  BY <1>1
<1>2. CASE PolicyStep
  BY <1>2 DEF PolicyStep
<1>3. CASE PoolStep
  BY <1>3 DEF PoolStep
<1>4. CASE ProxyStep
  BY <1>4 DEF ProxyStep
<1>5. CASE SlopStep(Scanning!Next)
  BY <1>5 DEF SlopStep
<1>6. CASE ReplugStep
  BY <1>6 DEF ReplugStep
<1>. QED  BY <1>1, <1>2, <1>3, <1>4, <1>5, <1>6 DEF ToolsNext

LEMMA ToolsInits ==
  ToolsInit => Pool!Init /\ Proxying!Init /\ Scanning!Init /\ Relaying!Init
BY DEF ToolsInit

(* No connection has two users, none that is idle is in use, and none that *)
(* is idle has an error: for any users and limits of the pool.             *)
THEOREM AlwaysHeldOnce == ToolsSpec => []HeldOnce
<1>1. PoolInv => HeldOnce
  BY DEF PoolInv, HeldOnce
<1>2. ToolsInit => PoolInv
  BY ToolsInits, PoolInitInv
<1>3. PoolInv /\ [ToolsNext]_toolVars => PoolInv'
  BY ToolsSteps, PoolStepKeeps
<1>. QED  BY <1>1, <1>2, <1>3, PTL DEF ToolsSpec

(* A Do that returns a reply returns the one to its own command, whatever  *)
(* conversation the connection was left in by the user before.             *)
THEOREM DoAlwaysGetsItsReply == ToolsSpec => []DoGetsItsReply
<1>1. PoolInv => DoGetsItsReply
  BY DEF PoolInv, DoGetsItsReply
<1>2. ToolsInit => PoolInv
  BY ToolsInits, PoolInitInv
<1>3. PoolInv /\ [ToolsNext]_toolVars => PoolInv'
  BY ToolsSteps, PoolStepKeeps
<1>. QED  BY <1>1, <1>2, <1>3, PTL DEF ToolsSpec

(* A client of the proxy is shown the certificate of a host again: once    *)
(* the files are a pair and nobody is at work on another, every Lookup     *)
(* returns that pair and the files stay, through any connections, lost     *)
(* updates of the map and restarts, until a file cannot be read.           *)
THEOREM CertificateIsKept == ToolsSpec => CertificateStays
<1>1. ToolsInit => ProxyInv
  BY ToolsInits, ProxyInitInv
<1>2. ProxyInv /\ [ToolsNext]_toolVars => ProxyInv'
  BY ToolsSteps, ProxyStepKeeps
<1> DEFINE Kept(h) ==
      /\ files'[h] = files[h]
      /\ Proxying!Settled(h)' \/ \E c \in Conns : Proxying!SlurpFails(c) /\ Proxying!Host(c) = h
      /\ LET shown == files[h].key.of IN
         \A c \in Conns :
           ~ Proxying!At(c, "dial") /\ Proxying!At(c, "dial")' /\ Proxying!Host(c) = h =>
             conn'[c].cert = [host |-> h, key |-> shown, crt |-> shown]
<1>3. ProxyInv /\ [ToolsNext]_toolVars
        => [\A h \in Sites : Proxying!Settled(h) => Kept(h)]_(Proxying!vars)
  <2> SUFFICES ASSUME ProxyInv, Proxying!Next, NEW h \in Sites, Proxying!Settled(h)
               PROVE  Kept(h)
    BY ToolsSteps
  <2>. QED  BY CertificateStep DEF ShowsAll, Shows, ShownCert, Shown, Proxying!At
<1>. QED  BY <1>1, <1>2, <1>3, PTL DEF ToolsSpec, CertificateStays, Proxying!CertificateStays

(* The safety half of ScanIsComplete: slop does not end, by itself or by   *)
(* closing done twice, before every host has been tried, for any number of *)
(* workers and hosts, though the workers count themselves without          *)
(* synchronisation.                                                        *)
THEOREM TriedWhenOver == ToolsSpec => []Scanning!AllTried
<1>1. ToolsInit => SlopInv
  BY ToolsInits, SlopInitInv, SlopAssumption
<1>2. SlopInv /\ [ToolsNext]_toolVars => SlopInv'
  BY ToolsSteps, SlopStepKeeps, SlopAssumption
<1>3. SlopInv => Scanning!AllTried
  <2> SUFFICES ASSUME SlopInv, over # "no" PROVE tried = Scanning!Lines
    BY DEF Scanning!AllTried
  <2>1. Pending = {}
    BY DEF SlopInv, DoneOK
  <2>2. PICK w \in Workers : TRUE
    BY SlopAssumption DEF Scanning!SlopConstants
  <2>3. closed /\ sent = NHosts
    BY <2>1, <2>2 DEF SlopInv, SlopTypeOK, HandedOK, Pending, Places
  <2>. QED  BY <2>1, <2>3 DEF SlopInv, SlopTypeOK, HandedOK, Pending, Scanning!Lines
<1>. QED  BY <1>1, <1>2, <1>3, PTL DEF ToolsSpec

(* The log of the line relay can be read: of one connection a line and its *)
(* dump stay together, and of one way there are just the pieces that were  *)
(* passed on, in their order.  For any connections, though two goroutines  *)
(* of each write the log and receivers go away in the middle.              *)
THEOREM LogCanBeRead == ToolsSpec => []LogReads
<1>1. RelayInv => LogReads
  BY DEF RelayInv
<1>2. ToolsInit => RelayInv
  BY ToolsInits, RelayInitInv
<1>3. RelayInv /\ [ToolsNext]_toolVars => RelayInv'
  BY ToolsSteps, RelayStepKeeps
<1>. QED  BY <1>1, <1>2, <1>3, PTL DEF ToolsSpec
=============================================================================
