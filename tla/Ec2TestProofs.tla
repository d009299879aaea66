---------------------------- MODULE Ec2TestProofs ----------------------------
(***************************************************************************)
(* Proofs about Ec2Test: what the groups, permissions and instances of the *)
(* EC2 test server refer to exists, for any names, bounds and requests.    *)
(***************************************************************************)
EXTENDS Ec2Test, SequenceTheorems, TLAPS

Perms == [range : Ranges, source : [group : Nat, ip : Ips \cup {"none"}]]

GroupStruct == [name : Names, perms : SUBSET Perms]
Instance    == [state : States, reservation : Nat]

TypeOK ==
  /\ made \in Seq(GroupStruct)
  /\ groups \in SUBSET DOMAIN made
  /\ reservations \in Seq([groups : SUBSET Nat, instances : SUBSET Nat])
  /\ instances \in Seq(Instance)
  /\ initialInstanceState \in States

(* An instance is of a reservation that lists it, and of no other.         *)
Reserved ==
  /\ \A i \in DOMAIN instances :
       /\ instances[i].reservation \in DOMAIN reservations
       /\ i \in reservations[instances[i].reservation].instances
  /\ \A r \in DOMAIN reservations : \A i \in reservations[r].instances :
       i \in DOMAIN instances /\ instances[i].reservation = r

(* What group a permission of an existing group names exists.              *)
Granted ==
  \A g \in groups : \A p \in made[g].perms : p.source.group \in groups \cup {0}

NamesDiffer ==
  \A g \in groups, h \in groups : made[g].name = made[h].name => g = h

IInv == TypeOK /\ Reserved /\ Granted /\ NamesDiffer /\ PendingKeepGroups
-----------------------------------------------------------------------------
LEMMA InitIInv == Init => IInv
<1> SUFFICES ASSUME Init PROVE IInv
  OBVIOUS
<1> USE Ec2Assumption DEF Init
<1>1. TypeOK
  BY DEF TypeOK, Perms, OfGroup, States, GroupStruct
<1>2. Reserved /\ PendingKeepGroups
  BY DEF Reserved, PendingKeepGroups
<1>3. Granted /\ NamesDiffer
  BY DEF Granted, NamesDiffer, OfGroup
<1>. QED  BY <1>1, <1>2, <1>3 DEF IInv

LEMMA StutterKeeps == IInv /\ UNCHANGED vars => IInv'
  BY DEF IInv, TypeOK, Reserved, Granted, NamesDiffer, PendingKeepGroups, vars

(* A reservation more, of groups that exist.                               *)
LEMMA LaunchKeeps ==
  ASSUME IInv, NEW refs \in RefSets, NEW n \in Nat, NEW state \in States,
         Launch(Found(refs), n, state), UNCHANGED <<made, groups>>,
         initialInstanceState' \in States
  PROVE  IInv'
<1> DEFINE gs == Found(refs)
           r == Len(reservations) + 1
           from == Len(instances)
           new == [groups |-> gs, instances |-> from+1 .. from+n]
           more == [i \in 1..n |-> [state |-> state, reservation |-> r]]
<1> HIDE DEF gs
<1>t. TypeOK
  BY DEF IInv
<1>0. gs \subseteq groups /\ groups \subseteq DOMAIN made /\ DOMAIN made \subseteq Nat
  BY <1>t DEF gs, Found, Group, TypeOK
<1>1. reservations' = Append(reservations, new) /\ instances' = instances \o more
  BY DEF Launch, gs
<1>2. /\ r \in Nat /\ from \in Nat
      /\ new \in [groups : SUBSET Nat, instances : SUBSET Nat]
      /\ more \in Seq(Instance)
  <2>1. r \in Nat /\ from \in Nat
    BY <1>t DEF TypeOK
  <2>2. new \in [groups : SUBSET Nat, instances : SUBSET Nat]
    BY <1>0, <2>1
  <2>3. more \in Seq(Instance)
    BY <2>1 DEF Instance
  <2>. QED  BY <2>1, <2>2, <2>3
<1>3. TypeOK'
  BY <1>t, <1>1, <1>2 DEF TypeOK, Instance
<1>4. /\ DOMAIN reservations' = 1..r /\ DOMAIN reservations = 1..(r-1)
      /\ reservations'[r] = new
      /\ \A q \in 1..(r-1) : reservations'[q] = reservations[q]
  BY <1>t, <1>1, <1>2 DEF TypeOK
<1>5. /\ DOMAIN instances' = 1..(from+n) /\ DOMAIN instances = 1..from
      /\ \A i \in 1..from : instances'[i] = instances[i]
      /\ \A i \in (from+1)..(from+n) : instances'[i] = [state |-> state, reservation |-> r]
  <2>1. Len(more) = n /\ DOMAIN more = 1..n
    BY DEF more
  <2>2. Len(instances') = from + n
    BY <1>t, <1>1, <1>2, <2>1 DEF TypeOK
  <2>3. ASSUME NEW i \in 1..from PROVE instances'[i] = instances[i]
    BY <1>t, <1>1, <1>2, <2>1 DEF TypeOK
  <2>4. ASSUME NEW i \in (from+1)..(from+n)
        PROVE instances'[i] = [state |-> state, reservation |-> r]
    <3>1. i - from \in 1..n
      BY <1>2
    <3>2. instances'[i] = more[i - from]
      BY <1>t, <1>1, <1>2, <2>1, <2>4, <3>1 DEF TypeOK
    <3>. QED  BY <3>1, <3>2
  <2>. QED  BY <1>t, <1>3, <2>2, <2>3, <2>4 DEF TypeOK
<1>6. ASSUME NEW i \in DOMAIN instances'
      PROVE  /\ instances'[i].reservation \in DOMAIN reservations'
             /\ i \in reservations'[instances'[i].reservation].instances
             /\ instances'[i].state = "pending" =>
                  reservations'[instances'[i].reservation].groups \subseteq groups
  <2>1. CASE i \in 1..from
    <3>1. instances'[i] = instances[i] /\ i \in DOMAIN instances
      BY <1>5, <2>1
    <3>2. instances[i].reservation \in 1..(r-1) /\ i \in reservations[instances[i].reservation].instances
      BY <1>4, <3>1 DEF IInv, Reserved
    <3>3. instances[i].state = "pending" => reservations[instances[i].reservation].groups \subseteq groups
      BY <3>1 DEF IInv, PendingKeepGroups
    <3>4. instances[i].reservation \in 1..r /\ reservations'[instances[i].reservation] = reservations[instances[i].reservation]
      BY <1>2, <1>4, <3>2
    <3>. QED  BY <1>4, <3>1, <3>2, <3>3, <3>4
  <2>2. CASE i \in (from+1)..(from+n)
    <3>1. instances'[i].reservation = r /\ reservations'[r] = new /\ r \in 1..r
      BY <1>2, <1>4, <1>5, <2>2
    <3>. QED  BY <1>0, <1>4, <3>1, <2>2
  <2>. QED  BY <1>2, <1>5, <1>6, <2>1, <2>2
<1>7. ASSUME NEW q \in DOMAIN reservations', NEW i \in reservations'[q].instances
      PROVE  i \in DOMAIN instances' /\ instances'[i].reservation = q
  <2>1. CASE q \in 1..(r-1)
    <3>1. i \in reservations[q].instances /\ q \in DOMAIN reservations
      BY <1>4, <1>7, <2>1
    <3>2. i \in 1..from /\ instances[i].reservation = q
      BY <1>5, <3>1 DEF IInv, Reserved
    <3>. QED  BY <1>2, <1>5, <3>2
  <2>2. CASE q = r
    <3>1. i \in (from+1)..(from+n)
      BY <1>4, <1>7, <2>2
    <3>. QED  BY <1>2, <1>5, <2>2, <3>1
  <2>. QED  BY <1>2, <1>4, <2>1, <2>2
<1>8. Reserved' /\ PendingKeepGroups'
  BY <1>6, <1>7 DEF Reserved, PendingKeepGroups
<1>9. Granted' /\ NamesDiffer'
  BY DEF IInv, Granted, NamesDiffer
<1>. QED  BY <1>3, <1>8, <1>9 DEF IInv


(* What a form of permissions comes to is granted to groups that exist.    *)
LEMMA ParsedNamesGroups ==
  ASSUME TypeOK, NEW form \in Forms
  PROVE  /\ Parsed(form) \subseteq Perms
         /\ \A p \in Parsed(form) : p.source.group \in groups \cup {0}
<1>1. groups \subseteq Nat
  BY DEF TypeOK
<1>2. SUFFICES ASSUME NEW p \in Parsed(form)
               PROVE  p \in Perms /\ p.source.group \in groups \cup {0}
  OBVIOUS
<1>3. form \subseteq Asked
  BY DEF Forms, Plain
<1>4. CASE \E a \in form : /\ a.to.kind = "group"
                          /\ \E g \in Group(a.to.ref) : p = [range |-> a.range, source |-> OfGroup(g)]
  <2>1. PICK a \in form : /\ a.to.kind = "group"
                          /\ \E g \in Group(a.to.ref) : p = [range |-> a.range, source |-> OfGroup(g)]
    BY <1>4
  <2>2. PICK g \in Group(a.to.ref) : p = [range |-> a.range, source |-> OfGroup(g)]
    BY <2>1
  <2>3. g \in groups
    BY DEF Group
  <2>4. a.range \in Ranges
    BY <1>3 DEF Asked
  <2>. QED  BY <1>1, <2>2, <2>3, <2>4 DEF Perms, OfGroup
<1>5. CASE \E a \in form : a.to.kind = "ip" /\ p = [range |-> a.range, source |-> OfIp(a.to.ip)]
  <2>1. PICK a \in form : a.to.kind = "ip" /\ p = [range |-> a.range, source |-> OfIp(a.to.ip)]
    BY <1>5
  <2>2. a.range \in Ranges /\ a.to.ip \in Ips
    BY <1>3, <2>1 DEF Asked
  <2>. QED  BY <2>1, <2>2 DEF Perms, OfIp
<1>6. \/ p \in UNION {{[range |-> a.range, source |-> OfGroup(g)] : g \in Group(a.to.ref)}
                      : a \in {b \in form : b.to.kind = "group"}}
      \/ p \in {[range |-> a.range, source |-> OfIp(a.to.ip)] : a \in {b \in form : b.to.kind = "ip"}}
  BY <1>2 DEF Parsed
<1>7. CASE p \in UNION {{[range |-> a.range, source |-> OfGroup(g)] : g \in Group(a.to.ref)}
                       : a \in {b \in form : b.to.kind = "group"}}
  <2>1. PICK a \in form : /\ a.to.kind = "group"
                          /\ p \in {[range |-> a.range, source |-> OfGroup(g)] : g \in Group(a.to.ref)}
    BY <1>7
  <2>. QED  BY <1>4, <2>1
<1>. QED  BY <1>2, <1>5, <1>6, <1>7

(* More permissions, of groups that exist, or fewer.                       *)
LEMMA PermsKeep ==
  ASSUME IInv, NEW g \in groups, NEW now \in SUBSET Perms,
         \A p \in now : p \in made[g].perms \/ p.source.group \in groups \cup {0},
         made' = [made EXCEPT ![g].perms = now],
         UNCHANGED <<groups, reservations, instances, initialInstanceState>>
  PROVE  IInv'
<1>1. TypeOK /\ g \in DOMAIN made
  BY DEF IInv, TypeOK
<1>2. /\ made' \in Seq(GroupStruct)
      /\ DOMAIN made' = DOMAIN made
      /\ made'[g].perms = now
      /\ \A h \in DOMAIN made : made'[h].name = made[h].name /\ (h # g => made'[h] = made[h])
  <2>1. made[g] \in GroupStruct
    BY <1>1, ElementOfSeq DEF TypeOK
  <2>2. made' = [made EXCEPT ![g] = [made[g] EXCEPT !.perms = now]]
    OBVIOUS
  <2>3. [made[g] EXCEPT !.perms = now] = [name |-> made[g].name, perms |-> now]
    BY <2>1 DEF GroupStruct
  <2>4. made' \in Seq(GroupStruct)
    BY <1>1, <2>1, <2>2, <2>3 DEF TypeOK, GroupStruct
  <2>5. DOMAIN made' = DOMAIN made /\ made'[g] = [name |-> made[g].name, perms |-> now]
    BY <1>1, <2>2, <2>3
  <2>6. \A h \in DOMAIN made : h # g => made'[h] = made[h]
    BY <2>2
  <2>. QED  BY <2>4, <2>5, <2>6
<1>3. TypeOK'
  BY <1>1, <1>2 DEF TypeOK
<1>4. Granted'
  <2> SUFFICES ASSUME NEW h \in groups, NEW p \in made'[h].perms
               PROVE  p.source.group \in groups \cup {0}
    BY DEF Granted
  <2>1. CASE h = g
    BY <1>2, <2>1 DEF IInv, Granted
  <2>2. CASE h # g
    BY <1>1, <1>2, <2>2 DEF IInv, Granted, TypeOK
  <2>. QED  BY <2>1, <2>2
<1>5. NamesDiffer'
  BY <1>1, <1>2 DEF IInv, NamesDiffer, TypeOK
<1>6. Reserved' /\ PendingKeepGroups'
  BY DEF IInv, Reserved, PendingKeepGroups
<1>. QED  BY <1>3, <1>4, <1>5, <1>6 DEF IInv

LEMMA AuthorizeKeeps == IInv /\ AuthorizeSecurityGroupIngress => IInv'
<1> SUFFICES ASSUME IInv, NEW ref \in Refs, NEW form \in Forms, NEW g \in Group(ref),
                    made' = [made EXCEPT ![g].perms = @ \cup Parsed(form)],
                    UNCHANGED <<groups, reservations, instances, initialInstanceState>>
             PROVE  IInv'
  BY StutterKeeps DEF AuthorizeSecurityGroupIngress, Refuse
<1> DEFINE now == made[g].perms \cup Parsed(form)
<1>1. TypeOK /\ g \in groups /\ g \in DOMAIN made
  BY DEF IInv, TypeOK, Group
<1>2. /\ Parsed(form) \subseteq Perms
      /\ \A p \in Parsed(form) : p.source.group \in groups \cup {0}
  BY <1>1, ParsedNamesGroups
<1>3. now \in SUBSET Perms
  <2>1. made[g] \in GroupStruct
    BY <1>1, ElementOfSeq DEF TypeOK
  <2>. QED  BY <1>2, <2>1 DEF GroupStruct
<1>4. made' = [made EXCEPT ![g].perms = now]
  OBVIOUS
<1>5. \A p \in now : p \in made[g].perms \/ p.source.group \in groups \cup {0}
  BY <1>2
<1> HIDE DEF now
<1>. QED  BY <1>1, <1>3, <1>4, <1>5, PermsKeep

LEMMA RevokeKeeps == IInv /\ RevokeSecurityGroupIngress => IInv'
<1> SUFFICES ASSUME IInv, NEW ref \in Refs, NEW form \in Forms, NEW g \in Group(ref),
                    made' = [made EXCEPT ![g].perms = @ \ Parsed(form)],
                    UNCHANGED <<groups, reservations, instances, initialInstanceState>>
             PROVE  IInv'
  BY StutterKeeps DEF RevokeSecurityGroupIngress, Refuse
<1> DEFINE now == made[g].perms \ Parsed(form)
<1>1. TypeOK /\ g \in groups /\ g \in DOMAIN made
  BY DEF IInv, TypeOK, Group
<1>2. now \in SUBSET Perms
  <2>1. made[g] \in GroupStruct
    BY <1>1, ElementOfSeq DEF TypeOK
  <2>. QED  BY <2>1 DEF GroupStruct
<1>3. made' = [made EXCEPT ![g].perms = now]
  OBVIOUS
<1>. QED  BY <1>1, <1>2, <1>3, PermsKeep

LEMMA CreateKeeps == IInv /\ CreateSecurityGroup => IInv'
<1> SUFFICES ASSUME IInv, NEW name \in Names,
                    Group([by |-> "name", name |-> name]) = {},
                    made' = Append(made, [name |-> name, perms |-> {}]),
                    groups' = groups \cup {Len(made) + 1},
                    UNCHANGED <<reservations, instances, initialInstanceState>>
             PROVE  IInv'
  BY StutterKeeps DEF CreateSecurityGroup, Refuse
<1> DEFINE g == Len(made) + 1
<1>1. TypeOK
  BY DEF IInv
<1>2. /\ made' \in Seq(GroupStruct)
      /\ DOMAIN made' = 1..g /\ DOMAIN made = 1..(g-1) /\ g \in Nat
      /\ made'[g].name = name /\ made'[g].perms = {}
      /\ \A h \in 1..(g-1) : made'[h] = made[h]
  BY <1>1 DEF TypeOK, GroupStruct
<1>3. groups \subseteq 1..(g-1) /\ g \notin groups
  BY <1>1, <1>2 DEF TypeOK
<1>4. TypeOK'
  BY <1>1, <1>2, <1>3 DEF TypeOK
<1>5. \A h \in groups : made[h].name # name
  BY DEF Group
<1>6. Granted' /\ NamesDiffer'
  BY <1>2, <1>3, <1>5 DEF IInv, Granted, NamesDiffer
<1>7. Reserved' /\ PendingKeepGroups'
  BY DEF IInv, Reserved, PendingKeepGroups
<1>. QED  BY <1>4, <1>6, <1>7 DEF IInv

(* Nobody is left who refers to the group that is deleted.                 *)
LEMMA DeleteKeeps == IInv /\ DeleteSecurityGroup => IInv'
<1> SUFFICES ASSUME IInv, NEW ref \in Refs, NEW g \in Group(ref),
                    ~ InUse(g), ~ GrantedElsewhere(g), groups' = groups \ {g},
                    UNCHANGED <<made, reservations, instances, initialInstanceState>>
             PROVE  IInv'
  BY StutterKeeps DEF DeleteSecurityGroup, Refuse
<1>1. TypeOK' /\ Reserved' /\ NamesDiffer'
  BY DEF IInv, TypeOK, Reserved, NamesDiffer
<1>2. Granted'
  BY DEF IInv, Granted, GrantedElsewhere
<1>3. PendingKeepGroups'
  <2> SUFFICES ASSUME NEW i \in DOMAIN instances, instances[i].state = "pending"
               PROVE  reservations[instances[i].reservation].groups \subseteq groups \ {g}
    BY DEF PendingKeepGroups
  <2> DEFINE r == instances[i].reservation
  <2>1. r \in DOMAIN reservations /\ i \in reservations[r].instances
    BY DEF IInv, Reserved
  <2>2. HasRunningMachine(r)
    BY <2>1 DEF HasRunningMachine, Code
  <2>3. g \notin reservations[r].groups
    BY <2>1, <2>2 DEF InUse
  <2>. QED  BY <2>3 DEF IInv, PendingKeepGroups
<1>. QED  BY <1>1, <1>2, <1>3 DEF IInv

LEMMA TerminateKeeps == IInv /\ TerminateInstances => IInv'
<1> SUFFICES ASSUME IInv, NEW ids \in SUBSET DOMAIN instances,
                    instances' = [i \in DOMAIN instances |->
                      IF i \in ids THEN [instances[i] EXCEPT !.state = "shutting-down"] ELSE instances[i]],
                    UNCHANGED <<made, groups, reservations, initialInstanceState>>
             PROVE  IInv'
  BY StutterKeeps DEF TerminateInstances, Refuse
<1>1. TypeOK
  BY DEF IInv
<1>2. /\ DOMAIN instances' = DOMAIN instances
      /\ \A i \in DOMAIN instances :
           /\ instances'[i] \in Instance
           /\ instances'[i].reservation = instances[i].reservation
           /\ instances'[i].state = "pending" => instances[i].state = "pending"
  <2> SUFFICES ASSUME NEW i \in DOMAIN instances
               PROVE  /\ instances'[i] \in Instance
                      /\ instances'[i].reservation = instances[i].reservation
                      /\ instances'[i].state = "pending" => instances[i].state = "pending"
    OBVIOUS
  <2>1. instances[i] \in Instance
    BY <1>1, ElementOfSeq DEF TypeOK
  <2>2. [instances[i] EXCEPT !.state = "shutting-down"]
          = [state |-> "shutting-down", reservation |-> instances[i].reservation]
    BY <2>1 DEF Instance
  <2>3. instances'[i] = IF i \in ids THEN [state |-> "shutting-down", reservation |-> instances[i].reservation]
                                     ELSE instances[i]
    BY <2>2
  <2>. QED  BY <2>1, <2>3 DEF States, Instance
<1>3. instances' \in Seq(Instance)
  <2>1. DOMAIN instances = 1..Len(instances) /\ Len(instances) \in Nat
    BY <1>1 DEF TypeOK
  <2>. QED  BY <1>2, <2>1
<1>4. TypeOK'
  BY <1>1, <1>3 DEF TypeOK
<1>5. Reserved' /\ PendingKeepGroups'
  BY <1>2 DEF IInv, Reserved, PendingKeepGroups
<1>6. Granted' /\ NamesDiffer'
  BY DEF IInv, Granted, NamesDiffer
<1>. QED  BY <1>4, <1>5, <1>6 DEF IInv

LEMMA RunKeeps == IInv /\ RunInstances => IInv'
<1> SUFFICES ASSUME IInv, NEW max \in 0..MaxCount, NEW refs \in RefSets,
                    Launch(Found(refs), max, initialInstanceState),
                    UNCHANGED <<made, groups, initialInstanceState>>
             PROVE  IInv'
  BY StutterKeeps DEF RunInstances, Refuse
<1>1. max \in Nat /\ initialInstanceState \in States /\ initialInstanceState' \in States
  BY Ec2Assumption DEF IInv, TypeOK
<1>. QED  BY <1>1, LaunchKeeps

LEMMA NewInstancesKeep == IInv /\ NewInstances => IInv'
<1> SUFFICES ASSUME IInv, NEW n \in 0..MaxCount, NEW state \in Started, NEW refs \in RefSets,
                    Launch(Found(refs), n, state),
                    UNCHANGED <<made, groups, initialInstanceState>>
             PROVE  IInv'
  BY StutterKeeps DEF NewInstances, Refuse
<1>1. n \in Nat /\ state \in States /\ initialInstanceState' \in States
  BY Ec2Assumption DEF IInv, TypeOK
<1>. QED  BY <1>1, LaunchKeeps

LEMMA SetInitialKeeps == IInv /\ SetInitialInstanceState => IInv'
<1> SUFFICES ASSUME IInv, NEW state \in Started, initialInstanceState' = state,
                    UNCHANGED <<made, groups, reservations, instances>>
             PROVE  IInv'
  BY DEF SetInitialInstanceState
<1>1. TypeOK'
  BY Ec2Assumption DEF IInv, TypeOK
<1>. QED  BY <1>1 DEF IInv, Reserved, Granted, NamesDiffer, PendingKeepGroups

LEMMA StepKeeps == IInv /\ [Next]_vars => IInv'
<1> SUFFICES ASSUME IInv, [Next]_vars PROVE IInv'
  OBVIOUS
<1>1. CASE Unrecognized \/ UNCHANGED vars
  BY <1>1, StutterKeeps DEF Unrecognized, Refuse
<1>. QED  BY <1>1, RunKeeps, NewInstancesKeep, SetInitialKeeps, TerminateKeeps, CreateKeeps,
             DeleteKeeps, AuthorizeKeeps, RevokeKeeps DEF Next

THEOREM Inductive == Spec => []IInv
<1>. QED  BY InitIInv, StepKeeps, PTL DEF Spec

(* No permission of a group that exists names a group that does not:       *)
(* deleteSecurityGroup looks at every other group, and parsePerms resolves *)
(* what it is given.                                                       *)
THEOREM SourcesAlwaysExist == Spec => []SourcesExist
<1>1. IInv => SourcesExist
  <2> SUFFICES ASSUME IInv, NEW g \in groups, NEW p \in Ec2Perms(g)
               PROVE  p.groups \subseteq groups
    BY DEF SourcesExist
  <2>1. p.groups = {q.source.group : q \in {q \in made[g].perms : q.range = p.range /\ q.source.group # 0}}
    BY DEF Ec2Perms
  <2>. QED  BY <2>1 DEF IInv, Granted
<1>. QED  BY <1>1, Inductive, PTL

(* A pending instance keeps the groups it was launched into.               *)
THEOREM PendingAlwaysKeep == Spec => []PendingKeepGroups
<1>1. IInv => PendingKeepGroups
  BY DEF IInv
<1>. QED  BY <1>1, Inductive, PTL

(* What the two Describe handlers show, of one group.                      *)
LEMMA MachinesShown ==
  ASSUME IInv, NEW g \in groups
  PROVE  /\ InUse(g) => DescribeInstances({}, InstancesIn(g, {"pending", "running"})) # {}
         /\ DescribeInstances({}, InstancesIn(g, {"pending"})) # {} => InUse(g)
<1> DEFINE Shown(i, states) == /\ g \in reservations[instances[i].reservation].groups
                               /\ instances[i].state \in states
<1>1. ASSUME NEW states
      PROVE  DescribeInstances({}, InstancesIn(g, states)) = {i \in DOMAIN instances : Shown(i, states)}
  <2> DEFINE filter == InstancesIn(g, states)
  <2>1. /\ DOMAIN filter = {"group-id", "instance-state-name"}
        /\ filter["group-id"] = {g} /\ filter["instance-state-name"] = states
    BY DEF InstancesIn
  <2> HIDE DEF filter
  <2>2. ASSUME NEW i \in DOMAIN instances
        PROVE  (\A attr \in DOMAIN filter : \E v \in filter[attr] : MatchInstance(i, attr, v))
                 <=> Shown(i, states)
    <3>1. MatchInstance(i, "group-id", g) <=> g \in reservations[instances[i].reservation].groups
      BY DEF MatchInstance
    <3>2. \A v : MatchInstance(i, "instance-state-name", v) <=> instances[i].state = v
      BY DEF MatchInstance
    <3>. QED  BY <2>1, <3>1, <3>2
  <2>3. DescribeInstances({}, filter) = {i \in DOMAIN instances : Shown(i, states)}
    BY <2>2 DEF DescribeInstances
  <2>. QED  BY <2>3 DEF filter
<1>2. ASSUME InUse(g) PROVE \E i \in DOMAIN instances : Shown(i, {"pending", "running"})
  <2>1. PICK r \in DOMAIN reservations : g \in reservations[r].groups /\ HasRunningMachine(r)
    BY <1>2 DEF InUse
  <2>2. PICK i \in reservations[r].instances : Code(instances[i].state) \notin {Code("shutting-down"), Code("terminated")}
    BY <2>1 DEF HasRunningMachine
  <2>3. instances[i].state = "pending"
    BY <2>2 DEF Code
  <2>4. i \in DOMAIN instances /\ instances[i].reservation = r
    BY <2>1, <2>2 DEF IInv, Reserved
  <2>. QED  BY <2>1, <2>3, <2>4
<1>3. ASSUME NEW i \in DOMAIN instances, Shown(i, {"pending"}) PROVE InUse(g)
  <2>1. /\ instances[i].reservation \in DOMAIN reservations
        /\ i \in reservations[instances[i].reservation].instances
    BY DEF IInv, Reserved
  <2>2. HasRunningMachine(instances[i].reservation)
    BY <1>3, <2>1 DEF HasRunningMachine, Code
  <2>. QED  BY <1>3, <2>1, <2>2 DEF InUse
<1>4. InUse(g) => DescribeInstances({}, InstancesIn(g, {"pending", "running"})) # {}
  BY <1>1, <1>2
<1>5. DescribeInstances({}, InstancesIn(g, {"pending"})) # {} => InUse(g)
  BY <1>1, <1>3
<1>. QED  BY <1>4, <1>5

LEMMA GrantsShown ==
  ASSUME IInv, NEW g \in groups
  PROVE  GrantedElsewhere(g) <=>
           DescribeSecurityGroups({}, LettingIn(g)) \ {g} # {}
<1> DEFINE filter == LettingIn(g)
           LetsIn(h) == \E p \in made[h].perms : p.source.group = g
<1>1. DOMAIN filter = {"ip-permission.group-name"} /\ filter["ip-permission.group-name"] = {made[g].name}
  BY DEF LettingIn
<1> HIDE DEF filter
<1>2. groups \subseteq Nat \ {0}
  BY DEF IInv, TypeOK
<1>3. ASSUME NEW h \in groups
      PROVE  MatchGroup(h, "ip-permission.group-name", made[g].name) <=> LetsIn(h)
  <2>1. \A p \in made[h].perms : p.source.group \in groups \cup {0}
    BY DEF IInv, Granted
  <2>2. \A p \in made[h].perms :
          p.source.group # 0 /\ made[p.source.group].name = made[g].name <=> p.source.group = g
    BY <1>2, <2>1 DEF IInv, NamesDiffer
  <2>. QED  BY <2>2 DEF MatchGroup
<1>4. DescribeSecurityGroups({}, filter) = {h \in groups : LetsIn(h)}
  BY <1>1, <1>3 DEF DescribeSecurityGroups
<1>. QED  BY <1>4 DEF filter, GrantedElsewhere

(* Where DeleteSecurityGroup refuses as in use the Describe handlers show  *)
(* why, and where they show a pending instance or a grant it refuses.      *)
THEOREM RefusalAlwaysVisible == Spec => []RefusalIsVisible
<1>1. IInv => RefusalIsVisible
  BY MachinesShown, GrantsShown DEF RefusalIsVisible
<1>. QED  BY <1>1, Inductive, PTL
=============================================================================
