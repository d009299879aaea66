-------------------------------- MODULE Ec2Test --------------------------------
(***************************************************************************)
(* The EC2 provider for tests of src/src/canonical/goamz/ec2/ec2test: its  *)
(* security groups, reservations and instances.  Every handler holds       *)
(* srv.mu while it reads and writes them, so each is one action.  The two  *)
(* Describe handlers change nothing and are operators.                     *)
(*                                                                         *)
(* A pointer to a securityGroup is its position in  made, where it stays   *)
(* after the group has been deleted, since reservations keep it.           *)
(***************************************************************************)
EXTENDS Naturals, Sequences, FiniteSets

CONSTANTS
  Names,            (* names of groups                                       *)
  Default,          (* the one the server makes                              *)
  Ranges,           (* protocol and port range of a permission               *)
  Ips,              (* addresses                                             *)
  MaxGroups, MaxReservations, MaxCount,  (* bounds of the model: structs     *)
  Started,          (* states a test has instances start in                  *)
  MaxRefs, MaxPerms (* groups named in a request, permissions at any time    *)

States == {"pending", "running", "shutting-down", "terminated", "stopped"}

ASSUME Ec2Assumption ==
  /\ Default \in Names
  /\ MaxGroups \in Nat \ {0} /\ MaxReservations \in Nat /\ MaxCount \in Nat
  /\ Started \subseteq States
  /\ MaxRefs \in Nat /\ MaxPerms \in Nat

VARIABLES
  made,             (* the securityGroup structs: name and perms             *)
  groups,           (* srv.groups, as positions in made                      *)
  reservations,     (* srv.reservations: groups and instances                *)
  instances,        (* srv.instances: state and reservation                  *)
  initialInstanceState

vars == <<made, groups, reservations, instances, initialInstanceState>>

(* ec2.InstanceState.Code: three states share one.                         *)
Code(state) == CASE state = "pending"       -> 0
                 [] state = "shutting-down" -> 32
                 [] OTHER                   -> 16

(* A permission is granted to a group (a pointer) or an address.           *)
OfGroup(g)  == [group |-> g, ip |-> "none"]
OfIp(a)     == [group |-> 0, ip |-> a]

(* A request names a group by id or, without one, by name.                 *)
Refs == [by : {"id"}, id : 1..MaxGroups] \cup [by : {"name"}, name : Names]

(* srv.group: the map is searched for a name in any order.                 *)
Group(ref) ==
  IF ref.by = "id" THEN {ref.id} \cap groups
  ELSE {g \in groups : made[g].name = ref.name}

(* fatalf: the handler panics before it has changed anything, and the     *)
(* error it answers has one of these codes.                                *)
Codes == {"InvalidParameterValue", "InvalidParameterCombination", "InvalidGroup.NotFound",
          "InvalidGroup.Duplicate", "InvalidGroup.InUse", "InvalidInstanceID.NotFound",
          "InvalidPermission.Duplicate", "InvalidPermission.Malformed",
          "InvalidGroupId.Malformed", "InvalidUserID.Malformed", "UnknownParameter"}
Refuse(code) == code \in Codes /\ UNCHANGED vars

(* NewServer: the default group lets itself in.                            *)
Init ==
  /\ made = <<[name |-> Default, perms |-> {[range |-> r, source |-> OfGroup(1)] : r \in Ranges}]>>
  /\ groups = {1}
  /\ reservations = <<>> /\ instances = <<>>
  /\ initialInstanceState = "pending"

-----------------------------------------------------------------------------
(* Instances *)

(* newReservation, then newInstance n times.                               *)
Launch(gs, n, state) ==
  LET r    == Len(reservations) + 1
      from == Len(instances)
  IN /\ r <= MaxReservations
     /\ reservations' = Append(reservations, [groups |-> gs, instances |-> from+1 .. from+n])
     /\ instances' = instances \o [i \in 1..n |-> [state |-> state, reservation |-> r]]

(* formToGroups: names are unique, so a reference finds one group at most. *)
Found(refs)  == UNION {Group(ref) : ref \in refs}
RefSets == {refs \in SUBSET Refs : Cardinality(refs) <= MaxRefs}
Missing(refs) == \E ref \in refs : Group(ref) = {}

RunInstances ==
  \E min \in 0..MaxCount, max \in 0..MaxCount, refs \in RefSets :
    \/ max < 1 /\ Refuse("InvalidParameterValue")
    \/ max >= 1 /\ min > max /\ Refuse("InvalidParameterCombination")
    \/ max >= 1 /\ min <= max /\ Missing(refs) /\ Refuse("InvalidGroup.NotFound")
    \/ /\ max >= 1 /\ min <= max /\ ~ Missing(refs)
       /\ Launch(Found(refs), max, initialInstanceState)
       /\ UNCHANGED <<made, groups, initialInstanceState>>

(* Called by a test and not over HTTP.  Contrary to its comment, it does   *)
(* not create a group that is missing.                                     *)
NewInstances ==
  \E n \in 0..MaxCount, state \in Started, refs \in RefSets :
    \/ Missing(refs) /\ Refuse("InvalidGroup.NotFound")
    \/ /\ ~ Missing(refs)
       /\ Launch(Found(refs), n, state)
       /\ UNCHANGED <<made, groups, initialInstanceState>>

SetInitialInstanceState ==
  \E state \in Started :
    /\ initialInstanceState' = state
    /\ UNCHANGED <<made, groups, reservations, instances>>

TerminateInstances ==
  \E ids \in SUBSET (1 .. Len(instances) + 1) :
    \/ ~ (ids \subseteq DOMAIN instances) /\ Refuse("InvalidInstanceID.NotFound")
    \/ /\ ids \subseteq DOMAIN instances
       /\ instances' = [i \in DOMAIN instances |->
            IF i \in ids THEN [instances[i] EXCEPT !.state = "shutting-down"] ELSE instances[i]]
       /\ UNCHANGED <<made, groups, reservations, initialInstanceState>>

-----------------------------------------------------------------------------
(* Security groups *)

CreateSecurityGroup ==
  \E name \in Names :
    \/ Group([by |-> "name", name |-> name]) # {} /\ Refuse("InvalidGroup.Duplicate")
    \/ /\ Group([by |-> "name", name |-> name]) = {}
       /\ Len(made) < MaxGroups
       /\ made' = Append(made, [name |-> name, perms |-> {}])
       /\ groups' = groups \cup {Len(made) + 1}
       /\ UNCHANGED <<reservations, instances, initialInstanceState>>

(* The permissions of a form: a range that may be reversed, and whom it is *)
(* granted to; the owner of a group may be named, and may be another one.  *)
Asked == [reversed : BOOLEAN, range : Ranges,
          to : [kind : {"group"}, ref : Refs, foreign : BOOLEAN]
               \cup [kind : {"ip"}, ip : Ips] \cup {[kind |-> "malformed"]}]

Faulty(a) == a.reversed \/ a.to.kind = "malformed" \/ (a.to.kind = "group" /\ a.to.foreign)
Plain     == {a \in Asked : ~ Faulty(a)}

(* The bound on a form: one permission, or two of which none is faulty.    *)
Forms == {{a} : a \in Asked} \cup {{a, b} : a \in Plain, b \in Plain}

(* parsePerms: why it refuses a form; the fields come in any order.        *)
FormErrors(asked) ==
  IF \E a \in asked : a.to.kind = "malformed"
  THEN {"InvalidGroupId.Malformed", "InvalidUserID.Malformed",
        "InvalidPermission.Malformed", "UnknownParameter"}
  ELSE {"InvalidParameterValue" : a \in {b \in asked : b.reversed}}
       \cup {"InvalidGroup.NotFound" : a \in
               {b \in asked : b.to.kind = "group" /\ (b.to.foreign \/ Group(b.to.ref) = {})}}

(* parsePerms: what it makes of a form.                                    *)
Parsed(asked) ==
  (UNION {{[range |-> a.range, source |-> OfGroup(g)] : g \in Group(a.to.ref)}
          : a \in {b \in asked : b.to.kind = "group"}})
  \cup {[range |-> a.range, source |-> OfIp(a.to.ip)] : a \in {b \in asked : b.to.kind = "ip"}}

(* How many permissions there are, for the bound.                          *)
Permissions == Cardinality(UNION {{g} \X made[g].perms : g \in groups})

AuthorizeSecurityGroupIngress ==
  \E ref \in Refs, form \in Forms :
    \/ Group(ref) = {} /\ Refuse("InvalidGroup.NotFound")
    \/ Group(ref) # {} /\ \E code \in FormErrors(form) : Refuse(code)
    \/ \E g \in Group(ref) :
         /\ FormErrors(form) = {}
         /\ \/ /\ made[g].perms \cap Parsed(form) # {}
               /\ Refuse("InvalidPermission.Duplicate")
            \/ /\ made[g].perms \cap Parsed(form) = {}
               /\ Permissions + Cardinality(Parsed(form)) <= MaxPerms
               /\ made' = [made EXCEPT ![g].perms = @ \cup Parsed(form)]
               /\ UNCHANGED <<groups, reservations, instances, initialInstanceState>>

RevokeSecurityGroupIngress ==
  \E ref \in Refs, form \in Forms :
    \/ Group(ref) = {} /\ Refuse("InvalidGroup.NotFound")
    \/ Group(ref) # {} /\ \E code \in FormErrors(form) : Refuse(code)
    \/ \E g \in Group(ref) :
         /\ FormErrors(form) = {}
         /\ made' = [made EXCEPT ![g].perms = @ \ Parsed(form)]
         /\ UNCHANGED <<groups, reservations, instances, initialInstanceState>>

(* Compares codes, so a machine that runs or is stopped does not count.    *)
HasRunningMachine(r) ==
  \E i \in reservations[r].instances :
    Code(instances[i].state) \notin {Code("shutting-down"), Code("terminated")}

(* Mutant: only the permissions of the default group are looked at.        *)
GrantedByDefault(g) == \E p \in made[1].perms : g # 1 /\ p.source.group = g

(* Another group grants g something.                                       *)
GrantedElsewhere(g) ==
  \E h \in groups \ {g} : \E p \in made[h].perms : p.source.group = g

(* Mutant: the machines of one reservation are looked at.                  *)
InUseByFirst(g) ==
  Len(reservations) > 0 /\ g \in reservations[1].groups /\ HasRunningMachine(1)

InUse(g) == \E r \in DOMAIN reservations : g \in reservations[r].groups /\ HasRunningMachine(r)

DeleteSecurityGroup ==
  \E ref \in Refs :
    \/ Group(ref) = {} /\ Refuse("InvalidGroup.NotFound")
    \/ \E g \in Group(ref) :
         \/ (InUse(g) \/ GrantedElsewhere(g)) /\ Refuse("InvalidGroup.InUse")
         \/ /\ ~ InUse(g) /\ ~ GrantedElsewhere(g)
            /\ groups' = groups \ {g}
            /\ UNCHANGED <<made, reservations, instances, initialInstanceState>>

(* serveHTTP with an action that is not in the table.                      *)
Unrecognized == Refuse("InvalidParameterValue")

Next ==
  \/ RunInstances \/ NewInstances \/ SetInitialInstanceState \/ TerminateInstances
  \/ CreateSecurityGroup \/ DeleteSecurityGroup
  \/ AuthorizeSecurityGroupIngress \/ RevokeSecurityGroupIngress
  \/ Unrecognized

Spec == Init /\ [][Next]_vars

-----------------------------------------------------------------------------
(* What the Describe handlers show *)

(* Instance.matchAttr.                                                     *)
MatchInstance(i, attr, value) ==
  LET at == reservations[instances[i].reservation].groups IN
  CASE attr = "instance-id"         -> i = value
    [] attr = "group-id"            -> value \in at
    [] attr = "group-name"          -> \E g \in at : made[g].name = value
    [] attr = "instance-state-code" -> Code(instances[i].state) = value
    [] attr = "instance-state-name" -> instances[i].state = value

(* securityGroup.matchAttr.                                                *)
MatchGroup(g, attr, value) ==
  CASE attr = "group-id"            -> g = value
    [] attr = "group-name"          -> made[g].name = value
    [] attr = "ip-permission.cidr"  -> \E p \in made[g].perms : p.source.ip = value
    [] attr = "ip-permission.group-name" ->
         \E p \in made[g].perms : p.source.group # 0 /\ made[p.source.group].name = value

(* filter.ok: every attribute has one of the values asked for.             *)
DescribeInstances(ids, filter) ==
  {i \in DOMAIN instances :
     /\ ids = {} \/ i \in ids
     /\ \A attr \in DOMAIN filter : \E v \in filter[attr] : MatchInstance(i, attr, v)}

DescribeSecurityGroups(refs, filter) ==
  {g \in (IF refs = {} THEN groups ELSE Found(refs)) :
     \A attr \in DOMAIN filter : \E v \in filter[attr] : MatchGroup(g, attr, v)}

(* ec2Perms: the permissions of a group, put together by range.            *)
Ec2Perms(g) ==
  {[range  |-> r,
    groups |-> {p.source.group : p \in {q \in made[g].perms : q.range = r /\ q.source.group # 0}},
    ips    |-> {p.source.ip : p \in {q \in made[g].perms : q.range = r /\ q.source.group = 0}}]
   : r \in {p.range : p \in made[g].perms}}

-----------------------------------------------------------------------------
(* Properties *)

(* A permission of a group that exists is granted to a group that exists:  *)
(* deleteSecurityGroup refuses a group that another one mentions, however  *)
(* the permissions came about, so DescribeSecurityGroups names no group    *)
(* that cannot be asked for.                                               *)
SourcesExist ==
  \A g \in groups : \A p \in Ec2Perms(g) : p.groups \subseteq groups

(* The groups of an instance that is pending exist: none is deleted while  *)
(* the instance has not been terminated, whatever was deleted, created     *)
(* again under its name or launched in the meantime.                       *)
PendingKeepGroups ==
  \A i \in DOMAIN instances :
    instances[i].state = "pending" =>
      reservations[instances[i].reservation].groups \subseteq groups

(* What deleteSecurityGroup says when it refuses, "group is currently in   *)
(* use by a running instance", and hasRunningMachine is named for: the     *)
(* groups of a running instance exist.  (The code lets them be deleted.)   *)
RunningKeepGroups ==
  \A i \in DOMAIN instances :
    instances[i].state = "running" =>
      reservations[instances[i].reservation].groups \subseteq groups

(* Filters: the instances of a group in one of some states, by the names   *)
(* of the states; the groups that let it in.                               *)
InstancesIn(g, states) ==
  [attr \in {"group-id", "instance-state-name"} |-> IF attr = "group-id" THEN {g} ELSE states]
LettingIn(g) == [attr \in {"ip-permission.group-name"} |-> {made[g].name}]

(* A client can see why DeleteSecurityGroup answers InvalidGroup.InUse.    *)
(* Then DescribeInstances shows an instance of the group that is pending   *)
(* or running, or DescribeSecurityGroups another group that lets it in;    *)
(* and where the one shows a pending instance, or the other a group, the   *)
(* deletion is refused.                                                    *)
RefusalIsVisible ==
  \A g \in groups :
    LET refused == InUse(g) \/ GrantedElsewhere(g)
        granted == DescribeSecurityGroups({}, LettingIn(g)) \ {g} # {}
    IN /\ refused => DescribeInstances({}, InstancesIn(g, {"pending", "running"})) # {} \/ granted
       /\ DescribeInstances({}, InstancesIn(g, {"pending"})) # {} \/ granted => refused
=============================================================================
