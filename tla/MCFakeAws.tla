------------------------------ MODULE MCFakeAws ------------------------------
(* Instances of Ec2Test and S3Test for TLC.  A behaviour is one of either  *)
(* server: the two have nothing in common, and  server  says which it is.  *)
EXTENDS Ec2Test

CONSTANTS
  Clients, Buckets, Keys, Data, Types, NoBucket, NoObject, NoType, Listers, Free, Valid,
  ListPrefixes, ListMaxima, MaxMade

(* Two keys in a group, and one that comes after it.                       *)
MCKeys         == {<<1, 0, 1>>, <<1, 0, 2>>, <<2>>}
MCListPrefixes == {<<>>, <<1>>}

VARIABLES server, buckets, objects, mu, dialogue, listing

S3 == INSTANCE S3Test

ASSUME S3Assumption == S3!S3Constants

s3Vars   == <<buckets, objects, mu, dialogue, listing>>
fakeVars == <<server, vars, s3Vars>>

FakeInit == server \in {"ec2", "s3"} /\ Init /\ S3!Init

S3Step(step) == server = "s3" /\ step /\ UNCHANGED <<server, vars>>

FakeNext ==
  \/ server = "ec2" /\ Next /\ UNCHANGED <<server, s3Vars>>
  \/ S3Step(S3!Next)

(* The fairness of S3Test.                                                 *)
FakeSpec ==
  /\ FakeInit /\ [][FakeNext]_fakeVars
  /\ \A c \in Clients : WF_fakeVars(S3Step(S3!Finish(c)))

(* The properties of S3Test; those of Ec2Test have their names already.    *)
PagesComplete  == S3!PagesComplete
IsAStore       == S3!IsAStore
LockIsReleased == S3!LockIsReleased
=============================================================================
