-------------------------------- MODULE S3Store --------------------------------
(***************************************************************************)
(* What a store of objects promises its clients, whatever server stands    *)
(* behind it: a request takes effect, whole or not at all, at one moment   *)
(* between the asking and the reply, and the reply fits what the store     *)
(* held at that moment.                                                    *)
(***************************************************************************)
CONSTANTS Clients, Buckets, Keys, Data, Types, NoBucket, NoObject, NoType

VARIABLES
  store,      (* bucket -> NoBucket, or key -> NoObject or [data, type]      *)
  dialogue    (* client -> what it has asked, or the reply it has got        *)

storeVars == <<store, dialogue>>

Empty == [k \in Keys |-> NoObject]

Held(bucket) == {k \in Keys : bucket[k] # NoObject}

Asked(r)   == [phase |-> "asked", req |-> r]
Replied(x) == [phase |-> "replied", reply |-> x]
Fails      == [result |-> "error"]
Succeeds   == [result |-> "ok"]
Shows(x)   == [result |-> "ok", shown |-> x]

Init ==
  /\ store = [b \in Buckets |-> NoBucket]
  /\ dialogue = [c \in Clients |-> Replied(Succeeds)]

Put(old, r) ==
  [data |-> r.data,
   type |-> IF r.type = NoType /\ old # NoObject THEN old.type ELSE r.type]

(* What the request does to the store and the reply it then gets, if what  *)
(* the store holds allows it.                                              *)
Served(s, r) ==
  LET bucket == s[r.bucket] IN
  CASE r.op = "putBucket" ->
         {[store |-> IF bucket = NoBucket THEN [s EXCEPT ![r.bucket] = Empty] ELSE s,
           reply |-> Succeeds]}
    [] r.op = "deleteBucket" /\ bucket = Empty ->
         {[store |-> [s EXCEPT ![r.bucket] = NoBucket], reply |-> Succeeds]}
    [] r.op = "list" /\ bucket # NoBucket -> {[store |-> s, reply |-> Succeeds]}
    [] r.op = "put" /\ bucket # NoBucket ->
         {[store |-> [s EXCEPT ![r.bucket][r.key] = Put(@, r)], reply |-> Succeeds]}
    [] r.op = "get" /\ bucket # NoBucket ->
         {[store |-> s, reply |-> Shows(bucket[r.key])] : k \in {r.key} \cap Held(bucket)}
    [] r.op = "delete" /\ bucket # NoBucket ->
         {[store |-> [s EXCEPT ![r.bucket][r.key] = NoObject], reply |-> Succeeds]}
    [] OTHER -> {}

Requests ==
  [op : {"putBucket", "deleteBucket", "list", "other"}, bucket : Buckets, sound : BOOLEAN]
  \cup [op : {"get", "delete"}, bucket : Buckets, key : Keys, sound : BOOLEAN]
  \cup [op : {"put"}, bucket : Buckets, key : Keys, sound : BOOLEAN,
        data : Data, type : Types \cup {NoType}]

Ask(c) ==
  /\ dialogue[c].phase = "replied" /\ dialogue'[c].phase = "asked"
  /\ dialogue'[c].req \in Requests
  /\ dialogue' = [dialogue EXCEPT ![c] = dialogue'[c]]
  /\ UNCHANGED store

Serve(c) ==
  /\ dialogue[c].phase = "asked"
  /\ \E s \in Served(store, dialogue[c].req) :
       /\ store' = s.store
       /\ dialogue' = [dialogue EXCEPT ![c] = Replied(s.reply)]

(* A request without a body, and without a flaw of its own, fails only if  *)
(* the store does not allow it.                                            *)
Refuse(c) ==
  /\ dialogue[c].phase = "asked"
  /\ LET r == dialogue[c].req IN
       r.sound /\ r.op \notin {"put", "putBucket"} => Served(store, r) = {}
  /\ dialogue' = [dialogue EXCEPT ![c] = Replied(Fails)]
  /\ UNCHANGED store

Next == \E c \in Clients : Ask(c) \/ Serve(c) \/ Refuse(c)

Spec == Init /\ [][Next]_storeVars
=============================================================================
