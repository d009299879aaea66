-------------------------------- MODULE S3Proofs --------------------------------
(***************************************************************************)
(* Proofs about the S3 server for tests, for any clients, buckets, keys    *)
(* and objects: that it is a store, and that a listing page by page is     *)
(* complete.                                                               *)
(*                                                                         *)
(* S3!Store is the store, seen through the names of the buckets and what   *)
(* clients have asked; a handler that stops halfway has, to it, done       *)
(* nothing yet.  The invariant says that whoever has stopped halfway has   *)
(* the lock to himself, and that what he found still holds when he goes    *)
(* on.                                                                     *)
(*                                                                         *)
(* A listing needs more: the order of keys is total (the first place where *)
(* two differ is the least of a set), a finite set of keys can be sorted   *)
(* (by how many are before each), and names come in the order of their     *)
(* keys.  What a page holds after n turns of the loop follows from these   *)
(* by induction on n, said with the set of the n for which it holds.       *)
(***************************************************************************)
EXTENDS MCFakeAws, Integers, SequenceTheorems, FiniteSetTheorems, WellFoundedInduction, TLAPS

(* A listing under way has all its fields, and is of a bucket's name.      *)
ListingOK(l) ==
  \/ l = S3!Stopped
  \/ /\ l = [on |-> TRUE, bucket |-> l.bucket, prefix |-> l.prefix, delimited |-> l.delimited,
             max |-> l.max, marker |-> l.marker, names |-> l.names, more |-> l.more,
             kept |-> l.kept]
     /\ l.bucket \in Buckets

(* The server's state: a name has its bucket struct for itself.            *)
BucketsOK ==
  /\ objects \in Seq(S3!Content)
  /\ buckets \in [Buckets -> Nat]
  /\ \A n \in Buckets : buckets[n] # 0 => buckets[n] \in DOMAIN objects
  /\ \A m, n \in Buckets : buckets[m] = buckets[n] /\ buckets[m] # 0 => m = n

(* A handler that waits has the lock, and what it found still holds.       *)
EnteredOK(c) ==
  LET d == dialogue[c] IN
  /\ mu = c /\ d.req \in S3!Store!Requests
  /\ ~ S3!FailsAtOnce(d.req) /\ S3!Waits(d.req)
  /\ d.req.op # "putBucket" => /\ d.bucket = S3!BucketOf(d.req)
                               /\ d.object = S3!ObjectOf(d.bucket, d.req)

DialogueOK(c) ==
  \/ dialogue[c].phase = "replied"
  \/ /\ dialogue[c] = [phase |-> "asked", req |-> dialogue[c].req]
     /\ dialogue[c].req \in S3!Store!Requests
  \/ dialogue[c].phase = "entered" /\ EnteredOK(c)

S3Inv ==
  /\ BucketsOK
  /\ dialogue = [c \in Clients |-> dialogue[c]] /\ \A c \in Clients : DialogueOK(c)
  /\ listing = [c \in Clients |-> listing[c]] /\ \A c \in Clients : ListingOK(listing[c])

AStore == [b \in Buckets |-> S3!Held_(b)]

-----------------------------------------------------------------------------
(* The store that the server stands for *)

LEMMA EmptyContent == S3!Store!Empty \in S3!Content /\ S3!Store!Held(S3!Store!Empty) = {}
BY DEF S3!Store!Empty, S3!Store!Held, S3!Content

(* What is served, operation by operation.                                 *)
LEMMA ServedOps ==
  ASSUME NEW s, NEW r
  PROVE  /\ r.op = "other" \/ (r.op # "putBucket" /\ s[r.bucket] = NoBucket
              /\ (r.op = "deleteBucket" => s[r.bucket] # S3!Store!Empty))
            => S3!Store!Served(s, r) = {}
         /\ r.op = "deleteBucket" /\ s[r.bucket] # S3!Store!Empty => S3!Store!Served(s, r) = {}
         /\ r.op = "get" /\ s[r.bucket] # NoBucket /\ r.key \notin S3!Store!Held(s[r.bucket])
              => S3!Store!Served(s, r) = {}
         /\ r.op = "putBucket" =>
              [store |-> IF s[r.bucket] = NoBucket
                         THEN [s EXCEPT ![r.bucket] = S3!Store!Empty] ELSE s,
               reply |-> S3!Store!Succeeds] \in S3!Store!Served(s, r)
         /\ r.op = "deleteBucket" /\ s[r.bucket] = S3!Store!Empty =>
              [store |-> [s EXCEPT ![r.bucket] = NoBucket], reply |-> S3!Store!Succeeds]
                \in S3!Store!Served(s, r)
         /\ r.op = "list" /\ s[r.bucket] # NoBucket =>
              [store |-> s, reply |-> S3!Store!Succeeds] \in S3!Store!Served(s, r)
         /\ r.op = "put" /\ s[r.bucket] # NoBucket =>
              [store |-> [s EXCEPT ![r.bucket][r.key] = S3!Store!Put(@, r)],
               reply |-> S3!Store!Succeeds]
                \in S3!Store!Served(s, r)
         /\ r.op = "get" /\ s[r.bucket] # NoBucket /\ r.key \in S3!Store!Held(s[r.bucket]) =>
              [store |-> s, reply |-> S3!Store!Shows(s[r.bucket][r.key])]
                \in S3!Store!Served(s, r)
         /\ r.op = "delete" /\ s[r.bucket] # NoBucket =>
              [store |-> [s EXCEPT ![r.bucket][r.key] = NoObject], reply |-> S3!Store!Succeeds]
                \in S3!Store!Served(s, r)
BY DEF S3!Store!Served

(* What a bucket's name holds.                                             *)
LEMMA Holds ==
  ASSUME BucketsOK, NEW n \in Buckets
  PROVE  /\ buckets[n] = 0 => AStore[n] = NoBucket
         /\ buckets[n] # 0 => /\ AStore[n] = objects[buckets[n]] /\ AStore[n] \in S3!Content
                              /\ AStore[n] # NoBucket /\ buckets[n] \in DOMAIN objects
<1>1. AStore[n] = S3!Held_(n)
  BY DEF AStore
<1>2. CASE buckets[n] # 0
  <2>1. objects[buckets[n]] \in S3!Content
    BY <1>2, ElementOfSeq DEF BucketsOK
  <2>. QED  BY <1>1, <1>2, <2>1, S3Assumption DEF S3!Held_, S3!S3Constants, BucketsOK
<1>. QED  BY <1>1, <1>2 DEF S3!Held_

(* One object of a bucket is replaced.                                     *)
LEMMA ObjectChanges ==
  ASSUME BucketsOK, NEW n \in Buckets, buckets[n] # 0, NEW k \in Keys,
         NEW o \in S3!Objects \cup {NoObject}, S3!SetObject(buckets[n], k, o)
  PROVE  BucketsOK' /\ AStore' = [AStore EXCEPT ![n][k] = o]
<1> DEFINE i == buckets[n]
           new == [objects[i] EXCEPT ![k] = o]
<1>1. i \in DOMAIN objects /\ objects[i] \in S3!Content /\ AStore[n] = objects[i]
  BY Holds
<1>2. new \in S3!Content
  BY <1>1 DEF S3!Content
<1>3. objects' = [objects EXCEPT ![i] = new] /\ buckets' = buckets
  BY DEF S3!SetObject
<1> HIDE DEF new
<1>4. /\ objects' \in Seq(S3!Content) /\ DOMAIN objects' = DOMAIN objects /\ objects'[i] = new
      /\ \A j \in DOMAIN objects : j # i => objects'[j] = objects[j]
  BY <1>1, <1>2, <1>3 DEF BucketsOK
<1>5. BucketsOK'
  BY <1>3, <1>4 DEF BucketsOK
<1>6. \A m \in Buckets : S3!Held_(m)' = IF m = n THEN new ELSE S3!Held_(m)
  BY <1>3, <1>4 DEF S3!Held_, BucketsOK
<1>7. AStore' = [AStore EXCEPT ![n] = new]
  BY <1>6 DEF AStore
<1>8. [AStore EXCEPT ![n][k] = o] = [AStore EXCEPT ![n] = new]
  BY <1>1 DEF new
<1>. QED  BY <1>5, <1>7, <1>8

-----------------------------------------------------------------------------
(* Steps of the store *)

(* A client that has entered has, to the store, only asked.                *)
LEMMA Shown ==
  ASSUME S3Inv
  PROVE  /\ \A c \in Clients : dialogue[c].phase \in {"asked", "entered"} =>
              S3!Dialogue[c] = [phase |-> "asked", req |-> dialogue[c].req]
         /\ \A c \in Clients : dialogue[c].phase = "replied" => S3!Dialogue[c] = dialogue[c]
<1>1. ASSUME NEW c \in Clients, dialogue[c].phase \in {"asked", "entered"}
      PROVE  S3!Dialogue[c] = [phase |-> "asked", req |-> dialogue[c].req]
  BY <1>1 DEF S3!Dialogue, S3Inv, DialogueOK
<1>2. ASSUME NEW c \in Clients, dialogue[c].phase = "replied"
      PROVE  S3!Dialogue[c] = dialogue[c]
  BY <1>2 DEF S3!Dialogue
<1>. QED  BY <1>1, <1>2

(* The dialogue of one client goes on.                                     *)
LEMMA ShownStep ==
  ASSUME S3Inv, NEW c \in Clients, NEW d, dialogue' = [dialogue EXCEPT ![c] = d],
         d.phase # "entered"
  PROVE  S3!Dialogue' = [S3!Dialogue EXCEPT ![c] = d]
<1>1. dialogue'[c] = d /\ \A e \in Clients : e # c => dialogue'[e] = dialogue[e]
  BY DEF S3Inv
<1>. QED  BY <1>1 DEF S3!Dialogue

LEMMA AsksStore ==
  ASSUME S3Inv, NEW c \in Clients, NEW r \in S3!Store!Requests, dialogue[c].phase = "replied",
         dialogue' = [dialogue EXCEPT ![c] = S3!Store!Asked(r)], UNCHANGED <<buckets, objects>>
  PROVE  S3!Store!Next
<1> DEFINE d == S3!Store!Asked(r)
<1>1. d = [phase |-> "asked", req |-> r]
  BY DEF S3!Store!Asked
<1> HIDE DEF d
<1>2. S3!Dialogue' = [S3!Dialogue EXCEPT ![c] = d]
  BY <1>1, ShownStep DEF d
<1>3. S3!Dialogue'[c] = d
  BY <1>2 DEF S3!Dialogue
<1>4. AStore' = AStore
  BY DEF AStore, S3!Held_
<1>5. S3!Dialogue[c].phase = "replied"
  BY Shown
<1>6. S3!Dialogue' = [S3!Dialogue EXCEPT ![c] = S3!Dialogue'[c]]
  BY <1>2, <1>3
<1>7. S3!Store!Ask(c)
  BY <1>1, <1>3, <1>4, <1>5, <1>6 DEF S3!Store!Ask, AStore
<1>. QED  BY <1>7 DEF S3!Store!Next

(* The store changes as r demands, and x is the reply.                     *)
Serves(r, x) == [store |-> AStore', reply |-> x] \in S3!Store!Served(AStore, r)

LEMMA ServesStore ==
  ASSUME S3Inv, NEW c \in Clients, NEW x, dialogue[c].phase \in {"asked", "entered"},
         NEW r, r = dialogue[c].req,
         Serves(r, x),
         S3!Reply(c, x)
  PROVE  S3!Store!Next
<1>1. S3!Store!Replied(x).phase # "entered"
  BY DEF S3!Store!Replied
<1>2. S3!Dialogue' = [S3!Dialogue EXCEPT ![c] = S3!Store!Replied(x)]
  BY <1>1, ShownStep DEF S3!Reply
<1>3. S3!Dialogue[c].phase = "asked" /\ S3!Dialogue[c].req = dialogue[c].req
  <2>1. S3!Dialogue[c] = [phase |-> "asked", req |-> dialogue[c].req]
    BY Shown
  <2>. QED  BY <2>1
<1>4. PICK s \in S3!Store!Served(AStore, S3!Dialogue[c].req) : s.store = AStore' /\ s.reply = x
  BY <1>3 DEF Serves
<1>5. S3!Store!Serve(c)
  BY <1>2, <1>3, <1>4 DEF S3!Store!Serve, AStore
<1>. QED  BY <1>5 DEF S3!Store!Next

LEMMA RefusesStore ==
  ASSUME S3Inv, NEW c \in Clients, dialogue[c].phase \in {"asked", "entered"},
         dialogue[c].req.sound /\ dialogue[c].req.op \notin {"put", "putBucket"}
           => S3!Store!Served(AStore, dialogue[c].req) = {},
         dialogue' = [dialogue EXCEPT ![c] = S3!Store!Replied(S3!Store!Fails)],
         UNCHANGED <<buckets, objects>>
  PROVE  S3!Store!Next
<1>1. S3!Store!Replied(S3!Store!Fails).phase # "entered"
  BY DEF S3!Store!Replied
<1>2. S3!Dialogue' = [S3!Dialogue EXCEPT ![c] = S3!Store!Replied(S3!Store!Fails)]
  BY <1>1, ShownStep
<1>3. S3!Dialogue[c].phase = "asked" /\ S3!Dialogue[c].req = dialogue[c].req
  <2>1. S3!Dialogue[c] = [phase |-> "asked", req |-> dialogue[c].req]
    BY Shown
  <2>. QED  BY <2>1
<1>4. AStore' = AStore
  BY DEF AStore, S3!Held_
<1>5. S3!Store!Refuse(c)
  BY <1>2, <1>3, <1>4 DEF S3!Store!Refuse, AStore
<1>. QED  BY <1>5 DEF S3!Store!Next

-----------------------------------------------------------------------------
(* The invariant *)

LEMMA S3InitInv == S3!Init => S3Inv /\ S3!Store!Init
<1> SUFFICES ASSUME S3!Init PROVE S3Inv /\ S3!Store!Init
  OBVIOUS
<1> USE DEF S3!Init
<1>1. BucketsOK
  BY DEF BucketsOK
<1>2. \A c \in Clients : DialogueOK(c)
  BY DEF DialogueOK, S3!Store!Replied
<1>3. \A c \in Clients : ListingOK(listing[c])
  BY DEF ListingOK
<1>4. S3!Store!Init
  <2>1. AStore = [b \in Buckets |-> NoBucket]
    BY DEF AStore, S3!Held_
  <2>2. S3!Dialogue = [c \in Clients |-> S3!Store!Replied(S3!Store!Succeeds)]
    BY DEF S3!Dialogue, S3!Store!Replied
  <2>. QED  BY <2>1, <2>2 DEF S3!Store!Init, AStore
<1>. QED  BY <1>1, <1>2, <1>3, <1>4 DEF S3Inv

(* Whoever may go on at the server is the only one who has entered it.     *)
LEMMA Alone ==
  ASSUME S3Inv, NEW c \in Clients, mu = Free \/ mu = c, NEW e \in Clients, e # c
  PROVE  dialogue[e].phase # "entered"
BY S3Assumption DEF S3Inv, DialogueOK, EnteredOK, S3!S3Constants

(* A client asks, or puts its listing away, and the server stays.          *)
LEMMA ClientKeeps ==
  ASSUME S3Inv, NEW c \in Clients, UNCHANGED <<buckets, objects, mu>>, NEW l, ListingOK(l),
         listing' = [listing EXCEPT ![c] = l],
         \/ UNCHANGED dialogue
         \/ \E r \in S3!Store!Requests : dialogue' = [dialogue EXCEPT ![c] = S3!Store!Asked(r)]
  PROVE  S3Inv'
<1>1. BucketsOK'
  BY DEF S3Inv, BucketsOK
<1>2. listing'[c] = l /\ \A e \in Clients : e # c => listing'[e] = listing[e]
  BY DEF S3Inv
<1>3. listing' = [e \in Clients |-> listing'[e]] /\ \A e \in Clients : ListingOK(listing'[e])
  BY <1>2 DEF S3Inv
<1>4. ASSUME NEW e \in Clients, dialogue'[e] = dialogue[e]
      PROVE  DialogueOK(e)'
  BY <1>4 DEF S3Inv, DialogueOK, EnteredOK, S3!FailsAtOnce, S3!Waits, S3!BucketOf, S3!ObjectOf
<1>5. dialogue' = [e \in Clients |-> dialogue'[e]] /\ \A e \in Clients : DialogueOK(e)'
  <2>1. CASE UNCHANGED dialogue
    BY <1>4, <2>1 DEF S3Inv
  <2>2. ASSUME NEW r \in S3!Store!Requests, dialogue' = [dialogue EXCEPT ![c] = S3!Store!Asked(r)]
        PROVE  dialogue' = [e \in Clients |-> dialogue'[e]] /\ \A e \in Clients : DialogueOK(e)'
    <3>1. dialogue'[c] = [phase |-> "asked", req |-> r]
          /\ \A e \in Clients : e # c => dialogue'[e] = dialogue[e]
      BY <2>2 DEF S3Inv, S3!Store!Asked
    <3>2. DialogueOK(c)'
      BY <3>1 DEF DialogueOK
    <3>. QED  BY <1>4, <2>2, <3>1, <3>2 DEF S3Inv
  <2>. QED  BY <2>1, <2>2
<1>6. \A e \in Clients : ListingOK(listing[e])'
  BY <1>3 DEF ListingOK
<1>. QED  BY <1>1, <1>3, <1>5, <1>6 DEF S3Inv

(* The server replies.                                                     *)
LEMMA ReplyKeeps ==
  ASSUME S3Inv, NEW c \in Clients, mu = Free \/ mu = c, NEW x, S3!Reply(c, x), BucketsOK',
         listing' = [e \in Clients |-> listing'[e]],
         \A e \in Clients : ListingOK(listing[e])'
  PROVE  S3Inv'
<1>1. dialogue' = [dialogue EXCEPT ![c] = S3!Store!Replied(x)]
  BY DEF S3!Reply
<1>2. dialogue' = [e \in Clients |-> dialogue'[e]] /\ dialogue'[c].phase = "replied"
      /\ \A e \in Clients : e # c => dialogue'[e] = dialogue[e]
  BY <1>1 DEF S3Inv, S3!Store!Replied
<1>3. ASSUME NEW e \in Clients PROVE DialogueOK(e)'
  <2>1. CASE e = c
    BY <1>2, <2>1 DEF DialogueOK
  <2>2. CASE e # c
    <3>1. dialogue[e].phase # "entered" /\ DialogueOK(e) /\ dialogue'[e] = dialogue[e]
      BY <1>2, <2>2, Alone DEF S3Inv
    <3>. QED  BY <3>1 DEF DialogueOK
  <2>. QED  BY <2>1, <2>2
<1>. QED  BY <1>2, <1>3 DEF S3Inv

LEMMA ListingStays ==
  ASSUME S3Inv, UNCHANGED listing
  PROVE  listing' = [e \in Clients |-> listing'[e]] /\ \A e \in Clients : ListingOK(listing[e])'
BY DEF S3Inv, ListingOK

LEMMA ListingChanges ==
  ASSUME S3Inv, NEW c \in Clients, NEW l, ListingOK(l), listing' = [listing EXCEPT ![c] = l]
  PROVE  listing' = [e \in Clients |-> listing'[e]] /\ \A e \in Clients : ListingOK(listing[e])'
<1>1. \A e \in Clients : ListingOK(listing'[e])
  BY DEF S3Inv
<1>2. \A e \in Clients : ListingOK(listing[e])'
  BY <1>1 DEF ListingOK
<1>. QED  BY <1>2 DEF S3Inv

(* The keys that a listing has found there all the time become fewer.      *)
LEMMA ListingKept ==
  ASSUME S3Inv, NEW o, listing' = S3!Kept(o)
  PROVE  listing' = [e \in Clients |-> listing'[e]] /\ \A e \in Clients : ListingOK(listing[e])'
<1>1. listing' = [e \in Clients |-> listing'[e]]
  BY Zenon DEF S3!Kept
<1>2. ASSUME NEW e \in Clients PROVE ListingOK(listing'[e])
  <2>1. ListingOK(listing[e])
    BY DEF S3Inv
  <2>2. CASE ~ listing[e].on
    BY <2>1, <2>2 DEF S3!Kept
  <2>3. CASE listing[e].on
    <3> DEFINE kept == {k \in listing[e].kept :
                          LET b == buckets[listing[e].bucket] IN b # 0 /\ o[b][k] # NoObject}
    <3>1. listing'[e] = [listing[e] EXCEPT !.kept = kept]
      BY <2>3 DEF S3!Kept
    <3> HIDE DEF kept
    <3>. QED  BY <2>1, <2>3, <3>1 DEF ListingOK, S3!Stopped
  <2>. QED  BY <2>2, <2>3
<1>3. \A e \in Clients : ListingOK(listing[e])'
  BY <1>2 DEF ListingOK
<1>. QED  BY <1>1, <1>3

-----------------------------------------------------------------------------
(* The steps: each is one of the store, or none *)

StoreStep == S3!Store!Next \/ (AStore' = AStore /\ S3!Dialogue' = S3!Dialogue)

(* A request names a bucket, and what its operation needs.                 *)
LEMMA RequestFields ==
  ASSUME NEW r \in S3!Store!Requests
  PROVE  /\ r.bucket \in Buckets
         /\ r.op \in {"putBucket", "deleteBucket", "list", "other", "get", "delete", "put"}
         /\ r.op \in {"get", "delete", "put"} => r.key \in Keys
         /\ r.op = "put" => r.data \in Data /\ r.type \in Types \cup {NoType}
BY DEF S3!Store!Requests

LEMMA AskStep == ASSUME S3Inv, NEW c \in Clients, S3!Ask(c) PROVE S3Inv' /\ StoreStep
<1>1. PICK r \in S3!Store!Requests : dialogue' = [dialogue EXCEPT ![c] = S3!Store!Asked(r)]
  BY DEF S3!Ask
<1>2. UNCHANGED <<buckets, objects, mu, listing>> /\ dialogue[c].phase = "replied"
  BY DEF S3!Ask
<1>3. S3!Store!Next
  BY <1>1, <1>2, AsksStore
<1>4. ListingOK(listing[c]) /\ listing' = [listing EXCEPT ![c] = listing[c]]
  BY <1>2 DEF S3Inv
<1>5. S3Inv'
  BY <1>1, <1>2, <1>4, ClientKeeps
<1>. QED  BY <1>3, <1>5 DEF StoreStep

LEMMA ListRequest ==
  ASSUME NEW b \in Buckets, NEW sound \in BOOLEAN
  PROVE  [op |-> "list", bucket |-> b, sound |-> sound] \in S3!Store!Requests
BY DEF S3!Store!Requests

LEMMA StartListingStep ==
  ASSUME S3Inv, NEW c \in Clients, S3!StartListing(c) PROVE S3Inv' /\ StoreStep
<1>1. PICK b \in Buckets, prefix \in ListPrefixes, delimited \in BOOLEAN, max \in ListMaxima,
           sound \in BOOLEAN :
        /\ listing' = [listing EXCEPT ![c] =
             [on |-> TRUE, bucket |-> b, prefix |-> prefix, delimited |-> delimited, max |-> max,
              marker |-> <<>>, names |-> <<>>, more |-> TRUE,
              kept |-> IF buckets[b] = 0 THEN {} ELSE S3!Store!Held(objects[buckets[b]])]]
        /\ S3!AskList(c, b, sound)
  BY DEF S3!StartListing
<1>2. UNCHANGED <<buckets, objects, mu>> /\ dialogue[c].phase = "replied"
  BY DEF S3!StartListing
<1>3. PICK r \in S3!Store!Requests : dialogue' = [dialogue EXCEPT ![c] = S3!Store!Asked(r)]
  BY <1>1, ListRequest DEF S3!AskList
<1>4. S3!Store!Next
  BY <1>2, <1>3, AsksStore
<1> DEFINE l == [on |-> TRUE, bucket |-> b, prefix |-> prefix, delimited |-> delimited,
                 max |-> max, marker |-> <<>>, names |-> <<>>, more |-> TRUE,
                 kept |-> IF buckets[b] = 0 THEN {} ELSE S3!Store!Held(objects[buckets[b]])]
<1>5. ListingOK(l)
  BY DEF ListingOK
<1>6. listing' = [listing EXCEPT ![c] = l]
  BY <1>1
<1> HIDE DEF l
<1>7. S3Inv'
  BY <1>2, <1>3, <1>5, <1>6, ClientKeeps
<1>. QED  BY <1>4, <1>7 DEF StoreStep

LEMMA NextPageStep == ASSUME S3Inv, NEW c \in Clients, S3!NextPage(c) PROVE S3Inv' /\ StoreStep
<1>1. /\ UNCHANGED <<buckets, objects, mu, listing>> /\ dialogue[c].phase = "replied"
      /\ S3!AskList(c, listing[c].bucket, TRUE) /\ listing[c].on /\ ListingOK(listing[c])
  BY DEF S3!NextPage, S3Inv
<1>2. listing[c].bucket \in Buckets
  BY <1>1 DEF ListingOK, S3!Stopped
<1>3. PICK r \in S3!Store!Requests : dialogue' = [dialogue EXCEPT ![c] = S3!Store!Asked(r)]
  BY <1>1, <1>2, ListRequest DEF S3!AskList
<1>4. S3!Store!Next
  BY <1>1, <1>3, AsksStore
<1>5. listing' = [listing EXCEPT ![c] = listing[c]]
  BY <1>1 DEF S3Inv
<1>6. S3Inv'
  BY <1>1, <1>3, <1>5, ClientKeeps
<1>. QED  BY <1>4, <1>6 DEF StoreStep

LEMMA EndListingStep ==
  ASSUME S3Inv, NEW c \in Clients, S3!EndListing(c) PROVE S3Inv' /\ StoreStep
<1>1. /\ UNCHANGED <<buckets, objects, mu, dialogue>>
      /\ listing' = [listing EXCEPT ![c] = S3!Stopped] /\ ListingOK(S3!Stopped)
  BY DEF S3!EndListing, ListingOK
<1>2. S3Inv'
  BY <1>1, ClientKeeps
<1>. QED  BY <1>1, <1>2 DEF StoreStep, AStore, S3!Held_, S3!Dialogue

(* A client that comes in has asked, and the lock is free.                 *)
LEMMA FailStep ==
  ASSUME S3Inv, NEW c \in Clients, dialogue[c].phase = "asked", S3!LockFree, S3!Fail(c)
  PROVE  S3Inv' /\ StoreStep
<1> DEFINE r == dialogue[c].req
<1>1. /\ S3!FailsAtOnce(r) /\ S3!Reply(c, S3!Store!Fails) /\ UNCHANGED <<buckets, objects>>
      /\ listing' = [listing EXCEPT ![c] = S3!Stopped] /\ ListingOK(S3!Stopped)
  BY DEF S3!Fail, ListingOK
<1>2. BucketsOK /\ BucketsOK' /\ r \in S3!Store!Requests
  BY <1>1 DEF S3Inv, BucketsOK, DialogueOK
<1>3. S3Inv'
  BY <1>1, <1>2, ListingChanges, ReplyKeeps DEF S3!LockFree
<1>4. r.bucket \in Buckets
  BY <1>2, RequestFields
<1>5. ASSUME r.sound, r.op \notin {"put", "putBucket"}
      PROVE  S3!Store!Served(AStore, r) = {}
  <2>1. S3!Store!Empty \in S3!Content /\ NoBucket \notin S3!Content
    BY EmptyContent, S3Assumption DEF S3!S3Constants
  <2>2. CASE buckets[r.bucket] = 0
    <3>1. AStore[r.bucket] = NoBucket /\ AStore[r.bucket] # S3!Store!Empty
      BY <1>2, <1>4, <2>1, <2>2, Holds
    <3>. QED  BY <1>5, <3>1, ServedOps
  <2>3. CASE buckets[r.bucket] # 0
    <3>1. AStore[r.bucket] = objects[buckets[r.bucket]] /\ AStore[r.bucket] # NoBucket
      BY <1>2, <1>4, <2>3, Holds
    <3>2. CASE r.op = "other"
      BY <3>2, ServedOps
    <3>3. CASE r.op = "deleteBucket" /\ S3!Store!Held(objects[buckets[r.bucket]]) # {}
      BY <3>1, <3>3, EmptyContent, ServedOps
    <3>4. CASE r.op = "get" /\ objects[buckets[r.bucket]][r.key] = NoObject
      BY <3>1, <3>4, ServedOps DEF S3!Store!Held
    <3>. QED  BY <1>1, <1>5, <2>3, <3>2, <3>3, <3>4 DEF S3!FailsAtOnce, S3!BucketOf, S3!ObjectOf
  <2>. QED  BY <2>2, <2>3
<1>6. S3!Store!Next
  BY <1>1, <1>5, RefusesStore DEF S3!Reply
<1>. QED  BY <1>3, <1>6 DEF StoreStep

LEMMA BeginStep ==
  ASSUME S3Inv, NEW c \in Clients, dialogue[c].phase = "asked", S3!LockFree, S3!BeginToWait(c)
  PROVE  S3Inv' /\ StoreStep
<1>0. PICK r, b, d :
        /\ r = dialogue[c].req /\ b = S3!BucketOf(r)
        /\ d = [phase |-> "entered", req |-> r, bucket |-> b,
                object |-> IF r.op = "putBucket" THEN NoObject ELSE S3!ObjectOf(b, r)]
  OBVIOUS
<1>1. /\ ~ S3!FailsAtOnce(r) /\ S3!Waits(r) /\ mu' = c /\ UNCHANGED <<buckets, objects, listing>>
      /\ dialogue' = [dialogue EXCEPT ![c] = d]
  BY <1>0 DEF S3!BeginToWait
<1>2. /\ d.phase = "entered" /\ d.req = r /\ d.bucket = b
      /\ r.op # "putBucket" => d.object = S3!ObjectOf(b, r)
  BY <1>0
<1>3. r \in S3!Store!Requests
  BY <1>0 DEF S3Inv, DialogueOK
<1>4. dialogue'[c] = d /\ \A e \in Clients : e # c => dialogue'[e] = dialogue[e]
  BY <1>1 DEF S3Inv
<1>5. /\ ~ S3!FailsAtOnce(r)' /\ S3!Waits(r)' /\ S3!BucketOf(r)' = b
      /\ S3!ObjectOf(b, r)' = S3!ObjectOf(b, r)
  BY <1>0, <1>1 DEF S3!FailsAtOnce, S3!Waits, S3!BucketOf, S3!ObjectOf
<1>6. DialogueOK(c)'
  BY <1>1, <1>2, <1>3, <1>4, <1>5 DEF DialogueOK, EnteredOK
<1>7. ASSUME NEW e \in Clients, e # c PROVE DialogueOK(e)'
  <2>1. dialogue[e].phase # "entered" /\ DialogueOK(e) /\ dialogue'[e] = dialogue[e]
    BY <1>4, <1>7, Alone DEF S3Inv, S3!LockFree
  <2>. QED  BY <2>1 DEF DialogueOK
<1>8. BucketsOK' /\ dialogue' = [e \in Clients |-> dialogue'[e]]
  BY <1>1 DEF S3Inv, BucketsOK
<1>9. S3Inv'
  BY <1>1, <1>6, <1>7, <1>8, ListingStays DEF S3Inv
<1>10. AStore' = AStore
  BY <1>1 DEF AStore, S3!Held_
<1>11. S3!Dialogue' = S3!Dialogue
  <2>1. S3!Dialogue[c] = [phase |-> "asked", req |-> r]
    BY <1>0, Shown
  <2>2. \A e \in Clients : (IF dialogue'[e].phase = "entered"
                            THEN [phase |-> "asked", req |-> dialogue'[e].req] ELSE dialogue'[e])
                           = S3!Dialogue[e]
    BY <1>2, <1>4, <2>1 DEF S3!Dialogue
  <2>. QED  BY <2>2 DEF S3!Dialogue
<1>. QED  BY <1>9, <1>10, <1>11 DEF StoreStep

(* What Enter's other ways have in common.                                 *)
LEMMA Asks ==
  ASSUME S3Inv, NEW c \in Clients, dialogue[c].phase = "asked"
  PROVE  BucketsOK /\ dialogue[c].req \in S3!Store!Requests /\ dialogue[c].req.bucket \in Buckets
BY RequestFields DEF S3Inv, DialogueOK

LEMMA DeleteObjectStep ==
  ASSUME S3Inv, NEW c \in Clients, dialogue[c].phase = "asked", S3!LockFree, S3!DeleteObject(c)
  PROVE  S3Inv' /\ StoreStep
<1>0. PICK r, b : r = dialogue[c].req /\ b = S3!BucketOf(r)
  OBVIOUS
<1>1. /\ r.op = "delete" /\ ~ S3!FailsAtOnce(r) /\ S3!SetObject(b, r.key, NoObject)
      /\ S3!Reply(c, S3!Store!Succeeds) /\ b = buckets[r.bucket]
  BY <1>0 DEF S3!DeleteObject, S3!BucketOf
<1>2. BucketsOK /\ r \in S3!Store!Requests /\ r.bucket \in Buckets /\ r.key \in Keys
  BY <1>0, <1>1, Asks, RequestFields
<1>3. buckets[r.bucket] # 0
  BY <1>1 DEF S3!FailsAtOnce, S3!BucketOf
<1>4. BucketsOK' /\ AStore' = [AStore EXCEPT ![r.bucket][r.key] = NoObject]
  BY <1>1, <1>2, <1>3, ObjectChanges
<1>5. S3Inv'
  BY <1>1, <1>4, ListingKept, ReplyKeeps DEF S3!SetObject, S3!LockFree
<1>6. Serves(r, S3!Store!Succeeds)
  BY <1>1, <1>2, <1>3, <1>4, Holds, ServedOps DEF Serves
<1>7. S3!Store!Next
  BY <1>0, <1>1, <1>6, ServesStore
<1>. QED  BY <1>5, <1>7 DEF StoreStep

LEMMA DeleteBucketStep ==
  ASSUME S3Inv, NEW c \in Clients, dialogue[c].phase = "asked", S3!LockFree, S3!DeleteBucket(c)
  PROVE  S3Inv' /\ StoreStep
<1>0. PICK r : r = dialogue[c].req
  OBVIOUS
<1>1. /\ r.op = "deleteBucket" /\ ~ S3!FailsAtOnce(r)
      /\ buckets' = [buckets EXCEPT ![r.bucket] = 0]
      /\ S3!Reply(c, S3!Store!Succeeds) /\ UNCHANGED <<objects, listing>>
  BY <1>0 DEF S3!DeleteBucket
<1>2. BucketsOK /\ r.bucket \in Buckets
  BY <1>0, Asks
<1>3. /\ buckets' \in [Buckets -> Nat] /\ buckets'[r.bucket] = 0
      /\ \A n \in Buckets : n # r.bucket => buckets'[n] = buckets[n]
  BY <1>1, <1>2 DEF BucketsOK
<1>4. BucketsOK'
  BY <1>1, <1>2, <1>3 DEF BucketsOK
<1>5. AStore' = [AStore EXCEPT ![r.bucket] = NoBucket]
  BY <1>1, <1>3 DEF AStore, S3!Held_
<1>6. AStore[r.bucket] = S3!Store!Empty
  <2>1. buckets[r.bucket] # 0 /\ S3!Store!Held(objects[buckets[r.bucket]]) = {}
    BY <1>1 DEF S3!FailsAtOnce, S3!BucketOf
  <2>2. AStore[r.bucket] = objects[buckets[r.bucket]] /\ AStore[r.bucket] \in S3!Content
    BY <1>2, <2>1, Holds
  <2>. QED  BY <2>1, <2>2 DEF S3!Store!Held, S3!Store!Empty, S3!Content
<1>7. S3Inv'
  BY <1>1, <1>4, ListingStays, ReplyKeeps DEF S3!LockFree
<1>8. Serves(r, S3!Store!Succeeds)
  BY <1>1, <1>5, <1>6, ServedOps DEF Serves
<1>9. S3!Store!Next
  BY <1>0, <1>1, <1>8, ServesStore
<1>. QED  BY <1>7, <1>9 DEF StoreStep

LEMMA PutBucketAgainStep ==
  ASSUME S3Inv, NEW c \in Clients, dialogue[c].phase = "asked", S3!LockFree, S3!PutBucketAgain(c)
  PROVE  S3Inv' /\ StoreStep
<1>0. PICK r : r = dialogue[c].req
  OBVIOUS
<1>1. /\ r.op = "putBucket" /\ buckets[r.bucket] # 0 /\ S3!Reply(c, S3!Store!Succeeds)
      /\ UNCHANGED <<buckets, objects, listing>>
  BY <1>0 DEF S3!PutBucketAgain, S3!BucketOf
<1>2. BucketsOK /\ r.bucket \in Buckets
  BY <1>0, Asks
<1>3. BucketsOK' /\ AStore' = AStore
  BY <1>1, <1>2 DEF BucketsOK, AStore, S3!Held_
<1>4. AStore[r.bucket] # NoBucket
  BY <1>1, <1>2, Holds
<1>5. S3Inv'
  BY <1>1, <1>3, ListingStays, ReplyKeeps DEF S3!LockFree
<1>6. Serves(r, S3!Store!Succeeds)
  BY <1>1, <1>3, <1>4, ServedOps DEF Serves
<1>7. S3!Store!Next
  BY <1>0, <1>1, <1>6, ServesStore
<1>. QED  BY <1>5, <1>7 DEF StoreStep

(* A page leaves a listing as it is, but for its names and its marker.     *)
LEMMA ListedOK ==
  ASSUME NEW l, ListingOK(l), NEW page
  PROVE  ListingOK(S3!Listed(l, page))
<1>1. PICK names, more, marker :
        S3!Listed(l, page)
          = [[[l EXCEPT !.names = names] EXCEPT !.more = more] EXCEPT !.marker = marker]
  BY DEF S3!Listed
<1>2. CASE l = S3!Stopped
  <2>1. S3!Listed(l, page)
          = [[[S3!Stopped EXCEPT !.names = names] EXCEPT !.more = more] EXCEPT !.marker = marker]
    BY <1>1, <1>2, Zenon
  <2>. QED  BY <2>1 DEF ListingOK, S3!Stopped
<1>3. CASE l # S3!Stopped
  <2>1. PICK bucket, prefix, delimited, max, marker1, names1, more1, kept :
          /\ l = [on |-> TRUE, bucket |-> bucket, prefix |-> prefix, delimited |-> delimited,
                  max |-> max, marker |-> marker1, names |-> names1, more |-> more1,
                  kept |-> kept]
          /\ bucket \in Buckets
    BY <1>3 DEF ListingOK
  <2>2. S3!Listed(l, page)
          = [[[[on |-> TRUE, bucket |-> bucket, prefix |-> prefix, delimited |-> delimited,
                max |-> max, marker |-> marker1, names |-> names1, more |-> more1,
                kept |-> kept]
               EXCEPT !.names = names] EXCEPT !.more = more] EXCEPT !.marker = marker]
    BY <1>1, <2>1, Zenon
  <2>3. S3!Listed(l, page)
          = [on |-> TRUE, bucket |-> bucket, prefix |-> prefix, delimited |-> delimited,
             max |-> max, marker |-> marker, names |-> names, more |-> more, kept |-> kept]
    BY <2>2
  <2>4. PICK m : m = S3!Listed(l, page)
    OBVIOUS
  <2>5. /\ m = [on |-> TRUE, bucket |-> bucket, prefix |-> prefix, delimited |-> delimited,
                max |-> max, marker |-> marker, names |-> names, more |-> more, kept |-> kept]
        /\ m.bucket = bucket /\ m.prefix = prefix /\ m.delimited = delimited /\ m.max = max
        /\ m.marker = marker /\ m.names = names /\ m.more = more /\ m.kept = kept
    BY <2>3, <2>4
  <2>6. ListingOK(m)
    BY <2>1, <2>5 DEF ListingOK
  <2>. QED  BY <2>4, <2>6
<1>. QED  BY <1>2, <1>3

LEMMA ListBucketStep ==
  ASSUME S3Inv, NEW c \in Clients, dialogue[c].phase = "asked", S3!LockFree, S3!ListBucket(c)
  PROVE  S3Inv' /\ StoreStep
<1>0. PICK r, l : r = dialogue[c].req
                  /\ l = S3!Listed(listing[c],
                           S3!Page(S3!Store!Held(objects[S3!BucketOf(r)]), listing[c]))
  OBVIOUS
<1>1. /\ r.op = "list" /\ ~ S3!FailsAtOnce(r) /\ S3!Reply(c, S3!Store!Succeeds)
      /\ UNCHANGED <<buckets, objects>>
  BY <1>0 DEF S3!ListBucket
<1>2. listing' = [listing EXCEPT ![c] = l]
  BY <1>0 DEF S3!ListBucket
<1>3. ListingOK(l)
  BY <1>0, ListedOK DEF S3Inv
<1>4. BucketsOK /\ r.bucket \in Buckets /\ buckets[r.bucket] # 0
  BY <1>0, <1>1, Asks DEF S3!FailsAtOnce, S3!BucketOf
<1>5. BucketsOK' /\ AStore' = AStore
  BY <1>1, <1>4 DEF BucketsOK, AStore, S3!Held_
<1>6. AStore[r.bucket] # NoBucket
  BY <1>4, Holds
<1>7. S3Inv'
  BY <1>1, <1>2, <1>3, <1>5, ListingChanges, ReplyKeeps DEF S3!LockFree
<1>8. Serves(r, S3!Store!Succeeds)
  BY <1>1, <1>5, <1>6, ServedOps DEF Serves
<1>9. S3!Store!Next
  BY <1>0, <1>1, <1>8, ServesStore
<1>. QED  BY <1>7, <1>9 DEF StoreStep

(* A handler goes on with what it found, which is still so.                *)
LEMMA Entered ==
  ASSUME S3Inv, NEW c \in Clients, dialogue[c].phase = "entered"
  PROVE  /\ BucketsOK /\ EnteredOK(c) /\ mu = c
         /\ dialogue[c].req \in S3!Store!Requests /\ dialogue[c].req.bucket \in Buckets
BY RequestFields DEF S3Inv, DialogueOK, EnteredOK

LEMMA RefusedStep ==
  ASSUME S3Inv, NEW c \in Clients, S3!BodyIsRefused(c)
  PROVE  S3Inv' /\ StoreStep
<1>1. /\ dialogue[c].phase = "entered" /\ dialogue[c].req.op \in {"put", "putBucket"}
      /\ S3!Reply(c, S3!Store!Fails) /\ UNCHANGED <<buckets, objects, listing>>
  BY DEF S3!BodyIsRefused
<1>2. BucketsOK' /\ mu = c
  BY <1>1, Entered DEF BucketsOK
<1>3. S3Inv'
  BY <1>1, <1>2, ListingStays, ReplyKeeps
<1>4. S3!Store!Next
  BY <1>1, RefusesStore DEF S3!Reply
<1>. QED  BY <1>3, <1>4 DEF StoreStep

LEMMA PutObjectStep ==
  ASSUME S3Inv, NEW c \in Clients, S3!PutObject(c)
  PROVE  S3Inv' /\ StoreStep
<1>0. PICK r, b, old, new :
        /\ r = dialogue[c].req /\ b = dialogue[c].bucket /\ old = dialogue[c].object
        /\ new = [data |-> r.data,
                  type |-> IF r.type = NoType /\ old # NoObject THEN old.type ELSE r.type]
  OBVIOUS
<1>1. /\ dialogue[c].phase = "entered" /\ r.op = "put" /\ S3!SetObject(b, r.key, new)
      /\ S3!Reply(c, S3!Store!Succeeds)
  BY <1>0 DEF S3!PutObject
<1>2. /\ BucketsOK /\ mu = c /\ r \in S3!Store!Requests /\ r.bucket \in Buckets /\ r.key \in Keys
      /\ r.data \in Data /\ r.type \in Types \cup {NoType}
  BY <1>0, <1>1, Entered, RequestFields
<1>3. b = buckets[r.bucket] /\ old = objects[b][r.key] /\ b # 0
  BY <1>0, <1>1, Entered DEF EnteredOK, S3!BucketOf, S3!ObjectOf, S3!FailsAtOnce
<1>4. /\ AStore[r.bucket] = objects[b] /\ AStore[r.bucket] \in S3!Content
      /\ AStore[r.bucket] # NoBucket
  BY <1>2, <1>3, Holds
<1>5. old \in S3!Objects \cup {NoObject} /\ new \in S3!Objects
  <2>1. old \in S3!Objects \cup {NoObject}
    BY <1>2, <1>3, <1>4 DEF S3!Content
  <2>2. old # NoObject => old.type \in Types \cup {NoType}
    BY <2>1 DEF S3!Objects
  <2>. QED  BY <1>0, <1>2, <2>1, <2>2 DEF S3!Objects
<1>6. BucketsOK' /\ AStore' = [AStore EXCEPT ![r.bucket][r.key] = new]
  BY <1>1, <1>2, <1>3, <1>5, ObjectChanges
<1>7. new = S3!Store!Put(AStore[r.bucket][r.key], r)
  BY <1>0, <1>3, <1>4 DEF S3!Store!Put
<1>8. AStore' = [AStore EXCEPT ![r.bucket][r.key] = S3!Store!Put(@, r)]
  BY <1>2, <1>4, <1>6, <1>7 DEF S3!Content, AStore
<1>9. S3Inv'
  BY <1>1, <1>2, <1>6, ListingKept, ReplyKeeps DEF S3!SetObject
<1>10. Serves(r, S3!Store!Succeeds)
  BY <1>1, <1>4, <1>8, ServedOps DEF Serves
<1>11. S3!Store!Next
  BY <1>0, <1>1, <1>10, ServesStore
<1>. QED  BY <1>9, <1>11 DEF StoreStep

(* A bucket struct is made, and a name that had none gets it.              *)
LEMMA BucketIsMade ==
  ASSUME BucketsOK, NEW n \in Buckets, buckets[n] = 0,
         objects' = Append(objects, S3!Store!Empty),
         buckets' = [buckets EXCEPT ![n] = Len(objects) + 1]
  PROVE  BucketsOK' /\ AStore' = [AStore EXCEPT ![n] = S3!Store!Empty]
<1>1. /\ objects \in Seq(S3!Content) /\ S3!Store!Empty \in S3!Content /\ Len(objects) \in Nat
      /\ DOMAIN objects = 1 .. Len(objects)
  BY EmptyContent DEF BucketsOK
<1>2. /\ objects' \in Seq(S3!Content) /\ DOMAIN objects' = 1 .. Len(objects) + 1
      /\ objects'[Len(objects) + 1] = S3!Store!Empty
      /\ \A i \in 1 .. Len(objects) : objects'[i] = objects[i]
  BY <1>1
<1>3. /\ buckets' \in [Buckets -> Nat] /\ buckets'[n] = Len(objects) + 1
      /\ \A m \in Buckets : m # n => buckets'[m] = buckets[m]
  BY <1>1 DEF BucketsOK
<1>4. \A m \in Buckets : buckets[m] # 0 => buckets[m] \in 1 .. Len(objects)
  BY <1>1 DEF BucketsOK
<1>5. BucketsOK'
  BY <1>1, <1>2, <1>3, <1>4 DEF BucketsOK
<1>6. ASSUME NEW m \in Buckets
      PROVE  S3!Held_(m)' = IF m = n THEN S3!Store!Empty ELSE S3!Held_(m)
  BY <1>1, <1>2, <1>3, <1>4 DEF S3!Held_
<1>7. AStore' = [AStore EXCEPT ![n] = S3!Store!Empty]
  BY <1>6 DEF AStore
<1>. QED  BY <1>5, <1>7

LEMMA PutBucketStep ==
  ASSUME S3Inv, NEW c \in Clients, S3!PutBucket(c)
  PROVE  S3Inv' /\ StoreStep
<1>0. PICK r : r = dialogue[c].req
  OBVIOUS
<1>1. /\ dialogue[c].phase = "entered" /\ r.op = "putBucket"
      /\ objects' = Append(objects, S3!Store!Empty)
      /\ buckets' = [buckets EXCEPT ![r.bucket] = Len(objects) + 1]
      /\ S3!Reply(c, S3!Store!Succeeds) /\ UNCHANGED listing
  BY <1>0 DEF S3!PutBucket
<1>2. BucketsOK /\ mu = c /\ r.bucket \in Buckets
  BY <1>0, <1>1, Entered
<1>3. buckets[r.bucket] = 0
  BY <1>0, <1>1, Entered DEF EnteredOK, S3!Waits, S3!BucketOf
<1>4. BucketsOK' /\ AStore' = [AStore EXCEPT ![r.bucket] = S3!Store!Empty]
  BY <1>1, <1>2, <1>3, BucketIsMade
<1>5. AStore[r.bucket] = NoBucket
  BY <1>2, <1>3, Holds
<1>6. S3Inv'
  BY <1>1, <1>2, <1>4, ListingStays, ReplyKeeps
<1>7. Serves(r, S3!Store!Succeeds)
  BY <1>1, <1>4, <1>5, ServedOps DEF Serves
<1>8. S3!Store!Next
  BY <1>0, <1>1, <1>7, ServesStore
<1>. QED  BY <1>6, <1>8 DEF StoreStep

LEMMA GetObjectStep ==
  ASSUME S3Inv, NEW c \in Clients, S3!GetObject(c)
  PROVE  S3Inv' /\ StoreStep
<1>0. PICK r, o : r = dialogue[c].req /\ o = dialogue[c].object
  OBVIOUS
<1>1. /\ dialogue[c].phase = "entered" /\ r.op = "get" /\ S3!Reply(c, S3!Store!Shows(o))
      /\ UNCHANGED <<buckets, objects, listing>>
  BY <1>0 DEF S3!GetObject
<1>2. BucketsOK /\ mu = c /\ r \in S3!Store!Requests /\ r.bucket \in Buckets /\ r.key \in Keys
  BY <1>0, <1>1, Entered, RequestFields
<1>3. /\ buckets[r.bucket] # 0 /\ o = objects[buckets[r.bucket]][r.key]
      /\ objects[buckets[r.bucket]][r.key] # NoObject
  BY <1>0, <1>1, Entered DEF EnteredOK, S3!BucketOf, S3!ObjectOf, S3!FailsAtOnce
<1>4. BucketsOK' /\ AStore' = AStore
  BY <1>1, <1>2 DEF BucketsOK, AStore, S3!Held_
<1>5. AStore[r.bucket] = objects[buckets[r.bucket]] /\ AStore[r.bucket] # NoBucket
      /\ AStore[r.bucket] \in S3!Content
  BY <1>2, <1>3, Holds
<1>6. r.key \in S3!Store!Held(AStore[r.bucket]) /\ AStore[r.bucket][r.key] = o
  BY <1>2, <1>3, <1>5 DEF S3!Store!Held, S3!Content
<1>7. S3Inv'
  BY <1>1, <1>2, <1>4, ListingStays, ReplyKeeps
<1>8. Serves(r, S3!Store!Shows(o))
  BY <1>1, <1>4, <1>5, <1>6, ServedOps DEF Serves
<1>9. S3!Store!Next
  BY <1>0, <1>1, <1>8, ServesStore
<1>. QED  BY <1>7, <1>9 DEF StoreStep

LEMMA S3StepKeeps ==
  S3Inv /\ [S3!Next]_(S3!vars) => S3Inv' /\ [S3!Store!Next]_(S3!Store!storeVars)
<1>1. CASE UNCHANGED S3!vars
  <2>1. AStore' = AStore /\ S3!Dialogue' = S3!Dialogue
    BY <1>1 DEF S3!vars, AStore, S3!Held_, S3!Dialogue
  <2>2. S3Inv => S3Inv'
    BY <1>1 DEF S3!vars, S3Inv, BucketsOK, DialogueOK, EnteredOK, ListingOK, S3!FailsAtOnce,
                S3!Waits,
                S3!BucketOf, S3!ObjectOf
  <2>. QED  BY <2>1, <2>2 DEF S3!Store!storeVars, AStore
<1>2. ASSUME S3Inv, NEW c \in Clients, S3!Enter(c)
      PROVE  S3Inv' /\ StoreStep
  BY <1>2, FailStep, BeginStep, DeleteObjectStep, DeleteBucketStep, PutBucketAgainStep,
     ListBucketStep DEF S3!Enter
<1>3. ASSUME S3Inv, NEW c \in Clients, S3!Finish(c)
      PROVE  S3Inv' /\ StoreStep
  BY <1>3, RefusedStep, PutObjectStep, PutBucketStep, GetObjectStep DEF S3!Finish
<1>4. ASSUME S3Inv, S3!Next
      PROVE  S3Inv' /\ StoreStep
  BY <1>2, <1>3, <1>4, AskStep, StartListingStep, NextPageStep, EndListingStep DEF S3!Next
<1>5. StoreStep => [S3!Store!Next]_(S3!Store!storeVars)
  BY DEF StoreStep, S3!Store!storeVars, AStore
<1>. QED  BY <1>1, <1>4, <1>5

-----------------------------------------------------------------------------
(* The theorem *)

(* A step of the instance is one of the server or leaves it alone.         *)
LEMMA FakeSteps == [FakeNext]_fakeVars => [S3!Next]_(S3!vars)
BY DEF FakeNext, fakeVars, S3!vars, s3Vars, S3Step

(* The S3 server for tests implements a store of objects: each request     *)
(* takes effect whole, at one moment, and its reply fits what the store    *)
(* held then, although handlers wait for their peers halfway and buckets   *)
(* go and come back.                                                       *)
THEOREM ServerIsAStore == FakeSpec => IsAStore
<1>1. FakeInit => S3Inv /\ S3!Store!Init
  BY S3InitInv DEF FakeInit
<1>2. S3Inv /\ [FakeNext]_fakeVars => S3Inv' /\ [S3!Store!Next]_(S3!Store!storeVars)
  BY FakeSteps, S3StepKeeps
<1>. QED  BY <1>1, <1>2, PTL DEF FakeSpec, IsAStore, S3!IsAStore, S3!Store!Spec

-----------------------------------------------------------------------------
(* The order of keys.  A sequence ends with something below every number.  *)

Key == Seq(Nat)

At(k, i) == IF i <= Len(k) THEN k[i] + 1 ELSE 0

(* i is the first place where k and l differ, and k is lower there.        *)
Lower(k, l, i) == At(k, i) < At(l, i) /\ \A j \in 1 .. i - 1 : At(k, j) = At(l, j)

(* The numbers of a key, moved up by one to make room for its end.         *)
LEMMA AtType == ASSUME NEW k \in Key, NEW i \in Nat \ {0}
  PROVE  /\ At(k, i) \in Nat
         /\ i <= Len(k) => At(k, i) = k[i] + 1 /\ k[i] \in Nat
         /\ i > Len(k) => At(k, i) = 0
         /\ At(k, i) > 0 <=> i <= Len(k)
<1>1. Len(k) \in Nat /\ \A j \in 1 .. Len(k) : k[j] \in Nat
  BY DEF Key
<1>. QED  BY <1>1 DEF At

(* Keys that differ nowhere are the same.                                  *)
LEMMA SameKey ==
  ASSUME NEW k \in Key, NEW l \in Key, \A i \in Nat \ {0} : At(k, i) = At(l, i)
  PROVE  k = l
<1>1. Len(k) \in Nat /\ Len(l) \in Nat
  BY DEF Key
<1>2. Len(k) = Len(l)
  <2>1. CASE Len(k) < Len(l)
    <3>1. At(k, Len(l)) = At(l, Len(l)) /\ Len(l) \in Nat \ {0}
      BY <1>1, <2>1
    <3>. QED  BY <1>1, <2>1, <3>1, AtType
  <2>2. CASE Len(l) < Len(k)
    <3>1. At(k, Len(k)) = At(l, Len(k)) /\ Len(k) \in Nat \ {0}
      BY <1>1, <2>2
    <3>. QED  BY <1>1, <2>2, <3>1, AtType
  <2>. QED  BY <1>1, <2>1, <2>2
<1>3. ASSUME NEW i \in 1 .. Len(k) PROVE k[i] = l[i]
  <2>1. i \in Nat \ {0} /\ i <= Len(k) /\ i <= Len(l)
    BY <1>1, <1>2
  <2>2. At(k, i) = k[i] + 1 /\ k[i] \in Nat /\ At(l, i) = l[i] + 1 /\ l[i] \in Nat
    BY <2>1, AtType
  <2>. QED  BY <2>1, <2>2
<1>. QED  BY <1>2, <1>3, SeqEqual DEF Key

(* A set of numbers has a least one.                                       *)
LEMMA Least == ASSUME NEW T \in SUBSET Nat, T # {} PROVE \E x \in T : \A y \in T : x <= y
<1>1. PICK x \in T : \A y \in T : ~(<<y, x>> \in OpToRel(<, Nat))
  BY NatLessThanWellFounded, WFMin
<1>2. \A y \in T : ~(y < x)
  BY <1>1 DEF OpToRel
<1>. QED  BY <1>2

(* Induction, over a set.                                                  *)
LEMMA SetInduction ==
  ASSUME NEW T \in SUBSET Nat, 0 \in T, \A n \in T : n + 1 \in T
  PROVE  T = Nat
<1> SUFFICES ASSUME Nat \ T # {} PROVE FALSE
  OBVIOUS
<1>1. PICK x \in Nat \ T : \A y \in Nat \ T : x <= y
  BY Least
<1>2. x # 0 /\ x - 1 \in Nat /\ x - 1 \notin Nat \ T
  BY <1>1
<1>3. x - 1 + 1 = x
  OBVIOUS
<1>. QED  BY <1>2, <1>3

(* Before, in terms of At.                                                 *)
LEMMA BeforeAt ==
  ASSUME NEW k \in Key, NEW l \in Key
  PROVE  S3!Before(k, l) <=> \E i \in Nat \ {0} : Lower(k, l, i)
<1>1. PICK m \in Nat, n \in Nat : m = Len(k) /\ n = Len(l)
  BY DEF Key
<1>2. DOMAIN k = 1 .. m /\ DOMAIN l = 1 .. n
  BY <1>1 DEF Key
<1>3. ASSUME NEW i \in Nat, i <= m, i <= n
      PROVE  SubSeq(k, 1, i) = SubSeq(l, 1, i) <=> \A j \in 1 .. i : k[j] = l[j]
  <2>1. /\ SubSeq(k, 1, i) \in Seq(Nat) /\ Len(SubSeq(k, 1, i)) = i
        /\ SubSeq(l, 1, i) \in Seq(Nat) /\ Len(SubSeq(l, 1, i)) = i
        /\ \A j \in 1 .. i : SubSeq(k, 1, i)[j] = k[j]
        /\ \A j \in 1 .. i : SubSeq(l, 1, i)[j] = l[j]
    BY <1>1, <1>3, SubSeqProperties DEF Key
  <2>. QED  BY <2>1, SeqEqual
<1>4. ASSUME NEW i \in 1 .. m PROVE i \in Nat \ {0} /\ At(k, i) = k[i] + 1 /\ k[i] \in Nat
  BY <1>1, AtType
<1>5. ASSUME NEW i \in 1 .. n PROVE i \in Nat \ {0} /\ At(l, i) = l[i] + 1 /\ l[i] \in Nat
  BY <1>1, AtType
<1>6. ASSUME NEW i \in Nat, i <= m, i <= n
      PROVE  SubSeq(k, 1, i) = SubSeq(l, 1, i) <=> \A j \in 1 .. i : At(k, j) = At(l, j)
  <2>1. \A j \in 1 .. i : k[j] = l[j] <=> At(k, j) = At(l, j)
    BY <1>4, <1>5, <1>6
  <2>. QED  BY <1>3, <1>6, <2>1
<1>7. ASSUME S3!IsStrictPrefix(k, l) PROVE \E i \in Nat \ {0} : Lower(k, l, i)
  <2>1. m <= n /\ SubSeq(k, 1, m) = SubSeq(l, 1, m) /\ k # l
    BY <1>1, <1>7 DEF S3!IsStrictPrefix, S3!IsPrefix
  <2>2. \A j \in 1 .. m : At(k, j) = At(l, j) /\ k[j] = l[j]
    BY <1>3, <1>6, <2>1
  <2>3. m # n
    BY <1>1, <2>1, <2>2, SeqEqual DEF Key
  <2>4. m + 1 \in Nat \ {0} /\ m + 1 > m /\ m + 1 <= n
    BY <1>1, <2>1, <2>3
  <2>5. At(k, m + 1) = 0 /\ At(l, m + 1) > 0
    BY <1>1, <2>4, AtType
  <2>6. Lower(k, l, m + 1)
    BY <2>2, <2>5 DEF Lower
  <2>. QED  BY <2>6
<1>8. ASSUME NEW i \in DOMAIN k \cap DOMAIN l,
             SubSeq(k, 1, i - 1) = SubSeq(l, 1, i - 1), k[i] < l[i]
      PROVE  \E j \in Nat \ {0} : Lower(k, l, j)
  <2>1. i \in 1 .. m /\ i \in 1 .. n /\ i - 1 \in Nat /\ i - 1 <= m /\ i - 1 <= n
    BY <1>2, <1>8
  <2>2. \A j \in 1 .. i - 1 : At(k, j) = At(l, j)
    BY <1>6, <1>8, <2>1
  <2>3. At(k, i) < At(l, i)
    BY <1>4, <1>5, <1>8, <2>1
  <2>. QED  BY <2>1, <2>2, <2>3 DEF Lower
<1>9. ASSUME NEW i \in Nat \ {0}, Lower(k, l, i) PROVE S3!Before(k, l)
  <2>1. i <= n
    BY <1>1, <1>9, AtType DEF Lower
  <2>2. i - 1 <= m
    <3>1. CASE i = 1
      BY <3>1
    <3>2. CASE i # 1
      <4>1. i - 1 \in Nat \ {0} /\ i - 1 \in 1 .. i - 1 /\ i - 1 <= n
        BY <2>1, <3>2
      <4>2. At(k, i - 1) = At(l, i - 1)
        BY <1>9, <4>1 DEF Lower
      <4>. QED  BY <1>1, <4>1, <4>2, AtType
    <3>. QED  BY <3>1, <3>2
  <2>3. SubSeq(k, 1, i - 1) = SubSeq(l, 1, i - 1)
    BY <1>6, <1>9, <2>1, <2>2 DEF Lower
  <2>4. CASE i <= m
    <3>1. k[i] < l[i]
      BY <1>4, <1>5, <1>9, <2>1, <2>4 DEF Lower
    <3>. QED  BY <1>2, <2>1, <2>3, <2>4, <3>1 DEF S3!Before
  <2>5. CASE i > m
    <3>1. i - 1 = m /\ m <= n
      BY <2>1, <2>2, <2>5
    <3>2. k # l
      BY <1>1, <2>1, <2>5
    <3>3. S3!IsStrictPrefix(k, l)
      BY <1>1, <2>3, <3>1, <3>2 DEF S3!IsStrictPrefix, S3!IsPrefix
    <3>. QED  BY <3>3 DEF S3!Before
  <2>. QED  BY <2>4, <2>5
<1>. QED  BY <1>7, <1>8, <1>9 DEF S3!Before

(* The order is strict and total.                                          *)
LEMMA NotBeforeItself == ASSUME NEW k \in Key PROVE ~ S3!Before(k, k)
<1>1. \A i \in Nat \ {0} : ~ Lower(k, k, i)
  BY AtType DEF Lower
<1>. QED  BY <1>1, BeforeAt

LEMMA BeforeTransitive ==
  ASSUME NEW k \in Key, NEW l \in Key, NEW m \in Key, S3!Before(k, l), S3!Before(l, m)
  PROVE  S3!Before(k, m)
<1>1. PICK i \in Nat \ {0} : Lower(k, l, i)
  BY BeforeAt
<1>2. PICK j \in Nat \ {0} : Lower(l, m, j)
  BY BeforeAt
<1>3. \A h \in Nat \ {0} : At(k, h) \in Nat /\ At(l, h) \in Nat /\ At(m, h) \in Nat
  BY AtType
<1>4. CASE i <= j
  <2>1. Lower(k, m, i)
    BY <1>1, <1>2, <1>3, <1>4 DEF Lower
  <2>. QED  BY <2>1, BeforeAt
<1>5. CASE j < i
  <2>1. Lower(k, m, j)
    BY <1>1, <1>2, <1>3, <1>5 DEF Lower
  <2>. QED  BY <2>1, BeforeAt
<1>. QED  BY <1>4, <1>5

LEMMA BeforeTotal ==
  ASSUME NEW k \in Key, NEW l \in Key
  PROVE  k = l \/ S3!Before(k, l) \/ S3!Before(l, k)
<1> SUFFICES ASSUME k # l PROVE S3!Before(k, l) \/ S3!Before(l, k)
  OBVIOUS
<1> DEFINE T == {i \in Nat \ {0} : At(k, i) # At(l, i)}
<1>1. T # {}
  BY SameKey
<1>2. PICK i \in T : \A j \in T : i <= j
  BY <1>1, Least
<1>3. At(k, i) \in Nat /\ At(l, i) \in Nat /\ i \in Nat \ {0} /\ At(k, i) # At(l, i)
  BY AtType
<1>4. \A j \in 1 .. i - 1 : At(k, j) = At(l, j)
  <2>1. \A j \in 1 .. i - 1 : j \in Nat \ {0} /\ ~(i <= j)
    BY <1>3
  <2>. QED  BY <1>2, <2>1
<1>5. Lower(k, l, i) \/ Lower(l, k, i)
  BY <1>3, <1>4 DEF Lower
<1>. QED  BY <1>3, <1>5, BeforeAt

LEMMA NotBothBefore ==
  ASSUME NEW k \in Key, NEW l \in Key, S3!Before(k, l)
  PROVE  ~ S3!Before(l, k) /\ k # l
BY NotBeforeItself, BeforeTransitive

-----------------------------------------------------------------------------
(* The names that keys are listed under                                    *)

(* A listing, and a key that has its prefix.                               *)
Listing(q) == q.prefix \in Key /\ q.delimited \in BOOLEAN /\ q.max \in Nat
Grouped(k, q) == S3!Delimiters(k, q) # {}

(* Key k is listed under its first m numbers.                              *)
NameEnds(k, q, m) ==
  /\ m \in 0 .. Len(k) /\ S3!NameOf(k, q) \in Key /\ Len(S3!NameOf(k, q)) = m
  /\ \A i \in Nat \ {0} : At(S3!NameOf(k, q), i) = IF i <= m THEN At(k, i) ELSE 0
  /\ ~ Grouped(k, q) => m = Len(k) /\ S3!NameOf(k, q) = k
  /\ Grouped(k, q) => m \in S3!Delimiters(k, q) /\ \A j \in S3!Delimiters(k, q) : m <= j

(* A delimiter, seen from the order.                                       *)
LEMMA DelimiterAt ==
  ASSUME NEW q, Listing(q), NEW k \in Key, NEW i
  PROVE  i \in S3!Delimiters(k, q)
           <=> q.delimited /\ i \in Nat \ {0} /\ i > Len(q.prefix) /\ At(k, i) = 1
<1>1. Len(k) \in Nat /\ Len(q.prefix) \in Nat /\ \A j \in 1 .. Len(k) : k[j] \in Nat
  BY DEF Listing, Key
<1>2. i \in S3!Delimiters(k, q)
        <=> q.delimited /\ i \in Len(q.prefix) + 1 .. Len(k) /\ k[i] = 0
  BY DEF S3!Delimiters, Listing
<1>3. CASE i \in Nat \ {0}
  BY <1>1, <1>2, <1>3, AtType
<1>. QED  BY <1>1, <1>2, <1>3

LEMMA NameIs ==
  ASSUME NEW q, Listing(q), NEW k \in Key
  PROVE  \E m \in Nat : NameEnds(k, q, m)
<1>1. PICK n \in Nat : n = Len(k)
  BY DEF Key
<1>2. CASE ~ Grouped(k, q)
  <2>1. S3!NameOf(k, q) = k
    BY <1>2 DEF S3!NameOf, Grouped
  <2>2. \A i \in Nat \ {0} : At(k, i) = IF i <= n THEN At(k, i) ELSE 0
    BY <1>1, AtType
  <2>3. NameEnds(k, q, n)
    BY <1>1, <1>2, <2>1, <2>2 DEF NameEnds
  <2>. QED  BY <2>3
<1>3. CASE Grouped(k, q)
  <2> DEFINE D == S3!Delimiters(k, q)
  <2>1. D \in SUBSET Nat /\ D # {}
    BY <1>3, DelimiterAt DEF Grouped
  <2>2. \E m \in D : \A j \in D : m <= j
    BY <2>1, Least
  <2>3. PICK m : m = CHOOSE i \in D : \A j \in D : i <= j
    OBVIOUS
  <2>4. m \in D /\ \A j \in D : m <= j
    BY <2>2, <2>3
  <2>5. m \in Nat \ {0} /\ m <= n /\ At(k, m) = 1
    BY <1>1, <2>4, DelimiterAt, AtType
  <2>6. S3!NameOf(k, q) = SubSeq(k, 1, m)
    BY <1>3, <2>3 DEF S3!NameOf, Grouped
  <2>7. /\ SubSeq(k, 1, m) \in Key /\ Len(SubSeq(k, 1, m)) = m
        /\ \A i \in 1 .. m : SubSeq(k, 1, m)[i] = k[i]
    BY <1>1, <2>5, SubSeqProperties DEF Key
  <2>8. ASSUME NEW i \in Nat \ {0}
        PROVE  At(SubSeq(k, 1, m), i) = IF i <= m THEN At(k, i) ELSE 0
    BY <1>1, <2>5, <2>7 DEF At
  <2>. QED  BY <1>1, <1>3, <2>4, <2>5, <2>6, <2>7, <2>8 DEF NameEnds
<1>. QED  BY <1>2, <1>3

LEMMA NameIsKey == ASSUME NEW q, Listing(q), NEW k \in Key PROVE S3!NameOf(k, q) \in Key
BY NameIs DEF NameEnds

(* Names come in the order of their keys.                                  *)
LEMMA NamesInOrder ==
  ASSUME NEW q, Listing(q), NEW k \in Key, NEW l \in Key, S3!Before(k, l)
  PROVE  S3!NameOf(k, q) = S3!NameOf(l, q) \/ S3!Before(S3!NameOf(k, q), S3!NameOf(l, q))
<1>1. PICK a, b : a = S3!NameOf(k, q) /\ b = S3!NameOf(l, q)
  OBVIOUS
<1>2. PICK m \in Nat : NameEnds(k, q, m)
  BY NameIs
<1>3. PICK n \in Nat : NameEnds(l, q, n)
  BY NameIs
<1>4. PICK i \in Nat \ {0} : Lower(k, l, i)
  BY BeforeAt
<1>5. a \in Key /\ b \in Key /\ Len(k) \in Nat /\ Len(l) \in Nat /\ m <= Len(k) /\ n <= Len(l)
  BY <1>1, <1>2, <1>3 DEF NameEnds, Key
<1>6. ASSUME NEW j \in Nat \ {0}
      PROVE  /\ At(a, j) = IF j <= m THEN At(k, j) ELSE 0
             /\ At(b, j) = IF j <= n THEN At(l, j) ELSE 0
             /\ At(k, j) \in Nat /\ At(l, j) \in Nat
             /\ j <= n => At(l, j) > 0
  BY <1>1, <1>2, <1>3, <1>5, AtType DEF NameEnds
<1>7. At(k, i) < At(l, i) /\ \A j \in 1 .. i - 1 : j \in Nat \ {0} /\ At(k, j) = At(l, j)
  BY <1>4 DEF Lower
<1>8. CASE i <= m /\ i <= n
  <2>1. Lower(a, b, i)
    BY <1>6, <1>7, <1>8 DEF Lower
  <2>. QED  BY <1>1, <1>5, <2>1, BeforeAt
<1>9. CASE m < i /\ m < n
  <2>1. Lower(a, b, m + 1)
    <3>1. m + 1 \in Nat \ {0} /\ At(a, m + 1) = 0 /\ At(b, m + 1) > 0
      BY <1>6, <1>9
    <3>2. \A j \in 1 .. m : At(a, j) = At(b, j)
      BY <1>6, <1>7, <1>9
    <3>. QED  BY <3>1, <3>2 DEF Lower
  <2>. QED  BY <1>1, <1>5, <2>1, BeforeAt
<1>10. CASE m = n /\ n < i
  <2>1. \A j \in Nat \ {0} : At(a, j) = At(b, j)
    BY <1>6, <1>7, <1>10
  <2>. QED  BY <1>1, <1>5, <2>1, SameKey
<1>11. CASE n < i /\ n < m
  <2>1. i <= Len(l)
    BY <1>5, <1>6, <1>7, AtType
  <2>2. Grouped(l, q) /\ n \in S3!Delimiters(l, q)
    BY <1>3, <1>5, <1>11, <2>1 DEF NameEnds
  <2>3. At(k, n) = At(l, n)
    BY <1>7, <1>11, <2>2, DelimiterAt
  <2>4. n \in S3!Delimiters(k, q)
    BY <2>2, <2>3, DelimiterAt
  <2>5. m <= n
    BY <1>2, <2>4 DEF NameEnds, Grouped
  <2>. QED  BY <1>11, <2>5
<1>. QED  BY <1>8, <1>9, <1>10, <1>11

(* A name is that of a group exactly if its key is in one.                 *)
LEMMA GroupName ==
  ASSUME NEW q, Listing(q), NEW k \in Key
  PROVE  Grouped(S3!NameOf(k, q), q) <=> Grouped(k, q)
<1>1. PICK m \in Nat : NameEnds(k, q, m)
  BY NameIs
<1>2. S3!NameOf(k, q) \in Key
  BY NameIsKey
<1>3. CASE Grouped(k, q)
  <2>1. m \in S3!Delimiters(k, q)
    BY <1>1, <1>3 DEF NameEnds
  <2>2. At(S3!NameOf(k, q), m) = At(k, m) /\ m \in Nat \ {0}
    BY <1>1, <2>1, DelimiterAt DEF NameEnds
  <2>3. m \in S3!Delimiters(S3!NameOf(k, q), q)
    BY <1>2, <2>1, <2>2, DelimiterAt
  <2>. QED  BY <1>3, <2>3 DEF Grouped
<1>. QED  BY <1>1, <1>3 DEF NameEnds

(* A name is not empty.                                                    *)
LEMMA NameNotEmpty ==
  ASSUME NEW q, Listing(q), NEW k \in Key, k # <<>>
  PROVE  S3!NameOf(k, q) # <<>> /\ S3!Before(<<>>, S3!NameOf(k, q))
<1>1. PICK m \in Nat : NameEnds(k, q, m)
  BY NameIs
<1>2. S3!NameOf(k, q) \in Key /\ <<>> \in Key /\ Len(k) \in Nat
  BY NameIsKey DEF Key
<1>3. m > 0
  <2>1. Len(k) # 0
    BY EmptySeq DEF Key
  <2>2. CASE Grouped(k, q)
    BY <1>1, <2>2, DelimiterAt DEF NameEnds
  <2>. QED  BY <1>1, <2>1, <2>2 DEF NameEnds
<1>4. At(<<>>, 1) = 0 /\ At(S3!NameOf(k, q), 1) > 0
  <2>1. Len(<<>>) = 0
    OBVIOUS
  <2>. QED  BY <1>1, <1>2, <1>3, <2>1, AtType DEF NameEnds
<1>5. Lower(<<>>, S3!NameOf(k, q), 1)
  BY <1>4 DEF Lower
<1>6. S3!Before(<<>>, S3!NameOf(k, q))
  BY <1>2, <1>5, BeforeAt
<1>. QED  BY <1>2, <1>6, NotBeforeItself

-----------------------------------------------------------------------------
(* Sorting *)

LEMMA S3Count == /\ \A S : S3!Cardinality(S) = Cardinality(S)
                 /\ \A f : S3!IsInjective(f) <=> IsInjective(f)
BY DEF S3!Cardinality, Cardinality, S3!IsInjective, IsInjective

Increasing(s) == \A i, j \in DOMAIN s : i < j => S3!Before(s[i], s[j])

(* Keys have their places in a sequence, one after the other.              *)
LEMMA SortedExists ==
  ASSUME NEW S \in SUBSET Key, IsFiniteSet(S)
  PROVE  \E s \in [1 .. Cardinality(S) -> S] : Increasing(s)
<1> DEFINE Below(x) == {y \in S : S3!Before(y, x)}
           n == Cardinality(S)
           rank == [x \in S |-> Cardinality(Below(x)) + 1]
<1>1. n \in Nat
  BY FS_CardinalityType
<1>2. ASSUME NEW x \in S
      PROVE  IsFiniteSet(Below(x)) /\ Cardinality(Below(x)) \in Nat /\ x \notin Below(x)
  BY FS_Subset, FS_CardinalityType, NotBeforeItself
<1>3. ASSUME NEW x \in S, NEW T \in SUBSET S, Below(x) \cup {x} \subseteq T
      PROVE  Cardinality(Below(x)) + 1 <= Cardinality(T) /\ Cardinality(T) \in Nat
  <2>1. IsFiniteSet(T)
    BY FS_Subset
  <2>2. Cardinality(Below(x) \cup {x}) = Cardinality(Below(x)) + 1
    BY <1>2, FS_AddElement
  <2>3. Cardinality(Below(x) \cup {x}) <= Cardinality(T)
    BY <1>3, <2>1, FS_Subset
  <2>. QED  BY <2>1, <2>2, <2>3, FS_CardinalityType
<1>4. ASSUME NEW x \in S, NEW y \in S, S3!Before(x, y)
      PROVE  rank[x] < rank[y]
  <2>1. Below(x) \cup {x} \subseteq Below(y)
    BY <1>4, BeforeTransitive
  <2>2. Cardinality(Below(x)) + 1 <= Cardinality(Below(y)) /\ Cardinality(Below(y)) \in Nat
    BY <1>3, <2>1
  <2>3. Cardinality(Below(x)) \in Nat
    BY <1>2
  <2>4. rank[x] = Cardinality(Below(x)) + 1 /\ rank[y] = Cardinality(Below(y)) + 1
    OBVIOUS
  <2> HIDE DEF rank, Below
  <2>. QED  BY <2>2, <2>3, <2>4
<1>5. \A x \in S : rank[x] \in 1 .. n
  <2> SUFFICES ASSUME NEW x \in S PROVE rank[x] \in 1 .. n
    OBVIOUS
  <2>1. Cardinality(Below(x)) + 1 <= n
    BY <1>3
  <2>. QED  BY <1>1, <1>2, <2>1
<1>6. rank \in [S -> 1 .. n]
  BY <1>5
<1> HIDE DEF rank, n
<1>7. \A x, y \in S : rank[x] = rank[y] => x = y
  <2> SUFFICES ASSUME NEW x \in S, NEW y \in S, rank[x] = rank[y] PROVE x = y
    OBVIOUS
  <2>1. rank[x] \in Nat /\ rank[y] \in Nat
    BY <1>5
  <2>2. x = y \/ S3!Before(x, y) \/ S3!Before(y, x)
    BY BeforeTotal
  <2>. QED  BY <1>4, <2>1, <2>2
<1>8. rank \in Injection(S, 1 .. n)
  BY <1>6, <1>7 DEF Injection, IsInjective
<1>9. IsFiniteSet(1 .. n) /\ Cardinality(1 .. n) = n
  BY <1>1, FS_Interval
<1>10. rank \in Surjection(S, 1 .. n)
  BY <1>8, <1>9, FS_Injection DEF n
<1>11. \A i \in 1 .. n : \E x \in S : rank[x] = i
  BY <1>10 DEF Surjection
<1> DEFINE s == [i \in 1 .. n |-> CHOOSE x \in S : rank[x] = i]
<1>12. s \in [1 .. n -> S] /\ \A i \in 1 .. n : rank[s[i]] = i
  BY <1>11
<1> HIDE DEF s
<1>13. ASSUME NEW i \in 1 .. n, NEW j \in 1 .. n, i < j PROVE S3!Before(s[i], s[j])
  <2>1. s[i] \in S /\ s[j] \in S /\ rank[s[i]] = i /\ rank[s[j]] = j
    BY <1>12
  <2>2. s[i] = s[j] \/ S3!Before(s[i], s[j]) \/ S3!Before(s[j], s[i])
    BY <2>1, BeforeTotal
  <2>. QED  BY <1>1, <1>4, <1>13, <2>1, <2>2
<1>14. Increasing(s)
  BY <1>12, <1>13 DEF Increasing
<1>. QED  BY <1>12, <1>14 DEF n

LEMMA SortedIs ==
  ASSUME NEW S \in SUBSET Key, IsFiniteSet(S)
  PROVE  /\ S3!Sorted(S) \in Seq(Key) /\ Increasing(S3!Sorted(S))
         /\ Len(S3!Sorted(S)) \in Nat /\ DOMAIN S3!Sorted(S) = 1 .. Len(S3!Sorted(S))
         /\ \A i \in 1 .. Len(S3!Sorted(S)) : S3!Sorted(S)[i] \in S
         /\ \A x \in S : \E i \in 1 .. Len(S3!Sorted(S)) : S3!Sorted(S)[i] = x
<1> DEFINE P(s) == \A i, j \in DOMAIN s : i < j => S3!Before(s[i], s[j])
<1>1. PICK n \in Nat : n = Cardinality(S) /\ S3!Cardinality(S) = n
  BY S3Count, FS_CardinalityType
<1>2. \E s \in [1 .. n -> S] : P(s)
  BY <1>1, SortedExists DEF Increasing
<1>3. S3!Sorted(S) = CHOOSE s \in [1 .. n -> S] : P(s)
  BY <1>1 DEF S3!Sorted
<1> HIDE DEF P
<1>4. PICK s : s = S3!Sorted(S)
  OBVIOUS
<1>5. s \in [1 .. n -> S] /\ P(s)
  BY <1>2, <1>3, <1>4
<1>6. Increasing(s)
  BY <1>5 DEF P, Increasing
<1>7. s \in Seq(Key) /\ Len(s) = n /\ DOMAIN s = 1 .. n
  BY <1>5
<1>8. \A i, j \in 1 .. n : s[i] = s[j] => i = j
  <2> SUFFICES ASSUME NEW i \in 1 .. n, NEW j \in 1 .. n, s[i] = s[j] PROVE i = j
    OBVIOUS
  <2>1. s[i] \in Key /\ ~ S3!Before(s[i], s[i])
    BY <1>5, NotBeforeItself
  <2>2. ~(i < j) /\ ~(j < i)
    BY <1>6, <1>7, <2>1 DEF Increasing
  <2>. QED  BY <2>2
<1>9. s \in Injection(1 .. n, S)
  BY <1>5, <1>7, <1>8 DEF Injection, IsInjective
<1>10. Cardinality(1 .. n) = n
  BY FS_Interval
<1>11. s \in Surjection(1 .. n, S)
  BY <1>1, <1>9, <1>10, FS_Injection
<1>12. \A x \in S : \E i \in 1 .. n : s[i] = x
  BY <1>11 DEF Surjection
<1>. QED  BY <1>4, <1>5, <1>6, <1>7, <1>12

-----------------------------------------------------------------------------
(* The turns of the loop that makes a page                                 *)

(* There is a function that goes on as the recursion says, and so Turns is *)
(* one.                                                                    *)
LEMMA TurnsAre ==
  ASSUME NEW q, NEW s \in Seq(Key)
  PROVE  /\ S3!Turns(q, s)[0] = S3!EmptyPage
         /\ \A n \in Nat : n < Len(s) =>
              S3!Turns(q, s)[n + 1] = S3!Turn(q, S3!Turns(q, s)[n], s[n + 1])
<1> DEFINE Body(f, n) == IF n = 0 THEN S3!EmptyPage ELSE S3!Turn(q, f[n - 1], s[n])
           T == {m \in Nat : m <= Len(s) => \E f : f = [n \in 0 .. m |-> Body(f, n)]}
<1>0. Len(s) \in Nat
  OBVIOUS
<1>1. 0 \in T
  <2> DEFINE f == [n \in 0 .. 0 |-> S3!EmptyPage]
  <2>1. f = [n \in 0 .. 0 |-> Body(f, n)]
    OBVIOUS
  <2>. QED  BY <2>1
<1>2. ASSUME NEW m \in T PROVE m + 1 \in T
  <2> SUFFICES ASSUME m + 1 <= Len(s) PROVE \E f : f = [n \in 0 .. m + 1 |-> Body(f, n)]
    OBVIOUS
  <2>1. PICK f : f = [n \in 0 .. m |-> Body(f, n)]
    BY <1>0
  <2>2. PICK v : v = S3!Turn(q, f[m], s[m + 1])
    OBVIOUS
  <2> DEFINE g == [n \in 0 .. m + 1 |-> IF n <= m THEN f[n] ELSE v]
  <2>3. \A n \in 0 .. m : g[n] = f[n] /\ f[n] = Body(f, n)
    BY <2>1
  <2>4. g[m + 1] = v
    OBVIOUS
  <2>5. ASSUME NEW n \in 0 .. m + 1 PROVE g[n] = Body(g, n)
    <3>1. CASE n = 0
      <4>1. 0 \in 0 .. m
        OBVIOUS
      <4>2. g[0] = f[0] /\ f[0] = S3!EmptyPage
        BY <2>3, <4>1
      <4>. QED  BY <3>1, <4>2
    <3>2. CASE n = m + 1
      <4>1. n - 1 = m /\ n # 0 /\ g[n - 1] = f[m]
        BY <2>3, <3>2
      <4>. QED  BY <2>2, <2>4, <3>2, <4>1
    <3>3. CASE n # 0 /\ n # m + 1
      <4>1. n \in 0 .. m /\ n - 1 \in 0 .. m
        BY <3>3
      <4>2. g[n] = f[n] /\ f[n] = S3!Turn(q, f[n - 1], s[n]) /\ g[n - 1] = f[n - 1]
        BY <2>3, <3>3, <4>1
      <4>. QED  BY <3>3, <4>2
    <3>. QED  BY <3>1, <3>2, <3>3
  <2>6. g = [n \in 0 .. m + 1 |-> g[n]]
    OBVIOUS
  <2> HIDE DEF g
  <2>7. g = [n \in 0 .. m + 1 |-> Body(g, n)]
    BY <2>5, <2>6, Zenon
  <2>. QED  BY <2>7
<1>3. T = Nat
  <2>1. T \in SUBSET Nat
    OBVIOUS
  <2> HIDE DEF T
  <2>. QED  BY <1>1, <1>2, <2>1, SetInduction
<1>4. PICK f : f = [n \in 0 .. Len(s) |-> Body(f, n)]
  BY <1>0, <1>3
<1> DEFINE P(g) == g = [n \in 0 .. Len(s) |-> Body(g, n)]
<1>5. S3!Turns(q, s) = CHOOSE g : P(g)
  BY DEF S3!Turns
<1>6. P(f)
  BY <1>4
<1> HIDE DEF P
<1>7. P(S3!Turns(q, s))
  BY <1>5, <1>6
<1>8. PICK t : t = S3!Turns(q, s)
  OBVIOUS
<1>9. t = [n \in 0 .. Len(s) |-> Body(t, n)]
  BY <1>7, <1>8 DEF P
<1>10. t[0] = S3!EmptyPage
  BY <1>0, <1>9
<1>11. ASSUME NEW n \in Nat, n < Len(s) PROVE t[n + 1] = S3!Turn(q, t[n], s[n + 1])
  <2>1. n + 1 \in 0 .. Len(s) /\ n + 1 # 0 /\ n + 1 - 1 = n
    BY <1>0, <1>11
  <2>2. t[n + 1] = Body(t, n + 1)
    BY <1>9, <2>1
  <2>. QED  BY <2>1, <2>2
<1>. QED  BY <1>8, <1>10, <1>11

In(x, s) == \E i \in 1 .. Len(s) : s[i] = x
Differ(s) == \A i, j \in 1 .. Len(s) : s[i] = s[j] => i = j

LEMMA InIsToSet == ASSUME NEW S, NEW s \in Seq(S), NEW x
  PROVE  (x \in S3!ToSet(s) <=> In(x, s)) /\ (In(x, s) => x \in S)
BY DEF S3!ToSet, In

LEMMA InAppend ==
  ASSUME NEW s \in Seq(Key), NEW k \in Key
  PROVE  /\ Append(s, k) \in Seq(Key) /\ Len(Append(s, k)) = Len(s) + 1
         /\ \A x : In(x, Append(s, k)) <=> In(x, s) \/ x = k
         /\ S3!Last(Append(s, k)) = k /\ Append(s, k) # <<>>
         /\ Differ(s) /\ ~ In(k, s) => Differ(Append(s, k))
<1>0. Append(s, k) \in Seq(Key) /\ Len(s) \in Nat
  OBVIOUS
<1>1. PICK t \in Seq(Key), n \in Nat : t = Append(s, k) /\ n = Len(s)
  BY <1>0, Zenon
<1>2. t \in Seq(Key) /\ Len(t) = n + 1 /\ t[n + 1] = k /\ \A i \in 1 .. n : t[i] = s[i]
  BY <1>1
<1>3. ASSUME NEW x PROVE In(x, t) <=> In(x, s) \/ x = k
  BY <1>1, <1>2 DEF In
<1>4. S3!Last(t) = k /\ t # <<>>
  BY <1>2 DEF S3!Last
<1>5. ASSUME Differ(s), ~ In(k, s) PROVE Differ(t)
  BY <1>1, <1>2, <1>5 DEF Differ, In
<1>. QED  BY <1>1, <1>2, <1>3, <1>4, <1>5

LEMMA InConcat ==
  ASSUME NEW s \in Seq(Key), NEW t \in Seq(Key)
  PROVE  /\ s \o t \in Seq(Key) /\ \A x : In(x, s \o t) <=> In(x, s) \/ In(x, t)
         /\ Differ(s) /\ Differ(t) /\ (\A x : ~(In(x, s) /\ In(x, t))) => Differ(s \o t)
<1>0. s \o t \in Seq(Key) /\ Len(s) \in Nat /\ Len(t) \in Nat
  OBVIOUS
<1>1. PICK u \in Seq(Key), m \in Nat, n \in Nat : u = s \o t /\ m = Len(s) /\ n = Len(t)
  BY <1>0, Zenon
<1>2. /\ u \in Seq(Key) /\ Len(u) = m + n
      /\ \A i \in 1 .. m + n : u[i] = IF i <= m THEN s[i] ELSE t[i - m]
  BY <1>1
<1>3. ASSUME NEW x PROVE In(x, u) <=> In(x, s) \/ In(x, t)
  <2>1. ASSUME NEW i \in 1 .. m, s[i] = x PROVE In(x, u)
    <3>1. i \in 1 .. m + n /\ u[i] = x
      BY <1>2, <2>1
    <3>. QED  BY <1>2, <3>1 DEF In
  <2>2. ASSUME NEW i \in 1 .. n, t[i] = x PROVE In(x, u)
    <3>1. m + i \in 1 .. m + n /\ ~(m + i <= m) /\ m + i - m = i
      OBVIOUS
    <3>2. u[m + i] = x
      BY <1>2, <2>2, <3>1
    <3>. QED  BY <1>2, <3>1, <3>2 DEF In
  <2>3. ASSUME NEW i \in 1 .. m + n, u[i] = x PROVE In(x, s) \/ In(x, t)
    BY <1>1, <1>2, <2>3 DEF In
  <2>. QED  BY <1>1, <1>2, <2>1, <2>2, <2>3 DEF In
<1>4. ASSUME Differ(s), Differ(t), \A x : ~(In(x, s) /\ In(x, t)) PROVE Differ(u)
  <2> SUFFICES ASSUME NEW i \in 1 .. m + n, NEW j \in 1 .. m + n, u[i] = u[j] PROVE i = j
    BY <1>2 DEF Differ
  <2>1. CASE i <= m /\ j <= m
    BY <1>1, <1>2, <1>4, <2>1 DEF Differ
  <2>2. CASE i > m /\ j > m
    <3>1. i - m \in 1 .. n /\ j - m \in 1 .. n /\ t[i - m] = t[j - m]
      BY <1>2, <2>2
    <3>2. i - m = j - m
      BY <1>1, <1>4, <3>1 DEF Differ
    <3>. QED  BY <3>2
  <2>3. CASE i <= m /\ j > m
    <3>1. i \in 1 .. m /\ j - m \in 1 .. n /\ s[i] = t[j - m]
      BY <1>2, <2>3
    <3>. QED  BY <1>1, <1>4, <3>1 DEF In
  <2>4. CASE i > m /\ j <= m
    <3>1. j \in 1 .. m /\ i - m \in 1 .. n /\ s[j] = t[i - m]
      BY <1>2, <2>4
    <3>. QED  BY <1>1, <1>4, <3>1 DEF In
  <2>. QED  BY <2>1, <2>2, <2>3, <2>4
<1>. QED  BY <1>1, <1>2, <1>3, <1>4

-----------------------------------------------------------------------------
(* What a page holds after n turns *)

OnPage(x, page) == In(x, page.contents) \/ In(x, page.prefixes)

PageTyped(q, page) ==
  /\ page = [contents |-> page.contents, prefixes |-> page.prefixes, truncated |-> page.truncated]
  /\ page.contents \in Seq(Key) /\ Differ(page.contents)
  /\ page.prefixes \in Seq(Key) /\ Differ(page.prefixes)
  /\ page.truncated \in BOOLEAN
  /\ \A x : In(x, page.contents) => ~ Grouped(x, q)
  /\ \A x : In(x, page.prefixes) =>
       /\ Grouped(x, q)
       /\ x = S3!Last(page.prefixes) \/ S3!Before(x, S3!Last(page.prefixes))

(* The names on the page are those of keys the loop has come by.           *)
FromTurns(q, s, n, page) ==
  \A x : OnPage(x, page) => \E i \in 1 .. n : x = S3!NameOf(s[i], q) /\ ~ S3!Passed(s[i], q)

Covered(q, page, k) == S3!Passed(k, q) \/ OnPage(S3!NameOf(k, q), page)

(* The loop stopped at turn t, with something on the page, all of it       *)
(* before what comes then.                                                 *)
StoppedAt(q, s, t, page) ==
  /\ \E x : OnPage(x, page)
  /\ \A i \in 1 .. t - 1 : Covered(q, page, s[i])
  /\ \A x : OnPage(x, page) => S3!Before(x, S3!NameOf(s[t], q))

PageOK(q, s, n, page) ==
  /\ PageTyped(q, page) /\ FromTurns(q, s, n, page)
  /\ ~ page.truncated => \A i \in 1 .. n : Covered(q, page, s[i])
  /\ page.truncated => \E t \in 1 .. n : StoppedAt(q, s, t, page)

Candidates(q, s) == Listing(q) /\ s \in Seq(Key) /\ Increasing(s)

(* Before the first turn.                                                  *)
LEMMA EmptyPageOK == ASSUME NEW q, NEW s PROVE PageOK(q, s, 0, S3!EmptyPage)
<1>1. PICK page : page = S3!EmptyPage
  OBVIOUS
<1>2. page = [contents |-> <<>>, prefixes |-> <<>>, truncated |-> FALSE]
  BY <1>1 DEF S3!EmptyPage
<1>3. page.contents = <<>> /\ page.prefixes = <<>> /\ page.truncated = FALSE
  BY <1>2
<1>4. Len(<<>>) = 0 /\ <<>> \in Seq(Key)
  OBVIOUS
<1>5. \A x : ~ In(x, <<>>)
  BY <1>4 DEF In
<1>6. Differ(<<>>)
  BY <1>4 DEF Differ
<1>7. PageTyped(q, page)
  BY <1>2, <1>3, <1>4, <1>5, <1>6 DEF PageTyped
<1>8. FromTurns(q, s, 0, page)
  BY <1>3, <1>5 DEF FromTurns, OnPage
<1>. QED  BY <1>1, <1>3, <1>7, <1>8 DEF PageOK

Repeated(q, page, k) ==
  Grouped(k, q) /\ page.prefixes # <<>> /\ S3!Last(page.prefixes) = S3!NameOf(k, q)

LEMMA LastIn == ASSUME NEW s \in Seq(Key), s # <<>> PROVE In(S3!Last(s), s)
<1>1. Len(s) \in 1 .. Len(s)
  BY EmptySeq
<1>. QED  BY <1>1 DEF In, S3!Last

(* A name that does not repeat the last group's comes after all others.    *)
LEMMA Fresh ==
  ASSUME NEW q, NEW s, Candidates(q, s), NEW n \in Nat, n < Len(s), NEW page,
         PageTyped(q, page), FromTurns(q, s, n, page), ~ Repeated(q, page, s[n + 1]),
         NEW x, OnPage(x, page)
  PROVE  S3!Before(x, S3!NameOf(s[n + 1], q))
<1>1. PICK k : k = s[n + 1]
  OBVIOUS
<1>2. /\ s \in Seq(Key) /\ Listing(q) /\ Len(s) \in Nat /\ DOMAIN s = 1 .. Len(s) /\ k \in Key
  BY <1>1 DEF Candidates
<1>3. ASSUME NEW i \in 1 .. n
      PROVE  /\ s[i] \in Key /\ S3!Before(s[i], k) /\ S3!NameOf(s[i], q) \in Key
             /\ S3!NameOf(s[i], q) = S3!NameOf(k, q)
                  \/ S3!Before(S3!NameOf(s[i], q), S3!NameOf(k, q))
  <2>1. i \in 1 .. Len(s) /\ n + 1 \in 1 .. Len(s) /\ i < n + 1
    BY <1>2
  <2>2. s[i] \in Key /\ S3!Before(s[i], k)
    BY <1>1, <1>2, <2>1 DEF Candidates, Increasing
  <2>. QED  BY <1>2, <2>2, NamesInOrder, NameIsKey
<1>4. PICK nm \in Key : nm = S3!NameOf(k, q)
  BY <1>2, NameIsKey
<1>5. PICK i \in 1 .. n : x = S3!NameOf(s[i], q)
  BY DEF FromTurns
<1>6. x \in Key /\ (x = nm \/ S3!Before(x, nm))
  BY <1>3, <1>4, <1>5
<1>7. ASSUME x = nm, In(x, page.prefixes) PROVE FALSE
  <2>1. Grouped(k, q)
    BY <1>2, <1>4, <1>7, GroupName DEF PageTyped
  <2>2. page.prefixes \in Seq(Key) /\ page.prefixes # <<>>
    <3>1. page.prefixes \in Seq(Key)
      BY DEF PageTyped
    <3>2. page.prefixes # <<>>
      <4>1. Len(<<>>) = 0
        OBVIOUS
      <4>2. ~ In(x, <<>>)
        BY <4>1 DEF In
      <4>. QED  BY <1>7, <4>2
    <3>. QED  BY <3>1, <3>2
  <2>3. PICK last : last = S3!Last(page.prefixes)
    OBVIOUS
  <2>4. In(last, page.prefixes) /\ OnPage(last, page)
    BY <2>2, <2>3, LastIn DEF OnPage
  <2>5. last \in Key /\ (last = nm \/ S3!Before(last, nm))
    <3>1. PICK j \in 1 .. n : last = S3!NameOf(s[j], q)
      BY <2>4 DEF FromTurns
    <3>. QED  BY <1>3, <1>4, <3>1
  <2>6. nm = last \/ S3!Before(nm, last)
    BY <1>7, <2>3 DEF PageTyped
  <2>7. last = nm
    BY <2>5, <2>6, NotBothBefore
  <2>. QED  BY <1>1, <1>4, <2>1, <2>2, <2>3, <2>7 DEF Repeated
<1>8. ASSUME x = nm, In(x, page.contents) PROVE FALSE
  <2>1. ~ Grouped(k, q) /\ ~ Grouped(s[i], q)
    <3>1. ~ Grouped(x, q)
      BY <1>8 DEF PageTyped
    <3>2. Grouped(x, q) <=> Grouped(s[i], q)
      BY <1>2, <1>3, <1>5, GroupName
    <3>3. Grouped(x, q) <=> Grouped(k, q)
      BY <1>2, <1>4, <1>8, GroupName
    <3>. QED  BY <3>1, <3>2, <3>3
  <2>2. nm = k /\ x = s[i]
    BY <1>4, <1>5, <2>1 DEF S3!NameOf, Grouped
  <2>. QED  BY <1>2, <1>3, <1>8, <2>2, NotBeforeItself
<1>. QED  BY <1>1, <1>4, <1>6, <1>7, <1>8 DEF OnPage

(* A name is put on a page at its end.                                     *)
LEMMA NameAdded ==
  ASSUME NEW q, NEW s, Candidates(q, s), NEW n \in Nat, n < Len(s), NEW page, NEW new,
         PageOK(q, s, n, page), ~ page.truncated, PageTyped(q, new), ~ new.truncated,
         ~ S3!Passed(s[n + 1], q),
         \A x : OnPage(x, new) <=> OnPage(x, page) \/ x = S3!NameOf(s[n + 1], q)
  PROVE  PageOK(q, s, n + 1, new)
<1>1. FromTurns(q, s, n + 1, new)
  <2> SUFFICES ASSUME NEW x, OnPage(x, new)
               PROVE  \E i \in 1 .. n + 1 : x = S3!NameOf(s[i], q) /\ ~ S3!Passed(s[i], q)
    BY DEF FromTurns
  <2>1. n + 1 \in 1 .. n + 1 /\ \A i \in 1 .. n : i \in 1 .. n + 1
    OBVIOUS
  <2>2. CASE x = S3!NameOf(s[n + 1], q)
    BY <2>1, <2>2
  <2>3. CASE OnPage(x, page)
    <3>1. PICK i \in 1 .. n : x = S3!NameOf(s[i], q) /\ ~ S3!Passed(s[i], q)
      BY <2>3 DEF PageOK, FromTurns
    <3>. QED  BY <2>1, <3>1
  <2>. QED  BY <2>2, <2>3
<1>2. \A i \in 1 .. n + 1 : Covered(q, new, s[i])
  <2> SUFFICES ASSUME NEW i \in 1 .. n + 1 PROVE Covered(q, new, s[i])
    OBVIOUS
  <2>1. CASE i = n + 1
    BY <2>1 DEF Covered
  <2>2. CASE i # n + 1
    <3>1. i \in 1 .. n
      BY <2>2
    <3>2. Covered(q, page, s[i])
      BY <3>1 DEF PageOK
    <3>. QED  BY <3>2 DEF Covered
  <2>. QED  BY <2>1, <2>2
<1>. QED  BY <1>1, <1>2 DEF PageOK

(* Turns that leave the page alone.                                        *)
LEMMA TurnSkips ==
  ASSUME NEW q, NEW s, NEW n \in Nat, NEW page, PageOK(q, s, n, page),
         page.truncated \/ Covered(q, page, s[n + 1])
  PROVE  PageOK(q, s, n + 1, page)
<1>1. \A i \in 1 .. n + 1 : i = n + 1 \/ i \in 1 .. n
  OBVIOUS
<1>2. \A i \in 1 .. n : i \in 1 .. n + 1
  OBVIOUS
<1>3. FromTurns(q, s, n + 1, page)
  <2>1. \A x : OnPage(x, page) => \E i \in 1 .. n : x = S3!NameOf(s[i], q) /\ ~ S3!Passed(s[i], q)
    BY DEF PageOK, FromTurns
  <2>. QED  BY <1>2, <2>1 DEF FromTurns
<1>4. CASE page.truncated
  <2>1. PICK t \in 1 .. n : StoppedAt(q, s, t, page)
    BY <1>4 DEF PageOK
  <2>. QED  BY <1>2, <1>3, <1>4, <2>1 DEF PageOK
<1>5. CASE ~ page.truncated
  <2>1. \A i \in 1 .. n + 1 : Covered(q, page, s[i])
    BY <1>1, <1>5 DEF PageOK
  <2>. QED  BY <1>3, <1>5, <2>1 DEF PageOK
<1>. QED  BY <1>4, <1>5

(* The page is full when a new name comes.                                 *)
LEMMA PageIsFull ==
  ASSUME NEW q, NEW s, Candidates(q, s), NEW n \in Nat, n < Len(s), NEW page,
         PageOK(q, s, n, page), ~ page.truncated, ~ Repeated(q, page, s[n + 1]),
         Len(page.contents) + Len(page.prefixes) >= S3!Limit(q.max)
  PROVE  PageOK(q, s, n + 1, [page EXCEPT !.truncated = TRUE])
<1>1. PageTyped(q, page) /\ FromTurns(q, s, n, page)
  BY DEF PageOK
<1>2. PICK contents \in Seq(Key), prefixes \in Seq(Key) :
        contents = page.contents /\ prefixes = page.prefixes
  BY <1>1, Zenon DEF PageTyped
<1>3. page = [contents |-> contents, prefixes |-> prefixes, truncated |-> page.truncated]
  BY <1>1, <1>2 DEF PageTyped
<1>4. PICK new : new = [page EXCEPT !.truncated = TRUE]
  OBVIOUS
<1>5. new = [contents |-> contents, prefixes |-> prefixes, truncated |-> TRUE]
  <2>1. new = [[contents |-> contents, prefixes |-> prefixes, truncated |-> page.truncated]
               EXCEPT !.truncated = TRUE]
    BY <1>3, <1>4, Zenon
  <2>. QED  BY <2>1
<1>6. new.contents = page.contents /\ new.prefixes = page.prefixes /\ new.truncated = TRUE
  BY <1>2, <1>5
<1>7. \A x : OnPage(x, new) <=> OnPage(x, page)
  BY <1>6 DEF OnPage
<1>8. PageTyped(q, new)
  BY <1>1, <1>2, <1>5, <1>6 DEF PageTyped
<1>9. \E x : OnPage(x, new)
  <2>1. S3!Limit(q.max) > 0 /\ S3!Limit(q.max) \in Nat
    BY DEF S3!Limit, Candidates, Listing
  <2>2. Len(contents) \in Nat /\ Len(prefixes) \in Nat /\ (Len(contents) > 0 \/ Len(prefixes) > 0)
    <3>1. PICK a \in Nat, b \in Nat : a = Len(contents) /\ b = Len(prefixes)
      OBVIOUS
    <3>2. a + b >= S3!Limit(q.max)
      BY <1>2, <3>1
    <3>. QED  BY <2>1, <3>1, <3>2
  <2>3. CASE Len(contents) > 0
    <3>1. In(contents[1], contents)
      BY <2>2, <2>3 DEF In
    <3>. QED  BY <1>2, <1>7, <3>1 DEF OnPage
  <2>4. CASE Len(prefixes) > 0
    <3>1. In(prefixes[1], prefixes)
      BY <2>2, <2>4 DEF In
    <3>. QED  BY <1>2, <1>7, <3>1 DEF OnPage
  <2>. QED  BY <2>2, <2>3, <2>4
<1>10. \A i \in 1 .. n : Covered(q, new, s[i])
  BY <1>7 DEF PageOK, Covered
<1>11. \A x : OnPage(x, new) => S3!Before(x, S3!NameOf(s[n + 1], q))
  BY <1>1, <1>7, Fresh
<1>12. StoppedAt(q, s, n + 1, new)
  <2>1. n + 1 - 1 = n
    OBVIOUS
  <2>. QED  BY <1>9, <1>10, <1>11, <2>1 DEF StoppedAt
<1>13. FromTurns(q, s, n + 1, new)
  <2>1. \A i \in 1 .. n : i \in 1 .. n + 1
    OBVIOUS
  <2>2. \A x : OnPage(x, page) => \E i \in 1 .. n : x = S3!NameOf(s[i], q) /\ ~ S3!Passed(s[i], q)
    BY <1>1 DEF FromTurns
  <2>. QED  BY <1>7, <2>1, <2>2 DEF FromTurns
<1>14. n + 1 \in 1 .. n + 1
  OBVIOUS
<1>15. PageOK(q, s, n + 1, new)
  BY <1>6, <1>8, <1>12, <1>13, <1>14 DEF PageOK
<1>. QED  BY <1>4, <1>15

(* The prefix of a group is added.                                         *)
LEMMA GroupAdded ==
  ASSUME NEW q, NEW s, Candidates(q, s), NEW n \in Nat, n < Len(s), NEW page,
         PageOK(q, s, n, page), ~ page.truncated, ~ Repeated(q, page, s[n + 1]),
         Grouped(s[n + 1], q), ~ S3!Passed(s[n + 1], q)
  PROVE  PageOK(q, s, n + 1, [page EXCEPT !.prefixes = Append(@, S3!NameOf(s[n + 1], q))])
<1>0. s[n + 1] \in Key
  BY DEF Candidates
<1>1. PICK nm \in Key : nm = S3!NameOf(s[n + 1], q)
  BY <1>0, NameIsKey DEF Candidates
<1>2. PageTyped(q, page) /\ FromTurns(q, s, n, page)
  BY DEF PageOK
<1>3. PICK contents \in Seq(Key), prefixes \in Seq(Key) :
        contents = page.contents /\ prefixes = page.prefixes
  BY <1>2, Zenon DEF PageTyped
<1>4. page = [contents |-> contents, prefixes |-> prefixes, truncated |-> page.truncated]
  BY <1>2, <1>3 DEF PageTyped
<1>5. PICK new : new = [page EXCEPT !.prefixes = Append(@, nm)]
  OBVIOUS
<1>6. new = [contents |-> contents, prefixes |-> Append(prefixes, nm), truncated |-> page.truncated]
  <2>1. new = [[contents |-> contents, prefixes |-> prefixes, truncated |-> page.truncated]
               EXCEPT !.prefixes = Append(@, nm)]
    BY <1>4, <1>5, Zenon
  <2>. QED  BY <2>1
<1>7. /\ new.contents = contents /\ new.prefixes = Append(prefixes, nm)
      /\ new.truncated = page.truncated
  BY <1>6
<1>8. /\ Append(prefixes, nm) \in Seq(Key)
      /\ \A x : In(x, Append(prefixes, nm)) <=> In(x, prefixes) \/ x = nm
      /\ S3!Last(Append(prefixes, nm)) = nm
      /\ Differ(prefixes) /\ ~ In(nm, prefixes) => Differ(Append(prefixes, nm))
  BY <1>1, InAppend
<1>9. \A x : OnPage(x, new) <=> OnPage(x, page) \/ x = nm
  BY <1>3, <1>7, <1>8 DEF OnPage
<1>10. \A x : OnPage(x, page) => S3!Before(x, nm)
  BY <1>1, <1>2, Fresh
<1>11. ~ In(nm, prefixes)
  BY <1>1, <1>3, <1>10, NotBeforeItself DEF OnPage
<1>12. Grouped(nm, q)
  BY <1>0, <1>1, GroupName DEF Candidates
<1>13. PageTyped(q, new)
  <2>1. \A x : In(x, new.contents) => ~ Grouped(x, q)
    BY <1>2, <1>3, <1>7 DEF PageTyped
  <2>2. ASSUME NEW x, In(x, new.prefixes)
        PROVE  Grouped(x, q) /\ (x = S3!Last(new.prefixes) \/ S3!Before(x, S3!Last(new.prefixes)))
    BY <1>2, <1>3, <1>7, <1>8, <1>10, <1>12, <2>2 DEF PageTyped, OnPage
  <2>3. Differ(new.contents) /\ Differ(new.prefixes)
    BY <1>2, <1>3, <1>7, <1>8, <1>11 DEF PageTyped
  <2>4. new.truncated \in BOOLEAN
    BY <1>2, <1>7 DEF PageTyped
  <2>. QED  BY <1>6, <1>7, <1>8, <2>1, <2>2, <2>3, <2>4 DEF PageTyped
<1>14. PageOK(q, s, n + 1, new)
  BY <1>1, <1>7, <1>9, <1>13, NameAdded
<1>. QED  BY <1>1, <1>5, <1>14

(* A key is added.                                                         *)
LEMMA KeyAdded ==
  ASSUME NEW q, NEW s, Candidates(q, s), NEW n \in Nat, n < Len(s), NEW page,
         PageOK(q, s, n, page), ~ page.truncated,
         ~ Grouped(s[n + 1], q), ~ S3!Passed(s[n + 1], q)
  PROVE  PageOK(q, s, n + 1, [page EXCEPT !.contents = Append(@, s[n + 1])])
<1>1. PICK nm \in Key : nm = s[n + 1]
  BY DEF Candidates
<1>0. nm = S3!NameOf(s[n + 1], q)
  BY <1>1 DEF S3!NameOf, Grouped
<1>2. PageTyped(q, page) /\ FromTurns(q, s, n, page)
  BY DEF PageOK
<1>3. PICK contents \in Seq(Key), prefixes \in Seq(Key) :
        contents = page.contents /\ prefixes = page.prefixes
  BY <1>2, Zenon DEF PageTyped
<1>4. page = [contents |-> contents, prefixes |-> prefixes, truncated |-> page.truncated]
  BY <1>2, <1>3 DEF PageTyped
<1>5. PICK new : new = [page EXCEPT !.contents = Append(@, nm)]
  OBVIOUS
<1>6. new = [contents |-> Append(contents, nm), prefixes |-> prefixes, truncated |-> page.truncated]
  <2>1. new = [[contents |-> contents, prefixes |-> prefixes, truncated |-> page.truncated]
               EXCEPT !.contents = Append(@, nm)]
    BY <1>4, <1>5, Zenon
  <2>. QED  BY <2>1
<1>7. /\ new.contents = Append(contents, nm) /\ new.prefixes = prefixes
      /\ new.truncated = page.truncated
  BY <1>6
<1>8. /\ Append(contents, nm) \in Seq(Key)
      /\ \A x : In(x, Append(contents, nm)) <=> In(x, contents) \/ x = nm
      /\ Differ(contents) /\ ~ In(nm, contents) => Differ(Append(contents, nm))
  BY <1>1, InAppend
<1>9. \A x : OnPage(x, new) <=> OnPage(x, page) \/ x = nm
  BY <1>3, <1>7, <1>8 DEF OnPage
<1>10. \A x : OnPage(x, page) => S3!Before(x, nm)
  BY <1>0, <1>2, Fresh DEF Repeated
<1>11. ~ In(nm, contents)
  BY <1>1, <1>3, <1>10, NotBeforeItself DEF OnPage
<1>13. PageTyped(q, new)
  <2>1. ASSUME NEW x, In(x, new.contents) PROVE ~ Grouped(x, q)
    BY <1>1, <1>2, <1>3, <1>7, <1>8, <2>1 DEF PageTyped
  <2>2. ASSUME NEW x, In(x, new.prefixes)
        PROVE  Grouped(x, q) /\ (x = S3!Last(new.prefixes) \/ S3!Before(x, S3!Last(new.prefixes)))
    BY <1>2, <1>3, <1>7, <2>2 DEF PageTyped
  <2>3. Differ(new.contents) /\ Differ(new.prefixes)
    BY <1>2, <1>3, <1>7, <1>8, <1>11 DEF PageTyped
  <2>4. new.truncated \in BOOLEAN
    BY <1>2, <1>7 DEF PageTyped
  <2>. QED  BY <1>6, <1>7, <1>8, <2>1, <2>2, <2>3, <2>4 DEF PageTyped
<1>14. PageOK(q, s, n + 1, new)
  BY <1>0, <1>7, <1>9, <1>13, NameAdded
<1>. QED  BY <1>1, <1>5, <1>14

(* A turn of the loop.                                                     *)
LEMMA TurnOK ==
  ASSUME NEW q, NEW s, Candidates(q, s), NEW n \in Nat, n < Len(s), NEW page,
         PageOK(q, s, n, page)
  PROVE  PageOK(q, s, n + 1, S3!Turn(q, page, s[n + 1]))
<1>1. PICK k : k = s[n + 1]
  OBVIOUS
<1>2. page.truncated \in BOOLEAN
  BY DEF PageOK, PageTyped
<1>3. PICK full \in BOOLEAN :
        full <=> Len(page.contents) + Len(page.prefixes) >= S3!Limit(q.max)
  OBVIOUS
<1>4. PICK skip \in BOOLEAN : skip <=> page.truncated \/ Repeated(q, page, k) \/ S3!Passed(k, q)
  OBVIOUS
<1>5. PICK full_, group_, key_ :
        /\ full_ = [page EXCEPT !.truncated = TRUE]
        /\ group_ = [page EXCEPT !.prefixes = Append(@, S3!NameOf(k, q))]
        /\ key_ = [page EXCEPT !.contents = Append(@, k)]
  OBVIOUS
<1>6. S3!Turn(q, page, k) =
        IF skip THEN page ELSE IF full THEN full_ ELSE IF Grouped(k, q) THEN group_ ELSE key_
  BY <1>3, <1>4, <1>5, Zenon DEF S3!Turn, Repeated, Grouped
<1>7. CASE skip
  <2>1. page.truncated \/ Covered(q, page, k)
    <3>1. CASE Repeated(q, page, k)
      <4>1. page.prefixes \in Seq(Key)
        BY DEF PageOK, PageTyped
      <4>2. In(S3!NameOf(k, q), page.prefixes)
        BY <3>1, <4>1, LastIn DEF Repeated
      <4>. QED  BY <4>2 DEF Covered, OnPage
    <3>. QED  BY <1>4, <1>7, <3>1 DEF Covered
  <2>2. PageOK(q, s, n + 1, page)
    BY <1>1, <2>1, TurnSkips
  <2>3. S3!Turn(q, page, k) = page
    BY <1>6, <1>7
  <2>. QED  BY <1>1, <2>2, <2>3
<1>8. CASE ~ skip /\ full
  <2>1. PageOK(q, s, n + 1, full_)
    BY <1>1, <1>3, <1>4, <1>5, <1>8, PageIsFull
  <2>2. S3!Turn(q, page, k) = full_
    BY <1>6, <1>8
  <2>. QED  BY <1>1, <2>1, <2>2
<1>9. CASE ~ skip /\ ~ full /\ Grouped(k, q)
  <2>1. PageOK(q, s, n + 1, group_)
    BY <1>1, <1>4, <1>5, <1>9, GroupAdded
  <2>2. S3!Turn(q, page, k) = group_
    BY <1>6, <1>9
  <2>. QED  BY <1>1, <2>1, <2>2
<1>10. CASE ~ skip /\ ~ full /\ ~ Grouped(k, q)
  <2>1. PageOK(q, s, n + 1, key_)
    BY <1>1, <1>4, <1>5, <1>10, KeyAdded
  <2>2. S3!Turn(q, page, k) = key_
    BY <1>6, <1>10
  <2>. QED  BY <1>1, <2>1, <2>2
<1>. QED  BY <1>7, <1>8, <1>9, <1>10

(* A page, put together from what is held.                                 *)
PageIs(q, held, page) ==
  /\ page.contents \o page.prefixes \in Seq(Key) /\ Differ(page.contents \o page.prefixes)
  /\ \A x : In(x, page.contents \o page.prefixes) <=> OnPage(x, page)
  /\ \A x : OnPage(x, page) => x \in Key /\ x # q.marker /\ ~ S3!Before(x, q.marker)
  /\ page.truncated => \E x : OnPage(x, page)
  /\ \A k \in held : S3!IsPrefix(q.prefix, k) =>
       \/ Covered(q, page, k)
       \/ page.truncated /\ \A x : OnPage(x, page) => S3!Before(x, S3!NameOf(k, q))

LEMMA PageOfHeld ==
  ASSUME NEW q, Listing(q), NEW held \in SUBSET Key, IsFiniteSet(held)
  PROVE  PageIs(q, held, S3!Page(held, q))
<1>1. PICK S \in SUBSET Key : S = {k \in held : S3!IsPrefix(q.prefix, k)}
  OBVIOUS
<1>2. IsFiniteSet(S)
  BY <1>1, FS_Subset
<1>3. PICK s : s = S3!Sorted(S)
  OBVIOUS
<1>4. /\ Candidates(q, s) /\ s \in Seq(Key) /\ Len(s) \in Nat /\ DOMAIN s = 1 .. Len(s)
      /\ \A x \in S : \E i \in 1 .. Len(s) : s[i] = x
  BY <1>2, <1>3, SortedIs DEF Candidates
<1>5. \A n \in Nat : n <= Len(s) => PageOK(q, s, n, S3!Turns(q, s)[n])
  <2> DEFINE T == {n \in Nat : n <= Len(s) => PageOK(q, s, n, S3!Turns(q, s)[n])}
  <2>1. 0 \in T
    BY <1>4, TurnsAre, EmptyPageOK
  <2>2. ASSUME NEW n \in T PROVE n + 1 \in T
    <3> SUFFICES ASSUME n + 1 <= Len(s) PROVE PageOK(q, s, n + 1, S3!Turns(q, s)[n + 1])
      OBVIOUS
    <3>1. n \in Nat /\ n < Len(s) /\ n <= Len(s)
      BY <1>4
    <3>2. PageOK(q, s, n, S3!Turns(q, s)[n])
      BY <3>1
    <3>3. S3!Turns(q, s)[n + 1] = S3!Turn(q, S3!Turns(q, s)[n], s[n + 1])
      BY <1>4, <3>1, TurnsAre
    <3>. QED  BY <1>4, <3>1, <3>2, <3>3, TurnOK
  <2>3. T = Nat
    <3>1. T \in SUBSET Nat
      OBVIOUS
    <3> HIDE DEF T
    <3>. QED  BY <2>1, <2>2, <3>1, SetInduction
  <2>. QED  BY <2>3
<1>6. PICK page : page = S3!Page(held, q)
  OBVIOUS
<1>7. PageOK(q, s, Len(s), page)
  <2>1. page = S3!Turns(q, s)[Len(s)]
    BY <1>1, <1>3, <1>6 DEF S3!Page
  <2>. QED  BY <1>4, <1>5, <2>1
<1>8. PageTyped(q, page) /\ FromTurns(q, s, Len(s), page)
  BY <1>7 DEF PageOK
<1>9. /\ page.contents \o page.prefixes \in Seq(Key)
      /\ \A x : In(x, page.contents \o page.prefixes) <=> OnPage(x, page)
      /\ Differ(page.contents \o page.prefixes)
  <2>1. /\ page.contents \in Seq(Key) /\ Differ(page.contents)
        /\ page.prefixes \in Seq(Key) /\ Differ(page.prefixes)
    BY <1>8 DEF PageTyped
  <2>2. \A x : ~(In(x, page.contents) /\ In(x, page.prefixes))
    BY <1>8 DEF PageTyped
  <2>. QED  BY <2>1, <2>2, InConcat DEF OnPage
<1>10. ASSUME NEW x, OnPage(x, page) PROVE x \in Key /\ x # q.marker /\ ~ S3!Before(x, q.marker)
  <2>1. PICK i \in 1 .. Len(s) : x = S3!NameOf(s[i], q) /\ ~ S3!Passed(s[i], q)
    BY <1>8, <1>10 DEF FromTurns
  <2>2. s[i] \in Key
    BY <1>4, <2>1
  <2>. QED  BY <2>1, <2>2, NameIsKey DEF S3!Passed
<1>11. page.truncated => \E x : OnPage(x, page)
  BY <1>7 DEF PageOK, StoppedAt
<1>12. ASSUME NEW k \in held, S3!IsPrefix(q.prefix, k)
       PROVE  \/ Covered(q, page, k)
              \/ page.truncated /\ \A x : OnPage(x, page) => S3!Before(x, S3!NameOf(k, q))
  <2>1. k \in S
    BY <1>1, <1>12
  <2>2. PICK i \in 1 .. Len(s) : s[i] = k
    BY <1>4, <2>1
  <2>3. CASE ~ page.truncated
    BY <1>7, <2>2, <2>3 DEF PageOK
  <2>4. CASE page.truncated
    <3>1. PICK t \in 1 .. Len(s) : StoppedAt(q, s, t, page)
      BY <1>7, <2>4 DEF PageOK
    <3>2. CASE i < t
      <4>1. i \in 1 .. t - 1
        BY <3>2
      <4>. QED  BY <2>2, <3>1, <4>1 DEF StoppedAt
    <3>3. CASE i = t
      BY <2>2, <2>4, <3>1, <3>3 DEF StoppedAt
    <3>4. CASE t < i
      <4>1. S3!Before(s[t], k) /\ s[t] \in Key /\ k \in Key
        BY <1>4, <2>2, <3>4 DEF Candidates, Increasing
      <4>2. S3!NameOf(s[t], q) \in Key /\ S3!NameOf(k, q) \in Key
        BY <4>1, NameIsKey
      <4>3. S3!NameOf(s[t], q) = S3!NameOf(k, q) \/ S3!Before(S3!NameOf(s[t], q), S3!NameOf(k, q))
        BY <4>1, NamesInOrder
      <4>4. ASSUME NEW x, OnPage(x, page) PROVE S3!Before(x, S3!NameOf(k, q))
        <5>1. x \in Key /\ S3!Before(x, S3!NameOf(s[t], q))
          BY <1>10, <3>1, <4>4 DEF StoppedAt
        <5>. QED  BY <4>2, <4>3, <5>1, BeforeTransitive
      <4>. QED  BY <2>4, <4>4
    <3>. QED  BY <3>2, <3>3, <3>4
  <2>. QED  BY <2>3, <2>4
<1>13. PageIs(q, held, page)
  BY <1>9, <1>10, <1>11, <1>12 DEF PageIs
<1>. QED  BY <1>6, <1>13

-----------------------------------------------------------------------------
(* A listing, page by page                                                 *)

(* A listing has found, once each, the names of all keys that were there,  *)
(* up to its marker, and the others come after the marker.                 *)
Told(l, k) ==
  \/ In(S3!NameOf(k, l), l.names)
  \/ l.more /\ S3!Before(l.marker, S3!NameOf(k, l))

Sound(l) ==
  l.on =>
    /\ Listing(l) /\ l.names \in Seq(Key) /\ Differ(l.names) /\ l.marker \in Key
    /\ \A x : In(x, l.names) => x = l.marker \/ S3!Before(x, l.marker)
    /\ \A k \in l.kept : S3!IsPrefix(l.prefix, k) => Told(l, k)

Contains(b) == IF buckets[b] = 0 THEN {} ELSE S3!Store!Held(objects[buckets[b]])

PagesInv ==
  /\ \A i \in DOMAIN objects : IsFiniteSet(S3!Store!Held(objects[i]))
  /\ \A c \in Clients :
       /\ Sound(listing[c])
       /\ listing[c].on => listing[c].kept \subseteq Contains(listing[c].bucket)
       /\ dialogue[c].phase = "asked" /\ dialogue[c].req.op = "list" =>
            listing[c].on /\ listing[c].bucket = dialogue[c].req.bucket

LEMMA KeysAreKeys ==
  /\ Keys \subseteq Key /\ <<>> \notin Keys
  /\ ListPrefixes \subseteq Key /\ ListMaxima \subseteq Nat
  /\ \A o : S3!Store!Held(o) \subseteq Keys
BY S3Assumption DEF S3!S3Constants, Key, S3!Store!Held

(* A name depends on the prefix and the delimiter only.                    *)
LEMMA SameNames ==
  ASSUME NEW q, Listing(q), NEW r, Listing(r), q.prefix = r.prefix, q.delimited = r.delimited,
         NEW k \in Key
  PROVE  S3!NameOf(k, q) = S3!NameOf(k, r)
<1>1. \A i : i \in S3!Delimiters(k, q) <=> i \in S3!Delimiters(k, r)
  BY DelimiterAt
<1>2. PICK m \in Nat : NameEnds(k, q, m)
  BY NameIs
<1>3. PICK n \in Nat : NameEnds(k, r, n)
  BY NameIs
<1>4. Grouped(k, q) <=> Grouped(k, r)
  BY <1>1 DEF Grouped
<1>5. m = n
  BY <1>1, <1>2, <1>3, <1>4 DEF NameEnds
<1>. QED  BY <1>2, <1>3, <1>5, SameKey DEF NameEnds

(* Names that are listed have a highest one.                               *)
LEMMA HighestIs ==
  ASSUME NEW s \in Seq(Key), s # <<>>
  PROVE  /\ In(S3!Highest(S3!ToSet(s)), s)
         /\ \A y : In(y, s) => \/ y = S3!Highest(S3!ToSet(s))
                              \/ S3!Before(y, S3!Highest(S3!ToSet(s)))
<1>1. PICK S : S = S3!ToSet(s)
  OBVIOUS
<1>2. S \in SUBSET Key /\ \A x : x \in S <=> In(x, s)
  BY <1>1, InIsToSet
<1>3. Len(s) \in Nat /\ DOMAIN s = 1 .. Len(s) /\ Len(s) # 0
  BY EmptySeq
<1>4. IsFiniteSet(S)
  <2>1. s \in [1 .. Len(s) -> S]
    BY <1>1, <1>3 DEF S3!ToSet
  <2>2. \A x \in S : \E i \in 1 .. Len(s) : s[i] = x
    BY <1>2 DEF In
  <2>3. s \in Surjection(1 .. Len(s), S)
    BY <2>1, <2>2 DEF Surjection
  <2>4. IsFiniteSet(1 .. Len(s))
    BY <1>3, FS_Interval
  <2>. QED  BY <2>3, <2>4, FS_Surjection
<1>5. PICK t : t = S3!Sorted(S)
  OBVIOUS
<1>6. /\ t \in Seq(Key) /\ Increasing(t) /\ Len(t) \in Nat /\ DOMAIN t = 1 .. Len(t)
      /\ \A i \in 1 .. Len(t) : t[i] \in S
      /\ \A x \in S : \E i \in 1 .. Len(t) : t[i] = x
  BY <1>2, <1>4, <1>5, SortedIs
<1>7. S # {}
  <2>1. In(s[1], s)
    BY <1>3 DEF In
  <2>. QED  BY <1>2, <2>1
<1>8. Len(t) \in 1 .. Len(t)
  BY <1>6, <1>7
<1>9. \A y \in S : y = t[Len(t)] \/ S3!Before(y, t[Len(t)])
  <2> SUFFICES ASSUME NEW i \in 1 .. Len(t) PROVE t[i] = t[Len(t)] \/ S3!Before(t[i], t[Len(t)])
    BY <1>6
  <2>. QED  BY <1>6, <1>8 DEF Increasing
<1>10. \E x \in S : \A y \in S : y = x \/ S3!Before(y, x)
  BY <1>6, <1>8, <1>9
<1>11. S3!Highest(S) \in S /\ \A y \in S : y = S3!Highest(S) \/ S3!Before(y, S3!Highest(S))
  BY <1>10 DEF S3!Highest
<1>. QED  BY <1>1, <1>2, <1>11

(* The fields of a listing after a page.                                   *)
Advances(l, page, new, m) ==
  /\ m.on /\ m.bucket = l.bucket /\ m.prefix = l.prefix /\ m.delimited = l.delimited
  /\ m.max = l.max /\ m.kept = l.kept /\ m.more = page.truncated
  /\ m.names = l.names \o new
  /\ new = <<>> => m.marker = l.marker
  /\ new # <<>> => m.marker = S3!Highest(S3!ToSet(new))

LEMMA ListedFields ==
  ASSUME NEW l, ListingOK(l), l.on, NEW page, NEW new, new = page.contents \o page.prefixes,
         NEW m, m = S3!Listed(l, page)
  PROVE  Advances(l, page, new, m)
<1>0. PICK names : names = l.names \o new
  OBVIOUS
<1>1. PICK marker :
        marker = IF new = <<>> THEN l.marker ELSE S3!Highest(S3!ToSet(new))
  OBVIOUS
<1>2. m = [[[l EXCEPT !.names = names] EXCEPT !.more = page.truncated] EXCEPT !.marker = marker]
  BY <1>0, <1>1, Zenon DEF S3!Listed
<1>3. PICK bucket, prefix, delimited, max, marker1, names1, more1, kept :
        l = [on |-> TRUE, bucket |-> bucket, prefix |-> prefix, delimited |-> delimited,
             max |-> max, marker |-> marker1, names |-> names1, more |-> more1, kept |-> kept]
  BY DEF ListingOK, S3!Stopped
<1>4. m = [[[[on |-> TRUE, bucket |-> bucket, prefix |-> prefix, delimited |-> delimited,
              max |-> max, marker |-> marker1, names |-> names1, more |-> more1,
              kept |-> kept]
             EXCEPT !.names = names] EXCEPT !.more = page.truncated] EXCEPT !.marker = marker]
  BY <1>2, <1>3, Zenon
<1>5. m = [on |-> TRUE, bucket |-> bucket, prefix |-> prefix, delimited |-> delimited,
           max |-> max, marker |-> marker, names |-> names, more |-> page.truncated,
           kept |-> kept]
  BY <1>4
<1>6. /\ m.on /\ m.bucket = bucket /\ m.prefix = prefix /\ m.delimited = delimited
      /\ m.max = max /\ m.kept = kept /\ m.more = page.truncated /\ m.names = names
      /\ m.marker = marker
  BY <1>5
<1>7. /\ l.bucket = bucket /\ l.prefix = prefix /\ l.delimited = delimited
      /\ l.max = max /\ l.kept = kept
  BY <1>3
<1>. QED  BY <1>0, <1>1, <1>6, <1>7 DEF Advances

(* A page leaves a listing sound.                                          *)
LEMMA ListedSound ==
  ASSUME NEW l, ListingOK(l), l.on, Sound(l), NEW held \in SUBSET Key, IsFiniteSet(held),
         l.kept \subseteq held, NEW m, m = S3!Listed(l, S3!Page(held, l))
  PROVE  Sound(m) /\ m.on /\ m.kept = l.kept /\ m.bucket = l.bucket
<1>1. PICK page : page = S3!Page(held, l)
  OBVIOUS
<1>2. PageIs(l, held, page)
  BY <1>1, PageOfHeld DEF Sound
<1>3. PICK new \in Seq(Key) : new = page.contents \o page.prefixes
  BY <1>2 DEF PageIs
<1>4. /\ m.on /\ m.bucket = l.bucket /\ m.prefix = l.prefix /\ m.delimited = l.delimited
      /\ m.max = l.max /\ m.kept = l.kept /\ m.more = page.truncated
      /\ m.names = l.names \o new
      /\ new = <<>> => m.marker = l.marker
      /\ new # <<>> => m.marker = S3!Highest(S3!ToSet(new))
  <2>1. m = S3!Listed(l, page)
    BY <1>1
  <2>2. Advances(l, page, new, m)
    BY <1>3, <2>1, ListedFields
  <2>. QED  BY <2>2 DEF Advances
<1>5. /\ l.names \in Seq(Key) /\ Differ(l.names) /\ l.marker \in Key /\ Listing(l)
      /\ \A x : In(x, l.names) => x \in Key /\ (x = l.marker \/ S3!Before(x, l.marker))
  BY InIsToSet DEF Sound
<1>6. /\ Differ(new) /\ \A x : In(x, new) <=> OnPage(x, page)
      /\ \A x : In(x, new) => x \in Key /\ x # l.marker /\ ~ S3!Before(x, l.marker)
  BY <1>2, <1>3 DEF PageIs
<1>7. \A x : In(x, new) => S3!Before(l.marker, x)
  BY <1>5, <1>6, BeforeTotal
<1>8. \A x : ~(In(x, l.names) /\ In(x, new))
  BY <1>5, <1>6
<1>9. /\ m.names \in Seq(Key) /\ Differ(m.names)
      /\ \A x : In(x, m.names) <=> In(x, l.names) \/ In(x, new)
  BY <1>4, <1>5, <1>6, <1>8, InConcat
<1>10. new # <<>> => /\ In(m.marker, new)
                     /\ \A y : In(y, new) => y = m.marker \/ S3!Before(y, m.marker)
  BY <1>4, HighestIs
<1>11. new = <<>> => \A x : ~ In(x, new)
  <2>1. Len(<<>>) = 0
    OBVIOUS
  <2>. QED  BY <2>1 DEF In
<1>12. m.marker \in Key
  BY <1>4, <1>5, <1>6, <1>10
<1>13. ASSUME NEW x, In(x, m.names) PROVE x = m.marker \/ S3!Before(x, m.marker)
  <2>1. CASE new = <<>>
    BY <1>4, <1>5, <1>9, <1>11, <1>13, <2>1
  <2>2. CASE new # <<>>
    <3>1. CASE In(x, new)
      BY <1>10, <2>2, <3>1
    <3>2. CASE In(x, l.names)
      <4>1. x \in Key /\ (x = l.marker \/ S3!Before(x, l.marker)) /\ S3!Before(l.marker, m.marker)
        BY <1>5, <1>7, <1>10, <2>2, <3>2
      <4>. QED  BY <1>5, <1>12, <4>1, BeforeTransitive
    <3>. QED  BY <1>9, <1>13, <3>1, <3>2
  <2>. QED  BY <2>1, <2>2
<1>15. Listing(m)
  BY <1>4, <1>5 DEF Listing
<1>14. ASSUME NEW k \in l.kept, S3!IsPrefix(l.prefix, k) PROVE Told(m, k)
  <2>1. PICK nm \in Key : nm = S3!NameOf(k, l) /\ nm = S3!NameOf(k, m)
    <3>1. k \in Key
      OBVIOUS
    <3>. QED  BY <1>4, <1>5, <1>15, <3>1, NameIsKey, SameNames
  <2>2. In(nm, l.names) \/ S3!Before(l.marker, nm)
    BY <1>14, <2>1 DEF Sound, Told
  <2>3. \/ Covered(l, page, k)
        \/ page.truncated /\ \A x : OnPage(x, page) => S3!Before(x, nm)
    BY <1>2, <1>14, <2>1 DEF PageIs
  <2>4. CASE S3!Passed(k, l)
    <3>1. nm = l.marker \/ S3!Before(nm, l.marker)
      BY <2>1, <2>4 DEF S3!Passed
    <3>2. In(nm, l.names)
      BY <1>5, <2>1, <2>2, <3>1, NotBothBefore, NotBeforeItself
    <3>. QED  BY <1>9, <2>1, <3>2 DEF Told
  <2>5. CASE OnPage(nm, page)
    BY <1>6, <1>9, <2>1, <2>5 DEF Told
  <2>6. CASE page.truncated /\ \A x : OnPage(x, page) => S3!Before(x, nm)
    <3>1. new # <<>>
      BY <1>2, <1>6, <1>11, <2>6 DEF PageIs
    <3>2. OnPage(m.marker, page)
      BY <1>6, <1>10, <3>1
    <3>. QED  BY <1>4, <2>1, <2>6, <3>2 DEF Told
  <2>. QED  BY <2>1, <2>3, <2>4, <2>5, <2>6 DEF Covered
<1>. QED  BY <1>4, <1>9, <1>12, <1>13, <1>14, <1>15 DEF Sound

LEMMA PagesInit == S3!Init => PagesInv
<1> SUFFICES ASSUME S3!Init PROVE PagesInv
  OBVIOUS
<1>1. objects = <<>> /\ listing = [c \in Clients |-> S3!Stopped]
      /\ dialogue = [c \in Clients |-> S3!Store!Replied(S3!Store!Succeeds)]
  BY DEF S3!Init
<1>2. \A i \in DOMAIN objects : IsFiniteSet(S3!Store!Held(objects[i]))
  BY <1>1
<1>3. \A c \in Clients : ~ listing[c].on /\ dialogue[c].phase = "replied"
  BY <1>1 DEF S3!Stopped, S3!Store!Replied
<1>. QED  BY <1>2, <1>3 DEF PagesInv, Sound

(* What one client's request and listing must be.                          *)
PagesOK(c) ==
  /\ Sound(listing[c])
  /\ listing[c].on => listing[c].kept \subseteq Contains(listing[c].bucket)
  /\ dialogue[c].phase = "asked" /\ dialogue[c].req.op = "list" =>
       listing[c].on /\ listing[c].bucket = dialogue[c].req.bucket

(* Only what belongs to one client changes.                                *)
LEMMA OneClient ==
  ASSUME S3Inv, PagesInv, NEW c \in Clients, UNCHANGED <<buckets, objects>>, PagesOK(c)',
         NEW d, dialogue' = [dialogue EXCEPT ![c] = d],
         NEW l, listing' = [listing EXCEPT ![c] = l]
  PROVE  PagesInv'
<1>1. \A i \in DOMAIN objects' : IsFiniteSet(S3!Store!Held(objects'[i]))
  BY DEF PagesInv
<1>2. ASSUME NEW e \in Clients, e # c PROVE PagesOK(e)'
  <2>1. listing'[e] = listing[e] /\ dialogue'[e] = dialogue[e]
    BY <1>2 DEF S3Inv
  <2>2. Contains(listing[e].bucket)' = Contains(listing[e].bucket)
    BY <2>1 DEF Contains
  <2>3. PagesOK(e)
    BY DEF PagesInv, PagesOK
  <2>. QED  BY <2>1, <2>2, <2>3 DEF PagesOK
<1>3. \A e \in Clients : PagesOK(e)'
  BY <1>2
<1>. QED  BY <1>1, <1>3 DEF PagesInv, PagesOK

(* A step after which the client has not asked, and lists as before.       *)
LEMMA ListsOn ==
  ASSUME S3Inv, PagesInv, NEW c \in Clients, UNCHANGED <<buckets, objects, listing>>,
         NEW d, dialogue' = [dialogue EXCEPT ![c] = d],
         d.phase # "asked" \/ d.req.op # "list"
           \/ (listing[c].on /\ listing[c].bucket = d.req.bucket)
  PROVE  PagesInv'
<1>1. dialogue'[c] = d /\ listing'[c] = listing[c] /\ listing' = [listing EXCEPT ![c] = listing[c]]
  BY DEF S3Inv
<1>2. Contains(listing[c].bucket)' = Contains(listing[c].bucket)
  BY <1>1 DEF Contains
<1>3. PagesOK(c)
  BY DEF PagesInv, PagesOK
<1>4. PagesOK(c)'
  BY <1>1, <1>2, <1>3 DEF PagesOK
<1>. QED  BY <1>1, <1>4, OneClient

LEMMA AskPages == ASSUME S3Inv, PagesInv, NEW c \in Clients, S3!Ask(c) PROVE PagesInv'
<1>1. PICK r : r.op # "list" /\ dialogue' = [dialogue EXCEPT ![c] = S3!Store!Asked(r)]
  <2>1. PICK r \in S3!Store!Requests \ {q \in S3!Store!Requests : q.op = "list"} :
          dialogue' = [dialogue EXCEPT ![c] = S3!Store!Asked(r)]
    BY DEF S3!Ask
  <2>. QED  BY <2>1
<1>2. PICK d : d = S3!Store!Asked(r)
  OBVIOUS
<1>3. d.phase = "asked" /\ d.req = r
  BY <1>2 DEF S3!Store!Asked
<1>. QED  BY <1>1, <1>2, <1>3, ListsOn DEF S3!Ask

LEMMA StartListingPages ==
  ASSUME S3Inv, PagesInv, NEW c \in Clients, S3!StartListing(c) PROVE PagesInv'
<1>1. PICK b \in Buckets, prefix \in ListPrefixes, delimited \in BOOLEAN, max \in ListMaxima,
           sound \in BOOLEAN :
        /\ listing' = [listing EXCEPT ![c] =
             [on |-> TRUE, bucket |-> b, prefix |-> prefix, delimited |-> delimited, max |-> max,
              marker |-> <<>>, names |-> <<>>, more |-> TRUE,
              kept |-> IF buckets[b] = 0 THEN {} ELSE S3!Store!Held(objects[buckets[b]])]]
        /\ S3!AskList(c, b, sound)
  BY DEF S3!StartListing
<1>2. PICK kept : kept = Contains(b)
  OBVIOUS
<1>3. PICK l : l = [on |-> TRUE, bucket |-> b, prefix |-> prefix, delimited |-> delimited,
                    max |-> max, marker |-> <<>>, names |-> <<>>, more |-> TRUE, kept |-> kept]
  OBVIOUS
<1>4. listing' = [listing EXCEPT ![c] = l]
  BY <1>1, <1>2, <1>3, Zenon DEF Contains
<1>5. /\ l.on /\ l.bucket = b /\ l.prefix = prefix /\ l.delimited = delimited /\ l.max = max
      /\ l.marker = <<>> /\ l.names = <<>> /\ l.more /\ l.kept = kept
  BY <1>3
<1>6. PICK d : d = S3!Store!Asked([op |-> "list", bucket |-> b, sound |-> sound])
  OBVIOUS
<1>7. dialogue' = [dialogue EXCEPT ![c] = d]
  BY <1>1, <1>6 DEF S3!AskList
<1>8. d.phase = "asked" /\ d.req.bucket = b
  BY <1>6 DEF S3!Store!Asked
<1>9. Sound(l)
  <2>1. Listing(l)
    BY <1>5, KeysAreKeys DEF Listing
  <2>2. Len(<<>>) = 0 /\ <<>> \in Seq(Key) /\ <<>> \in Key
    BY DEF Key
  <2>3. Differ(l.names) /\ \A x : ~ In(x, l.names)
    BY <1>5, <2>2 DEF Differ, In
  <2>4. ASSUME NEW k \in kept PROVE Told(l, k)
    <3>1. k \in Key /\ k # <<>>
      BY <1>2, KeysAreKeys DEF Contains
    <3>. QED  BY <1>5, <2>1, <3>1, NameNotEmpty DEF Told
  <2>. QED  BY <1>5, <2>1, <2>2, <2>3, <2>4 DEF Sound
<1>10. UNCHANGED <<buckets, objects>>
  BY DEF S3!StartListing
<1>11. listing'[c] = l /\ dialogue'[c] = d
  BY <1>4, <1>7 DEF S3Inv
<1>12. Contains(b)' = Contains(b)
  BY <1>10 DEF Contains
<1>13. PagesOK(c)'
  BY <1>2, <1>5, <1>8, <1>9, <1>11, <1>12 DEF PagesOK
<1>. QED  BY <1>4, <1>7, <1>10, <1>13, OneClient

LEMMA NextPagePages ==
  ASSUME S3Inv, PagesInv, NEW c \in Clients, S3!NextPage(c) PROVE PagesInv'
<1>1. PICK d : d = S3!Store!Asked([op |-> "list", bucket |-> listing[c].bucket, sound |-> TRUE])
  OBVIOUS
<1>2. d.req.bucket = listing[c].bucket
  BY <1>1 DEF S3!Store!Asked
<1>3. dialogue' = [dialogue EXCEPT ![c] = d]
  BY <1>1 DEF S3!NextPage, S3!AskList
<1>. QED  BY <1>2, <1>3, ListsOn DEF S3!NextPage

(* The client lists no more.                                               *)
LEMMA StopsListing ==
  ASSUME S3Inv, PagesInv, NEW c \in Clients, UNCHANGED <<buckets, objects>>,
         listing' = [listing EXCEPT ![c] = S3!Stopped],
         NEW d, dialogue' = [dialogue EXCEPT ![c] = d], d.phase = "replied"
  PROVE  PagesInv'
<1>1. listing'[c] = S3!Stopped /\ dialogue'[c] = d /\ ~ S3!Stopped.on
  BY DEF S3Inv, S3!Stopped
<1>2. PagesOK(c)'
  BY <1>1 DEF PagesOK, Sound
<1>. QED  BY <1>2, OneClient

LEMMA EndListingPages ==
  ASSUME S3Inv, PagesInv, NEW c \in Clients, S3!EndListing(c) PROVE PagesInv'
<1>1. dialogue' = [dialogue EXCEPT ![c] = dialogue[c]]
  BY DEF S3!EndListing, S3Inv
<1>. QED  BY <1>1, StopsListing DEF S3!EndListing

(* The server replies, and nothing else changes.                           *)
LEMMA RepliesOnly ==
  ASSUME S3Inv, PagesInv, NEW c \in Clients, NEW x, S3!Reply(c, x),
         UNCHANGED <<buckets, objects, listing>>
  PROVE  PagesInv'
<1>1. PICK d : d = S3!Store!Replied(x)
  OBVIOUS
<1>2. d.phase # "asked" /\ dialogue' = [dialogue EXCEPT ![c] = d]
  BY <1>1 DEF S3!Reply, S3!Store!Replied
<1>. QED  BY <1>2, ListsOn

LEMMA FailPages == ASSUME S3Inv, PagesInv, NEW c \in Clients, S3!Fail(c) PROVE PagesInv'
<1>1. PICK d : d = S3!Store!Replied(S3!Store!Fails)
  OBVIOUS
<1>2. d.phase = "replied" /\ dialogue' = [dialogue EXCEPT ![c] = d]
  BY <1>1 DEF S3!Fail, S3!Reply, S3!Store!Replied
<1>. QED  BY <1>2, StopsListing DEF S3!Fail

LEMMA BeginPages == ASSUME S3Inv, PagesInv, NEW c \in Clients, S3!BeginToWait(c) PROVE PagesInv'
<1>1. PICK d : d.phase = "entered" /\ dialogue' = [dialogue EXCEPT ![c] = d]
  <2>1. PICK d : d = [phase |-> "entered", req |-> dialogue[c].req,
                      bucket |-> S3!BucketOf(dialogue[c].req),
                      object |-> IF dialogue[c].req.op = "putBucket" THEN NoObject
                                 ELSE S3!ObjectOf(S3!BucketOf(dialogue[c].req), dialogue[c].req)]
    OBVIOUS
  <2>2. d.phase = "entered"
    BY <2>1
  <2>3. dialogue' = [dialogue EXCEPT ![c] = d]
    BY <2>1, Zenon DEF S3!BeginToWait
  <2>. QED  BY <2>2, <2>3
<1>. QED  BY <1>1, ListsOn DEF S3!BeginToWait

LEMMA ListBucketPages ==
  ASSUME S3Inv, PagesInv, NEW c \in Clients, dialogue[c].phase = "asked", S3!ListBucket(c)
  PROVE  PagesInv'
<1>1. PICK r, l, b : r = dialogue[c].req /\ l = listing[c] /\ b = buckets[r.bucket]
  OBVIOUS
<1>2. /\ r.op = "list" /\ b # 0 /\ UNCHANGED <<buckets, objects>>
      /\ S3!Reply(c, S3!Store!Succeeds)
  BY <1>1 DEF S3!ListBucket, S3!FailsAtOnce, S3!BucketOf
<1>3. PICK held : held = S3!Store!Held(objects[b])
  OBVIOUS
<1>4. PICK m : m = S3!Listed(l, S3!Page(held, l))
  OBVIOUS
<1>5. listing' = [listing EXCEPT ![c] = m]
  BY <1>1, <1>3, <1>4 DEF S3!ListBucket, S3!BucketOf
<1>6. /\ ListingOK(l) /\ l.on /\ l.bucket = r.bucket /\ Sound(l)
      /\ l.kept \subseteq Contains(l.bucket)
  BY <1>1, <1>2 DEF PagesInv, S3Inv
<1>7. Contains(l.bucket) = held
  BY <1>1, <1>2, <1>3, <1>6 DEF Contains
<1>8. held \in SUBSET Key /\ IsFiniteSet(held)
  <2>1. r.bucket \in Buckets
    BY <1>1, Asks
  <2>2. b \in DOMAIN objects
    BY <1>1, <1>2, <2>1 DEF S3Inv, BucketsOK
  <2>. QED  BY <1>3, <2>2, KeysAreKeys DEF PagesInv
<1>9. Sound(m) /\ m.on /\ m.kept = l.kept /\ m.bucket = l.bucket
  BY <1>4, <1>6, <1>7, <1>8, ListedSound
<1>10. PICK d : d = S3!Store!Replied(S3!Store!Succeeds)
  OBVIOUS
<1>11. d.phase = "replied" /\ dialogue' = [dialogue EXCEPT ![c] = d]
  BY <1>2, <1>10 DEF S3!Reply, S3!Store!Replied
<1>12. listing'[c] = m /\ dialogue'[c] = d
  BY <1>5, <1>11 DEF S3Inv
<1>13. Contains(l.bucket)' = Contains(l.bucket)
  <2>1. Contains(listing[c].bucket)' = IF buckets[listing'[c].bucket] = 0 THEN {}
           ELSE S3!Store!Held(objects[buckets[listing'[c].bucket]])
    BY <1>2 DEF Contains
  <2>. QED  BY <1>2, <1>9, <1>12, <2>1 DEF Contains
<1>14. PagesOK(c)'
  BY <1>2, <1>6, <1>9, <1>11, <1>12, <1>13 DEF PagesOK, Contains
<1>. QED  BY <1>2, <1>5, <1>11, <1>14, OneClient

(* An object is set or removed: listings keep what is still there.         *)
LEMMA SetObjectPages ==
  ASSUME S3Inv, PagesInv, NEW c \in Clients, NEW x, S3!Reply(c, x),
         NEW b \in DOMAIN objects, NEW key, NEW o, S3!SetObject(b, key, o)
  PROVE  PagesInv'
<1>1. PICK new : new = [objects EXCEPT ![b][key] = o]
  OBVIOUS
<1>2. objects' = new /\ listing' = S3!Kept(new) /\ buckets' = buckets
  BY <1>1 DEF S3!SetObject
<1>3. \A i \in DOMAIN objects' : IsFiniteSet(S3!Store!Held(objects'[i]))
  <2>1. objects \in Seq(S3!Content)
    BY DEF S3Inv, BucketsOK
  <2>2. PICK at : at = [objects[b] EXCEPT ![key] = o]
    OBVIOUS
  <2>3. new = [objects EXCEPT ![b] = at]
    BY <1>1, <2>2
  <2>4. DOMAIN new = DOMAIN objects /\ new[b] = at
        /\ \A i \in DOMAIN objects : i # b => new[i] = objects[i]
    BY <2>1, <2>3
  <2>5. S3!Store!Held(at) \subseteq S3!Store!Held(objects[b]) \cup {key}
    BY <2>2 DEF S3!Store!Held
  <2>6. IsFiniteSet(S3!Store!Held(objects[b]) \cup {key})
    BY FS_AddElement DEF PagesInv
  <2>7. IsFiniteSet(S3!Store!Held(at))
    BY <2>5, <2>6, FS_Subset
  <2>. QED  BY <1>2, <2>4, <2>7 DEF PagesInv
<1>4. PICK d : d = S3!Store!Replied(x)
  OBVIOUS
<1>5. /\ d.phase = "replied" /\ dialogue'[c] = d
      /\ \A e \in Clients : e # c => dialogue'[e] = dialogue[e]
  BY <1>4 DEF S3!Reply, S3!Store!Replied, S3Inv
<1>6. ASSUME NEW e \in Clients PROVE PagesOK(e)'
  <2>1. PICK l : l = listing[e]
    OBVIOUS
  <2>2. PagesOK(e) /\ ListingOK(l)
    BY <2>1 DEF PagesInv, PagesOK, S3Inv
  <2>3. dialogue'[e].phase = "asked" => dialogue'[e] = dialogue[e]
    BY <1>5
  <2>4. CASE ~ l.on
    <3>1. listing'[e] = l
      BY <1>2, <2>1, <2>4 DEF S3!Kept
    <3>. QED  BY <2>1, <2>2, <2>3, <2>4, <3>1 DEF PagesOK, Sound
  <2>5. CASE l.on
    <3>1. PICK kept : kept = {k \in l.kept : LET n == buckets[l.bucket]
                                            IN n # 0 /\ new[n][k] # NoObject}
      OBVIOUS
    <3>2. PICK m : m = listing'[e]
      OBVIOUS
    <3>3. m = [l EXCEPT !.kept = kept]
      BY <1>2, <2>1, <2>5, <3>1, <3>2 DEF S3!Kept
    <3>4. /\ m.on /\ m.bucket = l.bucket /\ m.prefix = l.prefix /\ m.delimited = l.delimited
          /\ m.max = l.max /\ m.marker = l.marker /\ m.names = l.names /\ m.more = l.more
          /\ m.kept = kept
      BY <2>2, <2>5, <3>3 DEF ListingOK, S3!Stopped
    <3>5. Sound(l)
      BY <2>1, <2>2 DEF PagesOK
    <3>6. Listing(l) /\ Listing(m)
      BY <2>5, <3>4, <3>5 DEF Sound, Listing
    <3>7. l.kept \subseteq Keys
      BY <2>1, <2>2, <2>5, KeysAreKeys DEF PagesOK, Contains
    <3>8. ASSUME NEW k \in kept, S3!IsPrefix(m.prefix, k) PROVE Told(m, k)
      <4>1. k \in l.kept /\ k \in Key
        BY <3>1, <3>7, KeysAreKeys
      <4>2. Told(l, k)
        BY <2>5, <3>4, <3>5, <3>8, <4>1 DEF Sound
      <4>3. S3!NameOf(k, m) = S3!NameOf(k, l)
        BY <3>4, <3>6, <4>1, SameNames
      <4>. QED  BY <3>4, <4>2, <4>3 DEF Told
    <3>9. Sound(m)
      BY <2>5, <3>4, <3>5, <3>6, <3>8 DEF Sound
    <3>10. m.kept \subseteq IF buckets[m.bucket] = 0 THEN {}
                            ELSE S3!Store!Held(new[buckets[m.bucket]])
      BY <3>1, <3>4, <3>7 DEF S3!Store!Held
    <3>11. dialogue[e].phase = "asked" /\ dialogue[e].req.op = "list" =>
             m.bucket = dialogue[e].req.bucket
      BY <2>1, <2>2, <3>4 DEF PagesOK
    <3>. QED  BY <1>2, <2>3, <3>2, <3>4, <3>9, <3>10, <3>11 DEF PagesOK, Contains
  <2>. QED  BY <2>4, <2>5
<1>. QED  BY <1>3, <1>6 DEF PagesInv, PagesOK

LEMMA DeleteObjectPages ==
  ASSUME S3Inv, PagesInv, NEW c \in Clients, dialogue[c].phase = "asked", S3!DeleteObject(c)
  PROVE  PagesInv'
<1>0. PICK r, b : r = dialogue[c].req /\ b = S3!BucketOf(r)
  OBVIOUS
<1>1. /\ ~ S3!FailsAtOnce(r) /\ S3!SetObject(b, r.key, NoObject) /\ r.op = "delete"
      /\ S3!Reply(c, S3!Store!Succeeds) /\ b = buckets[r.bucket]
  BY <1>0 DEF S3!DeleteObject, S3!BucketOf
<1>2. BucketsOK /\ r.bucket \in Buckets
  BY <1>0, Asks
<1>3. b \in DOMAIN objects
  BY <1>1, <1>2 DEF S3!FailsAtOnce, S3!BucketOf, BucketsOK
<1>. QED  BY <1>1, <1>3, SetObjectPages

LEMMA PutObjectPages == ASSUME S3Inv, PagesInv, NEW c \in Clients, S3!PutObject(c) PROVE PagesInv'
<1>0. PICK r, b : r = dialogue[c].req /\ b = dialogue[c].bucket
  OBVIOUS
<1>1. PICK new : S3!SetObject(b, r.key, new)
  BY <1>0 DEF S3!PutObject
<1>2. dialogue[c].phase = "entered" /\ r.op = "put" /\ S3!Reply(c, S3!Store!Succeeds)
  BY <1>0 DEF S3!PutObject
<1>3. /\ BucketsOK /\ r.bucket \in Buckets /\ b = buckets[r.bucket] /\ b # 0
  BY <1>0, <1>2, Entered DEF EnteredOK, S3!BucketOf, S3!FailsAtOnce
<1>4. b \in DOMAIN objects
  BY <1>3 DEF BucketsOK
<1>. QED  BY <1>1, <1>2, <1>4, SetObjectPages

(* The bucket that goes is empty, and nothing of it was kept.              *)
LEMMA DeleteBucketPages ==
  ASSUME S3Inv, PagesInv, NEW c \in Clients, dialogue[c].phase = "asked", S3!DeleteBucket(c)
  PROVE  PagesInv'
<1>0. PICK r, d : r = dialogue[c].req /\ d = S3!Store!Replied(S3!Store!Succeeds)
  OBVIOUS
<1>1. /\ r.op = "deleteBucket" /\ ~ S3!FailsAtOnce(r) /\ buckets' = [buckets EXCEPT ![r.bucket] = 0]
      /\ UNCHANGED <<objects, listing>> /\ d.phase = "replied"
      /\ dialogue' = [dialogue EXCEPT ![c] = d]
  BY <1>0 DEF S3!DeleteBucket, S3!Reply, S3!Store!Replied
<1>2. /\ dialogue'[c] = d /\ \A e \in Clients : e # c => dialogue'[e] = dialogue[e]
  BY <1>1 DEF S3Inv
<1>3. /\ r.bucket \in Buckets /\ buckets \in [Buckets -> Nat] /\ buckets[r.bucket] # 0
      /\ S3!Store!Held(objects[buckets[r.bucket]]) = {}
  BY <1>0, <1>1, Asks DEF BucketsOK, S3!FailsAtOnce, S3!BucketOf
<1>4. ASSUME NEW e \in Clients PROVE PagesOK(e)'
  <2>1. PagesOK(e) /\ ListingOK(listing[e])
    BY DEF PagesInv, PagesOK, S3Inv
  <2>2. PICK l : l = listing[e]
    OBVIOUS
  <2>3. ASSUME l.on
        PROVE  l.kept \subseteq IF buckets'[l.bucket] = 0 THEN {}
                                ELSE S3!Store!Held(objects[buckets'[l.bucket]])
    <3>1. l.bucket \in Buckets /\ l.kept \subseteq Contains(l.bucket)
      BY <2>1, <2>2, <2>3 DEF ListingOK, S3!Stopped, PagesOK
    <3>2. CASE l.bucket = r.bucket
      BY <1>3, <3>1, <3>2 DEF Contains
    <3>3. CASE l.bucket # r.bucket
      <4>1. buckets'[l.bucket] = buckets[l.bucket]
        BY <1>1, <1>3, <3>1, <3>3
      <4>. QED  BY <3>1, <4>1 DEF Contains
    <3>. QED  BY <3>2, <3>3
  <2>. QED  BY <1>1, <1>2, <2>1, <2>2, <2>3 DEF PagesOK, Contains
<1>5. \A i \in DOMAIN objects' : IsFiniteSet(S3!Store!Held(objects'[i]))
  BY <1>1 DEF PagesInv
<1>. QED  BY <1>4, <1>5 DEF PagesInv, PagesOK

LEMMA PutBucketPages == ASSUME S3Inv, PagesInv, NEW c \in Clients, S3!PutBucket(c) PROVE PagesInv'
<1>0. PICK r, d : r = dialogue[c].req /\ d = S3!Store!Replied(S3!Store!Succeeds)
  OBVIOUS
<1>1. /\ dialogue[c].phase = "entered" /\ r.op = "putBucket" /\ UNCHANGED listing
      /\ objects' = Append(objects, S3!Store!Empty)
      /\ buckets' = [buckets EXCEPT ![r.bucket] = Len(objects) + 1]
      /\ d.phase = "replied" /\ dialogue' = [dialogue EXCEPT ![c] = d]
  BY <1>0 DEF S3!PutBucket, S3!Reply, S3!Store!Replied
<1>2. /\ dialogue'[c] = d /\ \A e \in Clients : e # c => dialogue'[e] = dialogue[e]
  BY <1>1 DEF S3Inv
<1>3. BucketsOK /\ r.bucket \in Buckets /\ buckets[r.bucket] = 0
  BY <1>0, <1>1, Entered DEF EnteredOK, S3!Waits, S3!BucketOf
<1>4. /\ objects \in Seq(S3!Content) /\ Len(objects) \in Nat /\ DOMAIN objects = 1 .. Len(objects)
      /\ DOMAIN objects' = 1 .. Len(objects) + 1 /\ objects'[Len(objects) + 1] = S3!Store!Empty
      /\ \A i \in 1 .. Len(objects) : objects'[i] = objects[i]
  BY <1>1, <1>3, EmptyContent DEF BucketsOK
<1>5. \A i \in DOMAIN objects' : IsFiniteSet(S3!Store!Held(objects'[i]))
  <2> SUFFICES ASSUME NEW i \in 1 .. Len(objects) + 1
               PROVE  IsFiniteSet(S3!Store!Held(objects'[i]))
    BY <1>4
  <2>1. CASE i = Len(objects) + 1
    <3>1. S3!Store!Held(objects'[i]) = {}
      BY <1>4, <2>1, EmptyContent
    <3>. QED  BY <3>1, FS_EmptySet
  <2>2. CASE i # Len(objects) + 1
    <3>1. i \in DOMAIN objects /\ objects'[i] = objects[i]
      BY <1>4, <2>2
    <3>. QED  BY <3>1 DEF PagesInv
  <2>. QED  BY <2>1, <2>2
<1>6. ASSUME NEW e \in Clients PROVE PagesOK(e)'
  <2>1. PagesOK(e) /\ ListingOK(listing[e])
    BY DEF PagesInv, PagesOK, S3Inv
  <2>2. PICK l : l = listing[e]
    OBVIOUS
  <2>3. ASSUME l.on
        PROVE  l.kept \subseteq IF buckets'[l.bucket] = 0 THEN {}
                                ELSE S3!Store!Held(objects'[buckets'[l.bucket]])
    <3>1. l.bucket \in Buckets /\ l.kept \subseteq Contains(l.bucket)
      BY <2>1, <2>2, <2>3 DEF ListingOK, S3!Stopped, PagesOK
    <3>2. CASE buckets[l.bucket] = 0
      BY <3>1, <3>2 DEF Contains
    <3>3. CASE buckets[l.bucket] # 0
      <4>1. buckets'[l.bucket] = buckets[l.bucket] /\ buckets[l.bucket] \in 1 .. Len(objects)
        BY <1>1, <1>3, <1>4, <3>1, <3>3 DEF BucketsOK
      <4>2. objects'[buckets'[l.bucket]] = objects[buckets[l.bucket]]
        BY <1>4, <4>1
      <4>. QED  BY <3>1, <4>1, <4>2 DEF Contains
    <3>. QED  BY <3>2, <3>3
  <2>. QED  BY <1>1, <1>2, <2>1, <2>2, <2>3 DEF PagesOK, Contains
<1>. QED  BY <1>5, <1>6 DEF PagesInv, PagesOK

(* Every step leaves the listings sound.                                   *)
LEMMA PagesStep == S3Inv /\ PagesInv /\ [S3!Next]_(S3!vars) => PagesInv'
<1>1. ASSUME PagesInv, UNCHANGED S3!vars PROVE PagesInv'
  BY <1>1 DEF S3!vars, PagesInv, Contains
<1>2. ASSUME S3Inv, PagesInv, NEW c \in Clients, S3!Enter(c) PROVE PagesInv'
  BY <1>2, FailPages, BeginPages, DeleteObjectPages, DeleteBucketPages, RepliesOnly,
     ListBucketPages DEF S3!Enter, S3!PutBucketAgain
<1>3. ASSUME S3Inv, PagesInv, NEW c \in Clients, S3!Finish(c) PROVE PagesInv'
  BY <1>3, RepliesOnly, PutObjectPages, PutBucketPages DEF S3!Finish, S3!BodyIsRefused, S3!GetObject
<1>4. ASSUME S3Inv, PagesInv, S3!Next PROVE PagesInv'
  BY <1>2, <1>3, <1>4, AskPages, StartListingPages, NextPagePages, EndListingPages DEF S3!Next
<1>. QED  BY <1>1, <1>4

(* A listing that is sound has each name once, and no key is left out.     *)
LEMMA SoundIsComplete == PagesInv => PagesComplete
<1> SUFFICES ASSUME PagesInv, NEW c \in Clients, listing[c].on
             PROVE  /\ S3!IsInjective(listing[c].names)
                    /\ \A k \in listing[c].kept :
                         \/ ~ S3!IsPrefix(listing[c].prefix, k)
                         \/ S3!NameOf(k, listing[c]) \in S3!ToSet(listing[c].names)
                         \/ /\ listing[c].more
                            /\ S3!Before(listing[c].marker, S3!NameOf(k, listing[c]))
  BY DEF PagesComplete, S3!PagesComplete
<1>1. PICK l : l = listing[c]
  OBVIOUS
<1>2. Sound(l) /\ l.on /\ l.names \in Seq(Key) /\ Differ(l.names)
  BY <1>1 DEF PagesInv, Sound
<1>3. DOMAIN l.names = 1 .. Len(l.names)
  BY <1>2
<1>4. S3!IsInjective(l.names)
  BY <1>2, <1>3 DEF S3!IsInjective, Differ
<1>5. \A x : x \in S3!ToSet(l.names) <=> In(x, l.names)
  BY <1>2, InIsToSet
<1>. QED  BY <1>1, <1>2, <1>4, <1>5 DEF Sound, Told

(* Whatever the maximum of a page, and whatever others put and delete      *)
(* between the pages: a listing never shows a name twice, and every key    *)
(* that was there all the time is shown, under its own name or that of its *)
(* group, or is still to come.                                             *)
THEOREM PagesAlwaysComplete == FakeSpec => []PagesComplete
<1>1. FakeInit => S3Inv /\ PagesInv
  BY S3InitInv, PagesInit DEF FakeInit
<1>2. S3Inv /\ PagesInv /\ [FakeNext]_fakeVars => S3Inv' /\ PagesInv'
  BY FakeSteps, S3StepKeeps, PagesStep
<1>3. PagesInv => PagesComplete
  BY SoundIsComplete
<1>. QED  BY <1>1, <1>2, <1>3, PTL DEF FakeSpec
==============================================================================
