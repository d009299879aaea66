-------------------------------- MODULE S3Test --------------------------------
(***************************************************************************)
(* The S3 server for tests of src/src/canonical/goamz/s3/s3test with the   *)
(* clients of src/src/canonical/goamz/s3.  serveHTTP takes srv.mu before   *)
(* it looks at the request and gives it up when the handler is through, or *)
(* has panicked, so a handler that waits for its peer (it reads a body or  *)
(* writes an object) keeps every other one waiting.  A request is three    *)
(* steps: Ask, the client; Enter, up to where the handler waits or fails;  *)
(* Finish, the rest.                                                       *)
(*                                                                         *)
(* A key is a sequence of numbers, 0 for the delimiter, in the order of    *)
(* the numbers.  A *bucket is a position in  objects;  its acl, which      *)
(* nothing reads, and the times of objects are left out.                   *)
(***************************************************************************)
EXTENDS Naturals, SequencesExt

CONSTANTS
  Clients, Buckets, Keys, Data, Types, NoBucket, NoObject, NoType,
  Listers,          (* clients that list                                     *)
  Free,             (* nobody has the lock                                   *)
  Valid,            (* the names of buckets validBucketName accepts          *)
  ListPrefixes, ListMaxima, (* what clients list with                        *)
  MaxMade           (* bound on the bucket structs                           *)

Objects == [data : Data, type : Types \cup {NoType}]
Content == [Keys -> Objects \cup {NoObject}]

S3Constants ==
  /\ Valid \subseteq Buckets /\ Listers \subseteq Clients /\ Free \notin Clients /\ MaxMade \in Nat
  /\ ListMaxima \subseteq Nat /\ ListPrefixes \subseteq Seq(Nat)
  /\ Keys \subseteq Seq(Nat) \ {<<>>}
  /\ NoObject \notin Objects /\ NoBucket \notin Content

VARIABLES
  buckets,    (* srv.buckets: a position in objects, 0 for none              *)
  objects,    (* the objects of every bucket struct                          *)
  mu,         (* who has srv.mu                                              *)
  dialogue,   (* client -> its request, and the handler's r; or the reply    *)
  listing     (* client -> a listing it does page by page                    *)

vars == <<buckets, objects, mu, dialogue, listing>>

(* What clients see of the server (the refinement is stated below).        *)
Held_(name) == IF buckets[name] = 0 THEN NoBucket ELSE objects[buckets[name]]
Dialogue    ==
  [c \in Clients |-> IF dialogue[c].phase = "entered"
                     THEN [phase |-> "asked", req |-> dialogue[c].req] ELSE dialogue[c]]
Store == INSTANCE S3Store WITH store <- [b \in Buckets |-> Held_(b)], dialogue <- Dialogue

Stopped == [on |-> FALSE]

Init ==
  /\ buckets = [b \in Buckets |-> 0]
  /\ objects = <<>>
  /\ mu = Free
  /\ dialogue = [c \in Clients |-> Store!Replied(Store!Succeeds)]
  /\ listing = [c \in Clients |-> Stopped]

-----------------------------------------------------------------------------
(* A page of a listing *)

Before(k, l) ==
  \/ IsStrictPrefix(k, l)
  \/ \E i \in DOMAIN k \cap DOMAIN l :
       SubSeq(k, 1, i - 1) = SubSeq(l, 1, i - 1) /\ k[i] < l[i]

(* Where a delimiter follows the prefix of the listing q.                  *)
Delimiters(k, q) == IF q.delimited THEN {i \in Len(q.prefix)+1 .. Len(k) : k[i] = 0} ELSE {}

(* The name a key is listed under: itself, or its prefix up to the next    *)
(* delimiter.                                                              *)
NameOf(k, q) ==
  LET at == Delimiters(k, q) IN
  IF at = {} THEN k ELSE SubSeq(k, 1, CHOOSE i \in at : \A j \in at : i <= j)

(* Mutant: the marker is compared with the key and not with its name.      *)
PassedByKey(k, q) == k = q.marker \/ Before(k, q.marker)

Passed(k, q) == NameOf(k, q) = q.marker \/ Before(NameOf(k, q), q.marker)

Limit(max) == IF max = 0 THEN 1000 ELSE max

(* bucketResource.get: one turn of the loop over the sorted objects.       *)
Turn(q, page, k) ==
  LET group == Delimiters(k, q) # {}
      repeated == group /\ page.prefixes # <<>> /\ Last(page.prefixes) = NameOf(k, q)
  IN
  IF page.truncated \/ repeated \/ Passed(k, q) THEN page
  ELSE IF Len(page.contents) + Len(page.prefixes) >= Limit(q.max) THEN [page EXCEPT !.truncated = TRUE]
  ELSE IF group THEN [page EXCEPT !.prefixes = Append(@, NameOf(k, q))]
  ELSE [page EXCEPT !.contents = Append(@, k)]

EmptyPage == [contents |-> <<>>, prefixes |-> <<>>, truncated |-> FALSE]

(* sort.Sort of the names, which are all different.                        *)
Sorted(S) ==
  CHOOSE s \in [1 .. Cardinality(S) -> S] : \A i, j \in DOMAIN s : i < j => Before(s[i], s[j])

(* The page after each turn.                                               *)
Turns(q, sorted) ==
  LET after[n \in 0 .. Len(sorted)] ==
        IF n = 0 THEN EmptyPage ELSE Turn(q, after[n - 1], sorted[n])
  IN after

Page(held, q) ==
  LET sorted == Sorted({k \in held : IsPrefix(q.prefix, k)}) IN Turns(q, sorted)[Len(sorted)]

-----------------------------------------------------------------------------
(* The clients: what PutBucket, DelBucket, Put, Get, Del and List of the   *)
(* client ask for; they neither repeat a request nor share a connection.   *)

Ask(c) ==
  /\ dialogue[c].phase = "replied" /\ ~ listing[c].on
  /\ \E r \in Store!Requests \ {q \in Store!Requests : q.op = "list"} :
       dialogue' = [dialogue EXCEPT ![c] = Store!Asked(r)]
  /\ UNCHANGED <<buckets, objects, mu, listing>>

(* A caller of List that asks for every page: the marker is the last name  *)
(* of the page before.  kept are the keys that were there all the time.    *)
AskList(c, b, sound) ==
  dialogue' = [dialogue EXCEPT ![c] = Store!Asked([op |-> "list", bucket |-> b, sound |-> sound])]

StartListing(c) ==
  /\ c \in Listers /\ dialogue[c].phase = "replied" /\ ~ listing[c].on
  /\ \E b \in Buckets, prefix \in ListPrefixes, delimited \in BOOLEAN, max \in ListMaxima, sound \in BOOLEAN :
       /\ listing' = [listing EXCEPT ![c] =
            [on |-> TRUE, bucket |-> b, prefix |-> prefix, delimited |-> delimited, max |-> max,
             marker |-> <<>>, names |-> <<>>, more |-> TRUE,
             kept |-> IF buckets[b] = 0 THEN {} ELSE Store!Held(objects[buckets[b]])]]
       /\ AskList(c, b, sound)
  /\ UNCHANGED <<buckets, objects, mu>>

NextPage(c) ==
  /\ dialogue[c].phase = "replied" /\ listing[c].on /\ listing[c].more
  /\ AskList(c, listing[c].bucket, TRUE)
  /\ UNCHANGED <<buckets, objects, mu, listing>>

EndListing(c) ==
  /\ dialogue[c].phase = "replied" /\ listing[c].on /\ ~ listing[c].more
  /\ listing' = [listing EXCEPT ![c] = Stopped]
  /\ UNCHANGED <<buckets, objects, mu, dialogue>>

-----------------------------------------------------------------------------
(* The server *)

BucketOf(r) == buckets[r.bucket]
ObjectOf(b, r) == objects[b][r.key]

(* Where resourceForURL or the handler fails before it waits for the peer. *)
(* A request that is not sound has a digest or a limit that cannot be      *)
(* read, a Range, or a resource that is not implemented.                   *)
FailsAtOnce(r) ==
  LET b == BucketOf(r) IN
  \/ r.op = "other" \/ ~ r.sound
  \/ r.op # "putBucket" /\ b = 0
  \/ r.op = "deleteBucket" /\ b # 0 /\ Store!Held(objects[b]) # {}
  \/ r.op = "putBucket" /\ b = 0 /\ r.bucket \notin Valid
  \/ r.op = "get" /\ b # 0 /\ ObjectOf(b, r) = NoObject

(* It waits for a body, or writes one.                                     *)
Waits(r) == r.op \in {"put", "get"} \/ (r.op = "putBucket" /\ BucketOf(r) = 0)

(* Mutant: the server does without its lock.                               *)
NoLock == TRUE

LockFree == mu = Free

(* Mutant: the lock is given up after a success only.                      *)
UnlockedAfterSuccess(reply) == IF reply.result = "ok" THEN Free ELSE mu

(* The deferred functions of serveHTTP: a handler that panicked has its    *)
(* error sent, and the lock is given up.                                   *)
UnlockedAfter(reply) == Free

Reply(c, reply) ==
  /\ dialogue' = [dialogue EXCEPT ![c] = Store!Replied(reply)]
  /\ mu' = UnlockedAfter(reply)

Highest(S) == CHOOSE x \in S : \A y \in S : y = x \/ Before(y, x)

(* What a caller of List makes of a reply: the highest name is the marker. *)
Listed(l, page) ==
  LET new == page.contents \o page.prefixes
  IN [l EXCEPT !.names = @ \o new, !.more = page.truncated,
               !.marker = IF new = <<>> THEN @ ELSE Highest(ToSet(new))]

(* The keys a listing has found there all the time.                        *)
Kept(o) ==
  [c \in Clients |-> IF ~ listing[c].on THEN listing[c]
     ELSE [listing[c] EXCEPT !.kept = {k \in @ :
             LET b == buckets[listing[c].bucket] IN b # 0 /\ o[b][k] # NoObject}]]

SetObject(b, key, object) ==
  /\ objects' = [objects EXCEPT ![b][key] = object]
  /\ listing' = Kept([objects EXCEPT ![b][key] = object])
  /\ UNCHANGED buckets

Fail(c) ==
  /\ FailsAtOnce(dialogue[c].req)
  /\ Reply(c, Store!Fails)
  /\ listing' = [listing EXCEPT ![c] = Stopped]
  /\ UNCHANGED <<buckets, objects>>

(* The handler keeps the bucket and the object that resourceForURL found.  *)
BeginToWait(c) ==
  LET r == dialogue[c].req
      b == BucketOf(r)
  IN
  /\ ~ FailsAtOnce(r) /\ Waits(r)
  /\ mu' = c
  /\ dialogue' = [dialogue EXCEPT ![c] =
       [phase |-> "entered", req |-> r, bucket |-> b,
        object |-> IF r.op = "putBucket" THEN NoObject ELSE ObjectOf(b, r)]]
  /\ UNCHANGED <<buckets, objects, listing>>

DeleteObject(c) ==
  LET r == dialogue[c].req IN
  /\ r.op = "delete" /\ ~ FailsAtOnce(r)
  /\ SetObject(BucketOf(r), r.key, NoObject)
  /\ Reply(c, Store!Succeeds)

DeleteBucket(c) ==
  LET r == dialogue[c].req IN
  /\ r.op = "deleteBucket" /\ ~ FailsAtOnce(r)
  /\ buckets' = [buckets EXCEPT ![r.bucket] = 0]
  /\ Reply(c, Store!Succeeds)
  /\ UNCHANGED <<objects, listing>>

(* PUT of a bucket that is there sets its acl.                             *)
PutBucketAgain(c) ==
  LET r == dialogue[c].req IN
  /\ r.op = "putBucket" /\ BucketOf(r) # 0 /\ ~ FailsAtOnce(r)
  /\ Reply(c, Store!Succeeds)
  /\ UNCHANGED <<buckets, objects, listing>>

ListBucket(c) ==
  LET r == dialogue[c].req IN
  /\ r.op = "list" /\ ~ FailsAtOnce(r)
  /\ listing' = [listing EXCEPT ![c] =
       Listed(@, Page(Store!Held(objects[BucketOf(r)]), listing[c]))]
  /\ Reply(c, Store!Succeeds)
  /\ UNCHANGED <<buckets, objects>>

Enter(c) ==
  /\ dialogue[c].phase = "asked" /\ LockFree
  /\ \/ Fail(c) \/ BeginToWait(c)
     \/ DeleteObject(c) \/ DeleteBucket(c) \/ PutBucketAgain(c) \/ ListBucket(c)

(* The body was broken off, was too short, had another digest or named no  *)
(* location: the handler panics before it has changed anything.            *)
BodyIsRefused(c) ==
  /\ dialogue[c].phase = "entered" /\ dialogue[c].req.op \in {"put", "putBucket"}
  /\ Reply(c, Store!Fails)
  /\ UNCHANGED <<buckets, objects, listing>>

(* A header the request does not have keeps the value the object had.      *)
PutObject(c) ==
  LET d == dialogue[c] IN
  /\ d.phase = "entered" /\ d.req.op = "put"
  /\ SetObject(d.bucket, d.req.key,
       [data |-> d.req.data,
        type |-> IF d.req.type = NoType /\ d.object # NoObject THEN d.object.type ELSE d.req.type])
  /\ Reply(c, Store!Succeeds)

PutBucket(c) ==
  LET d == dialogue[c] IN
  /\ d.phase = "entered" /\ d.req.op = "putBucket" /\ Len(objects) < MaxMade
  /\ objects' = Append(objects, Store!Empty)
  /\ buckets' = [buckets EXCEPT ![d.req.bucket] = Len(objects) + 1]
  /\ Reply(c, Store!Succeeds)
  /\ UNCHANGED listing

GetObject(c) ==
  LET d == dialogue[c] IN
  /\ d.phase = "entered" /\ d.req.op = "get"
  /\ Reply(c, Store!Shows(d.object))
  /\ UNCHANGED <<buckets, objects, listing>>

Finish(c) == BodyIsRefused(c) \/ PutObject(c) \/ PutBucket(c) \/ GetObject(c)

Next ==
  \E c \in Clients :
    \/ Ask(c) \/ StartListing(c) \/ NextPage(c) \/ EndListing(c)
    \/ Enter(c) \/ Finish(c)

Spec == Init /\ [][Next]_vars

(* The peer of a handler that waits sends its body, or reads its object.   *)
FairSpec == Spec /\ \A c \in Clients : WF_vars(Finish(c))

-----------------------------------------------------------------------------
(* Properties *)

(* The server keeps the promise of a store: each request takes effect      *)
(* whole, at one moment, and its reply is what the store held then,        *)
(* although handlers stop halfway in a PUT or a GET while others come in,  *)
(* bodies break off, and a bucket may go and come back in the meantime.    *)
IsAStore == Store!Spec

(* A caller that lists page by page, while others put and delete, is shown *)
(* every key that was there all the time, under its own name or under that *)
(* of its group, and no name twice.                                        *)
PagesComplete ==
  \A c \in Clients :
    LET l == listing[c] IN
    l.on =>
      /\ IsInjective(l.names)
      /\ \A k \in l.kept :
           \/ ~ IsPrefix(l.prefix, k)
           \/ NameOf(k, l) \in ToSet(l.names)
           \/ l.more /\ Before(l.marker, NameOf(k, l))

(* A handler does not keep the lock, and with it everybody else, for ever: *)
(* also when it panics, provided its peer goes on.                         *)
LockIsReleased == \A c \in Clients : mu = c ~> mu # c
=============================================================================
