--------------------------------- MODULE Proxy ---------------------------------
(***************************************************************************)
(* The intercepting proxy, src/src/matasano/proxy/proxy.go, and the        *)
(* certificate authority its connections share, src/src/matasano/ca/ca.go. *)
(* Every connection is a goroutine.  On a CONNECT it looks up a            *)
(* certificate for the host: in the map, else in two files, else a new     *)
(* one, whose files are written one after the other.  The program may stop *)
(* between any two steps; the files stay.                                  *)
(*                                                                         *)
(* NewConnection never sets chained_proxy, so the branches of a chained    *)
(* proxy are not reached, and a request that is not a CONNECT dials the    *)
(* empty address, which fails: Loop's test of chained_proxy is the wrong   *)
(* way round.  A CONNECT stays in the buffer, so check finds it again when *)
(* it has been served, and nothing behind it is ever looked at.            *)
(***************************************************************************)
EXTENDS Integers, Sequences

CONSTANTS
  Conns,            (* goroutines of connections                             *)
  Hosts,
  MaxBuffer,        (* bound on the requests in a buffer                     *)
  MaxMints          (* bound on the certificates that are made               *)

ProxyConstants == MaxBuffer \in Nat /\ MaxMints \in Nat

VARIABLES
  cache,            (* CA.cache: host -> 0 or a certificate                  *)
  files,            (* host -> the .key and the .crt file                    *)
  minted,           (* how many were made; they are numbered                 *)
  conn              (* connection -> its buffer and where it is              *)

vars == <<cache, files, minted, conn>>

(* A file: which key or certificate is in it, and whether it is all of it  *)
(* and nothing else (Barf does not truncate: a longer file keeps its end). *)
NoFile      == [of |-> 0, exact |-> FALSE, there |-> FALSE]
EmptyFile   == [of |-> 0, exact |-> FALSE, there |-> TRUE]
File(m, ex) == [of |-> m, exact |-> ex, there |-> TRUE]

(* The requests of clients, up to the end of their headers or their body.  *)
Requests == [kind : {"connect"}, host : Hosts] \cup [kind : {"plain", "bad", "partial"}]

(* at: where the goroutine is; key: what from_disk read; mine: what Mint   *)
(* made; cert: the pair that Lookup returned last, and for which host.     *)
NoCert == [host |-> "none", key |-> 0, crt |-> 0]
Fresh  == [at |-> "closed", buffer |-> <<>>, key |-> NoFile, mine |-> 0, cert |-> NoCert]

Init ==
  /\ cache = [h \in Hosts |-> 0]
  /\ files = [h \in Hosts |-> [key |-> NoFile, crt |-> NoFile]]
  /\ minted = 0
  /\ conn = [c \in Conns |-> Fresh]

At(c, label) == conn[c].at = label
Host(c)      == Head(conn[c].buffer).host
Becomes(c, r) == conn' = [conn EXCEPT ![c] = r]
Goes(c, label) == Becomes(c, [conn[c] EXCEPT !.at = label])

(* e500 and clean, or clean alone.                                         *)
Ends(c) == Becomes(c, Fresh)

-----------------------------------------------------------------------------
(* Connection.Loop *)

Accept(c) ==
  /\ At(c, "closed")
  /\ Becomes(c, [Fresh EXCEPT !.at = "read"])
  /\ UNCHANGED <<cache, files, minted>>

(* What is read completes the last request, if that was there in part.     *)
Whole(buffer) ==
  IF buffer # <<>> /\ buffer[Len(buffer)].kind = "partial"
  THEN SubSeq(buffer, 1, Len(buffer) - 1) ELSE buffer

Read(c) ==
  /\ At(c, "read") /\ Len(conn[c].buffer) < MaxBuffer
  /\ \E r \in Requests :
       Becomes(c, [conn[c] EXCEPT !.at = "check", !.buffer = Append(Whole(conn[c].buffer), r)])
  /\ UNCHANGED <<cache, files, minted>>

ReadFails(c) == At(c, "read") /\ Ends(c) /\ UNCHANGED <<cache, files, minted>>

CheckFindsNothing(c) ==
  /\ At(c, "check")
  /\ conn[c].buffer = <<>> \/ Head(conn[c].buffer).kind = "partial"
  /\ Goes(c, "read")
  /\ UNCHANGED <<cache, files, minted>>

(* It cannot be parsed; it has no host; the empty address is dialled.      *)
CheckFindsRequest(c) ==
  /\ At(c, "check") /\ conn[c].buffer # <<>>
  /\ Head(conn[c].buffer).kind \in {"bad", "plain"}
  /\ Ends(c)
  /\ UNCHANGED <<cache, files, minted>>

CheckFindsConnect(c) ==
  /\ At(c, "check") /\ conn[c].buffer # <<>>
  /\ Head(conn[c].buffer).kind = "connect"
  /\ Goes(c, "lookup")
  /\ UNCHANGED <<cache, files, minted>>

(* tls_connect after Lookup: with the host dialled and the client answered *)
(* check finds the same CONNECT once more.                                 *)
Dial(c) ==
  /\ At(c, "dial")
  /\ Goes(c, "check") \/ Ends(c)
  /\ UNCHANGED <<cache, files, minted>>

-----------------------------------------------------------------------------
(* CA.Lookup *)

Returns(c, key, crt) ==
  Becomes(c, [conn[c] EXCEPT !.at = "dial", !.key = NoFile, !.mine = 0,
                             !.cert = [host |-> Host(c), key |-> key, crt |-> crt]])

(* The map has no lock: while a goroutine writes to it, a read may miss    *)
(* what is there and another write may be lost.  (Or the runtime notices,  *)
(* or the read finds a key whose pointer is not there yet: a Restart.)     *)
MapIsWritten(c) == \E d \in Conns \ {c} : At(d, "store")

(* Mutant: the files are not looked at.                                    *)
MintOnMiss(c) ==
  /\ At(c, "lookup")
  /\ IF cache[Host(c)] = 0 THEN Goes(c, "mint") ELSE Returns(c, cache[Host(c)], cache[Host(c)])
  /\ UNCHANGED <<cache, files, minted>>

LookInCache(c) ==
  /\ At(c, "lookup")
  /\ \/ cache[Host(c)] # 0 /\ Returns(c, cache[Host(c)], cache[Host(c)])
     \/ (cache[Host(c)] = 0 \/ MapIsWritten(c)) /\ Goes(c, "read key")
  /\ UNCHANGED <<cache, files, minted>>

ReadKey(c) ==
  LET f == files[Host(c)].key IN
  /\ At(c, "read key") /\ f.there
  /\ Becomes(c, [conn[c] EXCEPT !.at = "read crt", !.key = f])
  /\ UNCHANGED <<cache, files, minted>>

(* Slurp fails: the file is not there, or cannot be opened or read; Lookup *)
(* makes no difference between the two.                                    *)
SlurpFails(c) ==
  /\ conn[c].at \in {"read key", "read crt"}
  /\ Goes(c, "mint")
  /\ UNCHANGED <<cache, files, minted>>

(* tls.X509KeyPair: both can be parsed and belong together.                *)
KeyPair(key, crt) == key.exact /\ crt.exact /\ key.of = crt.of

ReadCrt(c) ==
  LET f == files[Host(c)].crt IN
  /\ At(c, "read crt") /\ f.there
  /\ IF KeyPair(conn[c].key, f) THEN Returns(c, conn[c].key.of, f.of) ELSE Goes(c, "mint")
  /\ UNCHANGED <<cache, files, minted>>

Mint(c) ==
  /\ At(c, "mint")
  /\ \/ /\ minted < MaxMints
        /\ minted' = minted + 1
        /\ Becomes(c, [conn[c] EXCEPT !.at = "open key", !.key = NoFile, !.mine = minted + 1])
     \/ Ends(c) /\ UNCHANGED minted
  /\ UNCHANGED <<cache, files>>

(* Barf: the file is made, if it is not there, and then written.           *)
Opened(f) == IF f.there THEN f ELSE EmptyFile

OpenKey(c) ==
  /\ At(c, "open key")
  /\ files' = [files EXCEPT ![Host(c)].key = Opened(@)]
  /\ Goes(c, "write key")
  /\ UNCHANGED <<cache, minted>>

WriteKey(c) ==
  /\ At(c, "write key")
  /\ \E exact \in {TRUE, files[Host(c)].key = EmptyFile} :
       files' = [files EXCEPT ![Host(c)].key = File(conn[c].mine, exact)]
  /\ Goes(c, "open crt")
  /\ UNCHANGED <<cache, minted>>

OpenCrt(c) ==
  /\ At(c, "open crt")
  /\ files' = [files EXCEPT ![Host(c)].crt = Opened(@)]
  /\ Goes(c, "write crt")
  /\ UNCHANGED <<cache, minted>>

WriteCrt(c) ==
  /\ At(c, "write crt")
  /\ \E exact \in {TRUE, files[Host(c)].crt = EmptyFile} :
       files' = [files EXCEPT ![Host(c)].crt = File(conn[c].mine, exact)]
  /\ Goes(c, "store")
  /\ UNCHANGED <<cache, minted>>

(* to_disk fails, before a file is changed or with part of it written;     *)
(* Mint does not look at what it returns.                                  *)
ToDiskFails(c) ==
  /\ conn[c].at \in {"open key", "write key", "open crt", "write crt"}
  /\ \/ UNCHANGED files
     \/ At(c, "write key") /\ files' = [files EXCEPT ![Host(c)].key = File(conn[c].mine, FALSE)]
     \/ At(c, "write crt") /\ files' = [files EXCEPT ![Host(c)].crt = File(conn[c].mine, FALSE)]
  /\ Goes(c, "store")
  /\ UNCHANGED <<cache, minted>>

StoreInCache(c) ==
  /\ At(c, "store")
  /\ \/ cache' = [cache EXCEPT ![Host(c)] = conn[c].mine]
     \/ MapIsWritten(c) /\ UNCHANGED cache
  /\ Returns(c, conn[c].mine, conn[c].mine)
  /\ UNCHANGED <<files, minted>>

(* The program ends, also by the panic of a goroutine, and starts again.   *)
Restart ==
  /\ cache' = [h \in Hosts |-> 0]
  /\ conn' = [c \in Conns |-> Fresh]
  /\ UNCHANGED <<files, minted>>

Next ==
  \/ \E c \in Conns :
       \/ Accept(c) \/ Read(c) \/ ReadFails(c)
       \/ CheckFindsNothing(c) \/ CheckFindsRequest(c) \/ CheckFindsConnect(c)
       \/ LookInCache(c) \/ ReadKey(c) \/ ReadCrt(c) \/ SlurpFails(c)
       \/ Mint(c) \/ OpenKey(c) \/ WriteKey(c) \/ OpenCrt(c) \/ WriteCrt(c) \/ ToDiskFails(c)
       \/ StoreInCache(c) \/ Dial(c)
  \/ Restart

Spec == Init /\ [][Next]_vars

-----------------------------------------------------------------------------
(* Properties *)

(* Nobody has found the files of h wanting or is about to make them        *)
(* different from what is shown.                                           *)
Settled(h) ==
  LET shown == files[h].key.of IN
  /\ KeyPair(files[h].key, files[h].crt)
  /\ cache[h] \in {0, shown}
  /\ \A c \in Conns :
       conn[c].buffer # <<>> /\ Head(conn[c].buffer).kind = "connect" /\ Host(c) = h =>
         \/ conn[c].at \in {"read", "check", "lookup", "read key", "dial"}
         \/ conn[c].at = "read crt" /\ conn[c].key = files[h].key
         \/ conn[c].at = "store" /\ conn[c].mine = shown

(* A client that has come to trust the certificate of a host is shown it   *)
(* again: once the files of a host are a pair, the map has that pair or    *)
(* none and nobody is at work on another, every later Lookup returns that  *)
(* key with that certificate, from the map or the files, and the files     *)
(* stay, through any connections, lost updates of the map and restarts.    *)
(* Only a Slurp that fails ends this: Lookup then makes a new certificate  *)
(* and writes it over the pair that is there.                              *)
CertificateStays ==
  [][\A h \in Hosts : Settled(h) =>
       /\ files'[h] = files[h]
       /\ Settled(h)' \/ \E c \in Conns : SlurpFails(c) /\ Host(c) = h
       /\ LET shown == files[h].key.of IN
          \A c \in Conns : ~ At(c, "dial") /\ At(c, "dial")' /\ Host(c) = h =>
            conn'[c].cert = [host |-> h, key |-> shown, crt |-> shown]]_vars
=============================================================================
