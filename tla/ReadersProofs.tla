----------------------------- MODULE ReadersProofs -----------------------------
(***************************************************************************)
(* Proofs about the readers that MCReaders puts side by side: HttpParser,  *)
(* whose nodes come in the order of the text, for texts of any length and  *)
(* of any kinds of token; the parser of forms (Forms!), which leaves every *)
(* field it enters and keeps no text behind; and the run of a set of rules *)
(* (Rules!), which gives its caller every value of each.  Each has its     *)
(* invariant and a lemma per step; the theorems are at the end.            *)
(***************************************************************************)
EXTENDS MCReaders, Integers, SequenceTheorems, FiniteSetTheorems, TLAPS

-----------------------------------------------------------------------------
(* HttpParser: types *)

(* A token spans something, unless it is the one at the end.               *)
Token ==
  {t \in [kind : AllKinds \cup {"Eof"}, cur : Nat, pos : Nat] :
     IF t.kind = "Eof" THEN t.cur = t.pos ELSE t.cur < t.pos}

Spans == Nat \X Nat \X (AllKinds \cup {"Eof", "more"})

(* Where something is collected, and where the parser may be.              *)
Collecting == {"rest", "key", "value", "name", "cookie", "argKey", "argValue", "raw"}
Places     == Collecting \cup
  {"verb", "verbWs", "spaces", "urlWs", "proto", "slash", "major", "dot", "minor", "newline",
   "scheme", "endless", "url", "urlNext", "stuck", "lead", "cookieEnd", "cookieNext",
   "body", "bodyEnd", "closed"}

Parser ==
  [at : Places, tok : Token \cup {NoTok}, acc : {<<>>} \cup Spans, first : Nat,
   path : BOOLEAN, pairs : {"url", "body"}, cookie : BOOLEAN, some : BOOLEAN]

TypeOK ==
  /\ lexed \in [cur : Nat, last : AllKinds \cup {"none"}, open : BOOLEAN]
  /\ p \in Parser
  /\ leaf.start \in Nat /\ leaf.stop \in Nat

(* One token at most is pushed back, and none while another is in hand or  *)
(* something has been collected; but parseUrl holds the token that         *)
(* parseTryScheme pushed back.                                             *)
Twice == p.at = "url" /\ p.path /\ p.tok.kind \in SchemeKinds /\ stack = <<p.tok>>

StackOK ==
  \/ stack = <<>>
  \/ /\ \E t \in Token : stack = <<t>> /\ t.pos <= lexed.cur
     /\ p.tok = NoTok \/ Twice
     /\ p.acc = <<>>

(* Where the next token starts, at the earliest.                           *)
Front == IF stack = <<>> THEN lexed.cur ELSE stack[1].cur

(* What has been sent is before what is in hand, collected or to come.     *)
OrderOK ==
  /\ leaf.stop <= Front
  /\ p.tok # NoTok => leaf.stop <= p.tok.cur /\ p.tok.pos <= lexed.cur
  /\ p.acc # <<>> => leaf.stop <= p.acc[1] /\ p.acc[1] < p.acc[2] /\ p.acc[2] <= lexed.cur
  /\ p.tok # NoTok /\ p.acc # <<>> =>
       \/ p.acc[2] <= p.tok.cur
       \/ p.at = "url" /\ p.tok.kind \in SchemeKinds /\ p.acc[2] <= p.tok.pos

(* Where a token is in hand, and where something is collected.             *)
PlaceOK ==
  /\ p.at \notin Collecting \cup {"url"} => p.acc = <<>>
  /\ p.at = "url" /\ ~ p.path => p.acc = <<>>
  /\ p.at \notin Collecting \cup {"url", "scheme", "endless", "cookieEnd", "cookieNext"} =>
       p.tok = NoTok
  /\ p.at \in {"url", "scheme", "cookieEnd", "cookieNext"} => p.tok # NoTok
  /\ p.at = "scheme" => p.path /\ p.tok.kind \in SchemeKinds

(* Where the version starts, and the URL.                                  *)
InUrl ==
  \/ p.at \in {"scheme", "url", "urlNext"}
  \/ p.at \in {"argKey", "argValue"} /\ p.pairs = "url"

FirstOK ==
  /\ p.at \in {"slash", "major", "dot", "minor"} => leaf.stop <= p.first /\ p.first <= Front
  /\ InUrl =>
       /\ p.first <= Front
       /\ p.tok # NoTok => p.first <= p.tok.cur
       /\ p.acc # <<>> => p.first <= p.acc[1]
       /\ leaf.code \in {"UrlPath", "ArgKey", "ArgValue"} => p.first <= leaf.start
  /\ p.at \in {"verb", "verbWs", "spaces"} => leaf.code \in {"none", "Verb"}

IInv == TypeOK /\ StackOK /\ OrderOK /\ PlaceOK /\ FirstOK
-----------------------------------------------------------------------------
LEMMA InitIInv == Init => IInv
<1> SUFFICES ASSUME Init PROVE IInv
  OBVIOUS
<1> USE DEF Init
<1>1. TypeOK
  <2>1. lexed \in [cur : Nat, last : AllKinds \cup {"none"}, open : BOOLEAN]
    OBVIOUS
  <2>2. p \in Parser
    BY DEF Places, Parser
  <2>. QED  BY <2>1, <2>2 DEF TypeOK, Parser, Node
<1>2. StackOK
  BY DEF StackOK
<1>3. OrderOK
  BY DEF OrderOK, Node, Front
<1>4. PlaceOK /\ FirstOK
  BY DEF PlaceOK, FirstOK, InUrl, Collecting, Node
<1>. QED  BY <1>1, <1>2, <1>3, <1>4 DEF IInv

(* What the next token is.                                                 *)
LEMMA Popped ==
  ASSUME TypeOK, StackOK, NEW t \in Offered, NEW pushed \in {<<>>, <<p.tok>>, <<t>>}, Pop(t, pushed)
  PROVE  /\ t \in Token /\ t # NoTok
         /\ Front <= t.cur /\ t.pos <= lexed'.cur /\ lexed.cur <= lexed'.cur
         /\ lexed' \in [cur : Nat, last : AllKinds \cup {"none"}, open : BOOLEAN]
         /\ stack' = pushed
         /\ stack # <<>> => t = stack[1]
<1>1. Kinds \subseteq AllKinds /\ "Eof" \notin AllKinds
  BY HttpAssumption DEF AllKinds
<1>2. CASE stack = <<>>
  <2>1. t \in Lexemes
    BY <1>2 DEF Offered
  <2>2. t \in Token /\ t.cur = lexed.cur
    BY <1>1, <2>1 DEF Lexemes, Tok, Token, TypeOK, Parser
  <2>3. stack' = pushed
    BY <1>2 DEF Pop
  <2>4. lexed' = IF t.kind = "Eof" THEN [lexed EXCEPT !.open = FALSE]
                 ELSE [lexed EXCEPT !.cur = t.pos, !.last = t.kind]
    BY <1>2 DEF Pop
  <2>5. lexed' \in [cur : Nat, last : AllKinds \cup {"none"}, open : BOOLEAN]
    <3>1. t.kind # "Eof" => t.kind \in AllKinds /\ t.pos \in Nat
      BY <2>2 DEF Token
    <3>. QED  BY <2>4, <3>1 DEF TypeOK, Parser
  <2>6. t.pos <= lexed'.cur /\ lexed.cur <= lexed'.cur
    <3>1. t.cur \in Nat /\ t.pos \in Nat /\ t.cur <= t.pos /\ (t.kind = "Eof" => t.pos = t.cur)
      BY <2>2 DEF Token
    <3>2. lexed'.cur = IF t.kind = "Eof" THEN lexed.cur ELSE t.pos
      BY <2>4 DEF TypeOK, Parser
    <3>. QED  BY <2>2, <3>1, <3>2
  <2>7. t # NoTok
    BY <2>2 DEF Token, NoTok, Tok, AllKinds
  <2>8. Front <= t.cur
    BY <1>2, <2>2 DEF Front, TypeOK, Parser
  <2>. QED  BY <1>2, <2>2, <2>3, <2>5, <2>6, <2>7, <2>8
<1>3. CASE stack # <<>>
  <2>1. PICK u \in Token : stack = <<u>> /\ u.pos <= lexed.cur
    BY <1>3 DEF StackOK
  <2>2. t = u /\ lexed' = lexed
    BY <1>3, <2>1 DEF Offered, Pop
  <2>3. stack' = pushed
    BY <1>3, <2>1 DEF Pop
  <2>. QED  BY <1>3, <2>1, <2>2, <2>3 DEF TypeOK, Parser, Front, Token, NoTok, Tok, AllKinds
<1>. QED  BY <1>2, <1>3

(* What RequestLine expects, one line after the other.                     *)
LEMMA LineSteps ==
  /\ DOMAIN Line = {"verb", "verbWs", "urlWs", "proto", "slash", "major", "dot", "minor", "newline"}
  /\ Line["verb"].next = "verbWs" /\ Line["verbWs"].next = "spaces" /\ Line["urlWs"].next = "proto"
  /\ Line["proto"].next = "slash" /\ Line["slash"].next = "major" /\ Line["major"].next = "dot"
  /\ Line["dot"].next = "minor" /\ Line["minor"].next = "newline" /\ Line["newline"].next = "key"
  /\ Line["minor"].kind = "Num"
  BY DEF Line

LEMMA RequestLineKeeps == IInv /\ RequestLine => IInv' /\ InOrder
<1> SUFFICES ASSUME IInv, RequestLine PROVE IInv' /\ InOrder
  OBVIOUS
<1> USE DEF IInv
<1>1. PICK t \in Offered :
        LET right == t.kind = Line[p.at].kind IN
        /\ Pop(t, <<>>)
        /\ p' = [p EXCEPT !.at = IF right THEN Line[p.at].next ELSE "rest",
                          !.first = IF p.at = "proto" THEN t.cur ELSE p.first]
        /\ leaf' = CASE right /\ p.at = "verb"  -> Node("Verb", 0, 0)
                     [] right /\ p.at = "minor" -> Node("Version", p.first, t.pos)
                     [] OTHER                   -> leaf
  BY DEF RequestLine
<1>2. /\ t \in Token /\ Front <= t.cur /\ t.pos <= lexed'.cur /\ lexed.cur <= lexed'.cur
      /\ lexed' \in [cur : Nat, last : AllKinds \cup {"none"}, open : BOOLEAN]
      /\ stack' = <<>>
  BY <1>1, Popped
<1>3. p.at \in DOMAIN Line /\ p.tok = NoTok /\ p.acc = <<>> /\ box' = box
  BY LineSteps DEF RequestLine, PlaceOK, Collecting
<1>4. /\ p'.tok = NoTok /\ p'.acc = <<>>
      /\ p'.first = IF p.at = "proto" THEN t.cur ELSE p.first
      /\ \/ p'.at = "rest"
         \/ p'.at = Line[p.at].next /\ t.kind = Line[p.at].kind
  BY <1>1, <1>3 DEF TypeOK, Parser
<1>5. t.cur \in Nat /\ t.pos \in Nat /\ t.cur <= t.pos /\ (t.kind = "Num" => t.cur < t.pos)
  BY <1>2 DEF Token
<1>6. p'.at \in {"rest", "verbWs", "spaces", "proto", "slash", "major", "dot", "minor",
                 "newline", "key"}
  BY <1>3, <1>4, LineSteps
<1>7. TypeOK'
  <2>1. p' \in Parser
    <3>1. p' = [p EXCEPT !.at = p'.at, !.first = p'.first]
      BY <1>1, <1>4 DEF TypeOK, Parser
    <3>2. p'.at \in Places /\ p'.first \in Nat
      BY <1>4, <1>5, <1>6 DEF TypeOK, Parser, Places, Collecting
    <3>. QED  BY <3>1, <3>2 DEF TypeOK, Parser
  <2>. QED  BY <1>1, <1>2, <1>5, <2>1 DEF TypeOK, Parser, Node
<1>8. \/ leaf' = leaf
      \/ leaf' = Node("Verb", 0, 0)
      \/ p.at = "minor" /\ t.kind = "Num" /\ leaf' = Node("Version", p.first, t.pos)
  BY <1>1, LineSteps
<1>9. leaf.stop <= Front /\ Front \in Nat /\ Front' = lexed'.cur
  BY <1>2 DEF OrderOK, Front, TypeOK, Parser, StackOK, Token
<1>10. leaf'.stop <= t.pos
  BY <1>2, <1>5, <1>8, <1>9 DEF Node, TypeOK, Parser
<1>11. StackOK' /\ OrderOK' /\ PlaceOK'
  BY <1>2, <1>4, <1>5, <1>6, <1>7, <1>9, <1>10
  DEF StackOK, OrderOK, PlaceOK, TypeOK, Parser, Collecting
<1>12. FirstOK'
  BY <1>2, <1>3, <1>4, <1>5, <1>6, <1>7, <1>8, <1>9, <1>10, LineSteps
  DEF FirstOK, TypeOK, Parser, InUrl, Node
<1>13. InOrder
  BY <1>3, <1>5, <1>8, <1>2, <1>9 DEF InOrder, FirstOK, Node, TypeOK, Parser
<1>. QED  BY <1>7, <1>11, <1>12, <1>13

LEMMA SpacesKeeps == IInv /\ Spaces => IInv' /\ InOrder
<1> SUFFICES ASSUME IInv, Spaces PROVE IInv' /\ InOrder
  OBVIOUS
<1> USE DEF IInv
<1>1. PICK t \in Offered :
        /\ Pop(t, <<>>)
        /\ p' = IF t.kind = "Ws" THEN p
                ELSE IF t.kind \notin UrlKinds THEN [p EXCEPT !.at = "urlWs"]
                ELSE [p EXCEPT !.at = IF t.kind \in SchemeKinds THEN "scheme" ELSE "url",
                               !.tok = t, !.first = t.cur, !.path = TRUE]
  BY DEF Spaces
<1>2. /\ t \in Token /\ t # NoTok /\ Front <= t.cur /\ t.pos <= lexed'.cur /\ lexed.cur <= lexed'.cur
      /\ lexed' \in [cur : Nat, last : AllKinds \cup {"none"}, open : BOOLEAN]
      /\ stack' = <<>>
  BY <1>1, Popped
<1>3. p.at = "spaces" /\ p.tok = NoTok /\ p.acc = <<>> /\ leaf' = leaf /\ box' = box
  BY DEF Spaces, NoSend, PlaceOK, Collecting
<1>4. t.cur \in Nat /\ t.pos \in Nat /\ t.cur <= t.pos
  BY <1>2 DEF Token
<1>5. leaf.stop <= Front /\ Front \in Nat /\ Front' = lexed'.cur
  BY <1>2 DEF OrderOK, Front, TypeOK, Parser, StackOK, Token
<1>6. leaf.code \notin {"UrlPath", "ArgKey", "ArgValue"}
  BY <1>3 DEF FirstOK
<1>7. CASE t.kind = "Ws" \/ t.kind \notin UrlKinds
  <2>1. /\ p'.at \in {"spaces", "urlWs"} /\ p'.tok = NoTok /\ p'.acc = <<>>
        /\ p' = [p EXCEPT !.at = p'.at]
    BY <1>1, <1>3, <1>7 DEF TypeOK, Parser
  <2>2. TypeOK'
    BY <1>2, <1>3, <2>1 DEF TypeOK, Parser, Places
  <2>3. StackOK' /\ OrderOK' /\ PlaceOK'
    BY <1>2, <1>3, <1>4, <1>5, <2>1, <2>2 DEF StackOK, OrderOK, PlaceOK, TypeOK, Parser, Collecting
  <2>4. FirstOK'
    BY <1>3, <1>6, <2>1 DEF FirstOK, InUrl
  <2>. QED  BY <1>3, <2>2, <2>3, <2>4 DEF InOrder
<1>8. CASE t.kind # "Ws" /\ t.kind \in UrlKinds
  <2>1. /\ p'.at \in {"scheme", "url"} /\ p'.tok = t /\ p'.acc = <<>> /\ p'.first = t.cur /\ p'.path
        /\ (p'.at = "scheme" => t.kind \in SchemeKinds)
        /\ p' = [p EXCEPT !.at = p'.at, !.tok = t, !.first = t.cur, !.path = TRUE]
    BY <1>1, <1>3, <1>8 DEF TypeOK, Parser
  <2>2. TypeOK'
    BY <1>2, <1>3, <1>4, <2>1 DEF TypeOK, Parser, Places
  <2>3. StackOK' /\ OrderOK' /\ PlaceOK'
    BY <1>2, <1>3, <1>4, <1>5, <2>1, <2>2 DEF StackOK, OrderOK, PlaceOK, TypeOK, Parser, Collecting
  <2>4. FirstOK'
    BY <1>2, <1>3, <1>4, <1>5, <1>6, <2>1, <2>2 DEF FirstOK, InUrl, TypeOK, Parser
  <2>. QED  BY <1>3, <2>2, <2>3, <2>4 DEF InOrder
<1>. QED  BY <1>7, <1>8

LEMMA TrySchemeKeeps == IInv /\ TryScheme => IInv' /\ InOrder
<1> SUFFICES ASSUME IInv, TryScheme PROVE IInv' /\ InOrder
  OBVIOUS
<1> USE DEF IInv
<1> DEFINE back(t) == IF t.kind \in SchemeKinds THEN <<>> ELSE <<p.tok>>
<1>1. PICK t \in Offered :
        /\ Pop(t, back(t))
        /\ p' = [p EXCEPT !.at = IF t.kind \in {"Ident", "Num"} THEN "endless" ELSE "url"]
        /\ box' = IF t.kind = "Colon" THEN Node("Scheme", p.first, t.cur - 1) ELSE box
  BY DEF TryScheme
<1>2. /\ t \in Token /\ t # NoTok /\ Front <= t.cur /\ t.pos <= lexed'.cur /\ lexed.cur <= lexed'.cur
      /\ lexed' \in [cur : Nat, last : AllKinds \cup {"none"}, open : BOOLEAN]
      /\ stack' = back(t)
  BY <1>1, Popped
<1>3. /\ p.at = "scheme" /\ p.tok # NoTok /\ p.acc = <<>> /\ leaf' = leaf
      /\ p.path /\ p.tok.kind \in SchemeKinds /\ stack = <<>>
  BY DEF TryScheme, PlaceOK, Collecting, StackOK, Twice
<1>4. /\ p'.at \in {"endless", "url"} /\ p'.tok = p.tok /\ p'.acc = <<>> /\ p'.first = p.first /\ p'.path
      /\ (p'.at = "endless" => stack' = <<>>)
      /\ p' = [p EXCEPT !.at = p'.at]
  BY <1>1, <1>2, <1>3 DEF TypeOK, Parser, SchemeKinds
<1>5. p.tok \in Token /\ p.tok.cur \in Nat /\ p.tok.pos \in Nat /\ p.tok.cur <= p.tok.pos
  BY <1>3 DEF TypeOK, Parser, Token
<1>6. leaf.stop <= p.tok.cur /\ p.tok.pos <= lexed.cur /\ p.first <= p.tok.cur
  BY <1>3 DEF OrderOK, FirstOK, InUrl
<1>7. TypeOK'
  BY <1>2, <1>3, <1>4 DEF TypeOK, Parser, Places
<1>8. Front' = (IF stack' = <<>> THEN lexed'.cur ELSE p.tok.cur) /\ p.tok.cur <= Front'
  BY <1>2, <1>5, <1>6, <1>7 DEF Front, TypeOK, Parser
<1>9. StackOK'
  BY <1>2, <1>3, <1>4, <1>5, <1>6, <1>7 DEF StackOK, Twice, TypeOK, Parser
<1>10. OrderOK' /\ PlaceOK'
  BY <1>2, <1>3, <1>4, <1>5, <1>6, <1>7, <1>8 DEF OrderOK, PlaceOK, TypeOK, Parser, Collecting
<1>11. FirstOK'
  BY <1>3, <1>4, <1>5, <1>6, <1>7, <1>8 DEF FirstOK, InUrl, TypeOK, Parser
<1>12. InOrder
  BY <1>1, <1>3 DEF InOrder, Node
<1>. QED  BY <1>7, <1>9, <1>10, <1>11, <1>12
-----------------------------------------------------------------------------
(* What is in hand is pushed back or dropped, and what was collected sent. *)
LEMMA HandEmptied ==
  ASSUME IInv, stack = <<>>, p.tok # NoTok,
         p.acc # <<>> => p.acc[2] <= p.tok.cur,
         leaf' = leaf \/ (p.acc # <<>> /\ leaf'.start = p.acc[1] /\ leaf'.stop = p.acc[2]),
         lexed' = lexed,
         p' \in Parser, p'.acc = <<>>,
         p'.at \notin {"url", "scheme", "verb", "verbWs", "spaces", "slash", "major", "dot", "minor"},
         \/ p'.tok = NoTok /\ p'.at \notin {"cookieEnd", "cookieNext"} /\ stack' \in {<<>>, <<p.tok>>}
         \/ p'.tok = p.tok /\ p'.at = "cookieEnd" /\ stack' = <<>>,
         InUrl' => InUrl /\ p'.first = p.first
  PROVE  /\ IInv'
         /\ leaf' # leaf => leaf.stop <= leaf'.start /\ leaf'.start < leaf'.stop
         /\ leaf'.stop <= p.tok.cur
<1> USE DEF IInv
<1>1. p.tok \in Token /\ p.tok.cur \in Nat /\ p.tok.pos \in Nat /\ p.tok.cur <= p.tok.pos
  BY DEF TypeOK, Parser, Token
<1>2. p.acc # <<>> => p.acc[1] \in Nat /\ p.acc[2] \in Nat
  BY DEF TypeOK, Parser, Spans
<1>3. leaf.stop <= p.tok.cur /\ p.tok.pos <= lexed.cur /\ lexed.cur \in Nat /\ leaf.stop \in Nat
  BY DEF OrderOK, TypeOK
<1>4. p.acc # <<>> => leaf.stop <= p.acc[1] /\ p.acc[1] < p.acc[2]
  BY DEF OrderOK
<1>5. TypeOK'
  BY <1>2 DEF TypeOK, Node
<1>6. leaf'.stop <= p.tok.cur
  BY <1>2, <1>3, <1>4 DEF Node
<1>7. Front' \in {lexed.cur, p.tok.cur}
  <2>1. stack' = <<>> \/ stack' = <<p.tok>>
    OBVIOUS
  <2>2. CASE stack' = <<>>
    BY <2>2 DEF Front
  <2>3. CASE stack' = <<p.tok>>
    BY <2>3 DEF Front
  <2>. QED  BY <2>1, <2>2, <2>3
<1>8. StackOK'
  <2>1. CASE stack' = <<>>
    BY <2>1 DEF StackOK
  <2>2. CASE stack' # <<>>
    BY <1>1, <1>3, <2>2 DEF StackOK
  <2>. QED  BY <2>1, <2>2
<1>9. OrderOK'
  BY <1>1, <1>3, <1>5, <1>6, <1>7 DEF OrderOK, TypeOK
<1>10. PlaceOK'
  BY DEF PlaceOK, Collecting
<1>11. FirstOK'
  <2>1. CASE ~ InUrl'
    BY <2>1 DEF FirstOK
  <2>2. CASE InUrl'
    <3>1. p.first \in Nat /\ p.first <= p.tok.cur /\ (p.acc # <<>> => p.first <= p.acc[1])
      BY <2>2 DEF FirstOK, TypeOK, Parser
    <3>2. leaf.code \in {"UrlPath", "ArgKey", "ArgValue"} => p.first <= leaf.start
      BY <2>2 DEF FirstOK
    <3>3. leaf'.code \in {"UrlPath", "ArgKey", "ArgValue"} => p.first <= leaf'.start
      BY <3>1, <3>2 DEF Node
    <3>4. p'.first = p.first /\ p.first <= Front'
      BY <1>1, <1>3, <1>7, <2>2, <3>1
    <3>5. p'.tok # NoTok => p'.first <= p'.tok.cur
      BY <2>2, <3>1
    <3>. QED  BY <3>3, <3>4, <3>5 DEF FirstOK
  <2>. QED  BY <2>1, <2>2
<1>12. leaf' # leaf => leaf.stop <= leaf'.start /\ leaf'.start < leaf'.stop
  BY <1>4 DEF Node
<1>. QED  BY <1>5, <1>6, <1>8, <1>9, <1>10, <1>11, <1>12

(* A token is taken: pushed back at once, in hand, or collected.           *)
LEMMA TokenTaken ==
  ASSUME IInv, NEW t \in Offered, NEW pushed \in {<<>>, <<t>>}, Pop(t, pushed),
         leaf' = leaf,
         p' \in Parser, PlaceOK',
         p'.at \notin {"scheme", "verb", "verbWs", "spaces", "slash", "major", "dot", "minor"},
         p.tok = NoTok \/ p.acc = <<>>,
         p'.tok = NoTok \/ (p'.tok = t /\ pushed = <<>>),
         \/ p'.acc = <<>>
         \/ p'.acc = p.acc /\ p.tok = NoTok /\ pushed = <<>>
         \/ p'.acc = Grown(t) /\ p.tok = NoTok /\ p'.tok = NoTok /\ pushed = <<>> /\ t.kind # "Eof",
         InUrl' => InUrl /\ p'.first = p.first
  PROVE  IInv'
<1> USE DEF IInv
<1>1. /\ t \in Token /\ t # NoTok
      /\ Front <= t.cur /\ t.pos <= lexed'.cur /\ lexed.cur <= lexed'.cur
      /\ lexed' \in [cur : Nat, last : AllKinds \cup {"none"}, open : BOOLEAN]
      /\ stack' = pushed
      /\ stack # <<>> => t = stack[1]
  BY Popped
<1>2. t.cur \in Nat /\ t.pos \in Nat /\ t.cur <= t.pos /\ (t.kind # "Eof" => t.cur < t.pos)
  BY <1>1 DEF Token
<1>3. TypeOK'
  BY <1>1 DEF TypeOK
<1>4. leaf.stop \in Nat /\ leaf.stop <= Front /\ Front \in Nat /\ lexed.cur \in Nat /\ lexed'.cur \in Nat
  BY <1>1 DEF OrderOK, TypeOK, Front, StackOK, Token
<1>5. Front' \in {lexed'.cur, t.cur} /\ t.cur <= Front'
  <2>1. CASE pushed = <<>>
    BY <1>1, <1>2, <1>4, <2>1 DEF Front
  <2>2. CASE pushed = <<t>>
    BY <1>1, <1>2, <1>4, <2>2 DEF Front
  <2>. QED  BY <2>1, <2>2
<1>6. p.acc # <<>> => /\ p.acc \in Spans /\ p.acc[1] \in Nat /\ p.acc[2] \in Nat
                      /\ leaf.stop <= p.acc[1] /\ p.acc[1] < p.acc[2] /\ p.acc[2] <= lexed.cur
  BY DEF OrderOK, TypeOK, Parser, Spans
<1>7. p.acc # <<>> => p.acc[2] <= t.cur
  <2>1. p.acc # <<>> => stack = <<>>
    BY DEF StackOK
  <2>. QED  BY <1>1, <1>2, <1>4, <1>6, <2>1 DEF Front
<1>8. p'.acc = Grown(t) =>
        /\ p'.acc = <<>> \/ p'.acc[2] = t.pos
        /\ p'.acc[1] = IF p.acc = <<>> THEN t.cur ELSE p.acc[1]
  BY DEF Grown
<1>9. StackOK'
  <2>1. CASE pushed = <<>>
    BY <1>1, <2>1 DEF StackOK
  <2>2. CASE pushed # <<>>
    <3>1. p'.acc = <<>> /\ p'.tok = NoTok /\ stack' = <<t>>
      BY <1>1, <2>2
    <3>. QED  BY <1>1, <3>1 DEF StackOK
  <2>. QED  BY <2>1, <2>2
<1>10. OrderOK'
  <2>1. leaf'.stop <= Front' /\ (p'.tok # NoTok => leaf'.stop <= p'.tok.cur /\ p'.tok.pos <= lexed'.cur)
    BY <1>1, <1>2, <1>4, <1>5
  <2>2. p'.acc # <<>> => leaf'.stop <= p'.acc[1] /\ p'.acc[1] < p'.acc[2] /\ p'.acc[2] <= lexed'.cur
    <3>1. CASE p'.acc = p.acc
      BY <1>1, <1>4, <1>6, <3>1
    <3>2. CASE p'.acc = Grown(t) /\ t.kind # "Eof"
      BY <1>1, <1>2, <1>4, <1>6, <1>7, <1>8, <3>2
    <3>. QED  BY <3>1, <3>2
  <2>3. p'.tok # NoTok /\ p'.acc # <<>> => p'.acc[2] <= p'.tok.cur
    BY <1>7
  <2>. QED  BY <2>1, <2>2, <2>3 DEF OrderOK
<1>11. FirstOK'
  <2>1. CASE ~ InUrl'
    BY <2>1 DEF FirstOK
  <2>2. CASE InUrl'
    <3>1. p.first \in Nat /\ p.first <= Front /\ (p.acc # <<>> => p.first <= p.acc[1])
      BY <2>2 DEF FirstOK, TypeOK, Parser
    <3>2. leaf'.code \in {"UrlPath", "ArgKey", "ArgValue"} => p.first <= leaf'.start
      BY <2>2 DEF FirstOK
    <3>3. p'.first = p.first /\ p.first <= t.cur /\ p.first <= Front'
      BY <1>1, <1>2, <1>4, <1>5, <2>2, <3>1
    <3>4. p'.acc # <<>> => p'.first <= p'.acc[1]
      BY <1>8, <3>1, <3>3
    <3>. QED  BY <3>2, <3>3, <3>4 DEF FirstOK
  <2>. QED  BY <2>1, <2>2
<1>. QED  BY <1>3, <1>9, <1>10, <1>11
-----------------------------------------------------------------------------
(* Nothing is pushed back when a token is in hand.                         *)
LEMMA InHand ==
  ASSUME IInv, p.tok # NoTok, ~ Twice, p.at # "url" \/ p.tok.kind \notin SchemeKinds \/ ~ p.path
  PROVE  stack = <<>> /\ (p.acc # <<>> => p.acc[2] <= p.tok.cur)
<1>1. stack = <<>>
  BY DEF IInv, StackOK
<1>2. p.acc # <<>> => p.acc[2] <= p.tok.cur
  BY DEF IInv, OrderOK, PlaceOK
<1>. QED  BY <1>1, <1>2

LEMMA OnLabel ==
  ASSUME p \in Parser, NEW label \in Places, On(label)
  PROVE  /\ p' \in Parser
         /\ p'.at = label /\ p'.tok = NoTok /\ p'.acc = <<>>
         /\ p'.first = p.first /\ p'.pairs = p.pairs
<1>1. p' = [p EXCEPT !.at = label, !.tok = NoTok, !.acc = <<>>]
  BY DEF On
<1>. QED  BY <1>1 DEF Parser

LEMMA ReturnedTyped ==
  ASSUME p \in Parser, NEW more \in BOOLEAN, Returned(more)
  PROVE  /\ p' \in Parser /\ p'.tok = NoTok /\ p'.acc = <<>>
         /\ p'.first = p.first /\ p'.pairs = p.pairs
         /\ p'.at \in {"urlNext", "argKey", "bodyEnd", "raw"}
         /\ p'.at = "urlNext" => p.pairs = "url"
         /\ p'.at = "argKey" => p.pairs = "body"
<1> DEFINE at == CASE p.pairs = "url" -> "urlNext"
                   [] p.pairs = "body" /\ more -> "argKey"
                   [] OTHER -> IF p.some THEN "bodyEnd" ELSE "raw"
<1>1. p' = [p EXCEPT !.tok = NoTok, !.acc = <<>>, !.some = p.some \/ more, !.at = at]
  BY DEF Returned
<1>2. /\ at \in {"urlNext", "argKey", "bodyEnd", "raw"}
      /\ at = "urlNext" => p.pairs = "url"
      /\ at = "argKey" => p.pairs = "body"
  BY DEF Parser
<1>3. (p.some \/ more) \in BOOLEAN /\ at \in Places
  BY <1>2 DEF Parser, Places, Collecting
<1> HIDE DEF at
<1>. QED  BY <1>1, <1>2, <1>3 DEF Parser

(* The actions of a token in hand that is pushed back or dropped.          *)
LEMMA UrlArgumentsKeeps == IInv /\ UrlArguments => IInv' /\ InOrder
<1> SUFFICES ASSUME IInv, UrlArguments PROVE IInv' /\ InOrder
  OBVIOUS
<1>1. /\ p.at = "url" /\ ~ p.path /\ p.tok # NoTok /\ p.acc = <<>> /\ p \in Parser
      /\ leaf' = leaf /\ box' = box /\ stack' = <<p.tok>> \o stack /\ lexed' = lexed
  BY DEF UrlArguments, Push, NoSend, IInv, PlaceOK, TypeOK
<1>2. stack = <<>>
  BY <1>1, InHand DEF Twice
<1>3. stack' = <<p.tok>>
  BY <1>1, <1>2
<1>4. /\ p' \in Parser /\ p'.at = "argKey" /\ p'.tok = NoTok /\ p'.acc = <<>> /\ p'.first = p.first
  BY <1>1 DEF UrlArguments, Parser, Places, Collecting
<1>5. InUrl
  BY <1>1 DEF InUrl
<1>6. IInv'
  BY <1>1, <1>2, <1>3, <1>4, <1>5, HandEmptied
<1>. QED  BY <1>1, <1>6 DEF InOrder

LEMMA UrlEndKeeps == IInv /\ UrlEnd => IInv' /\ InOrder
<1> SUFFICES ASSUME IInv, UrlEnd PROVE IInv' /\ InOrder
  OBVIOUS
<1>1. /\ p.at = "url" /\ p.tok.kind \notin UrlKinds /\ p.tok # NoTok /\ p \in Parser
      /\ stack' = <<p.tok>> \o stack /\ lexed' = lexed
      /\ box' = Node("Url", p.first, p.tok.cur)
      /\ leaf' = leaf \/ (p.acc # <<>> /\ leaf'.start = p.acc[1] /\ leaf'.stop = p.acc[2])
  BY DEF UrlEnd, Send, Node, Push, IInv, PlaceOK, TypeOK
<1>2. p.tok.kind \notin SchemeKinds
  BY <1>1 DEF UrlKinds, SchemeKinds, AllKinds
<1>3. stack = <<>> /\ (p.acc # <<>> => p.acc[2] <= p.tok.cur)
  BY <1>1, <1>2, InHand DEF Twice
<1>4. stack' = <<p.tok>>
  BY <1>1, <1>3
<1>5. p' \in Parser /\ p'.at = "urlWs" /\ p'.tok = NoTok /\ p'.acc = <<>>
  BY <1>1 DEF UrlEnd, Parser, Places
<1>6. ~ InUrl'
  BY <1>5 DEF InUrl
<1>7. /\ IInv'
      /\ leaf' # leaf => leaf.stop <= leaf'.start /\ leaf'.start < leaf'.stop
      /\ leaf'.stop <= p.tok.cur
  BY <1>1, <1>3, <1>4, <1>5, <1>6, HandEmptied
<1>8. leaf'.code \in {"UrlPath", "ArgKey", "ArgValue"} => p.first <= leaf'.start
  BY <1>1 DEF IInv, FirstOK, InUrl, Node
<1>9. box'.start = p.first /\ box'.stop = p.tok.cur
  BY <1>1 DEF Node
<1>. QED  BY <1>7, <1>8, <1>9 DEF InOrder

LEMMA HeaderKeeps ==
  IInv /\ (Mangled \/ HeaderKey \/ HeaderValue \/ CookieName \/ CookieValue \/ RawBody) => IInv' /\ InOrder
<1> SUFFICES ASSUME IInv, Mangled \/ HeaderKey \/ HeaderValue \/ CookieName \/ CookieValue \/ RawBody
             PROVE  IInv' /\ InOrder
  OBVIOUS
<1>1. /\ p.at \in {"rest", "key", "value", "name", "cookie", "raw"} /\ p.tok # NoTok
      /\ lexed' = lexed /\ stack' = stack /\ box' = box /\ p \in Parser
  BY DEF Mangled, HeaderKey, HeaderValue, CookieName, CookieValue, RawBody, Read, NoPop, IInv, TypeOK
<1>2. stack = <<>> /\ (p.acc # <<>> => p.acc[2] <= p.tok.cur)
  BY <1>1, InHand DEF Twice
<1>3. leaf' = leaf \/ (p.acc # <<>> /\ leaf'.start = p.acc[1] /\ leaf'.stop = p.acc[2])
  BY DEF Mangled, HeaderKey, HeaderValue, CookieName, CookieValue, RawBody, Send, Node
<1> DEFINE Moved ==
      /\ p' \in Parser /\ p'.acc = <<>>
      /\ p'.at \in {"key", "stuck", "lead", "body", "closed", "cookie", "cookieEnd"}
      /\ p'.tok = IF p'.at = "cookieEnd" THEN p.tok ELSE NoTok
<1>4. \A label \in {"key", "stuck", "lead", "body", "closed"} : On(label) => Moved
  <2> SUFFICES ASSUME NEW label \in {"key", "stuck", "lead", "body", "closed"}, On(label) PROVE Moved
    OBVIOUS
  <2>1. label \in Places
    BY DEF Places, Collecting
  <2>. QED  BY <1>1, <2>1, OnLabel
<1>5. Mangled => Moved
  BY <1>4 DEF Mangled
<1>6. HeaderKey => Moved
  <2> SUFFICES ASSUME HeaderKey PROVE Moved
    OBVIOUS
  <2>1. PICK cookie \in BOOLEAN :
          p' = [p EXCEPT !.at = IF p.tok.kind = "Colon" THEN "lead" ELSE "body",
                         !.tok = NoTok, !.acc = <<>>, !.cookie = cookie]
    BY DEF HeaderKey
  <2>. QED  BY <1>1, <2>1 DEF Parser, Places
<1>7. HeaderValue => Moved
  BY <1>4 DEF HeaderValue
<1>8. CookieName => Moved
  <2> SUFFICES ASSUME CookieName PROVE Moved
    OBVIOUS
  <2>1. CASE p.tok.kind = "Eq"
    <3>1. p' = [p EXCEPT !.at = "cookie", !.tok = NoTok, !.acc = <<>>]
      BY <2>1 DEF CookieName
    <3>. QED  BY <1>1, <3>1 DEF Parser, Places, Collecting
  <2>2. CASE p.tok.kind # "Eq"
    <3>1. p' = [p EXCEPT !.at = "cookieEnd", !.acc = <<>>]
      BY <2>2 DEF CookieName
    <3>. QED  BY <1>1, <3>1 DEF Parser, Places
  <2>. QED  BY <2>1, <2>2
<1>9. CookieValue => Moved
  BY <1>1 DEF CookieValue, Parser, Places
<1>10. RawBody => Moved
  BY <1>4 DEF RawBody
<1>11. Moved
  BY <1>5, <1>6, <1>7, <1>8, <1>9, <1>10
<1>12. ~ InUrl'
  BY <1>11 DEF InUrl
<1>13. /\ IInv'
       /\ leaf' # leaf => leaf.stop <= leaf'.start /\ leaf'.start < leaf'.stop
  BY <1>1, <1>2, <1>3, <1>11, <1>12, HandEmptied
<1>. QED  BY <1>1, <1>13 DEF InOrder

LEMMA CookieKeeps == IInv /\ (CookieAgain \/ CookieEnd) => IInv' /\ InOrder
<1> SUFFICES ASSUME IInv, CookieAgain \/ CookieEnd PROVE IInv' /\ InOrder
  OBVIOUS
<1>1. p.at \in {"cookieEnd", "cookieNext"} /\ p.acc = <<>> /\ p \in Parser
  BY DEF CookieAgain, CookieEnd, IInv, PlaceOK, Collecting, TypeOK
<1>2. leaf' = leaf /\ box' = box /\ lexed' = lexed /\ stack' \in {stack, <<p.tok>> \o stack}
  BY DEF CookieAgain, CookieEnd, Push, NoPop, NoSend
<1>3. /\ p' \in Parser /\ p'.acc = <<>> /\ p'.tok = NoTok /\ p'.at \in {"name", "key", "body"}
      /\ p'.first = p.first
  <2>1. PICK label \in {"name", "key", "body"} : On(label)
    BY DEF CookieAgain, CookieEnd
  <2>. QED  BY <1>1, <2>1, OnLabel DEF Places, Collecting
<1>4. ~ InUrl'
  BY <1>3 DEF InUrl
<1>5. p.tok # NoTok /\ stack = <<>>
  BY <1>1, InHand DEF IInv, PlaceOK, Twice
<1>6. stack' \in {<<>>, <<p.tok>>}
  BY <1>2, <1>5
<1>7. IInv'
  BY <1>1, <1>2, <1>3, <1>4, <1>5, <1>6, HandEmptied
<1>. QED  BY <1>2, <1>7 DEF InOrder

(* The pairs of the URL and of the body.                                   *)
LEMMA ArgKeeps == IInv /\ (ArgKey \/ ArgValue) => IInv' /\ InOrder
<1> SUFFICES ASSUME IInv, ArgKey \/ ArgValue PROVE IInv' /\ InOrder
  OBVIOUS
<1>1. /\ p.at \in {"argKey", "argValue"} /\ p.tok # NoTok
      /\ lexed' = lexed /\ box' = box /\ p \in Parser /\ stack' \in {stack, <<p.tok>> \o stack}
  BY DEF ArgKey, ArgValue, Read, NoPop, Push, Returned, On, IInv, TypeOK
<1>2. stack = <<>> /\ (p.acc # <<>> => p.acc[2] <= p.tok.cur)
  BY <1>1, InHand DEF Twice
<1>3. leaf' = leaf \/ (p.acc # <<>> /\ leaf'.start = p.acc[1] /\ leaf'.stop = p.acc[2])
  <2>1. PICK code : Send(code)
    BY DEF ArgKey, ArgValue
  <2>. QED  BY <2>1 DEF Send, Node
<1>4. /\ p' \in Parser /\ p'.acc = <<>> /\ p'.tok = NoTok /\ p'.first = p.first /\ p'.pairs = p.pairs
      /\ p'.at \in {"urlNext", "argKey", "argValue", "bodyEnd", "raw"}
      /\ p'.at = "urlNext" => p.pairs = "url"
  <2>1. On("argValue") \/ Returned(TRUE) \/ Returned(FALSE)
    BY DEF ArgKey, ArgValue
  <2>2. "argValue" \in Places
    BY DEF Places, Collecting
  <2>3. CASE On("argValue")
    BY <1>1, <2>2, <2>3, OnLabel
  <2>4. CASE Returned(TRUE)
    BY <1>1, <2>4, ReturnedTyped
  <2>5. CASE Returned(FALSE)
    BY <1>1, <2>5, ReturnedTyped
  <2>. QED  BY <2>1, <2>3, <2>4, <2>5
<1>5. InUrl' => InUrl /\ p'.first = p.first
  BY <1>1, <1>4 DEF InUrl
<1>6. stack' \in {<<>>, <<p.tok>>}
  BY <1>1, <1>2
<1>7. /\ IInv'
      /\ leaf' # leaf => leaf.stop <= leaf'.start /\ leaf'.start < leaf'.stop
  BY <1>1, <1>2, <1>3, <1>4, <1>5, <1>6, HandEmptied
<1>. QED  BY <1>1, <1>7 DEF InOrder
-----------------------------------------------------------------------------
(* The actions that take a token.                                          *)
LEMMA CollectKeeps == IInv /\ Collect => IInv' /\ InOrder
<1> SUFFICES ASSUME IInv, Collect PROVE IInv' /\ InOrder
  OBVIOUS
<1>1. PICK t \in Offered :
        /\ Pop(t, <<>>)
        /\ p' = IF t.kind \in Collected[p.at] THEN [p EXCEPT !.acc = Grown(t)]
                ELSE [p EXCEPT !.tok = t]
  BY DEF Collect
<1>2. p.at \in Collecting /\ p.tok = NoTok /\ leaf' = leaf /\ box' = box /\ p \in Parser
  BY DEF Collect, Collected, Collecting, NoSend, IInv, TypeOK
<1>3. t.kind \in Collected[p.at] => t.kind # "Eof"
  BY <1>2 DEF Collected, Collecting, UrlKinds, ArgKinds, AllKinds
<1>4. t \in Token /\ t # NoTok
  BY <1>1, Popped DEF IInv
<1>5. Grown(t) \in Spans
  <2>1. p.acc # <<>> => p.acc[1] \in Nat
    BY <1>2 DEF Parser, Spans
  <2>. QED  BY <1>4, <2>1 DEF Grown, Spans, Token
<1>6. p'.at = p.at /\ p'.first = p.first /\ p'.pairs = p.pairs /\ p'.path = p.path
  BY <1>1, <1>2 DEF Parser
<1>7. CASE t.kind \in Collected[p.at]
  <2>1. p' \in Parser /\ p'.tok = NoTok /\ p'.acc = Grown(t)
    BY <1>1, <1>2, <1>5, <1>7 DEF Parser
  <2>2. PlaceOK'
    BY <1>2, <1>6, <2>1 DEF PlaceOK, Collecting
  <2>3. IInv'
    BY <1>1, <1>2, <1>3, <1>6, <1>7, <2>1, <2>2, TokenTaken DEF InUrl, Collecting
  <2>. QED  BY <1>2, <2>3 DEF InOrder
<1>8. CASE t.kind \notin Collected[p.at]
  <2>1. p' \in Parser /\ p'.tok = t /\ p'.acc = p.acc
    BY <1>1, <1>2, <1>4, <1>8 DEF Parser
  <2>2. PlaceOK'
    BY <1>2, <1>6, <2>1 DEF PlaceOK, Collecting
  <2>3. IInv'
    BY <1>1, <1>2, <1>6, <2>1, <2>2, TokenTaken DEF InUrl, Collecting
  <2>. QED  BY <1>2, <2>3 DEF InOrder
<1>. QED  BY <1>7, <1>8

LEMMA UrlNextKeeps == IInv /\ UrlNext => IInv' /\ InOrder
<1> SUFFICES ASSUME IInv, UrlNext PROVE IInv' /\ InOrder
  OBVIOUS
<1>1. PICK t \in Offered : Pop(t, <<>>) /\ p' = [p EXCEPT !.at = "url", !.tok = t]
  BY DEF UrlNext
<1>2. /\ p.at = "urlNext" /\ p.tok = NoTok /\ p.acc = <<>> /\ p \in Parser
      /\ leaf' = leaf /\ box' = box
  BY DEF UrlNext, NoSend, IInv, TypeOK, PlaceOK, Collecting
<1>3. t \in Token /\ t # NoTok
  BY <1>1, Popped DEF IInv
<1>4. p' \in Parser /\ p'.at = "url" /\ p'.tok = t /\ p'.acc = <<>> /\ p'.first = p.first
  BY <1>1, <1>2, <1>3 DEF Parser, Places
<1>5. PlaceOK'
  BY <1>3, <1>4 DEF PlaceOK
<1>6. IInv'
  BY <1>1, <1>2, <1>4, <1>5, TokenTaken DEF InUrl
<1>. QED  BY <1>2, <1>6 DEF InOrder

LEMMA CookieBlanksKeeps == IInv /\ CookieBlanks => IInv' /\ InOrder
<1> SUFFICES ASSUME IInv, CookieBlanks PROVE IInv' /\ InOrder
  OBVIOUS
<1>1. PICK t \in Offered :
        /\ Pop(t, <<>>)
        /\ p' = [p EXCEPT !.tok = t,
                          !.at = IF p.tok.kind = "Semi" THEN "cookieNext" ELSE p.at]
  BY DEF CookieBlanks
<1>2. /\ p.at \in {"cookieEnd", "cookieNext"} /\ p.acc = <<>> /\ p \in Parser
      /\ leaf' = leaf /\ box' = box
  BY DEF CookieBlanks, NoSend, IInv, TypeOK, PlaceOK, Collecting
<1>3. t \in Token /\ t # NoTok
  BY <1>1, Popped DEF IInv
<1>4. p' \in Parser /\ p'.at \in {"cookieEnd", "cookieNext"} /\ p'.tok = t /\ p'.acc = <<>>
  BY <1>1, <1>2, <1>3 DEF Parser, Places
<1>5. PlaceOK' /\ ~ InUrl'
  BY <1>3, <1>4 DEF PlaceOK, InUrl
<1>6. IInv'
  BY <1>1, <1>2, <1>4, <1>5, TokenTaken
<1>. QED  BY <1>2, <1>6 DEF InOrder

LEMMA HeaderLeadKeeps == IInv /\ HeaderLead => IInv' /\ InOrder
<1> SUFFICES ASSUME IInv, HeaderLead PROVE IInv' /\ InOrder
  OBVIOUS
<1>1. PICK t \in Offered :
        \/ Pop(t, <<>>) /\ UNCHANGED p
        \/ Pop(t, <<t>>) /\ On(IF p.cookie THEN "name" ELSE "value")
  BY DEF HeaderLead
<1>2. /\ p.at = "lead" /\ p.tok = NoTok /\ p.acc = <<>> /\ p \in Parser
      /\ leaf' = leaf /\ box' = box
  BY DEF HeaderLead, NoSend, IInv, TypeOK, PlaceOK, Collecting
<1>3. CASE Pop(t, <<>>) /\ UNCHANGED p
  <2>1. PlaceOK' /\ ~ InUrl'
    BY <1>2, <1>3 DEF PlaceOK, InUrl, IInv
  <2>2. IInv'
    BY <1>2, <1>3, <2>1, TokenTaken
  <2>. QED  BY <1>2, <2>2 DEF InOrder
<1>4. CASE Pop(t, <<t>>) /\ On(IF p.cookie THEN "name" ELSE "value")
  <2>1. PICK label \in {"name", "value"} : On(label)
    BY <1>4
  <2>2. label \in Places
    BY DEF Places, Collecting
  <2>3. p' \in Parser /\ p'.at = label /\ p'.tok = NoTok /\ p'.acc = <<>>
    BY <1>2, <2>1, <2>2, OnLabel
  <2>4. PlaceOK' /\ ~ InUrl'
    BY <2>3 DEF PlaceOK, InUrl
  <2>5. IInv'
    BY <1>2, <1>4, <2>3, <2>4, TokenTaken
  <2>. QED  BY <1>2, <2>5 DEF InOrder
<1>. QED  BY <1>1, <1>3, <1>4

LEMMA BodyKeeps == IInv /\ (Body \/ BodyEnd) => IInv' /\ InOrder
<1> SUFFICES ASSUME IInv, Body \/ BodyEnd PROVE IInv' /\ InOrder
  OBVIOUS
<1>1. /\ p.at \in {"body", "bodyEnd"} /\ p.tok = NoTok /\ p.acc = <<>> /\ p \in Parser
      /\ leaf' = leaf
  BY DEF Body, BodyEnd, NoSend, On, IInv, TypeOK, PlaceOK, Collecting
<1>2. PICK t \in Offered :
        \/ /\ Pop(t, <<t>>) /\ box' = box
           /\ p' = [p EXCEPT !.at = "argKey", !.pairs = "body", !.some = FALSE, !.first = t.cur]
        \/ Pop(t, <<>>) /\ On("closed") /\ box' = Node("Body", p.first, t.cur - 1)
  <2>1. CASE Body
    BY <2>1 DEF Body, NoSend
  <2>2. CASE BodyEnd
    BY <2>2 DEF BodyEnd
  <2>. QED  BY <2>1, <2>2
<1>3. t \in Token /\ t.cur \in Nat
  <2>1. t \in Token
    BY <1>2, Popped DEF IInv
  <2>. QED  BY <2>1 DEF Token
<1>4. "closed" \in Places /\ "argKey" \in Places
  BY DEF Places, Collecting
<1>5. /\ p' \in Parser /\ p'.tok = NoTok /\ p'.acc = <<>>
      /\ \/ p'.at = "argKey" /\ p'.pairs = "body"
         \/ p'.at = "closed"
  <2>1. CASE p' = [p EXCEPT !.at = "argKey", !.pairs = "body", !.some = FALSE, !.first = t.cur]
    BY <1>1, <1>3, <1>4, <2>1 DEF Parser
  <2>2. CASE On("closed")
    BY <1>1, <1>4, <2>2, OnLabel
  <2>. QED  BY <1>2, <2>1, <2>2
<1>6. PlaceOK' /\ ~ InUrl'
  BY <1>5 DEF PlaceOK, InUrl
<1>7. IInv'
  BY <1>1, <1>2, <1>5, <1>6, TokenTaken
<1>8. box' = box \/ box'.code # "Url"
  BY <1>2 DEF Node
<1>. QED  BY <1>1, <1>7, <1>8 DEF InOrder

LEMMA UrlPathKeeps == IInv /\ UrlPath => IInv' /\ InOrder
<1> SUFFICES ASSUME IInv, UrlPath PROVE IInv' /\ InOrder
  OBVIOUS
<1>1. PICK t \in Offered :
        /\ Pop(t, <<>>)
        /\ p' = [p EXCEPT !.tok = t, !.path = p.tok.kind # "Query", !.acc = Segment]
  BY DEF UrlPath
<1>2. /\ t \in Token /\ t # NoTok
      /\ Front <= t.cur /\ t.pos <= lexed'.cur /\ lexed.cur <= lexed'.cur
      /\ lexed' \in [cur : Nat, last : AllKinds \cup {"none"}, open : BOOLEAN]
      /\ stack' = <<>>
      /\ stack # <<>> => t = stack[1]
  BY <1>1, Popped DEF IInv
<1>3. /\ p.at = "url" /\ p.tok.kind \in UrlKinds /\ p.path /\ p.tok # NoTok /\ p \in Parser
      /\ box' = box
      /\ IF EndsSegment THEN Send("UrlPath") ELSE leaf' = leaf
  BY DEF UrlPath, IInv, PlaceOK, TypeOK
<1>4. p.tok \in Token /\ p.tok.cur \in Nat /\ p.tok.pos \in Nat /\ p.tok.cur < p.tok.pos
  <2>1. p.tok \in Token
    BY <1>3 DEF Parser
  <2>. QED  BY <1>3, <2>1 DEF Token, UrlKinds, AllKinds
<1>5. t.cur \in Nat /\ t.pos \in Nat /\ t.cur <= t.pos /\ lexed.cur \in Nat /\ lexed'.cur \in Nat
  BY <1>2 DEF Token, IInv, TypeOK
<1>6. /\ leaf.stop \in Nat /\ leaf.stop <= p.tok.cur /\ p.tok.pos <= lexed.cur
      /\ p.first \in Nat /\ p.first <= p.tok.cur
      /\ leaf.code \in {"UrlPath", "ArgKey", "ArgValue"} => p.first <= leaf.start
  BY <1>3 DEF IInv, OrderOK, FirstOK, InUrl, TypeOK, Parser
<1>7. p.acc # <<>> =>
        /\ p.acc[1] \in Nat /\ p.acc[2] \in Nat /\ leaf.stop <= p.acc[1] /\ p.acc[1] < p.acc[2]
        /\ p.first <= p.acc[1] /\ p.acc[2] <= p.tok.pos
  <2>1. p.acc # <<>> => p.acc[1] \in Nat /\ p.acc[2] \in Nat
    BY <1>3 DEF Parser, Spans
  <2>2. p.acc # <<>> => /\ leaf.stop <= p.acc[1] /\ p.acc[1] < p.acc[2] /\ p.first <= p.acc[1]
                        /\ p.acc[2] <= p.tok.cur \/ p.acc[2] <= p.tok.pos
    BY <1>3 DEF IInv, OrderOK, FirstOK, InUrl
  <2>. QED  BY <1>4, <2>1, <2>2
<1>8. CASE EndsSegment
  <2>1. stack = <<>> /\ (p.acc # <<>> => p.acc[2] <= p.tok.cur)
    <3>1. p.tok.kind \notin SchemeKinds
      BY <1>8 DEF EndsSegment, SchemeKinds
    <3>. QED  BY <1>3, <3>1, InHand DEF Twice
  <2>2. /\ p'.at = "url" /\ p'.tok = t /\ p'.acc = <<>> /\ p'.first = p.first
        /\ p' \in Parser
    BY <1>1, <1>2, <1>3, <1>8 DEF Parser, Segment
  <2>3. leaf' = leaf \/ (p.acc # <<>> /\ leaf'.start = p.acc[1] /\ leaf'.stop = p.acc[2])
    BY <1>3, <1>8 DEF Send, Node
  <2>4. Front = lexed.cur /\ Front' = lexed'.cur
    BY <1>2, <2>1 DEF Front
  <2>5. leaf'.stop \in Nat /\ leaf'.stop <= p.tok.cur /\ p.tok.cur <= t.cur
    BY <1>2, <1>4, <1>5, <1>6, <1>7, <2>1, <2>3, <2>4
  <2>6. TypeOK'
    BY <1>2, <1>7, <2>2, <2>3 DEF IInv, TypeOK
  <2>7. StackOK' /\ PlaceOK'
    BY <1>2, <2>2 DEF StackOK, PlaceOK
  <2>8. OrderOK'
    BY <1>2, <1>4, <1>5, <1>6, <2>2, <2>4, <2>5 DEF OrderOK
  <2>9. leaf'.code \in {"UrlPath", "ArgKey", "ArgValue"} => p.first <= leaf'.start
    BY <1>6, <1>7, <2>3
  <2>10. FirstOK'
    BY <1>2, <1>4, <1>5, <1>6, <2>2, <2>4, <2>5, <2>9 DEF FirstOK
  <2>11. InOrder
    BY <1>3, <1>7, <2>3 DEF InOrder
  <2>. QED  BY <2>6, <2>7, <2>8, <2>10, <2>11 DEF IInv
<1>9. CASE ~ EndsSegment
  <2>1. /\ p'.at = "url" /\ p'.tok = t /\ p'.acc = Grown(p.tok) /\ p'.first = p.first
        /\ leaf' = leaf
        /\ p'.path
    BY <1>1, <1>3, <1>9 DEF Parser, Segment, EndsSegment
  <2>2. /\ Grown(p.tok) \in Spans /\ Grown(p.tok) # <<>> /\ Grown(p.tok)[2] = p.tok.pos
        /\ Grown(p.tok)[1] = IF p.acc = <<>> THEN p.tok.cur ELSE p.acc[1]
    BY <1>4, <1>7 DEF Grown, Spans, Token
  <2>3. p' \in Parser
    BY <1>1, <1>2, <1>3, <1>9, <2>2 DEF Parser, Segment
  <2>4. /\ leaf.stop <= p'.acc[1] /\ p'.acc[1] < p'.acc[2] /\ p'.acc[2] <= lexed'.cur
        /\ p.first <= p'.acc[1]
    BY <1>2, <1>4, <1>5, <1>6, <1>7, <2>1, <2>2
  <2>5. /\ p.tok.cur <= t.cur
        /\ \/ p'.acc[2] <= t.cur
           \/ t.kind \in SchemeKinds /\ p'.acc[2] <= t.pos
    <3>1. CASE stack = <<>>
      BY <1>2, <1>4, <1>5, <1>6, <2>1, <2>2, <3>1 DEF Front
    <3>2. CASE stack # <<>>
      <4>1. Twice
        BY <1>3, <3>2 DEF IInv, StackOK
      <4>2. t = p.tok /\ t.kind \in SchemeKinds
        BY <1>2, <3>2, <4>1 DEF Twice
      <4>. QED  BY <1>4, <2>1, <2>2, <4>2
    <3>. QED  BY <3>1, <3>2
  <2>6. TypeOK' /\ StackOK' /\ PlaceOK' /\ Front' = lexed'.cur
    BY <1>2, <2>1, <2>2, <2>3 DEF IInv, TypeOK, StackOK, PlaceOK, Front
  <2>7. OrderOK'
    BY <1>2, <1>4, <1>5, <1>6, <2>1, <2>4, <2>5, <2>6 DEF OrderOK
  <2>8. FirstOK'
    BY <1>2, <1>4, <1>5, <1>6, <2>1, <2>4, <2>5, <2>6 DEF FirstOK
  <2>9. InOrder
    BY <1>3, <2>1 DEF InOrder
  <2>. QED  BY <2>6, <2>7, <2>8, <2>9 DEF IInv
<1>. QED  BY <1>8, <1>9
-----------------------------------------------------------------------------
LEMMA StepKeeps == IInv /\ [Next]_vars => IInv' /\ [InOrder]_vars
<1>1. IInv /\ UNCHANGED vars => IInv'
  BY DEF IInv, TypeOK, StackOK, Twice, OrderOK, PlaceOK, FirstOK, InUrl, Front, vars
<1>. QED  BY <1>1, RequestLineKeeps, SpacesKeeps, TrySchemeKeeps, UrlPathKeeps, UrlArgumentsKeeps,
             UrlEndKeeps, UrlNextKeeps, CollectKeeps, HeaderKeeps, HeaderLeadKeeps,
             CookieBlanksKeeps, CookieKeeps, BodyKeeps, ArgKeeps
          DEF Next

-----------------------------------------------------------------------------
(* Forms: the invariant *)

(* The kinds of field that each place inside a field is in.                *)
FieldOf ==
  [box |-> {"Field"}, closebox |-> {"CheckField"}, textfield |-> {"TextField", "NumberField"},
   radio |-> {"RadioField", "SwitchField"}, drop |-> {"DropField"}, options |-> {"DropField"},
   option |-> {"DropField"}]
InsideField == {"box", "closebox", "textfield", "radio", "drop", "options", "option"}

Bases == {<<"Document">>, <<"Document", "Page">>}
InField(k) == \E b \in Bases : path = b \o <<k>>

(* A parser that has failed stays where it is.                             *)
PathOK ==
  /\ path \in Bases \/ \E k \in Forms!Fields : InField(k)
  /\ err => pc = "done"
  /\ ~ err /\ pc \in InsideField => \E k \in FieldOf[pc] : InField(k)
  /\ ~ err /\ pc \notin InsideField => path \in Bases

Has(m) == m \in Forms!Accum

(* Text is gathered in a few places only, and inside a field nothing is    *)
(* left of what was used before it.                                        *)
TextOK ==
  /\ pc \in {"document", "hash", "box", "closebox", "radio", "drop", "options"} => ~ Has("text")
  /\ pc \in InsideField => ~ Has("used")
  /\ Has("used") => last \in {"TextField", "NumberField", "Opt"}
  /\ last # "Field"

FormInv == PathOK /\ TextOK

-----------------------------------------------------------------------------
(* The path *)

LEMMA InsideOnly ==
  DOMAIN FieldOf = InsideField /\ \A q \in InsideField : FieldOf[q] \subseteq Forms!Fields
BY DEF FieldOf, InsideField, Forms!Fields

(* A node below one of the two bases, or below any node.                   *)
LEMMA Parent ==
  ASSUME NEW S, NEW s \in Seq(S), NEW k
  PROVE  Forms!Last(s \o <<k>>) = k /\ Forms!Front(s \o <<k>>) = s
<1> DEFINE T == S \cup {k}
<1>1. s \in Seq(T) /\ <<k>> \in Seq(T) /\ Len(<<k>>) = 1 /\ Len(s) \in Nat
  BY SeqMonotonic
<1> HIDE DEF T
<1>2. Len(s \o <<k>>) = Len(s) + 1
  BY <1>1, ConcatProperties
<1>3. Forms!Last(s \o <<k>>) = k
  <2>1. (s \o <<k>>)[Len(s) + 1] = <<k>>[1]
    BY <1>1, ConcatProperties
  <2>. QED  BY <1>2, <2>1 DEF Forms!Last
<1>4. Forms!Front(s \o <<k>>) = SubSeq(s \o <<k>>, 1, Len(s))
  BY <1>1, <1>2 DEF Forms!Front
<1>5. SubSeq(s \o <<k>>, 1, Len(s)) = SubSeq(s, 1, Len(s))
  BY <1>1, SubSeqOfConcat1
<1>6. SubSeq(s, 1, Len(s)) = s
  BY <1>1, SubSeqFull
<1>. QED  BY <1>3, <1>4, <1>5, <1>6

LEMMA PagePath == <<"Document", "Page">> = <<"Document">> \o <<"Page">>
<1>1. <<"Document">> \in Seq({"Document", "Page"}) /\ <<"Page">> \in Seq({"Document", "Page"})
      /\ <<"Document", "Page">> \in Seq({"Document", "Page"})
      /\ Len(<<"Document">>) = 1 /\ Len(<<"Page">>) = 1 /\ Len(<<"Document", "Page">>) = 2
  OBVIOUS
<1> DEFINE u == <<"Document">> \o <<"Page">>
<1>2. u \in Seq({"Document", "Page"}) /\ Len(u) = 2 /\ u[1] = "Document" /\ u[2] = "Page"
  BY <1>1, ConcatProperties
<1> HIDE DEF u
<1>3. u = <<"Document", "Page">>
  BY <1>1, <1>2, SeqEqual
<1>. QED  BY <1>3 DEF u

LEMMA BaseSeq == \A b \in Bases : b \in Seq({"Document", "Page"})
<1> TAKE b \in Bases
<1>. QED  BY DEF Bases

LEMMA Below ==
  ASSUME NEW b \in Bases, NEW k
  PROVE  /\ Forms!Last(b \o <<k>>) = k /\ Forms!Front(b \o <<k>>) = b
         /\ Forms!Last(b) \in {"Document", "Page"}
<1>1. b \in Seq({"Document", "Page"})
  BY BaseSeq
<1>2. Forms!Last(b) \in {"Document", "Page"}
  BY DEF Bases, Forms!Last
<1>. QED  BY <1>1, <1>2, Parent

LEMMA Inside ==
  ASSUME NEW k, InField(k)
  PROVE  Forms!Current = k /\ Forms!Front(path) \in Bases
BY Below DEF InField, Forms!Current

LEMMA Outside == path \in Bases => Forms!Current \notin Forms!Fields
BY Below DEF Forms!Current, Forms!Fields

LEMMA PathSame ==
  ASSUME path' = path
  PROVE  (path \in Bases)' = (path \in Bases) /\ \A k : InField(k)' = InField(k)
BY DEF InField

LEMMA PathEnters ==
  ASSUME path \in Bases, NEW k, path' = path \o <<k>>
  PROVE  InField(k)'
BY DEF InField

LEMMA PathBecomes ==
  ASSUME NEW j, InField(j), NEW k, Forms!Becomes(k)
  PROVE  InField(k)' /\ UNCHANGED <<last, strange>>
BY Inside DEF InField, Forms!Becomes

LEMMA PathLeaves ==
  ASSUME NEW k, InField(k), path' = Forms!Front(path)
  PROVE  (path \in Bases)' /\ (Forms!Leave => last' = k)
BY Inside DEF Forms!Leave, Forms!Completed

LEMMA PathPage ==
  ASSUME path \in Bases, Forms!Page
  PROVE  (path \in Bases)'
<1>1. CASE path = <<"Document">>
  <2>1. Forms!Current = "Document"
    BY <1>1 DEF Forms!Current, Forms!Last
  <2>2. path' = path \o <<"Page">>
    BY <2>1 DEF Forms!Page
  <2>. QED  BY <1>1, <2>2, PagePath DEF Bases
<1>2. CASE path = <<"Document", "Page">>
  <2>1. Forms!Current = "Page"
    BY <1>2 DEF Forms!Current, Forms!Last
  <2>2. Forms!Front(path) = <<"Document">>
    <3>1. <<"Document">> \in Seq({"Document"})
      OBVIOUS
    <3>. QED  BY <1>2, <3>1, PagePath, Parent
  <2>3. path' = Forms!Front(path) \o <<"Page">>
    BY <2>1 DEF Forms!Page
  <2>. QED  BY <2>2, <2>3, PagePath DEF Bases
<1>. QED  BY <1>1, <1>2 DEF Bases

(* The text *)

LEMMA TextSame == ASSUME UNCHANGED <<before, line>> PROVE \A m : Has(m)' = Has(m)
BY DEF Has, Forms!Accum

LEMMA TextReset == ASSUME Forms!ResetAccum PROVE \A m : ~ Has(m)'
BY DEF Forms!ResetAccum, Has, Forms!Accum

LEMMA TextGathered ==
  ASSUME NEW t, Forms!Gather(t) PROVE Has("used")' => Has("used")
BY DEF Forms!Gather, Forms!Mark, Has, Forms!Accum

LEMMA TextUsed == ASSUME Forms!KeepUsed PROVE ~ Has("text")'
BY DEF Forms!KeepUsed, Forms!Use, Has, Forms!Accum

-----------------------------------------------------------------------------
(* The steps *)

LEMMA FormInit == Forms!Init => FormInv
BY DEF Forms!Init, FormInv, PathOK, TextOK, Bases, Has, Forms!Accum, InsideField

LEMMA FailKeeps == FormInv /\ Forms!Fail => FormInv'
<1> SUFFICES ASSUME FormInv, Forms!Fail PROVE FormInv'
  OBVIOUS
<1>1. /\ err' = TRUE /\ pc' = "done" /\ UNCHANGED <<last, strange>>
      /\ path' = path /\ UNCHANGED <<before, line>>
  BY DEF Forms!Fail
<1>2. PathOK'
  BY <1>1, PathSame DEF FormInv, PathOK
<1>3. TextOK'
  BY <1>1, TextSame DEF FormInv, TextOK, InsideField
<1>. QED  BY <1>2, <1>3 DEF FormInv

(* The parser stays outside of fields.                                     *)
LEMMA OutsideKeeps ==
  ASSUME FormInv, ~ err, pc \notin InsideField, NEW q, q \notin InsideField, Forms!Goto(q),
         (path \in Bases)',
         q \in {"document", "hash"} => ~ Has("text")',
         last' = last \/ last' \in {"Button", "Text", "Heading", "Page", "Opt"},
         Has("used")' => (last' = last /\ Has("used")) \/ last' = "Opt"
  PROVE  FormInv'
<1>1. pc' = q /\ err' = err
  BY DEF Forms!Goto
<1>2. PathOK'
  BY <1>1 DEF PathOK
<1>3. TextOK'
  BY <1>1 DEF FormInv, TextOK, InsideField
<1>. QED  BY <1>2, <1>3 DEF FormInv

(* It stays in a field, or goes into one.                                  *)
LEMMA InsideKeeps ==
  ASSUME FormInv, ~ err, NEW q \in InsideField, Forms!Goto(q),
         NEW k \in FieldOf[q], InField(k)',
         q \notin {"textfield", "option"} => ~ Has("text")', ~ Has("used")', last' # "Field"
  PROVE  FormInv'
<1>1. pc' = q /\ err' = err
  BY DEF Forms!Goto
<1>2. PathOK'
  BY <1>1, InsideOnly DEF PathOK
<1>3. TextOK'
  BY <1>1 DEF FormInv, TextOK, InsideField
<1>. QED  BY <1>2, <1>3 DEF FormInv

(* It leaves the field.                                                    *)
LEMMA LeaveKeeps ==
  ASSUME FormInv, ~ err, Forms!Goto("document"), (path \in Bases)', ~ Has("text")',
         last' # "Field", Has("used")' => last' \in {"TextField", "NumberField"}
  PROVE  FormInv'
<1>1. pc' = "document" /\ err' = err
  BY DEF Forms!Goto
<1>2. PathOK'
  BY <1>1 DEF PathOK, InsideField
<1>3. TextOK'
  BY <1>1 DEF FormInv, TextOK, InsideField
<1>. QED  BY <1>2, <1>3 DEF FormInv

-----------------------------------------------------------------------------
(* The functions of the parser *)

LEMMA DocumentKeeps == ASSUME FormInv, ~ err, NEW t, Forms!Document(t) PROVE FormInv'
<1>1. /\ pc = "document" /\ pc \notin InsideField /\ path \in Bases /\ ~ Has("text")
      /\ {"document", "text", "button", "opt", "hash", "done"} \cap InsideField = {}
  BY DEF Forms!Document, FormInv, PathOK, TextOK, InsideField
<1>2. CASE t = "phrase" /\ Forms!Goto("text") /\ Forms!Gather(t) /\ Forms!SameTree
  BY <1>1, <1>2, PathSame, TextGathered, OutsideKeeps DEF Forms!SameTree
<1>3. ASSUME NEW q \in {"document", "button", "opt", "hash", "done"}, Forms!Goto(q),
             UNCHANGED <<before, line>>, Forms!SameTree
      PROVE  FormInv'
  BY <1>1, <1>3, PathSame, TextSame, OutsideKeeps DEF Forms!SameTree
<1>. QED  BY <1>2, <1>3, FailKeeps DEF Forms!Document

LEMMA ButtonStepKeeps == ASSUME FormInv, ~ err, NEW t, Forms!Button(t) PROVE FormInv'
<1>1. pc \notin InsideField /\ path \in Bases /\ {"document", "button"} \cap InsideField = {}
  BY DEF Forms!Button, FormInv, PathOK, InsideField
<1>2. CASE Forms!Goto("document") /\ Forms!AddLeaf("Button") /\ Forms!ResetAccum
  BY <1>1, <1>2, PathSame, TextReset, OutsideKeeps DEF Forms!AddLeaf, Forms!Completed
<1>3. CASE Forms!Goto("button") /\ Forms!Gather(t) /\ Forms!SameTree
  BY <1>1, <1>3, PathSame, TextGathered, OutsideKeeps DEF Forms!SameTree
<1>. QED  BY <1>2, <1>3, FailKeeps DEF Forms!Button

LEMMA OptKeeps == ASSUME FormInv, ~ err, NEW t, Forms!Opt(t) PROVE FormInv'
<1>1. pc \notin InsideField /\ path \in Bases /\ {"document", "opt"} \cap InsideField = {}
  BY DEF Forms!Opt, FormInv, PathOK, InsideField
<1>2. CASE Forms!Goto("document") /\ Forms!KeepUsed /\ last' = "Opt" /\ UNCHANGED <<path, strange>>
  BY <1>1, <1>2, PathSame, TextUsed, OutsideKeeps
<1>3. CASE Forms!Goto("opt") /\ Forms!Gather(t) /\ Forms!SameTree
  BY <1>1, <1>3, PathSame, TextGathered, OutsideKeeps DEF Forms!SameTree
<1>. QED  BY <1>2, <1>3, FailKeeps DEF Forms!Opt

LEMMA HashKeeps == ASSUME FormInv, ~ err, NEW t, Forms!Hash(t) PROVE FormInv'
<1>1. /\ pc = "hash" /\ pc \notin InsideField /\ path \in Bases /\ ~ Has("text")
      /\ {"document", "heading"} \cap InsideField = {}
  BY DEF Forms!Hash, FormInv, PathOK, TextOK, InsideField
<1>2. CASE Forms!Goto("document") /\ UNCHANGED <<before, line>> /\ Forms!SameTree
  BY <1>1, <1>2, PathSame, TextSame, OutsideKeeps DEF Forms!SameTree
<1>3. CASE Forms!Goto("heading") /\ Forms!Gather(t) /\ Forms!SameTree
  BY <1>1, <1>3, PathSame, TextGathered, OutsideKeeps DEF Forms!SameTree
<1>. QED  BY <1>2, <1>3, FailKeeps DEF Forms!Hash

LEMMA HeadingStepKeeps == ASSUME FormInv, ~ err, NEW t, Forms!Heading(t) PROVE FormInv'
<1>1. pc \notin InsideField /\ path \in Bases /\ {"document", "heading"} \cap InsideField = {}
  BY DEF Forms!Heading, FormInv, PathOK, InsideField
<1>2. CASE Forms!Goto("document") /\ Forms!AddLeaf("Heading") /\ Forms!ResetAccum
  BY <1>1, <1>2, PathSame, TextReset, OutsideKeeps DEF Forms!AddLeaf, Forms!Completed
<1>3. CASE Forms!Goto("heading") /\ Forms!Gather(t) /\ Forms!SameTree
  BY <1>1, <1>3, PathSame, TextGathered, OutsideKeeps DEF Forms!SameTree
<1>. QED  BY <1>2, <1>3, FailKeeps DEF Forms!Heading

LEMMA FieldStartKeeps ==
  ASSUME FormInv, ~ err, path \in Bases, NEW t, Forms!FieldStart(t) PROVE FormInv'
<1>1. last' # "Field"
  BY DEF Forms!FieldStart, Forms!Completed, FormInv, TextOK
<1>2. \A m : ~ Has(m)'
  BY TextReset DEF Forms!FieldStart
<1>3. PICK q \in InsideField : \E k \in FieldOf[q] : Forms!Goto(q) /\ path' = path \o <<k>>
  <2>1. CASE Forms!Goto("box") /\ path' = path \o <<"Field">>
    BY <2>1 DEF InsideField, FieldOf
  <2>2. CASE Forms!Goto("radio") /\ path' = path \o <<"RadioField">>
    BY <2>2 DEF InsideField, FieldOf
  <2>3. CASE Forms!Goto("drop") /\ path' = path \o <<"DropField">>
    BY <2>3 DEF InsideField, FieldOf
  <2>. QED  BY <2>1, <2>2, <2>3 DEF Forms!FieldStart
<1>4. PICK k \in FieldOf[q] : Forms!Goto(q) /\ path' = path \o <<k>>
  BY <1>3
<1>5. InField(k)'
  BY <1>4, PathEnters
<1>. QED  BY <1>1, <1>2, <1>4, <1>5, InsideKeeps

LEMMA TextStepKeeps == ASSUME FormInv, ~ err, NEW t, Forms!Text(t) PROVE FormInv'
<1>1. /\ pc \notin InsideField /\ path \in Bases
      /\ {"document", "text", "hash", "done"} \cap InsideField = {}
  BY DEF Forms!Text, FormInv, PathOK, InsideField
<1>2. CASE Forms!Goto("text") /\ Forms!Gather(t) /\ Forms!SameTree
  BY <1>1, <1>2, PathSame, TextGathered, OutsideKeeps DEF Forms!SameTree
<1>3. CASE Forms!Goto("hash") /\ Forms!AddLeaf("Text") /\ Forms!ResetAccum
  BY <1>1, <1>3, PathSame, TextReset, OutsideKeeps DEF Forms!AddLeaf, Forms!Completed
<1>4. CASE Forms!Page
  <2>1. Forms!Goto("document") /\ last' = "Page" /\ Forms!ResetAccum
    BY <1>4 DEF Forms!Page, Forms!Completed
  <2>2. (path \in Bases)'
    BY <1>1, <1>4, PathPage
  <2>. QED  BY <1>1, <2>1, <2>2, TextReset, OutsideKeeps
<1>5. CASE Forms!FieldStart(t)
  BY <1>1, <1>5, FieldStartKeeps
<1>6. CASE Forms!Goto("done") /\ UNCHANGED <<before, line>> /\ Forms!SameTree
  BY <1>1, <1>6, PathSame, TextSame, OutsideKeeps DEF Forms!SameTree
<1>. QED  BY <1>2, <1>3, <1>4, <1>5, <1>6, FailKeeps DEF Forms!Text

(* Where the parser is inside a field.                                     *)
LEMMA Where ==
  ASSUME FormInv, ~ err, pc \in InsideField
  PROVE  (\E k \in FieldOf[pc] : InField(k)) /\ ~ Has("used") /\ last # "Field"
BY DEF FormInv, PathOK, TextOK

LEMMA CheckOrTextKeeps == ASSUME FormInv, ~ err, NEW t, Forms!CheckOrText(t) PROVE FormInv'
<1>1. pc = "box" /\ InField("Field") /\ ~ Has("used") /\ ~ Has("text") /\ last # "Field"
  <2>1. pc = "box" /\ pc \in InsideField /\ FieldOf[pc] = {"Field"}
    BY DEF Forms!CheckOrText, InsideField, FieldOf
  <2>2. ~ Has("text")
    BY <2>1 DEF FormInv, TextOK
  <2>. QED  BY <2>1, <2>2, Where
<1>2. /\ "closebox" \in InsideField /\ "CheckField" \in FieldOf["closebox"]
      /\ "textfield" \in InsideField /\ "TextField" \in FieldOf["textfield"]
  BY DEF InsideField, FieldOf
<1>3. CASE Forms!Goto("closebox") /\ Forms!Becomes("CheckField") /\ UNCHANGED <<before, line>>
  <2>1. InField("CheckField")' /\ last' = last /\ ~ Has("text")' /\ ~ Has("used")'
    BY <1>1, <1>3, PathBecomes, TextSame
  <2>. QED  BY <1>1, <1>2, <1>3, <2>1, InsideKeeps
<1>4. CASE /\ Forms!Goto("document") /\ UNCHANGED <<before, line>>
           /\ path' = Forms!Front(path) /\ Forms!Completed("TextField")
  <2>1. (path \in Bases)' /\ ~ Has("text")' /\ ~ Has("used")' /\ last' = "TextField"
    BY <1>1, <1>4, PathLeaves, TextSame DEF Forms!Completed
  <2>. QED  BY <1>4, <2>1, LeaveKeeps
<1>5. CASE Forms!Goto("textfield") /\ Forms!Becomes("TextField") /\ Forms!Gather(t)
  <2>1. InField("TextField")' /\ last' = last /\ ~ Has("used")'
    BY <1>1, <1>5, PathBecomes, TextGathered
  <2>. QED  BY <1>1, <1>2, <1>5, <2>1, InsideKeeps
<1>. QED  BY <1>3, <1>4, <1>5, FailKeeps DEF Forms!CheckOrText

LEMMA CloseBoxKeeps == ASSUME FormInv, ~ err, NEW t, Forms!CloseBox(t) PROVE FormInv'
<1>1. pc = "closebox" /\ pc \in InsideField /\ FieldOf[pc] = {"CheckField"}
  BY DEF Forms!CloseBox, InsideField, FieldOf
<1>2. InField("CheckField") /\ ~ Has("used") /\ ~ Has("text")
  BY <1>1, Where DEF FormInv, TextOK
<1>3. Forms!Goto("document") /\ Forms!Leave /\ path' = Forms!Front(path) /\ UNCHANGED <<before, line>>
  BY DEF Forms!CloseBox, Forms!Leave
<1>4. (path \in Bases)' /\ ~ Has("text")' /\ ~ Has("used")' /\ last' = "CheckField"
  BY <1>2, <1>3, PathLeaves, TextSame
<1>. QED  BY <1>3, <1>4, LeaveKeeps

LEMMA TextFieldKeeps == ASSUME FormInv, ~ err, NEW t, Forms!TextField(t) PROVE FormInv'
<1>1. /\ pc = "textfield" /\ "textfield" \in InsideField
      /\ FieldOf["textfield"] = {"TextField", "NumberField"}
  BY DEF Forms!TextField, InsideField, FieldOf
<1>2. PICK k \in {"TextField", "NumberField"} : InField(k)
  BY <1>1, Where
<1>3. ~ Has("used") /\ last # "Field"
  BY <1>1, Where
<1>4. CASE Forms!Goto("document") /\ Forms!Leave /\ Forms!KeepUsed
  <2>1. path' = Forms!Front(path)
    BY <1>4 DEF Forms!Leave
  <2>2. (path \in Bases)' /\ ~ Has("text")' /\ last' = k
    BY <1>2, <1>4, <2>1, PathLeaves, TextUsed
  <2>. QED  BY <1>4, <2>2, LeaveKeeps
<1>5. CASE Forms!Goto("textfield") /\ Forms!Becomes("NumberField") /\ UNCHANGED <<before, line>>
  <2>1. InField("NumberField")' /\ last' = last /\ ~ Has("used")'
    BY <1>2, <1>3, <1>5, PathBecomes, TextSame
  <2>. QED  BY <1>1, <1>3, <1>5, <2>1, InsideKeeps
<1>6. CASE Forms!Goto("textfield") /\ Forms!Gather(t) /\ Forms!SameTree
  <2>1. InField(k)' /\ last' = last /\ ~ Has("used")'
    BY <1>2, <1>3, <1>6, PathSame, TextGathered DEF Forms!SameTree
  <2>. QED  BY <1>1, <1>3, <1>6, <2>1, InsideKeeps
<1>. QED  BY <1>4, <1>5, <1>6, FailKeeps DEF Forms!TextField

LEMMA RadioKeeps == ASSUME FormInv, ~ err, NEW t, Forms!Radio(t) PROVE FormInv'
<1>1. /\ pc = "radio" /\ "radio" \in InsideField
      /\ FieldOf["radio"] = {"RadioField", "SwitchField"}
  BY DEF Forms!Radio, InsideField, FieldOf
<1>2. PICK k \in {"RadioField", "SwitchField"} : InField(k)
  BY <1>1, Where
<1>3. ~ Has("used") /\ ~ Has("text") /\ last # "Field"
  BY <1>1, Where DEF FormInv, TextOK
<1>4. CASE Forms!Goto("radio") /\ Forms!SameTree /\ UNCHANGED <<before, line>>
  <2>1. InField(k)' /\ last' = last /\ ~ Has("used")' /\ ~ Has("text")'
    BY <1>2, <1>3, <1>4, PathSame, TextSame DEF Forms!SameTree
  <2>. QED  BY <1>1, <1>3, <1>4, <2>1, InsideKeeps
<1>5. CASE Forms!Goto("radio") /\ Forms!Becomes("SwitchField") /\ UNCHANGED <<before, line>>
  <2>1. InField("SwitchField")' /\ last' = last /\ ~ Has("used")' /\ ~ Has("text")'
    BY <1>2, <1>3, <1>5, PathBecomes, TextSame
  <2>. QED  BY <1>1, <1>3, <1>5, <2>1, InsideKeeps
<1>6. CASE Forms!Goto("document") /\ Forms!Leave /\ UNCHANGED <<before, line>>
  <2>1. path' = Forms!Front(path)
    BY <1>6 DEF Forms!Leave
  <2>2. (path \in Bases)' /\ ~ Has("text")' /\ ~ Has("used")' /\ last' = k
    BY <1>2, <1>3, <1>6, <2>1, PathLeaves, TextSame
  <2>. QED  BY <1>6, <2>2, LeaveKeeps
<1>. QED  BY <1>4, <1>5, <1>6, FailKeeps DEF Forms!Radio

(* A drop field's steps but its last.                                      *)
LEMMA InDrop ==
  ASSUME FormInv, ~ err, InField("DropField"), ~ Has("used"), path' = path,
         NEW q \in {"drop", "options", "option"}, Forms!Goto(q),
         q # "option" => ~ Has("text")', ~ Has("used")', last' # "Field"
  PROVE  FormInv'
<1>1. q \in InsideField /\ "DropField" \in FieldOf[q] /\ q # "textfield"
  BY DEF InsideField, FieldOf
<1>2. InField("DropField")'
  BY PathSame
<1>. QED  BY <1>1, <1>2, InsideKeeps

LEMMA DropFieldKeeps == ASSUME FormInv, ~ err, NEW t, Forms!DropField(t) PROVE FormInv'
<1>1. pc \in {"drop", "options"} /\ pc \in InsideField /\ FieldOf[pc] = {"DropField"}
  BY DEF Forms!DropField, InsideField, FieldOf
<1>2. InField("DropField") /\ ~ Has("used") /\ ~ Has("text") /\ last # "Field"
  BY <1>1, Where DEF FormInv, TextOK
<1>3. ASSUME NEW q \in {"options", "option"}, Forms!Goto(q), Forms!SameTree,
             UNCHANGED <<before, line>>
      PROVE  FormInv'
  BY <1>2, <1>3, TextSame, InDrop DEF Forms!SameTree
<1>4. CASE Forms!Goto("document") /\ Forms!Leave /\ UNCHANGED <<before, line>>
  <2>1. path' = Forms!Front(path)
    BY <1>4 DEF Forms!Leave
  <2>2. (path \in Bases)' /\ ~ Has("text")' /\ ~ Has("used")' /\ last' = "DropField"
    BY <1>2, <1>4, <2>1, PathLeaves, TextSame
  <2>. QED  BY <1>4, <2>2, LeaveKeeps
<1>. QED  BY <1>3, <1>4, FailKeeps DEF Forms!DropField

LEMMA DropNextFieldKeeps == ASSUME FormInv, ~ err, NEW t, Forms!DropNextField(t) PROVE FormInv'
<1>1. pc = "option" /\ pc \in InsideField /\ FieldOf[pc] = {"DropField"}
  BY DEF Forms!DropNextField, InsideField, FieldOf
<1>2. InField("DropField") /\ ~ Has("used") /\ last # "Field"
  BY <1>1, Where
<1>3. CASE Forms!Goto("option") /\ Forms!Gather(t) /\ Forms!SameTree
  BY <1>2, <1>3, TextGathered, InDrop DEF Forms!SameTree
<1>4. CASE Forms!Goto("options") /\ Forms!AddLeaf("Selection") /\ Forms!ResetAccum
  BY <1>2, <1>4, TextReset, InDrop DEF Forms!AddLeaf, Forms!Completed
<1>5. CASE Forms!Goto("option") /\ UNCHANGED <<before, line>> /\ Forms!SameTree
  BY <1>2, <1>5, TextSame, InDrop DEF Forms!SameTree
<1>. QED  BY <1>3, <1>4, <1>5, FailKeeps DEF Forms!DropNextField

LEMMA FormStepKeeps == FormInv /\ [Forms!Next]_(Forms!vars) => FormInv'
<1> SUFFICES ASSUME FormInv, [Forms!Next]_(Forms!vars) PROVE FormInv'
  OBVIOUS
<1>1. CASE UNCHANGED Forms!vars
  <2>1. PathOK'
    BY <1>1, PathSame DEF FormInv, PathOK, Forms!vars
  <2>2. TextOK'
    BY <1>1, TextSame DEF FormInv, TextOK, Forms!vars
  <2>. QED  BY <2>1, <2>2 DEF FormInv
<1>2. ASSUME NEW t, Forms!Read(t) PROVE FormInv'
  <2>1. ~ err
    BY <1>2 DEF FormInv, PathOK, Forms!Read, Forms!Document, Forms!Button, Forms!Opt, Forms!Hash,
                Forms!Heading, Forms!Text, Forms!CheckOrText,
                Forms!CloseBox, Forms!TextField, Forms!Radio, Forms!DropField, Forms!DropNextField
  <2>. QED  BY <1>2, <2>1, DocumentKeeps, ButtonStepKeeps, OptKeeps, HashKeeps, HeadingStepKeeps,
               TextStepKeeps, CheckOrTextKeeps, CloseBoxKeeps, TextFieldKeeps, RadioKeeps,
               DropFieldKeeps, DropNextFieldKeeps DEF Forms!Read
<1>. QED  BY <1>1, <1>2 DEF Forms!Next, Forms!Done

(* What the invariant says of the tree and the text.                       *)
LEMMA FormHolds == FormInv => Forms!FieldsAreLeft /\ Forms!NoTextWaits /\ Forms!LeaksOnlyAfter
<1> SUFFICES ASSUME FormInv PROVE Forms!FieldsAreLeft /\ Forms!NoTextWaits /\ Forms!LeaksOnlyAfter
  OBVIOUS
<1>1. \E b \in Bases, f \in {<<>>} \cup {<<k>> : k \in Forms!Fields} : path = b \o f
  <2>1. CASE path \in Bases
    <3>1. path \in Seq({"Document", "Page"})
      BY <2>1, BaseSeq
    <3>2. path = path \o <<>>
      BY <3>1, ConcatEmptySeq
    <3>. QED  BY <2>1, <3>2
  <2>2. ASSUME NEW k \in Forms!Fields, InField(k)
        PROVE  \E b \in Bases, f \in {<<>>} \cup {<<j>> : j \in Forms!Fields} : path = b \o f
    <3>1. PICK b \in Bases : path = b \o <<k>>
      BY <2>2 DEF InField
    <3>. QED  BY <3>1
  <2>. QED  BY <2>1, <2>2 DEF FormInv, PathOK
<1>2. ~ err => (Forms!Current \in Forms!Fields <=> pc \in InsideField)
  <2>1. CASE ~ err /\ pc \in InsideField
    <3>1. PICK k \in FieldOf[pc] : InField(k)
      BY <2>1 DEF FormInv, PathOK
    <3>. QED  BY <2>1, <3>1, Inside, InsideOnly
  <2>2. CASE ~ err /\ pc \notin InsideField
    BY <2>2, Outside DEF FormInv, PathOK
  <2>. QED  BY <2>1, <2>2
<1>3. Forms!Current = "Field" => pc = "box" \/ err
  <2>1. CASE ~ err /\ pc \in InsideField /\ pc # "box"
    <3>1. PICK k \in FieldOf[pc] : InField(k)
      BY <2>1 DEF FormInv, PathOK
    <3>2. k # "Field"
      BY <2>1, <3>1 DEF FieldOf, InsideField
    <3>. QED  BY <3>1, <3>2, Inside
  <2>2. CASE ~ err /\ pc \notin InsideField
    BY <1>2, <2>2 DEF Forms!Fields
  <2>. QED  BY <2>1, <2>2
<1>4. last # "Field" /\ Forms!LeaksOnlyAfter /\ Forms!NoTextWaits
  BY DEF FormInv, TextOK, Has, Forms!LeaksOnlyAfter, Forms!NoTextWaits
<1>. QED  BY <1>1, <1>2, <1>3, <1>4, Zenon DEF Forms!FieldsAreLeft, InsideField, Bases

-----------------------------------------------------------------------------
(* Rules: types *)

RuleRec ==
  [code : {"num", "list"}, start : Nat, stop : Nat, step : Nat, words : Nat,
   made : BOOLEAN, files : SUBSET Nat, invalid : BOOLEAN]
FedRec == [at : {"new", "loop", "closed"}, c : Nat]

(* The rules that have said they are ready: in the queue, being run, or    *)
(* through.                                                                *)
Waiting == {ready[k] : k \in DOMAIN ready}
Served  == IF runner.at \in {"feed", "inject"} THEN {runner.rule} ELSE {}
Through == {i \in DOMAIN rules : fed[i].at # "new" /\ i \notin Waiting /\ i \notin Served}

(* Once the goroutines are there; after a panic nothing happens.           *)
Started == runner.at \in {"next", "feed", "inject", "closed"}

RulesTypeOK ==
  /\ runner = [at |-> runner.at, rule |-> runner.rule, value |-> runner.value, run |-> runner.run]
  /\ runner.at \in {"parse", "next", "feed", "inject", "closed", "crashed"}
  /\ text = [state |-> text.state, cur |-> text.cur, quote |-> text.quote]
  /\ text.cur \in RuleRec /\ rules \in Seq(RuleRec)
  /\ runner.at = "parse" => ready = <<>> /\ runner.run = 0 /\ fed = <<>>
  /\ Started =>
       /\ fed \in [DOMAIN rules -> FedRec] /\ sent \in [DOMAIN rules -> Seq(Nat)]
       /\ ready \in Seq(DOMAIN rules) /\ Served \subseteq DOMAIN rules
  /\ runner.at = "inject" => runner.value \in Nat

(* Each is at one of the three places once, and what is through is closed; *)
(* the run counts those.                                                   *)
PlacesOK ==
  /\ \A k, m \in DOMAIN ready : ready[k] = ready[m] => k = m
  /\ Waiting \cap Served = {}
  /\ \A i \in Waiting \cup Served : fed[i].at # "new"
  /\ \A i \in Through : fed[i].at = "closed"
  /\ runner.run = Cardinality(Through)
  /\ runner.at = "closed" => Through = DOMAIN rules

(* What the caller has had of a rule, with the value on its way to him.    *)
Had(i) ==
  IF runner.at = "inject" /\ runner.rule = i THEN Append(sent[i], runner.value) ELSE sent[i]

(* The words of a list that are not marked as a file, and those before c.  *)
Spots(r)    == (0..(r.words - 1)) \ r.files
Passed(r, c) == {d \in Spots(r) : d < c}

NumSoFar(r, f, had) ==
  /\ \A k \in 1..Len(had) : had[k] = r.start + (k - 1) * Rules!Step(r)
  /\ f.at = "loop" => /\ f.c = r.start + Len(had) * Rules!Step(r)
                      /\ had = <<>> \/ f.c <= r.stop
  /\ f.at = "closed" => /\ had # <<>> /\ f.c = r.start + (Len(had) - 1) * Rules!Step(r)
                        /\ f.c + Rules!Step(r) > r.stop /\ (Len(had) = 1 \/ f.c <= r.stop)

ListSoFar(r, f, had) ==
  /\ \A k \in 1..Len(had) : had[k] \in Spots(r) /\ Cardinality(Passed(r, had[k])) = k - 1
  /\ f.at = "loop" => Len(had) = Cardinality(Passed(r, f.c)) /\ (f.c = 0 \/ f.c < r.words)
  /\ f.at = "closed" => Len(had) = Cardinality(Spots(r))

SoFar(r, f, had) ==
  /\ had \in Seq(Nat)
  /\ f.at = "new" => had = <<>>
  /\ IF r.code = "num" THEN NumSoFar(r, f, had) ELSE ListSoFar(r, f, had)

SaidOK == \A i \in DOMAIN rules : SoFar(rules[i], fed[i], Had(i))

RulesInv == RulesTypeOK /\ (Started => PlacesOK /\ SaidOK)

-----------------------------------------------------------------------------
(* Rules: what a rule says *)

(* The instance has a symbol of its own for that of FiniteSets.            *)
LEMMA RuleCount == \A S : Rules!Cardinality(S) = Cardinality(S)
BY DEF Rules!Cardinality, Cardinality

LEMMA StepPositive == ASSUME NEW r \in RuleRec PROVE Rules!Step(r) \in Nat \ {0}
BY DEF RuleRec, Rules!Step

LEMMA DivIs ==
  ASSUME NEW d \in Nat, NEW s \in Nat \ {0}, NEW m \in Nat, m * s <= d, d < m * s + s
  PROVE  d \div s = m
<1>1. PICK q \in Nat : q = d \div s /\ q * s <= d /\ d < q * s + s
  OBVIOUS
<1>2. \A a, b \in Nat : a < b => a * s + s <= b * s
  <2> SUFFICES ASSUME NEW a \in Nat, NEW b \in Nat, a < b PROVE a * s + s <= b * s
    OBVIOUS
  <2>1. PICK e \in Nat : b = a + 1 + e
    <3>1. b - a - 1 \in Nat /\ b = a + 1 + (b - a - 1)
      OBVIOUS
    <3>. QED  BY <3>1
  <2>2. b * s = a * s + s + e * s /\ e * s \in Nat
    BY <2>1
  <2>. QED  BY <2>2
<1>3. m * s \in Nat /\ q * s \in Nat
  BY <1>1
<1>4. ~(q < m) /\ ~(m < q)
  BY <1>1, <1>2, <1>3
<1>. QED  BY <1>1, <1>4

(* The numbers from start to stop, n of them.                              *)
LEMMA NumSaid ==
  ASSUME NEW r \in RuleRec, r.code = "num", NEW n \in Nat \ {0},
         r.start + (n - 1) * Rules!Step(r) + Rules!Step(r) > r.stop,
         n = 1 \/ r.start + (n - 1) * Rules!Step(r) <= r.stop
  PROVE  Rules!Said(r) = [k \in 1..n |-> r.start + (k - 1) * Rules!Step(r)]
<1>1. PICK s \in Nat \ {0} : s = Rules!Step(r)
  BY StepPositive
<1>2. PICK m \in Nat : m = n - 1
  OBVIOUS
<1>3. PICK a \in Nat, b \in Nat : a = r.start /\ b = r.stop
  BY DEF RuleRec
<1>4. m * s \in Nat
  OBVIOUS
<1>5. a + m * s + s > b /\ (m = 0 \/ a + m * s <= b)
  BY <1>1, <1>2, <1>3
<1>6. n = 1 + (IF b < a THEN 0 ELSE (b - a) \div s)
  <2>1. CASE b < a
    BY <1>2, <1>4, <1>5, <2>1
  <2>2. CASE a <= b
    <3>1. b - a \in Nat /\ b - a < m * s + s
      BY <1>4, <1>5, <2>2
    <3>2. m * s <= b - a
      <4>1. m = 0 => m * s = 0
        OBVIOUS
      <4>. QED  BY <1>4, <1>5, <2>2, <4>1
    <3>3. (b - a) \div s = m
      BY <3>1, <3>2, DivIs
    <3>. QED  BY <1>2, <2>2, <3>3
  <2>. QED  BY <2>1, <2>2
<1>. QED  BY <1>1, <1>3, <1>6 DEF Rules!Said

LEMMA SpotsFinite ==
  ASSUME NEW r \in RuleRec, NEW c
  PROVE  /\ IsFiniteSet(Spots(r)) /\ Cardinality(Spots(r)) \in Nat
         /\ IsFiniteSet(Passed(r, c)) /\ Cardinality(Passed(r, c)) \in Nat
<1>1. IsFiniteSet(0..(r.words - 1))
  BY FS_Interval DEF RuleRec
<1>2. Spots(r) \subseteq 0..(r.words - 1) /\ Passed(r, c) \subseteq 0..(r.words - 1)
  BY DEF Spots, Passed
<1>. QED  BY <1>1, <1>2, FS_Subset, FS_CardinalityType

LEMMA PassedNext ==
  ASSUME NEW r \in RuleRec, NEW c \in Nat
  PROVE  /\ Cardinality(Passed(r, c + 1))
              = Cardinality(Passed(r, c)) + IF c \in Spots(r) THEN 1 ELSE 0
         /\ r.words <= c => Passed(r, c) = Spots(r)
<1>1. r.words \in Nat
  BY DEF RuleRec
<1>2. Passed(r, c + 1) = IF c \in Spots(r) THEN Passed(r, c) \cup {c} ELSE Passed(r, c)
  BY <1>1 DEF Passed, Spots
<1>3. c \notin Passed(r, c)
  BY DEF Passed
<1>4. Cardinality(Passed(r, c) \cup {c}) = Cardinality(Passed(r, c)) + 1
  BY <1>3, SpotsFinite, FS_AddElement
<1>5. r.words <= c => Passed(r, c) = Spots(r)
  BY <1>1 DEF Passed, Spots
<1>. QED  BY <1>2, <1>4, <1>5, SpotsFinite

(* A word is told by how many are before it.                               *)
LEMMA PassedOnce ==
  ASSUME NEW r \in RuleRec, NEW c \in Spots(r), NEW d \in Spots(r),
         Cardinality(Passed(r, c)) = Cardinality(Passed(r, d))
  PROVE  c = d
<1>1. \A a, b \in Spots(r) : a < b => Cardinality(Passed(r, a)) < Cardinality(Passed(r, b))
  <2> SUFFICES ASSUME NEW a \in Spots(r), NEW b \in Spots(r), a < b
               PROVE  Cardinality(Passed(r, a)) < Cardinality(Passed(r, b))
    OBVIOUS
  <2>1. a \in Nat /\ b \in Nat /\ \A e \in Spots(r) : e \in Nat
    BY DEF Spots, RuleRec
  <2>2. \A e \in Spots(r) : e < a => e < b
    BY <2>1
  <2>3. Passed(r, a) \subseteq Passed(r, b)
    BY <2>2 DEF Passed
  <2>4. a \in Passed(r, b) /\ a \notin Passed(r, a)
    BY <2>1 DEF Passed
  <2>. QED  BY <2>3, <2>4, SpotsFinite, FS_Subset
<1>2. c \in Nat /\ d \in Nat
  BY DEF Spots, RuleRec
<1>. QED  BY <1>1, <1>2, SpotsFinite

LEMMA ListSaid ==
  ASSUME NEW r \in RuleRec, r.code = "list", NEW had \in Seq(Nat),
         Len(had) = Cardinality(Spots(r)),
         \A k \in 1..Len(had) : had[k] \in Spots(r) /\ Cardinality(Passed(r, had[k])) = k - 1
  PROVE  Rules!Said(r) = had
<1>1. Rules!Said(r) = [k \in 1..Rules!Cardinality(Spots(r)) |->
                         CHOOSE c \in Spots(r) : Rules!Cardinality(Passed(r, c)) = k - 1]
  BY DEF Rules!Said, Spots, Passed
<1>2. ASSUME NEW k \in 1..Len(had)
      PROVE  had[k] = CHOOSE c \in Spots(r) : Rules!Cardinality(Passed(r, c)) = k - 1
  BY PassedOnce, RuleCount
<1>3. had = [k \in 1..Len(had) |-> had[k]]
  OBVIOUS
<1>. QED  BY <1>1, <1>2, <1>3, RuleCount

(* What is through has said everything.                                    *)
LEMMA AllIsSaid ==
  ASSUME NEW r \in RuleRec, NEW f \in FedRec, NEW had, SoFar(r, f, had), f.at = "closed"
  PROVE  had = Rules!Said(r)
<1>1. CASE r.code = "num"
  <2>1. PICK n \in Nat \ {0} : n = Len(had)
    BY <1>1 DEF SoFar, NumSoFar
  <2>2. Rules!Said(r) = [k \in 1..n |-> r.start + (k - 1) * Rules!Step(r)]
    BY <1>1, <2>1, NumSaid DEF SoFar, NumSoFar
  <2>3. had = [k \in 1..n |-> had[k]]
    BY <2>1 DEF SoFar
  <2>. QED  BY <1>1, <2>1, <2>2, <2>3 DEF SoFar, NumSoFar
<1>2. CASE r.code = "list"
  BY <1>2, ListSaid DEF SoFar, ListSoFar
<1>. QED  BY <1>1, <1>2 DEF RuleRec

(* Where the goroutine of a rule goes after a value (Advanced).            *)
Moved(r, f) ==
  IF Rules!Past(r, f.c) THEN [at |-> "closed", c |-> f.c]
  ELSE [at |-> "loop", c |-> f.c + (IF r.code = "num" THEN Rules!Step(r) ELSE 1)]

LEMMA MovedTyped ==
  ASSUME NEW r \in RuleRec, NEW f \in FedRec, f.at = "loop"
  PROVE  /\ Moved(r, f) \in FedRec
         /\ Moved(r, f).at = (IF Rules!Past(r, f.c) THEN "closed" ELSE "loop")
         /\ Moved(r, f).c = IF Rules!Past(r, f.c) THEN f.c
                            ELSE f.c + (IF r.code = "num" THEN Rules!Step(r) ELSE 1)
<1>1. f.c + Rules!Step(r) \in Nat /\ f.c + 1 \in Nat
  BY StepPositive DEF FedRec
<1>. QED  BY <1>1 DEF Moved, FedRec

LEMMA FeedsOn ==
  ASSUME NEW r \in RuleRec, NEW f \in FedRec, f.at = "loop", NEW had, SoFar(r, f, had),
         r.code = "list" => f.c \notin r.files /\ r.words > 0
  PROVE  SoFar(r, Moved(r, f), Append(had, f.c))
<1>1. PICK g \in FedRec : g = Moved(r, f)
  BY MovedTyped
<1>2. PICK c \in Nat, s \in Nat \ {0}, n \in Nat : c = f.c /\ s = Rules!Step(r) /\ n = Len(had)
  BY StepPositive DEF FedRec, SoFar
<1>3. PICK h \in Seq(Nat) : h = Append(had, c)
  <2>1. had \in Seq(Nat)
    BY DEF SoFar
  <2>2. Append(had, c) \in Seq(Nat)
    BY <2>1
  <2>. QED  BY <2>2
<1>4. /\ Len(h) = n + 1 /\ h[n + 1] = c /\ h # <<>>
      /\ \A k \in 1..n : h[k] = had[k]
      /\ \A k \in 1..(n + 1) : k \in 1..n \/ k = n + 1
  <2>1. had \in Seq(Nat)
    BY DEF SoFar
  <2>2. Len(h) = n + 1 /\ h[n + 1] = c
    BY <1>2, <1>3, <2>1
  <2>3. \A k \in 1..n : h[k] = had[k]
    BY <1>2, <1>3, <2>1
  <2>. QED  BY <2>2, <2>3
<1>5. CASE r.code = "num"
  <2>1. PICK a \in Nat, b \in Nat : a = r.start /\ b = r.stop
    BY DEF RuleRec
  <2>2. /\ \A k \in 1..n : had[k] = a + (k - 1) * s
        /\ c = a + n * s /\ (n = 0 \/ c <= b)
    BY <1>2, <1>5, <2>1 DEF SoFar, NumSoFar
  <2>3. \A k \in 1..(n + 1) : h[k] = a + (k - 1) * s
    <3>1. n + 1 - 1 = n
      OBVIOUS
    <3>2. h[n + 1] = a + (n + 1 - 1) * s
      BY <1>4, <2>2, <3>1
    <3> SUFFICES ASSUME NEW k \in 1..(n + 1) PROVE h[k] = a + (k - 1) * s
      OBVIOUS
    <3>3. CASE k \in 1..n
      BY <1>4, <2>2, <3>3
    <3>4. CASE k = n + 1
      BY <3>2, <3>4
    <3>. QED  BY <1>4, <3>3, <3>4
  <2>4. (n + 1) * s = n * s + s /\ n * s \in Nat
    OBVIOUS
  <2>5. /\ g.at = (IF c + s > b THEN "closed" ELSE "loop")
        /\ g.c = IF c + s > b THEN c ELSE c + s
    BY <1>1, <1>2, <1>5, <2>1, MovedTyped DEF Rules!Past
  <2>6. NumSoFar(r, g, h)
    <3>1. g.at = "loop" => g.c = a + (n + 1) * s /\ g.c <= b
      <4>1. PICK u \in Nat, v \in Nat : u = n * s /\ v = (n + 1) * s /\ v = u + s
        BY <2>4
      <4>2. c = a + u
        BY <2>2, <4>1
      <4>3. g.at = "loop" => g.c = a + v /\ g.c <= b
        BY <2>5, <4>1, <4>2
      <4>. QED  BY <4>1, <4>3
    <3>2. g.at = "closed" => /\ g.c = a + (n + 1 - 1) * s /\ g.c + s > b
                             /\ (n + 1 = 1 \/ g.c <= b)
      <4>1. n + 1 - 1 = n /\ (n = 0 => n + 1 = 1)
        OBVIOUS
      <4>. QED  BY <2>2, <2>5, <4>1
    <3>. QED  BY <1>2, <1>4, <2>1, <2>3, <3>1, <3>2 DEF NumSoFar
  <2>. QED  BY <1>1, <1>2, <1>3, <1>5, <2>5, <2>6 DEF SoFar
<1>6. CASE r.code = "list"
  <2>1. r.words \in Nat /\ r.words > 0 /\ (c = 0 \/ c < r.words) /\ c \notin r.files
    BY <1>2, <1>6 DEF RuleRec, SoFar, ListSoFar
  <2>2. c \in Spots(r)
    BY <2>1 DEF Spots
  <2>3. n = Cardinality(Passed(r, c))
    BY <1>2, <1>6 DEF SoFar, ListSoFar
  <2>4. \A k \in 1..(n + 1) : h[k] \in Spots(r) /\ Cardinality(Passed(r, h[k])) = k - 1
    <3>1. \A k \in 1..n : had[k] \in Spots(r) /\ Cardinality(Passed(r, had[k])) = k - 1
      BY <1>2, <1>6 DEF SoFar, ListSoFar
    <3>2. h[n + 1] \in Spots(r) /\ Cardinality(Passed(r, h[n + 1])) = n + 1 - 1
      BY <1>4, <2>2, <2>3
    <3> SUFFICES ASSUME NEW k \in 1..(n + 1)
                 PROVE  h[k] \in Spots(r) /\ Cardinality(Passed(r, h[k])) = k - 1
      OBVIOUS
    <3>3. CASE k \in 1..n
      <4>1. h[k] = had[k]
        BY <1>4, <3>3
      <4>. QED  BY <3>1, <3>3, <4>1
    <3>4. CASE k = n + 1
      BY <3>2, <3>4
    <3>. QED  BY <1>4, <3>3, <3>4
  <2>5. Cardinality(Passed(r, c + 1)) = n + 1 /\ (r.words <= c + 1 => Passed(r, c + 1) = Spots(r))
    <3>1. Cardinality(Passed(r, c + 1)) = n + 1
      BY <2>2, <2>3, PassedNext
    <3>2. c + 1 \in Nat
      OBVIOUS
    <3>. QED  BY <3>1, <3>2, PassedNext
  <2>6. /\ g.at = (IF c + 1 >= r.words THEN "closed" ELSE "loop")
        /\ g.c = IF c + 1 >= r.words THEN c ELSE c + 1
    BY <1>1, <1>2, <1>6, MovedTyped DEF Rules!Past
  <2>7. ListSoFar(r, g, h)
    BY <1>4, <2>1, <2>4, <2>5, <2>6 DEF ListSoFar
  <2>. QED  BY <1>1, <1>2, <1>3, <1>6, <2>6, <2>7 DEF SoFar
<1>. QED  BY <1>5, <1>6 DEF RuleRec

LEMMA PassesOn ==
  ASSUME NEW r \in RuleRec, NEW f \in FedRec, f.at = "loop", NEW had, SoFar(r, f, had),
         r.code = "list", f.c \in r.files
  PROVE  SoFar(r, Moved(r, f), had)
<1>1. PICK g \in FedRec : g = Moved(r, f)
  BY MovedTyped
<1>2. PICK c \in Nat : c = f.c
  BY DEF FedRec
<1>3. r.words \in Nat /\ c \notin Spots(r)
  BY <1>2 DEF RuleRec, Spots
<1>4. /\ g.at = (IF c + 1 >= r.words THEN "closed" ELSE "loop")
      /\ g.c = IF c + 1 >= r.words THEN c ELSE c + 1
  BY <1>1, <1>2, MovedTyped DEF Rules!Past
<1>5. /\ Cardinality(Passed(r, c + 1)) = Cardinality(Passed(r, c))
      /\ r.words <= c + 1 => Passed(r, c + 1) = Spots(r)
  BY <1>3, PassedNext, SpotsFinite
<1>6. ListSoFar(r, g, had)
  BY <1>2, <1>3, <1>4, <1>5 DEF SoFar, ListSoFar
<1>. QED  BY <1>1, <1>4, <1>6 DEF SoFar

-----------------------------------------------------------------------------
(* Rules: steps of the text *)

(* While the text is read the goroutines are not there.                    *)
LEMMA ParsingKeeps ==
  ASSUME RulesInv, runner.at = "parse", UNCHANGED <<fed, ready, runner, sent>>,
         text' = [state |-> text'.state, cur |-> text'.cur, quote |-> text'.quote],
         text'.cur \in RuleRec, rules' \in Seq(RuleRec)
  PROVE  RulesInv'
<1>1. ~Started' /\ runner.at # "inject"
  BY DEF Started
<1>2. RulesTypeOK'
  BY <1>1 DEF RulesInv, RulesTypeOK
<1>. QED  BY <1>1, <1>2 DEF RulesInv

LEMMA BlankTyped == \A made \in BOOLEAN : Rules!Blank(made) \in RuleRec
BY DEF Rules!Blank, RuleRec

LEMMA TakenTyped ==
  ASSUME text.cur \in RuleRec, NEW t \in Rules!Tokens,
         NEW g \in Rules!Grammar, g[1] = text.state, g[2] = t.is
  PROVE  Rules!Taken(t) \in RuleRec
<1>1. PICK cur \in RuleRec : cur = text.cur
  OBVIOUS
<1>2. t.n \in Nat
  <2>1. t.n \in Nums \cup {0}
    BY DEF Rules!Tokens
  <2>2. Nums \subseteq Nat
    BY RuleAssumption DEF Rules!RuleConstants
  <2>3. Nums \cup {0} \subseteq Nat
    BY <2>2
  <2>. QED  BY <2>1, <2>3
<1>3. cur.words + 1 \in Nat /\ cur.files \cup {cur.words + 1} \in SUBSET Nat
  BY DEF RuleRec
<1>4. text.state = "kind" => t.is \in {"num", "list"}
  BY DEF Rules!Grammar
<1>5. /\ [cur EXCEPT !.start = t.n] \in RuleRec /\ [cur EXCEPT !.stop = t.n] \in RuleRec
      /\ [cur EXCEPT !.step = t.n] \in RuleRec
  BY <1>2 DEF RuleRec
<1>6. [cur EXCEPT !.words = cur.words + 1, !.files = cur.files \cup {cur.words + 1}] \in RuleRec
  BY <1>3 DEF RuleRec
<1>7. text.state = "kind" => [cur EXCEPT !.code = t.is] \in RuleRec
  BY <1>4 DEF RuleRec
<1>. QED  BY <1>1, <1>5, <1>6, <1>7 DEF Rules!Taken

LEMMA AppendedTyped ==
  ASSUME RulesInv, Rules!Appended
  PROVE  /\ text' = [state |-> text'.state, cur |-> text'.cur, quote |-> text'.quote]
         /\ text'.cur \in RuleRec /\ rules' \in Seq(RuleRec)
<1>1. rules' = Append(rules, text.cur) /\ text' = [text EXCEPT !.state = "start", !.cur = Rules!Blank(FALSE)]
  BY DEF Rules!Appended
<1>2. text = [state |-> text.state, cur |-> text.cur, quote |-> text.quote]
      /\ text.cur \in RuleRec /\ rules \in Seq(RuleRec)
  BY DEF RulesInv, RulesTypeOK
<1>3. text' = [state |-> "start", cur |-> Rules!Blank(FALSE), quote |-> text.quote]
  BY <1>1, <1>2
<1>4. /\ text' = [state |-> text'.state, cur |-> text'.cur, quote |-> text'.quote]
      /\ text'.cur \in RuleRec
  BY <1>3, BlankTyped
<1>5. Append(rules, text.cur) \in Seq(RuleRec)
  BY <1>2
<1>. QED  BY <1>1, <1>4, <1>5

LEMMA FailedTyped ==
  ASSUME RulesInv, Rules!Failed
  PROVE  /\ text' = [state |-> text'.state, cur |-> text'.cur, quote |-> text'.quote]
         /\ text'.cur \in RuleRec /\ rules' \in Seq(RuleRec)
<1>1. text' = [text EXCEPT !.state = "err", !.cur.invalid = TRUE] /\ rules' = rules
  BY DEF Rules!Failed
<1>2. text'.cur = [text.cur EXCEPT !.invalid = TRUE]
      /\ text' = [state |-> text'.state, cur |-> text'.cur, quote |-> text'.quote]
  BY <1>1 DEF RulesInv, RulesTypeOK
<1>. QED  BY <1>1, <1>2 DEF RulesInv, RulesTypeOK, RuleRec

LEMMA ParseStepKeeps == ASSUME RulesInv, Rules!Parse PROVE RulesInv'
<1>1. PICK t \in Rules!Tokens :
        Rules!Accept(t) \/ Rules!WriteToNil(t) \/ Rules!Refuse(t) \/ Rules!Quoted(t) \/ Rules!AfterError(t)
  BY DEF Rules!Parse
<1>2. runner.at = "parse"
  BY <1>1 DEF Rules!Accept, Rules!WriteToNil, Rules!Refuse, Rules!Quoted, Rules!AfterError, Rules!Parsing
<1>3. CASE Rules!Accept(t)
  <2>1. PICK g \in Rules!Grammar :
          /\ g[1] = text.state /\ g[2] = t.is
          /\ IF t.is = "newline" THEN Rules!Appended
             ELSE /\ text' = [state |-> g[3], cur |-> Rules!Taken(t),
                              quote |-> IF g[3] = "quoted" THEN t.is ELSE text.quote]
                  /\ UNCHANGED rules
    BY <1>3 DEF Rules!Accept
  <2>2. UNCHANGED <<fed, ready, runner, sent>>
    BY <1>3 DEF Rules!Accept, Rules!Running
  <2>3. Rules!Taken(t) \in RuleRec
    BY <2>1, TakenTyped DEF RulesInv, RulesTypeOK
  <2>4. CASE t.is = "newline"
    BY <1>2, <2>1, <2>2, <2>4, AppendedTyped, ParsingKeeps
  <2>5. CASE t.is # "newline"
    <3>1. /\ text' = [state |-> text'.state, cur |-> text'.cur, quote |-> text'.quote]
          /\ text'.cur \in RuleRec /\ rules' \in Seq(RuleRec)
      BY <2>1, <2>3, <2>5 DEF RulesInv, RulesTypeOK
    <3>. QED  BY <1>2, <2>2, <3>1, ParsingKeeps
  <2>. QED  BY <2>4, <2>5
<1>4. CASE Rules!WriteToNil(t)
  <2>1. runner' = [runner EXCEPT !.at = "crashed"] /\ UNCHANGED <<text, rules, fed, ready, sent>>
    BY <1>4 DEF Rules!WriteToNil
  <2>. QED  BY <2>1 DEF RulesInv, RulesTypeOK, Started
<1>5. CASE Rules!Refuse(t)
  <2>1. Rules!Failed /\ UNCHANGED <<fed, ready, runner, sent>>
    BY <1>5 DEF Rules!Refuse, Rules!Running
  <2>. QED  BY <1>2, <2>1, FailedTyped, ParsingKeeps
<1>6. CASE Rules!Quoted(t)
  <2>1. UNCHANGED <<fed, ready, runner, sent>>
    BY <1>6 DEF Rules!Quoted, Rules!Running
  <2>2. CASE Rules!Failed
    BY <1>2, <2>1, <2>2, FailedTyped, ParsingKeeps
  <2>3. CASE /\ text' = [state |-> "list", cur |-> [text.cur EXCEPT !.words = @ + 1], quote |-> "none"]
             /\ UNCHANGED rules
    <3>1. text'.cur = [text.cur EXCEPT !.words = text.cur.words + 1]
          /\ text' = [state |-> text'.state, cur |-> text'.cur, quote |-> text'.quote]
      BY <2>3
    <3>2. text'.cur \in RuleRec
      BY <3>1 DEF RulesInv, RulesTypeOK, RuleRec
    <3>. QED  BY <1>2, <2>1, <2>3, <3>1, <3>2, ParsingKeeps DEF RulesInv, RulesTypeOK
  <2>. QED  BY <1>6, <2>2, <2>3 DEF Rules!Quoted
<1>7. CASE Rules!AfterError(t)
  <2>1. Rules!Appended /\ UNCHANGED <<fed, ready, runner, sent>>
    BY <1>7 DEF Rules!AfterError, Rules!Running
  <2>. QED  BY <1>2, <2>1, AppendedTyped, ParsingKeeps
<1>. QED  BY <1>1, <1>3, <1>4, <1>5, <1>6, <1>7

LEMMA StartKeeps == ASSUME RulesInv, Rules!Start PROVE RulesInv'
<1>1. /\ runner.at = "parse" /\ runner' = [runner EXCEPT !.at = "next"]
      /\ fed' = [i \in DOMAIN rules |-> [at |-> "new", c |-> 0]]
      /\ sent' = [i \in DOMAIN rules |-> <<>>]
      /\ text' = Rules!NoText /\ rules' = rules /\ ready' = ready
  BY DEF Rules!Start
<1>2. /\ runner'.at = "next" /\ runner'.run = 0 /\ ready' = <<>>
      /\ runner' = [at |-> runner'.at, rule |-> runner'.rule, value |-> runner'.value,
                    run |-> runner'.run]
  BY <1>1 DEF RulesInv, RulesTypeOK
<1>3. Served' = {} /\ Waiting' = {} /\ Through' = {} /\ DOMAIN ready' = {}
  BY <1>1, <1>2 DEF Served, Waiting, Through
<1>4. RulesTypeOK'
  <2>1. /\ text' = [state |-> text'.state, cur |-> text'.cur, quote |-> text'.quote]
        /\ text'.cur \in RuleRec /\ rules' \in Seq(RuleRec)
    BY <1>1, BlankTyped DEF Rules!NoText, RulesInv, RulesTypeOK
  <2>2. [at |-> "new", c |-> 0] \in FedRec
    BY DEF FedRec
  <2>3. fed' \in [DOMAIN rules -> FedRec] /\ sent' \in [DOMAIN rules -> Seq(Nat)]
    BY <1>1, <2>2
  <2>. QED  BY <1>1, <1>2, <1>3, <2>1, <2>3 DEF RulesTypeOK
<1>5. PlacesOK'
  BY <1>2, <1>3, FS_EmptySet DEF PlacesOK
<1>6. SaidOK'
  <2> SUFFICES ASSUME NEW i \in DOMAIN rules
               PROVE  SoFar(rules[i], [at |-> "new", c |-> 0], <<>>)
    BY <1>1, <1>2 DEF SaidOK, Had
  <2>1. [at |-> "new", c |-> 0].at = "new" /\ Len(<<>>) = 0 /\ <<>> \in Seq(Nat)
    OBVIOUS
  <2>. QED  BY <2>1 DEF SoFar, NumSoFar, ListSoFar
<1>. QED  BY <1>4, <1>5, <1>6 DEF RulesInv

-----------------------------------------------------------------------------
(* Rules: steps of the run *)

LEMMA ThroughFinite ==
  ASSUME RulesInv
  PROVE  /\ DOMAIN rules = 1..Len(rules) /\ Len(rules) \in Nat
         /\ IsFiniteSet(Through) /\ Cardinality(Through) \in Nat
         /\ IsFiniteSet(DOMAIN rules) /\ Cardinality(DOMAIN rules) = Len(rules)
<1>1. DOMAIN rules = 1..Len(rules) /\ Len(rules) \in Nat
  BY DEF RulesInv, RulesTypeOK
<1>2. IsFiniteSet(1..Len(rules)) /\ Cardinality(1..Len(rules)) = Len(rules)
  <2>1. /\ IsFiniteSet(1..Len(rules))
        /\ Cardinality(1..Len(rules)) = IF 1 > Len(rules) THEN 0 ELSE Len(rules) - 1 + 1
    BY <1>1, FS_Interval
  <2>. QED  BY <1>1, <2>1
<1>3. Through \subseteq DOMAIN rules
  BY DEF Through
<1>. QED  BY <1>1, <1>2, <1>3, FS_Subset, FS_CardinalityType

LEMMA NotYetOver ==
  ASSUME RulesInv, Started, NEW i \in DOMAIN rules, fed[i].at # "closed"
  PROVE  runner.at # "closed"
BY DEF RulesInv, PlacesOK

(* The goroutine of a rule that is ready takes a step.                     *)
LEMMA FedMoves ==
  ASSUME RulesInv, Started, UNCHANGED <<text, rules, ready>>,
         NEW i \in DOMAIN rules, NEW f \in FedRec, fed' = [fed EXCEPT ![i] = f],
         fed[i].at = "loop", f.at # "new",
         Served' = Served, runner'.run = runner.run, runner'.at # "closed"
  PROVE  PlacesOK'
<1>1. fed \in [DOMAIN rules -> FedRec] /\ fed[i].at # "new" /\ fed[i].at # "closed"
  BY DEF RulesInv, RulesTypeOK
<1>2. \A j \in DOMAIN rules : fed'[j] = IF j = i THEN f ELSE fed[j]
  BY <1>1
<1>3. Waiting' = Waiting
  BY DEF Waiting
<1>4. Through' = Through
  BY <1>1, <1>2, <1>3 DEF Through
<1>5. Waiting \cup Served \subseteq DOMAIN rules
  BY DEF RulesInv, RulesTypeOK, Waiting
<1>6. i \notin Through /\ Through \subseteq DOMAIN rules
  BY <1>1 DEF RulesInv, PlacesOK, Through
<1>7. \A j \in Waiting \cup Served : fed'[j].at # "new"
  BY <1>2, <1>5 DEF RulesInv, PlacesOK
<1>8. \A j \in Through : fed'[j].at = "closed"
  BY <1>2, <1>6 DEF RulesInv, PlacesOK
<1>. QED  BY <1>3, <1>4, <1>7, <1>8 DEF RulesInv, PlacesOK

LEMMA BeginsSoFar ==
  ASSUME NEW r \in RuleRec, NEW f \in FedRec, f.at = "loop",
         f.c = IF r.code = "num" THEN r.start ELSE 0
  PROVE  SoFar(r, f, <<>>)
<1>1. Len(<<>>) = 0 /\ <<>> \in Seq(Nat)
  OBVIOUS
<1>2. CASE r.code = "num"
  <2>1. r.start + 0 * Rules!Step(r) = r.start
    BY StepPositive DEF RuleRec
  <2>. QED  BY <1>1, <1>2, <2>1 DEF SoFar, NumSoFar
<1>3. CASE r.code = "list"
  <2>1. Passed(r, 0) = {}
    BY DEF Passed, Spots, RuleRec
  <2>2. Cardinality(Passed(r, 0)) = 0
    BY <2>1, FS_EmptySet
  <2>. QED  BY <1>1, <1>3, <2>2 DEF SoFar, ListSoFar
<1>. QED  BY <1>2, <1>3 DEF RuleRec

LEMMA GetReadyKeeps ==
  ASSUME RulesInv, Started, NEW i \in DOMAIN rules, Rules!GetReady(i)
  PROVE  RulesInv'
<1>0. /\ fed \in [DOMAIN rules -> FedRec] /\ ready \in Seq(DOMAIN rules)
      /\ sent \in [DOMAIN rules -> Seq(Nat)] /\ rules[i] \in RuleRec
  BY DEF RulesInv, RulesTypeOK
<1>1. PICK f \in FedRec :
        /\ f.at = "loop" /\ f.c = (IF rules[i].code = "num" THEN rules[i].start ELSE 0)
        /\ fed' = [fed EXCEPT ![i] = f]
  <2> DEFINE f == [at |-> "loop", c |-> IF rules[i].code = "num" THEN rules[i].start ELSE 0]
  <2>1. f \in FedRec
    BY <1>0 DEF RuleRec, FedRec
  <2>2. fed' = [fed EXCEPT ![i] = f]
    BY DEF Rules!GetReady
  <2>. QED  BY <2>1, <2>2
<1>2. /\ fed[i].at = "new" /\ ready' = Append(ready, i)
      /\ UNCHANGED <<text, rules, runner, sent>>
  BY DEF Rules!GetReady
<1>3. \A j \in DOMAIN rules : fed'[j] = IF j = i THEN f ELSE fed[j]
  BY <1>0, <1>1
<1>4. PICK n \in Nat : n = Len(ready) /\ DOMAIN ready = 1..n
  BY <1>0
<1>5. /\ DOMAIN ready' = 1..(n + 1) /\ ready'[n + 1] = i
      /\ \A k \in 1..n : ready'[k] = ready[k]
      /\ \A k \in 1..(n + 1) : k \in 1..n \/ k = n + 1
      /\ 1..n \subseteq 1..(n + 1) /\ n + 1 \in 1..(n + 1)
  BY <1>0, <1>2, <1>4
<1>6. Waiting' = Waiting \cup {i}
  BY <1>4, <1>5 DEF Waiting
<1>7. i \notin Waiting /\ i \notin Served
  BY <1>2 DEF RulesInv, PlacesOK
<1>8. Served' = Served
  BY <1>2 DEF Served
<1>9. Through' = Through
  BY <1>1, <1>2, <1>3, <1>6, <1>8 DEF Through
<1>10. RulesTypeOK'
  <2>1. fed' \in [DOMAIN rules -> FedRec] /\ ready' \in Seq(DOMAIN rules)
    BY <1>0, <1>1, <1>2
  <2>. QED  BY <1>2, <1>8, <2>1 DEF RulesInv, RulesTypeOK, Started
<1>11. PlacesOK'
  <2>1. \A k, m \in DOMAIN ready' : ready'[k] = ready'[m] => k = m
    <3>1. \A k \in 1..n : ready[k] # i
      BY <1>4, <1>7 DEF Waiting
    <3>2. \A k, m \in 1..n : ready[k] = ready[m] => k = m
      BY <1>4 DEF RulesInv, PlacesOK
    <3>. QED  BY <1>5, <3>1, <3>2
  <2>2. Waiting' \cap Served' = {}
    BY <1>6, <1>7, <1>8 DEF RulesInv, PlacesOK
  <2>3. Waiting \cup Served \subseteq DOMAIN rules
    BY DEF RulesInv, RulesTypeOK, Waiting
  <2>4. \A j \in Waiting' \cup Served' : fed'[j].at # "new"
    BY <1>1, <1>3, <1>6, <1>8, <2>3 DEF RulesInv, PlacesOK
  <2>5. \A j \in Through' : fed'[j].at = "closed"
    <3>1. i \notin Through /\ Through \subseteq DOMAIN rules
      BY <1>2 DEF Through
    <3>. QED  BY <1>3, <1>9, <3>1 DEF RulesInv, PlacesOK
  <2>6. runner.at # "closed"
    BY <1>2, NotYetOver
  <2>. QED  BY <1>2, <1>9, <2>1, <2>2, <2>4, <2>5, <2>6 DEF RulesInv, PlacesOK
<1>12. SaidOK'
  <2> SUFFICES ASSUME NEW j \in DOMAIN rules PROVE SoFar(rules[j], fed'[j], Had(j)')
    BY <1>2 DEF SaidOK
  <2>1. Had(j)' = Had(j) /\ SoFar(rules[j], fed[j], Had(j))
    BY <1>2 DEF Had, RulesInv, SaidOK
  <2>2. CASE j = i
    <3>1. Had(j) = <<>>
      BY <1>2, <2>1, <2>2 DEF SoFar
    <3>. QED  BY <1>0, <1>1, <1>3, <2>1, <2>2, <3>1, BeginsSoFar
  <2>3. CASE j # i
    BY <1>3, <2>1, <2>3
  <2>. QED  BY <2>2, <2>3
<1>. QED  BY <1>10, <1>11, <1>12 DEF RulesInv

LEMMA PassFileKeeps ==
  ASSUME RulesInv, Started, NEW i \in DOMAIN rules, Rules!PassFile(i)
  PROVE  RulesInv'
<1>0. /\ fed \in [DOMAIN rules -> FedRec] /\ fed[i] \in FedRec /\ rules[i] \in RuleRec
  BY DEF RulesInv, RulesTypeOK
<1>1. /\ fed[i].at = "loop" /\ rules[i].code = "list" /\ fed[i].c \in rules[i].files
      /\ UNCHANGED <<text, rules, ready, runner, sent>>
  BY DEF Rules!PassFile, Rules!IsFile
<1>2. PICK f \in FedRec : f = Moved(rules[i], fed[i]) /\ f.at # "new"
  BY <1>0, <1>1, MovedTyped
<1>3. fed' = [fed EXCEPT ![i] = f]
  <2>1. Rules!Advanced(i)
    BY DEF Rules!PassFile
  <2>2. fed' = [fed EXCEPT ![i] = Moved(rules[i], fed[i])]
    BY <2>1 DEF Rules!Advanced, Moved
  <2>. QED  BY <1>2, <2>2
<1>4. \A j \in DOMAIN rules : fed'[j] = IF j = i THEN f ELSE fed[j]
  BY <1>0, <1>3
<1>5. Served' = Served /\ runner.at # "closed"
  BY <1>1, NotYetOver DEF Served
<1>6. PlacesOK'
  BY <1>1, <1>2, <1>3, <1>5, FedMoves
<1>7. RulesTypeOK'
  <2>1. fed' \in [DOMAIN rules -> FedRec]
    BY <1>0, <1>3
  <2>. QED  BY <1>1, <1>5, <2>1 DEF RulesInv, RulesTypeOK, Started
<1>8. SaidOK'
  <2> SUFFICES ASSUME NEW j \in DOMAIN rules PROVE SoFar(rules[j], fed'[j], Had(j)')
    BY <1>1 DEF SaidOK
  <2>1. Had(j)' = Had(j) /\ SoFar(rules[j], fed[j], Had(j))
    BY <1>1 DEF Had, RulesInv, SaidOK
  <2>2. CASE j = i
    BY <1>0, <1>1, <1>2, <1>4, <2>1, <2>2, PassesOn
  <2>3. CASE j # i
    BY <1>4, <2>1, <2>3
  <2>. QED  BY <2>2, <2>3
<1>. QED  BY <1>6, <1>7, <1>8 DEF RulesInv

LEMMA FeedKeeps ==
  ASSUME RulesInv, Started, NEW i \in DOMAIN rules, Rules!Feed(i)
  PROVE  RulesInv'
<1>0. /\ fed \in [DOMAIN rules -> FedRec] /\ fed[i] \in FedRec /\ rules[i] \in RuleRec
      /\ runner = [at |-> runner.at, rule |-> runner.rule, value |-> runner.value, run |-> runner.run]
  BY DEF RulesInv, RulesTypeOK
<1>1. /\ runner.at = "feed" /\ runner.rule = i /\ fed[i].at = "loop"
      /\ rules[i].code = "list" => fed[i].c \notin rules[i].files /\ rules[i].words > 0
      /\ UNCHANGED <<text, rules, ready, sent>>
  BY DEF Rules!Feed, Rules!IsFile
<1>2. PICK f \in FedRec : f = Moved(rules[i], fed[i]) /\ f.at # "new"
  BY <1>0, <1>1, MovedTyped
<1>3. fed' = [fed EXCEPT ![i] = f]
  <2>1. Rules!Advanced(i)
    BY DEF Rules!Feed
  <2>2. fed' = [fed EXCEPT ![i] = Moved(rules[i], fed[i])]
    BY <2>1 DEF Rules!Advanced, Moved
  <2>. QED  BY <1>2, <2>2
<1>4. \A j \in DOMAIN rules : fed'[j] = IF j = i THEN f ELSE fed[j]
  BY <1>0, <1>3
<1>5. /\ runner' = [at |-> "inject", rule |-> i, value |-> fed[i].c, run |-> runner.run]
      /\ fed[i].c \in Nat
  BY <1>0, <1>1 DEF Rules!Feed, FedRec
<1>6. Served' = Served
  BY <1>1, <1>5 DEF Served
<1>7. PlacesOK'
  BY <1>1, <1>2, <1>3, <1>5, <1>6, FedMoves
<1>8. RulesTypeOK'
  <2>1. fed' \in [DOMAIN rules -> FedRec]
    BY <1>0, <1>3
  <2>. QED  BY <1>1, <1>5, <1>6, <2>1 DEF RulesInv, RulesTypeOK, Started
<1>9. SaidOK'
  <2> SUFFICES ASSUME NEW j \in DOMAIN rules PROVE SoFar(rules[j], fed'[j], Had(j)')
    BY <1>1 DEF SaidOK
  <2>1. SoFar(rules[j], fed[j], Had(j)) /\ Had(j) = sent[j]
    BY <1>1 DEF Had, RulesInv, SaidOK
  <2>2. Had(j)' = IF j = i THEN Append(sent[j], fed[i].c) ELSE sent[j]
    BY <1>1, <1>5 DEF Had
  <2>3. CASE j = i
    BY <1>0, <1>1, <1>2, <1>4, <2>1, <2>2, <2>3, FeedsOn
  <2>4. CASE j # i
    BY <1>4, <2>1, <2>2, <2>4
  <2>. QED  BY <2>3, <2>4
<1>. QED  BY <1>7, <1>8, <1>9 DEF RulesInv

LEMMA InjectKeeps == ASSUME RulesInv, Rules!Inject PROVE RulesInv'
<1>1. /\ runner.at = "inject" /\ Started
      /\ sent' = [sent EXCEPT ![runner.rule] = Append(sent[runner.rule], runner.value)]
      /\ UNCHANGED <<text, rules, fed, ready>>
  BY DEF Rules!Inject, Started
<1>0. /\ sent \in [DOMAIN rules -> Seq(Nat)] /\ runner.value \in Nat
      /\ runner = [at |-> runner.at, rule |-> runner.rule, value |-> runner.value, run |-> runner.run]
  BY <1>1 DEF RulesInv, RulesTypeOK
<1>2. runner' = [at |-> "feed", rule |-> runner.rule, value |-> 0, run |-> runner.run]
  BY <1>0 DEF Rules!Inject
<1>3. Served = {runner.rule} /\ Served' = Served /\ runner.rule \in DOMAIN rules
  BY <1>1, <1>2 DEF Served, RulesInv, RulesTypeOK
<1>4. Waiting' = Waiting
  BY <1>1 DEF Waiting
<1>5. Through' = Through
  BY <1>1, <1>3, <1>4 DEF Through
<1>6. RulesTypeOK'
  <2>1. sent' \in [DOMAIN rules -> Seq(Nat)]
    BY <1>0, <1>1, <1>3
  <2>. QED  BY <1>1, <1>2, <1>3, <2>1 DEF RulesInv, RulesTypeOK, Started
<1>7. PlacesOK'
  BY <1>1, <1>2, <1>3, <1>4, <1>5 DEF RulesInv, PlacesOK
<1>8. SaidOK'
  <2> SUFFICES ASSUME NEW j \in DOMAIN rules PROVE SoFar(rules[j], fed[j], Had(j)')
    BY <1>1 DEF SaidOK
  <2>1. Had(j)' = Had(j)
    BY <1>0, <1>1, <1>2, <1>3 DEF Had
  <2>. QED  BY <1>1, <2>1 DEF RulesInv, SaidOK
<1>. QED  BY <1>6, <1>7, <1>8 DEF RulesInv

LEMMA NextRuleKeeps == ASSUME RulesInv, Rules!NextRule PROVE RulesInv'
<1>1. /\ runner.at = "next" /\ Started /\ ready # <<>> /\ ready' = Tail(ready)
      /\ UNCHANGED <<text, rules, fed, sent>>
  BY DEF Rules!NextRule, Started
<1>0. /\ ready \in Seq(DOMAIN rules)
      /\ runner = [at |-> runner.at, rule |-> runner.rule, value |-> runner.value, run |-> runner.run]
  BY <1>1 DEF RulesInv, RulesTypeOK
<1>2. PICK i \in DOMAIN rules : i = ready[1] /\ i = Head(ready)
  BY <1>0, <1>1
<1>3. runner' = [at |-> "feed", rule |-> i, value |-> runner.value, run |-> runner.run]
  BY <1>0, <1>2 DEF Rules!NextRule
<1>4. PICK n \in Nat : DOMAIN ready = 1..(n + 1) /\ DOMAIN ready' = 1..n
                       /\ \A k \in 1..n : ready'[k] = ready[k + 1]
  <2>1. Len(ready) \in Nat \ {0} /\ DOMAIN ready = 1..Len(ready)
    BY <1>0, <1>1
  <2>2. Len(ready) - 1 \in Nat /\ Len(ready) = (Len(ready) - 1) + 1
    BY <2>1
  <2>3. DOMAIN Tail(ready) = 1..(Len(ready) - 1)
        /\ \A k \in 1..(Len(ready) - 1) : Tail(ready)[k] = ready[k + 1]
    BY <1>0, <1>1
  <2>. QED  BY <1>1, <2>1, <2>2, <2>3
<1>5. /\ \A k \in 1..n : k + 1 \in 1..(n + 1) /\ k + 1 # 1
      /\ \A k \in 1..(n + 1) : k = 1 \/ (k - 1 \in 1..n /\ (k - 1) + 1 = k)
      /\ 1 \in 1..(n + 1)
  OBVIOUS
<1>6. \A k, m \in 1..(n + 1) : ready[k] = ready[m] => k = m
  BY <1>1, <1>4 DEF RulesInv, PlacesOK
<1>7. Waiting' = Waiting \ {i} /\ i \in Waiting
  <2>1. ASSUME NEW j \in Waiting' PROVE j \in Waiting \ {i}
    <3>1. PICK k \in 1..n : j = ready[k + 1]
      BY <1>4 DEF Waiting
    <3>. QED  BY <1>2, <1>4, <1>5, <1>6, <3>1 DEF Waiting
  <2>2. ASSUME NEW j \in Waiting, j # i PROVE j \in Waiting'
    <3>1. PICK k \in 1..(n + 1) : j = ready[k]
      BY <1>4 DEF Waiting
    <3>2. k - 1 \in 1..n /\ (k - 1) + 1 = k
      BY <1>2, <1>5, <2>2, <3>1
    <3>3. j = ready'[k - 1]
      BY <1>4, <3>1, <3>2
    <3>. QED  BY <1>4, <3>2, <3>3 DEF Waiting
  <2>3. i \in Waiting
    BY <1>2, <1>4, <1>5 DEF Waiting
  <2>. QED  BY <2>1, <2>2, <2>3
<1>8. Served = {} /\ Served' = {i}
  BY <1>1, <1>3 DEF Served
<1>9. Through' = Through
  BY <1>1, <1>7, <1>8 DEF Through
<1>10. RulesTypeOK'
  <2>1. ready' \in Seq(DOMAIN rules)
    BY <1>0, <1>1
  <2>. QED  BY <1>1, <1>3, <1>8, <2>1 DEF RulesInv, RulesTypeOK, Started
<1>11. PlacesOK'
  <2>1. \A k, m \in DOMAIN ready' : ready'[k] = ready'[m] => k = m
    <3> SUFFICES ASSUME NEW k \in 1..n, NEW m \in 1..n, ready[k + 1] = ready[m + 1]
                 PROVE  k = m
      BY <1>4
    <3>1. k + 1 = m + 1
      BY <1>5, <1>6
    <3>. QED  BY <3>1
  <2>2. \A j \in Waiting' \cup Served' : fed'[j].at # "new"
    BY <1>1, <1>7, <1>8 DEF RulesInv, PlacesOK
  <2>. QED  BY <1>1, <1>3, <1>7, <1>8, <1>9, <2>1, <2>2 DEF RulesInv, PlacesOK
<1>12. SaidOK'
  <2> SUFFICES ASSUME NEW j \in DOMAIN rules PROVE SoFar(rules[j], fed[j], Had(j)')
    BY <1>1 DEF SaidOK
  <2>1. Had(j)' = Had(j)
    BY <1>1, <1>3 DEF Had
  <2>. QED  BY <1>1, <2>1 DEF RulesInv, SaidOK
<1>. QED  BY <1>10, <1>11, <1>12 DEF RulesInv

LEMMA RuleDoneKeeps == ASSUME RulesInv, Rules!RuleDone PROVE RulesInv'
<1>1. /\ runner.at = "feed" /\ Started /\ fed[runner.rule].at = "closed"
      /\ UNCHANGED <<text, rules, fed, ready, sent>>
  BY DEF Rules!RuleDone, Started
<1>0. runner = [at |-> runner.at, rule |-> runner.rule, value |-> runner.value, run |-> runner.run]
  BY DEF RulesInv, RulesTypeOK
<1>2. PICK i \in DOMAIN rules : i = runner.rule /\ Served = {i} /\ fed[i].at = "closed"
  BY <1>1 DEF Served, RulesInv, RulesTypeOK
<1>3. runner' = [at |-> IF runner.run + 1 >= Len(rules) THEN "closed" ELSE "next",
                 rule |-> i, value |-> runner.value, run |-> runner.run + 1]
  BY <1>0, <1>2 DEF Rules!RuleDone, Rules!LastRule
<1>4. Served' = {} /\ Waiting' = Waiting
  BY <1>1, <1>3 DEF Served, Waiting
<1>5. Through' = Through \cup {i} /\ i \notin Through
  <2>1. i \notin Waiting
    BY <1>1, <1>2 DEF RulesInv, PlacesOK
  <2>. QED  BY <1>1, <1>2, <1>4, <2>1 DEF Through
<1>6. Cardinality(Through \cup {i}) = runner.run + 1 /\ runner.run \in Nat
  <2>1. runner.run = Cardinality(Through) /\ IsFiniteSet(Through) /\ Cardinality(Through) \in Nat
    BY <1>1, ThroughFinite DEF RulesInv, PlacesOK
  <2>. QED  BY <1>5, <2>1, FS_AddElement
<1>7. runner.run + 1 >= Len(rules) => Through \cup {i} = DOMAIN rules
  <2>1. Through \cup {i} \subseteq DOMAIN rules
    BY DEF Through
  <2>2. Cardinality(Through \cup {i}) >= Len(rules) => Through \cup {i} = DOMAIN rules
    <3>1. IsFiniteSet(DOMAIN rules) /\ Cardinality(DOMAIN rules) = Len(rules) /\ Len(rules) \in Nat
      BY ThroughFinite
    <3>2. /\ Cardinality(Through \cup {i}) <= Cardinality(DOMAIN rules)
          /\ Cardinality(DOMAIN rules) = Cardinality(Through \cup {i})
               => DOMAIN rules = Through \cup {i}
      BY <2>1, <3>1, FS_Subset
    <3>3. Cardinality(Through \cup {i}) \in Nat
      BY <1>6
    <3>. QED  BY <3>1, <3>2, <3>3
  <2>. QED  BY <1>6, <2>2
<1>8. RulesTypeOK'
  BY <1>1, <1>3, <1>4 DEF RulesInv, RulesTypeOK, Started
<1>9. PlacesOK'
  BY <1>1, <1>2, <1>3, <1>4, <1>5, <1>6, <1>7 DEF RulesInv, PlacesOK
<1>10. SaidOK'
  <2> SUFFICES ASSUME NEW j \in DOMAIN rules PROVE SoFar(rules[j], fed[j], Had(j)')
    BY <1>1 DEF SaidOK
  <2>1. Had(j)' = Had(j)
    BY <1>1, <1>3 DEF Had
  <2>. QED  BY <1>1, <2>1 DEF RulesInv, SaidOK
<1>. QED  BY <1>8, <1>9, <1>10 DEF RulesInv

LEMMA RulesStepKeeps == RulesInv /\ [Rules!Next]_(Rules!vars) => RulesInv'
<1> SUFFICES ASSUME RulesInv, [Rules!Next]_(Rules!vars) PROVE RulesInv'
  OBVIOUS
<1>1. CASE UNCHANGED Rules!vars
  <2>1. UNCHANGED <<text, rules, fed, ready, runner, sent>>
    BY <1>1 DEF Rules!vars
  <2>2. Served' = Served /\ Waiting' = Waiting /\ Through' = Through /\ (Started' <=> Started)
    BY <2>1 DEF Served, Waiting, Through, Started
  <2>3. RulesTypeOK'
    BY <2>1, <2>2 DEF RulesInv, RulesTypeOK
  <2>4. Started => PlacesOK'
    BY <2>1, <2>2 DEF RulesInv, PlacesOK
  <2>5. Started => SaidOK'
    BY <2>1 DEF RulesInv, SaidOK, Had
  <2>. QED  BY <2>2, <2>3, <2>4, <2>5 DEF RulesInv
<1>2. ASSUME NEW i \in DOMAIN fed, Rules!Alive,
             Rules!GetReady(i) \/ Rules!PassFile(i) \/ Rules!IndexPanic(i) \/ Rules!Feed(i)
      PROVE  RulesInv'
  <2>1. CASE Rules!IndexPanic(i)
    <3>1. runner' = [runner EXCEPT !.at = "crashed"] /\ UNCHANGED <<text, rules, fed, ready, sent>>
      BY <2>1 DEF Rules!IndexPanic
    <3>2. /\ runner'.at = "crashed"
          /\ runner' = [at |-> runner'.at, rule |-> runner'.rule, value |-> runner'.value,
                        run |-> runner'.run]
      BY <3>1 DEF RulesInv, RulesTypeOK
    <3>. QED  BY <3>1, <3>2 DEF RulesInv, RulesTypeOK, Started
  <2>2. Started
    <3>1. runner.at # "crashed"
      BY <1>2 DEF Rules!Alive
    <3>2. runner.at # "parse"
      BY DEF RulesInv, RulesTypeOK
    <3>. QED  BY <3>1, <3>2 DEF Started, RulesInv, RulesTypeOK
  <2>3. i \in DOMAIN rules
    BY <2>2 DEF RulesInv, RulesTypeOK
  <2>. QED  BY <1>2, <2>1, <2>2, <2>3, GetReadyKeeps, PassFileKeeps, FeedKeeps
<1>. QED
  BY <1>1, <1>2, ParseStepKeeps, StartKeeps, NextRuleKeeps, InjectKeeps, RuleDoneKeeps
  DEF Rules!Next, Rules!Run

LEMMA RulesInitInv == Rules!Init => RulesInv
<1> SUFFICES ASSUME Rules!Init PROVE RulesInv
  OBVIOUS
<1>1. /\ runner = [at |-> "parse", rule |-> 0, value |-> 0, run |-> 0]
      /\ text = [state |-> "start", cur |-> Rules!Blank(TRUE), quote |-> "none"]
      /\ rules = <<>> /\ ready = <<>> /\ fed = <<>>
  BY DEF Rules!Init, Rules!NoText
<1>2. ~Started
  BY <1>1 DEF Started
<1>3. RulesTypeOK
  <2>1. text.cur \in RuleRec /\ text = [state |-> text.state, cur |-> text.cur, quote |-> text.quote]
    BY <1>1, BlankTyped
  <2>2. /\ runner.at = "parse" /\ runner.run = 0
        /\ runner = [at |-> runner.at, rule |-> runner.rule, value |-> runner.value,
                     run |-> runner.run]
    BY <1>1
  <2>3. rules \in Seq(RuleRec)
    BY <1>1
  <2>. QED  BY <1>1, <1>2, <2>1, <2>2, <2>3 DEF RulesTypeOK
<1>. QED  BY <1>2, <1>3 DEF RulesInv

LEMMA RulesHold == RulesInv => Rules!AllSaid
<1> SUFFICES ASSUME RulesInv, runner.at = "closed", NEW i \in DOMAIN rules
             PROVE  sent[i] = Rules!Said(rules[i])
  BY DEF Rules!AllSaid
<1>1. Started /\ Had(i) = sent[i]
  BY DEF Started, Had
<1>2. rules[i] \in RuleRec /\ fed[i] \in FedRec
  BY <1>1 DEF RulesInv, RulesTypeOK
<1>3. fed[i].at = "closed" /\ SoFar(rules[i], fed[i], Had(i))
  BY <1>1 DEF RulesInv, PlacesOK, SaidOK
<1>. QED  BY <1>1, <1>2, <1>3, AllIsSaid

-----------------------------------------------------------------------------
(* The theorems *)

(* What the callers of ParseHttp build on: the nodes that stand for parts  *)
(* of the text come in its order, none of them empty and no byte in two of *)
(* them, and the URL's reaches over its parts, for every text.             *)
THEOREM NodesAlwaysInOrder == Spec => NodesInOrder
<1>1. IInv /\ [Next]_vars => [InOrder]_vars
  BY StepKeeps
<1>2. IInv /\ [Next]_vars => IInv'
  BY StepKeeps
<1>. QED  BY <1>1, <1>2, InitIInv, PTL DEF Spec, NodesInOrder

(* A step of the instance is one of the parser of forms or leaves it alone.*)
LEMMA FormSteps == [ReadersNext]_readerVars => [Forms!Next]_(Forms!vars)
BY DEF ReadersNext, readerVars, HttpStep, RuleStep, FormStep, formVars, Forms!vars

LEMMA FormInvAlways == ReadersSpec => []FormInv
<1>1. ReadersInit => FormInv
  BY FormInit DEF ReadersInit
<1>2. FormInv /\ [ReadersNext]_readerVars => FormInv'
  BY FormSteps, FormStepKeeps
<1>. QED  BY <1>1, <1>2, PTL DEF ReadersSpec

(* What JSON builds on: for inputs of any length the tree has pages in the *)
(* document only and fields in one of both, and the parser is inside a     *)
(* field exactly while it reads one.                                       *)
THEOREM FieldsAlwaysLeft == ReadersSpec => []FieldsAreLeft
<1>1. FormInv => FieldsAreLeft
  BY FormHolds DEF FieldsAreLeft
<1>. QED  BY <1>1, FormInvAlways, PTL

(* Between two elements of a form no text that was read is left over.      *)
THEOREM TextNeverWaits == ReadersSpec => []NoTextWaits
<1>1. FormInv => NoTextWaits
  BY FormHolds DEF NoTextWaits
<1>. QED  BY <1>1, FormInvAlways, PTL

(* The text of a node gets into the label of another only after a text or  *)
(* number field and after an option tag.                                   *)
THEOREM NothingElseLeaks == ReadersSpec => []LeaksOnlyAfter
<1>1. FormInv => LeaksOnlyAfter
  BY FormHolds DEF LeaksOnlyAfter
<1>. QED  BY <1>1, FormInvAlways, PTL

(* A step of the instance is one of the rules or leaves them alone.        *)
LEMMA RuleSteps == [ReadersNext]_readerVars => [Rules!Next]_(Rules!vars)
BY DEF ReadersNext, readerVars, HttpStep, RuleStep, FormStep, ruleVars, Rules!vars

(* The safety half of RulesEnd: when the injections end, the caller has    *)
(* had every value of every rule, once and in order.  For any text, in     *)
(* whatever order the goroutines of the rules get ready.                   *)
THEOREM EveryValueIsSaid == ReadersSpec => []Rules!AllSaid
<1>1. ReadersInit => RulesInv
  BY RulesInitInv DEF ReadersInit
<1>2. RulesInv /\ [ReadersNext]_readerVars => RulesInv'
  BY RuleSteps, RulesStepKeeps
<1>. QED  BY <1>1, <1>2, RulesHold, PTL DEF ReadersSpec
=============================================================================
