------------------------------ MODULE HttpParser ------------------------------
(***************************************************************************)
(* The reader of HTTP requests, src/src/matasano/web/lex.go and parse.go:  *)
(* a lexer and a parser, two goroutines that meet on an unbuffered channel *)
(* of tokens, and the channel of nodes the caller of ParseHttp reads.      *)
(*                                                                         *)
(* A token is its kind and the bytes it spans.  A token of the model is    *)
(* one byte long, or two when a carriage return that no newline follows is *)
(* glued to its front.  The text is chosen as it is lexed.                 *)
(***************************************************************************)
EXTENDS Integers, Sequences

CONSTANTS
  MaxBytes,         (* bound on the length of the text                       *)
  Kinds             (* kinds of token in the text                            *)

AllKinds == {"Ident", "Num", "Punct", "Ws", "Newline", "Slash", "Dot", "Colon",
             "Eq", "And", "Query", "Semi"}

ASSUME HttpAssumption == MaxBytes \in Nat /\ Kinds \subseteq AllKinds

VARIABLES
  lexed,            (* lexer: where it is, what it sent last, still running  *)
  stack,            (* parser.stack: tokens pushed back, the last one first  *)
  p,                (* the parser: where it is, and its locals               *)
  leaf,             (* the last node sent that stands for a part of the text *)
  box               (* the last one that spans others, or names the scheme   *)

vars == <<lexed, stack, p, leaf, box>>

Tok(kind, cur, pos) == [kind |-> kind, cur |-> cur, pos |-> pos]
NoTok               == Tok("none", 0, 0)
Node(code, a, b)    == [code |-> code, start |-> a, stop |-> b]

(* tok: the token in hand; acc: what collect has, its start, its end and   *)
(* its kind if it is one token; first: where the URL, the version or the   *)
(* body starts; path: canpath of parseUrl; pairs: whose arguments parseKvp *)
(* reads; some: c # 0 in parseBody.                                        *)
Init ==
  /\ lexed = [cur |-> 0, last |-> "none", open |-> TRUE]
  /\ stack = <<>>
  /\ p = [at |-> "verb", tok |-> NoTok, acc |-> <<>>, first |-> 0, path |-> FALSE,
          pairs |-> "url", cookie |-> FALSE, some |-> FALSE]
  /\ leaf = Node("none", 0, 0) /\ box = Node("none", 0, 0)
-----------------------------------------------------------------------------
(* runOf takes everything that goes on a token, so only a glued carriage   *)
(* return parts two of them; a word takes the digits that follow it.       *)
GoesOn(kind) ==
  \/ kind \in {"Ident", "Ws"} /\ lexed.last = kind
  \/ kind = "Num" /\ lexed.last \in {"Ident", "Num"}

(* What stateNext may send: a token, or TokEof.  At a byte of no kind, or  *)
(* when the last byte went into a token, it closes the channel instead:    *)
(* pop then makes a TokEof of its own.                                     *)
Lexemes ==
  {Tok("Eof", lexed.cur, lexed.cur)} \cup
  {Tok(kind, lexed.cur, lexed.cur + width) :
     kind \in {k \in Kinds : lexed.open /\ lexed.cur < MaxBytes /\ ~ GoesOn(k)},
     width \in {1}} \cup
  {Tok(kind, lexed.cur, lexed.cur + 2) :
     kind \in {k \in Kinds : lexed.open /\ lexed.cur + 1 < MaxBytes}}

(* parser.pop, and what is pushed in the same step.                        *)
Offered == IF stack # <<>> THEN {Head(stack)} ELSE Lexemes

Pop(t, pushed) ==
  /\ stack' = pushed \o (IF stack = <<>> THEN <<>> ELSE Tail(stack))
  /\ lexed' = IF stack # <<>> THEN lexed
              ELSE IF t.kind = "Eof" THEN [lexed EXCEPT !.open = FALSE]
              ELSE [lexed EXCEPT !.cur = t.pos, !.last = t.kind]

Push == stack' = <<p.tok>> \o stack /\ UNCHANGED lexed

NoPop == UNCHANGED <<stack, lexed>>

(* A node for what was collected, if there is any.                         *)
Send(code) ==
  leaf' = IF p.acc = <<>> THEN leaf ELSE Node(code, p.acc[1], p.acc[2])

NoSend == UNCHANGED <<leaf, box>>

Grown(t) == IF p.acc = <<>> THEN <<t.cur, t.pos, t.kind>> ELSE <<p.acc[1], t.pos, "more">>
-----------------------------------------------------------------------------
(* parseRequestLine but for the URL: what it expects, one after the other. *)
Line ==
  [verb    |-> [kind |-> "Ident",   next |-> "verbWs"],
   verbWs  |-> [kind |-> "Ws",      next |-> "spaces"],
   urlWs   |-> [kind |-> "Ws",      next |-> "proto"],
   proto   |-> [kind |-> "Ident",   next |-> "slash"],
   slash   |-> [kind |-> "Slash",   next |-> "major"],
   major   |-> [kind |-> "Num",     next |-> "dot"],
   dot     |-> [kind |-> "Dot",     next |-> "minor"],
   minor   |-> [kind |-> "Num",     next |-> "newline"],
   newline |-> [kind |-> "Newline", next |-> "key"]]

(* The verb's node is made of a token that was never assigned.             *)
RequestLine ==
  /\ p.at \in DOMAIN Line
  /\ \E t \in Offered :
       LET right == t.kind = Line[p.at].kind IN
       /\ Pop(t, <<>>)
       /\ p' = [p EXCEPT !.at = IF right THEN Line[p.at].next ELSE "rest",
                         !.first = IF p.at = "proto" THEN t.cur ELSE p.first]
       /\ leaf' = CASE right /\ p.at = "verb"  -> Node("Verb", 0, 0)
                    [] right /\ p.at = "minor" -> Node("Version", p.first, t.pos)
                    [] OTHER                   -> leaf
  /\ UNCHANGED box

UrlKinds    == AllKinds \ {"Ws", "Newline"}
SchemeKinds == {"Ident", "Num", "Colon"}

(* The blanks before the URL, and the first token of parseUrl.             *)
Spaces ==
  /\ p.at = "spaces"
  /\ \E t \in Offered :
       /\ Pop(t, <<>>)
       /\ p' = IF t.kind = "Ws" THEN p
               ELSE IF t.kind \notin UrlKinds THEN [p EXCEPT !.at = "urlWs"]
               ELSE [p EXCEPT !.at = IF t.kind \in SchemeKinds THEN "scheme" ELSE "url",
                              !.tok = t, !.first = t.cur, !.path = TRUE]
  /\ NoSend

(* parseTryScheme.  Its loop takes no further token: it ends at once, or,  *)
(* when a word or a number follows, never.  What it does not accept is     *)
(* lost, and the first token is pushed back though parseUrl still has it.  *)
TryScheme ==
  /\ p.at = "scheme"
  /\ \E t \in Offered :
       /\ Pop(t, IF t.kind \in SchemeKinds THEN <<>> ELSE <<p.tok>>)
       /\ p' = [p EXCEPT !.at = IF t.kind \in {"Ident", "Num"} THEN "endless" ELSE "url"]
       /\ box' = IF t.kind = "Colon" THEN Node("Scheme", p.first, t.cur - 1) ELSE box
  /\ UNCHANGED leaf

EndsSegment == p.tok.kind \in {"Slash", "Query"}

(* Mutant: the question mark does not clear the segment.                   *)
SegmentKept ==
  IF EndsSegment THEN IF p.tok.kind = "Query" THEN p.acc ELSE <<>> ELSE Grown(p.tok)

(* What is left of the segment when a slash or a question mark came.       *)
Segment == IF EndsSegment THEN <<>> ELSE Grown(p.tok)

(* parseUrl: a token of the path, up to the pop of the next one; arguments *)
(* after the question mark; the end, for which the loop leaves t.          *)
UrlPath ==
  /\ p.at = "url" /\ p.tok.kind \in UrlKinds /\ p.path
  /\ IF EndsSegment THEN Send("UrlPath") ELSE UNCHANGED leaf
  /\ \E t \in Offered :
       /\ Pop(t, <<>>)
       /\ p' = [p EXCEPT !.tok = t, !.path = p.tok.kind # "Query", !.acc = Segment]
  /\ UNCHANGED box

UrlArguments ==
  /\ p.at = "url" /\ p.tok.kind \in UrlKinds /\ ~ p.path
  /\ p' = [p EXCEPT !.at = "argKey", !.tok = NoTok, !.pairs = "url"]
  /\ Push /\ NoSend

UrlEnd ==
  /\ p.at = "url" /\ p.tok.kind \notin UrlKinds
  /\ Send("UrlPath")
  /\ box' = Node("Url", p.first, p.tok.cur)
  /\ p' = [p EXCEPT !.at = "urlWs", !.tok = NoTok, !.acc = <<>>]
  /\ Push

UrlNext ==
  /\ p.at = "urlNext"
  /\ \E t \in Offered : Pop(t, <<>>) /\ p' = [p EXCEPT !.at = "url", !.tok = t]
  /\ NoSend
-----------------------------------------------------------------------------
(* The kinds that are collected, by what is read.                          *)
ArgKinds == UrlKinds \ {"Eq", "And"}

Collected ==
  [rest     |-> UrlKinds \cup {"Ws"},
   key      |-> ArgKinds \ {"Colon"},
   value    |-> UrlKinds \cup {"Ws"},
   name     |-> UrlKinds \ {"Eq", "Semi"},
   cookie   |-> UrlKinds \ {"Semi"},
   argKey   |-> ArgKinds,
   argValue |-> ArgKinds,
   raw      |-> AllKinds]

(* parser.collect: a token, which is kept, or is the one that ends it.     *)
Reading(what) == p.at = what /\ p.tok = NoTok
Read(what)    == p.at = what /\ p.tok # NoTok

Collect ==
  /\ p.at \in DOMAIN Collected /\ p.tok = NoTok
  /\ \E t \in Offered :
       /\ Pop(t, <<>>)
       /\ p' = IF t.kind \in Collected[p.at] THEN [p EXCEPT !.acc = Grown(t)]
               ELSE [p EXCEPT !.tok = t]
  /\ NoSend

(* Onward with nothing in hand; and with the token in hand pushed back.    *)
On(label) == p' = [p EXCEPT !.at = label, !.tok = NoTok, !.acc = <<>>]

(* ParseHttp: the line was mangled.  Without a newline the goroutine       *)
(* returns, and does not close the channel.                                *)
Mangled ==
  /\ Read("rest")
  /\ IF p.tok.kind = "Newline"
       THEN Send("Remnants") /\ On("key")
       ELSE UNCHANGED leaf /\ On("stuck")
  /\ NoPop /\ UNCHANGED box

(* parseHeader: the key; a key that is one word may be Cookie.             *)
HeaderKey ==
  /\ Read("key")
  /\ Send("HeaderKey")
  /\ \E cookie \in {FALSE} \cup {p.acc # <<>> /\ p.acc[3] = "Ident" /\ p.acc[2] = p.acc[1] + 1} :
       p' = [p EXCEPT !.at = IF p.tok.kind = "Colon" THEN "lead" ELSE "body",
                      !.tok = NoTok, !.acc = <<>>, !.cookie = cookie]
  /\ NoPop /\ UNCHANGED box

HeaderLead ==
  /\ p.at = "lead"
  /\ \E t \in Offered :
       IF t.kind = "Ws" THEN Pop(t, <<>>) /\ UNCHANGED p
       ELSE Pop(t, <<t>>) /\ On(IF p.cookie THEN "name" ELSE "value")
  /\ NoSend

HeaderValue ==
  /\ Read("value")
  /\ Send("HeaderValue")
  /\ On(IF p.tok.kind = "Newline" THEN "key" ELSE "body")
  /\ NoPop /\ UNCHANGED box

(* parseCookie: name, value, blanks, and a semicolon before the next one.  *)
CookieName ==
  /\ Read("name")
  /\ Send("CookieName")
  /\ p' = IF p.tok.kind = "Eq" THEN [p EXCEPT !.at = "cookie", !.tok = NoTok, !.acc = <<>>]
          ELSE [p EXCEPT !.at = "cookieEnd", !.acc = <<>>]
  /\ NoPop /\ UNCHANGED box

CookieValue ==
  /\ Read("cookie")
  /\ Send("CookieValue")
  /\ p' = [p EXCEPT !.at = "cookieEnd", !.acc = <<>>]
  /\ NoPop /\ UNCHANGED box

(* Mutant: nothing is taken in place of the semicolon.                     *)
SemiKept ==
  /\ p.at = "cookieEnd" /\ p.tok.kind = "Semi"
  /\ p' = [p EXCEPT !.at = "cookieNext"]
  /\ NoPop /\ NoSend

(* A blank or a semicolon gives way to the next token.                     *)
CookieBlanks ==
  /\ \/ p.at = "cookieEnd" /\ p.tok.kind \in {"Ws", "Semi"}
     \/ p.at = "cookieNext" /\ p.tok.kind = "Ws"
  /\ \E t \in Offered :
       /\ Pop(t, <<>>)
       /\ p' = [p EXCEPT !.tok = t,
                         !.at = IF p.tok.kind = "Semi" THEN "cookieNext" ELSE p.at]
  /\ NoSend

CookieAgain ==
  /\ p.at = "cookieNext" /\ p.tok.kind # "Ws"
  /\ On("name") /\ Push /\ NoSend

CookieEnd ==
  /\ p.at = "cookieEnd" /\ p.tok.kind \notin {"Ws", "Semi"}
  /\ IF p.tok.kind = "Newline" THEN On("key") /\ NoPop ELSE On("body") /\ Push
  /\ NoSend
-----------------------------------------------------------------------------
(* parseBody, from its pop and push of the first token.                    *)
Body ==
  /\ p.at = "body"
  /\ \E t \in Offered :
       /\ Pop(t, <<t>>)
       /\ p' = [p EXCEPT !.at = "argKey", !.pairs = "body", !.some = FALSE, !.first = t.cur]
  /\ NoSend

(* parseKvp returns to parseUrl, which takes the next token either way, or *)
(* to parseBody, which goes on as long as the pair was followed by an &.   *)
Returned(more) ==
  p' = [p EXCEPT !.tok = NoTok, !.acc = <<>>, !.some = p.some \/ more,
                 !.at = CASE p.pairs = "url" -> "urlNext"
                          [] p.pairs = "body" /\ more -> "argKey"
                          [] OTHER -> IF p.some THEN "bodyEnd" ELSE "raw"]

ArgCode(part) == IF p.pairs = "url" THEN "Arg" \o part ELSE "BodyArg" \o part

ArgKey ==
  /\ Read("argKey")
  /\ Send(ArgCode("Key"))
  /\ CASE p.tok.kind = "And" -> Returned(TRUE) /\ NoPop
       [] p.tok.kind = "Eq"  -> On("argValue") /\ NoPop
       [] OTHER              -> Returned(FALSE) /\ Push
  /\ UNCHANGED box

ArgValue ==
  /\ Read("argValue")
  /\ Send(ArgCode("Value"))
  /\ IF p.tok.kind = "And" THEN Returned(TRUE) /\ NoPop ELSE Returned(FALSE) /\ Push
  /\ UNCHANGED box

(* One token more is taken, and then the lexer is left to itself.          *)
BodyEnd ==
  /\ p.at = "bodyEnd"
  /\ \E t \in Offered :
       Pop(t, <<>>) /\ box' = Node("Body", p.first, t.cur - 1)
  /\ On("closed") /\ UNCHANGED leaf

RawBody ==
  /\ Read("raw")
  /\ Send("RawBody") /\ On("closed")
  /\ NoPop /\ UNCHANGED box

Next ==
  \/ RequestLine \/ Spaces \/ TryScheme \/ UrlPath \/ UrlArguments \/ UrlEnd \/ UrlNext
  \/ Collect \/ Mangled
  \/ HeaderKey \/ HeaderLead \/ HeaderValue
  \/ CookieName \/ CookieValue \/ CookieBlanks \/ CookieAgain \/ CookieEnd
  \/ Body \/ ArgKey \/ ArgValue \/ BodyEnd \/ RawBody

(* The two goroutines are scheduled, and the caller reads the nodes.       *)
Spec == Init /\ [][Next]_vars /\ WF_vars(Next)
-----------------------------------------------------------------------------
(* The nodes that stand for parts of the text come in its order, none of   *)
(* them empty and no byte in two of them, whatever was pushed back or read *)
(* twice; and the node of the URL reaches over all its parts.  (The verb's *)
(* node always says 0..0.)  What the callers of ParseHttp build on.        *)
InOrder ==
  /\ leaf' # leaf /\ leaf'.code # "Verb" => leaf.stop <= leaf'.start /\ leaf'.start < leaf'.stop
  /\ box' # box /\ box'.code = "Url" /\ leaf'.code \in {"UrlPath", "ArgKey", "ArgValue"} =>
       box'.start <= leaf'.start /\ leaf'.stop <= box'.stop

NodesInOrder == [][InOrder]_vars

(* Whatever the text, the reader closes its channel in the end and leaves  *)
(* no lexer waiting, but for what the code does not do: it returns without *)
(* a close when the rest of the line has no newline, it spins in           *)
(* parseTryScheme, and it leaves a lexer that has more than the body.      *)
ReaderEnds ==
  <>(\/ p.at \in {"stuck", "endless"}
     \/ p.at = "closed" /\ (lexed.open => box.code = "Body"))
=============================================================================
