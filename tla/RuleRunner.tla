------------------------------ MODULE RuleRunner ------------------------------
(***************************************************************************)
(* The rules of src/src/matasano/web/rules.go and their run by             *)
(* RunAnnotated, annotate.go: ParseRules reads a text of rules token by    *)
(* token; then every rule is a goroutine that says it is ready and feeds   *)
(* its values, one by one, to a goroutine that serves one rule after the   *)
(* other and sends the caller an injection for each value.                 *)
(*                                                                         *)
(* The numbers of a text are small; the pipes of a rule and the fragments  *)
(* an injection is put together from change its text only and are left out.*)
(***************************************************************************)
EXTENDS Integers, Sequences, FiniteSets

CONSTANTS
  MaxRules,         (* bound on the lines of the text                        *)
  MaxWords,         (* bound on the words of a list                          *)
  Nums              (* numbers of the text                                   *)

RuleConstants == MaxRules \in Nat /\ MaxWords \in Nat /\ Nums \subseteq Nat

VARIABLES
  text,             (* ParseRules: its state, cur and quote                  *)
  rules,            (* what it returns                                       *)
  fed,              (* rule -> its goroutine: where it is, and its c         *)
  ready,            (* readyrules                                            *)
  runner,           (* the goroutine of RunAnnotated                         *)
  sent              (* rule -> the values the caller has had of it           *)

vars == <<text, rules, fed, ready, runner, sent>>

(* Rule{}.  words: len(Strings); files: the map, which the first rule has  *)
(* and a rule made after it has not.                                       *)
Blank(made) ==
  [code |-> "num", start |-> 0, stop |-> 0, step |-> 0, words |-> 0,
   made |-> made, files |-> {}, invalid |-> FALSE]

NoText == [state |-> "start", cur |-> Blank(TRUE), quote |-> "none"]

Init ==
  /\ text = NoText
  /\ rules = <<>> /\ fed = <<>> /\ ready = <<>> /\ sent = <<>>
  /\ runner = [at |-> "parse", rule |-> 0, value |-> 0, run |-> 0]
-----------------------------------------------------------------------------
(* Tokens, told apart as far as ParseRules does; blanks it passes over.    *)
Words  == {"num", "list", "step", "pad", "word"}
Quotes == {"dash", "quote"}
Tokens == [is : {"number"}, n : Nums]
          \cup [is : Words \cup Quotes \cup {"bar", "colon", "newline"}, n : {0}]

(* state, token, next state; radix is a pipe as pad is.                    *)
Grammar ==
  {<<"start", "number", "sep">>, <<"sep", "colon", "kind">>,
   <<"kind", "num", "num">>, <<"kind", "list", "list">>,
   <<"num", "number", "dash">>, <<"dash", "dash", "second">>, <<"second", "number", "maybeStep">>,
   <<"maybeStep", "step", "step">>, <<"maybeStep", "bar", "pipe">>, <<"step", "number", "maybePipe">>,
   <<"maybePipe", "bar", "pipe">>, <<"maybePipe", "newline", "start">>,
   <<"pipe", "pad", "arg">>, <<"arg", "number", "maybePipe">>,
   <<"list", "bar", "pipe">>}
  \cup {<<"list", w, "list">> : w \in Words} \cup {<<"list", q, "quoted">> : q \in Quotes}

(* What an accepted token does to cur.  A bare word of a list names a file:*)
(* it marks the place after its own.                                       *)
Taken(t) ==
  LET cur == text.cur IN
  CASE text.state = "num"    -> [cur EXCEPT !.start = t.n]
    [] text.state = "second" -> [cur EXCEPT !.stop = t.n]
    [] text.state = "step"   -> [cur EXCEPT !.step = t.n]
    [] text.state = "kind"   -> [cur EXCEPT !.code = t.is]
    [] text.state = "list" /\ t.is \in Words ->
         [cur EXCEPT !.words = @ + 1, !.files = @ \cup {cur.words + 1}]
    [] OTHER -> cur

Parsing(t) == runner.at = "parse" /\ t \in Tokens

Running == <<fed, ready, runner, sent>>

(* The rule goes into the list, and the next one is Rule{}.                *)
Appended ==
  /\ Len(rules) < MaxRules
  /\ rules' = Append(rules, text.cur)
  /\ text' = [text EXCEPT !.state = "start", !.cur = Blank(FALSE)]

(* The map of a rule after the first is nil: a write to it ends the program.*)
NilMap(t) == text.state = "list" /\ t.is \in Words /\ ~ text.cur.made

Accept(t) ==
  /\ Parsing(t) /\ ~ NilMap(t)
  /\ \E g \in Grammar :
       /\ g[1] = text.state /\ g[2] = t.is
       /\ IF t.is = "newline" THEN Appended
          ELSE /\ Taken(t).words <= MaxWords
               /\ text' = [state |-> g[3], cur |-> Taken(t),
                           quote |-> IF g[3] = "quoted" THEN t.is ELSE text.quote]
               /\ UNCHANGED rules
  /\ UNCHANGED Running

WriteToNil(t) ==
  /\ Parsing(t) /\ NilMap(t)
  /\ runner' = [runner EXCEPT !.at = "crashed"]
  /\ UNCHANGED <<text, rules, fed, ready, sent>>

(* err: if it was the newline that was wrong, the next line goes with it.  *)
Failed == text' = [text EXCEPT !.state = "err", !.cur.invalid = TRUE] /\ UNCHANGED rules

Refuse(t) ==
  /\ Parsing(t) /\ text.state \notin {"quoted", "err"}
  /\ ~ \E g \in Grammar : g[1] = text.state /\ g[2] = t.is
  /\ Failed /\ UNCHANGED Running

(* sListWord: up to the quote it began with.                               *)
Quoted(t) ==
  /\ Parsing(t) /\ text.state = "quoted"
  /\ \/ /\ t.is = text.quote /\ text.cur.words < MaxWords
        /\ text' = [state |-> "list", cur |-> [text.cur EXCEPT !.words = @ + 1], quote |-> "none"]
        /\ UNCHANGED rules
     \/ t.is = "newline" /\ Failed
  /\ UNCHANGED Running

AfterError(t) ==
  /\ Parsing(t) /\ text.state = "err" /\ t.is = "newline"
  /\ Appended /\ UNCHANGED Running

(* The text ends: a line without a newline is no rule, and the locals of   *)
(* ParseRules are gone.  Then Ruleset.Run and RunAnnotated start their      *)
(* goroutines.                                                             *)
Start ==
  /\ runner.at = "parse"
  /\ fed' = [i \in DOMAIN rules |-> [at |-> "new", c |-> 0]]
  /\ sent' = [i \in DOMAIN rules |-> <<>>]
  /\ runner' = [runner EXCEPT !.at = "next"]
  /\ text' = NoText
  /\ UNCHANGED <<rules, ready>>
-----------------------------------------------------------------------------
(* Rule.Run, RunNum and RunList.                                           *)
Step(r) == IF r.step = 0 THEN 1 ELSE r.step

GetReady(i) ==
  /\ fed[i].at = "new"
  /\ ready' = Append(ready, i)
  /\ fed' = [fed EXCEPT ![i] = [at |-> "loop",
                                c |-> IF rules[i].code = "num" THEN rules[i].start ELSE 0]]
  /\ UNCHANGED <<text, rules, runner, sent>>

(* Mutant: the last number of the range is not sent.                       *)
PastBefore(r, c) == IF r.code = "num" THEN c + Step(r) >= r.stop ELSE c + 1 >= r.words

(* Whether there is nothing after c.                                       *)
Past(r, c) == IF r.code = "num" THEN c + Step(r) > r.stop ELSE c + 1 >= r.words

(* After a value was taken, or a file passed over: on, or Close.           *)
Advanced(i) ==
  LET r == rules[i]
      c == fed[i].c
      next == IF r.code = "num" THEN Step(r) ELSE 1
  IN
  fed' = [fed EXCEPT ![i] = IF Past(r, c) THEN [at |-> "closed", c |-> c]
                            ELSE [at |-> "loop", c |-> c + next]]

IsFile(i) == rules[i].code = "list" /\ fed[i].c \in rules[i].files

PassFile(i) ==
  /\ fed[i].at = "loop" /\ IsFile(i)
  /\ Advanced(i)
  /\ UNCHANGED <<text, rules, ready, runner, sent>>

(* A list without words: Strings[0] ends the program.                      *)
IndexPanic(i) ==
  /\ fed[i].at = "loop" /\ rules[i].code = "list" /\ rules[i].words = 0
  /\ runner' = [runner EXCEPT !.at = "crashed"]
  /\ UNCHANGED <<text, rules, fed, ready, sent>>

(* RunAnnotated: the next rule that is ready.                              *)
NextRule ==
  /\ runner.at = "next" /\ ready # <<>>
  /\ runner' = [runner EXCEPT !.at = "feed", !.rule = Head(ready)]
  /\ ready' = Tail(ready)
  /\ UNCHANGED <<text, rules, fed, sent>>

(* Out meets the range over Feed.  Kill is sent only when every rule is    *)
(* closed, so its other branch is never taken.                             *)
Feed(i) ==
  /\ runner.at = "feed" /\ runner.rule = i
  /\ fed[i].at = "loop" /\ ~ IsFile(i)
  /\ rules[i].code = "list" => rules[i].words > 0
  /\ runner' = [runner EXCEPT !.at = "inject", !.value = fed[i].c]
  /\ Advanced(i)
  /\ UNCHANGED <<text, rules, ready, sent>>

Inject ==
  /\ runner.at = "inject"
  /\ sent' = [sent EXCEPT ![runner.rule] = Append(@, runner.value)]
  /\ runner' = [runner EXCEPT !.at = "feed", !.value = 0]
  /\ UNCHANGED <<text, rules, fed, ready>>

(* Mutant: the run waits for one rule more than there are.                 *)
OneMore(n) == n > Len(rules)

LastRule(n) == n >= Len(rules)

(* The feed was closed; after the last one, kill, which has room for every *)
(* rule, and close(out).                                                   *)
RuleDone ==
  /\ runner.at = "feed" /\ fed[runner.rule].at = "closed"
  /\ runner' = [runner EXCEPT !.at = IF LastRule(runner.run + 1) THEN "closed" ELSE "next",
                              !.run = @ + 1]
  /\ UNCHANGED <<text, rules, fed, ready, sent>>

Parse == \E t \in Tokens :
  Accept(t) \/ WriteToNil(t) \/ Refuse(t) \/ Quoted(t) \/ AfterError(t)

Alive == runner.at # "crashed"

Run ==
  \/ \E i \in DOMAIN fed : Alive /\ (GetReady(i) \/ PassFile(i) \/ IndexPanic(i) \/ Feed(i))
  \/ NextRule \/ Inject \/ RuleDone

Next == Parse \/ Start \/ Run

(* The text is finite, the goroutines are scheduled, and the caller reads. *)
Spec == Init /\ [][Next]_vars /\ WF_vars(Start) /\ WF_vars(Run)
-----------------------------------------------------------------------------
(* What a rule says: the numbers from start to stop, the first in any      *)
(* case; the places of a list that are not marked as a file's.             *)
Said(r) ==
  IF r.code = "num"
    THEN [k \in 1..(1 + (IF r.stop < r.start THEN 0 ELSE (r.stop - r.start) \div Step(r)))
            |-> r.start + (k - 1) * Step(r)]
    ELSE LET places == (0..(r.words - 1)) \ r.files
         IN  [k \in 1..Cardinality(places) |->
                CHOOSE c \in places : Cardinality({d \in places : d < c}) = k - 1]

(* In whatever order the rules get ready, the injections end, and by then  *)
(* the caller has had every value of every rule, each once and in order;   *)
(* but for a text without a rule, which RunAnnotated waits on for ever,    *)
(* and the two ways a list ends the program.                               *)
AllSaid == runner.at = "closed" => \A i \in DOMAIN rules : sent[i] = Said(rules[i])
RunEnds ==
  <>(\/ runner.at \in {"crashed", "closed"}
     \/ runner.at = "next" /\ rules = <<>>)
RulesRunOut == []AllSaid /\ RunEnds
=============================================================================
