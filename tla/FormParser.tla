------------------------------ MODULE FormParser ------------------------------
(***************************************************************************)
(* The parser of src/src/github.com/latacora/formaldehyd/parse.go, which   *)
(* turns the drawing of a form into a tree, and what JSON of emit.go does  *)
(* with the tree.  Its functions call each other to a fixed depth and read *)
(* one token at a time, so a program counter names the innermost one.      *)
(*                                                                         *)
(* The input is any sequence of tokens, made up as it is read; where the   *)
(* parser looks ahead, expect holds what it saw.  Of the tokens it gathers *)
(* (accum) the model keeps what kinds there are before the last newline    *)
(* and from it on; of the tree, the path to the current node and what the  *)
(* last node was made of.                                                  *)
(***************************************************************************)
EXTENDS Sequences, SequencesExt

VARIABLES
  pc,         (* the function that reads the next token                      *)
  expect,     (* what a look ahead found                                     *)
  path,       (* the kinds of the current node and its ancestors             *)
  before,     (* accum up to its last newline                                *)
  line,       (* accum from its last newline on, that included               *)
  last,       (* the kind of the last node or tag completed                  *)
  strange,    (* kinds in the tree that JSON has no case for                 *)
  err         (* p.err is set                                                *)

vars == <<pc, expect, path, before, line, last, strange, err>>

(* "space" is one blank, "spaces" are several; tokenize finds no other.    *)
Tokens == {"space", "spaces", "newline", "phrase", "dashes", "squigs", "+/-",
           "-o-", "[(", ")]", "*_", "_*", "(", ")", "[", "]", "*", "#", "|"}
EOF == "eof"

Blank == {"space", "spaces"}

(* What a token is to a text; a bar is taken out (cleansingFire).  Text    *)
(* that has become part of a node or a tag is "used".                      *)
Mark(t) == IF t \in Blank \cup {"|"} THEN "blank"
           ELSE IF t = "newline" THEN t ELSE "text"

(* The cases of handle in emit.go.                                         *)
Emitted == {"Button", "Text", "Heading", "NumberField", "TextField",
            "CheckField", "RadioField", "DropField"}
Fields  == {"Field", "TextField", "RadioField", "CheckField", "DropField",
            "NumberField", "SwitchField"}

Current == Last(path)
Accum   == before \cup line

Init ==
  /\ pc = "document" /\ expect = "any"
  /\ path = <<"Document">>
  /\ before = {} /\ line = {}
  /\ last = "Document" /\ strange = {} /\ err = FALSE

-----------------------------------------------------------------------------
(* Reading *)

(* The tokens that a look ahead allows.                                    *)
Fits(t) ==
  CASE expect = "any"    -> TRUE
    [] expect = "]"      -> t = "]"
    [] expect = "not ]"  -> t # "]"
    [] expect = "phrase" -> t \in Blank \cup {"newline", "phrase"}
    [] expect = "other"  -> t # "phrase"

(* A look ahead over blanks is settled by what follows them.               *)
Settles(t) ==
  IF expect \in {"phrase", "other"} /\ t \in Blank \cup {"newline"} THEN expect ELSE "any"

Reads(t) == Fits(t) /\ expect' = Settles(t)

(* Something the function does not expect.                                 *)
Fail == err' = TRUE /\ pc' = "done" /\ UNCHANGED <<path, before, line, last, strange>>

Goto(p) == pc' = p /\ UNCHANGED err

Gather(t) ==
  IF t = "newline" THEN before' = Accum /\ line' = {"newline"}
                   ELSE UNCHANGED before /\ line' = line \cup {Mark(t)}

ResetAccum == before' = {} /\ line' = {}

(* The text was used, and stays.                                           *)
Use(set) == {IF m = "text" THEN "used" ELSE m : m \in set}
KeepUsed == before' = Use(before) /\ line' = Use(line)

SameTree == UNCHANGED <<path, last, strange>>

(* A node without children, or one that is left again.                     *)
Completed(kind) ==
  /\ last' = kind
  /\ strange' = strange \cup ({kind} \ (Emitted \cup {"Page", "Selection"}))

AddLeaf(kind) == Completed(kind) /\ UNCHANGED path

(* p.current = p.current.Parent                                            *)
Leave == Completed(Current) /\ path' = Front(path)

Becomes(kind) == path' = Front(path) \o <<kind>> /\ UNCHANGED <<last, strange>>

-----------------------------------------------------------------------------
(* Between elements *)

(* The input may end here.                                                 *)
Document(t) ==
  /\ pc = "document" /\ Reads(t)
  /\ \/ t \in Blank \cup {"newline"} /\ Goto("document") /\ UNCHANGED <<before, line>> /\ SameTree
     \/ t = "phrase" /\ Goto("text") /\ Gather(t) /\ SameTree
     \/ t = "[(" /\ Goto("button") /\ UNCHANGED <<before, line>> /\ SameTree
     \/ t = "squigs" /\ Goto("opt") /\ UNCHANGED <<before, line>> /\ SameTree
     \/ t = "#" /\ Goto("hash") /\ UNCHANGED <<before, line>> /\ SameTree
     \/ t = EOF /\ Goto("done") /\ UNCHANGED <<before, line>> /\ SameTree
     \/ t \notin Blank \cup {"newline", "phrase", "[(", "squigs", "#", EOF} /\ Fail

(* Mutant: the label of a button stays in accum.                           *)
ButtonKeeps(t) ==
  /\ pc = "button" /\ Reads(t)
  /\ \/ t \in {"newline", EOF} /\ Fail
     \/ t = ")]" /\ Accum = {} /\ Fail
     \/ t = ")]" /\ Accum # {} /\ Goto("document") /\ AddLeaf("Button")
        /\ UNCHANGED <<before, line>>
     \/ t \notin {"newline", ")]", EOF} /\ Goto("button") /\ Gather(t) /\ SameTree

Button(t) ==
  /\ pc = "button" /\ Reads(t)
  /\ \/ t \in {"newline", EOF} /\ Fail
     \/ t = ")]" /\ Accum = {} /\ Fail
     \/ t = ")]" /\ Accum # {} /\ Goto("document") /\ AddLeaf("Button") /\ ResetAccum
     \/ t \notin {"newline", ")]", EOF} /\ Goto("button") /\ Gather(t) /\ SameTree

(* The option tag takes the text but does not reset it.                    *)
Opt(t) ==
  /\ pc = "opt" /\ Reads(t)
  /\ \/ /\ t \in {"newline", "squigs"}
        /\ Goto("document") /\ KeepUsed
        /\ last' = "Opt" /\ UNCHANGED <<path, strange>>
     \/ t \notin {"newline", "squigs", EOF} /\ Goto("opt") /\ Gather(t) /\ SameTree
     \/ t = EOF /\ Fail

(* hashtagOrHeader *)
Hash(t) ==
  /\ pc = "hash" /\ Reads(t)
  /\ \/ t = "phrase" /\ Goto("document") /\ UNCHANGED <<before, line>> /\ SameTree
     \/ t \in Blank /\ Goto("heading") /\ Gather(t) /\ SameTree
     \/ t \notin Blank \cup {"phrase"} /\ Fail

(* Mutant: the text of a heading is not reset.                             *)
HeadingKeeps(t) ==
  /\ pc = "heading" /\ Reads(t)
  /\ \/ t = "newline" /\ Goto("document") /\ AddLeaf("Heading") /\ KeepUsed
     \/ t \notin {"newline", EOF} /\ Goto("heading") /\ Gather(t) /\ SameTree
     \/ t = EOF /\ Fail

Heading(t) ==
  /\ pc = "heading" /\ Reads(t)
  /\ \/ t = "newline" /\ Goto("document") /\ AddLeaf("Heading") /\ ResetAccum
     \/ t \notin {"newline", EOF} /\ Goto("heading") /\ Gather(t) /\ SameTree
     \/ t = EOF /\ Fail

-----------------------------------------------------------------------------
(* A run of text and the element that ends it *)

Page ==
  /\ Goto("document") /\ Completed("Page") /\ ResetAccum
  /\ path' = (IF Current = "Page" THEN Front(path) ELSE path) \o <<"Page">>

(* The lines before the last become a text of their own, the last one the  *)
(* label, which takes accum over; whatever is next is read by field.       *)
FieldStart(t) ==
  /\ IF "newline" \in line THEN Completed("Text") ELSE UNCHANGED <<last, strange>>
  /\ ResetAccum
  /\ \/ t = "[" /\ Goto("box") /\ path' = path \o <<"Field">>
     \/ t = "(" /\ Goto("radio") /\ path' = path \o <<"RadioField">>
     \/ t = "*" /\ Goto("drop") /\ path' = path \o <<"DropField">>

(* At the end of the input the text is dropped.                            *)
Text(t) ==
  /\ pc = "text" /\ Reads(t)
  /\ \/ t \in Blank \cup {"newline", "phrase"} /\ Goto("text") /\ Gather(t) /\ SameTree
     \/ t = "#" /\ line = {"newline"} /\ Goto("hash") /\ AddLeaf("Text") /\ ResetAccum
     \/ t = "#" /\ line # {"newline"} /\ Goto("text") /\ Gather(t) /\ SameTree
     \/ t = "dashes" /\ Page
     \/ t \in {"[", "(", "*"} /\ FieldStart(t)
     \/ t = EOF /\ Goto("done") /\ UNCHANGED <<before, line>> /\ SameTree
     \/ t \notin Blank \cup {"newline", "phrase", "#", "dashes", "[", "(", "*", EOF} /\ Fail

-----------------------------------------------------------------------------
(* Fields *)

(* checkOrText looks at the token after a star or one blank.               *)
CheckOrText(t) ==
  /\ pc = "box" /\ Fits(t)
  /\ \/ /\ t \in {"*", "space"} /\ expect' = "]"
        /\ Goto("closebox") /\ Becomes("CheckField") /\ UNCHANGED <<before, line>>
     \/ /\ t = "]" /\ expect' = "any"
        /\ Goto("document") /\ UNCHANGED <<before, line>>
        /\ path' = Front(path) /\ Completed("TextField")
     \/ /\ t \notin {"]", EOF}
        /\ expect' = IF t \in {"*", "space"} THEN "not ]" ELSE "any"
        /\ Goto("textfield") /\ Becomes("TextField") /\ Gather(t)
     \/ t = EOF /\ expect' = "any" /\ Fail

(* Mutant: the field stays the current node.                               *)
CloseBoxStays(t) ==
  /\ pc = "closebox" /\ Reads(t)
  /\ Goto("document") /\ Completed(Current) /\ UNCHANGED <<path, before, line>>

CloseBox(t) ==
  /\ pc = "closebox" /\ Reads(t)
  /\ Goto("document") /\ Leave /\ UNCHANGED <<before, line>>

(* The default of the field stays in accum.                                *)
TextField(t) ==
  /\ pc = "textfield" /\ Reads(t)
  /\ \/ t = "]" /\ Goto("document") /\ Leave /\ KeepUsed
     \/ t \in {"+/-", "-o-"} /\ Goto("textfield") /\ Becomes("NumberField")
        /\ UNCHANGED <<before, line>>
     \/ t \notin {"]", "+/-", "-o-", EOF} /\ Goto("textfield") /\ Gather(t) /\ SameTree
     \/ t = EOF /\ Fail

Radio(t) ==
  /\ pc = "radio" /\ Reads(t)
  /\ \/ t \in Blank \cup {"*"} /\ Goto("radio") /\ SameTree /\ UNCHANGED <<before, line>>
     \/ t \in {"*_", "_*"} /\ Goto("radio") /\ Becomes("SwitchField")
        /\ UNCHANGED <<before, line>>
     \/ t = ")" /\ Goto("document") /\ Leave /\ UNCHANGED <<before, line>>
     \/ t \notin Blank \cup {"*", "*_", "_*", ")"} /\ Fail

DropField(t) ==
  \/ /\ pc = "drop" /\ Reads(t)
     /\ \/ t = "dashes" /\ Goto("options") /\ SameTree /\ UNCHANGED <<before, line>>
        \/ t # "dashes" /\ Fail
  \/ /\ pc = "options" /\ Reads(t)
     /\ \/ t \in Blank \cup {"newline"} /\ Goto("options") /\ SameTree
           /\ UNCHANGED <<before, line>>
        \/ t = "*" /\ Goto("option") /\ SameTree /\ UNCHANGED <<before, line>>
        \/ t = "dashes" /\ Goto("document") /\ Leave /\ UNCHANGED <<before, line>>
        \/ t \notin Blank \cup {"newline", "*", "dashes"} /\ Fail

(* dropNextField: a newline ends the selection unless a phrase follows it  *)
(* and its blanks; other tokens are skipped.                               *)
DropNextField(t) ==
  /\ pc = "option"
  /\ \/ /\ t \in Blank \cup {"phrase"} /\ Reads(t)
        /\ Goto("option") /\ Gather(t) /\ SameTree
     \/ /\ t = "newline" /\ Fits(t) /\ expect # "other" /\ expect' = "phrase"
        /\ Goto("option") /\ Gather(t) /\ SameTree
     \/ /\ t = "newline" /\ Fits(t) /\ expect # "phrase" /\ expect' = "other"
        /\ Goto("options") /\ AddLeaf("Selection") /\ ResetAccum
     \/ /\ t \notin Blank \cup {"phrase", "newline", EOF} /\ Reads(t)
        /\ Goto("option") /\ UNCHANGED <<before, line>> /\ SameTree
     \/ t = EOF /\ Reads(t) /\ Fail

-----------------------------------------------------------------------------

Read(t) ==
  \/ Document(t) \/ Button(t) \/ Opt(t) \/ Hash(t) \/ Heading(t) \/ Text(t)
  \/ CheckOrText(t) \/ CloseBox(t) \/ TextField(t) \/ Radio(t)
  \/ DropField(t) \/ DropNextField(t)

Done == pc = "done" /\ UNCHANGED vars

Next == (\E t \in Tokens \cup {EOF} : Read(t)) \/ Done

Spec == Init /\ [][Next]_vars

-----------------------------------------------------------------------------
(* Properties *)

(* The tree has pages in the document only and fields in one of both, so   *)
(* that JSON, which looks one level into a page, sees every node.  The     *)
(* parser is inside a field exactly while it reads one, and every field    *)
(* has lost the provisional kind Field by the time it is left.             *)
FieldsAreLeft ==
  /\ \E b \in {<<"Document">>, <<"Document", "Page">>}, f \in {<<>>} \cup {<<k>> : k \in Fields} :
       path = b \o f
  /\ ~err => (Current \in Fields <=>
                pc \in {"box", "closebox", "textfield", "radio", "drop", "options", "option"})
  /\ Current = "Field" => pc = "box" \/ err
  /\ last # "Field"

(* Between two elements no text is waiting: whatever was read since the    *)
(* start has become part of a node or a tag.  Only a last paragraph that   *)
(* no element follows is lost, without an error.                           *)
NoTextWaits ==
  pc \in {"document", "options", "drop", "radio"} => "text" \notin Accum

(* The text of one node turns up in the label of another only where accum  *)
(* was not reset: after a text or number field and after an option tag.    *)
LeaksOnlyAfter ==
  "used" \in Accum => last \in {"TextField", "NumberField", "Opt"}

(* What JSON must never meet: a kind for which handle of emit.go has no    *)
(* case, where it panics with "notreached".                                *)
EmitKnowsAll == pc = "done" /\ ~err => strange = {}
=============================================================================
