------------------------------ MODULE MCReaders ------------------------------
(* Instances of HttpParser, RuleRunner and FormParser for TLC.  They have  *)
(* nothing in common: a behaviour is one of the reader that  reader  names.*)
EXTENDS HttpParser

CONSTANTS MaxRules, MaxWords, Nums

VARIABLES
  reader,
  text, rules, fed, ready, runner, sent,
  pc, expect, path, before, line, last, strange, err

Rules == INSTANCE RuleRunner
Forms == INSTANCE FormParser

ASSUME RuleAssumption == Rules!RuleConstants

ruleVars   == <<text, rules, fed, ready, runner, sent>>
formVars   == <<pc, expect, path, before, line, last, strange, err>>
readerVars == <<reader, vars, ruleVars, formVars>>

ReadersInit == reader \in {"http", "rules", "forms"} /\ Init /\ Rules!Init /\ Forms!Init

HttpStep       == reader = "http" /\ Next /\ UNCHANGED <<reader, ruleVars, formVars>>
RuleStep(step) == reader = "rules" /\ step /\ UNCHANGED <<reader, vars, formVars>>
FormStep       == reader = "forms" /\ Forms!Next /\ UNCHANGED <<reader, vars, ruleVars>>

ReadersNext == HttpStep \/ RuleStep(Rules!Next) \/ FormStep

(* The fairness of HttpParser and of RuleRunner.                           *)
ReadersSpec ==
  /\ ReadersInit /\ [][ReadersNext]_readerVars
  /\ WF_readerVars(HttpStep)
  /\ WF_readerVars(RuleStep(Rules!Start)) /\ WF_readerVars(RuleStep(Rules!Run))

(* The properties; NodesInOrder has its name already.                      *)
HttpEnds       == reader = "http" => ReaderEnds
RulesEnd       == []Rules!AllSaid /\ (reader = "rules" => Rules!RunEnds)
FieldsAreLeft  == Forms!FieldsAreLeft
NoTextWaits    == Forms!NoTextWaits
LeaksOnlyAfter == Forms!LeaksOnlyAfter
==============================================================================
