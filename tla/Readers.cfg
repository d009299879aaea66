\* Requests of ten bytes, two rules, forms of any length.
SPECIFICATION ReadersSpec
CONSTANTS
  MaxBytes = 10
  Kinds = {"Ident", "Num", "Ws", "Newline", "Slash", "Dot", "Colon", "Eq", "And", "Query", "Semi"}
  MaxRules = 2
  MaxWords = 2
  Nums = {0, 2}
INVARIANTS FieldsAreLeft NoTextWaits LeaksOnlyAfter
PROPERTIES NodesInOrder HttpEnds RulesEnd
\* A reader that is done, and one that waits for ever, take no step.
CHECK_DEADLOCK FALSE
