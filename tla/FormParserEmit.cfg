\* JSON of a form that was parsed without an error.
SPECIFICATION Spec
INVARIANTS
  EmitKnowsAll
