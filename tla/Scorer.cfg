SPECIFICATION ScoreSpec
CONSTANTS
  KeySets <- MCKeySets
  Source <- MCSource
  Declared <- MCDeclared
  Ontology <- MCOntology
  Policy <- MCPolicy
  Shared <- MCShared
  AnyFamily = "any"
  Roots = {"frozen", "edited"}
  Approved = "frozen"
  MaxChanges = 2
INVARIANTS ErrorsAreCounted BetterAnswersNeverFail
CHECK_DEADLOCK FALSE
