\* The event of a verified cross-family answer names no plan.
SPECIFICATION Spec
CONSTANTS
  Families <- MCFamilies
  Relation = "relation"
INVARIANTS
  BatchAnswersTraced
CHECK_DEADLOCK FALSE
