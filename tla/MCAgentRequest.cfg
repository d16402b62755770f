\* One request over two product families.
SPECIFICATION FairSpec
CONSTANTS
  Families <- MCFamilies
  Relation = "relation"
INVARIANTS
  AllOrNone
  ProductTrailAccepted
  KnowledgeTrailAccepted
PROPERTIES
  SilentAfterAnswer
  StaleNeverServed
  RequestEnds
CHECK_DEADLOCK FALSE
