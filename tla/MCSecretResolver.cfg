CONSTANTS
  Resolvers = {r1, r2}
  Names = {n1, n2}
  Stores = {s1, s2}
  Mapping = Mapping
  None = None
SPECIFICATION FairSpec
INVARIANTS
  OnceResolvedAlways
  AnswersExplained
  WaitersAreOwed
PROPERTIES
  CallsReturn
