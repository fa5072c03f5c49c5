\* Two entries, one of them known to the legacy area; dates and failure types
\* play no part in which codes are remembered.
SPECIFICATION Spec
CONSTANTS
  N = 2
  L = 1
  Times = {0}
  Details = {0}
INVARIANT OpenShowsDurable
PROPERTY KeepsPromise
