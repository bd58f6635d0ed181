CONSTANTS
  Keys = {k1, k2, k3}
  Vals = {v1, v2}
  Empty = Empty
  HashVals = {0, 4, 7, 21}
  Sizes <- MCSizes
  HashFamily <- MCHashFamily
SPECIFICATION FairCarefulSpec
INVARIANT Placed
PROPERTY ImplementsDictionary
PROPERTY InsertionReturns
