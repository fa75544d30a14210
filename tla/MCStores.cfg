SPECIFICATION MCSpec
CONSTANTS
  Row <- MCRow
  Cursor <- MCCursor
  Desc = FALSE
  Requested <- MCRequested
  DefaultPageSize = 2
  MaxPageSize = 3
  Client = {c1, c2}
  Member = {"m1", "m2", "m3"}
  maxTransactItems = 4
  MaxCalls = 3
  None = None
SYMMETRY Symm
INVARIANTS
  WalkExact
  WritesExact
  ItemConsistent
  GroupConsistent
  ReadsExact
