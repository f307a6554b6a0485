CONSTANTS
  QueryId = {q1, q2}
  Results <- MCResults
  Null = "null"
  MaxSnapshots = 2
SPECIFICATION CompareSpec
INVARIANT GapsAreVisible
CHECK_DEADLOCK FALSE
