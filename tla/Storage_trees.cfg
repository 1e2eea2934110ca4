CONSTANTS
  Outpoint = {o1, o2}
  Coin = {c1, c2}
  c1 = c1
  c2 = c2
  b1 = b1
  b2 = b2
  Spent = Spent
  Block = {b1, b2}
  Null = Null
  Span = {s1, s2}
  None = None
  UtxoOf <- MCUtxoOf
  Parts = {"trees"}
SPECIFICATION MCSpec
INVARIANT IndexMatchesFiles
CHECK_DEADLOCK FALSE
