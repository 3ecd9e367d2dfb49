SPECIFICATION GovSpec
CONSTANTS
  Strategies = {"s"}
  Operators = {"alice", "bob", "carol"}
  DemoActors = {}
  Txs = {1, 2}
  MaxVersion = 1
PROPERTIES ReviewsImmutable
CHECK_DEADLOCK FALSE
