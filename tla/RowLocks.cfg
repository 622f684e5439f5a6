\* Every kind of transaction, three in all, over two enrolments.
SPECIFICATION FairSpec
CONSTANTS
  NULL = NULL
  Enrolments = {c1, c2}
  MaxTransactions = 3
  Kinds = {"entry", "lifecycle", "write", "save", "deletion"}
  Scores = {1, 2}
INVARIANTS DeadlocksExplained RanksAreCurrent
PROPERTIES EveryTransactionEnds
CHECK_DEADLOCK FALSE
