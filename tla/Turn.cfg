SPECIFICATION FairSpec
CONSTANTS
  c1 = c1
  c2 = c2
  Clients = {c1, c2}
  MaxAsked <- MCMaxAsked
  Transactions = {1, 2}
  MaxData = 1
  MayFail = TRUE
INVARIANTS OneResponse CallbackExists NoneRefused SendsInOrder
PROPERTIES ImplementsTable AskedIsAnswered
CHECK_DEADLOCK FALSE
