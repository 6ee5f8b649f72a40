CONSTANTS
  Commands = {c1, c2}
  NoOne = NoOne
  Symbols = {ibm}
  Exchanges = {nyse, lse}
  NoExchange = NoExchange
  ibm = ibm
  nyse = nyse
  lse = lse
  Conids <- MCConids
  Market <- MCMarket
  OldRows <- MCOldRows
  Keys <- MCKeys
  MaxRows = 3

SPECIFICATION FairSpec
INVARIANTS TypeOK AnswersAreJustified WholeStatements NoAvoidableAbort
PROPERTIES CommandsReturn
CHECK_DEADLOCK FALSE
