CONSTANTS
  Fields <- MCFields
  AliasOf <- MCAliasOf
  Exclusive <- MCExclusive
  Needs <- MCNeeds
  Typed <- MCTyped
  Priced <- MCPriced
  Keys <- MCKeys
  Defaults <- MCDefaults
  Warnings <- MCWarnings
  Inputs <- MCInputs
  MaxReplies = 2
  MaxMessages = 1

SPECIFICATION Command
INVARIANTS InputOK PreparationIsDeterministic ConfirmationsAreJustified
CHECK_DEADLOCK FALSE
