CONSTANTS
  Methods <- MCMethods
  Signatures <- MCSignatures
  MaxHeight = 3
SPECIFICATION CompilerSpec
INVARIANTS TypeOK BlocksBalanced BranchesLand StatementsValidate FailsOnlyForUnknownOpcode
CHECK_DEADLOCK FALSE
