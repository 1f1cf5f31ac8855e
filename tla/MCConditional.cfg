CONSTANTS
  Methods <- ConditionalMethods
  Signatures <- MCSignatures
  MaxHeight = 3
SPECIFICATION CompilerSpec
INVARIANT EveryVerifiableBodyValidates
CHECK_DEADLOCK FALSE
