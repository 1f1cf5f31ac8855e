CONSTANTS
  Methods <- BrfalseMethods
  Arguments <- MCArguments
  Signatures <- MCSignatures
  MaxHeight = 3
  Half = 8
SPECIFICATION DataSpec
PROPERTY EquivalentToCil
CHECK_DEADLOCK FALSE
