CONSTANTS
  Methods <- MCMethods
  Arguments <- MCArguments
  Signatures <- MCSignatures
  MaxHeight = 3
  Half = 8
SPECIFICATION DataSpec
PROPERTIES EquivalentToCil EveryInstructionFinishes
CHECK_DEADLOCK FALSE
