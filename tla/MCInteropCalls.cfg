CONSTANTS
  Arguments <- MCArguments
  NativeUnits = 2
  MaxDepth = 20
  StackUnits = 40
  Word = 4
  Handles = {0, 3, 4, 9}
  Exact = 8
  Spacings = {1, 2}
  NoFlag = NoFlag
SPECIFICATION Spec
INVARIANTS TypeOK FrameOwnsStack LiveCallsIntact NativeNotUnwound DispatchedByHandle
PROPERTY ExceptionsReachDotNet
CHECK_DEADLOCK FALSE
