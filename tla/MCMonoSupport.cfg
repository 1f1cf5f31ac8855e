CONSTANTS
  Ids = {1, 2}
  Platforms = {"web", "shell"}
  MaxRequests = 3
  Stacks <- MCStacks
  Variables <- MCVariables
  Locations = {10, 20}
  MaxRequested = 2
SPECIFICATION SupportSpec
INVARIANTS PumpTypeOK CountIsOutstanding TimersCoverCount TimeoutsRunOnce RepliesExact
PROPERTY RequestsExecuted
CHECK_DEADLOCK FALSE
