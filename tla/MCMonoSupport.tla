--------------------------- MODULE MCMonoSupport ----------------------------
(***************************************************************************)
(* The two parts of library_mono.js that serve a running program share no  *)
(* state; a behaviour exercises one of them.                               *)
(***************************************************************************)
EXTENDS MonoSupport, MonoDebugger

VARIABLE part
supportVars == <<pumpVars, debuggerVars, part>>

Method(n) == [type |-> "frame", value |-> n]
MCStacks == {<<>>, <<Method(1)>>, <<Method(1), Method(2)>>}
MCVariables ==
  {[type |-> "bool", value |-> 2], [type |-> "int", value |-> 0],
   [type |-> "string", value |-> 0], [type |-> "string", value |-> 5]}

SupportInit ==
  /\ part \in {"pump", "debugger"}
  /\ PumpInit /\ DebuggerInit
  /\ part = "pump" => stack = <<>>
  /\ part = "debugger" => platform = "web"

SupportNext ==
  \/ part = "pump" /\ PumpNext /\ UNCHANGED <<debuggerVars, part>>
  \/ part = "debugger" /\ DebuggerNext /\ UNCHANGED <<pumpVars, part>>

SupportSpec == SupportInit /\ [][SupportNext]_supportVars /\ PumpFairness
=============================================================================
