---------------------------- MODULE MonoDebugger ----------------------------
(***************************************************************************)
(* The debugger's side of library_mono.js.  While the program is stopped,  *)
(* the debugger asks for the call stack or for variables; the runtime      *)
(* answers by calling back, once for each frame or variable, and the       *)
(* answers are collected in the fields active_frames and var_info.  The    *)
(* runtime is external: it has a stack, variables and breakpoints.         *)
(***************************************************************************)
EXTENDS Naturals, Sequences

CONSTANTS
  Stacks,       (* call stacks the program may be stopped with             *)
  Variables,    (* variables, as [type, value]; a string's value is its    *)
                (* address, 0 for null                                     *)
  Locations,    (* where breakpoints can be set                            *)
  MaxRequested  (* bound on the variables asked for at once                *)

ASSUME StacksAssumption == \A s \in Stacks : s \in Seq({s[i] : i \in DOMAIN s})
ASSUME MaxRequestedAssumption == MaxRequested \in Nat

VARIABLES
  stack,         (* the program's frames                                   *)
  stopped,       (* at the "debugger" statement of mono_wasm_fire_bp       *)
  asking,        (* "nothing", "frames" or "variables"                     *)
  asked,         (* what the runtime has still to call back for            *)
  activeFrames, varInfo,
  reply,         (* what the last request returned, and about what         *)
  wanted,        (* history: the frames or variables it was about          *)
  breakpoints,   (* the runtime's                                          *)
  wrapped        (* entry points wrapped by cwrap so far                   *)

debuggerVars == <<stack, stopped, asking, asked, activeFrames, varInfo, reply, wanted,
                  breakpoints, wrapped>>

NoReply == [about |-> "nothing", entries |-> <<>>]

DebuggerInit ==
  /\ stack \in Stacks /\ stopped = FALSE
  /\ asking = "nothing" /\ asked = <<>>
  /\ activeFrames = <<>> /\ varInfo = <<>>
  /\ reply = NoReply /\ wanted = <<>>
  /\ breakpoints = {}
  /\ wrapped = {}

Free == stopped /\ asking = "nothing"
-----------------------------------------------------------------------------
(* The program reaches a breakpoint or a step; later it goes on.           *)
FireBp ==
  /\ ~stopped
  /\ stopped' = TRUE
  /\ stack' \in Stacks
  /\ UNCHANGED <<asking, asked, activeFrames, varInfo, reply, wanted, breakpoints, wrapped>>

Resume ==
  /\ Free
  /\ stopped' = FALSE
  /\ UNCHANGED <<stack, asking, asked, activeFrames, varInfo, reply, wanted, breakpoints, wrapped>>

StartSingleStepping ==
  /\ asking = "nothing"
  /\ wrapped' = wrapped \cup {"setup_single_step"}
  /\ UNCHANGED <<stack, stopped, asking, asked, activeFrames, varInfo, reply, wanted, breakpoints>>

(* Mutant: the field is not emptied first.                                 *)
FieldKept(field) == field
FieldEmptied(field) == <<>>

GetCallStack ==
  /\ Free
  /\ wrapped' = wrapped \cup {"current_bp_id", "enum_frames"}
  /\ asking' = "frames" /\ asked' = stack /\ wanted' = stack
  /\ reply' = NoReply
  /\ activeFrames' = FieldEmptied(activeFrames)
  /\ UNCHANGED <<stack, stopped, varInfo, breakpoints>>

AddFrame ==
  /\ asking = "frames" /\ asked # <<>>
  /\ activeFrames' = Append(activeFrames, Head(asked))
  /\ asked' = Tail(asked)
  /\ UNCHANGED <<stack, stopped, asking, varInfo, reply, wanted, breakpoints, wrapped>>

ReturnFrames ==
  /\ asking = "frames" /\ asked = <<>>
  /\ reply' = [about |-> "frames", entries |-> activeFrames]
  /\ activeFrames' = <<>>
  /\ asking' = "nothing"
  /\ UNCHANGED <<stack, stopped, asked, varInfo, wanted, breakpoints, wrapped>>

GetVariables ==
  /\ Free
  /\ wrapped' = wrapped \cup {"get_var_info"}
  /\ \E n \in 0 .. MaxRequested : \E list \in [1 .. n -> Variables] :
       asked' = list /\ wanted' = list
  /\ asking' = "variables"
  /\ reply' = NoReply
  /\ varInfo' = FieldEmptied(varInfo)
  /\ UNCHANGED <<stack, stopped, activeFrames, breakpoints>>

(* mono_wasm_add_bool_var ... mono_wasm_add_string_var.                    *)
Described(v) ==
  CASE v.type = "bool" -> [type |-> "boolean", value |-> IF v.value # 0 THEN 1 ELSE 0]
    [] v.type = "string" /\ v.value = 0 -> [type |-> "object", value |-> 0]
    [] v.type = "string" /\ v.value # 0 -> [type |-> "string", value |-> v.value]
    [] OTHER -> [type |-> "number", value |-> v.value]

AddVariable ==
  /\ asking = "variables" /\ asked # <<>>
  /\ varInfo' = Append(varInfo, Described(Head(asked)))
  /\ asked' = Tail(asked)
  /\ UNCHANGED <<stack, stopped, asking, activeFrames, reply, wanted, breakpoints, wrapped>>

ReturnVariables ==
  /\ asking = "variables" /\ asked = <<>>
  /\ reply' = [about |-> "variables", entries |-> varInfo]
  /\ varInfo' = <<>>
  /\ asking' = "nothing"
  /\ UNCHANGED <<stack, stopped, asked, activeFrames, wanted, breakpoints, wrapped>>

(* The runtime fails in the middle: the exception leaves the request, and  *)
(* what was collected stays in its field.                                  *)
FailRequest ==
  /\ asking # "nothing"
  /\ asking' = "nothing" /\ asked' = <<>>
  /\ reply' = NoReply /\ wanted' = <<>>
  /\ UNCHANGED <<stack, stopped, activeFrames, varInfo, breakpoints, wrapped>>

SetBreakpoint(location) ==
  /\ asking = "nothing"
  /\ wrapped' = wrapped \cup {"set_bp"}
  /\ breakpoints' = breakpoints \cup {location}
  /\ UNCHANGED <<stack, stopped, asking, asked, activeFrames, varInfo, reply, wanted>>

RemoveBreakpoint(location) ==
  /\ asking = "nothing"
  /\ location \in breakpoints
  /\ wrapped' = wrapped \cup {"del_bp"}
  /\ breakpoints' = breakpoints \ {location}
  /\ UNCHANGED <<stack, stopped, asking, asked, activeFrames, varInfo, reply, wanted>>

(* mono_wasm_clear_all_breakpoints makes its wrapper only if it has one:   *)
(* it never has, and the call is a TypeError.                              *)
BreakpointsCleared == IF "clear_bps" \in wrapped THEN {} ELSE breakpoints

ClearAllBreakpoints ==
  /\ asking = "nothing"
  /\ breakpoints' = BreakpointsCleared
  /\ UNCHANGED <<stack, stopped, asking, asked, activeFrames, varInfo, reply, wanted, wrapped>>

DebuggerNext ==
  \/ FireBp \/ Resume \/ StartSingleStepping
  \/ GetCallStack \/ AddFrame \/ ReturnFrames
  \/ GetVariables \/ AddVariable \/ ReturnVariables
  \/ FailRequest
  \/ \E location \in Locations : SetBreakpoint(location) \/ RemoveBreakpoint(location)
  \/ ClearAllBreakpoints

DebuggerSpec == DebuggerInit /\ [][DebuggerNext]_debuggerVars
-----------------------------------------------------------------------------
(* A reply has one entry for each frame or variable asked about, in order, *)
(* also after an earlier request broke off and left entries behind.        *)
RepliesExact ==
  CASE reply.about = "frames"    -> reply.entries = wanted
    [] reply.about = "variables" -> reply.entries = [i \in DOMAIN wanted |-> Described(wanted[i])]
    [] OTHER -> reply = NoReply
=============================================================================
