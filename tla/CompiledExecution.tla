------------------------- MODULE CompiledExecution --------------------------
(***************************************************************************)
(* A call of a compiled method with its values: CompiledControlFlow with   *)
(* the operand stack and the locals of the function, and so with br_if     *)
(* decided.  Only functions that pass validation are ever run.             *)
(*                                                                         *)
(* The call is shown to compute what CilMachine, the .NET runtime, would   *)
(* compute for the CIL body.                                               *)
(***************************************************************************)
EXTENDS CompiledControlFlow, CompiledValidity, Int32

CONSTANT Arguments    (* the argument lists of the calls, functions from slots *)

(* Each method says whether it has a "this", the calls fill every slot.    *)
ASSUME CallsAssumption ==
  /\ \A m \in Methods : m.hasThis \in BOOLEAN
  /\ Arguments \subseteq [0 .. 2 -> Ints]

VARIABLES
  arguments,  (* the argument list of the call                              *)
  operands,   (* the operand stack, top last                                *)
  frame,      (* the locals of the function, by name                        *)
  seen        (* history: the CIL instruction the engine is at, operands    *)
              (* and frame when it came there                               *)

dataVars == <<arguments, operands, frame, seen>>
allVars  == <<vars, dataVars>>
-----------------------------------------------------------------------------
(* CompileMethod names the parameters arg0, arg1, ..., "this" included;    *)
(* the other locals start at 0.                                            *)
Slots == {<<"arg", i>> : i \in 0 .. 2} \cup {<<"loc", i>> : i \in 0 .. 3}
           \cup {<<x, 0>> : x \in {"dupTemp", "switchValue", "jumpTarget"}}

CallFrame(a) == [s \in Slots |-> IF s[1] = "arg" THEN a[s[2]] ELSE 0]

Snapshot == [pc |-> Pc, operands |-> operands, frame |-> frame]

DataInit ==
  /\ arguments \in Arguments
  /\ operands = <<>>
  /\ frame = CallFrame(arguments)
  /\ seen = Snapshot

PopN(k) == SubSeq(operands, 1, Len(operands) - k)
Top     == Last(operands)
Under   == operands[Len(operands) - 1]
Slot    == <<At.x, At.n>>

Result2 ==
  CASE At.op = "i32.add"   -> Wrap(Under + Top)
    [] At.op = "i32.sub"   -> Wrap(Under - Top)
    [] At.op = "i32.mul"   -> Wrap(Under * Top)
    [] At.op = "i32.rem_s" -> Remainder(Under, Top)
    [] At.op = "i32.eq"    -> FromBool(Under = Top)
    [] At.op = "i32.lt_s"  -> FromBool(Under < Top)
    [] At.op = "i32.gt_s"  -> FromBool(Under > Top)
    [] At.op = "i32.le_s"  -> FromBool(Under <= Top)

(* Instructions that compute: those the control flow does not depend on,   *)
(* and the store to jumpTarget.                                            *)
ComputeData ==
  /\ Compute \/ StoreJumpTarget
  /\ At.op = "i32.rem_s" => Top # 0
  /\ operands' = CASE At.op \in Binary      -> Append(PopN(2), Result2)
                   [] At.op = "i32.const"   -> Append(operands, At.n)
                   [] At.op = "get_local"   -> Append(operands, frame[Slot])
                   [] At.op \in {"set_local", "drop"} -> PopN(1)
  /\ frame' = IF At.op = "set_local" THEN [frame EXCEPT ![Slot] = Top] ELSE frame

(* The blocks and the loop are entered with an empty operand stack, to     *)
(* which a taken branch goes back.                                         *)
TakeBranchData ==
  /\ TakeBranch \/ SelectBranch
  /\ At.op = "br_if" => Top # 0
  /\ operands' = <<>>
  /\ UNCHANGED frame

SkipBranchData ==
  /\ SkipBranch
  /\ Top = 0
  /\ operands' = PopN(1)
  /\ UNCHANGED frame

TrapData ==
  /\ Trap
  /\ Top = 0
  /\ UNCHANGED <<operands, frame>>

OtherData ==
  /\ Enter \/ Leave \/ Return
  /\ UNCHANGED <<operands, frame>>

CallData ==
  /\ Call
  /\ Validates(result, Arity)
  /\ UNCHANGED <<compilerVars, dataVars>>

(* Keeps seen: the engine leaves a CIL instruction when control leaves its *)
(* code or the call ends.                                                  *)
Place == [status |-> status, at |-> Reached]
KeepSeen == seen' = IF Place' # Place THEN Snapshot' ELSE seen

EngineData ==
  /\ ComputeData \/ TakeBranchData \/ SkipBranchData \/ TrapData \/ OtherData
  /\ UNCHANGED <<compilerVars, arguments>>

NextData ==
  \/ Compile /\ UNCHANGED <<engineVars, dataVars>>
  \/ CallData
  \/ EngineData /\ KeepSeen

DataSpec ==
  /\ Init /\ EngineInit /\ DataInit
  /\ [][NextData]_allVars
  /\ WF_allVars(Compile /\ UNCHANGED <<engineVars, dataVars>>)
  /\ WF_<<vars, operands, frame>>(EngineData)
-----------------------------------------------------------------------------
Machine ==
  INSTANCE CilMachine WITH
    Calls <- {[body |-> m.code, hasThis |-> m.hasThis, args |-> a] : m \in Methods, a \in Arguments},
    call <- [body |-> Code, hasThis |-> method.hasThis, args |-> arguments],
    pc <- seen.pc,
    stack <- seen.operands,
    args <- [i \in DOMAIN arguments |-> seen.frame[<<"arg", i>>]],
    locals <- [i \in 0 .. 3 |-> seen.frame[<<"loc", i>>]]

(* "At runtime we can match it up with the AoT equivalent": the compiled   *)
(* function does to its stack, arguments and locals what the CIL body      *)
(* does, one CIL instruction after another, and returns the same value.    *)
EquivalentToCil == Machine!Spec

(* The engine never gets stuck in the code of one CIL instruction nor in   *)
(* the head of the function: it finishes the instruction and goes on, but  *)
(* for a branch to itself.                                                 *)
Positions == UNION {DOMAIN m.code : m \in Methods}
SelfBranch(i) == Code[i].op = "Br_S" /\ Active(Code, Code[i].targets[1]) = i

EveryInstructionFinishes ==
  \A i \in Positions : (Running /\ seen.pc = i) ~> (seen.pc # i \/ SelfBranch(i))
=============================================================================
