------------------------- MODULE MethodBodyCompiler -------------------------
(***************************************************************************)
(* MethodBodyCompiler.Compile: one pass over a CIL body that turns its     *)
(* arbitrary jumps into WebAssembly's structured control flow.  A function *)
(* is one loop holding a block per jump target, opened up front (the block *)
(* of the first target innermost) and closed just before its target, so a  *)
(* forward jump leaves the block of its target.  A backward jump stores    *)
(* the target's number in the local "jumpTarget" and restarts the loop,    *)
(* where a br_table leaves the block of that target.                       *)
(*                                                                         *)
(* The body to compile is chosen in the initial state.  One action stands  *)
(* for one iteration of the loops of the code; what a step adds to result  *)
(* is in the order in which the List sees it, getBreakDepth's own result.  *)
(* Add calls included.                                                     *)
(***************************************************************************)
EXTENDS FlowAnalysis, Wasm

CONSTANT Methods      (* the methods a behaviour may compile               *)

(* A method is its body (empty when HasBody is false) and whether its      *)
(* result type is a WebAssembly type.                                      *)
ASSUME MethodsAssumption ==
  \A m \in Methods : WellFormedBody(m.code) /\ m.returns \in BOOLEAN

VARIABLES
  method,               (* the method being compiled                        *)
  jumpTargets,          (* FlowAnalysis.JumpTargetOffsets                   *)
  phase,                (* where Compile is                                 *)
  il,                   (* position of the CIL instruction to compile next  *)
  item,                 (* number of the switch target to compile next      *)
  nextJumpTargetIndex,  (* how many targets have had their block closed     *)
  result,               (* the WebAssembly code so far                      *)
  start,                (* history: where the code of each instruction is   *)
  jumps                 (* history: the emitted branches and their targets  *)

compilerVars ==
  <<method, jumpTargets, phase, il, item, nextJumpTargetIndex, result, start, jumps>>

Code == method.code
-----------------------------------------------------------------------------
(* CompileInstruction for the opcodes that do not branch.                  *)

MonoObjectHeaderLength == 8

(* GetFieldOffset for a class without explicit layout: GetTypeStackSize    *)
(* says 4 bytes for every field.                                           *)
GetFieldOffset(fieldIndex) == MonoObjectHeaderLength + 4 * fieldIndex

SimpleOps ==
  [Add |-> "i32.add", Sub |-> "i32.sub", Mul |-> "i32.mul", Rem |-> "i32.rem_s",
   Ceq |-> "i32.eq", Clt |-> "i32.lt_s", Cgt |-> "i32.gt_s",
   Pop |-> "drop", CallObjectCtor |-> "drop", Ret |-> "return"]

(* Newobj parks the constructor's arguments in locals, allocates the       *)
(* object, then replays the arguments behind its address.  Function 0 is   *)
(* the import mono_wasm_object_new.                                        *)
CompileNewobj(ins) ==
  [k \in 1 .. ins.params |-> SetLocal("ctorparam", ins.params - k)]
    \o <<WN("get_global", ins.n), WN("call", 0), SetLocal("newObjectAddr", 0),
         GetLocal("newObjectAddr", 0)>>
    \o [k \in 1 .. ins.params |-> GetLocal("ctorparam", k - 1)]
    \o <<WN("call", ins.n), GetLocal("newObjectAddr", 0)>>

StraightOps ==
  DOMAIN SimpleOps \cup
  {"Call", "Callvirt", "Dup", "Ldarg", "Ldfld", "Ldloc", "Ldc_I4", "Newobj", "Neg",
   "Starg", "Stfld", "Stloc", "Nop"}

CompileStraight(ins) ==
  CASE ins.op \in DOMAIN SimpleOps -> <<W(SimpleOps[ins.op])>>
    [] ins.op \in {"Call", "Callvirt"} -> <<WN("call", ins.n)>>
    [] ins.op = "Dup"    -> <<SetLocal("dupTemp", 0), GetLocal("dupTemp", 0), GetLocal("dupTemp", 0)>>
    [] ins.op = "Ldarg"  -> <<GetLocal("arg", ins.n)>>
    [] ins.op = "Ldfld"  -> <<WN("i32.load", GetFieldOffset(ins.n))>>
    [] ins.op = "Ldloc"  -> <<GetLocal("loc", ins.n)>>
    [] ins.op = "Ldc_I4" -> <<Const(ins.n)>>
    [] ins.op = "Newobj" -> CompileNewobj(ins)
    [] ins.op = "Neg"    -> <<Const(-1), W("i32.mul")>>
    [] ins.op = "Starg"  -> <<SetLocal("arg", ins.n)>>
    [] ins.op = "Stfld"  -> <<WN("i32.store", GetFieldOffset(ins.n))>>
    [] ins.op = "Stloc"  -> <<SetLocal("loc", ins.n)>>
    [] ins.op = "Nop"    -> <<>>

(* Mutant: less for less or equal.                                         *)
BranchTestsConfused ==
  [Br_S      |-> <<>>,
   Brtrue_S  |-> <<>>,
   Brfalse_S |-> <<Const(1), W("i32.sub")>>,
   Beq_S     |-> <<W("i32.eq")>>,
   Bgt_S     |-> <<W("i32.gt_s")>>,
   Blt_S     |-> <<W("i32.lt_s")>>,
   Ble_S     |-> <<W("i32.lt_s")>>]

(* The branches CompileInstruction supports and the test each one puts in  *)
(* front of its br or br_if.                                               *)
BranchTests ==
  [Br_S      |-> <<>>,
   Brtrue_S  |-> <<>>,
   Brfalse_S |-> <<Const(1), W("i32.sub")>>,
   Beq_S     |-> <<W("i32.eq")>>,
   Bgt_S     |-> <<W("i32.gt_s")>>,
   Blt_S     |-> <<W("i32.lt_s")>>,
   Ble_S     |-> <<W("i32.le_s")>>]

(* Mutant: an unconditional jump compiled like the others.                 *)
BranchOpAlwaysConditional(op) == "br_if"

BranchOp(op) == IF op = "Br_S" THEN "br" ELSE "br_if"
-----------------------------------------------------------------------------
(* The local function getBreakDepth.  It throws "No available jump target" *)
(* for an instruction FlowAnalysis has not listed.                         *)
IsJumpTarget(t) == \E k \in DOMAIN jumpTargets : jumpTargets[k] = t

TargetIndex(t) == (CHOOSE k \in DOMAIN jumpTargets : jumpTargets[k] = t) - 1

(* A jump to t, emitted when the blocks of `closed` targets are closed:    *)
(* what getBreakDepth itself adds to result, and the depth it returns.     *)
IsForward(t, closed) == TargetIndex(t) >= closed

(* Mutants: the number of the label counted from 2; from 0.                *)
JumpSetupOneTooFar(t, closed) ==
  IF IsForward(t, closed)
  THEN <<>>
  ELSE <<Const(TargetIndex(t) + 2), SetLocal("jumpTarget", 0)>>

JumpSetupOneTooNear(t, closed) ==
  IF IsForward(t, closed)
  THEN <<>>
  ELSE <<Const(TargetIndex(t)), SetLocal("jumpTarget", 0)>>

JumpSetup(t, closed) ==
  IF IsForward(t, closed)
  THEN <<>>
  ELSE <<Const(TargetIndex(t) + 1), SetLocal("jumpTarget", 0)>>

(* Mutant: one block more is left.                                         *)
BreakDepthOneTooFar(t, closed) ==
  IF IsForward(t, closed) THEN TargetIndex(t) - closed + 1 ELSE Len(jumpTargets) - closed

BreakDepth(t, closed) ==
  IF IsForward(t, closed)
  THEN TargetIndex(t) - closed
  ELSE Len(jumpTargets) - closed
-----------------------------------------------------------------------------
Init ==
  /\ method \in Methods
  /\ jumpTargets = JumpTargetOffsets(method.code)
  /\ phase = "open"
  /\ il = 1
  /\ item = 0
  /\ nextJumpTargetIndex = 0
  /\ result = <<>>
  /\ start = <<>>
  /\ jumps = {}

(* Mutant: a table without the block its first label leaves.               *)
JumpTableWithoutBlock(n) ==
  IF n = 0 THEN <<>> ELSE <<GetLocal("jumpTarget", 0), WN("br_table", n)>>

(* The loop, the nested blocks and, when there are targets, the jump table *)
(* for backward jumps; or the lone end of a method without body.           *)
JumpTable(n) ==
  IF n = 0
  THEN <<>>
  ELSE <<W("block"), GetLocal("jumpTarget", 0), WN("br_table", n), W("end")>>

Prologue(n) == <<W("loop")>> \o [k \in 1 .. n |-> W("block")] \o JumpTable(n)

OpenBlocks ==
  /\ phase = "open"
  /\ IF Code = <<>>
     THEN /\ result' = <<W("end")>>
          /\ phase' = "done"
     ELSE /\ result' = Prologue(Len(jumpTargets))
          /\ phase' = "body"
  /\ UNCHANGED <<method, jumpTargets, il, item, nextJumpTargetIndex, start, jumps>>

(* Mutant: the last target is never taken off the list.                    *)
AtTargetForEver ==
  /\ jumpTargets # <<>>
  /\ il >= jumpTargets[IF nextJumpTargetIndex < Len(jumpTargets) THEN nextJumpTargetIndex + 1 ELSE Len(jumpTargets)]

(* The head of the foreach: reaching the next target closes its block.     *)
AtTarget ==
  /\ nextJumpTargetIndex < Len(jumpTargets)
  /\ il >= jumpTargets[nextJumpTargetIndex + 1]

ClosedHere == IF AtTarget THEN nextJumpTargetIndex + 1 ELSE nextJumpTargetIndex
ClosingEnd == IF AtTarget THEN <<W("end")>> ELSE <<>>

BeginInstruction(code) ==
  /\ result' = result \o ClosingEnd \o code
  /\ start' = Append(start, Len(result) + Len(ClosingEnd) + 1)
  /\ nextJumpTargetIndex' = ClosedHere

InBody == phase = "body" /\ il <= Len(Code)

CompileStraightInstruction ==
  /\ InBody
  /\ Code[il].op \in StraightOps
  /\ BeginInstruction(CompileStraight(Code[il]))
  /\ il' = il + 1
  /\ UNCHANGED <<method, jumpTargets, phase, item, jumps>>

CompileBranch ==
  /\ InBody
  /\ Code[il].op \in DOMAIN BranchTests
  /\ IsJumpTarget(Code[il].targets[1])
  /\ LET t    == Code[il].targets[1]
         code == JumpSetup(t, ClosedHere) \o BranchTests[Code[il].op]
                   \o <<WN(BranchOp(Code[il].op), BreakDepth(t, ClosedHere))>>
     IN  /\ BeginInstruction(code)
         /\ jumps' = jumps \cup {[at |-> Len(result) + Len(ClosingEnd) + Len(code), from |-> il, to |-> t]}
  /\ il' = il + 1
  /\ UNCHANGED <<method, jumpTargets, phase, item>>

(* Switch keeps the value in a local, then compares it with the number of  *)
(* each target in turn.                                                    *)
BeginSwitch ==
  /\ InBody
  /\ Code[il].op = "Switch"
  /\ BeginInstruction(<<SetLocal("switchValue", 0)>>)
  /\ phase' = "switch"
  /\ item' = 0
  /\ UNCHANGED <<method, jumpTargets, il, jumps>>

CompileSwitchItem ==
  /\ phase = "switch"
  /\ item < Len(Code[il].targets)
  /\ IsJumpTarget(Code[il].targets[item + 1])
  /\ LET t    == Code[il].targets[item + 1]
         code == <<GetLocal("switchValue", 0), Const(item), W("i32.eq")>>
                   \o JumpSetup(t, nextJumpTargetIndex)
                   \o <<WN("br_if", BreakDepth(t, nextJumpTargetIndex))>>
     IN  /\ result' = result \o code
         /\ jumps' = jumps \cup {[at |-> Len(result) + Len(code), from |-> il, to |-> t]}
  /\ item' = item + 1
  /\ UNCHANGED <<method, jumpTargets, phase, il, nextJumpTargetIndex, start>>

EndSwitch ==
  /\ phase = "switch"
  /\ item = Len(Code[il].targets)
  /\ phase' = "body"
  /\ il' = il + 1
  /\ UNCHANGED <<method, jumpTargets, item, nextJumpTargetIndex, result, start, jumps>>

SupportedOps == StraightOps \cup DOMAIN BranchTests \cup {"Switch"}

(* CompileInstruction throws for an opcode it does not know, and           *)
(* getBreakDepth for the target of a branch or of a switch item.           *)
CannotCompile ==
  IF phase = "switch"
  THEN item < Len(Code[il].targets) /\ ~IsJumpTarget(Code[il].targets[item + 1])
  ELSE /\ InBody
       /\ \/ Code[il].op \notin SupportedOps
          \/ Code[il].op \in DOMAIN BranchTests /\ ~IsJumpTarget(Code[il].targets[1])

(* The exception leaves Compile and result is lost.                        *)
RejectInstruction ==
  /\ CannotCompile
  /\ phase' = "failed"
  /\ UNCHANGED <<method, jumpTargets, il, item, nextJumpTargetIndex, result, start, jumps>>

(* Mutants: the loop stays open; no fake return value.                     *)
EpilogueLeavesLoopOpen(open, returns) ==
  [k \in 1 .. open |-> W("end")] \o (IF returns THEN <<Const(-1)>> ELSE <<>>) \o <<W("end")>>

EpilogueWithoutFakeReturn(open, returns) ==
  [k \in 1 .. open |-> W("end")] \o <<W("end"), W("end")>>

(* The ends of blocks still open, of the loop, the fake return value and   *)
(* the end of the function.                                                *)
Epilogue(open, returns) ==
  [k \in 1 .. open |-> W("end")] \o <<W("end")>>
    \o (IF returns THEN <<Const(-1)>> ELSE <<>>) \o <<W("end")>>

CloseBlocks ==
  /\ phase = "body"
  /\ il > Len(Code)
  /\ result' = result \o Epilogue(Len(jumpTargets) - nextJumpTargetIndex, method.returns)
  /\ nextJumpTargetIndex' = Len(jumpTargets)
  /\ phase' = "done"
  /\ UNCHANGED <<method, jumpTargets, il, item, start, jumps>>

Compile ==
  \/ OpenBlocks
  \/ CompileStraightInstruction
  \/ CompileBranch
  \/ BeginSwitch
  \/ CompileSwitchItem
  \/ EndSwitch
  \/ RejectInstruction
  \/ CloseBlocks

CompilerSpec == Init /\ [][Compile]_compilerVars
-----------------------------------------------------------------------------
(* Each part of the state has its type in every phase of Compile; the      *)
(* blocks closed so far are those of the targets passed.                   *)
TypeOK ==
  /\ method \in Methods
  /\ jumpTargets \in Seq(1 .. Len(Code))
  /\ phase \in {"open", "body", "switch", "done", "failed"}
  /\ il \in 1 .. Len(Code) + 1
  /\ phase = "switch" => il <= Len(Code) /\ item \in 0 .. Len(Code[il].targets)
  /\ item \in Nat
  /\ nextJumpTargetIndex \in 0 .. Len(jumpTargets)
  /\ result \in Seq(WasmInstr)
  /\ start \in Seq(Nat)
  /\ jumps \subseteq [at : Nat, from : Nat, to : Nat]

(* Every block and loop the compiler opens is closed, none is closed       *)
(* twice, and exactly one more end, the last instruction, closes the       *)
(* function, whatever the order in which the targets are passed.           *)
BlocksBalanced ==
  phase = "done" =>
    /\ \A p \in 0 .. Len(result) - 1 : Nesting(result, p) >= 0
    /\ Nesting(result, Len(result)) = -1

(* What a taken branch to instruction t relies on when it leaves through   *)
(* the label with depth d seen at p: a block that ends right before the    *)
(* code of t.                                                              *)
LeavesBefore(p, d, t) ==
  \E m \in 1 .. p - 1 :
    /\ result[m].op = "block"
    /\ Encloses(result, m, p, d)
    /\ ClosedBy(result, m, start[t] - 1)

(* A backward branch restarts the loop at the head of the function with    *)
(* the number of the target in jumpTarget, for which the jump table has a  *)
(* label that leads to the target.                                         *)
TablePosition == Len(jumpTargets) + 4

RestartsFor(j) ==
  /\ Encloses(result, 1, j.at, result[j.at].n)
  /\ result[1].op = "loop"
  /\ \E k \in 1 .. result[TablePosition].n, s \in start[j.from] + 1 .. j.at - 1 :
       /\ result[s - 1] = Const(k)
       /\ result[s] = SetLocal("jumpTarget", 0)
       /\ \A r \in s + 1 .. j.at : result[r].op # "set_local"
       /\ LeavesBefore(TablePosition, k, j.to)

(* Every branch in the compiled code, forward or backward, taken on any    *)
(* depth of open blocks, continues at the code of the CIL instruction the  *)
(* branch names: the relative depths getBreakDepth computes while blocks   *)
(* are being closed, and the numbers it stores, are those of the target.   *)
BranchesLand ==
  phase = "done" =>
    \A j \in jumps : LeavesBefore(j.at, result[j.at].n, j.to) \/ RestartsFor(j)

(* Two classes decide which opcodes jump: FlowAnalysis, which lists the    *)
(* targets before the compilation, and CompileInstruction, which compiles  *)
(* the jumps and knows fewer of them.  A compilation fails only for an     *)
(* opcode CompileInstruction does not know, never because a jump it does   *)
(* know has a target that was not listed; and code that is complete has    *)
(* every instruction of the body and a branch for every jump of each.      *)
FailsOnlyForUnknownOpcode ==
  /\ phase = "failed" => \E i \in DOMAIN Code : Code[i].op \notin SupportedOps
  /\ phase = "done" =>
       \A i \in DOMAIN Code :
         /\ Code[i].op \in SupportedOps /\ i \in DOMAIN start
         /\ \A k \in DOMAIN Code[i].targets :
              \E j \in jumps : j.from = i /\ j.to = Code[i].targets[k]
=============================================================================
