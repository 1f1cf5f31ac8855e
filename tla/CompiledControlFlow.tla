------------------------ MODULE CompiledControlFlow -------------------------
(***************************************************************************)
(* A method is compiled, then called: the WebAssembly engine runs what     *)
(* MethodBodyCompiler left in result.  The values the code computes are    *)
(* abstracted: a br_if may or may not be taken.  The exceptions are those  *)
(* the generated control flow itself depends on, the local "jumpTarget"    *)
(* and the constant last pushed for it.                                    *)
(*                                                                         *)
(* The run of the compiled code is shown to implement the run of the CIL   *)
(* body, CilControl.                                                       *)
(***************************************************************************)
EXTENDS MethodBodyCompiler

VARIABLES
  status,       (* "idle" before the call, "running", "returned", "trapped" *)
  ip,           (* position in result of the next instruction to execute    *)
  labels,       (* positions of the blocks and loops entered, outermost first *)
  top,          (* what is on the operand stack: <<k>> when it is the value *)
                (* k of a constant or of jumpTarget, <<>> when it is data   *)
  jumpTarget    (* the value of the local                                   *)

engineVars == <<status, ip, labels, top, jumpTarget>>
vars == <<compilerVars, engineVars>>

At == result[ip]
Running == status = "running"
-----------------------------------------------------------------------------
(* A branch to the label with relative depth d.  A loop stays open, a      *)
(* block is left; the label around them all is the function's own.         *)
BranchTo(d) ==
  IF d = Len(labels)
  THEN status' = "returned" /\ UNCHANGED <<ip, labels>>
  ELSE LET m == labels[Len(labels) - d]
           left == IF result[m].op = "loop" THEN d ELSE d + 1
       IN  /\ ip' = IF result[m].op = "loop"
                    THEN m + 1
                    ELSE 1 + CHOOSE q \in m + 1 .. Len(result) : ClosedBy(result, m, q)
           /\ labels' = SubSeq(labels, 1, Len(labels) - left)
           /\ UNCHANGED status

Advance == ip' = ip + 1 /\ UNCHANGED status

EngineInit ==
  /\ status = "idle"
  /\ ip = 1
  /\ labels = <<>>
  /\ top = <<>>
  /\ jumpTarget = 0

(* A call of the compiled method; locals start at 0.                       *)
Call ==
  /\ phase = "done"
  /\ Code # <<>>
  /\ status = "idle"
  /\ status' = "running"
  /\ UNCHANGED <<ip, labels, top, jumpTarget>>

Enter ==
  /\ Running
  /\ At.op \in Openers
  /\ labels' = Append(labels, ip)
  /\ Advance
  /\ UNCHANGED <<top, jumpTarget>>

Leave ==
  /\ Running
  /\ At.op = "end"
  /\ IF labels = <<>>
     THEN status' = "returned" /\ UNCHANGED <<ip, labels>>
     ELSE labels' = SubSeq(labels, 1, Len(labels) - 1) /\ Advance
  /\ UNCHANGED <<top, jumpTarget>>

TakeBranch ==
  /\ Running
  /\ At.op \in BranchOps
  /\ BranchTo(At.n)
  /\ top' = <<>>
  /\ UNCHANGED jumpTarget

SkipBranch ==
  /\ Running
  /\ At.op = "br_if"
  /\ Advance
  /\ top' = <<>>
  /\ UNCHANGED <<labels, jumpTarget>>

(* br_table n is emitted with the labels 0 .. n-1 and the default n.       *)
SelectBranch ==
  /\ Running
  /\ At.op = "br_table"
  /\ BranchTo(IF top[1] < At.n THEN top[1] ELSE At.n)
  /\ top' = <<>>
  /\ UNCHANGED jumpTarget

StoreJumpTarget ==
  /\ Running
  /\ At = SetLocal("jumpTarget", 0)
  /\ jumpTarget' = top[1]
  /\ top' = <<>>
  /\ Advance
  /\ UNCHANGED labels

Return ==
  /\ Running
  /\ At.op = "return"
  /\ status' = "returned"
  /\ UNCHANGED <<ip, labels, top, jumpTarget>>

Compute ==
  /\ Running
  /\ At.op \notin Structural \cup BranchOps \cup {"br_table", "return"}
  /\ At # SetLocal("jumpTarget", 0)
  /\ top' = CASE At.op = "i32.const" -> <<At.n>>
              [] At = GetLocal("jumpTarget", 0) -> <<jumpTarget>>
              [] OTHER -> <<>>
  /\ Advance
  /\ UNCHANGED <<labels, jumpTarget>>

(* A division by zero, or a trap or JavaScript exception in a callee.      *)
Trap ==
  /\ Running
  /\ At.op \in {"i32.rem_s", "call"}
  /\ status' = "trapped"
  /\ UNCHANGED <<ip, labels, top, jumpTarget>>

Engine ==
  /\ \/ Enter \/ Leave \/ TakeBranch \/ SkipBranch \/ SelectBranch
     \/ StoreJumpTarget \/ Return \/ Compute \/ Trap
  /\ UNCHANGED compilerVars

Next ==
  \/ Compile /\ UNCHANGED engineVars
  \/ Call /\ UNCHANGED compilerVars
  \/ Engine

(* The engine runs a call to its end: a WebAssembly thread is never        *)
(* preempted for good.  The compiler is a program run to its end.  Nobody  *)
(* has to call the method.                                                 *)
Spec ==
  /\ Init /\ EngineInit
  /\ [][Next]_vars
  /\ WF_vars(Compile /\ UNCHANGED engineVars)
  /\ WF_vars(Engine)
-----------------------------------------------------------------------------
(* The CIL instruction the engine is at.  The end in front of a target's   *)
(* code belongs to the target.  In the loop, blocks and jump table at the  *)
(* head of the function it is on its way to the first instruction, or to   *)
(* the target of a backward jump.                                          *)
CodeOf(i) == IF \E k \in DOMAIN jumpTargets : jumpTargets[k] = i THEN start[i] - 1 ELSE start[i]
Reached == {i \in DOMAIN Code : CodeOf(i) <= ip}
InHead == Running /\ Reached = {}
HeadedFor == IF jumpTarget = 0 THEN 1 ELSE jumpTargets[jumpTarget]

Pc ==
  CASE status = "returned" \/ Code = <<>> -> 0
    [] status = "trapped" -> -1
    [] status = "idle" /\ Code # <<>> -> Active(Code, 1)
    [] InHead -> Active(Code, HeadedFor)
    [] Running /\ ~InHead -> Active(Code, CHOOSE i \in Reached : \A j \in Reached : j <= i)

CIL == INSTANCE CilControl WITH Bodies <- {m.code : m \in Methods}, body <- Code, pc <- Pc

(* The compiled code goes through the CIL instructions in an order the     *)
(* body allows: each taken branch arrives at its target and nowhere else,  *)
(* fall-through and the ends of blocks never skip or repeat an             *)
(* instruction, a switch tries its own targets, and only a ret returns.    *)
ImplementsCil == CIL!Spec

TypeOKEngine ==
  /\ status \in {"idle", "running", "returned", "trapped"}
  /\ ip \in Nat
  /\ labels \in Seq(Nat)
  /\ top \in Seq(Int) /\ Len(top) <= 1
  /\ jumpTarget \in 0 .. Len(jumpTargets)

(* "Although the control flow will never reach this": the fake return      *)
(* value behind the loop is never pushed and the call never ends by        *)
(* running off the end of the function.                                    *)
NeverReachesFakeReturn ==
  Running => ip < Len(result) - (IF method.returns THEN 1 ELSE 0)

(* A backward jump that restarted the loop comes out of the jump table at  *)
(* the target whose number it had stored.                                  *)
RestartReachesTarget == InHead ~> (Running /\ ip = start[HeadedFor])

(* Structured control flow adds no loop of its own: a body whose jumps all *)
(* go forward comes to its end.                                            *)
ForwardOnly == \A i \in DOMAIN Code, t \in SortedOffsets(Code) : t \in TryGetJumpTarget(Code[i]) => t > i

ForwardBodiesEnd ==
  (Running /\ ForwardOnly) ~> (status \in {"returned", "trapped"})
=============================================================================
