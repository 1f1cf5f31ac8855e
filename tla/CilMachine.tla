----------------------------- MODULE CilMachine -----------------------------
(***************************************************************************)
(* What the .NET runtime promises about a call of a method: the evaluation *)
(* stack, the arguments and the local variables after each CIL             *)
(* instruction, for the instructions that stay within the method.          *)
(***************************************************************************)
EXTENDS Cil, Int32

CONSTANT Calls   (* the calls a behaviour may make: [body, hasThis, args]   *)

VARIABLES
  call,     (* the call being made                                          *)
  pc,       (* next instruction that does something, 0 or -1 at the end     *)
  stack,    (* evaluation stack, top last                                   *)
  args,     (* argument slots; slot 0 is "this" in an instance method       *)
  locals    (* local variables                                              *)

LocalIndices == 0 .. 3

Init ==
  /\ call \in Calls
  /\ pc = Active(call.body, 1)
  /\ stack = <<>>
  /\ args = call.args
  /\ locals = [i \in LocalIndices |-> 0]

Ins1 == call.body[pc]
Running == pc > 0
Drop(k) == SubSeq(stack, 1, Len(stack) - k)
Top     == stack[Len(stack)]
Under   == stack[Len(stack) - 1]
Goto(i) == pc' = Active(call.body, i) /\ UNCHANGED call
Push(s, v) == stack' = Append(s, v) /\ UNCHANGED <<args, locals>> /\ Goto(pc + 1)

(* Loads and stores.  The operand of Starg is a ParameterDefinition, whose *)
(* index leaves "this" out, that of Ldarg is the slot.                     *)
ArgumentSlot(n) == IF call.hasThis THEN n + 1 ELSE n

Load ==
  \/ Ins1.op = "Ldc_I4" /\ Push(stack, Ins1.n)
  \/ Ins1.op = "Ldarg"  /\ Push(stack, args[Ins1.n])
  \/ Ins1.op = "Ldloc"  /\ Push(stack, locals[Ins1.n])
  \/ Ins1.op = "Dup"    /\ Push(stack, Top)

Store ==
  /\ \/ Ins1.op = "Starg" /\ args' = [args EXCEPT ![ArgumentSlot(Ins1.n)] = Top] /\ UNCHANGED locals
     \/ Ins1.op = "Stloc" /\ locals' = [locals EXCEPT ![Ins1.n] = Top] /\ UNCHANGED args
     \/ Ins1.op \in {"Pop", "CallObjectCtor"} /\ UNCHANGED <<args, locals>>
  /\ stack' = Drop(1)
  /\ Goto(pc + 1)

Arithmetic ==
  \/ Ins1.op = "Add" /\ Push(Drop(2), Wrap(Under + Top))
  \/ Ins1.op = "Sub" /\ Push(Drop(2), Wrap(Under - Top))
  \/ Ins1.op = "Mul" /\ Push(Drop(2), Wrap(Under * Top))
  \/ Ins1.op = "Ceq" /\ Push(Drop(2), FromBool(Under = Top))
  \/ Ins1.op = "Clt" /\ Push(Drop(2), FromBool(Under < Top))
  \/ Ins1.op = "Cgt" /\ Push(Drop(2), FromBool(Under > Top))
  \/ Ins1.op = "Rem" /\ Top # 0 /\ Push(Drop(2), Remainder(Under, Top))
  \/ Ins1.op = "Neg" /\ Push(Drop(1), Wrap(-Top))

(* Division by zero throws; for the least integer and -1 a runtime may.    *)
Throw ==
  /\ Ins1.op = "Rem"
  /\ Top = 0 \/ (Top = -1 /\ Under = MinInt)
  /\ pc' = -1
  /\ UNCHANGED <<call, stack, args, locals>>

Taken ==
  CASE Ins1.op \in UnconditionalBranches -> TRUE
    [] Ins1.op \in {"Brtrue", "Brtrue_S"}   -> Top # 0
    [] Ins1.op \in {"Brfalse", "Brfalse_S"} -> Top = 0
    [] Ins1.op \in {"Beq", "Beq_S"} -> Under = Top
    [] Ins1.op \in {"Bgt", "Bgt_S"} -> Under > Top
    [] Ins1.op \in {"Blt", "Blt_S"} -> Under < Top
    [] Ins1.op \in {"Bge", "Bge_S"} -> Under >= Top
    [] Ins1.op \in {"Ble", "Ble_S"} -> Under <= Top

Consumed ==
  CASE Ins1.op \in UnconditionalBranches -> 0
    [] Ins1.op \in {"Brtrue", "Brtrue_S", "Brfalse", "Brfalse_S"} -> 1
    [] OTHER -> 2

Branch ==
  /\ Ins1.op \in Branches
  /\ stack' = Drop(Consumed)
  /\ Goto(IF Taken THEN Ins1.targets[1] ELSE pc + 1)
  /\ UNCHANGED <<args, locals>>

Switch ==
  /\ Ins1.op = "Switch"
  /\ stack' = Drop(1)
  /\ Goto(IF Top \in 0 .. Len(Ins1.targets) - 1 THEN Ins1.targets[Top + 1] ELSE pc + 1)
  /\ UNCHANGED <<args, locals>>

(* The evaluation stack then holds the return value, if there is one.      *)
Return ==
  /\ Ins1.op = "Ret"
  /\ pc' = 0
  /\ UNCHANGED <<call, stack, args, locals>>

Next ==
  /\ Running
  /\ Load \/ Store \/ Arithmetic \/ Throw \/ Branch \/ Switch \/ Return

vars == <<call, pc, stack, args, locals>>
Spec == Init /\ [][Next]_vars
=============================================================================
