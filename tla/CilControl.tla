----------------------------- MODULE CilControl -----------------------------
(***************************************************************************)
(* What the .NET runtime promises about the flow of control through a CIL  *)
(* body, whatever the values on its stack: the abstract specification the  *)
(* compiled code has to implement.                                         *)
(*                                                                         *)
(* pc is the next instruction that does something (a Nop is skipped with   *)
(* the step that leads to it), 0 after a return, -1 after an exception.    *)
(***************************************************************************)
EXTENDS Cil

CONSTANT Bodies

VARIABLES body, pc

Begin(code) == IF code = <<>> THEN 0 ELSE Active(code, 1)

Init == body \in Bodies /\ pc = Begin(body)

(* The opcodes of the compiler's repertoire that can raise an exception.    *)
MayThrow == {"Rem", "Call", "Callvirt", "Newobj", "Ldfld", "Stfld"}

Op == body[pc].op
Goto(i) == pc' = Active(body, i) /\ UNCHANGED body
ToTarget == \E j \in DOMAIN body[pc].targets : Goto(body[pc].targets[j])

Return      == pc > 0 /\ Op = "Ret" /\ pc' = 0 /\ UNCHANGED body
Branch      == pc > 0 /\ Op \in Branches \cup {"Switch"} /\ ToTarget
FallThrough == pc > 0 /\ Op \notin UnconditionalBranches \cup {"Ret"} /\ Goto(pc + 1)
Throw       == pc > 0 /\ Op \in MayThrow /\ pc' = -1 /\ UNCHANGED body

Next == Return \/ Branch \/ FallThrough \/ Throw

Spec == Init /\ [][Next]_<<body, pc>>
=============================================================================
