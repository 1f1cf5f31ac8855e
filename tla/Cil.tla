-------------------------------- MODULE Cil --------------------------------
(***************************************************************************)
(* A .NET method body as the compiler reads it through Mono.Cecil: a       *)
(* sequence of instructions, each with an opcode (named as in              *)
(* Mono.Cecil.Cil.Code), an operand and, for branches, the instructions it *)
(* may jump to.  An instruction is named by its position in the body; byte *)
(* offsets grow with the position and the compiler only compares them, so  *)
(* the position also stands for Instruction.Offset.                        *)
(*                                                                         *)
(* The short forms that differ only by an operand built into the opcode    *)
(* are one opcode here: Ldarg_0..2 are Ldarg with n = 0..2, Ldc_I4_0..8,   *)
(* Ldc_I4_M1, Ldc_I4_S and Ldc_I4 are Ldc_I4, Ldloc_0..3 and Ldloc_S are   *)
(* Ldloc, Stloc_0..3 and Stloc_S are Stloc, Starg_S is Starg.              *)
(***************************************************************************)
EXTENDS Integers, Sequences

(* n is the operand (a constant, the index of a local, an argument, a      *)
(* field, a callee or a type), params the callee's number of parameters    *)
(* (Newobj replays that many).                                             *)
CilInstr == [op : STRING, n : Int, params : Nat, targets : Seq(Nat)]

Ins(op)          == [op |-> op, n |-> 0, params |-> 0, targets |-> <<>>]
InsN(op, n)      == [op |-> op, n |-> n, params |-> 0, targets |-> <<>>]
Jump(op, t)      == [op |-> op, n |-> 0, params |-> 0, targets |-> <<t>>]
SwitchTo(ts)     == [op |-> "Switch", n |-> 0, params |-> 0, targets |-> ts]
NewObject(ctor, k) == [op |-> "Newobj", n |-> ctor, params |-> k, targets |-> <<>>]

(* Opcodes with exactly one jump target, in CIL. *)
UnconditionalBranches == {"Br", "Br_S"}
ConditionalBranches ==
  {"Brfalse", "Brfalse_S", "Brtrue", "Brtrue_S", "Beq", "Beq_S", "Bgt", "Bgt_S",
   "Blt", "Blt_S", "Bge", "Bge_S", "Ble", "Ble_S"}
Branches == UnconditionalBranches \cup ConditionalBranches

(* What every body the C# compiler emits satisfies: branches carry one     *)
(* target, a switch any number, nothing else has one; a target is an       *)
(* instruction of the body; control never runs off the end.                *)
LastOps == UnconditionalBranches \cup {"Ret", "Throw"}

WellFormedBody(code) ==
  /\ code \in Seq(CilInstr)
  /\ \A i \in DOMAIN code :
       /\ code[i].op \in Branches => Len(code[i].targets) = 1
       /\ code[i].op \notin Branches \cup {"Switch"} => code[i].targets = <<>>
       /\ \A j \in DOMAIN code[i].targets : code[i].targets[j] \in DOMAIN code
  /\ code # <<>> => code[Len(code)].op \in LastOps

(* The first instruction from position i on that does something.           *)
Active(code, i) ==
  CHOOSE j \in i .. Len(code) :
    /\ code[j].op # "Nop"
    /\ \A k \in i .. j - 1 : code[k].op = "Nop"
============================================================================
