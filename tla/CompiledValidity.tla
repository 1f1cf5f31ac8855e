-------------------------- MODULE CompiledValidity --------------------------
(***************************************************************************)
(* Whether the functions MethodBodyCompiler emits pass the engine's        *)
(* validation, depending on what the CIL body keeps on its evaluation      *)
(* stack across its branches.                                              *)
(***************************************************************************)
EXTENDS MethodBodyCompiler, WasmValidation

CONSTANT MaxHeight    (* the highest evaluation stack of a CIL body        *)

ASSUME MaxHeightAssumption == MaxHeight \in Nat

(* What the called functions take and give: mono_wasm_object_new, the      *)
(* import with index 0, takes a class and gives an address, a constructor  *)
(* takes the address of the object before its parameters.                  *)
ASSUME SignaturesAssumption ==
  /\ Signatures[0] = [takes |-> 1, gives |-> 1]
  /\ \A m \in Methods : \A i \in DOMAIN m.code :
       LET ins == m.code[i]
       IN  /\ ins.op \in {"Call", "Callvirt"} => Signatures[ins.n] \in [takes : Nat, gives : Nat]
           /\ ins.op = "Newobj" => Signatures[ins.n] = [takes |-> ins.params + 1, gives |-> 0]

Arity == IF method.returns THEN 1 ELSE 0

(* What a CIL instruction takes from and gives to the evaluation stack.    *)
CilTakes(ins) ==
  CASE ins.op \in {"Add", "Sub", "Mul", "Rem", "Ceq", "Clt", "Cgt", "Stfld",
                   "Beq_S", "Bgt_S", "Blt_S", "Ble_S"} -> 2
    [] ins.op \in {"Dup", "Pop", "Neg", "Starg", "Stloc", "Ldfld", "CallObjectCtor",
                   "Brtrue_S", "Brfalse_S", "Switch"} -> 1
    [] ins.op \in {"Call", "Callvirt"} -> Signatures[ins.n].takes
    [] ins.op = "Newobj" -> ins.params
    [] ins.op = "Ret" -> Arity
    [] OTHER -> 0

CilGives(ins) ==
  CASE ins.op = "Dup" -> 2
    [] ins.op \in {"Add", "Sub", "Mul", "Rem", "Ceq", "Clt", "Cgt", "Neg", "Ldfld",
                   "Ldarg", "Ldloc", "Ldc_I4", "Newobj"} -> 1
    [] ins.op \in {"Call", "Callvirt"} -> Signatures[ins.n].gives
    [] OTHER -> 0

Successors(i) ==
  TryGetJumpTarget(Code[i])
    \cup (IF Code[i].op \in UnconditionalBranches \cup {"Ret"} THEN {} ELSE {i + 1})

(* The heights of the evaluation stack before each instruction that fit    *)
(* together: what makes a body verifiable.                                 *)
Heights ==
  {h \in [DOMAIN Code -> 0 .. MaxHeight] :
     /\ h[1] = 0
     /\ \A i \in DOMAIN Code :
          /\ h[i] >= CilTakes(Code[i])
          /\ Code[i].op = "Ret" => h[i] = Arity
          /\ \A s \in Successors(i) : h[s] = h[i] - CilTakes(Code[i]) + CilGives(Code[i])}

EmptyAtTargets(h) == \A t \in SortedOffsets(Code) : h[t] = 0

(* A verifiable body whose evaluation stack is empty wherever a branch     *)
(* arrives compiles to a valid function: the blocks the compiler opens and *)
(* closes, none of which carries a value, and the value added behind the   *)
(* loop never upset the operand stack, in reachable or unreachable code.   *)
StatementsValidate ==
  phase = "done" /\ Code # <<>> /\ (\E h \in Heights : EmptyAtTargets(h))
    => Validates(result, Arity)

(* What the comment on the fake return value wants of every method that    *)
(* has a body: that the engine's static analyzer accepts the function.     *)
EveryVerifiableBodyValidates ==
  phase = "done" /\ Code # <<>> /\ Heights # {} => Validates(result, Arity)
=============================================================================
