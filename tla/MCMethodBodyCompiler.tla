------------------------ MODULE MCMethodBodyCompiler ------------------------
(***************************************************************************)
(* Bodies to compile, enumerated: every well-formed body up to a length    *)
(* over an alphabet.  One alphabet keeps one opcode of each kind the       *)
(* control flow tells apart; another the kinds the evaluation stack does.  *)
(***************************************************************************)
EXTENDS CompiledValidity

(* 0 is mono_wasm_object_new, 1 Console.WriteLine(int), 2 a constructor    *)
(* with one parameter, 3 a function; 5, 6 and 7 are constructors with no,  *)
(* one and two parameters.                                                 *)
MCSignatures ==
  (0 :> [takes |-> 1, gives |-> 1]) @@ (1 :> [takes |-> 1, gives |-> 0])
    @@ (2 :> [takes |-> 2, gives |-> 0]) @@ (3 :> [takes |-> 0, gives |-> 1])
    @@ [n \in 5 .. 7 |-> [takes |-> n - 4, gives |-> 0]]

Straight      == {Ins("Add"), Ins("Nop"), Ins("Ret")}
Jumps(len, ops) == {Jump(op, t) : op \in ops, t \in 1 .. len}
Switches(len) == {SwitchTo(<<>>)} \cup {SwitchTo(<<t, u>>) : t, u \in 1 .. len}
LastOnes(len) == {Ins("Ret")} \cup Jumps(len, {"Br_S"})

BodiesOf(len, alphabet) ==
  {Append(body, last) : body \in [1 .. len - 1 -> alphabet], last \in LastOnes(len)}

(* All bodies of up to 3 instructions over an alphabet, and of 4 over      *)
(* jumps, returns and the straight instructions.                           *)
Control(len) ==
  Straight \cup Jumps(len, {"Br_S", "Brfalse_S", "Bge_S"}) \cup Switches(len)
Stack(len) ==
  {InsN("Ldc_I4", 1), Ins("Pop"), Ins("Ceq"), Ins("Dup"), Ins("Ret"), InsN("Call", 1),
   InsN("Callvirt", 3), NewObject(2, 1), InsN("Stfld", 0), InsN("Ldfld", 0), InsN("Stloc", 0)}
    \cup Jumps(len, {"Br_S", "Brfalse_S", "Beq_S"}) \cup {SwitchTo(<<t, 1>>) : t \in 1 .. len}

SmallBodies ==
  {<<>>} \cup UNION {BodiesOf(len, Control(len)) \cup BodiesOf(len, Stack(len)) : len \in 1 .. 3}
MediumBodies ==
  BodiesOf(4, Straight \cup Jumps(4, {"Br_S", "Brfalse_S"}))
    \cup BodiesOf(4, {InsN("Ldc_I4", 1), Ins("Pop"), Ins("Ret")} \cup Jumps(4, {"Br_S", "Brtrue_S"}))

(* One of each remaining opcode, and of the branch tests.                  *)
OpcodeBodies ==
  {<<InsN(op, 1), Ins("Ret")>> : op \in StraightOps \ {"Newobj"}}
  \cup {<<NewObject(5 + k, k), Ins("Ret")>> : k \in 0 .. 2}
  \cup {<<Ins("Dup"), Jump(op, t), Ins("Ret")>> :
          op \in {"Brtrue_S", "Beq_S", "Bgt_S", "Blt_S", "Ble_S"}, t \in 1 .. 3}

MCMethods ==
  [code : SmallBodies \cup OpcodeBodies, returns : BOOLEAN]
    \cup [code : MediumBodies, returns : {TRUE}]

(* One C# conditional expression: return a0 ? 1 : 2.                       *)
Conditional ==
  <<InsN("Ldarg", 0), Jump("Brtrue_S", 5), InsN("Ldc_I4", 2), Jump("Br_S", 6),
    InsN("Ldc_I4", 1), Ins("Ret")>>
ConditionalMethods == {[code |-> Conditional, returns |-> TRUE]}
=============================================================================
