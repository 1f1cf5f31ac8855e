------------------------ MODULE MCCompiledControlFlow -----------------------
(***************************************************************************)
(* Every well-formed body up to 4 instructions over jumps of each kind.    *)
(***************************************************************************)
EXTENDS CompiledControlFlow

Straight == {Ins("Rem"), Ins("Nop"), Ins("Ret")}
Jumps(len, ops) == {Jump(op, t) : op \in ops, t \in 1 .. len}
Switches(len) == {SwitchTo(<<>>)} \cup {SwitchTo(<<t, u>>) : t, u \in 1 .. len}
LastOnes(len) == {Ins("Ret")} \cup Jumps(len, {"Br_S"})

BodiesOf(len, alphabet) ==
  {Append(body, last) : body \in [1 .. len - 1 -> alphabet], last \in LastOnes(len)}

SmallBodies ==
  UNION {BodiesOf(len, Straight \cup Jumps(len, {"Br_S", "Brfalse_S"}) \cup Switches(len)) : len \in 1 .. 3}
MediumBodies == BodiesOf(4, {Ins("Rem"), Ins("Nop"), Ins("Ret")} \cup Jumps(4, {"Br_S", "Brtrue_S"}))
Others == {<<>>, <<Jump("Bge_S", 2), Ins("Ret")>>}

MCMethods ==
  [code : SmallBodies \cup Others, returns : BOOLEAN] \cup [code : MediumBodies, returns : {TRUE}]
=============================================================================
