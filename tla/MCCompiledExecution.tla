------------------------- MODULE MCCompiledExecution ------------------------
(***************************************************************************)
(* Calls of small methods put together from statements, the way C# code    *)
(* compiles: every pair of statements with every jump between them, and    *)
(* the loop of MyLibrary's IsPrime.                                        *)
(***************************************************************************)
EXTENDS CompiledExecution

(* Statements over arg0, loc0 and loc1; their jumps name statements.       *)
Arg == InsN("Ldarg", 0)
Loc == InsN("Ldloc", 0)
One == InsN("Ldc_I4", 1)
ToLoc == InsN("Stloc", 0)

Computations ==
  {<<Arg, One, Ins("Sub"), InsN("Starg", 0)>>,
   <<Loc, Arg, Ins("Add"), ToLoc>>,
   <<Arg, Ins("Dup"), Ins("Mul"), Ins("Neg"), ToLoc, Ins("Nop")>>,
   <<Loc, Arg, Ins("Rem"), ToLoc>>,
   <<Arg, InsN("Ldc_I4", -1), Ins("Rem"), ToLoc>>,
   <<Arg, One, Ins("Clt"), ToLoc>>}

Jumps(n) ==
  {<<Jump("Br_S", t)>> : t \in 1 .. n}
    \cup {<<Arg, Jump("Brtrue_S", t)>> : t \in 1 .. n}
    \cup {<<Arg, One, Jump(op, t)>> : op \in {"Beq_S", "Bgt_S", "Blt_S", "Ble_S"}, t \in {1, n}}
    \cup {<<Arg, One, Ins(op), Jump("Brfalse_S", t)>> : op \in {"Ceq", "Cgt"}, t \in {1, n}}
    \cup {<<Arg, SwitchTo(<<t, u>>)>> : t, u \in {1, n}}

(* The body made of statements: a jump to statement f goes to its first    *)
(* instruction.                                                            *)
Assemble(statements) ==
  LET First(f) == 1 + Len(FlattenSeq(SubSeq(statements, 1, f - 1)))
      Linked(ins) == [ins EXCEPT !.targets = [j \in DOMAIN ins.targets |-> First(ins.targets[j])]]
      body == FlattenSeq(statements)
  IN  [i \in DOMAIN body |-> Linked(body[i])]

Pairs ==
  {Assemble(<<s, t, <<Loc, Ins("Ret")>>>>) : s, t \in Computations \cup Jumps(3)}

IsPrime ==
  Assemble(<< <<InsN("Ldc_I4", 2), ToLoc, Jump("Br_S", 5)>>,
              <<Arg, Loc, Ins("Rem"), Jump("Brtrue_S", 4)>>,
              <<InsN("Ldc_I4", 0), Ins("Ret")>>,
              <<Loc, One, Ins("Add"), ToLoc>>,
              <<Loc, Loc, Ins("Mul"), Arg, Jump("Ble_S", 2)>>,
              <<One, Ins("Ret")>> >>)

(* if (arg0 == 1) return arg0; return 1, compiled without optimisation:    *)
(* the result of the comparison is kept in a local before it is tested.    *)
KeepsTruth ==
  Assemble(<< <<Arg, One, Ins("Ceq"), ToLoc>>,
              <<Loc, Jump("Brfalse_S", 4)>>,
              <<Arg, Ins("Ret")>>,
              <<One, Ins("Ret")>> >>)

Method(code, hasThis) == [code |-> code, returns |-> TRUE, hasThis |-> hasThis]

MCMethods == {Method(code, FALSE) : code \in Pairs \cup {IsPrime, KeepsTruth}}
MCArguments == {[i \in 0 .. 2 |-> v] : v \in {-8, -1, 0, 1, 2, 7}}
MCSignatures == (0 :> [takes |-> 1, gives |-> 1])

(* return arg0 ? loc0 : 1, compiled without a conditional expression:      *)
(* if (!arg0) return 1; return 0.                                          *)
IfNot == <<Arg, Jump("Brfalse_S", 5), InsN("Ldc_I4", 0), Ins("Ret"), One, Ins("Ret")>>
BrfalseMethods == {Method(IfNot, FALSE)}

(* An instance method that stores to its parameter.                        *)
Assigns == <<One, InsN("Starg", 0), InsN("Ldarg", 1), Ins("Ret")>>
StargMethods == {Method(Assigns, TRUE)}
=============================================================================
