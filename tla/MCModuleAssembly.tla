-------------------------- MODULE MCModuleAssembly --------------------------
(***************************************************************************)
(* Small assemblies: three methods that use each other, two methods with   *)
(* longer bodies.                                                          *)
(***************************************************************************)
EXTENDS ModuleAssembly, TLC

MCArgName(i) == "arg" \o ToString(i)

Call(to)         == [kind |-> "call", to |-> to, type |-> ""]
New(type, ctor)  == [kind |-> "newobj", to |-> ctor, type |-> type]
Static(to)       == [kind |-> "static", to |-> to, type |-> ""]
Local(name)      == [kind |-> "local", to |-> name, type |-> ""]
Unsupported      == [kind |-> "unsupported", to |-> "", type |-> ""]

Uses ==
  {Call("A"), Call("B"), Call("C"), New("T", "B"), New("U", "C"), Static("WriteLine"),
   Local("loc0"), Local("arg0")}

Bodies(max) == {<<>>} \cup {<<u>> : u \in Uses} \cup (IF max = 1 THEN {} ELSE Uses \X Uses)
FailingBodies == {<<Call("B"), Static("Unknown")>>, <<Unsupported>>}

Public(name, params, uses) ==
  [name |-> name, export |-> name, isPublic |-> TRUE, hasThis |-> FALSE, hasBody |-> TRUE,
   typed |-> TRUE, returns |-> TRUE, params |-> params, uses |-> uses]
Private(name, params, uses) ==
  [Public(name, params, uses) EXCEPT !.isPublic = FALSE, !.hasThis = TRUE, !.returns = FALSE]

(* Two classes of the same name.                                           *)
Homonym(m) == [m EXCEPT !.export = "A", !.isPublic = TRUE]

(* A generic method has the FullName of the other A.                       *)
Generic(m) == [m EXCEPT !.name = "A", !.isPublic = FALSE]

MCAssemblies ==
  {<<Public("A", 1, a), Private("B", 0, b), Public("C", 1, c)>> : a, b, c \in Bodies(1)}
    \cup {<<Private("B", 1, b), Public("A", 2, a), Private("C", 0, <<>>)>> : b \in Bodies(2), a \in Bodies(2)}
    \cup {<<Public("A", 0, a), Homonym(Private("C", 1, c)), Private("B", 2, <<>>)>> : a, c \in Bodies(1)}
    \cup {<<Public("A", 1, a), Generic(Private("A", 1, c)), Public("B", 0, <<>>)>> : a, c \in Bodies(1)}
    \cup {<<Public("A", 1, a), [Public("B", 0, <<>>) EXCEPT !.hasBody = FALSE]>> : a \in Bodies(1)}
    \cup {<<Public("A", 1, <<>>), Public("B", 4, <<>>)>>, <<[Public("A", 1, <<>>) EXCEPT !.typed = FALSE]>>}
    \cup {<<Public("A", 1, a)>> : a \in FailingBodies}

(* C# puts a lambda into a nested class: A calls its method, then B.       *)
NestedAssemblies == {<<Public("A", 1, <<Call("A.Nested.M"), Call("B")>>), Public("B", 1, <<>>)>>}

(* A public instance method with one parameter.                            *)
InstanceAssemblies == {<<[Public("A", 1, <<>>) EXCEPT !.hasThis = TRUE]>>}
=============================================================================
