------------------------ MODULE ModuleAssemblyProofs ------------------------
(***************************************************************************)
(* For every assembly: the numbers WasmModuleBuilder and                   *)
(* WasmFunctionBuilder hand out while methods are still being compiled are *)
(* the positions of the finished module.                                   *)
(***************************************************************************)
EXTENDS ModuleAssembly, FiniteSetTheorems, WellFoundedInduction, TLAPS

-----------------------------------------------------------------------------
(* The least of a set of numbers is the one below all others.              *)
LEMMA MinIs ==
  ASSUME NEW S \in SUBSET Nat, NEW x \in S, \A y \in S : x <= y
  PROVE  Min(S) = x
<1> DEFINE P(z) == z \in S /\ \A y \in S : z <= y
<1>1. P(x)
  OBVIOUS
<1>2. ASSUME NEW z, P(z) PROVE z = x
  <2>1. z \in Nat /\ x \in Nat /\ z <= x /\ x <= z
    BY <1>2
  <2> QED
    BY <2>1
<1>3. Min(S) = CHOOSE z : P(z)
  BY DEF Min
<1> HIDE DEF P
<1>4. P(CHOOSE z : P(z))
  BY <1>1
<1> QED
  BY <1>2, <1>3, <1>4

(* There is one unless the set is empty.                                   *)
LEMMA MinExists ==
  ASSUME NEW S \in SUBSET Nat, S # {}
  PROVE  Min(S) \in S /\ \A y \in S : Min(S) <= y
<1>1. PICK x \in S : \A y \in S : <<y, x>> \notin OpToRel(<, Nat)
  BY NatLessThanWellFounded, WFMin
<1>2. ASSUME NEW y \in S PROVE x <= y
  <2>1. ~(y < x)
    BY <1>1 DEF OpToRel
  <2> QED
    BY <2>1
<1>3. Min(S) = x
  BY <1>2, MinIs
<1> QED
  BY <1>2, <1>3
-----------------------------------------------------------------------------
(* The indices of the functions: the names in the order in which they were *)
(* reserved take the numbers behind the two imports, none left out.        *)
Numbering(F) ==
  /\ IsFiniteSet(DOMAIN F)
  /\ \A n \in DOMAIN F : F[n] \in 2 .. Cardinality(DOMAIN F) + 1
  /\ \A n, o \in DOMAIN F : F[n] = F[o] => n = o
  /\ \A k \in 2 .. Cardinality(DOMAIN F) + 1 : \E n \in DOMAIN F : F[n] = k

(* Reserving an index for one more name keeps it so, and changes no index. *)
LEMMA Reserves ==
  ASSUME NEW F, Numbering(F), NEW name,
         NEW G, G = [n \in DOMAIN F \cup {name} |-> FunctionIndexOf(F, n)]
  PROVE  /\ Numbering(G) /\ DOMAIN G = DOMAIN F \cup {name}
         /\ \A n \in DOMAIN F : G[n] = F[n]
<1> DEFINE c == Cardinality(DOMAIN F)
           d == Cardinality(DOMAIN G)
<1>1. Len(FunctionImports) = 2
  BY DEF FunctionImports
<1>2. /\ DOMAIN G = DOMAIN F \cup {name}
      /\ \A n \in DOMAIN F : G[n] = F[n]
      /\ name \notin DOMAIN F => G[name] = 2 + c
  BY <1>1 DEF FunctionIndexOf
<1>3. c \in Nat /\ IsFiniteSet(DOMAIN F) /\ IsFiniteSet(DOMAIN G)
      /\ d = IF name \in DOMAIN F THEN c ELSE c + 1
  BY <1>2, FS_CardinalityType, FS_AddElement DEF Numbering
<1>4. /\ \A n \in DOMAIN F : F[n] \in 2 .. c + 1
      /\ \A n, o \in DOMAIN F : F[n] = F[o] => n = o
      /\ \A k \in 2 .. c + 1 : \E n \in DOMAIN F : F[n] = k
  BY DEF Numbering
<1> HIDE DEF c, d
<1>5. CASE name \in DOMAIN F
  <2>1. DOMAIN G = DOMAIN F /\ d = c
    BY <1>2, <1>3, <1>5
  <2>2. /\ \A n \in DOMAIN G : G[n] \in 2 .. d + 1
        /\ \A n, o \in DOMAIN G : G[n] = G[o] => n = o
        /\ \A k \in 2 .. d + 1 : \E n \in DOMAIN G : G[n] = k
    BY <1>2, <1>4, <2>1
  <2> QED
    BY <1>2, <1>3, <2>2 DEF Numbering, d
<1>6. CASE name \notin DOMAIN F
  <2>1. d = c + 1 /\ G[name] = 2 + c
    BY <1>2, <1>3, <1>6
  <2>2. ASSUME NEW n \in DOMAIN G PROVE G[n] \in 2 .. d + 1
    <3>1. CASE n = name
      BY <1>3, <2>1, <3>1
    <3>2. CASE n \in DOMAIN F
      <4>1. G[n] \in 2 .. c + 1
        BY <1>2, <1>4, <3>2
      <4> QED
        BY <1>3, <2>1, <4>1
    <3> QED
      BY <1>2, <3>1, <3>2
  <2>3. ASSUME NEW n \in DOMAIN G, NEW o \in DOMAIN G, G[n] = G[o] PROVE n = o
    <3>1. \A m \in DOMAIN F : G[m] # 2 + c
      <4> TAKE m \in DOMAIN F
      <4>1. G[m] \in 2 .. c + 1
        BY <1>2, <1>4
      <4> QED
        BY <1>3, <4>1
    <3> QED
      BY <1>2, <1>4, <2>1, <2>3, <3>1
  <2>4. ASSUME NEW k \in 2 .. d + 1 PROVE \E n \in DOMAIN G : G[n] = k
    <3>1. CASE k = d + 1
      <4>1. G[name] = k /\ name \in DOMAIN G
        BY <1>2, <1>3, <2>1, <3>1
      <4> QED
        BY <4>1
    <3>2. CASE k # d + 1
      <4>1. k \in 2 .. c + 1
        BY <1>3, <2>1, <3>2
      <4>2. PICK n \in DOMAIN F : F[n] = k
        BY <1>4, <4>1
      <4> QED
        BY <1>2, <4>2
    <3> QED
      BY <3>1, <3>2
  <2> QED
    BY <1>2, <1>3, <2>2, <2>3, <2>4 DEF Numbering, d
<1> QED
  BY <1>2, <1>5, <1>6
-----------------------------------------------------------------------------
(* A sequence that lists things once, given one more element.              *)
LEMMA ListedOnce ==
  ASSUME NEW S, NEW names \in Seq(S), NEW name \in S,
         \A i, j \in DOMAIN names : names[i] = names[j] => i = j,
         NEW list, list = (IF Contains(names, name) THEN names ELSE Append(names, name))
  PROVE  /\ list \in Seq(S) /\ Len(names) \in Nat /\ DOMAIN names = 1 .. Len(names)
         /\ DOMAIN names \subseteq DOMAIN list
         /\ \A i \in DOMAIN names : list[i] = names[i]
         /\ \A i, j \in DOMAIN list : list[i] = list[j] => i = j
         /\ \E i \in DOMAIN list : list[i] = name
<1>1. Len(names) \in Nat /\ DOMAIN names = 1 .. Len(names)
  OBVIOUS
<1>2. CASE Contains(names, name)
  BY <1>1, <1>2 DEF Contains
<1>3. CASE ~Contains(names, name)
  <2>1. /\ list = Append(names, name) /\ list \in Seq(S) /\ DOMAIN list = 1 .. Len(names) + 1
        /\ \A i \in 1 .. Len(names) : list[i] = names[i]
        /\ list[Len(names) + 1] = name
    BY <1>1, <1>3
  <2>2. \A i \in 1 .. Len(names) : names[i] # name
    BY <1>3 DEF Contains
  <2>3. ASSUME NEW i \in DOMAIN list, NEW j \in DOMAIN list, list[i] = list[j] PROVE i = j
    <3>1. (i \in 1 .. Len(names) \/ i = Len(names) + 1) /\ (j \in 1 .. Len(names) \/ j = Len(names) + 1)
      BY <1>1, <2>1
    <3> QED
      BY <1>1, <2>1, <2>2, <2>3, <3>1
  <2>4. Len(names) + 1 \in DOMAIN list
    BY <1>1, <2>1
  <2>5. DOMAIN names \subseteq DOMAIN list
    BY <1>1, <2>1
  <2> QED
    BY <1>1, <2>1, <2>3, <2>4, <2>5
<1> QED
  BY <1>2, <1>3
-----------------------------------------------------------------------------
(* The names of locals, and of types whose handle is used.                 *)
AllUses   == UNION {UNION {{a[m].uses[j] : j \in DOMAIN a[m].uses} : m \in DOMAIN a} : a \in Assemblies}
Names     == {ArgName(i) : i \in Nat} \cup {u.to : u \in AllUses}
TypeNames == {u.type : u \in AllUses}

NoteKinds == {"function", "import", "global", "local"}

(* The assembly, and how far the compilation has come.                     *)
ProgressInv ==
  /\ assembly \in Assemblies
  /\ phase \in {"next", "body", "layout", "built", "failed"}
  /\ current \in 0 .. Len(assembly)
  /\ use \in Nat
  /\ phase = "body" => current > 0
  /\ phase \in {"layout", "built"} => current = Len(assembly)
  /\ rewritten \subseteq 1 .. current
  /\ \A n \in numbered : n.in \in 1 .. current /\ n.kind \in NoteKinds

(* What an assembly consists of.                                           *)
LEMMA AssemblyFacts ==
  ASSUME NEW a \in Assemblies
  PROVE  /\ Len(a) \in Nat /\ DOMAIN a = 1 .. Len(a)
         /\ \A m \in 1 .. Len(a) :
              /\ a[m].params \in Nat /\ a[m].isPublic \in BOOLEAN /\ a[m].hasThis \in BOOLEAN
              /\ a[m].returns \in BOOLEAN
              /\ Signature(a[m]) \in [params : Nat, returns : BOOLEAN]
              /\ Len(a[m].uses) \in Nat /\ DOMAIN a[m].uses = 1 .. Len(a[m].uses)
              /\ \A j \in 1 .. Len(a[m].uses) : a[m].uses[j] \in AllUses
         /\ \A m \in 1 .. Len(a) : \A i, j \in 0 .. Signature(a[m]).params - 1 :
              ArgName(i) = ArgName(j) => i = j
<1>1. a \in Seq({a[i] : i \in DOMAIN a})
  BY AssembliesAssumption
<1>2. Len(a) \in Nat /\ DOMAIN a = 1 .. Len(a)
  BY <1>1
<1>3. ASSUME NEW m \in 1 .. Len(a)
      PROVE  /\ a[m].params \in Nat /\ a[m].isPublic \in BOOLEAN /\ a[m].hasThis \in BOOLEAN
             /\ a[m].returns \in BOOLEAN
             /\ Signature(a[m]) \in [params : Nat, returns : BOOLEAN]
             /\ Len(a[m].uses) \in Nat /\ DOMAIN a[m].uses = 1 .. Len(a[m].uses)
             /\ \A j \in 1 .. Len(a[m].uses) : a[m].uses[j] \in AllUses
  <2>1. m \in DOMAIN a
    BY <1>2
  <2>2. /\ a[m].params \in Nat /\ a[m].isPublic \in BOOLEAN /\ a[m].hasThis \in BOOLEAN
        /\ a[m].returns \in BOOLEAN /\ a[m].uses \in Seq({a[m].uses[j] : j \in DOMAIN a[m].uses})
    BY <2>1, AssembliesAssumption
  <2>3. Signature(a[m]) \in [params : Nat, returns : BOOLEAN]
    BY <2>2 DEF Signature
  <2> DEFINE u == a[m].uses
             U == {u[j] : j \in DOMAIN u}
  <2>4. u \in Seq(U)
    BY <2>2
  <2> HIDE DEF U
  <2>5. Len(u) \in Nat /\ DOMAIN u = 1 .. Len(u)
    BY <2>4
  <2>6. \A j \in 1 .. Len(u) : u[j] \in AllUses
    BY <2>1, <2>5 DEF AllUses
  <2> QED
    BY <2>2, <2>3, <2>5, <2>6
<1>4. ASSUME NEW m \in 1 .. Len(a)
      PROVE \A i, j \in 0 .. Signature(a[m]).params - 1 : ArgName(i) = ArgName(j) => i = j
  BY <1>2, ArgNamesAssumption
<1> QED
  BY <1>2, <1>3, <1>4

(* Every step keeps the compilation's progress in order.                   *)
LEMMA ProgressStep == ProgressInv /\ [Next]_vars => ProgressInv'
<1> SUFFICES ASSUME ProgressInv, [Next]_vars PROVE ProgressInv'
  OBVIOUS
<1>0. /\ assembly \in Assemblies /\ Len(assembly) \in Nat /\ current \in 0 .. Len(assembly) /\ use \in Nat
      /\ rewritten \subseteq 1 .. current /\ \A n \in numbered : n.in \in 1 .. current /\ n.kind \in NoteKinds
  BY AssemblyFacts DEF ProgressInv
<1>1. CASE BeginMethod
  BY <1>0, <1>1 DEF ProgressInv, BeginMethod
<1>2. CASE UnsupportedType
  BY <1>0, <1>2 DEF ProgressInv, UnsupportedType
<1>3. CASE CompileCall
  BY <1>0, <1>3 DEF ProgressInv, NoteKinds, CompileCall, MeetsUse, Note
<1>4. CASE CompileNewobj
  BY <1>0, <1>4 DEF ProgressInv, NoteKinds, CompileNewobj, MeetsUse
<1>5. CASE CompileStaticCall
  BY <1>0, <1>5 DEF ProgressInv, NoteKinds, CompileStaticCall, MeetsUse, Note
<1>6. CASE RejectUse
  BY <1>0, <1>6 DEF ProgressInv, RejectUse, MeetsUse
<1>7. CASE UseLocal
  BY <1>0, <1>7 DEF ProgressInv, NoteKinds, UseLocal, MeetsUse, Note
<1>8. CASE EndMethod
  BY <1>0, <1>8 DEF ProgressInv, EndMethod, BodyCompiled
<1>9. CASE CannotRewrite
  BY <1>0, <1>9 DEF ProgressInv, CannotRewrite
<1>10. CASE BeginModule
  BY <1>0, <1>10 DEF ProgressInv, BeginModule
<1>11. CASE LayOutFunction
  BY <1>0, <1>11 DEF ProgressInv, LayOutFunction
<1>12. CASE EndModule
  BY <1>0, <1>12 DEF ProgressInv, EndModule
<1>13. CASE UNCHANGED vars
  BY <1>0, <1>13 DEF ProgressInv, vars
<1> QED
  BY <1>1, <1>2, <1>3, <1>4, <1>5, <1>6, <1>7, <1>8, <1>9, <1>10, <1>11, <1>12, <1>13 DEF Next
-----------------------------------------------------------------------------
(* Every method met so far has its function at its index, and no index was *)
(* reserved but for such a method or for one that is called.               *)
FunctionsInv ==
  /\ Numbering(functionIndices)
  /\ \A i \in DOMAIN functionBuilders :
       /\ functionBuilders[i] \in 1 .. current
       /\ assembly[functionBuilders[i]].name \in DOMAIN functionIndices
       /\ functionIndices[assembly[functionBuilders[i]].name] = i
  /\ \A m \in 1 .. current :
       /\ assembly[m].name \in DOMAIN functionIndices
       /\ functionIndices[assembly[m].name] \in DOMAIN functionBuilders
  /\ \A name \in DOMAIN functionIndices :
       \/ \E m \in 1 .. current : assembly[m].name = name
       \/ \E n \in numbered : n.kind = "function" /\ n.to = name
  /\ \A n \in numbered :
       n.kind = "function" => n.to \in DOMAIN functionIndices /\ n.index = functionIndices[n.to]

(* Reserving an index, in a step.                                          *)
LEMMA IndexReserved ==
  ASSUME FunctionsInv, NEW name, GetOrReserveFunctionIndex(name)
  PROVE  /\ Numbering(functionIndices') /\ DOMAIN functionIndices' = DOMAIN functionIndices \cup {name}
         /\ \A n \in DOMAIN functionIndices : functionIndices'[n] = functionIndices[n]
BY Reserves DEF FunctionsInv, GetOrReserveFunctionIndex

(* A use reserves an index, or finds it reserved, and notes it.            *)
LEMMA FunctionUsed ==
  ASSUME FunctionsInv, NEW name, GetOrReserveFunctionIndex(name),
         UNCHANGED <<assembly, current, functionBuilders>>,
         numbered \subseteq numbered',
         \A n \in numbered' \ numbered :
           n.kind = "function" => n.to = name /\ n.index = functionIndices'[name],
         \E n \in numbered' : n.kind = "function" /\ n.to = name
  PROVE  FunctionsInv'
<1>1. /\ Numbering(functionIndices') /\ DOMAIN functionIndices' = DOMAIN functionIndices \cup {name}
      /\ \A n \in DOMAIN functionIndices : functionIndices'[n] = functionIndices[n]
  BY IndexReserved
<1>2. /\ \A i \in DOMAIN functionBuilders' :
           /\ functionBuilders'[i] \in 1 .. current'
           /\ assembly'[functionBuilders'[i]].name \in DOMAIN functionIndices'
           /\ functionIndices'[assembly'[functionBuilders'[i]].name] = i
      /\ \A m \in 1 .. current' :
           /\ assembly'[m].name \in DOMAIN functionIndices'
           /\ functionIndices'[assembly'[m].name] \in DOMAIN functionBuilders'
  BY <1>1 DEF FunctionsInv
<1>3. \A n \in numbered' :
        n.kind = "function" => n.to \in DOMAIN functionIndices' /\ n.index = functionIndices'[n.to]
  BY <1>1 DEF FunctionsInv
<1>4. \A nm \in DOMAIN functionIndices' :
        \/ \E m \in 1 .. current' : assembly'[m].name = nm
        \/ \E n \in numbered' : n.kind = "function" /\ n.to = nm
  BY <1>1 DEF FunctionsInv
<1> QED
  BY <1>1, <1>2, <1>3, <1>4 DEF FunctionsInv

(* A method gets its index, reserved by an earlier use or not.             *)
LEMMA FunctionBegun ==
  ASSUME ProgressInv, FunctionsInv, current' = current + 1, current < Len(assembly),
         NewFunction(current'), UNCHANGED <<assembly, numbered>>,
         NEW name, name = assembly[current'].name
  PROVE  FunctionsInv'
<1> DEFINE index == functionIndices'[name]
<1>0. /\ assembly \in Assemblies /\ current \in Nat /\ Len(assembly) \in Nat /\ current' \in 1 .. Len(assembly)
  <2>1. assembly \in Assemblies /\ current \in 0 .. Len(assembly)
    BY DEF ProgressInv
  <2>2. Len(assembly) \in Nat
    BY <2>1, AssemblyFacts
  <2> QED
    BY <2>1, <2>2
<1>1. /\ Numbering(functionIndices') /\ DOMAIN functionIndices' = DOMAIN functionIndices \cup {name}
      /\ \A n \in DOMAIN functionIndices : functionIndices'[n] = functionIndices[n]
  <2>1. GetOrReserveFunctionIndex(name)
    BY DEF NewFunction
  <2> QED
    BY <2>1, IndexReserved
<1>2. /\ DOMAIN functionBuilders' = DOMAIN functionBuilders \cup {index}
      /\ functionBuilders'[index] = current'
      /\ \A i \in DOMAIN functionBuilders : i # index => functionBuilders'[i] = functionBuilders[i]
  BY DEF NewFunction
<1> HIDE DEF index
<1>3. ASSUME NEW i \in DOMAIN functionBuilders'
      PROVE  /\ functionBuilders'[i] \in 1 .. current'
             /\ assembly'[functionBuilders'[i]].name \in DOMAIN functionIndices'
             /\ functionIndices'[assembly'[functionBuilders'[i]].name] = i
  <2>1. CASE i = index
    BY <1>0, <1>1, <1>2, <2>1 DEF index
  <2>2. CASE i # index
    <3>1. i \in DOMAIN functionBuilders /\ functionBuilders'[i] = functionBuilders[i]
      BY <1>2, <2>2
    <3>2. functionBuilders[i] \in 1 .. current /\ assembly[functionBuilders[i]].name \in DOMAIN functionIndices
          /\ functionIndices[assembly[functionBuilders[i]].name] = i
      BY <3>1 DEF FunctionsInv
    <3>3. functionBuilders[i] \in 1 .. current'
      BY <1>0, <3>2
    <3> QED
      BY <1>1, <3>1, <3>2, <3>3
  <2> QED
    BY <2>1, <2>2
<1>4. ASSUME NEW m \in 1 .. current'
      PROVE  /\ assembly'[m].name \in DOMAIN functionIndices'
             /\ functionIndices'[assembly'[m].name] \in DOMAIN functionBuilders'
  <2>1. CASE m = current'
    BY <1>1, <1>2, <2>1 DEF index
  <2>2. CASE m # current'
    <3>1. m \in 1 .. current
      BY <1>0, <2>2
    <3> QED
      BY <1>1, <1>2, <3>1 DEF FunctionsInv
  <2> QED
    BY <2>1, <2>2
<1>5. ASSUME NEW nm \in DOMAIN functionIndices'
      PROVE  \/ \E m \in 1 .. current' : assembly'[m].name = nm
             \/ \E n \in numbered' : n.kind = "function" /\ n.to = nm
  <2>1. CASE nm = name
    BY <1>0, <2>1
  <2>2. CASE nm # name
    <3>1. \/ \E m \in 1 .. current : assembly[m].name = nm
          \/ \E n \in numbered : n.kind = "function" /\ n.to = nm
      BY <1>1, <2>2 DEF FunctionsInv
    <3>2. \A m \in 1 .. current : m \in 1 .. current'
      BY <1>0
    <3> QED
      BY <3>1, <3>2
  <2> QED
    BY <2>1, <2>2
<1>6. \A n \in numbered' :
        n.kind = "function" => n.to \in DOMAIN functionIndices' /\ n.index = functionIndices'[n.to]
  BY <1>1 DEF FunctionsInv
<1> QED
  BY <1>1, <1>3, <1>4, <1>5, <1>6 DEF FunctionsInv

(* Anything else leaves the function indices alone.                        *)
LEMMA FunctionsKept ==
  ASSUME FunctionsInv, UNCHANGED <<assembly, current, functionIndices, functionBuilders>>,
         numbered \subseteq numbered', \A n \in numbered' \ numbered : n.kind # "function"
  PROVE  FunctionsInv'
BY DEF FunctionsInv

(* Every step keeps the functions and their indices together.              *)
LEMMA FunctionsStep == ProgressInv /\ FunctionsInv /\ [Next]_vars => FunctionsInv'
<1> SUFFICES ASSUME ProgressInv, FunctionsInv, [Next]_vars PROVE FunctionsInv'
  OBVIOUS
<1>1. CASE BeginMethod
  BY <1>1, FunctionBegun DEF BeginMethod
<1>2. CASE UnsupportedType
  BY <1>2, FunctionBegun DEF UnsupportedType
<1>3. CASE CompileCall
  <2> DEFINE new == [in |-> current, kind |-> "function", to |-> Use.to, index |-> functionIndices'[Use.to]]
  <2>1. /\ GetOrReserveFunctionIndex(Use.to) /\ numbered' = numbered \cup {new}
        /\ UNCHANGED <<assembly, current, functionBuilders>>
    BY <1>3 DEF CompileCall, Note
  <2>2. new.kind = "function" /\ new.to = Use.to /\ new.index = functionIndices'[Use.to]
    OBVIOUS
  <2> HIDE DEF new
  <2>3. /\ numbered \subseteq numbered' /\ \E n \in numbered' : n.kind = "function" /\ n.to = Use.to
        /\ \A n \in numbered' \ numbered :
             n.kind = "function" => n.to = Use.to /\ n.index = functionIndices'[Use.to]
    BY <2>1, <2>2
  <2> QED
    BY <2>1, <2>3, FunctionUsed
<1>4. CASE CompileNewobj
  <2> DEFINE g == [in |-> current, kind |-> "global", to |-> Use.type, index |-> GlobalIndexOf(Use.type, globals')]
             i == [in |-> current, kind |-> "import", to |-> "mono_wasm_object_new",
                   index |-> GetStaticImportIndex("mono_wasm_object_new")]
             new == [in |-> current, kind |-> "function", to |-> Use.to, index |-> functionIndices'[Use.to]]
  <2>1. /\ GetOrReserveFunctionIndex(Use.to) /\ numbered' = numbered \cup {g, i, new}
        /\ UNCHANGED <<assembly, current, functionBuilders>>
    BY <1>4 DEF CompileNewobj
  <2>2. /\ new.kind = "function" /\ new.to = Use.to /\ new.index = functionIndices'[Use.to]
        /\ g.kind # "function" /\ i.kind # "function"
    OBVIOUS
  <2> HIDE DEF new, g, i
  <2>3. /\ numbered \subseteq numbered' /\ \E n \in numbered' : n.kind = "function" /\ n.to = Use.to
        /\ \A n \in numbered' \ numbered :
             n.kind = "function" => n.to = Use.to /\ n.index = functionIndices'[Use.to]
    BY <2>1, <2>2
  <2> QED
    BY <2>1, <2>3, FunctionUsed
<1>5. CASE CompileStaticCall
  <2>1. /\ UNCHANGED <<assembly, current, functionIndices, functionBuilders>>
        /\ numbered \subseteq numbered' /\ \A n \in numbered' \ numbered : n.kind # "function"
    BY <1>5 DEF CompileStaticCall, Note
  <2> QED
    BY <2>1, FunctionsKept
<1>6. CASE UseLocal
  <2>1. /\ UNCHANGED <<assembly, current, functionIndices, functionBuilders>>
        /\ numbered \subseteq numbered' /\ \A n \in numbered' \ numbered : n.kind # "function"
    BY <1>6 DEF UseLocal, Note
  <2> QED
    BY <2>1, FunctionsKept
<1>7. CASE RejectUse \/ EndMethod \/ CannotRewrite \/ BeginModule \/ LayOutFunction \/ EndModule \/ UNCHANGED vars
  <2>1. UNCHANGED <<assembly, current, functionIndices, functionBuilders, numbered>>
    BY <1>7 DEF RejectUse, EndMethod, CannotRewrite, BeginModule, LayOutFunction, EndModule, vars
  <2> QED
    BY <2>1, FunctionsKept
<1> QED
  BY <1>1, <1>2, <1>3, <1>4, <1>5, <1>6, <1>7 DEF Next
-----------------------------------------------------------------------------
(* What else was numbered: imports, type handles and locals.               *)
GlobalsInv ==
  /\ globals \in Seq(TypeNames)
  /\ \A i, j \in DOMAIN globals : globals[i] = globals[j] => i = j
  /\ \A n \in numbered :
       /\ n.kind = "global" => n.index + 1 \in DOMAIN globals /\ globals[n.index + 1] = n.to
       /\ n.kind = "import" => /\ n.index + 1 \in DOMAIN FunctionImports
                               /\ FunctionImports[n.index + 1].name = n.to

(* An import's number is its position.                                     *)
LEMMA ImportIndex ==
  ASSUME NEW name \in ImportNames, NEW index, index = GetStaticImportIndex(name)
  PROVE  index + 1 \in DOMAIN FunctionImports /\ FunctionImports[index + 1].name = name
<1> DEFINE k == CHOOSE i \in DOMAIN FunctionImports : FunctionImports[i].name = name
<1>1. k \in DOMAIN FunctionImports /\ FunctionImports[k].name = name
  BY DEF ImportNames
<1>2. DOMAIN FunctionImports = 1 .. 2
  BY DEF FunctionImports
<1>3. index = k - 1
  BY DEF GetStaticImportIndex
<1> HIDE DEF k
<1>4. index + 1 = k
  BY <1>1, <1>2, <1>3
<1> QED
  BY <1>1, <1>4

(* The handle of a type, in a step.                                        *)
LEMMA HandleListed ==
  ASSUME NEW type \in TypeNames, globals' = GlobalsWith(type), globals \in Seq(TypeNames),
         \A j, k \in DOMAIN globals : globals[j] = globals[k] => j = k,
         NEW index, index = GlobalIndexOf(type, globals')
  PROVE  /\ globals' \in Seq(TypeNames) /\ DOMAIN globals \subseteq DOMAIN globals'
         /\ \A k \in DOMAIN globals : globals'[k] = globals[k]
         /\ \A j, k \in DOMAIN globals' : globals'[j] = globals'[k] => j = k
         /\ index + 1 \in DOMAIN globals' /\ globals'[index + 1] = type
<1> DEFINE list == globals'
<1>1. list = (IF Contains(globals, type) THEN globals ELSE Append(globals, type))
  BY DEF GlobalsWith
<1> DEFINE i == CHOOSE k \in DOMAIN list : list[k] = type
<1>2. index = i - 1
  BY DEF GlobalIndexOf
<1> HIDE DEF list, i
<1>3. /\ list \in Seq(TypeNames) /\ DOMAIN globals \subseteq DOMAIN list
      /\ \A k \in DOMAIN globals : list[k] = globals[k]
      /\ \A j, k \in DOMAIN list : list[j] = list[k] => j = k
      /\ \E k \in DOMAIN list : list[k] = type
  BY <1>1, ListedOnce
<1>4. i \in DOMAIN list /\ list[i] = type
  BY <1>3 DEF i
<1>5. DOMAIN list = 1 .. Len(list) /\ Len(list) \in Nat
  BY <1>3
<1>6. index + 1 = i
  BY <1>2, <1>4, <1>5
<1> QED
  BY <1>3, <1>4, <1>6 DEF list

(* Every step keeps the numbers of type handles and imports right.         *)
LEMMA GlobalsStep == ProgressInv /\ GlobalsInv /\ [Next]_vars => GlobalsInv'
<1> SUFFICES ASSUME ProgressInv, GlobalsInv, [Next]_vars PROVE GlobalsInv'
  OBVIOUS
<1>1. ASSUME globals' = globals, numbered \subseteq numbered',
             \A n \in numbered' \ numbered :
               /\ n.kind # "global"
               /\ n.kind = "import" => /\ n.index + 1 \in DOMAIN FunctionImports
                                       /\ FunctionImports[n.index + 1].name = n.to
      PROVE  GlobalsInv'
  BY <1>1 DEF GlobalsInv
<1>2. CASE CompileNewobj
  <2> DEFINE g == [in |-> current, kind |-> "global", to |-> Use.type, index |-> GlobalIndexOf(Use.type, globals')]
             i == [in |-> current, kind |-> "import", to |-> "mono_wasm_object_new",
                   index |-> GetStaticImportIndex("mono_wasm_object_new")]
             f == [in |-> current, kind |-> "function", to |-> Use.to, index |-> functionIndices'[Use.to]]
  <2>1. /\ numbered' = numbered \cup {g, i, f}
        /\ globals' = GlobalsWith(Use.type)
        /\ phase = "body" /\ use < Len(Method.uses)
    BY <1>2 DEF CompileNewobj, MeetsUse
  <2>2. Use \in AllUses
    BY <2>1, AssemblyFacts DEF ProgressInv, Use, Method
  <2>3. Use.type \in TypeNames
    BY <2>2 DEF TypeNames
  <2>4. /\ globals \in Seq(TypeNames) /\ \A j, k \in DOMAIN globals : globals[j] = globals[k] => j = k
    BY DEF GlobalsInv
  <2>5. /\ globals' \in Seq(TypeNames) /\ DOMAIN globals \subseteq DOMAIN globals'
        /\ \A k \in DOMAIN globals : globals'[k] = globals[k]
        /\ \A j, k \in DOMAIN globals' : globals'[j] = globals'[k] => j = k
        /\ g.index + 1 \in DOMAIN globals' /\ globals'[g.index + 1] = Use.type
    <3>1. g.index = GlobalIndexOf(Use.type, globals')
      OBVIOUS
    <3> QED
      BY <2>1, <2>3, <2>4, <3>1, HandleListed
  <2>6. i.index + 1 \in DOMAIN FunctionImports /\ FunctionImports[i.index + 1].name = i.to
    <3>1. "mono_wasm_object_new" \in ImportNames
      BY DEF ImportNames, FunctionImports
    <3> QED
      BY <3>1, ImportIndex
  <2>7. /\ g.kind = "global" /\ g.to = Use.type
        /\ i.kind = "import" /\ f.kind = "function"
    OBVIOUS
  <2> HIDE DEF g, i, f
  <2>8. ASSUME NEW n \in numbered'
        PROVE  /\ n.kind = "global" => n.index + 1 \in DOMAIN globals' /\ globals'[n.index + 1] = n.to
               /\ n.kind = "import" => /\ n.index + 1 \in DOMAIN FunctionImports
                                       /\ FunctionImports[n.index + 1].name = n.to
    <3>1. CASE n \in numbered
      BY <2>5, <3>1 DEF GlobalsInv
    <3>2. CASE n = g
      BY <2>5, <2>7, <3>2
    <3>3. CASE n = i
      BY <2>6, <2>7, <3>3
    <3>4. CASE n = f
      BY <2>7, <3>4
    <3> QED
      BY <2>1, <3>1, <3>2, <3>3, <3>4
  <2> QED
    BY <2>5, <2>8 DEF GlobalsInv
<1>3. CASE CompileStaticCall
  <2> DEFINE new == [in |-> current, kind |-> "import", to |-> Use.to, index |-> GetStaticImportIndex(Use.to)]
  <2>1. globals' = globals /\ numbered' = numbered \cup {new} /\ Use.to \in ImportNames
    BY <1>3 DEF CompileStaticCall, Note
  <2>2. new.kind = "import" /\ new.index + 1 \in DOMAIN FunctionImports
        /\ FunctionImports[new.index + 1].name = new.to
    BY <2>1, ImportIndex
  <2> HIDE DEF new
  <2> QED
    BY <1>1, <2>1, <2>2
<1>4. CASE CompileCall \/ UseLocal
  <2>1. globals' = globals /\ numbered \subseteq numbered' /\ \A n \in numbered' \ numbered : n.kind \in {"function", "local"}
    BY <1>4 DEF CompileCall, UseLocal, Note
  <2> QED
    BY <1>1, <2>1
<1>5. CASE BeginMethod \/ UnsupportedType \/ RejectUse \/ EndMethod \/ CannotRewrite \/ BeginModule
             \/ LayOutFunction \/ EndModule \/ UNCHANGED vars
  <2>1. globals' = globals /\ numbered' = numbered
    BY <1>5 DEF BeginMethod, UnsupportedType, RejectUse, EndMethod, CannotRewrite, BeginModule, LayOutFunction,
       EndModule, vars
  <2> QED
    BY <1>1, <2>1
<1> QED
  BY <1>2, <1>3, <1>4, <1>5 DEF Next
-----------------------------------------------------------------------------
(* A method whose parameters all have a WebAssembly type names them first. *)
ParametersFirst(m) ==
  \A i \in 0 .. Signature(assembly[m]).params - 1 : i + 1 \in DOMAIN locals[m] /\ locals[m][i + 1] = ArgName(i)

LocalsInv ==
  /\ locals \in Seq(Seq(Names))
  /\ Len(locals) = current
  /\ \A m \in 1 .. current : \A i, j \in DOMAIN locals[m] : locals[m][i] = locals[m][j] => i = j
  /\ phase = "body" => ParametersFirst(current)
  /\ \A n \in numbered :
       n.kind = "local" => /\ n.index \in Nat /\ n.index + 1 \in DOMAIN locals[n.in]
                           /\ locals[n.in][n.index + 1] = n.to
                           /\ ParametersFirst(n.in)

(* The names of the parameters.                                            *)
LEMMA ParametersNamed ==
  ASSUME NEW a \in Assemblies, NEW m \in 1 .. Len(a)
  PROVE  LET names == ParameterNames(a[m]) IN
         /\ names \in Seq(Names) /\ DOMAIN names = 1 .. Signature(a[m]).params
         /\ \A i, j \in DOMAIN names : names[i] = names[j] => i = j
<1> DEFINE p == Signature(a[m]).params
           names == ParameterNames(a[m])
<1>1. p \in Nat
  BY AssemblyFacts
<1>2. \A i, j \in 0 .. p - 1 : ArgName(i) = ArgName(j) => i = j
  BY AssemblyFacts
<1>3. names = [i \in 1 .. p |-> ArgName(i - 1)]
  BY DEF ParameterNames
<1> HIDE DEF p, names
<1>4. ASSUME NEW i \in 1 .. p PROVE ArgName(i - 1) \in Names /\ i - 1 \in 0 .. p - 1
  <2>1. i - 1 \in Nat /\ i - 1 \in 0 .. p - 1
    BY <1>1
  <2> QED
    BY <2>1 DEF Names
<1>5. names \in Seq(Names)
  BY <1>1, <1>3, <1>4
<1>6. ASSUME NEW i \in 1 .. p, NEW j \in 1 .. p, names[i] = names[j] PROVE i = j
  <2>1. i - 1 \in 0 .. p - 1 /\ j - 1 \in 0 .. p - 1
    BY <1>4
  <2>2. ArgName(i - 1) = ArgName(j - 1)
    BY <1>3, <1>6
  <2>3. i - 1 = j - 1
    BY <1>2, <2>1, <2>2
  <2> QED
    BY <1>1, <2>3
<1> QED
  BY <1>3, <1>5, <1>6 DEF p, names

(* One more function, with some of its parameters named or all of them.    *)
LEMMA LocalsBegun ==
  ASSUME ProgressInv, LocalsInv, NEW names \in Seq(Names),
         \A i, j \in DOMAIN names : names[i] = names[j] => i = j,
         current' = current + 1, locals' = Append(locals, names), UNCHANGED <<assembly, numbered>>,
         phase' = "body" =>
           \A i \in 0 .. Signature(assembly[current']).params - 1 : i + 1 \in DOMAIN names /\ names[i + 1] = ArgName(i)
  PROVE  LocalsInv'
<1>1. /\ locals \in Seq(Seq(Names)) /\ Len(locals) = current /\ current \in Nat
      /\ \A n \in numbered : n.in \in 1 .. current
  BY DEF ProgressInv, LocalsInv
<1>2. /\ locals' \in Seq(Seq(Names)) /\ Len(locals') = current' /\ locals'[current'] = names
      /\ \A m \in 1 .. current : locals'[m] = locals[m]
  BY <1>1
<1>3. \A m \in 1 .. current' : m \in 1 .. current \/ m = current'
  BY <1>1
<1>4. \A m \in 1 .. current' : \A i, j \in DOMAIN locals'[m] : locals'[m][i] = locals'[m][j] => i = j
  BY <1>2, <1>3 DEF LocalsInv
<1>5. phase' = "body" => ParametersFirst(current)'
  BY <1>2 DEF ParametersFirst
<1>6. ASSUME NEW n \in numbered', n.kind = "local"
      PROVE  /\ n.index \in Nat /\ n.index + 1 \in DOMAIN locals'[n.in]
             /\ locals'[n.in][n.index + 1] = n.to
             /\ ParametersFirst(n.in)'
  <2>1. /\ n \in numbered /\ n.in \in 1 .. current /\ locals'[n.in] = locals[n.in]
        /\ n.index \in Nat /\ n.index + 1 \in DOMAIN locals[n.in]
        /\ locals[n.in][n.index + 1] = n.to
        /\ ParametersFirst(n.in)
    BY <1>1, <1>2, <1>6 DEF LocalsInv
  <2>2. ParametersFirst(n.in)'
    BY <2>1 DEF ParametersFirst
  <2> QED
    BY <2>1, <2>2
<1> QED
  BY <1>2, <1>4, <1>5, <1>6 DEF LocalsInv

(* A name of a local, used in the function being compiled.                 *)
LEMMA LocalUsed ==
  ASSUME ProgressInv, LocalsInv, UseLocal, Use.to \in Names
  PROVE  LocalsInv'
<1>1. /\ locals \in Seq(Seq(Names)) /\ Len(locals) = current /\ current \in Nat /\ current \in 1 .. current
      /\ \A n \in numbered : n.in \in 1 .. current
      /\ phase = "body" /\ phase' = "body"
      /\ UNCHANGED <<assembly, current>>
  BY DEF ProgressInv, LocalsInv, UseLocal, MeetsUse
<1>2. PICK names : names = locals[current]
  OBVIOUS
<1>3. PICK name \in Names : name = Use.to
  OBVIOUS
<1>4. PICK list : list = (IF Contains(names, name) THEN names ELSE Append(names, name))
  OBVIOUS
<1>5. names \in Seq(Names) /\ \A i, j \in DOMAIN names : names[i] = names[j] => i = j
  BY <1>1, <1>2 DEF LocalsInv
<1>6. /\ list \in Seq(Names) /\ DOMAIN names \subseteq DOMAIN list
      /\ \A i \in DOMAIN names : list[i] = names[i]
      /\ \A i, j \in DOMAIN list : list[i] = list[j] => i = j
      /\ \E i \in DOMAIN list : list[i] = name
  BY <1>4, <1>5, ListedOnce
<1>7. /\ locals' = [locals EXCEPT ![current] = list]
      /\ numbered' = numbered \cup {[in |-> current, kind |-> "local", to |-> name,
                                     index |-> LocalIndexOf(locals'[current], name)]}
  BY <1>2, <1>3, <1>4 DEF UseLocal, LocalsWith, Note
<1>8. /\ locals' \in Seq(Seq(Names)) /\ Len(locals') = current /\ locals'[current] = list
      /\ \A m \in 1 .. current : m # current => locals'[m] = locals[m]
  BY <1>1, <1>6, <1>7
<1> DEFINE k == CHOOSE i \in DOMAIN list : list[i] = name
           new == [in |-> current, kind |-> "local", to |-> name, index |-> k - 1]
<1>9. numbered' = numbered \cup {new}
  BY <1>7, <1>8 DEF LocalIndexOf
<1>10. new.in = current /\ new.to = name /\ new.index = k - 1
  OBVIOUS
<1>11. k \in DOMAIN list /\ list[k] = name
  BY <1>6
<1> HIDE DEF k, new
<1>12. DOMAIN list = 1 .. Len(list) /\ Len(list) \in Nat
  BY <1>6
<1>13. k - 1 \in Nat /\ (k - 1) + 1 = k
  BY <1>11, <1>12
<1>14. \A m \in 1 .. current : ParametersFirst(m) => ParametersFirst(m)'
  <2>1. \A m \in 1 .. current : \A i \in DOMAIN locals[m] : i \in DOMAIN locals'[m] /\ locals'[m][i] = locals[m][i]
    <3> TAKE m \in 1 .. current
    <3>1. CASE m = current
      BY <1>2, <1>6, <1>8, <3>1
    <3>2. CASE m # current
      BY <1>8, <3>2
    <3> QED
      BY <3>1, <3>2
  <2> QED
    BY <1>1, <2>1 DEF ParametersFirst
<1>15. ParametersFirst(current)'
  BY <1>1, <1>14 DEF LocalsInv
<1>16. ASSUME NEW n \in numbered', n.kind = "local"
       PROVE  /\ n.index \in Nat /\ n.index + 1 \in DOMAIN locals'[n.in]
              /\ locals'[n.in][n.index + 1] = n.to
              /\ ParametersFirst(n.in)'
  <2>1. CASE n \in numbered
    <3>1. /\ n.in \in 1 .. current /\ n.index \in Nat /\ n.index + 1 \in DOMAIN locals[n.in]
          /\ locals[n.in][n.index + 1] = n.to /\ ParametersFirst(n.in)
      BY <1>1, <1>16, <2>1 DEF LocalsInv
    <3>2. n.index + 1 \in DOMAIN locals'[n.in] /\ locals'[n.in][n.index + 1] = n.to
      <4>1. CASE n.in = current
        BY <1>2, <1>6, <1>8, <3>1, <4>1
      <4>2. CASE n.in # current
        BY <1>8, <3>1, <4>2
      <4> QED
        BY <4>1, <4>2
    <3> QED
      BY <1>14, <3>1, <3>2
  <2>2. CASE n = new
    BY <1>8, <1>10, <1>11, <1>13, <1>15, <2>2, <1>1
  <2> QED
    BY <1>9, <2>1, <2>2
<1>17. ASSUME NEW m \in 1 .. current'
       PROVE  \A i, j \in DOMAIN locals'[m] : locals'[m][i] = locals'[m][j] => i = j
  <2>1. CASE m = current
    BY <1>6, <1>8, <2>1
  <2>2. CASE m # current
    BY <1>1, <1>8, <2>2 DEF LocalsInv
  <2> QED
    BY <2>1, <2>2
<1> QED
  BY <1>1, <1>8, <1>15, <1>16, <1>17 DEF LocalsInv

(* Every step keeps the locals distinct, the parameters first.             *)
LEMMA LocalsStep == ProgressInv /\ LocalsInv /\ [Next]_vars => LocalsInv'
<1> SUFFICES ASSUME ProgressInv, LocalsInv, [Next]_vars PROVE LocalsInv'
  OBVIOUS
<1>0. /\ assembly \in Assemblies /\ current \in Nat /\ Len(assembly) \in Nat
      /\ current + 1 \in 1 .. Len(assembly) <=> current < Len(assembly)
  <2>1. assembly \in Assemblies /\ current \in 0 .. Len(assembly)
    BY DEF ProgressInv
  <2>2. Len(assembly) \in Nat
    BY <2>1, AssemblyFacts
  <2> QED
    BY <2>1, <2>2
<1>1. CASE BeginMethod
  <2>1. /\ current' = current + 1 /\ current + 1 \in 1 .. Len(assembly) /\ UNCHANGED <<assembly, numbered>>
        /\ locals' = Append(locals, ParameterNames(assembly[current + 1]))
    BY <1>0, <1>1 DEF BeginMethod
  <2>2. PICK m \in 1 .. Len(assembly) : m = current + 1
    BY <2>1
  <2>3. PICK names : names = ParameterNames(assembly[m])
    OBVIOUS
  <2>4. /\ names \in Seq(Names) /\ DOMAIN names = 1 .. Signature(assembly[m]).params
        /\ \A i, j \in DOMAIN names : names[i] = names[j] => i = j
    <3>1. PICK a \in Assemblies : a = assembly
      BY <1>0
    <3>2. m \in 1 .. Len(a)
      BY <3>1
    <3> QED
      BY <2>3, <3>1, <3>2, ParametersNamed
  <2>5. Signature(assembly[m]).params \in Nat
    BY <1>0, AssemblyFacts
  <2>6. ASSUME NEW i \in 0 .. Signature(assembly[m]).params - 1
        PROVE  i + 1 \in DOMAIN names /\ names[i + 1] = ArgName(i)
    <3>1. i + 1 \in 1 .. Signature(assembly[m]).params /\ (i + 1) - 1 = i
      BY <2>5
    <3>2. names[i + 1] = ArgName((i + 1) - 1)
      BY <2>3, <3>1 DEF ParameterNames
    <3> QED
      BY <2>4, <3>1, <3>2
  <2> QED
    BY <2>1, <2>2, <2>3, <2>4, <2>6, LocalsBegun
<1>2. CASE UnsupportedType
  <2>1. /\ current' = current + 1 /\ current + 1 \in 1 .. Len(assembly) /\ UNCHANGED <<assembly, numbered>>
        /\ phase' = "failed"
    BY <1>0, <1>2 DEF UnsupportedType
  <2>2. PICK m \in 1 .. Len(assembly) : m = current + 1
    BY <2>1
  <2>3. PICK all : all = ParameterNames(assembly[m])
    OBVIOUS
  <2>4. /\ all \in Seq(Names) /\ DOMAIN all = 1 .. Signature(assembly[m]).params
        /\ \A i, j \in DOMAIN all : all[i] = all[j] => i = j
    <3>1. PICK a \in Assemblies : a = assembly
      BY <1>0
    <3>2. m \in 1 .. Len(a)
      BY <3>1
    <3> QED
      BY <2>3, <3>1, <3>2, ParametersNamed
  <2>5. PICK named \in 0 .. Signature(assembly[m]).params : locals' = Append(locals, SubSeq(all, 1, named))
    BY <1>2, <2>1, <2>2, <2>3 DEF UnsupportedType
  <2>6. Signature(assembly[m]).params \in Nat
    BY <1>0, AssemblyFacts
  <2>7. PICK names : names = SubSeq(all, 1, named)
    OBVIOUS
  <2>8. /\ names \in Seq(Names) /\ DOMAIN names = 1 .. named
        /\ \A i \in 1 .. named : names[i] = all[i] /\ i \in DOMAIN all
    BY <2>4, <2>6, <2>7
  <2>9. \A i, j \in DOMAIN names : names[i] = names[j] => i = j
    BY <2>4, <2>8
  <2> QED
    BY <2>1, <2>5, <2>7, <2>8, <2>9, LocalsBegun
<1>3. CASE UseLocal
  <2>1. phase = "body" /\ use < Len(Method.uses)
    BY <1>3 DEF UseLocal, MeetsUse
  <2>2. Use \in AllUses
    BY <2>1, AssemblyFacts DEF ProgressInv, Use, Method
  <2>3. Use.to \in Names
    BY <2>2 DEF Names
  <2> QED
    BY <1>3, <2>3, LocalUsed
<1>4. ASSUME UNCHANGED <<assembly, current, locals>>, numbered \subseteq numbered',
             \A n \in numbered' \ numbered : n.kind # "local",
             phase' = "body" => phase = "body"
      PROVE  LocalsInv'
  <2>1. \A m : ParametersFirst(m)' <=> ParametersFirst(m)
    BY <1>4 DEF ParametersFirst
  <2> QED
    BY <1>4, <2>1 DEF LocalsInv
<1>5. CASE CompileCall \/ CompileStaticCall \/ CompileNewobj
  <2>1. /\ UNCHANGED <<assembly, current, locals, phase>> /\ numbered \subseteq numbered'
        /\ \A n \in numbered' \ numbered : n.kind \in {"function", "import", "global"}
    BY <1>5 DEF CompileCall, CompileStaticCall, CompileNewobj, Note
  <2> QED
    BY <1>4, <2>1
<1>6. CASE RejectUse \/ EndMethod \/ CannotRewrite \/ BeginModule \/ LayOutFunction \/ EndModule \/ UNCHANGED vars
  <2>1. UNCHANGED <<assembly, current, locals, numbered>> /\ (phase' = "body" => phase = "body")
    BY <1>6 DEF RejectUse, EndMethod, CannotRewrite, BeginModule, LayOutFunction, EndModule, vars
  <2> QED
    BY <1>4, <2>1
<1> QED
  BY <1>1, <1>2, <1>3, <1>5, <1>6 DEF Next
-----------------------------------------------------------------------------
(* The module as far as its functions have been laid out.  When no index   *)
(* was left without function, those of least index come first, each at the *)
(* position its index says.                                                *)
Signatures == [params : Nat, returns : BOOLEAN]
Dense == DOMAIN functionBuilders = 2 .. Cardinality(DOMAIN functionIndices) + 1

TypesInv ==
  /\ module.types \in Seq(Signatures)
  /\ \A i, j \in DOMAIN module.types : module.types[i] = module.types[j] => i = j

PlacesInv ==
  /\ module.functions \in Seq(1 .. current)
  /\ module.typeOf \in Seq(Nat)
  /\ Len(module.typeOf) = Len(module.functions)
  /\ \A p \in DOMAIN module.functions :
       /\ module.typeOf[p] + 1 \in DOMAIN module.types
       /\ module.types[module.typeOf[p] + 1] = Signature(assembly[module.functions[p]])
  /\ Dense => /\ laidOut = 2 .. Len(module.functions) + 1
              /\ \A p \in DOMAIN module.functions : module.functions[p] = functionBuilders[p + 1]

ExportsInv ==
  /\ module.exports \in Seq([name : {assembly[m].export : m \in 1 .. current}, index : Nat])
  /\ \A e \in DOMAIN module.exports :
       /\ module.exports[e].index \in laidOut
       /\ assembly[functionBuilders[module.exports[e].index]].isPublic
       /\ assembly[functionBuilders[module.exports[e].index]].export = module.exports[e].name
  /\ \A i \in laidOut :
       assembly[functionBuilders[i]].isPublic =>
         \E e \in DOMAIN module.exports :
           module.exports[e].index = i /\ module.exports[e].name = assembly[functionBuilders[i]].export

LayoutInv ==
  /\ laidOut \subseteq DOMAIN functionBuilders
  /\ phase \notin {"layout", "built"} => laidOut = {}
  /\ phase = "built" => laidOut = DOMAIN functionBuilders
  /\ phase \in {"layout", "built"} => TypesInv /\ PlacesInv /\ ExportsInv

(* A sequence with one more element.                                       *)
LEMMA OneMore ==
  ASSUME NEW S, NEW s \in Seq(S), NEW x \in S, NEW more, more = Append(s, x), NEW l, l = Len(s)
  PROVE  /\ more \in Seq(S) /\ Len(more) = l + 1 /\ DOMAIN more = 1 .. l + 1 /\ more[l + 1] = x
         /\ \A i \in 1 .. l : more[i] = s[i]
OBVIOUS

(* AddType finds the signature or appends it ...                           *)
LEMMA TypeAdded ==
  ASSUME NEW types, NEW f \in Signatures
  PROVE  AddType(types, f) = IF Contains(types, f) THEN types ELSE Append(types, f)
<1>1. f = [params |-> f.params, returns |-> f.returns]
  BY DEF Signatures
<1> QED
  BY <1>1 DEF AddType

(* ... and its index is where it is.                                       *)
LEMMA TypeFound ==
  ASSUME NEW types \in Seq(Signatures), NEW f \in Signatures, \E i \in DOMAIN types : types[i] = f
  PROVE  /\ TypeIndexOf(types, f) \in Nat /\ TypeIndexOf(types, f) + 1 \in DOMAIN types
         /\ types[TypeIndexOf(types, f) + 1] = f
<1> DEFINE i == CHOOSE k \in DOMAIN types : types[k] = f
<1>1. f = [params |-> f.params, returns |-> f.returns]
  BY DEF Signatures
<1>2. TypeIndexOf(types, f) = i - 1
  BY <1>1 DEF TypeIndexOf
<1>3. i \in DOMAIN types /\ types[i] = f
  OBVIOUS
<1>4. DOMAIN types = 1 .. Len(types) /\ Len(types) \in Nat
  OBVIOUS
<1> HIDE DEF i
<1>5. i - 1 \in Nat /\ (i - 1) + 1 = i
  BY <1>3, <1>4
<1> QED
  BY <1>2, <1>3, <1>5

(* Functions have indices from 2 on.                                       *)
LEMMA IndicesAreNumbers ==
  ASSUME FunctionsInv
  PROVE  DOMAIN functionBuilders \subseteq 2 .. Cardinality(DOMAIN functionIndices) + 1
<1> SUFFICES ASSUME NEW i \in DOMAIN functionBuilders
             PROVE  i \in 2 .. Cardinality(DOMAIN functionIndices) + 1
  OBVIOUS
<1>1. /\ assembly[functionBuilders[i]].name \in DOMAIN functionIndices
      /\ functionIndices[assembly[functionBuilders[i]].name] = i
  BY DEF FunctionsInv
<1>2. \A n \in DOMAIN functionIndices : functionIndices[n] \in 2 .. Cardinality(DOMAIN functionIndices) + 1
  BY DEF FunctionsInv, Numbering
<1> QED
  BY <1>1, <1>2

(* The next index is one that remains, and of a dense numbering the one    *)
(* behind those laid out.                                                  *)
LEMMA NextIndexIs ==
  ASSUME FunctionsInv, Remaining # {}
  PROVE  /\ NextIndex \in Remaining /\ NextIndex \in Nat
         /\ \A l \in Nat : Dense /\ laidOut = 2 .. l + 1 => NextIndex = l + 2
<1> DEFINE c == Cardinality(DOMAIN functionIndices)
<1>1. c \in Nat
  BY FS_CardinalityType DEF FunctionsInv, Numbering
<1>2. Remaining \subseteq 2 .. c + 1
  BY IndicesAreNumbers DEF Remaining
<1>3. Dense => DOMAIN functionBuilders = 2 .. c + 1
  BY DEF Dense
<1> HIDE DEF c
<1>4. Remaining \in SUBSET Nat
  BY <1>1, <1>2
<1>5. NextIndex \in Remaining
  BY <1>4, MinExists DEF NextIndex
<1>6. ASSUME NEW l \in Nat, Dense, laidOut = 2 .. l + 1 PROVE NextIndex = l + 2
  <2>1. Remaining = (2 .. c + 1) \ (2 .. l + 1)
    BY <1>3, <1>6 DEF Remaining
  <2>2. l + 2 \in Remaining /\ \A y \in Remaining : l + 2 <= y
    BY <1>1, <1>6, <2>1
  <2> QED
    BY <1>4, <2>2, MinIs DEF NextIndex
<1> QED
  BY <1>4, <1>5, <1>6

(* The types of the imports come first.                                    *)
LEMMA LayoutBegun ==
  ASSUME ProgressInv, LayoutInv, BeginModule
  PROVE  LayoutInv'
<1>1. /\ phase = "next" /\ phase' = "layout" /\ laidOut = {} /\ laidOut' = {}
      /\ UNCHANGED <<assembly, current, functionIndices, functionBuilders>>
      /\ current \in Nat
      /\ module' = [NoModule EXCEPT !.types = AddType(AddType(<<>>, FunctionImports[1]), FunctionImports[2])]
  <2>1. current \in 0 .. Len(assembly) /\ Len(assembly) \in Nat
    BY AssemblyFacts DEF ProgressInv
  <2> QED
    BY <2>1 DEF LayoutInv, BeginModule
<1>2. PICK s \in Signatures : s = [params |-> 1, returns |-> TRUE]
  BY DEF Signatures
<1>3. PICK t \in Signatures : t = [params |-> 1, returns |-> FALSE]
  BY DEF Signatures
<1>4. PICK one : one = (IF Contains(<<>>, s) THEN <<>> ELSE Append(<<>>, s))
  OBVIOUS
<1>5. PICK two : two = (IF Contains(one, t) THEN one ELSE Append(one, t))
  OBVIOUS
<1>6. AddType(<<>>, FunctionImports[1]) = one
  BY <1>2, <1>4 DEF AddType, FunctionImports
<1>7. AddType(one, FunctionImports[2]) = two
  BY <1>3, <1>5 DEF AddType, FunctionImports
<1>8. <<>> \in Seq(Signatures) /\ \A i, j \in DOMAIN <<>> : <<>>[i] = <<>>[j] => i = j
  OBVIOUS
<1>9. one \in Seq(Signatures) /\ \A i, j \in DOMAIN one : one[i] = one[j] => i = j
  BY <1>4, <1>8, ListedOnce
<1>10. two \in Seq(Signatures) /\ \A i, j \in DOMAIN two : two[i] = two[j] => i = j
  BY <1>5, <1>9, ListedOnce
<1>11. module'.types = two /\ module'.functions = <<>> /\ module'.typeOf = <<>> /\ module'.exports = <<>>
  BY <1>1, <1>6, <1>7 DEF NoModule
<1>12. TypesInv'
  BY <1>10, <1>11 DEF TypesInv
<1>13. PlacesInv'
  <2>1. laidOut' = 2 .. Len(<<>>) + 1
    BY <1>1
  <2> QED
    BY <1>11, <2>1 DEF PlacesInv
<1>14. ExportsInv'
  <2> DEFINE E == [name : {assembly[m].export : m \in 1 .. current}, index : Nat]
  <2>1. <<>> \in Seq(E')
    OBVIOUS
  <2> HIDE DEF E
  <2>2. module'.exports \in Seq(E')
    BY <1>11, <2>1
  <2>3. DOMAIN module'.exports = {}
    BY <1>11
  <2> QED
    BY <1>1, <2>2, <2>3 DEF ExportsInv, E
<1> QED
  BY <1>1, <1>12, <1>13, <1>14 DEF LayoutInv

(* One more function is laid out.                                          *)
LEMMA FunctionLaidOut ==
  ASSUME ProgressInv, FunctionsInv, LayoutInv, LayOutFunction
  PROVE  LayoutInv'
<1>1. /\ phase = "layout" /\ phase' = "layout" /\ Remaining # {}
      /\ UNCHANGED <<assembly, current, functionIndices, functionBuilders>>
      /\ laidOut' = laidOut \cup {NextIndex}
      /\ TypesInv /\ PlacesInv /\ ExportsInv /\ laidOut \subseteq DOMAIN functionBuilders
  BY DEF LayoutInv, LayOutFunction
<1>2. /\ NextIndex \in Remaining /\ NextIndex \in Nat
      /\ \A l \in Nat : Dense /\ laidOut = 2 .. l + 1 => NextIndex = l + 2
  BY <1>1, NextIndexIs
<1>3. PICK k \in Nat : k = NextIndex
  BY <1>2
<1>4. k \in DOMAIN functionBuilders /\ k \notin laidOut
  BY <1>2, <1>3 DEF Remaining
<1>5. PICK m \in 1 .. current : m = functionBuilders[k]
  BY <1>4 DEF FunctionsInv
<1>6. m \in 1 .. Len(assembly) /\ assembly \in Assemblies /\ current \in 0 .. Len(assembly) /\ Len(assembly) \in Nat
  BY AssemblyFacts DEF ProgressInv
<1>7. PICK s \in Signatures : s = Signature(assembly[m])
  BY <1>6, AssemblyFacts DEF Signatures
<1>8. PICK old \in Seq(Signatures) : old = module.types
  BY <1>1 DEF TypesInv
<1>9. PICK new : new = AddType(old, s)
  OBVIOUS
<1>10. PICK t : t = TypeIndexOf(new, s)
  OBVIOUS
<1>11. /\ new \in Seq(Signatures) /\ DOMAIN old \subseteq DOMAIN new
       /\ \A i \in DOMAIN old : new[i] = old[i]
       /\ \A i, j \in DOMAIN new : new[i] = new[j] => i = j
       /\ t \in Nat /\ t + 1 \in DOMAIN new /\ new[t + 1] = s
  <2>1. \A i, j \in DOMAIN old : old[i] = old[j] => i = j
    BY <1>1, <1>8 DEF TypesInv
  <2>2. /\ new \in Seq(Signatures) /\ DOMAIN old \subseteq DOMAIN new
        /\ \A i \in DOMAIN old : new[i] = old[i]
        /\ \A i, j \in DOMAIN new : new[i] = new[j] => i = j
        /\ \E i \in DOMAIN new : new[i] = s
    <3>1. new = IF Contains(old, s) THEN old ELSE Append(old, s)
      BY <1>9, TypeAdded
    <3> QED
      BY <2>1, <3>1, ListedOnce
  <2>3. t \in Nat /\ t + 1 \in DOMAIN new /\ new[t + 1] = s
    BY <1>10, <2>2, TypeFound
  <2> QED
    BY <2>2, <2>3
<1>12. module' = [functions |-> Append(module.functions, m),
                  types     |-> new,
                  typeOf    |-> Append(module.typeOf, t),
                  exports   |-> IF assembly[m].isPublic
                                THEN Append(module.exports, ExportOf(assembly[m], k))
                                ELSE module.exports]
  BY <1>3, <1>5, <1>7, <1>8, <1>9, <1>10 DEF LayOutFunction
<1>13. /\ module'.functions = Append(module.functions, m) /\ module'.types = new
       /\ module'.typeOf = Append(module.typeOf, t)
       /\ module'.exports = IF assembly[m].isPublic
                            THEN Append(module.exports, ExportOf(assembly[m], k)) ELSE module.exports
  BY <1>12
<1>14. TypesInv'
  BY <1>11, <1>13 DEF TypesInv
<1>15. PlacesInv'
  <2>1. PICK functions \in Seq(1 .. current) : functions = module.functions
    BY <1>1 DEF PlacesInv
  <2>2. PICK typeOf \in Seq(Nat) : typeOf = module.typeOf
    BY <1>1 DEF PlacesInv
  <2>3. PICK l \in Nat : l = Len(functions)
    OBVIOUS
  <2>4. /\ Len(typeOf) = l
        /\ \A p \in 1 .. l : /\ typeOf[p] + 1 \in DOMAIN old
                             /\ old[typeOf[p] + 1] = Signature(assembly[functions[p]])
        /\ Dense => laidOut = 2 .. l + 1 /\ \A p \in 1 .. l : functions[p] = functionBuilders[p + 1]
    <3>1. DOMAIN functions = 1 .. l
      BY <2>3
    <3>2. Len(typeOf) = l /\ \A p \in DOMAIN functions : /\ typeOf[p] + 1 \in DOMAIN old
                                                        /\ old[typeOf[p] + 1] = Signature(assembly[functions[p]])
      BY <1>1, <1>8, <2>1, <2>2, <2>3 DEF PlacesInv
    <3>3. Dense => /\ laidOut = 2 .. Len(functions) + 1
                   /\ \A p \in DOMAIN functions : functions[p] = functionBuilders[p + 1]
      BY <1>1, <2>1 DEF PlacesInv
    <3> QED
      BY <2>3, <3>1, <3>2, <3>3
  <2>5. /\ module'.functions \in Seq(1 .. current) /\ Len(module'.functions) = l + 1
        /\ DOMAIN module'.functions = 1 .. l + 1
        /\ module'.functions[l + 1] = m
        /\ \A p \in 1 .. l : module'.functions[p] = functions[p]
    BY <1>13, <2>1, <2>3
  <2>6. /\ module'.typeOf \in Seq(Nat) /\ Len(module'.typeOf) = l + 1
        /\ module'.typeOf[l + 1] = t
        /\ \A p \in 1 .. l : module'.typeOf[p] = typeOf[p]
    <3>1. module'.typeOf = Append(typeOf, t) /\ t \in Nat /\ l = Len(typeOf) /\ typeOf \in Seq(Nat)
      BY <1>11, <1>13, <2>2, <2>4
    <3> QED
      BY <3>1, OneMore
  <2>7. ASSUME NEW p \in 1 .. l + 1
        PROVE  /\ module'.typeOf[p] + 1 \in DOMAIN module'.types
               /\ module'.types[module'.typeOf[p] + 1] = Signature(assembly[module'.functions[p]])
    <3>1. CASE p = l + 1
      BY <1>7, <1>11, <1>13, <2>5, <2>6, <3>1
    <3>2. CASE p # l + 1
      <4>1. p \in 1 .. l
        BY <3>2
      <4>2. module'.typeOf[p] = typeOf[p] /\ module'.functions[p] = functions[p]
        BY <2>5, <2>6, <4>1
      <4>3. typeOf[p] + 1 \in DOMAIN old /\ old[typeOf[p] + 1] = Signature(assembly[functions[p]])
        BY <2>4, <4>1
      <4>4. typeOf[p] + 1 \in DOMAIN new /\ new[typeOf[p] + 1] = old[typeOf[p] + 1]
        BY <1>11, <4>3
      <4> QED
        BY <1>13, <4>2, <4>3, <4>4
    <3> QED
      BY <3>1, <3>2
  <2>8. ASSUME Dense'
        PROVE  /\ laidOut' = 2 .. (l + 1) + 1
               /\ \A p \in 1 .. l + 1 : module'.functions[p] = functionBuilders[p + 1]
    <3>1. Dense
      BY <1>1, <2>8 DEF Dense
    <3>2. laidOut = 2 .. l + 1 /\ \A p \in 1 .. l : functions[p] = functionBuilders[p + 1]
      BY <2>4, <3>1
    <3>3. k = l + 2
      BY <1>2, <1>3, <3>1, <3>2
    <3>4. laidOut' = 2 .. (l + 1) + 1
      BY <1>1, <1>3, <3>2, <3>3
    <3>5. m = functionBuilders[(l + 1) + 1]
      BY <1>5, <3>3
    <3>6. \A p \in 1 .. l + 1 : p \in 1 .. l \/ p = l + 1
      OBVIOUS
    <3> QED
      BY <2>5, <3>2, <3>4, <3>5, <3>6
  <2> QED
    BY <1>1, <2>5, <2>6, <2>7, <2>8 DEF PlacesInv
<1>16. ExportsInv'
  <2> DEFINE E == [name : {assembly[o].export : o \in 1 .. current}, index : Nat]
  <2>1. PICK exports \in Seq(E) : exports = module.exports
    BY <1>1 DEF ExportsInv
  <2>2. /\ \A e \in DOMAIN exports :
             /\ exports[e].index \in laidOut
             /\ assembly[functionBuilders[exports[e].index]].isPublic
             /\ assembly[functionBuilders[exports[e].index]].export = exports[e].name
        /\ \A i \in laidOut :
             assembly[functionBuilders[i]].isPublic =>
               \E e \in DOMAIN exports : exports[e].index = i /\ exports[e].name = assembly[functionBuilders[i]].export
    BY <1>1, <2>1 DEF ExportsInv
  <2>3. laidOut' = laidOut \cup {k}
    BY <1>1, <1>3
  <2>4. CASE assembly[m].isPublic
    <3>1. PICK new2 : new2 = ExportOf(assembly[m], k)
      OBVIOUS
    <3>2. new2 \in E /\ new2.name = assembly[m].export /\ new2.index = k
      BY <3>1 DEF ExportOf
    <3> HIDE DEF E
    <3>3. module'.exports = Append(exports, new2)
      BY <1>13, <2>1, <2>4, <3>1
    <3>4. PICK l \in Nat : l = Len(exports)
      OBVIOUS
    <3>5. /\ module'.exports \in Seq(E) /\ DOMAIN module'.exports = 1 .. l + 1
          /\ module'.exports[l + 1] = new2 /\ DOMAIN exports = 1 .. l
          /\ \A e \in 1 .. l : module'.exports[e] = exports[e]
      BY <3>2, <3>3, <3>4
    <3>6. \A e \in 1 .. l + 1 : e \in 1 .. l \/ e = l + 1
      OBVIOUS
    <3>7. \A e \in DOMAIN module'.exports :
             /\ module'.exports[e].index \in laidOut'
             /\ assembly[functionBuilders[module'.exports[e].index]].isPublic
             /\ assembly[functionBuilders[module'.exports[e].index]].export = module'.exports[e].name
      BY <1>5, <2>2, <2>3, <2>4, <3>2, <3>5, <3>6
    <3>8. l + 1 \in DOMAIN module'.exports /\ \A e \in 1 .. l : e \in DOMAIN module'.exports
      BY <3>5
    <3>9. ASSUME NEW i \in laidOut', assembly[functionBuilders[i]].isPublic
          PROVE  \E e \in DOMAIN module'.exports :
                   module'.exports[e].index = i /\ module'.exports[e].name = assembly[functionBuilders[i]].export
      <4>1. CASE i = k
        BY <1>5, <3>2, <3>5, <3>8, <4>1
      <4>2. CASE i \in laidOut
        <5>1. PICK e \in DOMAIN exports : exports[e].index = i /\ exports[e].name = assembly[functionBuilders[i]].export
          BY <2>2, <3>9, <4>2
        <5> QED
          BY <3>5, <3>8, <5>1
      <4> QED
        BY <2>3, <4>1, <4>2
    <3> QED
      BY <1>1, <3>5, <3>7, <3>9 DEF ExportsInv, E
  <2>5. CASE ~assembly[m].isPublic
    <3>1. module'.exports = exports
      BY <1>13, <2>1, <2>5
    <3>2. \A i \in laidOut' : assembly[functionBuilders[i]].isPublic => i \in laidOut
      BY <1>5, <2>3, <2>5
    <3> QED
      BY <1>1, <2>2, <2>3, <3>1, <3>2 DEF ExportsInv
  <2> QED
    BY <2>4, <2>5
<1>17. laidOut' \subseteq DOMAIN functionBuilders'
  BY <1>1, <1>3, <1>4
<1> QED
  BY <1>1, <1>14, <1>15, <1>16, <1>17 DEF LayoutInv

(* Every step keeps the module as the builders have it.                    *)
LEMMA LayoutStep == ProgressInv /\ FunctionsInv /\ LayoutInv /\ [Next]_vars => LayoutInv'
<1> SUFFICES ASSUME ProgressInv, FunctionsInv, LayoutInv, [Next]_vars PROVE LayoutInv'
  OBVIOUS
<1>1. CASE BeginModule
  BY <1>1, LayoutBegun
<1>2. CASE LayOutFunction
  BY <1>2, FunctionLaidOut
<1>3. ASSUME UNCHANGED <<assembly, current, functionIndices, functionBuilders, module, laidOut>>,
             phase \in {"layout", "built"} <=> phase' \in {"layout", "built"},
             phase' = "built" => laidOut = DOMAIN functionBuilders
      PROVE  LayoutInv'
  <2>1. (TypesInv => TypesInv') /\ (PlacesInv => PlacesInv') /\ (ExportsInv => ExportsInv')
    <3>1. Dense' <=> Dense
      BY <1>3 DEF Dense
    <3>2. TypesInv => TypesInv'
      BY <1>3 DEF TypesInv
    <3>3. PlacesInv => PlacesInv'
      BY <1>3, <3>1 DEF PlacesInv
    <3>4. ExportsInv => ExportsInv'
      BY <1>3 DEF ExportsInv
    <3> QED
      BY <3>2, <3>3, <3>4
  <2> QED
    BY <1>3, <2>1 DEF LayoutInv
<1>4. CASE EndModule
  <2>1. /\ UNCHANGED <<assembly, current, functionIndices, functionBuilders, module, laidOut>>
        /\ phase = "layout" /\ phase' = "built" /\ Remaining = {}
    BY <1>4 DEF EndModule
  <2>2. laidOut = DOMAIN functionBuilders
    BY <2>1 DEF Remaining, LayoutInv
  <2> QED
    BY <1>3, <2>1, <2>2
<1>5. CASE UNCHANGED vars
  <2>1. UNCHANGED <<assembly, current, functionIndices, functionBuilders, module, laidOut, phase>>
    BY <1>5 DEF vars
  <2> QED
    BY <1>3, <2>1 DEF LayoutInv
<1>6. ASSUME laidOut' = laidOut, phase \notin {"layout", "built"}, phase' \notin {"layout", "built"}
      PROVE  LayoutInv'
  BY <1>6 DEF LayoutInv
<1>7. CASE BeginMethod \/ UnsupportedType \/ EndMethod \/ CannotRewrite
  <2>1. laidOut' = laidOut /\ phase \in {"next", "body"} /\ phase' \in {"next", "body", "failed"}
    BY <1>7 DEF BeginMethod, UnsupportedType, EndMethod, CannotRewrite, BodyCompiled
  <2> QED
    BY <1>6, <2>1
<1>8. CASE CompileCall \/ CompileNewobj \/ CompileStaticCall \/ RejectUse \/ UseLocal
  <2>1. laidOut' = laidOut /\ phase = "body" /\ phase' \in {"body", "failed"}
    BY <1>8 DEF CompileCall, CompileNewobj, CompileStaticCall, RejectUse, UseLocal, MeetsUse
  <2> QED
    BY <1>6, <2>1
<1> QED
  BY <1>1, <1>2, <1>4, <1>5, <1>7, <1>8 DEF Next
-----------------------------------------------------------------------------
(* Together the parts are inductive.                                       *)
IInv == ProgressInv /\ FunctionsInv /\ GlobalsInv /\ LocalsInv /\ LayoutInv

(* The first state: nothing has been numbered.                             *)
LEMMA InitIInv == Init => IInv
<1> SUFFICES ASSUME Init PROVE IInv
  OBVIOUS
<1>1. /\ assembly \in Assemblies /\ Len(assembly) \in Nat
      /\ phase = "next" /\ current = 0 /\ use = 0 /\ numbered = {} /\ rewritten = {} /\ laidOut = {}
      /\ functionIndices = <<>> /\ functionBuilders = <<>> /\ globals = <<>> /\ locals = <<>>
  BY AssemblyFacts DEF Init
<1>2. ProgressInv
  BY <1>1 DEF ProgressInv
<1>3. FunctionsInv
  <2>1. DOMAIN functionIndices = {} /\ DOMAIN functionBuilders = {}
    BY <1>1
  <2>2. Cardinality({}) = 0 /\ IsFiniteSet({})
    BY FS_EmptySet
  <2>3. Numbering(functionIndices)
    BY <2>1, <2>2 DEF Numbering
  <2> QED
    BY <1>1, <2>1, <2>3 DEF FunctionsInv
<1>4. GlobalsInv
  BY <1>1 DEF GlobalsInv
<1>5. LocalsInv
  BY <1>1 DEF LocalsInv
<1>6. LayoutInv
  BY <1>1 DEF LayoutInv
<1> QED
  BY <1>2, <1>3, <1>4, <1>5, <1>6 DEF IInv

(* It holds throughout.                                                    *)
LEMMA Inductive == Spec => []IInv
<1>1. IInv /\ [Next]_vars => IInv'
  BY ProgressStep, FunctionsStep, GlobalsStep, LocalsStep, LayoutStep DEF IInv
<1> QED
  BY InitIInv, <1>1, PTL DEF Spec
-----------------------------------------------------------------------------
(* The builders' state stays well-formed: function indices are numbers     *)
(* behind the imports, and each belongs to a method that has been met.     *)
THEOREM AssemblyTypeCorrect == Spec => []TypeOK
<1>1. IInv => TypeOK
  <2> SUFFICES ASSUME IInv PROVE TypeOK
    OBVIOUS
  <2>1. Len(FunctionImports) = 2
    BY DEF FunctionImports
  <2>2. Cardinality(DOMAIN functionIndices) \in Nat
    BY FS_CardinalityType DEF IInv, FunctionsInv, Numbering
  <2>3. ASSUME NEW n \in DOMAIN functionIndices
        PROVE  functionIndices[n] - Len(FunctionImports) \in 0 .. Cardinality(DOMAIN functionIndices) - 1
    <3>1. functionIndices[n] \in 2 .. Cardinality(DOMAIN functionIndices) + 1
      BY DEF IInv, FunctionsInv, Numbering
    <3> QED
      BY <2>1, <2>2, <3>1
  <2>4. \A i \in DOMAIN functionBuilders : functionBuilders[i] \in 1 .. current
    BY DEF IInv, FunctionsInv
  <2> QED
    BY <2>3, <2>4 DEF IInv, ProgressInv, LocalsInv, LayoutInv, TypeOK
<1> QED
  BY Inductive, <1>1, PTL

(* GetLocalIndex: in each function, distinct names have distinct numbers   *)
(* that the function declares, and parameter i is local i.                 *)
THEOREM LocalsAlwaysDistinct == Spec => []LocalsDistinct
<1>1. IInv => LocalsDistinct
  <2> SUFFICES ASSUME IInv, NEW n \in numbered, NEW o \in numbered,
                      n.kind = "local", o.kind = "local", n.in = o.in
               PROVE  /\ n.index = o.index <=> n.to = o.to
                      /\ \A i \in 0 .. Signature(assembly[n.in]).params - 1 : n.to = ArgName(i) <=> n.index = i
                      /\ n.index < Signature(assembly[n.in]).params + Len(locals[n.in])
    BY DEF LocalsDistinct
  <2>1. /\ n.in \in 1 .. current /\ locals \in Seq(Seq(Names)) /\ Len(locals) = current
        /\ n.index \in Nat /\ n.index + 1 \in DOMAIN locals[n.in] /\ locals[n.in][n.index + 1] = n.to
        /\ o.index \in Nat /\ o.index + 1 \in DOMAIN locals[n.in] /\ locals[n.in][o.index + 1] = o.to
        /\ ParametersFirst(n.in)
        /\ current \in 0 .. Len(assembly) /\ assembly \in Assemblies
    BY DEF IInv, ProgressInv, LocalsInv
  <2>2. \A i, j \in DOMAIN locals[n.in] : locals[n.in][i] = locals[n.in][j] => i = j
    BY <2>1 DEF IInv, LocalsInv
  <2>3. /\ locals[n.in] \in Seq(Names) /\ DOMAIN locals[n.in] = 1 .. Len(locals[n.in])
        /\ Len(locals[n.in]) \in Nat
    BY <2>1
  <2>4. Signature(assembly[n.in]).params \in Nat
    <3>1. Len(assembly) \in Nat
      BY <2>1, AssemblyFacts
    <3>2. n.in \in 1 .. Len(assembly)
      BY <2>1, <3>1
    <3> QED
      BY <2>1, <3>2, AssemblyFacts
  <2>5. n.index = o.index <=> n.to = o.to
    BY <2>1, <2>2
  <2>6. ASSUME NEW i \in 0 .. Signature(assembly[n.in]).params - 1 PROVE n.to = ArgName(i) <=> n.index = i
    <3>1. i + 1 \in DOMAIN locals[n.in] /\ locals[n.in][i + 1] = ArgName(i)
      BY <2>1 DEF ParametersFirst
    <3>2. i \in Nat
      BY <2>4
    <3>3. ASSUME n.to = ArgName(i) PROVE n.index = i
      <4>1. n.index + 1 = i + 1
        BY <2>1, <2>2, <3>1, <3>3
      <4> QED
        BY <2>1, <3>2, <4>1
    <3>4. ASSUME n.index = i PROVE n.to = ArgName(i)
      BY <2>1, <3>1, <3>4
    <3> QED
      BY <3>3, <3>4
  <2>7. n.index < Signature(assembly[n.in]).params + Len(locals[n.in])
    BY <2>1, <2>3, <2>4
  <2> QED
    BY <2>5, <2>6, <2>7
<1> QED
  BY Inductive, <1>1, PTL

(* When every function that is called has been compiled no index is left   *)
(* without function, so an index is the function's position.               *)
LEMMA PositionsOfBuilt ==
  ASSUME IInv, Built, ClosedUnderCalls
  PROVE  /\ \A i \in DOMAIN functionBuilders : IsFunction(i, assembly[functionBuilders[i]].name)
         /\ \A name \in DOMAIN functionIndices : functionIndices[name] \in DOMAIN functionBuilders
         /\ \A i \in DOMAIN functionBuilders : functionBuilders[i] \in 1 .. current
         /\ current = Len(assembly) /\ assembly \in Assemblies /\ DOMAIN assembly = 1 .. current
<1>1. /\ FunctionsInv /\ TypesInv /\ PlacesInv /\ ExportsInv /\ laidOut = DOMAIN functionBuilders
      /\ current = Len(assembly) /\ assembly \in Assemblies
  BY DEF IInv, ProgressInv, LayoutInv, Built
<1>2. Len(assembly) \in Nat /\ DOMAIN assembly = 1 .. current
  BY <1>1, AssemblyFacts
<1> DEFINE c == Cardinality(DOMAIN functionIndices)
<1>3. c \in Nat
  BY <1>1, FS_CardinalityType DEF FunctionsInv, Numbering
<1>4. /\ \A m \in 1 .. current : /\ assembly[m].name \in DOMAIN functionIndices
                                 /\ functionIndices[assembly[m].name] \in DOMAIN functionBuilders
      /\ \A i \in DOMAIN functionBuilders : functionBuilders[i] \in 1 .. current
      /\ \A name \in DOMAIN functionIndices :
           \/ \E m \in 1 .. current : assembly[m].name = name
           \/ \E n \in numbered : n.kind = "function" /\ n.to = name
  BY <1>1 DEF FunctionsInv
<1>5. ASSUME NEW name \in DOMAIN functionIndices
      PROVE  functionIndices[name] \in DOMAIN functionBuilders
  <2>1. PICK m \in 1 .. current : assembly[m].name = name
    <3>1. CASE \E n \in numbered : n.kind = "function" /\ n.to = name
      <4>1. name \in Compiled
        BY <3>1 DEF ClosedUnderCalls
      <4> QED
        BY <1>2, <4>1 DEF Compiled
    <3> QED
      BY <1>4, <3>1
  <2> QED
    BY <1>4, <2>1
<1>6. \A k \in 2 .. c + 1 : \E name \in DOMAIN functionIndices : functionIndices[name] = k
  BY <1>1 DEF FunctionsInv, Numbering
<1>7. DOMAIN functionBuilders \subseteq 2 .. c + 1
  BY <1>1, IndicesAreNumbers
<1>8. Dense
  BY <1>5, <1>6, <1>7 DEF Dense
<1> HIDE DEF c
<1>9. PICK l \in Nat : /\ DOMAIN module.functions = 1 .. l /\ laidOut = 2 .. l + 1
                       /\ \A p \in DOMAIN module.functions : module.functions[p] = functionBuilders[p + 1]
  <2>1. module.functions \in Seq(1 .. current)
    BY <1>1 DEF PlacesInv
  <2>2. Len(module.functions) \in Nat /\ DOMAIN module.functions = 1 .. Len(module.functions)
    BY <2>1
  <2>3. /\ laidOut = 2 .. Len(module.functions) + 1
        /\ \A p \in DOMAIN module.functions : module.functions[p] = functionBuilders[p + 1]
    BY <1>1, <1>8 DEF PlacesInv
  <2> QED
    BY <2>2, <2>3
<1>10. ASSUME NEW i \in DOMAIN functionBuilders PROVE IsFunction(i, assembly[functionBuilders[i]].name)
  <2>1. i \in 2 .. l + 1
    BY <1>1, <1>9
  <2>2. Len(FunctionImports) = 2
    BY DEF FunctionImports
  <2>3. i - Len(FunctionImports) + 1 \in 1 .. l /\ (i - Len(FunctionImports) + 1) + 1 = i
    BY <2>1, <2>2
  <2>4. module.functions[i - Len(FunctionImports) + 1] = functionBuilders[i]
    BY <1>9, <2>3
  <2> QED
    BY <1>9, <2>3, <2>4 DEF IsFunction
<1> QED
  BY <1>1, <1>2, <1>4, <1>5, <1>10

(* The numbers handed out before the functions were laid out are the       *)
(* positions of the module that ToModule returns.                          *)
THEOREM IndexSpacesAlwaysAgree == Spec => []IndexSpacesAgree
<1>1. IInv => IndexSpacesAgree
  <2> SUFFICES ASSUME IInv, Built, ClosedUnderCalls
               PROVE  /\ \A n \in numbered : Resolves(n)
                      /\ \A e \in DOMAIN module.exports :
                           \E i \in DOMAIN assembly :
                             /\ assembly[i].isPublic /\ assembly[i].export = module.exports[e].name
                             /\ IsFunction(module.exports[e].index, assembly[i].name)
                      /\ \A p \in DOMAIN module.functions :
                           module.types[module.typeOf[p] + 1] = Signature(assembly[module.functions[p]])
    BY DEF IndexSpacesAgree
  <2>1. /\ \A i \in DOMAIN functionBuilders : IsFunction(i, assembly[functionBuilders[i]].name)
        /\ \A name \in DOMAIN functionIndices : functionIndices[name] \in DOMAIN functionBuilders
        /\ \A i \in DOMAIN functionBuilders : functionBuilders[i] \in 1 .. current
        /\ current = Len(assembly) /\ assembly \in Assemblies /\ DOMAIN assembly = 1 .. current
    BY PositionsOfBuilt
  <2>2. FunctionsInv /\ GlobalsInv /\ PlacesInv /\ ExportsInv /\ laidOut = DOMAIN functionBuilders
    BY DEF IInv, LayoutInv, Built
  <2>3. ASSUME NEW n \in numbered, n.kind = "function" PROVE IsFunction(n.index, n.to)
    <3>1. n.to \in DOMAIN functionIndices /\ n.index = functionIndices[n.to]
      BY <2>2, <2>3 DEF FunctionsInv
    <3>2. n.index \in DOMAIN functionBuilders
      BY <2>1, <3>1
    <3>3. /\ assembly[functionBuilders[n.index]].name \in DOMAIN functionIndices
          /\ functionIndices[assembly[functionBuilders[n.index]].name] = n.index
      BY <2>2, <3>2 DEF FunctionsInv
    <3>4. assembly[functionBuilders[n.index]].name = n.to
      BY <2>2, <3>1, <3>3 DEF FunctionsInv, Numbering
    <3>5. IsFunction(n.index, assembly[functionBuilders[n.index]].name)
      BY <2>1, <3>2
    <3> QED
      BY <3>4, <3>5
  <2>4. ASSUME NEW n \in numbered
        PROVE  /\ n.kind = "global" => n.index + 1 \in DOMAIN globals /\ globals[n.index + 1] = n.to
               /\ n.kind = "import" => /\ n.index + 1 \in DOMAIN FunctionImports
                                       /\ FunctionImports[n.index + 1].name = n.to
    BY <2>2 DEF GlobalsInv
  <2>5. ASSUME NEW n \in numbered PROVE Resolves(n)
    <3>1. n.kind \in NoteKinds
      BY DEF IInv, ProgressInv
    <3> QED
      BY <2>3, <2>4, <3>1 DEF Resolves, NoteKinds
  <2>6. ASSUME NEW e \in DOMAIN module.exports
        PROVE  \E i \in DOMAIN assembly :
                 /\ assembly[i].isPublic /\ assembly[i].export = module.exports[e].name
                 /\ IsFunction(module.exports[e].index, assembly[i].name)
    <3>1. PICK k \in DOMAIN functionBuilders : k = module.exports[e].index
      BY <2>2 DEF ExportsInv
    <3>2. assembly[functionBuilders[k]].isPublic /\ assembly[functionBuilders[k]].export = module.exports[e].name
      BY <2>2, <3>1 DEF ExportsInv
    <3>3. functionBuilders[k] \in DOMAIN assembly /\ IsFunction(k, assembly[functionBuilders[k]].name)
      BY <2>1
    <3> QED
      BY <3>1, <3>2, <3>3
  <2>7. \A p \in DOMAIN module.functions :
          module.types[module.typeOf[p] + 1] = Signature(assembly[module.functions[p]])
    BY <2>2 DEF PlacesInv
  <2> QED
    BY <2>5, <2>6, <2>7
<1> QED
  BY Inductive, <1>1, PTL

(* A method rewritten into a call by name finds under that name its own    *)
(* function, and no other.                                                 *)
THEOREM InteropAlwaysFindsFunction == Spec => []InteropFindsFunction
<1>1. IInv => InteropFindsFunction
  <2> SUFFICES ASSUME IInv, Built, ClosedUnderCalls, NEW i \in rewritten, assembly[i].isPublic, OwnName(i)
               PROVE  Finds(i)
    BY DEF InteropFindsFunction
  <2>1. /\ \A j \in DOMAIN functionBuilders : IsFunction(j, assembly[functionBuilders[j]].name)
        /\ \A j \in DOMAIN functionBuilders : functionBuilders[j] \in 1 .. current
        /\ current = Len(assembly) /\ assembly \in Assemblies /\ DOMAIN assembly = 1 .. current
    BY PositionsOfBuilt
  <2>2. FunctionsInv /\ ExportsInv /\ laidOut = DOMAIN functionBuilders /\ i \in 1 .. current
    BY DEF IInv, ProgressInv, LayoutInv, Built
  <2>3. PICK k \in DOMAIN functionBuilders : k = functionIndices[assembly[i].name]
    BY <2>2 DEF FunctionsInv
  <2>4. /\ assembly[i].name \in DOMAIN functionIndices
        /\ assembly[functionBuilders[k]].name \in DOMAIN functionIndices
        /\ functionIndices[assembly[functionBuilders[k]].name] = k
    BY <2>2, <2>3 DEF FunctionsInv
  <2>5. assembly[functionBuilders[k]].name = assembly[i].name
    BY <2>2, <2>3, <2>4 DEF FunctionsInv, Numbering
  <2>6. functionBuilders[k] = i
    BY <2>1, <2>2, <2>5 DEF OwnName
  <2>7. \E e \in DOMAIN module.exports : module.exports[e].name = assembly[i].export
    BY <2>2, <2>6 DEF ExportsInv
  <2>8. ASSUME NEW e \in DOMAIN module.exports, module.exports[e].name = assembly[i].export
        PROVE  IsFunction(module.exports[e].index, assembly[i].name)
    <3>1. PICK j \in DOMAIN functionBuilders : j = module.exports[e].index
      BY <2>2 DEF ExportsInv
    <3>2. assembly[functionBuilders[j]].isPublic /\ assembly[functionBuilders[j]].export = assembly[i].export
      BY <2>2, <2>8, <3>1 DEF ExportsInv
    <3>3. functionBuilders[j] = i
      BY <2>1, <3>2 DEF OwnName
    <3> QED
      BY <2>1, <3>1, <3>3
  <2> QED
    BY <2>7, <2>8 DEF Finds
<1> QED
  BY Inductive, <1>1, PTL
=============================================================================
