--------------------------- MODULE ModuleAssembly ---------------------------
(***************************************************************************)
(* Compiler.CompileToWasm with WasmModuleBuilder and WasmFunctionBuilder:  *)
(* the methods of an assembly's top-level types are compiled one after the *)
(* other; each use of a function, a type handle or a local is numbered the *)
(* moment it is met; ToModule then lays the functions out, one iteration   *)
(* of its loop after the other.  A number is right when the module's index *)
(* spaces, which WebAssembly counts by position, have at that position     *)
(* what was meant.                                                         *)
(*                                                                         *)
(* A method is reduced to what it makes the builders do, in order: its     *)
(* uses.  The control flow around them is MethodBodyCompiler's.            *)
(***************************************************************************)
EXTENDS Integers, FiniteSets, SequencesExt

CONSTANTS
  Assemblies,   (* the assemblies a behaviour may compile                  *)
  ArgName(_)    (* the name of the local of a parameter: $"arg{paramIndex}" *)

UseKinds == {"call", "newobj", "static", "local", "unsupported"}

(* The wasm function of a method takes "this" as its first parameter.      *)
Signature(m) == [params |-> m.params + (IF m.hasThis THEN 1 ELSE 0), returns |-> m.returns]

(* The assemblies are sequences of methods: the FullName, whether it is    *)
(* public, its type's and its own name as ExportName formats them (no      *)
(* namespace), its shape, whether its parameter and result types have a    *)
(* WebAssembly type, and its uses.                                         *)
ASSUME AssembliesAssumption ==
  \A a \in Assemblies :
    /\ a \in Seq({a[i] : i \in DOMAIN a})
    /\ \A i \in DOMAIN a :
         /\ a[i].isPublic \in BOOLEAN /\ a[i].hasThis \in BOOLEAN /\ a[i].hasBody \in BOOLEAN
         /\ a[i].returns \in BOOLEAN /\ a[i].params \in Nat /\ a[i].typed \in BOOLEAN
         /\ a[i].uses \in Seq({a[i].uses[j] : j \in DOMAIN a[i].uses})
         /\ \A j \in DOMAIN a[i].uses : a[i].uses[j].kind \in UseKinds

(* A number follows the same three letters in each name.                   *)
ASSUME ArgNamesAssumption ==
  \A a \in Assemblies : \A m \in DOMAIN a : \A i, j \in 0 .. Signature(a[m]).params - 1 :
    ArgName(i) = ArgName(j) => i = j

VARIABLES
  assembly,          (* the methods, in the order of Module.Types           *)
  phase,             (* "next", "body", "layout", "built", "failed"         *)
  current,           (* number of the method being compiled                 *)
  use,               (* how many of its uses have been numbered             *)
  functionIndices,   (* _functionIndicesByName                              *)
  functionBuilders,  (* _functionBuildersByIndex: index -> method number    *)
  globals,           (* _globalsByIndex: the names, in the order of index   *)
  locals,            (* _localsByName of each method compiled               *)
  numbered,          (* history: every number handed out, and what for      *)
  rewritten,         (* methods whose body is now a call into JavaScript    *)
  module,            (* what ToModule returns                               *)
  laidOut            (* the function indices its loop has come past         *)

vars == <<assembly, phase, current, use, functionIndices, functionBuilders, globals, locals,
          numbered, rewritten, module, laidOut>>

Method == assembly[current]
Use    == Method.uses[use + 1]
-----------------------------------------------------------------------------
(* WasmModuleBuilder                                                       *)

FunctionImports ==
  <<[name |-> "mono_wasm_object_new", params |-> 1, returns |-> TRUE],
    [name |-> "WriteLine",            params |-> 1, returns |-> FALSE]>>

ImportNames == {FunctionImports[i].name : i \in DOMAIN FunctionImports}
GetStaticImportIndex(name) == (CHOOSE i \in DOMAIN FunctionImports : FunctionImports[i].name = name) - 1

(* Mutant: no room left for the imports, which come first.                 *)
FunctionIndexWithoutImports(indices, name) ==
  IF name \in DOMAIN indices THEN indices[name] ELSE Cardinality(DOMAIN indices)

FunctionIndexOf(indices, name) ==
  IF name \in DOMAIN indices
  THEN indices[name]
  ELSE Len(FunctionImports) + Cardinality(DOMAIN indices)

GetOrReserveFunctionIndex(name) ==
  functionIndices' = [n \in DOMAIN functionIndices \cup {name} |-> FunctionIndexOf(functionIndices, n)]

GlobalsWith(name) == IF Contains(globals, name) THEN globals ELSE Append(globals, name)
GlobalIndexOf(name, gs) == (CHOOSE i \in DOMAIN gs : gs[i] = name) - 1

(* AddType looks for a type with the same result and as many parameters.   *)
(* Its comparison of the parameters' types ends in a continue that goes on *)
(* with the next parameter, so it rejects nothing; all of them are i32.    *)
AddType(types, f) ==
  LET type == [params |-> f.params, returns |-> f.returns]
  IN  IF Contains(types, type) THEN types ELSE Append(types, type)

TypeIndexOf(types, f) ==
  (CHOOSE i \in DOMAIN types : types[i] = [params |-> f.params, returns |-> f.returns]) - 1

NoModule == [functions |-> <<>>, types |-> <<>>, typeOf |-> <<>>, exports |-> <<>>]

(* The functions that have not been laid out; _functionBuildersByIndex is  *)
(* sorted, so the one with the least index comes next.                     *)
Remaining == DOMAIN functionBuilders \ laidOut

(* Mutant: in the order in which they were compiled.                       *)
NextIndexAsCompiled ==
  CHOOSE i \in Remaining : \A j \in Remaining : functionBuilders[i] <= functionBuilders[j]

NextIndex == Min(Remaining)

(* Mutant: the imports forgotten in the exports.                           *)
ExportWithoutImports(m, index) == [name |-> m.export, index |-> index - Len(FunctionImports)]

ExportOf(m, index) == [name |-> m.export, index |-> index]

-----------------------------------------------------------------------------
(* WasmFunctionBuilder.GetLocalIndex: names get the next number.           *)
LocalsWith(names, name) == IF Contains(names, name) THEN names ELSE Append(names, name)
LocalIndexOf(names, name) == (CHOOSE i \in DOMAIN names : names[i] = name) - 1

(* Mutant: "this" gets no name.                                            *)
ParameterNamesWithoutThis(m) == [i \in 1 .. m.params |-> ArgName(i - 1)]

(* CompileMethod names the parameters first.                               *)
ParameterNames(m) == [i \in 1 .. Signature(m).params |-> ArgName(i - 1)]

Note(kind, to, index) == numbered' = numbered \cup {[in |-> current, kind |-> kind, to |-> to, index |-> index]}
-----------------------------------------------------------------------------
Init ==
  /\ assembly \in Assemblies
  /\ phase = "next"
  /\ current = 0
  /\ use = 0
  /\ functionIndices = <<>>
  /\ functionBuilders = <<>>
  /\ globals = <<>>
  /\ locals = <<>>
  /\ numbered = {}
  /\ rewritten = {}
  /\ module = NoModule
  /\ laidOut = {}

(* The constructor of WasmFunctionBuilder takes the index reserved by an   *)
(* earlier use of the method, or a new one.                                *)
NewFunction(m) ==
  /\ GetOrReserveFunctionIndex(assembly[m].name)
  /\ LET index == functionIndices'[assembly[m].name]
     IN  functionBuilders' = [i \in DOMAIN functionBuilders \cup {index} |->
                                IF i = index THEN m ELSE functionBuilders[i]]

(* CompileMethod, up to the body.                                          *)
BeginMethod ==
  /\ phase = "next"
  /\ current < Len(assembly)
  /\ assembly[current + 1].typed
  /\ current' = current + 1
  /\ NewFunction(current')
  /\ locals' = Append(locals, ParameterNames(assembly[current']))
  /\ use' = 0
  /\ phase' = "body"
  /\ UNCHANGED <<assembly, globals, numbered, rewritten, module, laidOut>>

(* ToWebAssemblyType throws for the result or for a parameter: some of the *)
(* parameters have their local, the body is never reached.                 *)
UnsupportedType ==
  /\ phase = "next"
  /\ current < Len(assembly)
  /\ ~assembly[current + 1].typed
  /\ current' = current + 1
  /\ NewFunction(current')
  /\ \E named \in 0 .. Signature(assembly[current']).params :
       locals' = Append(locals, SubSeq(ParameterNames(assembly[current']), 1, named))
  /\ phase' = "failed"
  /\ UNCHANGED <<assembly, use, globals, numbered, rewritten, module, laidOut>>

MeetsUse(kind) ==
  /\ phase = "body"
  /\ Method.hasBody
  /\ use < Len(Method.uses)
  /\ Use.kind = kind
  /\ use' = use + 1

(* Call and Callvirt of a method of this assembly.                         *)
CompileCall ==
  /\ MeetsUse("call")
  /\ GetOrReserveFunctionIndex(Use.to)
  /\ Note("function", Use.to, functionIndices'[Use.to])
  /\ UNCHANGED <<assembly, phase, current, functionBuilders, globals, locals, rewritten, module, laidOut>>

(* Newobj: the type's handle, the allocator, the constructor.              *)
CompileNewobj ==
  /\ MeetsUse("newobj")
  /\ globals' = GlobalsWith(Use.type)
  /\ GetOrReserveFunctionIndex(Use.to)
  /\ numbered' = numbered \cup
       {[in |-> current, kind |-> "global", to |-> Use.type, index |-> GlobalIndexOf(Use.type, globals')],
        [in |-> current, kind |-> "import", to |-> "mono_wasm_object_new",
         index |-> GetStaticImportIndex("mono_wasm_object_new")],
        [in |-> current, kind |-> "function", to |-> Use.to, index |-> functionIndices'[Use.to]]}
  /\ UNCHANGED <<assembly, phase, current, functionBuilders, locals, rewritten, module, laidOut>>

(* A call of a method of another assembly must be a static import.         *)
CompileStaticCall ==
  /\ MeetsUse("static")
  /\ Use.to \in ImportNames
  /\ Note("import", Use.to, GetStaticImportIndex(Use.to))
  /\ UNCHANGED <<assembly, phase, current, functionIndices, functionBuilders, globals, locals,
                 rewritten, module, laidOut>>

(* An unknown import and an unsupported opcode throw.                      *)
RejectUse ==
  /\ MeetsUse("unsupported") \/ (MeetsUse("static") /\ Use.to \notin ImportNames)
  /\ phase' = "failed"
  /\ UNCHANGED <<assembly, current, functionIndices, functionBuilders, globals, locals, numbered,
                 rewritten, module, laidOut>>

UseLocal ==
  /\ MeetsUse("local")
  /\ locals' = [locals EXCEPT ![current] = LocalsWith(@, Use.to)]
  /\ Note("local", Use.to, LocalIndexOf(locals'[current], Use.to))
  /\ UNCHANGED <<assembly, phase, current, functionIndices, functionBuilders, globals, rewritten, module, laidOut>>

BodyCompiled == phase = "body" /\ (use = Len(Method.uses) \/ ~Method.hasBody)

(* ReplaceWithJSInteropCall follows each method's compilation.             *)
MaxInteropArgs == 3

EndMethod ==
  /\ BodyCompiled
  /\ Method.hasBody
  /\ Method.params <= MaxInteropArgs
  /\ rewritten' = rewritten \cup {current}
  /\ phase' = "next"
  /\ UNCHANGED <<assembly, current, use, functionIndices, functionBuilders, globals, locals,
                 numbered, module, laidOut>>

(* It throws for a method without body, whose Body is null, and for one    *)
(* with too many parameters; either ends the whole compilation.            *)
CannotRewrite ==
  /\ BodyCompiled
  /\ ~Method.hasBody \/ Method.params > MaxInteropArgs
  /\ phase' = "failed"
  /\ UNCHANGED <<assembly, current, use, functionIndices, functionBuilders, globals, locals,
                 numbered, rewritten, module, laidOut>>

(* ToModule begins with the types of the imports.                          *)
BeginModule ==
  /\ phase = "next"
  /\ current = Len(assembly)
  /\ module' = [NoModule EXCEPT !.types = AddType(AddType(<<>>, FunctionImports[1]), FunctionImports[2])]
  /\ phase' = "layout"
  /\ UNCHANGED <<assembly, current, use, functionIndices, functionBuilders, globals, locals,
                 numbered, rewritten, laidOut>>

(* Its loop over the functions.  A function's place is its position in the *)
(* module; an export refers to the index under which it was built.         *)
LayOutFunction ==
  /\ phase = "layout"
  /\ Remaining # {}
  /\ LET m     == functionBuilders[NextIndex]
         types == AddType(module.types, Signature(assembly[m]))
     IN  module' = [functions |-> Append(module.functions, m),
                    types     |-> types,
                    typeOf    |-> Append(module.typeOf, TypeIndexOf(types, Signature(assembly[m]))),
                    exports   |-> IF assembly[m].isPublic
                                  THEN Append(module.exports, ExportOf(assembly[m], NextIndex))
                                  ELSE module.exports]
  /\ laidOut' = laidOut \cup {NextIndex}
  /\ UNCHANGED <<assembly, phase, current, use, functionIndices, functionBuilders, globals, locals,
                 numbered, rewritten>>

EndModule ==
  /\ phase = "layout"
  /\ Remaining = {}
  /\ phase' = "built"
  /\ UNCHANGED <<assembly, current, use, functionIndices, functionBuilders, globals, locals,
                 numbered, rewritten, module, laidOut>>

Next ==
  \/ BeginMethod
  \/ UnsupportedType
  \/ CompileCall
  \/ CompileNewobj
  \/ CompileStaticCall
  \/ RejectUse
  \/ UseLocal
  \/ EndMethod
  \/ CannotRewrite
  \/ BeginModule
  \/ LayOutFunction
  \/ EndModule

Spec == Init /\ [][Next]_vars
-----------------------------------------------------------------------------
TypeOK ==
  /\ phase \in {"next", "body", "layout", "built", "failed"}
  /\ current \in 0 .. Len(assembly)
  /\ use \in Nat
  /\ \A n \in DOMAIN functionIndices :
       functionIndices[n] - Len(FunctionImports) \in 0 .. Cardinality(DOMAIN functionIndices) - 1
  /\ \A i \in DOMAIN functionBuilders : functionBuilders[i] \in 1 .. current
  /\ Len(locals) = current
  /\ rewritten \subseteq 1 .. current
  /\ laidOut \subseteq DOMAIN functionBuilders

Built == phase = "built"

(* The method behind a number of the module's function index space.        *)
IsFunction(index, name) ==
  LET p == index - Len(FunctionImports) + 1
  IN  p \in DOMAIN module.functions /\ assembly[module.functions[p]].name = name

Resolves(n) ==
  CASE n.kind = "function" -> IsFunction(n.index, n.to)
    [] n.kind = "import" -> n.index + 1 \in DOMAIN FunctionImports /\ FunctionImports[n.index + 1].name = n.to
    [] n.kind = "global" -> n.index + 1 \in DOMAIN globals /\ globals[n.index + 1] = n.to
    [] n.kind = "local"  -> TRUE

(* Every method the code calls is among those compiled: it is not in a     *)
(* nested type, which Module.Types does not list.                          *)
Compiled == {assembly[i].name : i \in DOMAIN assembly}
ClosedUnderCalls == \A n \in numbered : n.kind = "function" => n.to \in Compiled

(* The number under which a function, an import or a type handle is used,  *)
(* handed out while most of the assembly was still to be compiled, is the  *)
(* position at which the finished module has it; so are the exports', and  *)
(* the types' of the functions.                                            *)
IndexSpacesAgree ==
  Built /\ ClosedUnderCalls =>
    /\ \A n \in numbered : Resolves(n)
    /\ \A e \in DOMAIN module.exports :
         \E i \in DOMAIN assembly :
           /\ assembly[i].isPublic /\ assembly[i].export = module.exports[e].name
           /\ IsFunction(module.exports[e].index, assembly[i].name)
    /\ \A p \in DOMAIN module.functions :
         module.types[module.typeOf[p] + 1] = Signature(assembly[module.functions[p]])

(* "Call to a method in the same assembly": whatever method of the         *)
(* assembly it is, the call reaches it.                                    *)
EveryCallReachesItsMethod ==
  Built => \A n \in numbered : n.kind = "function" => Resolves(n)

(* Locals are numbered on demand behind the parameters, whose names are    *)
(* taken first: within a function no two names share a number, parameter i *)
(* is local i, and every number is one the function declares.              *)
LocalsDistinct ==
  \A n, o \in numbered :
    n.kind = "local" /\ o.kind = "local" /\ n.in = o.in =>
      /\ n.index = o.index <=> n.to = o.to
      /\ \A i \in 0 .. Signature(assembly[n.in]).params - 1 : n.to = ArgName(i) <=> n.index = i
      /\ n.index < Signature(assembly[n.in]).params + Len(locals[n.in])

(* Where the loader puts the exports of the module, a rewritten method     *)
(* finds its own function and no other.  Its names must be its own: types  *)
(* of the same name in different namespaces have one export, and a generic *)
(* method has the FullName of its namesake without type parameters.        *)
OwnName(i) ==
  \A j \in DOMAIN assembly :
    \/ assembly[j].isPublic /\ assembly[j].export = assembly[i].export
    \/ assembly[j].name = assembly[i].name
    => i = j

Finds(i) ==
  LET named == {e \in DOMAIN module.exports : module.exports[e].name = assembly[i].export}
  IN  named # {} /\ \A e \in named : IsFunction(module.exports[e].index, assembly[i].name)

InteropFindsFunction ==
  Built /\ ClosedUnderCalls =>
    \A i \in rewritten : assembly[i].isPublic /\ OwnName(i) => Finds(i)

(* "At runtime we can match it up with the AoT equivalent": the call that  *)
(* replaces a public method's body passes the function what it takes.      *)
InteropPassesAllArguments ==
  Built => \A i \in rewritten : assembly[i].isPublic => assembly[i].params = Signature(assembly[i]).params
=============================================================================
