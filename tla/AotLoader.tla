----------------------------- MODULE AotLoader ------------------------------
(***************************************************************************)
(* aot-loader.js in the page of the Blazor sample: calls of                *)
(* loadAotAssembly, each an asynchronous function that goes on when what   *)
(* it awaits has happened, while the runtime starts (RuntimeStart) and     *)
(* interpreted code calls rewritten methods.  Between two awaits nothing   *)
(* else runs: that is one action.                                          *)
(*                                                                         *)
(* The functions of an assembly are abstracted to one: an exports object   *)
(* is empty or full.  Its imports are names that the running program has   *)
(* a method or a type for, or not.                                         *)
(***************************************************************************)
EXTENDS RuntimeStart

CONSTANTS
  Loads,        (* calls of loadAotAssembly                                *)
  Assemblies,   (* names they are called with                              *)
  TypeImports,  (* TypeImports[a]: the type handles a's module imports     *)
  StaticImports,(* StaticImports[a]: the interpreted methods it imports    *)
  NoLoad

ASSUME LoadsAssumption == NoLoad \notin Loads

Names == UNION {TypeImports[a] \cup StaticImports[a] : a \in Assemblies}

VARIABLES
  lookup,     (* what looking a name up gives: "found", "absent", "throws" *)
  poll,       (* setInterval: "polling", then "resolved" for good          *)
  aot,        (* window.aot: the load whose exports object it names        *)
  load,       (* where each call is                                        *)
  assembly,   (* its argument                                              *)
  cwraps,     (* the four module variables hold functions of the runtime   *)
  imports,    (* the names its imports object has                          *)
  exports     (* the load whose module's functions are in its object       *)

loaderVars == <<lookup, poll, aot, load, assembly, cwraps, imports, exports>>
vars == <<startVars, loaderVars>>

LoadStates == {"idle", "fetching", "compiling", "waiting", "instantiating", "done", "failed"}

Init ==
  /\ StartInit
  /\ lookup \in [Names -> {"found", "absent", "throws"}]
  /\ poll = "polling"
  /\ aot = [a \in Assemblies |-> NoLoad]
  /\ load = [l \in Loads |-> "idle"]
  /\ assembly \in [Loads -> Assemblies]
  /\ cwraps = FALSE
  /\ imports = [l \in Loads |-> {}]
  /\ exports = [l \in Loads |-> NoLoad]
-----------------------------------------------------------------------------
(* The first part of loadAotAssembly: an empty object is published, in the *)
(* place of one an earlier call published, and the module asked for.       *)
LoadAotAssembly(l) ==
  /\ environment = "web"
  /\ load[l] = "idle"
  /\ load' = [load EXCEPT ![l] = "fetching"]
  /\ aot' = [aot EXCEPT ![assembly[l]] = l]
  /\ UNCHANGED <<startVars, lookup, poll, assembly, cwraps, imports, exports>>

FetchModule(l) ==
  /\ load[l] = "fetching"
  /\ load' = [load EXCEPT ![l] = "compiling"]
  /\ UNCHANGED <<startVars, lookup, poll, aot, assembly, cwraps, imports, exports>>

CompileModule(l) ==
  /\ load[l] = "compiling"
  /\ load' = [load EXCEPT ![l] = "waiting"]
  /\ UNCHANGED <<startVars, lookup, poll, aot, assembly, cwraps, imports, exports>>

(* No network, or no module at that address: an await rejects, and with it *)
(* the call.  What was published stays published.                          *)
FailModule(l) ==
  /\ load[l] \in {"fetching", "compiling"}
  /\ load' = [load EXCEPT ![l] = "failed"]
  /\ UNCHANGED <<startVars, lookup, poll, aot, assembly, cwraps, imports, exports>>

(* Mutant: the interval is cleared outside of the test.                    *)
PollRuntimeOnce ==
  /\ environment = "web"
  /\ poll = "polling"
  /\ poll' = IF isReady THEN "resolved" ELSE "cleared"
  /\ UNCHANGED <<startVars, lookup, aot, load, assembly, cwraps, imports, exports>>

(* The interval's callback.                                                *)
PollRuntime ==
  /\ environment = "web"
  /\ poll = "polling"
  /\ isReady
  /\ poll' = "resolved"
  /\ UNCHANGED <<startVars, lookup, aot, load, assembly, cwraps, imports, exports>>

(* Mutant: readiness is not awaited.                                       *)
RuntimeNotAwaited == TRUE

MonoRuntimeIsReady == poll = "resolved"

(* globalImportsForTypes and staticImportThunks: a name without a handle   *)
(* is left out.                                                            *)
Handles(a) == {x \in TypeImports[a] \cup StaticImports[a] : lookup[x] = "found"}

(* FindMethod throws for an assembly or a type that is not there;          *)
(* driver.c does not check the assembly it looks a type up in.             *)
LookupThrows(a) == \E x \in TypeImports[a] \cup StaticImports[a] : lookup[x] = "throws"

(* Both awaits behind, instantiateWasmModule asks the runtime for the      *)
(* handles and starts the instantiation.                                   *)
ResolveImports(l) ==
  LET a == assembly[l] IN
  /\ load[l] = "waiting"
  /\ MonoRuntimeIsReady
  /\ cwraps' = TRUE
  /\ IF LookupThrows(a)
     THEN load' = [load EXCEPT ![l] = "failed"] /\ UNCHANGED imports
     ELSE /\ load' = [load EXCEPT ![l] = "instantiating"]
          /\ imports' = [imports EXCEPT ![l] = Handles(a)]
  /\ UNCHANGED <<startVars, lookup, poll, aot, assembly, exports>>

(* The engine links by name; one name missing is a LinkError.              *)
(* Mutant: an import without a handle is linked all the same.              *)
LinksWhatItHas(a, names) == names # {}

Links(a, names) == TypeImports[a] \cup StaticImports[a] \subseteq names

(* Mutant: the object is looked up again instead of the one published.     *)
ExportsOfName(l) == aot[assembly[l]]
ExportsObject(l) == l

InstantiateModule(l) ==
  /\ load[l] = "instantiating"
  /\ IF Links(assembly[l], imports[l])
     THEN /\ load' = [load EXCEPT ![l] = "done"]
          /\ exports' = [exports EXCEPT ![ExportsObject(l)] = l]
     ELSE load' = [load EXCEPT ![l] = "failed"] /\ UNCHANGED exports
  /\ UNCHANGED <<startVars, lookup, poll, aot, assembly, cwraps, imports>>

LoadStep(l) ==
  FetchModule(l) \/ CompileModule(l) \/ FailModule(l) \/ ResolveImports(l) \/ InstantiateModule(l)

Start == StartNext /\ UNCHANGED loaderVars

Next ==
  \/ Start
  \/ PollRuntime
  \/ \E l \in Loads : LoadAotAssembly(l) \/ LoadStep(l)

(* The browser answers every request, with a failure if it has to, keeps   *)
(* calling back the interval and resumes what awaits a settled promise.    *)
Fairness ==
  /\ WF_vars(FileStep /\ UNCHANGED loaderVars)
  /\ WF_vars(PollRuntime)
  /\ \A l \in Loads : WF_vars(LoadStep(l))

Spec == Init /\ [][Next]_vars /\ Fairness
-----------------------------------------------------------------------------
LoaderTypeOK ==
  /\ StartTypeOK
  /\ lookup \in [Names -> {"found", "absent", "throws"}]
  /\ poll \in {"polling", "resolved"}
  /\ aot \in [Assemblies -> Loads \cup {NoLoad}]
  /\ load \in [Loads -> LoadStates]
  /\ assembly \in [Loads -> Assemblies]
  /\ cwraps \in BOOLEAN
  /\ imports \in [Loads -> SUBSET Names]
  /\ exports \in [Loads -> Loads \cup {NoLoad}]

(* Whatever the order in which files, modules and polls come in, and       *)
(* whichever of them fail: functions appear in an exports object only when *)
(* the whole runtime is up and its entry points are in the module          *)
(* variables, every import had a handle, and the call that fills the       *)
(* object is the one that published it; a call that failed left its object *)
(* empty.                                                                  *)
FunctionsAreLinked ==
  \A l \in Loads :
    /\ exports[l] # NoLoad <=> load[l] = "done"
    /\ exports[l] # NoLoad =>
         /\ exports[l] = l
         /\ isReady /\ bundle = Files /\ cwraps
         /\ \A x \in TypeImports[assembly[l]] \cup StaticImports[assembly[l]] : lookup[x] = "found"

(* Once the runtime is ready, every call of loadAotAssembly settles: no    *)
(* load waits behind another, or for a poll that is over.                  *)
LoadsSettle ==
  \A l \in Loads : (isReady /\ load[l] # "idle") ~> load[l] \in {"done", "failed"}

(* What the loader promises to the rewritten methods of an assembly.       *)
Object(a) ==
  IF aot[a] = NoLoad THEN "none" ELSE IF exports[aot[a]] = NoLoad THEN "empty" ELSE "functions"

Availability ==
  INSTANCE AotAvailability WITH running <- isReady, object <- [a \in Assemblies |-> Object(a)]

(* The loader implements AotAvailability: a rewritten method that finds    *)
(* its function goes on finding it until its assembly is loaded again.     *)
ImplementsAvailability == Availability!Spec
=============================================================================
