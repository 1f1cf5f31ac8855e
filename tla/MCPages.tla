------------------------------ MODULE MCPages -------------------------------
(***************************************************************************)
(* The pages of the two web samples; a behaviour shows one of them.        *)
(* "MyLibrary" imports a method and a type, "Other" one method.            *)
(***************************************************************************)
EXTENDS AotLoader, HostLoader, TLC

VARIABLE page
pageVars == <<vars, hostVars, page>>

MCTypeImports   == ("MyLibrary" :> {"type"}) @@ ("Other" :> {})
MCStaticImports == ("MyLibrary" :> {"method"}) @@ ("Other" :> {"otherMethod"})

(* A module as loader.js expects it, one as the compiler emits it now, and *)
(* one without the function that is called.                                *)
MCHostModules ==
  {[imports |-> {"sys.malloc", "sys.memory"}, exports |-> {FunctionToInvoke}],
   [imports |-> {"sys.memory", "sys.mono_wasm_object_new"}, exports |-> {FunctionToInvoke}],
   [imports |-> HostImports, exports |-> {"RunComputation"}]}

PageInit ==
  /\ page \in {"BlazorStandalone", "MyWebHost"}
  /\ Init /\ HostInit
  /\ page = "MyWebHost" =>
       /\ environment = "web" /\ \A x \in Names : lookup[x] = "found"
       /\ \A l, m \in Loads : assembly[l] = assembly[m] /\ assembly[l] = "Other"
  /\ page = "BlazorStandalone" => module.exports = {"RunComputation"}

PageNext ==
  \/ page = "BlazorStandalone" /\ Next /\ UNCHANGED <<hostVars, page>>
  \/ page = "MyWebHost" /\ HostNext /\ UNCHANGED <<vars, page>>

PageSpec == PageInit /\ [][PageNext]_pageVars /\ (page = "BlazorStandalone" => Fairness)
=============================================================================
