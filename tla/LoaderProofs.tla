---------------------------- MODULE LoaderProofs ----------------------------
(***************************************************************************)
(* Whatever the number of files, loads and assemblies and the order in     *)
(* which the network answers: a runtime that is ready is complete, exports *)
(* objects hold linked functions only, and the loader implements           *)
(* AotAvailability.  The allocator of the other sample hands out disjoint  *)
(* blocks, for every sequence of requests and every size of heap.          *)
(***************************************************************************)
EXTENDS AotLoader, HostLoader, FiniteSetTheorems, SequenceTheorems, TLAPS

Added   == {f \in Files : file[f] = "added"}
Missing == Files \ Added
Named   == {urls[i] : i \in DOMAIN urls}

StartTypes ==
  /\ environment \in Environments
  /\ file \in [Files -> FileStates]
  /\ urls \in Seq(Files) /\ loadedFiles \in Seq(Files)
  /\ assemblies = Added /\ bundle \subseteq Files
  /\ runtime \in {"none", "running", "failed", "exited"}
  /\ isReady \in BOOLEAN
  /\ callbacks = IF isReady THEN 1 ELSE 0

(* pending counts the files not added; MONO.loaded_files-to-be names the   *)
(* files whose response has come, each once.                               *)
Counted ==
  \/ (\A f \in Files : file[f] = "listed") /\ pending = 0
  \/ (\A f \in Files : file[f] # "listed") /\ pending = Cardinality(Missing)

NamedOnce ==
  /\ \A f \in Files : file[f] \in {"received", "added"} => f \in Named
  /\ \A f \in Named : f \in Files /\ file[f] \notin {"listed", "requested"}
  /\ Len(urls) = Cardinality(Named)

Complete ==
  isReady => Missing = {} /\ bundle = Files /\ runtime = "running" /\ loadedFiles = urls

StartInv == StartTypes /\ Counted /\ NamedOnce /\ Complete
-----------------------------------------------------------------------------
(* Appending a url that is not in the list yet.                            *)
LEMMA NamedAppend ==
  ASSUME NEW list \in Seq(Files), NEW f \in Files
  PROVE  LET longer == Append(list, f) IN
         /\ longer \in Seq(Files) /\ Len(longer) = Len(list) + 1
         /\ {longer[i] : i \in DOMAIN longer} = {list[i] : i \in DOMAIN list} \cup {f}
<1> DEFINE longer == Append(list, f)
<1>1. longer \in Seq(Files) /\ Len(longer) = Len(list) + 1
  OBVIOUS
<1>2. /\ Len(list) \in Nat
      /\ DOMAIN longer = 1 .. Len(list) + 1 /\ DOMAIN list = 1 .. Len(list)
      /\ \A i \in 1 .. Len(list) : longer[i] = list[i]
      /\ longer[Len(list) + 1] = f
  OBVIOUS
<1> HIDE DEF longer
<1>3. {longer[i] : i \in DOMAIN longer} = {list[i] : i \in DOMAIN list} \cup {f}
  <2>1. DOMAIN longer = DOMAIN list \cup {Len(list) + 1}
    BY <1>2
  <2> QED BY <1>2, <2>1
<1> QED BY <1>1, <1>3 DEF longer

(* The sets that are counted are finite.                                   *)
LEMMA Finite ==
  ASSUME StartInv
  PROVE  /\ IsFiniteSet(Missing) /\ Cardinality(Missing) \in Nat
         /\ Cardinality(Missing) <= Cardinality(Files)
         /\ IsFiniteSet(Named) /\ Cardinality(Files) \in Nat /\ Files # {}
<1>1. IsFiniteSet(Files) /\ Files # {}
  BY FilesAssumption
<1>2. Missing \in SUBSET Files
  BY DEF Missing
<1>3. Named \in SUBSET Files
  BY DEF StartInv, NamedOnce
<1> HIDE DEF Missing, Named
<1>4. IsFiniteSet(Missing) /\ Cardinality(Missing) <= Cardinality(Files)
  BY <1>1, <1>2, FS_Subset
<1>5. IsFiniteSet(Named)
  BY <1>1, <1>3, FS_Subset
<1> QED BY <1>1, <1>4, <1>5, FS_CardinalityType

(* Nothing has been asked for.                                             *)
LEMMA StartInvInit == StartInit => StartInv
<1> SUFFICES ASSUME StartInit PROVE StartInv
  OBVIOUS
<1>1. /\ file = [f \in Files |-> "listed"] /\ pending = 0 /\ urls = <<>> /\ loadedFiles = <<>>
      /\ assemblies = {} /\ bundle = {} /\ runtime = "none" /\ isReady = FALSE /\ callbacks = 0
      /\ environment \in Environments
  BY DEF StartInit
<1>2. Added = {}
  BY <1>1 DEF Added
<1>3. Named = {} /\ Len(urls) = 0
  BY <1>1 DEF Named
<1>4. <<>> \in Seq(Files) /\ "listed" \in FileStates
  BY DEF FileStates
<1>5. StartTypes
  BY <1>1, <1>2, <1>4 DEF StartTypes
<1>6. Counted
  BY <1>1 DEF Counted
<1>7. NamedOnce
  BY <1>1, <1>3, FS_EmptySet DEF NamedOnce
<1> QED BY <1>1, <1>5, <1>6, <1>7 DEF StartInv, Complete

(* A runtime that is ready misses no file, so a file that is not added     *)
(* means that it is not.                                                   *)
LEMMA NotReadyYet ==
  ASSUME StartInv, NEW f \in Files, file[f] # "added"
  PROVE  ~isReady /\ f \in Missing
BY DEF StartInv, Complete, Missing, Added

(* Asking for the files.                                                   *)
LEMMA LoadingKeeps == ASSUME StartInv, StartLoading PROVE StartInv'
<1>1. /\ \A f \in Files : file[f] = "listed"
      /\ pending' = Cardinality(Files)
      /\ UNCHANGED <<environment, urls, loadedFiles, assemblies, bundle, runtime, isReady, callbacks>>
  BY DEF StartLoading
<1>2. PICK asked : file' = [f \in Files |-> IF f \in asked THEN "requested" ELSE "failed"]
  BY DEF StartLoading
<1>3. file' \in [Files -> FileStates] /\ \A f \in Files : file'[f] \in {"requested", "failed"}
  BY <1>2 DEF FileStates
<1>4. Added = {} /\ Added' = {} /\ Missing' = Files
  BY <1>1, <1>3 DEF Added, Missing
<1>5. Named = {} /\ Named' = {}
  BY <1>1 DEF StartInv, NamedOnce, Named
<1>6. ~isReady
  BY <1>1, Finite, NotReadyYet
<1>7. StartTypes'
  BY <1>1, <1>3, <1>4 DEF StartInv, StartTypes
<1>8. Counted'
  BY <1>1, <1>3, <1>4 DEF Counted
<1>9. NamedOnce'
  BY <1>1, <1>3, <1>5 DEF StartInv, NamedOnce
<1> QED BY <1>1, <1>6, <1>7, <1>8, <1>9 DEF StartInv, Complete

(* A response.                                                             *)
LEMMA ResponseKeeps == ASSUME StartInv, NEW f \in Files, ReceiveResponse(f) PROVE StartInv'
<1>1. /\ file[f] = "requested" /\ file' = [file EXCEPT ![f] = "received"]
      /\ urls' = Append(urls, f)
      /\ UNCHANGED <<environment, pending, loadedFiles, assemblies, bundle, runtime, isReady, callbacks>>
  BY DEF ReceiveResponse
<1>2. file \in [Files -> FileStates] /\ urls \in Seq(Files)
  BY DEF StartInv, StartTypes
<1>3. /\ file' \in [Files -> FileStates] /\ file'[f] = "received"
      /\ \A g \in Files : g # f => file'[g] = file[g]
  BY <1>1, <1>2 DEF FileStates
<1>4. Added' = Added /\ Missing' = Missing
  BY <1>1, <1>3 DEF Added, Missing
<1>5. urls' \in Seq(Files) /\ Len(urls') = Len(urls) + 1 /\ Named' = Named \cup {f}
  BY <1>1, <1>2, NamedAppend DEF Named
<1>6. f \notin Named
  BY <1>1 DEF StartInv, NamedOnce
<1>7. ~isReady
  BY <1>1, NotReadyYet
<1>8. Cardinality(Named') = Cardinality(Named) + 1
  BY <1>5, <1>6, Finite, FS_AddElement
<1>9. StartTypes'
  BY <1>1, <1>3, <1>4, <1>5 DEF StartInv, StartTypes
<1>10. Counted'
  BY <1>1, <1>3, <1>4 DEF StartInv, Counted
<1>11. NamedOnce'
  BY <1>3, <1>5, <1>8 DEF StartInv, NamedOnce
<1> QED BY <1>1, <1>7, <1>9, <1>10, <1>11 DEF StartInv, Complete

(* A failure.                                                              *)
LEMMA FailureKeeps == ASSUME StartInv, NEW f \in Files, FailFile(f) PROVE StartInv'
<1>1. /\ file[f] \in {"requested", "received"} /\ file' = [file EXCEPT ![f] = "failed"]
      /\ UNCHANGED <<environment, pending, urls, loadedFiles, assemblies, bundle, runtime, isReady, callbacks>>
  BY DEF FailFile
<1>2. file \in [Files -> FileStates]
  BY DEF StartInv, StartTypes
<1>3. /\ file' \in [Files -> FileStates] /\ file'[f] = "failed"
      /\ \A g \in Files : g # f => file'[g] = file[g]
  BY <1>1, <1>2 DEF FileStates
<1>4. Added' = Added /\ Missing' = Missing /\ Named' = Named
  BY <1>1, <1>3 DEF Added, Missing, Named
<1>5. ~isReady
  BY <1>1, NotReadyYet
<1>6. StartTypes'
  BY <1>1, <1>3, <1>4 DEF StartInv, StartTypes
<1>7. Counted'
  BY <1>1, <1>3, <1>4 DEF StartInv, Counted
<1>8. NamedOnce'
  BY <1>1, <1>3, <1>4 DEF StartInv, NamedOnce
<1> QED BY <1>1, <1>5, <1>6, <1>7, <1>8 DEF StartInv, Complete

(* A file is added; the last one finds nothing missing.                    *)
LEMMA FileKeeps == ASSUME StartInv, NEW f \in Files, ReceiveFile(f) PROVE StartInv'
<1>1. /\ file[f] = "received" /\ file' = [file EXCEPT ![f] = "added"]
      /\ assemblies' = assemblies \cup {f} /\ pending' = pending - 1
      /\ IF pending = 1 THEN LoadRuntime
         ELSE UNCHANGED <<loadedFiles, bundle, runtime, isReady, callbacks>>
      /\ UNCHANGED <<environment, urls>>
  BY DEF ReceiveFile, LastFile
<1>2. file \in [Files -> FileStates] /\ urls \in Seq(Files)
  BY DEF StartInv, StartTypes
<1>3. /\ file' \in [Files -> FileStates] /\ file'[f] = "added"
      /\ \A g \in Files : g # f => file'[g] = file[g]
  BY <1>1, <1>2 DEF FileStates
<1>4. Added' = Added \cup {f} /\ Missing' = Missing \ {f} /\ Named' = Named
  BY <1>1, <1>3 DEF Added, Missing, Named
<1>5. ~isReady /\ f \in Missing
  BY <1>1, NotReadyYet
<1>6. IsFiniteSet(Missing') /\ Cardinality(Missing') = Cardinality(Missing) - 1
  BY <1>4, <1>5, Finite, FS_RemoveElement
<1>7. pending = Cardinality(Missing)
  BY <1>1 DEF StartInv, Counted
<1>8. Counted'
  BY <1>1, <1>3, <1>6, <1>7 DEF StartInv, Counted
<1>9. NamedOnce'
  BY <1>1, <1>3, <1>4 DEF StartInv, NamedOnce
<1>10. assemblies' = Added' /\ Added' \subseteq Files
  BY <1>1, <1>4 DEF StartInv, StartTypes, Added
<1>11. CASE pending # 1
  <2>1. UNCHANGED <<loadedFiles, bundle, runtime, isReady, callbacks>>
    BY <1>1, <1>11
  <2>2. StartTypes'
    BY <1>1, <1>3, <1>10, <2>1 DEF StartInv, StartTypes
  <2> QED BY <1>5, <1>8, <1>9, <2>1, <2>2 DEF StartInv, Complete
<1>12. CASE pending = 1
  <2>1. /\ loadedFiles' = urls /\ bundle' = assemblies'
        /\ \/ runtime' = "running" /\ isReady' = TRUE /\ callbacks' = callbacks + 1
           \/ /\ runtime' \in {"failed", "exited"} /\ UNCHANGED <<isReady, callbacks>>
    BY <1>1, <1>12 DEF LoadRuntime, MonoWasmRuntimeReady
  <2>2. callbacks = 0
    BY <1>5 DEF StartInv, StartTypes
  <2>3. Missing' = {}
    BY <1>6, <1>7, <1>12, FS_EmptySet
  <2>4. Added' = Files
    BY <1>10, <2>3 DEF Missing
  <2>5. StartTypes'
    <3>0. isReady = FALSE
      BY <1>5 DEF StartInv, StartTypes
    <3>1. /\ runtime' \in {"none", "running", "failed", "exited"} /\ isReady' \in BOOLEAN
          /\ callbacks' = IF isReady' THEN 1 ELSE 0
      <4>1. CASE runtime' = "running" /\ isReady' = TRUE /\ callbacks' = callbacks + 1
        <5>1. callbacks' = 1
          BY <2>2, <4>1
        <5> QED BY <4>1, <5>1
      <4>2. CASE runtime' \in {"failed", "exited"} /\ UNCHANGED <<isReady, callbacks>>
        BY <2>2, <3>0, <4>2
      <4> QED BY <2>1, <4>1, <4>2
    <3>2. environment' \in Environments /\ urls' \in Seq(Files) /\ loadedFiles' \in Seq(Files)
      BY <1>1, <1>2, <2>1 DEF StartInv, StartTypes
    <3>3. assemblies' = Added' /\ bundle' \subseteq Files
      BY <1>10, <2>1
    <3> QED BY <1>3, <3>1, <3>2, <3>3 DEF StartTypes
  <2>6. Complete'
    BY <1>1, <1>5, <1>10, <2>1, <2>3, <2>4 DEF Complete
  <2> QED BY <1>8, <1>9, <2>5, <2>6 DEF StartInv
<1> QED BY <1>11, <1>12

(* Every step of the page.                                                 *)
LEMMA StartInvStep == StartInv /\ [Next]_vars => StartInv'
<1> SUFFICES ASSUME StartInv, [Next]_vars PROVE StartInv'
  OBVIOUS
<1>1. CASE Start
  BY <1>1, LoadingKeeps, ResponseKeeps, FailureKeeps, FileKeeps DEF Start, StartNext, FileStep
<1>2. ASSUME UNCHANGED startVars PROVE StartInv'
  BY <1>2 DEF startVars, StartInv, StartTypes, Counted, NamedOnce, Complete, Added, Missing, Named
<1>3. CASE PollRuntime
  BY <1>2, <1>3 DEF PollRuntime
<1>4. CASE \E l \in Loads : LoadAotAssembly(l) \/ LoadStep(l)
  BY <1>2, <1>4 DEF LoadAotAssembly, LoadStep, FetchModule, CompileModule, FailModule, ResolveImports,
                    InstantiateModule
<1>5. CASE UNCHANGED vars
  BY <1>2, <1>5 DEF vars
<1> QED BY <1>1, <1>3, <1>4, <1>5 DEF Next

(* A runtime that says it is ready was given every file of the list before *)
(* it was started, MONO.loaded_files names each of them once, and the      *)
(* callback was called once: in whatever order responses and bodies come.  *)
THEOREM ReadyAlwaysComplete == Spec => []ReadyMeansComplete
<1>1. StartInv => ReadyMeansComplete
  <2> SUFFICES ASSUME StartInv, isReady PROVE ReadyMeansComplete
    BY DEF ReadyMeansComplete
  <2>1. Missing = {} /\ bundle = Files /\ runtime = "running" /\ loadedFiles = urls /\ callbacks = 1
    BY DEF StartInv, Complete, StartTypes
  <2>2. \A f \in Files : file[f] = "added"
    BY <2>1 DEF Missing, Added
  <2>3. Named = Files /\ Len(urls) = Cardinality(Files)
    BY <2>2 DEF StartInv, NamedOnce
  <2>4. {MonoWasmGetLoadedFiles[i] : i \in DOMAIN loadedFiles} = Named
    BY <2>1 DEF MonoWasmGetLoadedFiles, Named
  <2>5. Len(MonoWasmGetLoadedFiles) = Len(urls)
    BY <2>1 DEF MonoWasmGetLoadedFiles
  <2> QED BY <2>1, <2>3, <2>4, <2>5 DEF ReadyMeansComplete
<1>2. Init => StartInv
  BY StartInvInit DEF Init
<1> QED BY <1>1, <1>2, StartInvStep, PTL DEF Spec
-----------------------------------------------------------------------------
(* The calls of loadAotAssembly: what each state says of the runtime, of   *)
(* the imports and of the exports objects.                                 *)
LoadTypes ==
  /\ lookup \in [Names -> {"found", "absent", "throws"}]
  /\ poll \in {"polling", "resolved"}
  /\ aot \in [Assemblies -> Loads \cup {NoLoad}]
  /\ load \in [Loads -> LoadStates]
  /\ assembly \in [Loads -> Assemblies]
  /\ cwraps \in BOOLEAN
  /\ imports \in [Loads -> SUBSET Names]
  /\ exports \in [Loads -> Loads \cup {NoLoad}]

Linked(l) ==
  /\ load[l] \in {"instantiating", "done"} => isReady /\ cwraps
  /\ load[l] = "instantiating" => imports[l] = Handles(assembly[l])
  /\ load[l] = "done" =>
       \A x \in TypeImports[assembly[l]] \cup StaticImports[assembly[l]] : lookup[x] = "found"

(* An object is filled by the load that published it, under the name of    *)
(* its assembly.                                                           *)
Filled(l) ==
  /\ exports[l] = IF load[l] = "done" THEN l ELSE NoLoad
  /\ \A a \in Assemblies : aot[a] = l => assembly[l] = a

LoadInv ==
  /\ StartInv /\ LoadTypes
  /\ poll = "resolved" => isReady
  /\ \A l \in Loads : Linked(l) /\ Filled(l)

(* A page without loads.                                                   *)
LEMMA LoadInvInit == Init => LoadInv
<1> SUFFICES ASSUME Init PROVE LoadInv
  OBVIOUS
<1>1. StartInv
  BY StartInvInit DEF Init
<1>2. LoadTypes
  BY DEF Init, LoadTypes, LoadStates
<1>3. \A l \in Loads : Linked(l) /\ Filled(l)
  BY LoadsAssumption DEF Init, Linked, Filled
<1>4. poll = "polling"
  BY DEF Init
<1> QED BY <1>1, <1>2, <1>3, <1>4 DEF LoadInv

(* A load that moves on before the runtime is asked for anything.          *)
LEMMA LoadMoves ==
  ASSUME LoadInv, NEW l \in Loads, NEW to \in LoadStates \ {"instantiating", "done"},
         load[l] \notin {"done"}, load' = [load EXCEPT ![l] = to],
         cwraps' \in {cwraps, TRUE},
         UNCHANGED <<isReady, lookup, poll, aot, assembly, imports, exports>>
  PROVE  LoadTypes' /\ \A k \in Loads : Linked(k)' /\ Filled(k)'
<1>1. LoadTypes
  BY DEF LoadInv
<1>2. load'[l] = to /\ \A k \in Loads : k # l => load'[k] = load[k]
  BY <1>1 DEF LoadTypes
<1>3. LoadTypes'
  BY <1>1 DEF LoadTypes
<1>4. ASSUME NEW k \in Loads PROVE Linked(k)' /\ Filled(k)'
  <2>1. Linked(k) /\ Filled(k) /\ cwraps \in BOOLEAN
    BY <1>1 DEF LoadInv, LoadTypes
  <2>2. CASE k = l
    BY <1>2, <2>1, <2>2 DEF Linked, Filled
  <2>3. CASE k # l
    <3>1. load'[k] = load[k]
      BY <1>2, <2>3
    <3> QED BY <2>1, <3>1 DEF Linked, Filled, Handles
  <2> QED BY <2>2, <2>3
<1> QED BY <1>3, <1>4

(* The state of the runtime only ever gets better.                         *)
LEMMA ReadyStays ==
  ASSUME StartInv, [Next]_vars
  PROVE  isReady => isReady'
<1> SUFFICES ASSUME isReady PROVE isReady'
  OBVIOUS
<1>1. CASE StartLoading
  BY <1>1 DEF StartLoading
<1>2. CASE FileStep
  <2>1. PICK f \in Files : ReceiveResponse(f) \/ FailFile(f) \/ ReceiveFile(f)
    BY <1>2 DEF FileStep
  <2>2. file[f] = "added"
    BY <2>1, NotReadyYet
  <2> QED BY <2>1, <2>2 DEF ReceiveResponse, FailFile, ReceiveFile
<1>3. CASE UNCHANGED startVars
  BY <1>3 DEF startVars
<1>4. [Next]_vars => StartLoading \/ FileStep \/ UNCHANGED startVars
  BY DEF Next, vars, Start, StartNext, PollRuntime, LoadAotAssembly, LoadStep, FetchModule,
         CompileModule, FailModule, ResolveImports, InstantiateModule
<1> QED BY <1>1, <1>2, <1>3, <1>4

(* Every step keeps the loads in order.                                    *)
LEMMA LoadInvStep == LoadInv /\ [Next]_vars => LoadInv'
<1> SUFFICES ASSUME LoadInv, [Next]_vars PROVE LoadInv'
  OBVIOUS
<1>0. StartInv' /\ (isReady => isReady') /\ StartInv /\ LoadTypes
  BY StartInvStep, ReadyStays DEF LoadInv
<1> DEFINE Goal == /\ LoadTypes' /\ (poll' = "resolved" => isReady')
                   /\ \A k \in Loads : Linked(k)' /\ Filled(k)'
<1>1. SUFFICES Goal
  BY <1>0 DEF LoadInv
<1>2. ASSUME UNCHANGED loaderVars PROVE Goal
  BY <1>0, <1>2 DEF loaderVars, LoadInv, LoadTypes, Linked, Filled, Handles
<1>3. CASE Start
  BY <1>2, <1>3 DEF Start
<1>4. CASE PollRuntime
  <2>1. /\ isReady /\ poll' = "resolved"
        /\ UNCHANGED <<isReady, lookup, aot, load, assembly, cwraps, imports, exports>>
    BY <1>4 DEF PollRuntime, startVars
  <2> QED BY <1>0, <2>1 DEF LoadInv, LoadTypes, Linked, Filled, Handles
<1>5. ASSUME NEW l \in Loads, LoadAotAssembly(l) PROVE Goal
  <2>1. /\ load[l] = "idle" /\ load' = [load EXCEPT ![l] = "fetching"]
        /\ aot' = [aot EXCEPT ![assembly[l]] = l]
        /\ UNCHANGED <<isReady, lookup, poll, assembly, cwraps, imports, exports>>
    BY <1>5 DEF LoadAotAssembly, startVars
  <2>2. LoadTypes'
    BY <1>0, <2>1 DEF LoadTypes, LoadStates
  <2>3. load'[l] = "fetching" /\ \A k \in Loads : k # l => load'[k] = load[k]
    BY <1>0, <2>1 DEF LoadTypes
  <2>4. \A a \in Assemblies : aot'[a] = IF a = assembly[l] THEN l ELSE aot[a]
    BY <1>0, <2>1 DEF LoadTypes
  <2>5. ASSUME NEW k \in Loads PROVE Linked(k)' /\ Filled(k)'
    <3>1. Linked(k) /\ Filled(k)
      BY DEF LoadInv
    <3>2. CASE k = l
      BY <2>1, <2>3, <2>4, <3>1, <3>2 DEF Linked, Filled
    <3>3. CASE k # l
      <4>1. load'[k] = load[k]
        BY <2>3, <3>3
      <4>2. \A a \in Assemblies : aot'[a] = k => aot[a] = k
        BY <2>4, <3>3
      <4> QED BY <2>1, <3>1, <4>1, <4>2 DEF Linked, Filled, Handles
    <3> QED BY <3>2, <3>3
  <2>6. poll' = "resolved" => isReady'
    BY <1>0, <2>1 DEF LoadInv
  <2> QED BY <2>2, <2>5, <2>6
<1>6. ASSUME NEW l \in Loads, FetchModule(l) \/ CompileModule(l) \/ FailModule(l) PROVE Goal
  <2>1. PICK to \in {"compiling", "waiting", "failed"} :
          /\ load[l] \in {"fetching", "compiling"} /\ load' = [load EXCEPT ![l] = to]
          /\ UNCHANGED <<isReady, lookup, poll, aot, assembly, cwraps, imports, exports>>
    BY <1>6 DEF FetchModule, CompileModule, FailModule, startVars
  <2>2. to \in LoadStates \ {"instantiating", "done"} /\ load[l] \notin {"done"}
    BY <2>1 DEF LoadStates
  <2>3. LoadTypes' /\ \A k \in Loads : Linked(k)' /\ Filled(k)'
    BY <2>1, <2>2, LoadMoves
  <2> QED BY <2>1, <2>3 DEF LoadInv
<1>7. ASSUME NEW l \in Loads, ResolveImports(l) PROVE Goal
  <2>1. /\ load[l] = "waiting" /\ poll = "resolved" /\ cwraps' = TRUE
        /\ UNCHANGED <<isReady, lookup, poll, aot, assembly, exports>>
    BY <1>7 DEF ResolveImports, MonoRuntimeIsReady, startVars
  <2>2. isReady
    BY <2>1 DEF LoadInv
  <2>3. CASE load' = [load EXCEPT ![l] = "failed"] /\ UNCHANGED imports
    <3>1. "failed" \in LoadStates \ {"instantiating", "done"} /\ load[l] \notin {"done"}
      BY <2>1 DEF LoadStates
    <3>2. LoadTypes' /\ \A k \in Loads : Linked(k)' /\ Filled(k)'
      BY <2>1, <2>3, <3>1, LoadMoves
    <3> QED BY <2>1, <2>2, <3>2
  <2>4. CASE /\ load' = [load EXCEPT ![l] = "instantiating"]
             /\ imports' = [imports EXCEPT ![l] = Handles(assembly[l])]
    <3>1. assembly[l] \in Assemblies
      BY <1>0 DEF LoadTypes
    <3>2. Handles(assembly[l]) \subseteq Names
      BY <3>1 DEF Handles, Names
    <3>3. LoadTypes'
      BY <1>0, <2>1, <2>4, <3>2 DEF LoadTypes, LoadStates
    <3>4. /\ load'[l] = "instantiating" /\ imports'[l] = Handles(assembly[l])
          /\ \A k \in Loads : k # l => load'[k] = load[k] /\ imports'[k] = imports[k]
      BY <1>0, <2>4 DEF LoadTypes
    <3>5. ASSUME NEW k \in Loads PROVE Linked(k)' /\ Filled(k)'
      <4>1. Linked(k) /\ Filled(k)
        BY DEF LoadInv
      <4>2. CASE k = l
        BY <2>1, <2>2, <3>4, <4>1, <4>2 DEF Linked, Filled, Handles
      <4>3. CASE k # l
        <5>1. load'[k] = load[k] /\ imports'[k] = imports[k]
          BY <3>4, <4>3
        <5> QED BY <2>1, <4>1, <5>1 DEF Linked, Filled, Handles
      <4> QED BY <4>2, <4>3
    <3> QED BY <2>1, <2>2, <3>3, <3>5
  <2> QED BY <1>7, <2>3, <2>4 DEF ResolveImports
<1>8. ASSUME NEW l \in Loads, InstantiateModule(l) PROVE Goal
  <2>1. /\ load[l] = "instantiating"
        /\ UNCHANGED <<isReady, lookup, poll, aot, assembly, cwraps, imports>>
    BY <1>8 DEF InstantiateModule, startVars
  <2>2. isReady /\ cwraps /\ imports[l] = Handles(assembly[l])
    BY <2>1 DEF LoadInv, Linked
  <2>3. CASE load' = [load EXCEPT ![l] = "failed"] /\ UNCHANGED exports
    <3>1. "failed" \in LoadStates \ {"instantiating", "done"} /\ load[l] \notin {"done"}
      BY <2>1 DEF LoadStates
    <3>2. LoadTypes' /\ \A k \in Loads : Linked(k)' /\ Filled(k)'
      BY <2>1, <2>3, <3>1, LoadMoves
    <3> QED BY <2>1, <2>2, <3>2
  <2>4. CASE /\ Links(assembly[l], imports[l])
             /\ load' = [load EXCEPT ![l] = "done"]
             /\ exports' = [exports EXCEPT ![l] = l]
    <3>1. \A x \in TypeImports[assembly[l]] \cup StaticImports[assembly[l]] : lookup[x] = "found"
      BY <2>2, <2>4 DEF Links, Handles
    <3>2. LoadTypes'
      BY <1>0, <2>1, <2>4 DEF LoadTypes, LoadStates
    <3>3. /\ load'[l] = "done" /\ exports'[l] = l
          /\ \A k \in Loads : k # l => load'[k] = load[k] /\ exports'[k] = exports[k]
      BY <1>0, <2>4 DEF LoadTypes
    <3>4. ASSUME NEW k \in Loads PROVE Linked(k)' /\ Filled(k)'
      <4>1. Linked(k) /\ Filled(k)
        BY DEF LoadInv
      <4>2. CASE k = l
        BY <2>1, <2>2, <3>1, <3>3, <4>1, <4>2 DEF Linked, Filled
      <4>3. CASE k # l
        <5>1. load'[k] = load[k] /\ exports'[k] = exports[k]
          BY <3>3, <4>3
        <5> QED BY <2>1, <4>1, <5>1 DEF Linked, Filled, Handles
      <4> QED BY <4>2, <4>3
    <3> QED BY <2>1, <2>2, <3>2, <3>4
  <2> QED BY <1>8, <2>3, <2>4 DEF InstantiateModule, ExportsObject
<1>9. CASE UNCHANGED vars
  BY <1>2, <1>9 DEF vars
<1>10. CASE \E l \in Loads : LoadAotAssembly(l) \/ LoadStep(l)
  BY <1>5, <1>6, <1>7, <1>8, <1>10 DEF LoadStep
<1> QED BY <1>3, <1>4, <1>9, <1>10 DEF Next

(* The loader's state keeps its types.                                     *)
LEMMA LoadAlways == Spec => []LoadInv
<1> QED BY LoadInvInit, LoadInvStep, PTL DEF Spec

(* However loads overlap and whatever fails: functions are in an exports   *)
(* object only when the runtime is complete and the entry points are set,  *)
(* each of their imports has a handle, and it is the object of the load    *)
(* that compiled them.                                                     *)
THEOREM FunctionsAlwaysLinked == Spec => []FunctionsAreLinked
<1>1. LoadInv => FunctionsAreLinked
  <2> SUFFICES ASSUME LoadInv, NEW l \in Loads
               PROVE  /\ exports[l] # NoLoad <=> load[l] = "done"
                      /\ exports[l] # NoLoad =>
                           /\ exports[l] = l
                           /\ isReady /\ bundle = Files /\ cwraps
                           /\ \A x \in TypeImports[assembly[l]] \cup StaticImports[assembly[l]] :
                                lookup[x] = "found"
    BY DEF FunctionsAreLinked
  <2>1. Linked(l) /\ Filled(l) /\ l # NoLoad
    BY LoadsAssumption DEF LoadInv
  <2>2. isReady => bundle = Files
    BY DEF LoadInv, StartInv, Complete
  <2> QED BY <2>1, <2>2 DEF Linked, Filled
<1> QED BY <1>1, LoadAlways, PTL
-----------------------------------------------------------------------------
(* The type invariant of the page, pending included: it never goes below   *)
(* zero nor above the number of files.                                     *)
THEOREM LoaderTypesCorrect == Spec => []LoaderTypeOK
<1>1. LoadInv => LoaderTypeOK
  <2> SUFFICES ASSUME LoadInv PROVE LoaderTypeOK
    OBVIOUS
  <2>1. StartInv /\ LoadTypes
    BY DEF LoadInv
  <2>2. pending \in 0 .. Cardinality(Files)
    <3>1. Cardinality(Files) \in Nat /\ Cardinality(Missing) \in 0 .. Cardinality(Files)
      BY <2>1, Finite
    <3>2. pending = 0 \/ pending = Cardinality(Missing)
      BY <2>1 DEF StartInv, Counted
    <3> QED BY <3>1, <3>2
  <2>3. callbacks \in {0, 1} /\ assemblies \subseteq Files
    BY <2>1 DEF StartInv, StartTypes, Added
  <2>4. StartTypeOK
    BY <2>1, <2>2, <2>3 DEF StartInv, StartTypes, StartTypeOK
  <2> QED BY <2>1, <2>4 DEF LoadTypes, LoaderTypeOK
<1> QED BY <1>1, LoadAlways, PTL

(* What the refinement maps the page to.                                   *)
Objects == [a \in Assemblies |-> Object(a)]

(* The objects depend on what is published and filled, and on nothing else. *)
LEMMA ObjectsStay == UNCHANGED <<aot, exports>> => Objects' = Objects
BY DEF Objects, Object

(* A load begins: its assembly's object is an empty one again.             *)
LEMMA LoadPublishes ==
  ASSUME LoadInv, NEW l \in Loads, LoadAotAssembly(l)
  PROVE  Objects' = [Objects EXCEPT ![assembly[l]] = "empty"]
<1>1. load[l] = "idle" /\ aot' = [aot EXCEPT ![assembly[l]] = l] /\ UNCHANGED exports
  BY DEF LoadAotAssembly
<1>2. exports[l] = NoLoad /\ l # NoLoad
  BY <1>1, LoadsAssumption DEF LoadInv, Filled
<1>3. \A a \in Assemblies : aot'[a] = IF a = assembly[l] THEN l ELSE aot[a]
  BY <1>1 DEF LoadInv, LoadTypes
<1>4. \A a \in Assemblies : Object(a)' = IF a = assembly[l] THEN "empty" ELSE Object(a)
  BY <1>1, <1>2, <1>3 DEF Object
<1> QED BY <1>4 DEF Objects

(* A module is instantiated: its functions are what the assembly's object  *)
(* has from now on, unless another load published its own in the meantime. *)
LEMMA InstantiationProvides ==
  ASSUME LoadInv, NEW l \in Loads, InstantiateModule(l)
  PROVE  \/ Objects' = Objects
         \/ /\ isReady /\ Objects[assembly[l]] = "empty"
            /\ Objects' = [Objects EXCEPT ![assembly[l]] = "functions"]
<1>1. load[l] = "instantiating" /\ UNCHANGED <<aot, assembly>>
  BY DEF InstantiateModule
<1>2. /\ exports[l] = NoLoad /\ l # NoLoad /\ isReady /\ assembly[l] \in Assemblies
      /\ \A a \in Assemblies : aot[a] = l => assembly[l] = a
      /\ exports \in [Loads -> Loads \cup {NoLoad}]
      /\ aot \in [Assemblies -> Loads \cup {NoLoad}]
  BY <1>1, LoadsAssumption DEF LoadInv, LoadTypes, Linked, Filled
<1>3. CASE UNCHANGED exports
  BY <1>1, <1>3, ObjectsStay
<1>4. CASE exports' = [exports EXCEPT ![l] = l]
  <2>1. exports'[l] = l /\ \A k \in Loads : k # l => exports'[k] = exports[k]
    BY <1>2, <1>4
  <2>2. \A a \in Assemblies : Object(a)' = IF aot[a] = l THEN "functions" ELSE Object(a)
    BY <1>1, <1>2, <2>1 DEF Object
  <2>3. CASE aot[assembly[l]] = l
    <3>1. Objects[assembly[l]] = "empty"
      BY <1>2, <2>3 DEF Objects, Object
    <3>2. Objects' = [Objects EXCEPT ![assembly[l]] = "functions"]
      BY <1>2, <2>2, <2>3 DEF Objects
    <3> QED BY <1>2, <3>1, <3>2
  <2>4. CASE aot[assembly[l]] # l
    <3>1. \A a \in Assemblies : Object(a)' = Object(a)
      BY <1>2, <2>2, <2>4
    <3> QED BY <3>1 DEF Objects
  <2> QED BY <2>3, <2>4
<1> QED BY <1>3, <1>4 DEF InstantiateModule, ExportsObject

(* Every step of the page is one of AotAvailability, or none.              *)
LEMMA AvailabilityStep ==
  LoadInv /\ LoadInv' /\ [Next]_vars => [Availability!Next]_<<isReady, Objects>>
<1> SUFFICES ASSUME LoadInv, LoadInv', [Next]_vars
             PROVE  Availability!Next \/ UNCHANGED <<isReady, Objects>>
  OBVIOUS
<1>1. isReady \in BOOLEAN /\ isReady' \in BOOLEAN /\ (isReady => isReady')
  BY ReadyStays DEF LoadInv, StartInv, StartTypes
<1>2. CASE UNCHANGED loaderVars
  <2>1. Objects' = Objects
    BY <1>2, ObjectsStay DEF loaderVars
  <2>2. CASE isReady' = isReady
    BY <2>1, <2>2
  <2>3. CASE isReady' # isReady
    <3>1. ~isReady /\ isReady' = TRUE
      BY <1>1, <2>3
    <3>2. Availability!Run
      BY <2>1, <3>1 DEF Availability!Run, Objects
    <3> QED BY <3>2 DEF Availability!Next
  <2> QED BY <2>2, <2>3
<1>3. CASE PollRuntime
  BY <1>3, ObjectsStay DEF PollRuntime, startVars
<1>4. ASSUME NEW l \in Loads, LoadAotAssembly(l)
      PROVE  Availability!Next \/ UNCHANGED <<isReady, Objects>>
  <2>1. assembly[l] \in Assemblies
    BY DEF LoadInv, LoadTypes
  <2>2. isReady' = isReady
    BY <1>4 DEF LoadAotAssembly, startVars
  <2>3. Availability!Publish(assembly[l])
    BY <1>4, <2>2, LoadPublishes DEF Availability!Publish, Objects
  <2> QED BY <2>1, <2>3 DEF Availability!Next
<1>5. ASSUME NEW l \in Loads, FetchModule(l) \/ CompileModule(l) \/ FailModule(l) \/ ResolveImports(l)
      PROVE  UNCHANGED <<isReady, Objects>>
  BY <1>5, ObjectsStay DEF FetchModule, CompileModule, FailModule, ResolveImports, startVars
<1>6. ASSUME NEW l \in Loads, InstantiateModule(l)
      PROVE  Availability!Next \/ UNCHANGED <<isReady, Objects>>
  <2>1. assembly[l] \in Assemblies
    BY DEF LoadInv, LoadTypes
  <2>2. isReady' = isReady
    BY <1>6 DEF InstantiateModule, startVars
  <2>3. CASE Objects' = Objects
    BY <2>2, <2>3
  <2>4. CASE /\ isReady /\ Objects[assembly[l]] = "empty"
             /\ Objects' = [Objects EXCEPT ![assembly[l]] = "functions"]
    <3>1. Availability!Provide(assembly[l])
      BY <2>2, <2>4 DEF Availability!Provide, Objects
    <3> QED BY <2>1, <3>1 DEF Availability!Next
  <2> QED BY <1>6, <2>3, <2>4, InstantiationProvides
<1>7. CASE UNCHANGED vars
  BY <1>2, <1>7 DEF vars
<1>8. CASE \E l \in Loads : LoadAotAssembly(l) \/ LoadStep(l)
  BY <1>4, <1>5, <1>6, <1>8 DEF LoadStep
<1> QED BY <1>2, <1>3, <1>7, <1>8 DEF Next, Start

(* The loader implements AotAvailability: a rewritten method finds         *)
(* functions only after the runtime runs and its assembly's object was     *)
(* published, and loses them only to another load of the assembly.         *)
THEOREM LoaderImplementsAvailability == Spec => ImplementsAvailability
<1>1. Init => Availability!Init
  <2> SUFFICES ASSUME Init PROVE Availability!Init
    OBVIOUS
  <2>1. isReady = FALSE /\ \A a \in Assemblies : Object(a) = "none"
    BY DEF Init, StartInit, Object
  <2> QED BY <2>1 DEF Availability!Init
<1>2. LoadInv /\ LoadInv' /\ [Next]_vars
        => [Availability!Next]_<<isReady, [a \in Assemblies |-> Object(a)]>>
  BY AvailabilityStep DEF Objects
<1> QED BY <1>1, <1>2, LoadAlways, PTL DEF Spec, ImplementsAvailability, Availability!Spec
-----------------------------------------------------------------------------
(* MyWebHost.                                                              *)

(* Every block lies below the address of the next one.                     *)
Below ==
  /\ nextHeapObjectAddr \in Nat
  /\ blocks \subseteq [addr : Nat, size : Nat]
  /\ \A b \in blocks : b.addr + b.size <= nextHeapObjectAddr

(* A block handed out begins where all the others have ended.              *)
LEMMA MallocKeeps ==
  ASSUME Below, BlocksDisjoint, NEW numBytes \in ObjectSizes, Malloc(numBytes)
  PROVE  (Below /\ BlocksDisjoint)'
<1> DEFINE new == [addr |-> nextHeapObjectAddr, size |-> numBytes]
<1>1. /\ blocks' = blocks \cup {new}
      /\ nextHeapObjectAddr' = nextHeapObjectAddr + numBytes
  BY DEF Malloc, AddressAfter
<1>2. /\ numBytes \in Nat /\ new \in [addr : Nat, size : Nat]
      /\ new.addr = nextHeapObjectAddr /\ new.size = numBytes
  BY ObjectSizesAssumption DEF Below
<1> HIDE DEF new
<1>3. \A b \in blocks : b.addr \in Nat /\ b.size \in Nat /\ b.addr + b.size <= nextHeapObjectAddr
  BY DEF Below
<1>4. nextHeapObjectAddr' \in Nat /\ blocks' \subseteq [addr : Nat, size : Nat]
  BY <1>1, <1>2 DEF Below
<1>5. ASSUME NEW b \in blocks' PROVE b.addr + b.size <= nextHeapObjectAddr'
  <2>1. CASE b = new
    BY <1>1, <1>2, <2>1 DEF Below
  <2>2. CASE b \in blocks
    BY <1>1, <1>2, <1>3, <2>2 DEF Below
  <2> QED BY <1>1, <2>1, <2>2
<1>6. ASSUME NEW b \in blocks', NEW c \in blocks', b # c
      PROVE  b.addr + b.size <= c.addr \/ c.addr + c.size <= b.addr
  <2>1. CASE b = new
    BY <1>1, <1>2, <1>3, <1>6, <2>1
  <2>2. CASE c = new
    BY <1>1, <1>2, <1>3, <1>6, <2>2
  <2>3. CASE b \in blocks /\ c \in blocks
    BY <1>6, <2>3 DEF BlocksDisjoint
  <2> QED BY <1>1, <2>1, <2>2, <2>3
<1> QED BY <1>4, <1>5, <1>6 DEF Below, BlocksDisjoint

(* No two objects that compiled code asks loader.js for share a byte.      *)
THEOREM BlocksAlwaysDisjoint == HostSpec => []BlocksDisjoint
<1>1. HostInit => Below /\ BlocksDisjoint
  <2> SUFFICES ASSUME HostInit PROVE Below /\ BlocksDisjoint
    OBVIOUS
  <2>1. nextHeapObjectAddr = 0 /\ blocks = {}
    BY DEF HostInit
  <2> QED BY <2>1 DEF Below, BlocksDisjoint
<1>2. Below /\ BlocksDisjoint /\ [HostNext]_hostVars => (Below /\ BlocksDisjoint)'
  <2> SUFFICES ASSUME Below, BlocksDisjoint, [HostNext]_hostVars
               PROVE  (Below /\ BlocksDisjoint)'
    OBVIOUS
  <2>1. CASE UNCHANGED <<nextHeapObjectAddr, blocks>>
    BY <2>1 DEF Below, BlocksDisjoint
  <2>2. ASSUME NEW numBytes \in ObjectSizes, Malloc(numBytes) PROVE (Below /\ BlocksDisjoint)'
    BY <2>2, MallocKeeps
  <2>3. CASE FetchHostModule \/ CompileHostModule
    BY <2>1, <2>3 DEF FetchHostModule, CompileHostModule
  <2>4. CASE InstantiateHostModule \/ FunctionReturns
    BY <2>1, <2>4 DEF InstantiateHostModule, FunctionReturns
  <2>5. CASE UNCHANGED hostVars
    BY <2>1, <2>5 DEF hostVars
  <2> QED BY <2>2, <2>3, <2>4, <2>5 DEF HostNext
<1> QED BY <1>1, <1>2, PTL DEF HostSpec
=============================================================================
