---------------------------- MODULE RuntimeStart ----------------------------
(***************************************************************************)
(* mono_load_runtime_and_bcl of library_mono.js: every file of the list is *)
(* fetched, handed to the runtime as it arrives, and the arrival of the    *)
(* last one starts the runtime.  Responses and bodies arrive in any order; *)
(* each may fail, which ends the promise chain of its file and nothing     *)
(* else.  What a file contains is abstracted; so are logging and the       *)
(* "debugger" statement.                                                   *)
(***************************************************************************)
EXTENDS Naturals, FiniteSets, Sequences

CONSTANTS
  Files,         (* file_list                                              *)
  Environments   (* where the script may run: "web", "node", "shell"       *)

ASSUME FilesAssumption == IsFiniteSet(Files) /\ Files # {}
ASSUME EnvironmentsAssumption == Environments \subseteq {"web", "node", "shell"}

VARIABLES
  environment,
  file,         (* state of each file's promise chain                      *)
  pending,      (* files still missing                                     *)
  urls,         (* the local loaded_files                                  *)
  loadedFiles,  (* MONO.loaded_files, <<>> while it is undefined           *)
  assemblies,   (* what the runtime was given, driver.c's list             *)
  bundle,       (* the part of it mono_wasm_load_runtime registered        *)
  runtime,      (* "none", "running", "failed", "exited"                   *)
  isReady,      (* MONO.mono_wasm_runtime_is_ready                         *)
  callbacks     (* how many times loaded_cb was called                     *)

startVars == <<environment, file, pending, urls, loadedFiles, assemblies, bundle, runtime,
               isReady, callbacks>>

FileStates == {"listed", "requested", "received", "added", "failed"}

StartInit ==
  /\ environment \in Environments
  /\ file = [f \in Files |-> "listed"]
  /\ pending = 0
  /\ urls = <<>> /\ loadedFiles = <<>>
  /\ assemblies = {} /\ bundle = {}
  /\ runtime = "none" /\ isReady = FALSE /\ callbacks = 0
-----------------------------------------------------------------------------
(* file_list.forEach asks for each file.  Node's fetch_file_cb reads the   *)
(* file at once, and that of a shell is the caller's: one that throws ends *)
(* the loop, and the files behind are never asked for.  fetch only rejects. *)
AskedFor ==
  IF environment = "web" THEN {Files} ELSE SUBSET Files

StartLoading ==
  /\ \A f \in Files : file[f] = "listed"
  /\ \E asked \in AskedFor :
       file' = [f \in Files |-> IF f \in asked THEN "requested" ELSE "failed"]
  /\ pending' = Cardinality(Files)
  /\ UNCHANGED <<environment, urls, loadedFiles, assemblies, bundle, runtime, isReady, callbacks>>

ReceiveResponse(f) ==
  /\ file[f] = "requested"
  /\ file' = [file EXCEPT ![f] = "received"]
  /\ urls' = Append(urls, f)
  /\ UNCHANGED <<environment, pending, loadedFiles, assemblies, bundle, runtime, isReady, callbacks>>

(* A response that is not ok, a request or a body that breaks off: the     *)
(* rest of the chain does not run, and nobody handles the rejection.       *)
FailFile(f) ==
  /\ environment # "node"
  /\ file[f] \in {"requested", "received"}
  /\ file' = [file EXCEPT ![f] = "failed"]
  /\ UNCHANGED <<environment, pending, urls, loadedFiles, assemblies, bundle, runtime, isReady,
                 callbacks>>

MonoWasmRuntimeReady == isReady' = TRUE

(* mono_wasm_load_runtime takes all assemblies added so far.  Its exception *)
(* leaves the promise chain; in a shell it is caught and ends the process. *)
LoadRuntime ==
  /\ loadedFiles' = urls
  /\ bundle' = assemblies'
  /\ \/ /\ runtime' = "running"
        /\ MonoWasmRuntimeReady
        /\ callbacks' = callbacks + 1
     \/ /\ runtime' = IF environment = "shell" THEN "exited" ELSE "failed"
        /\ UNCHANGED <<isReady, callbacks>>

(* Mutants: one file too early; tested before the count goes down.         *)
LastFileTooEarly == pending <= 2
LastFileBeforeCounting == pending = 0

LastFile == pending = 1

ReceiveFile(f) ==
  /\ file[f] = "received"
  /\ file' = [file EXCEPT ![f] = "added"]
  /\ assemblies' = assemblies \cup {f}
  /\ pending' = pending - 1
  /\ IF LastFile THEN LoadRuntime ELSE UNCHANGED <<loadedFiles, bundle, runtime, isReady, callbacks>>
  /\ UNCHANGED <<environment, urls>>

MonoWasmGetLoadedFiles == loadedFiles

FileStep ==
  \E f \in Files : ReceiveResponse(f) \/ FailFile(f) \/ ReceiveFile(f)

StartNext == StartLoading \/ FileStep
-----------------------------------------------------------------------------
Started == \E f \in Files : file[f] # "listed"
StartFailed == runtime \in {"failed", "exited"} \/ \E f \in Files : file[f] = "failed"

StartTypeOK ==
  /\ environment \in Environments
  /\ file \in [Files -> FileStates]
  /\ pending \in 0 .. Cardinality(Files)
  /\ urls \in Seq(Files) /\ loadedFiles \in Seq(Files)
  /\ assemblies \subseteq Files /\ bundle \subseteq Files
  /\ runtime \in {"none", "running", "failed", "exited"}
  /\ isReady \in BOOLEAN
  /\ callbacks \in {0, 1}

(* Responses and bodies overtake each other, but when the runtime says it  *)
(* is ready it was given every file of the list before it registered its   *)
(* bundle, MONO.loaded_files names each of them once, and loaded_cb was    *)
(* called exactly once: the counting down of "pending" in the promises     *)
(* finds the last file whatever the order.                                 *)
ReadyMeansComplete ==
  isReady =>
    /\ runtime = "running" /\ callbacks = 1
    /\ bundle = Files
    /\ {MonoWasmGetLoadedFiles[i] : i \in DOMAIN loadedFiles} = Files
    /\ Len(MonoWasmGetLoadedFiles) = Cardinality(Files)

(* A start that loses no file ends with a runtime that is ready, or in the *)
(* exception of mono_wasm_load_runtime: no file is waited for for ever     *)
(* unless its promise was rejected.                                        *)
StartEnds == Started ~> (isReady \/ StartFailed)
=============================================================================
