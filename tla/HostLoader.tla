---------------------------- MODULE HostLoader ------------------------------
(***************************************************************************)
(* loader.js, the page of MyWebHost: a module that runs without a runtime, *)
(* in a memory of its own, with an allocator that only ever goes up.       *)
(***************************************************************************)
EXTENDS Naturals

CONSTANTS
  HostModules,   (* records [imports, exports] of the modules it may fetch *)
  ObjectSizes,   (* what a compiled function asks malloc for               *)
  MaxHeap        (* bound on the heap explored                             *)

ASSUME ObjectSizesAssumption == ObjectSizes \subseteq Nat \ {0}

VARIABLES
  module, hostState, nextHeapObjectAddr,
  blocks         (* the blocks handed out, as [addr, size]                 *)

hostVars == <<module, hostState, nextHeapObjectAddr, blocks>>

HostImports == {"sys.malloc", "sys.memory", "static.System.Void System.Console::WriteLine(System.Int32)"}
FunctionToInvoke == "System.Int32 MyLibrary.Test::Run(System.Int32)"

HostInit ==
  /\ module \in HostModules
  /\ hostState = "fetching"
  /\ nextHeapObjectAddr = 0
  /\ blocks = {}

FetchHostModule ==
  /\ hostState = "fetching"
  /\ hostState' \in {"compiling", "failed"}
  /\ UNCHANGED <<module, nextHeapObjectAddr, blocks>>

CompileHostModule ==
  /\ hostState = "compiling"
  /\ hostState' \in {"instantiating", "failed"}
  /\ UNCHANGED <<module, nextHeapObjectAddr, blocks>>

(* Linking, then the call; a name that is not exported is undefined, and   *)
(* calling it a TypeError.                                                 *)
InstantiateHostModule ==
  /\ hostState = "instantiating"
  /\ hostState' = IF module.imports \subseteq HostImports /\ FunctionToInvoke \in module.exports
                  THEN "running" ELSE "failed"
  /\ UNCHANGED <<module, nextHeapObjectAddr, blocks>>

(* Mutant: the address moves on by a word whatever was asked for.          *)
AddressAfterWord(numBytes) == nextHeapObjectAddr + 1
AddressAfter(numBytes) == nextHeapObjectAddr + numBytes

Malloc(numBytes) ==
  /\ hostState = "running"
  /\ nextHeapObjectAddr + numBytes <= MaxHeap
  /\ blocks' = blocks \cup {[addr |-> nextHeapObjectAddr, size |-> numBytes]}
  /\ nextHeapObjectAddr' = AddressAfter(numBytes)
  /\ UNCHANGED <<module, hostState>>

FunctionReturns ==
  /\ hostState = "running"
  /\ hostState' = "done"
  /\ UNCHANGED <<module, nextHeapObjectAddr, blocks>>

HostNext ==
  \/ FetchHostModule \/ CompileHostModule \/ InstantiateHostModule
  \/ \E numBytes \in ObjectSizes : Malloc(numBytes)
  \/ FunctionReturns

HostSpec == HostInit /\ [][HostNext]_hostVars
-----------------------------------------------------------------------------
(* Two objects never share a byte.                                         *)
BlocksDisjoint ==
  \A b, c \in blocks : b # c => b.addr + b.size <= c.addr \/ c.addr + c.size <= b.addr
=============================================================================
