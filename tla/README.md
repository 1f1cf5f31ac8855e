# il2wasm: models and proofs

il2wasm compiles .NET assemblies ahead of time to WebAssembly. Each method of an assembly becomes
a WebAssembly function; in the assembly itself the method's body is replaced by a call through
JavaScript to that function. In the browser a loader fetches the `.wasm` file beside Mono's
interpreter and connects the two. This directory holds TLA+ models of that code, the TLC
configurations that check them and TLAPS proofs about them. Paths below are relative to the
repository.

## 1. Inventory

| component | state it keeps | operations | what is hard | what makes it correct |
|---|---|---|---|---|
| `FlowAnalysis.cs` | sorted list of jump targets | constructor, `TryGetJumpTarget` | knows more opcodes than the compiler | exactly the targets, in order |
| `MethodBodyCompiler.cs` | output list, next target to pass, position in the body | `Compile`, `CompileInstruction`, the local function `getBreakDepth` | relative depths while blocks are being closed; `getBreakDepth` adds to the list being extended; backward jumps through a local and a jump table at the head of a loop | blocks balance, every branch lands on its target, the function is valid and computes what the CIL body computes |
| `WasmFunctionBuilder.cs` | names and numbers of locals, parameters | constructor, `AddParameter`, `GetLocalIndex` | numbering on demand | parameters first, no number twice |
| `WasmModuleBuilder.cs` | function indices by name, builders by index, globals, imports, types | `GetOrReserveFunctionIndex`, `AddFunction`, `GetStaticImportIndex`, `GetGlobalIndex`, `AddType`, `ToModule` | numbers are used before the layout is known | each number is the position the module has in the end |
| `Compiler.cs` | the assembly, rewritten in place | `Compile`, `CompileMethod`, `ReplaceWithJSInteropCall` | one exception ends everything half way; two output files | every rewritten method reaches its function with all its arguments |
| start of the runtime: `library_mono.js` `mono_load_runtime_and_bcl` | `pending`, `loaded_files`, `mono_wasm_runtime_is_ready` | request, response, body, start | files arrive in any order and may fail; the last one starts the runtime | ready means complete |
| `aot-loader.js` (BlazorStandalone), `MethodFinder.cs` | `window.aot`, four module variables, readiness promise | `loadAotAssembly`, `instantiateWasmModule`, thunks | awaits between publishing and filling exports, concurrent loads, missing handles, a poll that may never end | functions appear when they can run, and stay; loads settle |
| `loader.js` (MyWebHost) | the next free address | `instantiateWasmModule`, `malloc` | every step may fail | objects do not overlap |
| interop calls: `dotnet_support.js`, `callInterpreterMethod`, `driver.c` `mono_wasm_invoke_method` | emscripten's stack, exception flag, the global object | nested calls both ways | saves and restores in reverse order on every path, exceptions through native frames | the stack pointer after a call is the one before it; live arguments stay; exceptions are not lost |
| event loop: `library_mono.js` `pump_message` and timers | `pump_count`, `timeout_queue` | `schedule_background_exec`, `mono_set_timeout`, `pump_message` | requests made while draining, exceptions that leave a loop, one counter for two things | every request is followed by background work, every timeout runs once |
| debugger: rest of `library_mono.js` | `active_frames`, `var_info`, wrapped entry points | call stack, variables, breakpoints | requests that break off leave entries behind | replies are exact |
| `driver.c` marshalling | none | `unbox_int`, `unbox_enum`, ... | widths and signs | the value comes out unchanged |
| `Program.cs`, `build/build.targets` | files in the output directory | compile, copy | `.wasm` written before `.dll`, failed and incremental builds | the pair that is published belongs together |

How they interact. `MethodBodyCompiler` calls `getBreakDepth`, `WasmModuleBuilder` and
`WasmFunctionBuilder`; `Compiler` drives them method by method. The rewritten assembly and the loader
meet only in names (`aot.<assembly>.<Type>::<signature>`). The loader polls a flag that the start of the
runtime sets. A rewritten method calls through `dotnet_support.js`; compiled code calls back
through the loader's thunks into `driver.c`, on the same native stack. The event loop's timers run
managed code, which may request more timers.

The Mono headers, libraries, BCL and linker under `Microsoft.AspNetCore.Blazor.Mono` are vendored
or prebuilt. `PROJECT.json` lists the hazards at their lines, with the properties that watch them.

## 2. Plan

1. **Done**: method bodies, their execution against an abstract CIL, validity, module numbering; the start
   of the runtime and the loader, refining an abstract availability; interop calls; the
   event loop and the debugger's requests; MyWebHost's loader. Proofs of `BlocksBalanced` and
   `BranchesLand`, of validity, of the refinement of `CilControl`, of the jump targets, of the pump's accounting and the order
   of timeouts, of the debugger's replies, of the stack discipline of nested calls, of the start, of the
   loader's refinement, of the module's index spaces, and of the refinement of `CilMachine` by the execution of
   compiled functions.
2. **Models left**: the heap and `newobj`, `ldfld`, `stfld` against an object layout; the build's two files;
   unboxing in `driver.c` as operators against reference definitions.
3. **Proofs left**: none of the safety properties the passing runs check. With the heap modelled,
   `CompiledCodeComputesCil` would extend to field accesses.

## 3. Modules

| module | models |
|---|---|
| `Cil` | method bodies: instructions, jump targets by position, what the C# compiler guarantees (targets inside the body, no running off the end). Short forms with a built-in operand are one opcode with an operand |
| `FlowAnalysis` | `FlowAnalysis.cs`; `JumpTargetOffsets` is the sorted list of the set of targets |
| `Wasm` | emitted instructions, and the meaning of block structure: `Nesting`, `ClosedBy`, `Encloses` |
| `MethodBodyCompiler` | `MethodBodyCompiler.Compile`. `result`, `jumpTargets`, `nextJumpTargetIndex` are the code's variables (`nextJumpTargetOffset` is a function of the last two); `il` and `item` are the loops' positions. One action is one iteration: `CompileStraightInstruction`, `CompileBranch`, `BeginSwitch`/`CompileSwitchItem`/`EndSwitch`, `RejectInstruction` (for an unknown opcode, or for a jump target `getBreakDepth` does not find), with `OpenBlocks` before and `CloseBlocks` behind the loop. What `getBreakDepth` itself adds to `result` comes where the lazily evaluated `AddRange` of .NET Core 2.1 puts it. `start` and `jumps` are history |
| `CilControl`, `CompiledControlFlow` | the order in which CIL instructions may execute, and the engine running the compiled function with its label stack and the local `jumpTarget`; data are abstract, `br_if` goes either way |
| `WasmValidation`, `CompiledValidity` | the engine's stack-height check, polymorphic after unconditional branches (`Checked` is its state after each instruction), and when compiled functions pass it: `Heights` are the evaluation stack's heights, up to `MaxHeight`, that make a body verifiable |
| `Int32`, `CilMachine`, `CompiledExecution` | machine integers, `Half` of them negative; evaluation stack, arguments and locals of CIL; the engine with operands and locals |
| `ModuleAssembly` | `Compiler.CompileToWasm`, `WasmModuleBuilder`, `WasmFunctionBuilder`. A method is the list of the uses it makes of functions, imports, type handles and locals; every number handed out is remembered in `numbered` and compared with the finished module, which `BeginModule`, `LayOutFunction` (an iteration of `ToModule`'s loop over the sorted indices) and `EndModule` build |
| `RuntimeStart` | `mono_load_runtime_and_bcl` in a browser, in node and in a shell: each file is a promise chain (`listed`, `requested`, `received`, `added`, `failed`), the two callbacks that change shared state are `ReceiveResponse` and `ReceiveFile`, and the one that finds `pending` at 1 starts the runtime, which may throw |
| `AotLoader` | `aot-loader.js` on top of it (it extends `RuntimeStart`). Each call of `loadAotAssembly` goes from await to await: `LoadAotAssembly`, `FetchModule`, `CompileModule`, `ResolveImports`, `InstantiateModule`, or fails in between. `PollRuntime` is the interval's callback |
| `AotAvailability` | the abstract specification: what a rewritten method may find under the name of its assembly |
| `HostLoader` | MyWebHost's `loader.js` |
| `InteropCalls` | `frames` is the chain of activations (managed, the two interop calls, compiled code, scripts, the thunk with `callInterpreterMethod`), `answer` what the frame on top has just been given, `sp` and `memory` emscripten's stack in units of 16 bytes, to which `stackAlloc` rounds. Each action is one side of a call: entering it, or what the caller does when it comes back. A method that throws does so in a step of its own (`ManagedThrows`), since `mono_wasm_invoke_method` sets the flag before `mono_object_to_string` runs managed code again. Handles become JavaScript numbers, rounded to the nearest double (`Doubles`) |
| `MonoSupport` | `pump_message` and its two loops, `schedule_background_exec`, `mono_set_timeout`, timers. One iteration of a loop is one action, since what it calls is managed code that comes back to this file |
| `MonoDebugger` | breakpoints, single stepping, and requests for frames and variables, which the runtime answers by calling back |
| `MC*` | instances for TLC. `MCPages` puts the loader and MyWebHost's page side by side, `MCMonoSupport` the pump and the debugger: the two halves share no state, and a behaviour shows one of them |
| `MethodBodyCompilerProofs`, `ValidityProofs`, `ControlFlowProofs`, `ExecutionProofs`, `ModuleAssemblyProofs`, `LoaderProofs`, `InteropCallsProofs`, `MonoSupportProofs` | proofs |

Operators introduced by a comment "Mutant" are wrong variants of the definition behind them. None
is used by a specification; each breaks one property, listed in `PROJECT.json`.

The engine, Mono.Cecil, CIL, the browser and the runtime's native part are outside `src/` or prebuilt
there; `PROJECT.json` marks what models them as external. The interpreter may write anything to the
part of the stack that is its own (`Scribbled`), may catch an exception or not, and runs whatever
managed code calls next.

## 4. Runs

| run | question | bounds |
|---|---|---|
| `compile` | Are blocks balanced and does every branch land on its target? Are bodies with an empty evaluation stack at jump targets compiled to valid functions? Is a compilation broken off for an unknown opcode only, and is what is complete compiled instruction by instruction? | every well-formed body of up to 3 instructions over straight code, forward/backward jumps, switches with 0 or 2 targets and rejected opcodes; all bodies of 4 over jumps, returns, straight code; one body per opcode; validity for the bodies that keep the evaluation stack consistent |
| `control` | Does the compiled code go through the CIL instructions in an order CIL allows? Does a restart reach its target? Is the fake return value unreachable? Do bodies without backward jumps end? | as above, with exceptions in callees and `rem` |
| `execution` | Same values as CIL? Does every instruction finish? | every pair of statements out of 6 computations and all jumps between them, `IsPrime` of `samples/MyLibrary` and a body that keeps a truth value in a local; arguments -8, -1, 0, 1, 2, 7 at 4 bits, so that additions, products, negation and `MinInt rem -1` wrap |
| `assembly` | Is each number the position the module has in the end? Are locals distinct? Do rewritten methods find their functions? | up to three methods with up to two uses each, every combination of 8 uses, forward, backward and self references, homonyms, two methods with one FullName, failures |
| `loader` | Is a ready runtime complete? Are only linked functions published, by the load they belong to? Do loads settle? Does the loader implement `AotAvailability`? Are MyWebHost's blocks disjoint? | 2 files, 2 loads of the same or of different assemblies, every outcome of each lookup (found, absent, throws), browser, node and shell; heap of 8, objects of 1 and 3 |
| `interop` | Is the stack given back on every path? Do live arguments and flags stay? Do exceptions come out? | up to 20 frames and 40 units of stack, 0, 1, 4 and 5 arguments, every page with or without global object and `DotNet`; words of four values, numbers exact up to 8, handles 0, 3 (one word), 4 (a lower word of zero) and 9 (to be rounded, up or down) |
| `support` | Does the counter count? Does every request lead to background work? Does each timeout run once? Are replies exact? | 2 timeouts, 3 requests, browser and shell; stacks of up to 2 frames, up to 2 variables at once, 2 breakpoints |
| `brfalse`, `starg`, `conditional`, `nested`, `instance` | violations, see below | one program each |

Why the bounds are enough. A branch's depth depends on the order of its target relative to the
blocks closed so far: with four instructions jumps occur with several blocks closed, several open,
target at the jump itself, at the first and at the last instruction, two of them interleaved or nested.
An index is handed out before, while or after its method is compiled; three methods give each of these with
another method in between. Loads interfere in pairs only, through one name in `window.aot`, and the start
with one load at a time; `pending` goes wrong, if it does, between two files. The stack of `interop` holds
two levels of `callInterpreterMethod` above the page's call with room for a third to be
refused: what could be overwritten is at most two levels down. A request and a timeout
compete for the counter in pairs; the third request is the one made while the other two are being drained.
Where a proof covers the property (section 5) the bounds do not matter.

**Fairness.** The compiler is a sequential program run to its end, and so is a call in the engine
(a WebAssembly thread is not preempted for good): weak fairness on the steps of each where code is compiled and
executed; of the compiler alone (`CompilerSpec`) only safety is claimed, since that a pass over finite lists ends
would say nothing of the code. Nothing obliges
anybody to call a method: `Call` has no fairness. Liveness is only claimed where the body itself
cannot loop (`ForwardBodiesEnd`) or for one instruction at a time (`EveryInstructionFinishes`,
`RestartReachesTarget`). A browser answers every request, if need be with a failure, goes on calling an interval's
callback, and resumes what awaits a settled promise: weak fairness on `FileStep`, `PollRuntime` and
`LoadStep`. In `interop` an exception on its way does not stop half way; no call is
obliged to return. In `support`, managed code comes back and loops go on; timers that are due run in the end
even though events of the page come in between, hence strong fairness on `PumpMessage` in a browser and on
`TimeoutExec`. Outside a browser the embedder decides when to call `pump_message`, and
nothing is claimed there.

**Deadlock** is not checked: every behaviour ends or may rest (a compilation is done or failed, a call has
returned, a module is built, all loads have settled, the bounded requests are used up).

### What the violations show

* `brfalse`: `brfalse.s` is compiled to `value - 1; br_if`, which branches for 2 or -1 too. The
  `execution` run therefore puts only comparisons in front of `brfalse.s`, or the local that keeps the result of one.
* `starg`: `starg.s` uses `ParameterDefinition.Index`, which leaves `this` out, as the number of
  the local; in an instance method the store goes to the local before the parameter's.
* `conditional`: blocks carry no values; a C# conditional expression compiles to an invalid function.
* `nested`: methods of nested types (lambdas) are not compiled, but calling one reserves an index;
  positions behind the gap are off by one. `IndexSpacesAgree` and `InteropFindsFunction` hold for
  assemblies closed under calls.
* `instance`: the call put in place of an instance method's body omits `this`.

### What else the models show

The repository says nothing that these contradict, so there is no run that fails; they are what the code
does, and the properties are worded accordingly.

* `mono_wasm_clear_all_breakpoints` makes its wrapper only if there is one already, so the call is a
  `TypeError` and no breakpoint is ever cleared by it. `MonoDebugger` has the test as it stands; no property is
  about it, for it holds by that test alone and nothing in the repository says what the call should do.
* Outside a browser, a timeout set while `pump_message` runs background work is taken for a request by the
  second loop and then missing from the count: the next request may not be executed by the
  `pump_message` that follows it (see the remark on `CountIsOutstanding`). `RequestsExecuted` is about browsers.
* A file that fails leaves the runtime not ready for good, and every load waiting; nothing says so
  to the page. An empty list of files never starts the runtime at all, which `FilesAssumption` leaves out.
* Loading an assembly again makes its methods unavailable until the new module is there; the first
  load's functions stay in an object nobody can reach (`Publish` in `AotAvailability`).
* Export names carry no namespace: two classes of one name, with methods of one signature, give a module with two
  exports of one name, which no engine accepts. `InteropFindsFunction` is about methods with names of their own
  (`OwnName`).
* The thunk of a static import drops the value the interpreter returns (`CompiledGoesOn` carries none).
* `throw null` in a script, or a page without a global object, sends a JavaScript exception through the
  interpreter's native frames. Their stack comes back all the same, with the next thunk's
  `finally` or with the page's call (`FrameOwnsStack`).
* MyWebHost's `loader.js` provides `sys.malloc` and one import under its former name, while the compiler
  now emits `sys.mono_wasm_object_new` and other signatures: only modules built by an
  earlier compiler are instantiated (`MCHostModules` has both).

## 5. Proofs

`MethodBodyCompilerProofs`. A finite set of numbers has a sorted list: each element goes to the place given
by how many elements there are up to it, which is strictly monotone, hence a bijection. So the
`CHOOSE` in `JumpTargetOffsets` has a witness and `JumpTargetsSorted` follows for every well-formed
body.

`TypeCorrect == CompilerSpec => []TypeOK` for every set of methods that
satisfies `MethodsAssumption`. `TypeOK` alone is not inductive: that a depth is a natural number
and that the target of a branch is found needs `jumpTargets = JumpTargetOffsets(Code)`, which
`TypeInv` adds; with `JumpTargetsSorted` every target of an instruction is in the list.

In the same module `BlocksBalancedAlways == CompilerSpec => []BlocksBalanced`. `BlocksBalanced`
speaks of finished code only; the inductive `BalanceInv` adds what holds while instructions are being
compiled: the code never closes more than it opened, and `1 + Len(jumpTargets) -
nextJumpTargetIndex` labels are open behind it. The argument: `Nesting` of two pieces of code is the
sum of theirs (`NestingAppended`, by counting a set and a shifted set); what an instruction compiles
to contains no `block`, `loop` or `end` (`FlatInstr`, `FlatNesting`), so only the head of an iteration,
the prologue and the epilogue change the depth, and the head's `end` is the one
`nextJumpTargetIndex` counts. One step of the proof per action.

There too, `AlwaysFailsOnlyForUnknownOpcode == CompilerSpec => []FailsOnlyForUnknownOpcode`: `FlowAnalysis` decides
before the compilation which targets are listed, `CompileInstruction` which jumps are compiled; every jump the second
knows is one the first knows, so `getBreakDepth` finds its target. With that, one step after the other adds to what a complete
body needs: the start of each instruction, and a branch for each of its targets.

There too, `BranchesAlwaysLand == CompilerSpec => []BranchesLand`. Of `n` targets the block of number `k` is
opened at `n + 2 - k` (`HasPrologue`), so at that depth too. The invariant `LandInv` says of the code so far
(`BuiltTo`): the blocks of the targets passed end right before the code of their instruction
(`Passed`); each branch was emitted while the blocks of some `closed` targets were closed and none
more, with the depth, or the depth and the stored number, that `getBreakDepth` computes from `closed`
(`CompiledAt`); every target not yet passed lies ahead. The last part, from the order of the list, is
why an instruction that is a target closes exactly its own block (`ClosingBuilds`) and why at the end
all targets are passed. Appended code preserves the rest (`LandedGoesOn`, since nesting depends only on what
comes before). `BlockLeaves` and `LandedIsEnough` then do the arithmetic of labels: a forward branch at
depth `k - 1 - closed` sees the block opened at `n + 2 - k`; a backward branch at depth `n - closed` sees the
loop, and label `k` of the jump table, which stands inside one more block, is the block of target `k` again.

`ValidityProofs`. `StatementsAlwaysValidate == CompilerSpec => []StatementsValidate`, for every set of methods, every
`Signatures` and every `MaxHeight`. `Validates` is a recursive function of the whole code, so the invariant carries
the state the check is in behind the code so far (`Leads(Begin, result, Arity, v)`: there is a way of the check through
`result` that ends in `v`), and `LeadsIsChecked` shows at the end that the recursive function is that way. `ValidInv`
says that `v` has as many frames open as there are blocks to close (`FramesLeft`), all of which start at height 0,
and `Fits` a verifiable body: in reachable code its height is the evaluation stack's in front of the next CIL
instruction, in unreachable code it is not above. One height below the body's is not an error there, since a
missing operand is made up; this is what keeps the invariant through code behind a `br` or `return`.
`Moves` is what pieces of code do to such states, and adds up (`MovesOn`, `ManyMove`, the latter by the first place
the check would not reach, which needs only that `<` on the naturals is well founded). Then one lemma for each
kind of code: instructions that do not branch (`StraightMoves`, with `newobj`'s replayed arguments in `NewobjMoves`),
branches (`BranchMoves`: no depth is that of the function's own label), switch targets (`ItemMoves`), the end of
a block (`ClosingValid`: an instruction that is a target has height 0), head and end of the function
(`PrologueLeads`, `EpilogueLeads`: the fake value is the result the last `end` wants).

`ControlFlowProofs`. `CompiledCodeImplementsCil == Spec => ImplementsCil`: the compiled code of every method,
run by the engine, implements the control flow of its CIL body. Two invariants carry it.
`LayoutInv`, of the compiler, extends `LandInv`: behind the head come the codes of the CIL instructions in their
order without a gap (`Layout`), each made of what its opcode allows (`Laid`, `Fits`: a `return` only in a `ret`, a
trap only in what may throw, a branch only with its entry in `jumps`, a store to `jumpTarget` only behind a
constant), empty for `nop` alone, ending in `br` or `return` if CIL does not fall through (`Closes`).
`EngineInv`, of the engine, says that it is in the head or in the code of some instruction (`Covers`, of which there
is exactly one: `SomeCovers`, `CoversOrder`), that the labels it keeps are the blocks open at its position, each at
its own place (`LabelsMatch`: the loop is label 1 and every later block opened at its depth), and that a
constant on the stack, or stored in `jumpTarget`, is the one the code in front says (`Carries`). One lemma
per action of the engine shows the step is a step of CIL or leaves `Pc` alone. `Pc` is the instruction that covers
the position, or the next one that is not a `nop` (`InTheBody`, `InTheFront`). The label of a branch is the block
`BranchesLand` speaks of, so a taken branch arrives at the end of its target's block (`BranchLeaves`), or at the head
with the number of its target stored (`BranchRestarts`), from where `br_table` leaves that target's block
(`SelectStep`). Arriving between the end of a block and the code behind it is arriving at that instruction, even if
it is a `nop` (`Settles`). `FakeReturnNeverReached` and `EngineTypeCorrect` follow from the same invariant.

`ExecutionProofs`. `CompiledCodeComputesCil == DataSpec /\ Faithful /\ []TestsBooleans => EquivalentToCil`: with its values, a
call of a compiled function does what `CilMachine` does with the CIL body, for every set of methods, every argument list and every
`Half` (2^31 in the program), under two conditions explained below. It rests on three layers.

* `ExactInv`, of the compiler: the code of each CIL instruction is, word for word, what `Compile` has for its opcode
  (`Exact`), which of a switch is one comparison and one branch for each item (`Items`); no two entries of `jumps` are at
  the same place. `Laid` of `ControlFlowProofs` says only which kinds of instructions there are.
* What that code computes: `Works` runs pieces of straight code on operands and locals, `Effect` is what the CIL
  instruction does to its own, and `StraightWorks`, `BranchWorks` and `SwitchWorks` relate the two, opcode by opcode:
  the locals the compiler uses for itself (`dupTemp`, `switchValue`, `jumpTarget`) are never CIL's, and a
  conditional branch asks what CIL asks.
* `DataInv`, of the engine: it is at rest between two CIL instructions, or midway in the code of one (`Midway`), with
  operands and locals that are what this much of the code makes of those it came with (the history variable `seen`),
  whichever way it came; and the evaluation stack has the heights of a verifiable body (`Fit`).

One lemma per action of the engine keeps `DataInv` (`JumpData`, `SelectData`, `EnterData`, `LeaveData`, `SkipData`,
`StopData`, `EndData`, ...). Arriving at the next CIL instruction is a step of `CilMachine` (`MachineFollows`,
`MachineJumps`, `MachineSwitches`, `MachineEnds`), everything else a stutter (`MachineStays`). Where the engine
goes comes from `ControlFlowProofs`, that it has the operands it pops from `Fit`.

`Faithful` is about the method called, and its parts are what the theorem needs. The body is not empty
and consists of instructions `CilMachine` gives a meaning to (no calls, objects or fields), with arguments and
locals it has. `starg.s` comes without a `this` only: the run `starg` shows what happens otherwise. The evaluation stack is empty where a branch arrives, since the
engine drops the operands above a label's; that is the condition of `StatementsValidate` as well, and `conditional` shows
it to be needed there. Every method of the `execution` run is `Faithful`.

`TestsBooleans` is about the values of the call: what a `brfalse.s` tests is 0 or 1 whenever the call comes to
it, as `brfalse` shows to be needed. It says nothing of a `brfalse.s` right behind a comparison that every way to it
passes (`BehindComparison`), where the proof shows it; elsewhere it is a condition, which a truth value kept in a local
(`KeepsTruth` in `MCCompiledExecution`) or given as an argument meets. Though it speaks of the compiled call,
it is no more than a condition on the CIL body and its arguments: up to the first `brfalse.s` that breaks it both
go through the same states.

`LoaderProofs`. `StartInv` says what `ReadyMeansComplete` needs in between: `pending` is the number of files
not yet added (`Counted`, by the cardinality of a set from which one element is taken), and the list of
urls names each file that has been received once (`NamedOnce`), so that the file that finds
`pending = 1` is the last one missing. `LoadInv` adds what the state of a load says about the runtime and
its imports: a load that links has passed the poll, the imports it has are the handles it was given, and
only the load that published an object fills it. From it follow `FunctionsAreLinked`, the type
invariant and the refinement `LoaderImplementsAvailability`: the runtime's becoming ready is `Run`,
`LoadAotAssembly` is `Publish`, an instantiation is `Provide` if its object is still the
one named by `window.aot` and a stutter otherwise, and everything else stutters.

The module also holds the proof of `BlocksDisjoint` of `HostLoader`: blocks lie below the next free address, so a new
one is apart from all of them.

`ModuleAssemblyProofs`. `IndexSpacesAlwaysAgree == Spec => []IndexSpacesAgree`, for every assembly. The invariant relates the
builders' tables to what was handed out: the names reserved have the numbers from 2 to one more than there are, each
once (`Numbering`, kept by `Reserves`); a method met has its builder at its index, and an index without builder belongs
to a name that is called (`FunctionsInv`); type handles and locals are listed once, in the order of their numbers
(`GlobalsInv`, `LocalsInv`, both by `ListedOnce`); and while `ToModule` is under way, function `p` of the module is
the builder of index `p + 1`, for those laid out are the smallest (`PlacesInv`). The last holds only if no
index is without builder (`Dense`), which is what `ClosedUnderCalls` gives in the end (`PositionsOfBuilt`): the
condition the run `nested` shows to be necessary. `InteropAlwaysFindsFunction` adds that exports are those of
the public functions laid out (`ExportsInv`). Neither theorem is about generic methods called with type arguments, for
these names are not compiled.

`InteropCallsProofs`. `StackInv` says that frames are chained (`Chained`: each frame begins where the units of
the one below end, and which kind of frame may call which), where the stack pointer is relative to the
frame on top (`Placed`, weaker while an exception passes native frames that keep their units), and that
the cells of each call that is still running hold its flag, pointers and arguments (`Live`). Calls add a frame at the
end (`ChainedPush`, `LivePush`), returns take it away (`ChainedPop`, `LivePop`), and what the
interpreter writes stays above (`ScribbledKeeps`). `FrameOwnsStack` and `LiveCallsIntact` follow;
`NativeNotUnwound` needs in addition what a host with a global object never does. `LiveCallsIntact` says of the flag that it
is 1 once the method has thrown and 0 until then: only the step in which the frame on top throws changes it
(`ThrowsInManaged`), calls made to describe the exception do not. `AlwaysDispatchedByHandle`
is arithmetic: the two words of a handle put together are the nearest double to it, which is the handle below
`Exact`, and never 0 for a handle above, since `Exact` itself is nearer (`HandleNumberExact`). That handles stay below
2^53 is what `dotnet_support.js:49-51` counts on; larger ones may be dispatched under a neighbour's number, and the
property does not claim otherwise.

`MonoSupportProofs`. The counter's accounting is inductive with the bound of the queue and the fact that a
browser's queue is empty; that timers cover the count needs the exact relation while a loop of
`pump_message` is under way. `TimeoutsAlwaysRunOnce` follows the ids: no id is
set twice (`Cardinality(TimeoutsSet) = Len(set)`), so the step that runs one takes it from the only place it waits
in. `RepliesAlwaysExact`, of `DebuggerSpec`, needs that while a request is under way the entries collected and
what the runtime has still to report make up `wanted` (`Collecting`), although a request that
breaks off leaves its fields as they are.

Assumptions used: `MethodsAssumption` (well-formed bodies), `SignaturesAssumption` (function 0 is
`mono_wasm_object_new`, a constructor takes the object and its parameters and gives nothing), `MaxHeightAssumption`, `FilesAssumption` (a finite list that is not
empty), `LoadsAssumption` and `NoFlagAssumption` (a null value is no load, no address),
`AssembliesAssumption` (an assembly is a sequence of methods, their bodies sequences of uses),
`ArgNamesAssumption` (the names `arg0`, `arg1`, ... differ), `CallsAssumption` (a call fills every argument slot with an
integer), `HalfAssumption` (there is a negative integer), `StacksAssumption` (a stack is a sequence), `BoundsAssumption` (timeouts are finitely many), and the types of
the other constants.

Model-checked only: all liveness (`ForwardBodiesEnd`, `EveryInstructionFinishes`, ...), which TLAPS
cannot prove. Every other property of a passing run is stated by a theorem.

## 6. Not modelled

* Object layout and memory: compiled code's loads and stores of fields are compiled and validated, not
  executed.
* The build: `Compiler.Compile` writes the `.wasm`, then the `.dll`; `build.targets` runs once per build. A
  failure in between leaves a pair that does not belong together until the next build.
* `driver.c` beyond `mono_wasm_invoke_method`: a table from type codes to C types without state.
* `mono_wasm_setenv`, which only forwards its arguments, and the contents of strings.
* Formatting of signatures and identifiers is reduced to names that are equal or not. Exception handlers,
  generics and value types other than `int` and `bool` are not supported by the compiler.
* Sample pages and hosts other than the two loaders and `IsPrime`: no logic of their own.
