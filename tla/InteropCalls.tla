---------------------------- MODULE InteropCalls ----------------------------
(***************************************************************************)
(* Calls from interpreted code to JavaScript and compiled functions, and   *)
(* back: mono_wasm_invoke_js_marshalled and _unmarshalled of               *)
(* dotnet_support.js, callInterpreterMethod of aot-loader.js with the      *)
(* thunks around it, mono_wasm_invoke_method of driver.c.  One thread, one *)
(* stack of frames; "answer" is what the frame on top has just been given  *)
(* by the one that was above it.                                           *)
(*                                                                         *)
(* Native code keeps its data on emscripten's stack: sp counts its units   *)
(* of 16 bytes, to which stackAlloc rounds up, memory is what they hold.   *)
(***************************************************************************)
EXTENDS Integers, Sequences

CONSTANTS
  Arguments,    (* the lists of arguments static imports are called with   *)
  NativeUnits,  (* stack used by the interpreter for one invocation        *)
  MaxDepth,     (* bound on the number of frames                           *)
  StackUnits,   (* units of stack                                          *)
  Word,         (* 2^32: the values of a HEAPU32 element                   *)
  Handles,      (* asynchronous call handles, 0 for a synchronous call     *)
  Exact,        (* 2^53: up to here every whole number is a double         *)
  Spacings,     (* of neighbouring doubles: 1, above Exact 2, then 4, ...  *)
  NoFlag

ASSUME UnitsAssumption == NativeUnits \in Nat /\ StackUnits \in Nat /\ MaxDepth \in Nat
ASSUME HandlesAssumption == Word \in Nat \ {0} /\ Handles \subseteq 0 .. Word * Word - 1
ASSUME DoublesAssumption == Exact \in Nat \ {0} /\ Spacings \subseteq Nat \ {0} /\ 1 \in Spacings
ASSUME ArgumentsAssumption == Arguments \subseteq Seq(Int)
ASSUME NoFlagAssumption == NoFlag \notin Nat

VARIABLES
  host,          (* what the page is: see HostInit                         *)
  dotnetGlobal,  (* ___dotnet_global___: "unset" or the name it was found by *)
  frames,        (* activations, outermost first                           *)
  answer,        (* see Answers                                            *)
  sp, memory,
  dispatch       (* of a marshalled call not yet dispatched: the handle,   *)
                 (* and asyncHandleJsNumber                                *)

vars == <<host, dotnetGlobal, frames, answer, sp, memory, dispatch>>

(* A frame: its kind, the arguments it was given, the stack pointer it was *)
(* entered with, where its caller wants the exception flag, and (history)  *)
(* whether it has thrown a .NET exception.                                 *)
Kinds == {"managed", "marshalled", "unmarshalled", "compiled", "script", "thunk"}
Interop == {"marshalled", "unmarshalled"}
Frame(kind, args, flag) ==
  [kind |-> kind, args |-> args, base |-> sp, flag |-> flag, threw |-> 0]

(* "none": the frame on top runs.  "value", "message": the call it made    *)
(* has come back, the second with *exceptionMessage set.  "native": the    *)
(* invocation has come back, and memory says how.  "error", "other": a     *)
(* JavaScript exception on its way, an Error object or something without   *)
(* properties.                                                             *)
Answers == {"none", "value", "message", "native", "error", "other"}

Top == frames[Len(frames)]
Runs(kinds) == frames # <<>> /\ answer = "none" /\ Top.kind \in kinds
Gets(kinds, answers) == frames # <<>> /\ Top.kind \in kinds /\ answer \in answers
Push(frame) == frames' = Append(frames, frame) /\ Len(frames) < MaxDepth
Pop == frames' = SubSeq(frames, 1, Len(frames) - 1)

(* The names "global" and "window" mean nothing, the global object, or     *)
(* some other object; Microsoft.JSInterop.js is loaded or not; scripts     *)
(* throw Errors or anything.                                               *)
Hosts ==
  [global : {"absent", "real", "other"}, window : {"absent", "real", "other"},
   hasDotNet : BOOLEAN, throwsOnlyErrors : BOOLEAN]

NoDispatch == [handle |-> 0, number |-> 0, async |-> FALSE]

Init ==
  /\ host \in Hosts
  /\ dotnetGlobal = "unset"
  /\ frames = <<>> /\ answer = "none"
  /\ sp = 0
  /\ memory = [a \in 0 .. StackUnits - 1 |-> <<>>]
  /\ dispatch = NoDispatch
-----------------------------------------------------------------------------
(* Mutant: any object will do.                                             *)
TestAnyObject(name) == host[name] # "absent"

(* _dotnet_get_global.  testGlobal leaves a property on the object: it is  *)
(* seen as a variable only on the global object.                           *)
TestGlobal(name) == host[name] = "real"

GetGlobal ==
  CASE dotnetGlobal # "unset" -> dotnetGlobal
    [] dotnetGlobal = "unset" /\ TestGlobal("global") -> "global"
    [] dotnetGlobal = "unset" /\ ~TestGlobal("global") /\ TestGlobal("window") -> "window"
    [] OTHER -> "unset"

HasGlobal == GetGlobal # "unset"

(* Nothing is known of what the interpreter writes to its part of the      *)
(* stack, or of what is left above the stack pointer.                      *)
Scribbled(cells, from) == [a \in DOMAIN cells |-> IF a >= from THEN <<>> ELSE cells[a]]

(* The page calls into .NET, through Blazor's own callMethod.              *)
PageCalls ==
  /\ frames = <<>>
  /\ sp + NativeUnits <= StackUnits
  /\ Push(Frame("managed", <<>>, NoFlag))
  /\ sp' = sp + NativeUnits
  /\ memory' = Scribbled(memory, sp)
  /\ UNCHANGED <<host, dotnetGlobal, answer, dispatch>>

(* A rewritten method, or the interop API, calls InvokeJSUnmarshalled.     *)
InvokeJSUnmarshalled ==
  /\ Runs({"managed"})
  /\ Push(Frame("unmarshalled", <<>>, NoFlag))
  /\ UNCHANGED <<host, dotnetGlobal, answer, sp, memory, dispatch>>

(* mono_wasm_invoke_js_unmarshalled inside its try: findJSFunction may     *)
(* find nothing; a function that is found is compiled code or a script.    *)
FindJSFunction ==
  /\ Runs({"unmarshalled"})
  /\ dotnetGlobal' = GetGlobal
  /\ \/ answer' = "error" /\ UNCHANGED frames
     \/ /\ HasGlobal /\ host.hasDotNet
        /\ \E kind \in {"compiled", "script"} : Push(Frame(kind, <<>>, NoFlag))
        /\ UNCHANGED answer
  /\ UNCHANGED <<host, sp, memory, dispatch>>

(* JavaScript computes with doubles: the nearest ones to a whole number,   *)
(* two when it lies half way between them.                                 *)
IsDouble(y) == \E m \in 0 .. Exact, u \in Spacings : y = m * u
Distance(x, y) == IF x < y THEN y - x ELSE x - y
Doubles(x) ==
  {y \in 0 .. 2 * x :
     IsDouble(y) /\ \A z \in 0 .. 2 * x : IsDouble(z) => Distance(x, y) <= Distance(x, z)}

(* Mutant: the upper word forgotten.                                       *)
HandleNumbersLow(handle) == Doubles(handle % Word)

(* asyncHandleJsNumber: the long behind asyncHandleLongPtr, read as two    *)
(* words and put together.                                                 *)
HandleNumbers(handle) == Doubles((handle \div Word) * Word + (handle % Word))

(* InvokeJSMarshalled.  The line before the try needs the global object:   *)
(* without one, its exception goes straight through the interpreter.       *)
InvokeJSMarshalled ==
  /\ Runs({"managed"})
  /\ dotnetGlobal' = GetGlobal
  /\ \E handle \in Handles : \E number \in HandleNumbers(handle) :
       \/ /\ ~HasGlobal
          /\ answer' = "error"
          /\ UNCHANGED <<frames, dispatch>>
       \/ /\ HasGlobal
          /\ Push(Frame("marshalled", <<handle>>, NoFlag))
          /\ dispatch' = [handle |-> handle, number |-> number, async |-> number # 0]
          /\ UNCHANGED answer
  /\ UNCHANGED <<host, sp, memory>>

(* beginInvokeJSFromDotNet keeps what happens to itself; invokeJSFromDotNet *)
(* runs the script.                                                        *)
DispatchMarshalled ==
  /\ Runs({"marshalled"})
  /\ \/ answer' = "error" /\ UNCHANGED frames
     \/ host.hasDotNet /\ dispatch.async /\ Pop /\ answer' = "value"
     \/ host.hasDotNet /\ ~dispatch.async /\ Push(Frame("script", <<>>, NoFlag)) /\ UNCHANGED answer
  /\ dispatch' = NoDispatch
  /\ UNCHANGED <<host, dotnetGlobal, sp, memory>>

(* A function ends.  Compiled code traps with an Error.                    *)
FunctionEnds ==
  /\ Runs({"compiled", "script"})
  /\ Pop
  /\ \/ answer' \in {"value", "error"}
     \/ Top.kind = "script" /\ ~host.throwsOnlyErrors /\ answer' = "other"
  /\ UNCHANGED <<host, dotnetGlobal, sp, memory, dispatch>>

(* Mutant: no catch block.                                                 *)
NothingCaught(a) == IF a = "value" THEN "value" ELSE "error"

(* The catch block reads ex.message: of null or undefined, that throws.    *)
Caught(a) == CASE a = "value" -> "value" [] a = "error" -> "message" [] OTHER -> "error"

InteropReturns ==
  /\ Gets(Interop, {"value", "error", "other"})
  /\ Pop
  /\ answer' = Caught(answer)
  /\ UNCHANGED <<host, dotnetGlobal, sp, memory, dispatch>>

(* The internal call has returned; a message makes it throw in .NET, where *)
(* the method may or may not catch it.                                     *)
ManagedGoesOn ==
  /\ Gets({"managed"}, {"value", "message"})
  /\ answer' = "none"
  /\ UNCHANGED <<host, dotnetGlobal, frames, sp, memory, dispatch>>
-----------------------------------------------------------------------------
(* callInterpreterMethod.  Where stackAlloc puts the pointers, the flag    *)
(* and the arguments; no pointers need no room.                            *)
FlagAt(args)   == sp + (IF args = <<>> THEN 0 ELSE 1)
ArgAt(args, i) == FlagAt(args) + i

(* Mutant: no unit for the flag.                                           *)
EndWithoutFlag(args) == FlagAt(args) + Len(args)
EndOf(args) == FlagAt(args) + Len(args) + 1

Filled(args) ==
  [a \in DOMAIN memory |->
     IF a = FlagAt(args) THEN <<0>>
     ELSE IF a = sp THEN [i \in DOMAIN args |-> ArgAt(args, i)]
     ELSE IF a \in FlagAt(args) + 1 .. FlagAt(args) + Len(args) THEN <<args[a - FlagAt(args)]>>
     ELSE memory[a]]

(* What mono_runtime_invoke finds behind params[].                         *)
Received(args) ==
  LET cells == Filled(args) IN [i \in DOMAIN args |-> cells[cells[sp][i]][1]]

TooManyArguments(args) == Len(args) > 4

Invocation(args) ==
  [kind |-> "managed", args |-> Received(args), base |-> EndOf(args), flag |-> FlagAt(args),
   threw |-> 0]

(* The thunk of a static import: the interpreter runs the method with the  *)
(* arguments in memory, or the call fails before anything is allocated.    *)
CallInterpreterMethod ==
  /\ Runs({"compiled"})
  /\ Len(frames) + 2 <= MaxDepth
  /\ \E args \in Arguments :
       \/ /\ TooManyArguments(args)
          /\ answer' = "error"
          /\ UNCHANGED <<frames, sp, memory>>
       \/ /\ ~TooManyArguments(args)
          /\ EndOf(args) + NativeUnits <= StackUnits
          /\ frames' = Append(Append(frames, Frame("thunk", args, FlagAt(args))), Invocation(args))
          /\ sp' = EndOf(args) + NativeUnits
          /\ memory' = Scribbled(Filled(args), EndOf(args))
          /\ UNCHANGED answer
  /\ UNCHANGED <<host, dotnetGlobal, dispatch>>

(* mono_runtime_invoke comes back with an exception: the flag is set, then *)
(* mono_object_to_string runs managed code again to describe it.           *)
ManagedThrows ==
  /\ Runs({"managed"})
  /\ Top.flag # NoFlag /\ Top.threw = 0
  /\ frames' = [frames EXCEPT ![Len(frames)].threw = 1]
  /\ memory' = [Scribbled(memory, Top.base) EXCEPT ![Top.flag] = <<1>>]
  /\ UNCHANGED <<host, dotnetGlobal, answer, sp, dispatch>>

(* mono_wasm_invoke_method returns: without an exception it clears the     *)
(* flag.                                                                   *)
ManagedReturns ==
  /\ Runs({"managed"})
  /\ Pop
  /\ sp' = Top.base
  /\ answer' = IF Top.flag = NoFlag THEN "none" ELSE "native"
  /\ memory' = IF Top.flag = NoFlag \/ Top.threw = 1
               THEN Scribbled(memory, Top.base)
               ELSE [Scribbled(memory, Top.base) EXCEPT ![Top.flag] = <<0>>]
  /\ UNCHANGED <<host, dotnetGlobal, dispatch>>

(* Mutant: nothing is restored when an exception passes.                   *)
RestoredOnReturn == IF answer = "native" THEN Top.base ELSE sp
Restored == Top.base

(* Mutant: the flag is not looked at.                                      *)
FlagIgnored(call) == FALSE
FlagSet(call) == memory[call.flag] # <<0>>

(* Back in callInterpreterMethod: the flag decides between return and      *)
(* throw; finally restores the stack.  The thunk returns nothing.          *)
FinishInterpreterCall ==
  /\ Gets({"thunk"}, {"native", "error"})
  /\ answer' = IF answer # "native" THEN answer
               ELSE IF FlagSet(Top) THEN "error" ELSE "value"
  /\ sp' = Restored
  /\ memory' = Scribbled(memory, Restored)
  /\ Pop
  /\ UNCHANGED <<host, dotnetGlobal, dispatch>>

CompiledGoesOn ==
  /\ Gets({"compiled"}, {"value"})
  /\ answer' = "none"
  /\ UNCHANGED <<host, dotnetGlobal, frames, sp, memory, dispatch>>

(* An exception leaves a compiled function, or the frames of the           *)
(* interpreter, which do not give back their stack.  At the bottom,        *)
(* Blazor's callMethod does.                                               *)
Unwind ==
  /\ Gets({"compiled", "managed"}, {"error"})
  /\ Pop
  /\ IF Len(frames) = 1
     THEN answer' = "none" /\ sp' = 0 /\ memory' = Scribbled(memory, 0)
     ELSE UNCHANGED <<answer, sp, memory>>
  /\ UNCHANGED <<host, dotnetGlobal, dispatch>>

Next ==
  \/ PageCalls
  \/ InvokeJSUnmarshalled \/ FindJSFunction
  \/ InvokeJSMarshalled \/ DispatchMarshalled
  \/ FunctionEnds \/ InteropReturns \/ ManagedGoesOn
  \/ CallInterpreterMethod \/ FinishInterpreterCall \/ CompiledGoesOn
  \/ ManagedThrows \/ ManagedReturns
  \/ Unwind

(* An exception on its way does not stop half way.                         *)
Returning == InteropReturns \/ FinishInterpreterCall \/ Unwind
Spec == Init /\ [][Next]_vars /\ WF_vars(Returning)
-----------------------------------------------------------------------------
TypeOK ==
  /\ host \in Hosts
  /\ dotnetGlobal \in {"unset"} \cup {name \in {"global", "window"} : host[name] = "real"}
  /\ Len(frames) <= MaxDepth
  /\ \A i \in DOMAIN frames : frames[i].kind \in Kinds /\ frames[i].base \in 0 .. StackUnits
  /\ answer \in Answers
  /\ sp \in 0 .. StackUnits

(* However calls nest and whichever way they end - return, exception in    *)
(* .NET, trap, a JavaScript exception straight through the interpreter -   *)
(* the frame that goes on finds the stack pointer it had, and between the  *)
(* page's calls the stack is empty.                                        *)
StackSize(frame) == IF frame.kind = "managed" THEN NativeUnits ELSE 0

FrameOwnsStack ==
  IF frames = <<>> THEN sp = 0
  ELSE answer = "none" => sp = Top.base + StackSize(Top)

(* A method called from compiled code gets the arguments of the call, and  *)
(* until it has come back no nested call - of the method, or of the code   *)
(* that describes its exception - overwrites the pointers or the arguments *)
(* on the stack, or the flag that says whether it has thrown.              *)
LiveCallsIntact ==
  \A i \in 1 .. Len(frames) - 1 :
    LET call == frames[i] IN
    call.kind = "thunk" =>
      /\ frames[i + 1].args = call.args
      /\ memory[call.flag] = <<frames[i + 1].threw>>
      /\ \A j \in DOMAIN call.args : memory[memory[call.base][j]] = <<call.args[j]>>

(* With a global object, and scripts that throw Errors, no JavaScript      *)
(* exception crosses the frames of the interpreter.                        *)
NativeNotUnwound ==
  "real" \in {host.global, host.window} /\ host.throwsOnlyErrors
    => ~Gets({"managed"}, {"error", "other"})

(* An exception - of a method called from compiled code, or of JavaScript  *)
(* - comes out as an exception in .NET or at the page.  No level swallows  *)
(* it and lets compiled code go on as if the call had succeeded.           *)
Failing ==
  answer \in {"error", "other"} \/ (Gets({"thunk"}, {"native"}) /\ memory[Top.flag] = <<1>>)
ExceptionsReachDotNet == Failing ~> (answer = "message" \/ frames = <<>>)

(* An asynchronous call is begun under the handle .NET gave it, whichever  *)
(* words the handle has zeros in, as long as the handle is one a double    *)
(* can hold (the code counts on that); and only the handle 0 is            *)
(* synchronous, also where doubles have to be rounded.                     *)
DispatchedByHandle ==
  /\ dispatch.handle < Exact => dispatch.number = dispatch.handle
  /\ dispatch.async = (dispatch.handle # 0)
=============================================================================
