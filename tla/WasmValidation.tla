--------------------------- MODULE WasmValidation ---------------------------
(***************************************************************************)
(* The static check a WebAssembly engine makes before it instantiates a    *)
(* module, as far as the height of the operand stack goes: every value is  *)
(* an i32.                                                                 *)
(***************************************************************************)
EXTENDS Wasm, SequencesExt

CONSTANT Signatures   (* index of a function -> [takes : Nat, gives : Nat] *)

Takes(ins) ==
  CASE ins.op \in Binary \cup {"i32.store"} -> 2
    [] ins.op \in {"set_local", "drop", "i32.load", "br_if", "br_table"} -> 1
    [] ins.op = "call" -> Signatures[ins.n].takes
    [] OTHER -> 0

Gives(ins) ==
  CASE ins.op \in Binary \cup {"i32.const", "get_local", "get_global", "i32.load"} -> 1
    [] ins.op = "call" -> Signatures[ins.n].gives
    [] OTHER -> 0

(* State of the check: the operand stack's height, and for the function    *)
(* and each block or loop open in it the height at its start and whether   *)
(* the code from here to its end is unreachable (then missing operands are *)
(* made up).                                                               *)
Frame(height) == [base |-> height, dead |-> FALSE]
Begin == [ok |-> TRUE, height |-> 0, frames |-> <<Frame(0)>>]

PopPush(v, takes, gives) ==
  LET frame == Last(v.frames)
      short == v.height - takes < frame.base
  IN  [ok     |-> v.ok /\ (short => frame.dead),
       height |-> gives + (IF short THEN frame.base ELSE v.height - takes),
       frames |-> v.frames]

OpenFrame(v) == [ok |-> v.ok, height |-> v.height, frames |-> Append(v.frames, Frame(v.height))]

Unreachable(v) ==
  LET base == Last(v.frames).base
  IN  [ok |-> v.ok, height |-> base, frames |-> Append(Front(v.frames), [base |-> base, dead |-> TRUE])]

CloseFrame(v, arity) ==
  LET w == PopPush(v, arity, 0)
  IN  [ok |-> w.ok /\ w.height = Last(w.frames).base, height |-> w.height, frames |-> Front(w.frames)]

(* arity: 1 when the function has a result, which the end of the function, *)
(* a return and a branch to the outermost label need.                      *)
Validate(v, ins, arity) ==
  LET popped == PopPush(v, Takes(ins), 0)
      leaves == IF (ins.op \in BranchOps /\ ins.n = Len(v.frames) - 1) \/ ins.op = "return" THEN arity ELSE 0
  IN  CASE ins.op \in Openers -> OpenFrame(v)
        [] ins.op = "end" -> CloseFrame(v, IF Len(v.frames) = 1 THEN arity ELSE 0)
        [] ins.op \in {"br", "br_table", "return"} -> Unreachable(PopPush(popped, leaves, 0))
        [] OTHER -> PopPush(v, Takes(ins) + leaves, Gives(ins) + leaves)

(* Nothing may follow an error or the end of the function.                 *)
Check(v, ins, arity) ==
  IF v.ok /\ v.frames # <<>> THEN Validate(v, ins, arity) ELSE [v EXCEPT !.ok = FALSE]

(* The states of the check: Checked(code, arity)[i] is the one after i     *)
(* instructions.                                                           *)
Checked(code, arity) ==
  LET v[i \in 0 .. Len(code)] == IF i = 0 THEN Begin ELSE Check(v[i - 1], code[i], arity)
  IN  v

Validates(code, arity) ==
  LET v == Checked(code, arity)[Len(code)]
  IN  v.ok /\ v.frames = <<>>
=============================================================================
