-------------------------------- MODULE Wasm --------------------------------
(***************************************************************************)
(* The WebAssembly instructions the compiler emits and the meaning of      *)
(* their block structure.  An instruction carries an integer immediate n   *)
(* (a constant, a relative label depth, a memory offset, an index) and the *)
(* name x of the local it touches; a local is named by the pair of x and   *)
(* n ("loc3" is x = "loc", n = 3), WasmFunctionBuilder turns the names     *)
(* into indices.                                                           *)
(***************************************************************************)
EXTENDS Integers, Sequences, FiniteSets

Openers     == {"loop", "block"}
Structural  == Openers \cup {"end"}
BranchOps   == {"br", "br_if"}
Binary      == {"i32.add", "i32.sub", "i32.mul", "i32.rem_s", "i32.eq", "i32.lt_s", "i32.gt_s", "i32.le_s"}

WasmOps ==
  Structural \cup BranchOps \cup Binary
    \cup {"br_table", "return", "call", "drop", "get_local", "set_local", "get_global",
          "i32.const", "i32.load", "i32.store"}

LocalNames == {"", "arg", "loc", "jumpTarget", "dupTemp", "switchValue", "ctorparam", "newObjectAddr"}

WasmInstr == [op : WasmOps, n : Int, x : LocalNames]

W(op)           == [op |-> op, n |-> 0, x |-> ""]
WN(op, n)       == [op |-> op, n |-> n, x |-> ""]
Const(k)        == WN("i32.const", k)
GetLocal(x, n)  == [op |-> "get_local", n |-> n, x |-> x]
SetLocal(x, n)  == [op |-> "set_local", n |-> n, x |-> x]

(***************************************************************************)
(* Block structure.  Nesting(code, p) is the number of blocks and loops    *)
(* still open after the first p instructions.                              *)
(***************************************************************************)
Opened(code, p)  == {q \in 1 .. p : code[q].op \in Openers}
Ended(code, p)   == {q \in 1 .. p : code[q].op = "end"}
Nesting(code, p) == Cardinality(Opened(code, p)) - Cardinality(Ended(code, p))

(* The end at q is the one that closes the block or loop opened at m. *)
ClosedBy(code, m, q) ==
  /\ m < q
  /\ code[q].op = "end"
  /\ Nesting(code, q) = Nesting(code, m) - 1
  /\ \A r \in m .. q - 1 : Nesting(code, r) >= Nesting(code, m)

(* m opens the label a branch at p with relative depth d refers to:        *)
(* depth 0 is the innermost block or loop open before p.                   *)
Encloses(code, m, p, d) ==
  /\ m < p
  /\ code[m].op \in Openers
  /\ Nesting(code, m) = Nesting(code, p - 1) - d
  /\ \A r \in m .. p - 1 : Nesting(code, r) >= Nesting(code, m)
=============================================================================
