---------------------------- MODULE FlowAnalysis ----------------------------
(***************************************************************************)
(* FlowAnalysis.cs: the sorted list of the instructions of a body that     *)
(* some instruction jumps to.                                              *)
(***************************************************************************)
EXTENDS Cil, FiniteSets

(* Mutant: the case of an opcode is missing.                               *)
JumpOpcodesWithoutBle == (Branches \ {"Ble_S"}) \cup {"Switch"}

(* The opcodes TryGetJumpTarget recognises.                                *)
JumpOpcodes == Branches \cup {"Switch"}

(* TryGetJumpTarget: the targets of one instruction, none for the others.  *)
TryGetJumpTarget(ins) ==
  IF ins.op \in JumpOpcodes
  THEN {ins.targets[j] : j \in DOMAIN ins.targets}
  ELSE {}

(* The SortedSet<int> the constructor fills. *)
SortedOffsets(code) == UNION {TryGetJumpTarget(code[i]) : i \in DOMAIN code}

IsSortedListOf(s, S) ==
  /\ \A i, j \in DOMAIN s : i < j => s[i] < s[j]
  /\ \A x \in S : \E i \in DOMAIN s : s[i] = x

(* sortedOffsets.ToList(): the elements, in increasing order. *)
JumpTargetOffsets(code) ==
  LET S == SortedOffsets(code)
  IN  CHOOSE s \in [1 .. Cardinality(S) -> S] : IsSortedListOf(s, S)
=============================================================================
