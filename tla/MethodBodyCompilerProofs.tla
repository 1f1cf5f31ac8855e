---------------------- MODULE MethodBodyCompilerProofs ----------------------
(***************************************************************************)
(* Theorems about MethodBodyCompiler for every set of methods:             *)
(* FlowAnalysis lists the jump targets of every well-formed body, once     *)
(* each and in increasing order; the state of the compiler has its type;   *)
(* the compiled code of every method has balanced blocks; and every branch *)
(* of it leads to the code of its target.                                  *)
(***************************************************************************)
EXTENDS MethodBodyCompiler, FunctionTheorems, FiniteSetTheorems, SequenceTheorems, TLAPS

(* A finite set of numbers has a sorted list: the elements x ordered by    *)
(* the number of elements up to x, which is a bijection because it is      *)
(* strictly increasing.                                                    *)
LEMMA SortedListExists ==
  ASSUME NEW S \in SUBSET Nat, IsFiniteSet(S)
  PROVE  \E s \in [1 .. Cardinality(S) -> S] : IsSortedListOf(s, S)
<1> DEFINE UpTo(x) == {y \in S : y <= x}
           n       == Cardinality(S)
           rank    == [x \in S |-> Cardinality(UpTo(x))]
<1>n. n \in Nat
  BY FS_CardinalityType
<1>1. \A x \in S : IsFiniteSet(UpTo(x)) /\ Cardinality(UpTo(x)) \in 1 .. n
  <2> TAKE x \in S
  <2>1. UpTo(x) \in SUBSET S /\ x \in UpTo(x)
    OBVIOUS
  <2>2. IsFiniteSet(UpTo(x)) /\ Cardinality(UpTo(x)) <= n
    BY <2>1, FS_Subset
  <2>3. Cardinality(UpTo(x)) \in Nat /\ Cardinality(UpTo(x)) # 0
    BY <2>1, <2>2, FS_CardinalityType, FS_EmptySet
  <2> QED
    BY <2>2, <2>3, <1>n
<1>2. \A x, y \in S : x < y => rank[x] < rank[y]
  <2> SUFFICES ASSUME NEW x \in S, NEW y \in S, x < y
               PROVE  rank[x] < rank[y]
    OBVIOUS
  <2>0. x \in Nat /\ y \in Nat /\ \A z \in S : z \in Nat
    OBVIOUS
  <2>1. UpTo(x) \in SUBSET UpTo(y) /\ y \in UpTo(y) /\ y \notin UpTo(x)
    <3>1. \A z \in S : z <= x => z <= y
      BY <2>0
    <3>2. y \in UpTo(y) /\ y \notin UpTo(x)
      BY <2>0
    <3> QED
      BY <3>1, <3>2
  <2>2. Cardinality(UpTo(x)) <= Cardinality(UpTo(y)) /\ Cardinality(UpTo(x)) # Cardinality(UpTo(y))
    BY <1>1, <2>1, FS_Subset
  <2> QED
    BY <1>1, <2>2
<1>3. rank \in [S -> 1 .. n]
  BY <1>1
<1>4. \A x, y \in S : rank[x] = rank[y] => x = y
  <2> SUFFICES ASSUME NEW x \in S, NEW y \in S, rank[x] = rank[y], x # y
               PROVE  FALSE
    OBVIOUS
  <2>1. x < y \/ y < x
    OBVIOUS
  <2>2. rank[x] \in 1 .. n /\ rank[y] \in 1 .. n
    BY <1>3
  <2> QED
    BY <1>2, <2>1, <2>2, <1>n
<1>5. \A k \in 1 .. n : \E x \in S : rank[x] = k
  <2>1. rank \in Injection(S, 1 .. n)
    BY <1>3, <1>4, Fun_IsInj
  <2>2. IsFiniteSet(1 .. n) /\ Cardinality(1 .. n) = n
    BY <1>n, FS_Interval
  <2>3. rank \in Surjection(S, 1 .. n)
    BY <2>1, <2>2, FS_Injection
  <2> HIDE DEF rank
  <2> QED
    BY <2>3, Fun_SurjectionProperties
<1>6. PICK s \in [1 .. n -> S] : \A k \in 1 .. n : rank[s[k]] = k
  <2> DEFINE t == [k \in 1 .. n |-> CHOOSE x \in S : rank[x] = k]
  <2>1. \A k \in 1 .. n : t[k] \in S /\ rank[t[k]] = k
    BY <1>5
  <2> QED
    BY <2>1
<1>7. \A i, j \in 1 .. n : i < j => s[i] < s[j]
  <2> SUFFICES ASSUME NEW i \in 1 .. n, NEW j \in 1 .. n, i < j, ~(s[i] < s[j])
               PROVE  FALSE
    OBVIOUS
  <2>1. s[i] \in S /\ s[j] \in S /\ rank[s[i]] = i /\ rank[s[j]] = j
    BY <1>6
  <2> HIDE DEF rank
  <2>0. s[i] \in Nat /\ s[j] \in Nat
    BY <2>1
  <2>2. s[j] < s[i] \/ s[j] = s[i]
    BY <2>0
  <2>3. s[j] < s[i] => j < i
    BY <1>2, <2>1
  <2>4. s[j] = s[i] => j = i
    BY <2>1
  <2> QED
    BY <2>2, <2>3, <2>4, <1>n
<1>8. \A x \in S : \E i \in 1 .. n : s[i] = x
  <2> TAKE x \in S
  <2>1. rank[x] \in 1 .. n /\ s[rank[x]] \in S /\ rank[s[rank[x]]] = rank[x]
    BY <1>3, <1>6
  <2> QED
    BY <2>1, <1>4
<1> QED
  BY <1>7, <1>8 DEF IsSortedListOf

(* The targets of a well-formed body are instructions of the body.         *)
LEMMA SortedOffsetsFinite ==
  ASSUME NEW code, WellFormedBody(code)
  PROVE  SortedOffsets(code) \in SUBSET (1 .. Len(code)) /\ IsFiniteSet(SortedOffsets(code))
<1>1. code \in Seq(CilInstr) /\ Len(code) \in Nat /\ DOMAIN code = 1 .. Len(code)
  BY DEF WellFormedBody
<1>2. SortedOffsets(code) \in SUBSET (1 .. Len(code))
  BY <1>1 DEF SortedOffsets, TryGetJumpTarget, WellFormedBody
<1>3. IsFiniteSet(1 .. Len(code))
  BY <1>1, FS_Interval
<1> QED
  BY <1>2, <1>3, FS_Subset

(* JumpTargetOffsets is the sorted list of the targets: every target has   *)
(* its place, the places are in the order of the instructions.             *)
THEOREM JumpTargetsSorted ==
  ASSUME NEW code, WellFormedBody(code)
  PROVE  LET s == JumpTargetOffsets(code)
         IN  /\ s \in Seq(1 .. Len(code))
             /\ \A i, j \in 1 .. Len(s) : i < j => s[i] < s[j]
             /\ \A x : x \in SortedOffsets(code) <=> \E i \in 1 .. Len(s) : s[i] = x
<1> DEFINE S == SortedOffsets(code)
           s == JumpTargetOffsets(code)
<1>1. S \in SUBSET (1 .. Len(code)) /\ IsFiniteSet(S) /\ S \in SUBSET Nat
  BY SortedOffsetsFinite
<1>2. Cardinality(S) \in Nat
  BY <1>1, FS_CardinalityType
<1>3. s \in [1 .. Cardinality(S) -> S] /\ IsSortedListOf(s, S)
  BY <1>1, SortedListExists DEF JumpTargetOffsets
<1>4. s \in Seq(1 .. Len(code)) /\ Len(s) = Cardinality(S)
  <2>1. s \in Seq(S) /\ Len(s) = Cardinality(S)
    BY <1>2, <1>3
  <2> QED
    BY <2>1, <1>1, SeqMonotonic
<1> QED
  BY <1>1, <1>2, <1>3, <1>4 DEF IsSortedListOf
-----------------------------------------------------------------------------
(* The code of a CIL instruction contains no block, loop or end.           *)
FlatOps   == WasmOps \ Structural
FlatInstr == [op : FlatOps, n : Int, x : LocalNames]

(* The names of opcodes and locals the compiler uses are known ones.       *)
LEMMA EmittedOps ==
  /\ "loop" \in WasmOps /\ "block" \in WasmOps /\ "end" \in WasmOps
  /\ "br" \in FlatOps /\ "br_if" \in FlatOps /\ "br_table" \in FlatOps /\ "return" \in FlatOps
  /\ "call" \in FlatOps /\ "drop" \in FlatOps /\ "get_global" \in FlatOps /\ "get_local" \in FlatOps
  /\ "set_local" \in FlatOps /\ "i32.add" \in FlatOps /\ "i32.sub" \in FlatOps /\ "i32.mul" \in FlatOps
  /\ "i32.rem_s" \in FlatOps /\ "i32.eq" \in FlatOps /\ "i32.lt_s" \in FlatOps /\ "i32.gt_s" \in FlatOps
  /\ "i32.le_s" \in FlatOps /\ "i32.const" \in FlatOps /\ "i32.load" \in FlatOps /\ "i32.store" \in FlatOps
  /\ "arg" \in LocalNames /\ "loc" \in LocalNames
  /\ "jumpTarget" \in LocalNames /\ "dupTemp" \in LocalNames /\ "switchValue" \in LocalNames
  /\ "ctorparam" \in LocalNames /\ "newObjectAddr" \in LocalNames
<1>1. FlatOps = BranchOps \cup Binary \cup {"br_table", "return", "call", "drop", "get_local", "set_local",
                  "get_global", "i32.const", "i32.load", "i32.store"}
  BY DEF FlatOps, WasmOps, Structural, Openers, BranchOps, Binary
<1> QED
  BY <1>1 DEF WasmOps, LocalNames, Structural, Openers, BranchOps, Binary

(* The constructors of instructions give instructions, whatever their      *)
(* operands.                                                               *)
LEMMA InstrTypes ==
  /\ \A k \in Int : Const(k) \in FlatInstr
  /\ \A op \in FlatOps : W(op) \in FlatInstr
  /\ \A op \in WasmOps : W(op) \in WasmInstr
  /\ \A op \in FlatOps, k \in Int : WN(op, k) \in FlatInstr
  /\ \A x \in LocalNames, k \in Int : GetLocal(x, k) \in FlatInstr
  /\ \A x \in LocalNames, k \in Int : SetLocal(x, k) \in FlatInstr
<1>0. "" \in LocalNames
  BY DEF LocalNames
<1>1. \A op \in FlatOps, k \in Int, x \in LocalNames : [op |-> op, n |-> k, x |-> x] \in FlatInstr
  BY DEF FlatInstr
<1>2. \A op \in WasmOps, k \in Int, x \in LocalNames : [op |-> op, n |-> k, x |-> x] \in WasmInstr
  BY DEF WasmInstr
<1>3. \A op \in FlatOps, k \in Int : WN(op, k) \in FlatInstr
  BY <1>0, <1>1, EmittedOps DEF WN
<1>4. \A k \in Int : Const(k) \in FlatInstr
  BY <1>3, EmittedOps DEF Const
<1>5. \A op \in FlatOps : W(op) \in FlatInstr
  <2>1. \A op \in FlatOps : W(op) = WN(op, 0)
    BY DEF W, WN
  <2> QED
    BY <1>3, <2>1
<1>6. \A op \in WasmOps : W(op) \in WasmInstr
  <2>1. \A op \in WasmOps, k \in Int : WN(op, k) \in WasmInstr
    BY <1>0, <1>2 DEF WN
  <2>2. \A op \in WasmOps : W(op) = WN(op, 0)
    BY DEF W, WN
  <2> QED
    BY <2>1, <2>2
<1>7. \A x \in LocalNames, k \in Int : GetLocal(x, k) \in FlatInstr /\ SetLocal(x, k) \in FlatInstr
  BY <1>1, EmittedOps DEF GetLocal, SetLocal
<1> QED
  BY <1>3, <1>4, <1>5, <1>6, <1>7

(* Flat code is code.                                                      *)
LEMMA FlatIsCode ==
  /\ FlatInstr \subseteq WasmInstr
  /\ Seq(FlatInstr) \subseteq Seq(WasmInstr)
<1>1. FlatInstr \subseteq WasmInstr
  BY DEF FlatInstr, FlatOps, WasmInstr
<1> QED
  BY <1>1

(* Newobj's code, of a length that depends on the constructor's            *)
(* parameters, is flat.                                                    *)
LEMMA NewobjType ==
  ASSUME NEW ins \in CilInstr
  PROVE  CompileNewobj(ins) \in Seq(FlatInstr)
<1>1. ins.params \in Nat /\ ins.n \in Int
  BY DEF CilInstr
<1>2. [k \in 1 .. ins.params |-> SetLocal("ctorparam", ins.params - k)] \in Seq(FlatInstr)
  BY <1>1, InstrTypes, EmittedOps
<1>3. [k \in 1 .. ins.params |-> GetLocal("ctorparam", k - 1)] \in Seq(FlatInstr)
  BY <1>1, InstrTypes, EmittedOps
<1>4. <<WN("get_global", ins.n), WN("call", 0), SetLocal("newObjectAddr", 0),
        GetLocal("newObjectAddr", 0)>> \in Seq(FlatInstr)
  BY <1>1, InstrTypes, EmittedOps
<1>5. <<WN("call", ins.n), GetLocal("newObjectAddr", 0)>> \in Seq(FlatInstr)
  BY <1>1, InstrTypes, EmittedOps
<1> QED
  BY <1>2, <1>3, <1>4, <1>5, ConcatProperties DEF CompileNewobj

(* So is the code of every opcode that does not branch.                    *)
LEMMA StraightType ==
  ASSUME NEW ins \in CilInstr, ins.op \in StraightOps
  PROVE  CompileStraight(ins) \in Seq(FlatInstr)
<1>1. ins.n \in Int /\ ins.op \in STRING
  BY DEF CilInstr
<1>2. GetFieldOffset(ins.n) \in Int
  BY <1>1 DEF GetFieldOffset, MonoObjectHeaderLength
<1>3. CASE ins.op \in DOMAIN SimpleOps
  <2>1. SimpleOps[ins.op] \in FlatOps
    BY <1>3, EmittedOps DEF SimpleOps
  <2>2. <<W(SimpleOps[ins.op])>> \in Seq(FlatInstr)
    BY <2>1, InstrTypes, EmittedOps
  <2> QED
    BY <1>3, <2>2 DEF CompileStraight, SimpleOps
<1>4. CASE ins.op = "Newobj"
  BY <1>4, NewobjType DEF CompileStraight, SimpleOps
<1>5. CASE ins.op \in {"Call", "Callvirt", "Dup", "Ldarg", "Ldfld", "Ldloc", "Ldc_I4"}
  BY <1>1, <1>2, <1>5, InstrTypes, EmittedOps DEF CompileStraight, SimpleOps
<1>6. CASE ins.op \in {"Neg", "Starg", "Stfld", "Stloc", "Nop"}
  BY <1>1, <1>2, <1>6, InstrTypes, EmittedOps DEF CompileStraight, SimpleOps
<1> QED
  BY <1>3, <1>4, <1>5, <1>6 DEF StraightOps
-----------------------------------------------------------------------------
(* The invariant behind the type invariant: the jump targets are those of  *)
(* the method being compiled.                                              *)
TypeInv == TypeOK /\ jumpTargets = JumpTargetOffsets(Code)

(* What the assumption on the methods gives for the one being compiled.    *)
LEMMA CodeFacts ==
  ASSUME method \in Methods
  PROVE  /\ WellFormedBody(Code)
         /\ Code \in Seq(CilInstr)
         /\ Len(Code) \in Nat /\ DOMAIN Code = 1 .. Len(Code)
         /\ \A i \in 1 .. Len(Code) :
              /\ Code[i] \in CilInstr
              /\ Code[i].op \in Branches => Len(Code[i].targets) = 1
              /\ \A j \in 1 .. Len(Code[i].targets) :
                   /\ Code[i].targets[j] \in 1 .. Len(Code)
                   /\ Code[i].targets[j] \in SortedOffsets(Code)
<1>1. WellFormedBody(Code)
  BY MethodsAssumption DEF Code
<1>2. Code \in Seq(CilInstr) /\ Len(Code) \in Nat /\ DOMAIN Code = 1 .. Len(Code)
  BY <1>1 DEF WellFormedBody
<1>3. \A i \in 1 .. Len(Code) : Code[i] \in CilInstr
  BY <1>2, ElementOfSeq
<1>4. ASSUME NEW i \in 1 .. Len(Code)
      PROVE  /\ Code[i].op \in Branches => Len(Code[i].targets) = 1
             /\ \A j \in 1 .. Len(Code[i].targets) :
                  Code[i].targets[j] \in 1 .. Len(Code) /\ Code[i].targets[j] \in SortedOffsets(Code)
  <2>1. Code[i].targets \in Seq(Nat)
    BY <1>3 DEF CilInstr
  <2>2. DOMAIN Code[i].targets = 1 .. Len(Code[i].targets)
    BY <2>1
  <2>3. Code[i].op \notin JumpOpcodes => Code[i].targets = <<>>
    BY <1>1, <1>2 DEF WellFormedBody, JumpOpcodes
  <2>4. Code[i].op \notin JumpOpcodes => Len(Code[i].targets) = 0
    BY <2>3
  <2>5. \A j \in 1 .. Len(Code[i].targets) : Code[i].targets[j] \in TryGetJumpTarget(Code[i])
    BY <2>2, <2>4 DEF TryGetJumpTarget
  <2> QED
    BY <1>1, <1>2, <2>2, <2>5 DEF WellFormedBody, SortedOffsets
<1> QED
  BY <1>1, <1>2, <1>3, <1>4

(* The list of targets consists of positions of the body, and holds every  *)
(* target of a branch or a switch.                                         *)
LEMMA JumpTargetFacts ==
  ASSUME TypeInv
  PROVE  /\ jumpTargets \in Seq(1 .. Len(Code)) /\ Len(jumpTargets) \in Nat
         /\ \A k, l \in 1 .. Len(jumpTargets) : k < l => jumpTargets[k] < jumpTargets[l]
         /\ \A k \in 1 .. Len(jumpTargets) : jumpTargets[k] \in 1 .. Len(Code)
         /\ \A t \in SortedOffsets(Code) :
              /\ TargetIndex(t) \in 0 .. Len(jumpTargets) - 1
              /\ jumpTargets[TargetIndex(t) + 1] = t
<1>1. WellFormedBody(Code) /\ jumpTargets = JumpTargetOffsets(Code)
  BY CodeFacts DEF TypeInv, TypeOK
<1>2. /\ jumpTargets \in Seq(1 .. Len(Code))
      /\ \A k, l \in 1 .. Len(jumpTargets) : k < l => jumpTargets[k] < jumpTargets[l]
      /\ \A x : x \in SortedOffsets(Code) <=> \E k \in 1 .. Len(jumpTargets) : jumpTargets[k] = x
  BY <1>1, JumpTargetsSorted
<1>3. Len(jumpTargets) \in Nat /\ DOMAIN jumpTargets = 1 .. Len(jumpTargets)
  BY <1>2
<1>4. ASSUME NEW t \in SortedOffsets(Code)
      PROVE  TargetIndex(t) \in 0 .. Len(jumpTargets) - 1 /\ jumpTargets[TargetIndex(t) + 1] = t
  <2> DEFINE k == CHOOSE k \in DOMAIN jumpTargets : jumpTargets[k] = t
  <2>1. k \in 1 .. Len(jumpTargets) /\ jumpTargets[k] = t
    BY <1>2, <1>3
  <2>2. TargetIndex(t) = k - 1
    BY DEF TargetIndex
  <2> HIDE DEF k
  <2> QED
    BY <1>3, <2>1, <2>2
<1> QED
  BY <1>2, <1>3, <1>4, ElementOfSeq

(* For a target in the list getBreakDepth adds instructions and returns a  *)
(* number.                                                                 *)
LEMMA JumpTypes ==
  ASSUME TypeInv, NEW t \in SortedOffsets(Code), NEW closed \in 0 .. Len(jumpTargets)
  PROVE  /\ JumpSetup(t, closed) \in Seq(FlatInstr)
         /\ BreakDepth(t, closed) \in Nat
<1>1. TargetIndex(t) \in Nat /\ Len(jumpTargets) \in Nat /\ TargetIndex(t) <= Len(jumpTargets) - 1
  BY JumpTargetFacts
<1>2. Const(TargetIndex(t) + 1) \in FlatInstr /\ SetLocal("jumpTarget", 0) \in FlatInstr
  BY <1>1, InstrTypes, EmittedOps
<1> QED
  BY <1>1, <1>2 DEF JumpSetup, BreakDepth, IsForward

(* The code of a branch is made of instructions.                           *)
LEMMA BranchCodeType ==
  ASSUME TypeInv, NEW t \in SortedOffsets(Code), NEW closed \in 0 .. Len(jumpTargets),
         NEW op \in DOMAIN BranchTests
  PROVE  JumpSetup(t, closed) \o BranchTests[op] \o <<WN(BranchOp(op), BreakDepth(t, closed))>>
           \in Seq(FlatInstr)
<1>1. BranchTests[op] \in Seq(FlatInstr)
  <2>1. <<>> \in Seq(FlatInstr) /\ <<Const(1), W("i32.sub")>> \in Seq(FlatInstr)
    BY InstrTypes, EmittedOps
  <2>2. \A name \in {"i32.eq", "i32.gt_s", "i32.lt_s", "i32.le_s"} : <<W(name)>> \in Seq(FlatInstr)
    BY InstrTypes, EmittedOps
  <2>3. op \in {"Br_S", "Brtrue_S"} => BranchTests[op] = <<>>
    BY DEF BranchTests
  <2>4. op = "Brfalse_S" => BranchTests[op] = <<Const(1), W("i32.sub")>>
    BY DEF BranchTests
  <2>5. op \in {"Beq_S", "Bgt_S", "Blt_S", "Ble_S"} =>
          \E name \in {"i32.eq", "i32.gt_s", "i32.lt_s", "i32.le_s"} : BranchTests[op] = <<W(name)>>
    BY DEF BranchTests
  <2>6. op \in {"Br_S", "Brtrue_S", "Brfalse_S", "Beq_S", "Bgt_S", "Blt_S", "Ble_S"}
    BY DEF BranchTests
  <2> QED
    BY <2>1, <2>2, <2>3, <2>4, <2>5, <2>6
<1>2. <<WN(BranchOp(op), BreakDepth(t, closed))>> \in Seq(FlatInstr)
  BY JumpTypes, InstrTypes, EmittedOps DEF BranchOp
<1> QED
  BY <1>1, <1>2, JumpTypes, ConcatProperties

(* The head of an iteration keeps the types, whatever code it appends.     *)
LEMMA BeginInstructionType ==
  ASSUME TypeInv, NEW code \in Seq(WasmInstr), BeginInstruction(code)
  PROVE  /\ result' \in Seq(WasmInstr)
         /\ start' \in Seq(Nat)
         /\ nextJumpTargetIndex' \in 0 .. Len(jumpTargets)
         /\ ClosedHere \in 0 .. Len(jumpTargets)
         /\ Len(result) \in Nat /\ Len(ClosingEnd) \in Nat
<1>1. Len(jumpTargets) \in Nat
  BY JumpTargetFacts
<1>2. ClosedHere \in 0 .. Len(jumpTargets)
  BY <1>1 DEF TypeInv, TypeOK, ClosedHere, AtTarget
<1>3. ClosingEnd \in Seq(WasmInstr)
  BY InstrTypes, EmittedOps DEF ClosingEnd
<1>4. result \in Seq(WasmInstr) /\ Len(result) \in Nat /\ Len(ClosingEnd) \in Nat
  BY <1>3 DEF TypeInv, TypeOK
<1>5. result' \in Seq(WasmInstr)
  BY <1>3, <1>4, ConcatProperties DEF BeginInstruction
<1>6. start' \in Seq(Nat)
  BY <1>4 DEF BeginInstruction, TypeInv, TypeOK
<1> QED
  BY <1>2, <1>4, <1>5, <1>6 DEF BeginInstruction

(* The head of the function is made of instructions.                       *)
LEMMA PrologueType ==
  ASSUME NEW n \in Nat
  PROVE  Prologue(n) \in Seq(WasmInstr)
<1>1. [k \in 1 .. n |-> W("block")] \in Seq(WasmInstr)
  BY InstrTypes, EmittedOps
<1>2. JumpTable(n) \in Seq(WasmInstr)
  BY InstrTypes, EmittedOps, FlatIsCode DEF JumpTable
<1>3. <<W("loop")>> \in Seq(WasmInstr)
  BY InstrTypes, EmittedOps
<1> QED
  BY <1>1, <1>2, <1>3, ConcatProperties DEF Prologue

(* The end of the function is made of instructions.                        *)
LEMMA EpilogueType ==
  ASSUME NEW n \in Nat, NEW returns \in BOOLEAN
  PROVE  Epilogue(n, returns) \in Seq(WasmInstr)
<1>1. [k \in 1 .. n |-> W("end")] \in Seq(WasmInstr)
  BY InstrTypes, EmittedOps
<1>2. (IF returns THEN <<Const(-1)>> ELSE <<>>) \in Seq(WasmInstr)
  BY InstrTypes, FlatIsCode
<1>3. <<W("end")>> \in Seq(WasmInstr)
  BY InstrTypes, EmittedOps
<1> QED
  BY <1>1, <1>2, <1>3, ConcatProperties DEF Epilogue
-----------------------------------------------------------------------------
(* The state in which Compile starts has its types.                        *)
LEMMA InitType == Init => TypeInv
<1> SUFFICES ASSUME Init PROVE TypeInv
  OBVIOUS
<1>1. WellFormedBody(Code) /\ Len(Code) \in Nat
  BY CodeFacts DEF Init
<1>2. jumpTargets = JumpTargetOffsets(Code)
  BY DEF Init, Code
<1>3. jumpTargets \in Seq(1 .. Len(Code)) /\ Len(jumpTargets) \in Nat
  BY <1>1, <1>2, JumpTargetsSorted
<1> QED
  BY <1>1, <1>2, <1>3 DEF Init, TypeInv, TypeOK

(* Every step of the compiler keeps the types.                             *)
LEMMA StepType == TypeInv /\ [Compile]_compilerVars => TypeInv'
<1> SUFFICES ASSUME TypeInv, [Compile]_compilerVars PROVE TypeInv'
  OBVIOUS
<1> USE DEF TypeInv
<1>0. method \in Methods /\ Len(Code) \in Nat
  BY CodeFacts DEF TypeOK
<1>1. CASE OpenBlocks
  <2>1. Prologue(Len(jumpTargets)) \in Seq(WasmInstr) /\ <<W("end")>> \in Seq(WasmInstr)
    BY JumpTargetFacts, PrologueType, InstrTypes, EmittedOps
  <2>2. /\ result' \in Seq(WasmInstr) /\ phase' \in {"body", "done"}
        /\ UNCHANGED <<method, jumpTargets, il, item, nextJumpTargetIndex, start, jumps>>
    BY <1>1, <2>1 DEF OpenBlocks
  <2> QED
    BY <1>0, <2>2 DEF TypeOK, Code
<1>2. CASE CompileStraightInstruction
  <2>1. il \in 1 .. Len(Code) /\ Code[il] \in CilInstr
    BY <1>2, CodeFacts DEF CompileStraightInstruction, InBody, TypeOK
  <2>2. BeginInstruction(CompileStraight(Code[il]))
    BY <1>2 DEF CompileStraightInstruction
  <2>3. CompileStraight(Code[il]) \in Seq(WasmInstr)
    BY <1>2, <2>1, StraightType, FlatIsCode DEF CompileStraightInstruction
  <2>4. /\ result' \in Seq(WasmInstr) /\ start' \in Seq(Nat)
        /\ nextJumpTargetIndex' \in 0 .. Len(jumpTargets)
    BY <2>2, <2>3, BeginInstructionType
  <2>5. phase = "body" /\ il' = il + 1 /\ UNCHANGED <<method, jumpTargets, phase, item, jumps>>
    BY <1>2 DEF CompileStraightInstruction, InBody
  <2>6. il' \in 1 .. Len(Code) + 1 /\ Code' = Code
    BY <1>0, <2>1, <2>5 DEF Code
  <2> HIDE DEF TypeInv
  <2>7. TypeOK /\ jumpTargets = JumpTargetOffsets(Code)
    BY DEF TypeInv
  <2>8. TypeOK'
    BY <2>4, <2>5, <2>6, <2>7 DEF TypeOK
  <2> QED
    BY <2>5, <2>6, <2>7, <2>8 DEF TypeInv
<1>3. CASE CompileBranch
  <2> DEFINE t    == Code[il].targets[1]
             code == JumpSetup(t, ClosedHere) \o BranchTests[Code[il].op]
                       \o <<WN(BranchOp(Code[il].op), BreakDepth(t, ClosedHere))>>
  <2>1. il \in 1 .. Len(Code) /\ Code[il].op \in DOMAIN BranchTests
    BY <1>3 DEF CompileBranch, InBody, TypeOK
  <2>2. Code[il].op \in Branches
    BY <2>1 DEF BranchTests, Branches, ConditionalBranches, UnconditionalBranches
  <2>3. t \in SortedOffsets(Code) /\ t \in 1 .. Len(Code)
    BY <1>0, <2>1, <2>2, CodeFacts
  <2>4. ClosedHere \in 0 .. Len(jumpTargets)
    BY JumpTargetFacts DEF TypeOK, ClosedHere, AtTarget
  <2>5. code \in Seq(WasmInstr)
    BY <2>1, <2>3, <2>4, BranchCodeType, FlatIsCode
  <2>6. /\ BeginInstruction(code)
        /\ jumps' = jumps \cup {[at |-> Len(result) + Len(ClosingEnd) + Len(code), from |-> il, to |-> t]}
    BY <1>3 DEF CompileBranch
  <2> HIDE DEF code, t
  <2>7. Len(code) \in Nat
    BY <2>5
  <2>8. jumps' \subseteq [at : Nat, from : Nat, to : Nat]
    BY <1>0, <2>1, <2>3, <2>5, <2>6, <2>7, BeginInstructionType DEF TypeOK
  <2>9. /\ result' \in Seq(WasmInstr) /\ start' \in Seq(Nat)
        /\ nextJumpTargetIndex' \in 0 .. Len(jumpTargets)
    BY <2>5, <2>6, BeginInstructionType
  <2>10. phase = "body" /\ il' = il + 1 /\ UNCHANGED <<method, jumpTargets, phase, item>>
    BY <1>3 DEF CompileBranch, InBody
  <2> QED
    BY <1>0, <2>1, <2>8, <2>9, <2>10 DEF TypeOK, Code
<1>4. CASE BeginSwitch
  <2>1. BeginInstruction(<<SetLocal("switchValue", 0)>>)
    BY <1>4 DEF BeginSwitch
  <2>2. <<SetLocal("switchValue", 0)>> \in Seq(WasmInstr)
    BY InstrTypes, EmittedOps, FlatIsCode
  <2>3. il \in 1 .. Len(Code) /\ Code[il].targets \in Seq(Nat)
    BY <1>4, CodeFacts DEF BeginSwitch, InBody, TypeOK, CilInstr
  <2>4. /\ result' \in Seq(WasmInstr) /\ start' \in Seq(Nat)
        /\ nextJumpTargetIndex' \in 0 .. Len(jumpTargets)
    BY <2>1, <2>2, BeginInstructionType
  <2>5. 0 \in 0 .. Len(Code[il].targets)
    BY <2>3
  <2>6. item' = 0 /\ phase' = "switch" /\ UNCHANGED <<method, jumpTargets, il, jumps>>
    BY <1>4 DEF BeginSwitch
  <2> QED
    BY <1>0, <2>3, <2>4, <2>5, <2>6 DEF TypeOK, Code
<1>5. CASE CompileSwitchItem
  <2> DEFINE t    == Code[il].targets[item + 1]
             test == <<GetLocal("switchValue", 0), Const(item), W("i32.eq")>>
             code == test \o JumpSetup(t, nextJumpTargetIndex)
                       \o <<WN("br_if", BreakDepth(t, nextJumpTargetIndex))>>
  <2>0. il \in 1 .. Len(Code) /\ Code[il].targets \in Seq(Nat)
    BY <1>0, <1>5, CodeFacts DEF CompileSwitchItem, TypeOK, CilInstr
  <2>1. il \in 1 .. Len(Code) /\ item \in Nat /\ item + 1 \in 1 .. Len(Code[il].targets)
    BY <1>5, <2>0 DEF CompileSwitchItem, TypeOK
  <2>2. t \in SortedOffsets(Code) /\ t \in 1 .. Len(Code)
    BY <1>0, <2>1, CodeFacts
  <2>3. JumpSetup(t, nextJumpTargetIndex) \in Seq(WasmInstr) /\ BreakDepth(t, nextJumpTargetIndex) \in Nat
    BY <2>2, JumpTypes, FlatIsCode DEF TypeOK
  <2>4. test \in Seq(WasmInstr)
    BY <2>1, InstrTypes, EmittedOps, FlatIsCode
  <2>5. code \in Seq(WasmInstr)
    <3>1. <<WN("br_if", BreakDepth(t, nextJumpTargetIndex))>> \in Seq(WasmInstr)
      BY <2>3, InstrTypes, EmittedOps, FlatIsCode
    <3> QED
      BY <2>3, <2>4, <3>1, ConcatProperties
  <2>6. /\ result' = result \o code
        /\ jumps' = jumps \cup {[at |-> Len(result) + Len(code), from |-> il, to |-> t]}
    BY <1>5 DEF CompileSwitchItem
  <2> HIDE DEF code, t
  <2>7. Len(code) \in Nat /\ Len(result) \in Nat /\ result' \in Seq(WasmInstr)
    BY <2>5, <2>6 DEF TypeOK
  <2>8. jumps' \subseteq [at : Nat, from : Nat, to : Nat]
    BY <2>1, <2>2, <2>6, <2>7 DEF TypeOK
  <2>9. item' = item + 1 /\ UNCHANGED <<method, jumpTargets, phase, il, nextJumpTargetIndex, start>>
    BY <1>5 DEF CompileSwitchItem
  <2> QED
    BY <1>0, <2>1, <2>7, <2>8, <2>9 DEF TypeOK, Code
<1>6. CASE EndSwitch
  BY <1>0, <1>6 DEF EndSwitch, TypeOK, Code
<1>7. CASE RejectInstruction
  BY <1>0, <1>7 DEF RejectInstruction, TypeOK, Code
<1>8. CASE CloseBlocks
  <2>1. Len(jumpTargets) - nextJumpTargetIndex \in Nat
    BY JumpTargetFacts DEF TypeOK
  <2>2. Epilogue(Len(jumpTargets) - nextJumpTargetIndex, method.returns) \in Seq(WasmInstr)
    BY <1>0, <2>1, MethodsAssumption, EpilogueType
  <2>3. /\ result' = result \o Epilogue(Len(jumpTargets) - nextJumpTargetIndex, method.returns)
        /\ nextJumpTargetIndex' = Len(jumpTargets) /\ phase' = "done"
        /\ UNCHANGED <<method, jumpTargets, il, item, start, jumps>>
    BY <1>8 DEF CloseBlocks
  <2>4. result' \in Seq(WasmInstr) /\ nextJumpTargetIndex' \in 0 .. Len(jumpTargets)
    BY <2>2, <2>3, JumpTargetFacts, ConcatProperties DEF TypeOK
  <2> QED
    BY <1>0, <2>3, <2>4 DEF TypeOK, Code
<1>9. CASE UNCHANGED compilerVars
  BY <1>9 DEF compilerVars, TypeOK, Code
<1> QED
  BY <1>1, <1>2, <1>3, <1>4, <1>5, <1>6, <1>7, <1>8, <1>9 DEF Compile

(* Every state of a compilation has its type: in particular the depth of a *)
(* branch is never negative, and no more blocks are closed than were       *)
(* opened.                                                                 *)
THEOREM TypeCorrect == CompilerSpec => []TypeOK
<1>1. TypeInv => TypeOK
  BY DEF TypeInv
<1> QED
  BY <1>1, InitType, StepType, PTL DEF CompilerSpec
-----------------------------------------------------------------------------
(* The first n jumps of instruction i have their branches.                 *)
HasJumps(js, i, n) ==
  \A k \in 1 .. n : \E j \in js : j.from = i /\ j.to = Code[i].targets[k]

(* The instructions up to m are compiled, with all their jumps.            *)
CompiledTo(js, m) ==
  \A i \in 1 .. m : Code[i].op \in SupportedOps /\ HasJumps(js, i, Len(Code[i].targets))

(* The invariant behind FailsOnlyForUnknownOpcode.                         *)
WholeInv ==
  /\ TypeInv
  /\ phase = "open" => il = 1 /\ start = <<>>
  /\ phase = "body" => Len(start) = il - 1 /\ CompiledTo(jumps, il - 1)
  /\ phase = "switch" =>
       /\ Len(start) = il /\ CompiledTo(jumps, il - 1)
       /\ Code[il].op = "Switch" /\ HasJumps(jumps, il, item)
  /\ FailsOnlyForUnknownOpcode

(* More branches take none of the jumps away.                              *)
LEMMA JumpsAdded ==
  ASSUME NEW js, NEW more, js \subseteq more, NEW m \in Nat, CompiledTo(js, m)
  PROVE  CompiledTo(more, m)
BY DEF CompiledTo, HasJumps

(* The listed targets are those of the branches and switches of the body.  *)
LEMMA TargetsListed ==
  ASSUME TypeInv, NEW t \in SortedOffsets(Code)
  PROVE  IsJumpTarget(t)
<1>1. TargetIndex(t) + 1 \in 1 .. Len(jumpTargets) /\ jumpTargets[TargetIndex(t) + 1] = t
  BY JumpTargetFacts
<1>2. DOMAIN jumpTargets = 1 .. Len(jumpTargets)
  BY JumpTargetFacts
<1> QED
  BY <1>1, <1>2 DEF IsJumpTarget

(* One instruction more is compiled.                                       *)
LEMMA OneMoreCompiled ==
  ASSUME NEW js, NEW m \in Nat \ {0}, CompiledTo(js, m - 1),
         Code[m].op \in SupportedOps, HasJumps(js, m, Len(Code[m].targets))
  PROVE  CompiledTo(js, m)
<1>1. \A i \in 1 .. m : i \in 1 .. m - 1 \/ i = m
  OBVIOUS
<1> QED
  BY <1>1 DEF CompiledTo

(* Every step keeps what is compiled whole.                                *)
LEMMA StepWhole == WholeInv /\ [Compile]_compilerVars => WholeInv'
<1> SUFFICES ASSUME WholeInv, [Compile]_compilerVars PROVE WholeInv'
  OBVIOUS
<1>0. TypeInv /\ TypeInv'
  BY StepType DEF WholeInv
<1>a. /\ method \in Methods /\ Len(Code) \in Nat /\ il \in 1 .. Len(Code) + 1
      /\ item \in Nat /\ start \in Seq(Nat) /\ Len(start) \in Nat
      /\ DOMAIN Code = 1 .. Len(Code)
  BY <1>0, CodeFacts DEF TypeInv, TypeOK
<1>b. \A i \in 1 .. Len(Code) :
        Len(Code[i].targets) \in Nat /\ DOMAIN Code[i].targets = 1 .. Len(Code[i].targets)
  <2> TAKE i \in 1 .. Len(Code)
  <2>1. Code[i].targets \in Seq(Nat)
    BY <1>a, CodeFacts DEF CilInstr
  <2> QED
    BY <2>1
<1>1. CASE OpenBlocks
  <2>1. /\ phase = "open" /\ UNCHANGED <<method, il, start, jumps>> /\ il = 1 /\ start = <<>>
        /\ \/ phase' = "done" /\ Code = <<>>
           \/ phase' = "body"
    BY <1>1 DEF OpenBlocks, WholeInv
  <2>2. Len(start) = il - 1 /\ \A i \in 1 .. il - 1 : FALSE
    BY <2>1
  <2>3. phase' = "done" => DOMAIN Code' = {}
    BY <2>1 DEF Code
  <2> QED
    BY <1>0, <2>1, <2>2, <2>3 DEF WholeInv, CompiledTo, FailsOnlyForUnknownOpcode
<1>2. CASE CompileStraightInstruction
  <2>1. /\ phase = "body" /\ phase' = "body" /\ UNCHANGED <<method, jumps>> /\ il' = il + 1
        /\ il \in 1 .. Len(Code) /\ Code[il].op \in StraightOps
        /\ Len(start') = Len(start) + 1
    BY <1>2, <1>a DEF CompileStraightInstruction, InBody, BeginInstruction
  <2>2. Code[il].op \notin Branches \cup {"Switch"}
    BY <2>1 DEF StraightOps, SimpleOps, Branches, UnconditionalBranches, ConditionalBranches
  <2>3. Code[il].targets = <<>>
    BY <1>a, <2>1, <2>2, CodeFacts DEF WellFormedBody
  <2>4. HasJumps(jumps, il, Len(Code[il].targets))
    BY <2>3 DEF HasJumps
  <2>5. CompiledTo(jumps, il - 1) /\ Len(start) = il - 1
    BY <2>1 DEF WholeInv
  <2>6. CompiledTo(jumps, il)
    BY <2>1, <2>4, <2>5, OneMoreCompiled DEF SupportedOps
  <2>7. il' - 1 = il /\ Len(start') = il' - 1
    BY <1>a, <2>1, <2>5
  <2> HIDE DEF TypeInv
  <2>8. phase' # "open" /\ phase' # "switch" /\ phase' # "failed" /\ phase' # "done" /\ jumps' = jumps
    BY <2>1
  <2> QED
    BY <1>0, <2>1, <2>6, <2>7, <2>8 DEF WholeInv, CompiledTo, HasJumps, Code, FailsOnlyForUnknownOpcode
<1>3. CASE CompileBranch
  <2>1. /\ phase = "body" /\ phase' = "body" /\ UNCHANGED method /\ il' = il + 1
        /\ il \in 1 .. Len(Code) /\ Code[il].op \in DOMAIN BranchTests
        /\ Len(start') = Len(start) + 1
        /\ jumps \subseteq jumps'
        /\ \E j \in jumps' : j.from = il /\ j.to = Code[il].targets[1]
    <3> DEFINE t    == Code[il].targets[1]
               code == JumpSetup(t, ClosedHere) \o BranchTests[Code[il].op]
                         \o <<WN(BranchOp(Code[il].op), BreakDepth(t, ClosedHere))>>
               j    == [at |-> Len(result) + Len(ClosingEnd) + Len(code), from |-> il, to |-> t]
    <3>1. /\ InBody /\ Code[il].op \in DOMAIN BranchTests /\ UNCHANGED <<method, phase>> /\ il' = il + 1
          /\ BeginInstruction(code) /\ jumps' = jumps \cup {j}
      BY <1>3 DEF CompileBranch
    <3>2. j.from = il /\ j.to = t
      OBVIOUS
    <3> HIDE DEF code, t, j
    <3>3. \E k \in jumps' : k.from = il /\ k.to = t
      BY <3>1, <3>2
    <3>4. Len(start') = Len(start) + 1
      BY <3>1, <1>a DEF BeginInstruction
    <3> QED
      BY <3>1, <3>3, <3>4, <1>a DEF InBody, t
  <2>2. Len(Code[il].targets) = 1
    BY <1>a, <2>1, CodeFacts DEF BranchTests, Branches, UnconditionalBranches, ConditionalBranches
  <2> DEFINE js == jumps'
  <2>3. HasJumps(js, il, Len(Code[il].targets))
    BY <2>1, <2>2 DEF HasJumps
  <2>4. CompiledTo(jumps, il - 1) /\ Len(start) = il - 1
    BY <2>1 DEF WholeInv
  <2>5. jumps \subseteq js /\ il - 1 \in Nat /\ il \in Nat \ {0}
    BY <2>1
  <2> HIDE DEF js
  <2>6. CompiledTo(js, il - 1)
    BY <2>4, <2>5, JumpsAdded
  <2>7. CompiledTo(js, il)
    BY <2>1, <2>3, <2>5, <2>6, OneMoreCompiled DEF SupportedOps
  <2>8. il' - 1 = il /\ Len(start') = il' - 1
    BY <1>a, <2>1, <2>4
  <2> QED
    BY <1>0, <2>1, <2>7, <2>8 DEF WholeInv, CompiledTo, HasJumps, Code, FailsOnlyForUnknownOpcode, js
<1>4. CASE BeginSwitch
  <2>1. /\ phase = "body" /\ phase' = "switch" /\ UNCHANGED <<method, jumps, il>> /\ item' = 0
        /\ il \in 1 .. Len(Code) /\ Code[il].op = "Switch"
        /\ Len(start') = Len(start) + 1
    BY <1>4, <1>a DEF BeginSwitch, InBody, BeginInstruction
  <2>2. CompiledTo(jumps, il - 1) /\ Len(start') = il
    BY <1>a, <2>1 DEF WholeInv
  <2> QED
    BY <1>0, <2>1, <2>2 DEF WholeInv, CompiledTo, HasJumps, Code, FailsOnlyForUnknownOpcode
<1>5. CASE CompileSwitchItem
  <2>1. /\ phase = "switch" /\ phase' = "switch" /\ UNCHANGED <<method, il, start>> /\ item' = item + 1
        /\ jumps \subseteq jumps'
        /\ \E j \in jumps' : j.from = il /\ j.to = Code[il].targets[item + 1]
    <3> DEFINE t    == Code[il].targets[item + 1]
               code == <<GetLocal("switchValue", 0), Const(item), W("i32.eq")>>
                         \o JumpSetup(t, nextJumpTargetIndex)
                         \o <<WN("br_if", BreakDepth(t, nextJumpTargetIndex))>>
               j    == [at |-> Len(result) + Len(code), from |-> il, to |-> t]
    <3>1. /\ phase = "switch" /\ UNCHANGED <<method, phase, il, start>> /\ item' = item + 1
          /\ jumps' = jumps \cup {j}
      BY <1>5 DEF CompileSwitchItem
    <3>2. j.from = il /\ j.to = t
      OBVIOUS
    <3> HIDE DEF code, t, j
    <3>3. \E k \in jumps' : k.from = il /\ k.to = t
      BY <3>1, <3>2
    <3> QED
      BY <3>1, <3>3 DEF t
  <2>2. /\ CompiledTo(jumps, il - 1) /\ Len(start) = il
        /\ Code[il].op = "Switch" /\ HasJumps(jumps, il, item)
    BY <2>1 DEF WholeInv
  <2> DEFINE js == jumps'
  <2>3. \A k \in 1 .. item + 1 : k \in 1 .. item \/ k = item + 1
    BY <1>a
  <2>4. HasJumps(js, il, item + 1)
    BY <2>1, <2>2, <2>3 DEF HasJumps
  <2>5. jumps \subseteq js /\ il - 1 \in Nat
    BY <1>a, <2>1
  <2> HIDE DEF js
  <2>6. CompiledTo(js, il - 1)
    BY <2>2, <2>5, JumpsAdded
  <2> QED
    BY <1>0, <2>1, <2>2, <2>4, <2>6 DEF WholeInv, CompiledTo, HasJumps, Code, FailsOnlyForUnknownOpcode, js
<1>6. CASE EndSwitch
  <2>1. /\ phase = "switch" /\ phase' = "body" /\ UNCHANGED <<method, jumps, start>> /\ il' = il + 1
        /\ item = Len(Code[il].targets)
    BY <1>6 DEF EndSwitch
  <2>2. /\ CompiledTo(jumps, il - 1) /\ Len(start) = il
        /\ Code[il].op = "Switch" /\ HasJumps(jumps, il, Len(Code[il].targets))
    BY <2>1 DEF WholeInv
  <2>3. CompiledTo(jumps, il)
    BY <1>a, <2>2, OneMoreCompiled DEF SupportedOps
  <2>4. il' - 1 = il /\ Len(start') = il' - 1
    BY <1>a, <2>1, <2>2
  <2> QED
    BY <1>0, <2>1, <2>3, <2>4 DEF WholeInv, CompiledTo, HasJumps, Code, FailsOnlyForUnknownOpcode
<1>7. CASE RejectInstruction
  <2>1. phase' = "failed" /\ UNCHANGED method /\ CannotCompile
    BY <1>7 DEF RejectInstruction
  <2>2. ~(phase = "switch")
    <3> SUFFICES ASSUME phase = "switch" PROVE FALSE
      OBVIOUS
    <3>1. item < Len(Code[il].targets) /\ ~IsJumpTarget(Code[il].targets[item + 1])
      BY <2>1 DEF CannotCompile
    <3>2. il \in 1 .. Len(Code)
      BY <1>0 DEF TypeInv, TypeOK
    <3>3. item + 1 \in 1 .. Len(Code[il].targets)
      BY <1>a, <1>b, <3>1, <3>2
    <3> QED
      BY <1>0, <1>a, <3>1, <3>2, <3>3, CodeFacts, TargetsListed
  <2>3. /\ il \in 1 .. Len(Code)
        /\ \/ Code[il].op \notin SupportedOps
           \/ Code[il].op \in DOMAIN BranchTests /\ ~IsJumpTarget(Code[il].targets[1])
    BY <1>a, <2>1, <2>2 DEF CannotCompile, InBody
  <2>4. Code[il].op \in DOMAIN BranchTests => Len(Code[il].targets) = 1
    BY <1>a, <2>3, CodeFacts DEF BranchTests, Branches, UnconditionalBranches, ConditionalBranches
  <2>5. Code[il].op \in DOMAIN BranchTests => IsJumpTarget(Code[il].targets[1])
    BY <1>0, <1>a, <2>3, <2>4, CodeFacts, TargetsListed
  <2>6. il \in DOMAIN Code /\ Code[il].op \notin SupportedOps
    BY <1>a, <2>3, <2>5
  <2> QED
    BY <1>0, <2>1, <2>6 DEF WholeInv, Code, FailsOnlyForUnknownOpcode
<1>8. CASE CloseBlocks
  <2>1. /\ phase = "body" /\ phase' = "done" /\ UNCHANGED <<method, start, jumps>>
        /\ il > Len(Code)
    BY <1>8 DEF CloseBlocks
  <2>2. CompiledTo(jumps, Len(Code)) /\ Len(start) = Len(Code)
    <3>1. il - 1 = Len(Code)
      BY <1>a, <2>1
    <3> QED
      BY <2>1, <3>1 DEF WholeInv
  <2>3. DOMAIN start = DOMAIN Code
    BY <1>a, <2>2
  <2>4. \A i \in DOMAIN Code :
          /\ Code[i].op \in SupportedOps /\ i \in DOMAIN start
          /\ \A k \in DOMAIN Code[i].targets :
               \E j \in jumps : j.from = i /\ j.to = Code[i].targets[k]
    BY <1>a, <1>b, <2>2, <2>3 DEF CompiledTo, HasJumps
  <2> QED
    BY <1>0, <2>1, <2>4 DEF WholeInv, Code, FailsOnlyForUnknownOpcode
<1>9. CASE UNCHANGED compilerVars
  BY <1>0, <1>9 DEF WholeInv, compilerVars, CompiledTo, HasJumps, Code, FailsOnlyForUnknownOpcode
<1> QED
  BY <1>1, <1>2, <1>3, <1>4, <1>5, <1>6, <1>7, <1>8, <1>9 DEF Compile

(* For every set of methods: a compilation fails only for an opcode        *)
(* CompileInstruction does not know, because FlowAnalysis has listed the   *)
(* targets of all the jumps it does know; and complete code has every      *)
(* instruction and a branch for every jump.                                *)
THEOREM AlwaysFailsOnlyForUnknownOpcode == CompilerSpec => []FailsOnlyForUnknownOpcode
<1>1. Init => WholeInv
  BY InitType DEF Init, WholeInv, FailsOnlyForUnknownOpcode
<1>2. WholeInv => FailsOnlyForUnknownOpcode
  BY DEF WholeInv
<1> QED
  BY <1>1, <1>2, StepWhole, PTL DEF CompilerSpec
-----------------------------------------------------------------------------
(* Nesting, for any code.                                                  *)

(* What Nesting counts is finite.                                          *)
LEMMA NestingType ==
  ASSUME NEW s, NEW p \in Nat
  PROVE  /\ IsFiniteSet(Opened(s, p)) /\ Cardinality(Opened(s, p)) \in Nat
         /\ IsFiniteSet(Ended(s, p)) /\ Cardinality(Ended(s, p)) \in Nat
         /\ Nesting(s, p) \in Int
<1>1. IsFiniteSet(1 .. p)
  BY FS_Interval
<1>2. Opened(s, p) \in SUBSET (1 .. p) /\ Ended(s, p) \in SUBSET (1 .. p)
  BY DEF Opened, Ended
<1>3. IsFiniteSet(Opened(s, p)) /\ IsFiniteSet(Ended(s, p))
  BY <1>1, <1>2, FS_Subset
<1>4. Cardinality(Opened(s, p)) \in Nat /\ Cardinality(Ended(s, p)) \in Nat
  BY <1>3, FS_CardinalityType
<1> QED
  BY <1>3, <1>4 DEF Nesting

(* Nothing is open before the first instruction.                           *)
LEMMA NestingAtStart ==
  ASSUME NEW s
  PROVE  Nesting(s, 0) = 0
<1>1. Opened(s, 0) = {} /\ Ended(s, 0) = {}
  BY DEF Opened, Ended
<1> QED
  BY <1>1, FS_EmptySet DEF Nesting

(* Code appended does not change what is open before it.                   *)
LEMMA NestingPrefix ==
  ASSUME NEW s \in Seq(WasmInstr), NEW t \in Seq(WasmInstr), NEW p \in 0 .. Len(s)
  PROVE  Nesting(s \o t, p) = Nesting(s, p)
<1>1. \A q \in 1 .. p : (s \o t)[q] = s[q]
  BY ConcatProperties
<1>2. Opened(s \o t, p) = Opened(s, p) /\ Ended(s \o t, p) = Ended(s, p)
  BY <1>1 DEF Opened, Ended
<1> QED
  BY <1>2 DEF Nesting

(* A set moved to other positions keeps its size.                          *)
LEMMA ShiftCard ==
  ASSUME NEW S \in SUBSET Nat, IsFiniteSet(S), NEW n \in Nat
  PROVE  /\ IsFiniteSet({n + q : q \in S})
         /\ Cardinality({n + q : q \in S}) = Cardinality(S)
<1> DEFINE T == {n + q : q \in S}
           f == [q \in S |-> n + q]
<1>1. f \in [S -> T]
  OBVIOUS
<1>2. \A a, b \in S : f[a] = f[b] => a = b
  OBVIOUS
<1>3. \A y \in T : \E q \in S : f[q] = y
  OBVIOUS
<1>4. f \in Surjection(S, T)
  BY <1>1, <1>3, Fun_IsSurj
<1>5. f \in Bijection(S, T)
  BY <1>1, <1>2, <1>4, Fun_IsBij
<1>6. ExistsBijection(S, T)
  BY <1>5 DEF ExistsBijection
<1> QED
  BY <1>6, FS_Bijection

(* Next to a set it does not meet, it adds its size.                       *)
LEMMA MovedUnionCard ==
  ASSUME NEW S, IsFiniteSet(S), NEW T \in SUBSET Nat, IsFiniteSet(T), NEW n \in Nat,
         S \cap {n + q : q \in T} = {}
  PROVE  Cardinality(S \cup {n + q : q \in T}) = Cardinality(S) + Cardinality(T)
<1> DEFINE M == {n + q : q \in T}
<1>1. IsFiniteSet(M) /\ Cardinality(M) = Cardinality(T)
  BY ShiftCard
<1>2. S \cap M = {}
  OBVIOUS
<1> HIDE DEF M
<1>3. Cardinality(S \cup M) = Cardinality(S) + Cardinality(M) - Cardinality(S \cap M)
  BY <1>1, FS_Union
<1>4. Cardinality(S \cap M) = 0
  BY <1>2, FS_EmptySet
<1>5. Cardinality(S) \in Nat /\ Cardinality(T) \in Nat
  BY FS_CardinalityType
<1>6. Cardinality(S \cup M) = Cardinality(S) + Cardinality(T)
  BY <1>1, <1>3, <1>4, <1>5
<1> QED
  BY <1>6 DEF M

(* The nesting of two pieces of code is the sum of theirs.                 *)
LEMMA NestingAppended ==
  ASSUME NEW s \in Seq(WasmInstr), NEW t \in Seq(WasmInstr), NEW k \in 0 .. Len(t)
  PROVE  Nesting(s \o t, Len(s) + k) = Nesting(s, Len(s)) + Nesting(t, k)
<1> DEFINE n == Len(s)
           c == s \o t
           moved(S) == {n + q : q \in S}
<1>0. n \in Nat /\ Len(t) \in Nat /\ k \in Nat /\ n + k \in Nat
  OBVIOUS
<1>1. (\A q \in 1 .. n : c[q] = s[q]) /\ (\A q \in 1 .. k : c[n + q] = t[q])
  <2>1. \A q \in 1 .. Len(s) + Len(t) : c[q] = IF q <= Len(s) THEN s[q] ELSE t[q - Len(s)]
    BY ConcatProperties
  <2>2. \A q \in 1 .. n : c[q] = s[q]
    BY <2>1, <1>0
  <2>3. ASSUME NEW q \in 1 .. k PROVE c[n + q] = t[q]
    <3>1. n + q \in 1 .. Len(s) + Len(t) /\ ~(n + q <= Len(s)) /\ n + q - Len(s) = q
      BY <1>0
    <3> QED
      BY <2>1, <3>1
  <2> QED
    BY <2>2, <2>3
<1> HIDE DEF c, n
<1>2. \A q \in 1 .. n + k : q \in 1 .. n \/ \E r \in 1 .. k : q = n + r
  <2> TAKE q \in 1 .. n + k
  <2>1. q \in 1 .. n \/ (q - n \in 1 .. k /\ q = n + (q - n))
    BY <1>0
  <2> QED
    BY <2>1
<1>3. \A r \in 1 .. k : n + r \in 1 .. n + k /\ n + r \notin 1 .. n
  BY <1>0
<1>3a. 1 .. n \subseteq 1 .. n + k
  BY <1>0
<1>4. /\ Opened(c, n + k) = Opened(s, n) \cup moved(Opened(t, k))
      /\ Opened(s, n) \cap moved(Opened(t, k)) = {}
  <2>1. \A q \in 1 .. n : q \in 1 .. n + k /\ c[q].op = s[q].op
    BY <1>1, <1>3a
  <2>2. \A q \in 1 .. k : n + q \in 1 .. n + k /\ n + q \notin 1 .. n /\ c[n + q].op = t[q].op
    BY <1>1, <1>3
  <2>3. Opened(s, n) \cap moved(Opened(t, k)) = {}
    BY <2>2 DEF Opened
  <2>4. ASSUME NEW q \in Opened(c, n + k) PROVE q \in Opened(s, n) \cup moved(Opened(t, k))
    <3>1. CASE q \in 1 .. n
      BY <2>1, <3>1 DEF Opened
    <3>2. CASE q \notin 1 .. n
      <4>1. PICK r \in 1 .. k : q = n + r
        BY <1>2, <3>2 DEF Opened
      <4>2. r \in Opened(t, k)
        BY <2>2, <4>1 DEF Opened
      <4> QED
        BY <4>1, <4>2
    <3> QED
      BY <3>1, <3>2
  <2>5. \A q \in Opened(s, n) \cup moved(Opened(t, k)) : q \in Opened(c, n + k)
    BY <2>1, <2>2 DEF Opened
  <2> QED
    BY <2>3, <2>4, <2>5
<1>5. /\ Ended(c, n + k) = Ended(s, n) \cup moved(Ended(t, k))
      /\ Ended(s, n) \cap moved(Ended(t, k)) = {}
  <2>1. \A q \in 1 .. n : q \in 1 .. n + k /\ c[q].op = s[q].op
    BY <1>1, <1>3a
  <2>2. \A q \in 1 .. k : n + q \in 1 .. n + k /\ n + q \notin 1 .. n /\ c[n + q].op = t[q].op
    BY <1>1, <1>3
  <2>3. Ended(s, n) \cap moved(Ended(t, k)) = {}
    BY <2>2 DEF Ended
  <2>4. ASSUME NEW q \in Ended(c, n + k) PROVE q \in Ended(s, n) \cup moved(Ended(t, k))
    <3>1. CASE q \in 1 .. n
      BY <2>1, <3>1 DEF Ended
    <3>2. CASE q \notin 1 .. n
      <4>1. PICK r \in 1 .. k : q = n + r
        BY <1>2, <3>2 DEF Ended
      <4>2. r \in Ended(t, k)
        BY <2>2, <4>1 DEF Ended
      <4> QED
        BY <4>1, <4>2
    <3> QED
      BY <3>1, <3>2
  <2>5. \A q \in Ended(s, n) \cup moved(Ended(t, k)) : q \in Ended(c, n + k)
    BY <2>1, <2>2 DEF Ended
  <2> QED
    BY <2>3, <2>4, <2>5
<1>6. /\ IsFiniteSet(Opened(s, n)) /\ IsFiniteSet(Ended(s, n))
      /\ IsFiniteSet(Opened(t, k)) /\ IsFiniteSet(Ended(t, k))
      /\ Cardinality(Opened(s, n)) \in Nat /\ Cardinality(Ended(s, n)) \in Nat
      /\ Cardinality(Opened(t, k)) \in Nat /\ Cardinality(Ended(t, k)) \in Nat
  BY <1>0, NestingType
<1>7. Opened(t, k) \in SUBSET Nat /\ Ended(t, k) \in SUBSET Nat
  BY DEF Opened, Ended
<1>8. Cardinality(Opened(s, n) \cup moved(Opened(t, k))) = Cardinality(Opened(s, n)) + Cardinality(Opened(t, k))
  BY <1>0, <1>4, <1>6, <1>7, MovedUnionCard
<1>9. Cardinality(Ended(s, n) \cup moved(Ended(t, k))) = Cardinality(Ended(s, n)) + Cardinality(Ended(t, k))
  BY <1>0, <1>5, <1>6, <1>7, MovedUnionCard
<1> HIDE DEF moved
<1>10. /\ Cardinality(Opened(c, n + k)) = Cardinality(Opened(s, n)) + Cardinality(Opened(t, k))
       /\ Cardinality(Ended(c, n + k)) = Cardinality(Ended(s, n)) + Cardinality(Ended(t, k))
  BY <1>4, <1>5, <1>8, <1>9
<1>11. Nesting(c, n + k) = Nesting(s, n) + Nesting(t, k)
  BY <1>6, <1>10 DEF Nesting
<1> QED
  BY <1>11 DEF c, n

-----------------------------------------------------------------------------
(* The nesting of the pieces of which the compiled code consists.          *)

(* Code without block, loop and end leaves the nesting alone.              *)
LEMMA FlatNesting ==
  ASSUME NEW t \in Seq(FlatInstr), NEW k \in 0 .. Len(t)
  PROVE  Nesting(t, k) = 0
<1>1. \A q \in 1 .. k : t[q] \in FlatInstr
  BY ElementOfSeq
<1>2. \A i \in FlatInstr : i.op \notin Openers /\ i.op # "end"
  BY DEF FlatInstr, FlatOps, Structural
<1>3. Opened(t, k) = {} /\ Ended(t, k) = {}
  BY <1>1, <1>2 DEF Opened, Ended
<1> QED
  BY <1>3, FS_EmptySet DEF Nesting

(* Blocks opened one after the other nest, ends undo them one by one.      *)
LEMMA RepeatedNesting ==
  ASSUME NEW n \in Nat, NEW k \in 0 .. n
  PROVE  /\ Nesting([q \in 1 .. n |-> W("block")], k) = k
         /\ Nesting([q \in 1 .. n |-> W("end")], k) = -k
<1> DEFINE b == [q \in 1 .. n |-> W("block")]
           e == [q \in 1 .. n |-> W("end")]
<1>1. W("block").op = "block" /\ W("end").op = "end"
  BY DEF W
<1>2. \A q \in 1 .. k : b[q].op = "block" /\ e[q].op = "end"
  BY <1>1
<1> HIDE DEF b, e
<1>3. Opened(b, k) = 1 .. k /\ Ended(b, k) = {}
  BY <1>2 DEF Opened, Ended, Openers
<1>4. Opened(e, k) = {} /\ Ended(e, k) = 1 .. k
  BY <1>2 DEF Opened, Ended, Openers
<1>5. Cardinality(1 .. k) = k
  BY FS_Interval
<1>6. Cardinality({}) = 0
  BY FS_EmptySet
<1>7. Nesting(b, k) = k /\ Nesting(e, k) = -k
  BY <1>3, <1>4, <1>5, <1>6 DEF Nesting
<1> QED
  BY <1>7 DEF b, e

(* The effect of a single instruction.                                     *)
LEMMA SingleNesting ==
  ASSUME NEW op \in WasmOps
  PROVE  Nesting(<<W(op)>>, 1) = IF op \in Openers THEN 1 ELSE IF op = "end" THEN -1 ELSE 0
<1> DEFINE s == <<W(op)>>
<1>1. s[1].op = op
  BY DEF W
<1> HIDE DEF s
<1>2. Opened(s, 1) = IF op \in Openers THEN {1} ELSE {}
  BY <1>1 DEF Opened
<1>3. Ended(s, 1) = IF op = "end" THEN {1} ELSE {}
  BY <1>1 DEF Ended
<1>4. op \in Openers => op # "end"
  BY DEF Openers
<1>5. Cardinality({}) = 0 /\ Cardinality({1}) = 1
  BY FS_EmptySet, FS_Singleton
<1>6. Nesting(s, 1) = IF op \in Openers THEN 1 ELSE IF op = "end" THEN -1 ELSE 0
  BY <1>2, <1>3, <1>4, <1>5 DEF Nesting
<1> QED
  BY <1>6 DEF s
-----------------------------------------------------------------------------
(* Code that at no point has closed more than -m blocks it did not open;   *)
(* Depth is what it leaves open.                                           *)
Above(s, m) == \A p \in 0 .. Len(s) : Nesting(s, p) >= m
Depth(s)    == Nesting(s, Len(s))

(* Appending code that closes no more than that.                           *)
LEMMA Extended ==
  ASSUME NEW s \in Seq(WasmInstr), NEW t \in Seq(WasmInstr), NEW m \in Int, Above(s, m),
         \A k \in 0 .. Len(t) : Depth(s) + Nesting(t, k) >= m
  PROVE  Above(s \o t, m) /\ Depth(s \o t) = Depth(s) + Depth(t)
<1>1. Len(s) \in Nat /\ Len(t) \in Nat /\ Len(s \o t) = Len(s) + Len(t)
  BY ConcatProperties
<1>2. \A k \in 0 .. Len(t) : Nesting(s \o t, Len(s) + k) = Depth(s) + Nesting(t, k)
  BY NestingAppended DEF Depth
<1>3. Depth(s \o t) = Depth(s) + Depth(t)
  BY <1>1, <1>2 DEF Depth
<1>4. ASSUME NEW p \in 0 .. Len(s) + Len(t) PROVE Nesting(s \o t, p) >= m
  <2>1. CASE p \in 0 .. Len(s)
    BY <2>1, NestingPrefix DEF Above
  <2>2. CASE p \notin 0 .. Len(s)
    <3>1. p - Len(s) \in 0 .. Len(t) /\ Len(s) + (p - Len(s)) = p
      BY <1>1, <2>2
    <3>2. Nesting(s \o t, Len(s) + (p - Len(s))) = Depth(s) + Nesting(t, p - Len(s))
      BY <1>2, <3>1
    <3> QED
      BY <3>1, <3>2
  <2> QED
    BY <2>1, <2>2
<1> QED
  BY <1>1, <1>3, <1>4 DEF Above

(* Flat code leaves open what is open.                                     *)
LEMMA ExtendedByFlat ==
  ASSUME NEW s \in Seq(WasmInstr), NEW t \in Seq(FlatInstr), NEW m \in Int, Above(s, m)
  PROVE  Above(s \o t, m) /\ Depth(s \o t) = Depth(s)
<1>1. Len(s) \in Nat /\ Len(t) \in Nat /\ t \in Seq(WasmInstr)
  BY FlatIsCode
<1>2. Depth(s) \in Int /\ Depth(s) >= m
  BY <1>1, NestingType DEF Depth, Above
<1>3. (\A k \in 0 .. Len(t) : Nesting(t, k) = 0) /\ Depth(t) = 0
  BY <1>1, FlatNesting DEF Depth
<1> QED
  BY <1>1, <1>2, <1>3, Extended

(* One end closes the innermost block, if there is one to close.           *)
LEMMA ExtendedByEnd ==
  ASSUME NEW s \in Seq(WasmInstr), NEW m \in Int, Above(s, m), Depth(s) > m
  PROVE  Above(s \o <<W("end")>>, m) /\ Depth(s \o <<W("end")>>) = Depth(s) - 1
<1> DEFINE e == <<W("end")>>
<1>1. e \in Seq(WasmInstr) /\ Len(e) = 1 /\ Len(s) \in Nat
  BY InstrTypes, EmittedOps
<1>2. Nesting(e, 0) = 0
  BY NestingAtStart
<1>3. Nesting(e, 1) = -1
  BY EmittedOps, SingleNesting DEF Openers
<1>4. Depth(s) \in Int
  BY <1>1, NestingType DEF Depth
<1> HIDE DEF e
<1>5. Depth(e) = -1
  BY <1>1, <1>3 DEF Depth
<1>6. \A k \in 0 .. Len(e) : k = 0 \/ k = 1
  BY <1>1
<1>7. \A k \in 0 .. Len(e) : Depth(s) + Nesting(e, k) >= m
  BY <1>2, <1>3, <1>4, <1>6
<1>8. Above(s \o e, m) /\ Depth(s \o e) = Depth(s) - 1
  BY <1>1, <1>4, <1>5, <1>7, Extended
<1> QED
  BY <1>8 DEF e

(* The jump table opens one block and closes it.                           *)
LEMMA JumpTableNesting ==
  ASSUME NEW n \in Nat
  PROVE  /\ JumpTable(n) \in Seq(WasmInstr)
         /\ \A k \in 0 .. Len(JumpTable(n)) : Nesting(JumpTable(n), k) >= 0
         /\ Depth(JumpTable(n)) = 0
<1>0. JumpTable(n) \in Seq(WasmInstr)
  BY InstrTypes, EmittedOps, FlatIsCode DEF JumpTable
<1>1. CASE n = 0
  <2>1. JumpTable(n) = <<>> /\ Len(JumpTable(n)) = 0
    BY <1>1 DEF JumpTable
  <2> QED
    BY <1>0, <2>1, NestingAtStart DEF Depth
<1>2. CASE n # 0
  <2> DEFINE t == JumpTable(n)
  <2>1. /\ Len(t) = 4
        /\ t[1] = W("block") /\ t[2] = GetLocal("jumpTarget", 0)
        /\ t[3] = WN("br_table", n) /\ t[4] = W("end")
    BY <1>2 DEF JumpTable
  <2> HIDE DEF t
  <2>a. W("block").op = "block" /\ W("end").op = "end"
    BY DEF W
  <2>b. WN("br_table", n).op = "br_table" /\ GetLocal("jumpTarget", 0).op = "get_local"
    BY DEF WN, GetLocal
  <2>2. t[1].op = "block" /\ t[2].op = "get_local" /\ t[3].op = "br_table" /\ t[4].op = "end"
    BY <2>1, <2>a, <2>b
  <2>3. \A k \in 1 .. 4 : Opened(t, k) = {1}
    BY <2>2 DEF Opened, Openers
  <2>4. (\A k \in 1 .. 3 : Ended(t, k) = {}) /\ Ended(t, 4) = {4}
    BY <2>2 DEF Ended
  <2>5. Cardinality({}) = 0 /\ Cardinality({1}) = 1 /\ Cardinality({4}) = 1
    BY FS_EmptySet, FS_Singleton
  <2>6. (\A k \in 1 .. 3 : Nesting(t, k) = 1) /\ Nesting(t, 4) = 0
    BY <2>3, <2>4, <2>5 DEF Nesting
  <2>7. Nesting(t, 0) = 0
    BY NestingAtStart
  <2>8. \A k \in 0 .. 4 : k = 0 \/ k \in 1 .. 3 \/ k = 4
    OBVIOUS
  <2>9. (\A k \in 0 .. Len(t) : Nesting(t, k) >= 0) /\ Depth(t) = 0
    BY <2>1, <2>6, <2>7, <2>8 DEF Depth
  <2> QED
    BY <1>0, <2>9 DEF t
<1> QED
  BY <1>1, <1>2

(* Behind the head of the function the loop and a block for every target   *)
(* are open.                                                               *)
LEMMA PrologueNesting ==
  ASSUME NEW n \in Nat
  PROVE  Above(Prologue(n), 0) /\ Depth(Prologue(n)) = 1 + n
<1> DEFINE l == <<W("loop")>>
           b == [q \in 1 .. n |-> W("block")]
<1>1. l \in Seq(WasmInstr) /\ Len(l) = 1 /\ b \in Seq(WasmInstr) /\ Len(b) = n
  BY InstrTypes, EmittedOps
<1>2. Nesting(l, 0) = 0 /\ Nesting(l, 1) = 1
  BY NestingAtStart, EmittedOps, SingleNesting DEF Openers
<1>3. \A k \in 0 .. n : Nesting(b, k) = k
  BY RepeatedNesting
<1>4. Prologue(n) = (l \o b) \o JumpTable(n)
  BY DEF Prologue
<1> HIDE DEF l, b
<1>5. Above(l, 0) /\ Depth(l) = 1
  <2>1. \A k \in 0 .. Len(l) : k = 0 \/ k = 1
    BY <1>1
  <2> QED
    BY <1>1, <1>2, <2>1 DEF Above, Depth
<1>6. Depth(b) = n /\ \A k \in 0 .. Len(b) : Depth(l) + Nesting(b, k) >= 0
  BY <1>1, <1>3, <1>5 DEF Depth
<1>7. Above(l \o b, 0) /\ Depth(l \o b) = 1 + n
  BY <1>1, <1>5, <1>6, Extended
<1>8. l \o b \in Seq(WasmInstr)
  BY <1>1, ConcatProperties
<1>9. \A k \in 0 .. Len(JumpTable(n)) : Nesting(JumpTable(n), k) \in Int
  BY NestingType, JumpTableNesting
<1>10. \A k \in 0 .. Len(JumpTable(n)) : Depth(l \o b) + Nesting(JumpTable(n), k) >= 0
  BY <1>7, <1>9, JumpTableNesting
<1>11. Above((l \o b) \o JumpTable(n), 0) /\ Depth((l \o b) \o JumpTable(n)) = 1 + n
  <2> DEFINE lb == l \o b
             j  == JumpTable(n)
  <2>1. lb \in Seq(WasmInstr) /\ Above(lb, 0) /\ Depth(lb) = 1 + n
    BY <1>7, <1>8
  <2>2. j \in Seq(WasmInstr) /\ Depth(j) = 0 /\ \A k \in 0 .. Len(j) : Depth(lb) + Nesting(j, k) >= 0
    BY <1>10, JumpTableNesting
  <2> HIDE DEF lb, j
  <2>3. Above(lb \o j, 0) /\ Depth(lb \o j) = Depth(lb) + Depth(j)
    BY <2>1, <2>2, Extended
  <2>4. Above(lb \o j, 0) /\ Depth(lb \o j) = 1 + n
    BY <2>1, <2>2, <2>3
  <2> QED
    BY <2>4 DEF lb, j
<1> QED
  BY <1>4, <1>11
-----------------------------------------------------------------------------
(* The invariant behind BlocksBalanced: while instructions are compiled    *)
(* the loop and the blocks of the targets not yet passed are open.         *)
OpenBlocksOf(code, closed) ==
  Above(code, 0) /\ Depth(code) = 1 + Len(jumpTargets) - closed

BalanceInv ==
  /\ TypeInv
  /\ phase = "open" => nextJumpTargetIndex = 0
  /\ phase \in {"body", "switch"} => OpenBlocksOf(result, nextJumpTargetIndex)
  /\ BlocksBalanced

(* The end at the head of an iteration closes the block that               *)
(* nextJumpTargetIndex counts.                                             *)
LEMMA BeginInstructionBalance ==
  ASSUME TypeInv, OpenBlocksOf(result, nextJumpTargetIndex),
         NEW code \in Seq(FlatInstr), BeginInstruction(code), UNCHANGED jumpTargets
  PROVE  OpenBlocksOf(result, nextJumpTargetIndex)'
<1>1. /\ result \in Seq(WasmInstr) /\ Len(jumpTargets) \in Nat
      /\ nextJumpTargetIndex \in 0 .. Len(jumpTargets)
      /\ code \in Seq(WasmInstr)
  BY JumpTargetFacts, FlatIsCode DEF TypeInv, TypeOK
<1>2. Above(result, 0) /\ Depth(result) = 1 + Len(jumpTargets) - nextJumpTargetIndex
  BY DEF OpenBlocksOf
<1>3. result' = (result \o ClosingEnd) \o code /\ nextJumpTargetIndex' = ClosedHere
  BY DEF BeginInstruction
<1>4. /\ result \o ClosingEnd \in Seq(WasmInstr)
      /\ Above(result \o ClosingEnd, 0)
      /\ Depth(result \o ClosingEnd) = 1 + Len(jumpTargets) - ClosedHere
  <2>1. CASE AtTarget
    <3>1. ClosingEnd = <<W("end")>> /\ ClosedHere = nextJumpTargetIndex + 1
      BY <2>1 DEF ClosingEnd, ClosedHere
    <3>2. Depth(result) > 0
      BY <1>1, <1>2
    <3>3. <<W("end")>> \in Seq(WasmInstr)
      BY InstrTypes, EmittedOps
    <3>4. /\ Above(result \o <<W("end")>>, 0)
          /\ Depth(result \o <<W("end")>>) = Depth(result) - 1
      BY <1>1, <1>2, <3>2, ExtendedByEnd
    <3>5. result \o <<W("end")>> \in Seq(WasmInstr)
      BY <1>1, <3>3, ConcatProperties
    <3>6. Depth(result) - 1 = 1 + Len(jumpTargets) - (nextJumpTargetIndex + 1)
      BY <1>1, <1>2
    <3> QED
      BY <3>1, <3>4, <3>5, <3>6
  <2>2. CASE ~AtTarget
    <3>1. ClosingEnd = <<>> /\ ClosedHere = nextJumpTargetIndex
      BY <2>2 DEF ClosingEnd, ClosedHere
    <3>2. result \o <<>> = result
      BY <1>1, ConcatEmptySeq
    <3> QED
      BY <1>1, <1>2, <3>1, <3>2
  <2> QED
    BY <2>1, <2>2
<1> DEFINE closed == result \o ClosingEnd
<1>5. Above(result', 0) /\ Depth(result') = 1 + Len(jumpTargets) - nextJumpTargetIndex'
  <2>1. closed \in Seq(WasmInstr) /\ Above(closed, 0) /\ Depth(closed) = 1 + Len(jumpTargets) - ClosedHere
    BY <1>4
  <2>2. result' = closed \o code
    BY <1>3
  <2> HIDE DEF closed
  <2>3. Above(closed \o code, 0) /\ Depth(closed \o code) = Depth(closed)
    BY <2>1, ExtendedByFlat
  <2> QED
    BY <1>3, <2>1, <2>2, <2>3
<1> QED
  BY <1>5 DEF OpenBlocksOf

(* The end of the function closes what is open, the loop and the function. *)
LEMMA EpilogueBalance ==
  ASSUME NEW s \in Seq(WasmInstr), Above(s, 0), NEW n \in Nat, Depth(s) = 1 + n,
         NEW returns \in BOOLEAN
  PROVE  LET r == s \o Epilogue(n, returns)
         IN  Depth(r) = -1 /\ \A p \in 0 .. Len(r) - 1 : Nesting(r, p) >= 0
<1> DEFINE ends == [q \in 1 .. n |-> W("end")]
           fake == IF returns THEN <<Const(-1)>> ELSE <<>>
           e    == <<W("end")>>
           m    == -(n + 1)
           g    == (ends \o e) \o fake
           t    == g \o e
<1>1. /\ ends \in Seq(WasmInstr) /\ Len(ends) = n
      /\ e \in Seq(WasmInstr) /\ Len(e) = 1
      /\ fake \in Seq(FlatInstr)
  <2>1. <<Const(-1)>> \in Seq(FlatInstr) /\ <<>> \in Seq(FlatInstr)
    BY InstrTypes
  <2> QED
    BY <2>1, InstrTypes, EmittedOps
<1>2. m \in Int
  OBVIOUS
<1>3. Epilogue(n, returns) = t
  BY DEF Epilogue
<1>4. Nesting(e, 1) = -1
  BY EmittedOps, SingleNesting DEF Openers
<1>5. \A k \in 0 .. n : Nesting(ends, k) = -k
  BY RepeatedNesting
<1> HIDE DEF ends, fake
<1>6. Above(ends, m) /\ Depth(ends) = -n
  BY <1>1, <1>5 DEF Above, Depth
<1>7. Above(ends \o e, m) /\ Depth(ends \o e) = m
  <2>1. Depth(ends) > m
    BY <1>6
  <2>2. Depth(ends) - 1 = m
    BY <1>6
  <2> HIDE DEF m
  <2> QED
    BY <1>1, <1>2, <1>6, <2>1, <2>2, ExtendedByEnd
<1> HIDE DEF e, m
<1>8. ends \o e \in Seq(WasmInstr)
  BY <1>1, ConcatProperties
<1>9. Above(g, m) /\ Depth(g) = m
  BY <1>1, <1>2, <1>7, <1>8, ExtendedByFlat
<1>10. g \in Seq(WasmInstr)
  BY <1>1, <1>8, FlatIsCode, ConcatProperties
<1> HIDE DEF g
<1>11. t \in Seq(WasmInstr) /\ Len(t) = Len(g) + 1 /\ Len(g) \in Nat
  <2>1. t \in Seq(WasmInstr) /\ Len(t) = Len(g) + Len(e)
    BY <1>1, <1>10, ConcatProperties
  <2> QED
    BY <1>1, <1>10, <2>1
<1>12. \A k \in 0 .. Len(g) : Nesting(t, k) >= m
  BY <1>1, <1>9, <1>10, NestingPrefix DEF Above
<1>13. Nesting(t, Len(g) + 1) = m - 1
  <2>1. 1 \in 0 .. Len(e)
    BY <1>1
  <2>2. Nesting(t, Len(g) + 1) = Nesting(g, Len(g)) + Nesting(e, 1)
    BY <1>1, <1>10, <2>1, NestingAppended
  <2> QED
    BY <1>2, <1>4, <1>9, <2>2 DEF Depth
<1> HIDE DEF t
<1> DEFINE r == s \o t
<1>14. Len(s) \in Nat /\ Len(r) = Len(s) + Len(g) + 1
  <2>1. Len(s) \in Nat
    OBVIOUS
  <2>2. Len(r) = Len(s) + Len(t)
    BY <1>11, ConcatProperties
  <2> HIDE DEF r
  <2> QED
    BY <1>11, <2>1, <2>2
<1>15. \A k \in 0 .. Len(t) : Nesting(r, Len(s) + k) = 1 + n + Nesting(t, k)
  BY <1>11, NestingAppended DEF Depth
<1>16. \A p \in 0 .. Len(s) : Nesting(r, p) >= 0
  BY <1>11, NestingPrefix DEF Above
<1> HIDE DEF r
<1>17. Nesting(r, Len(s) + (Len(g) + 1)) = 1 + n + (m - 1)
  BY <1>11, <1>13, <1>15
<1>18. Depth(r) = -1
  BY <1>11, <1>14, <1>17 DEF Depth, m
<1>19. ASSUME NEW p \in 0 .. Len(r) - 1 PROVE Nesting(r, p) >= 0
  <2>1. CASE p \in 0 .. Len(s)
    BY <1>16, <2>1
  <2>2. CASE p \notin 0 .. Len(s)
    <3> DEFINE k == p - Len(s)
    <3>1. k \in 0 .. Len(g) /\ k \in 0 .. Len(t) /\ k \in Nat /\ Len(s) + k = p
      BY <1>11, <1>14, <2>2
    <3>2. Nesting(t, k) \in Int
      BY <3>1, NestingType
    <3> HIDE DEF k
    <3>3. Nesting(r, p) = 1 + n + Nesting(t, k) /\ Nesting(t, k) >= m
      BY <1>12, <1>15, <3>1
    <3> QED
      BY <3>2, <3>3 DEF m
  <2> QED
    BY <2>1, <2>2
<1> QED
  BY <1>3, <1>18, <1>19 DEF r
-----------------------------------------------------------------------------
(* Before the first step there is no code to be balanced.                  *)
LEMMA InitBalance == Init => BalanceInv
  BY InitType DEF Init, BalanceInv, BlocksBalanced

(* Every step keeps the blocks of the targets not yet passed open, and the *)
(* last one closes them.                                                   *)
LEMMA StepBalance == BalanceInv /\ [Compile]_compilerVars => BalanceInv'
<1> SUFFICES ASSUME BalanceInv, [Compile]_compilerVars PROVE BalanceInv'
  OBVIOUS
<1>0. TypeInv /\ TypeInv'
  BY StepType DEF BalanceInv
<1>a. /\ method \in Methods /\ Len(Code) \in Nat /\ Len(jumpTargets) \in Nat
      /\ il \in 1 .. Len(Code) + 1
      /\ nextJumpTargetIndex \in 0 .. Len(jumpTargets)
      /\ result \in Seq(WasmInstr)
  BY <1>0, CodeFacts, JumpTargetFacts DEF TypeInv, TypeOK
<1>b. ASSUME phase = "body" \/ phase = "switch"
      PROVE  OpenBlocksOf(result, nextJumpTargetIndex)
  BY <1>b DEF BalanceInv
<1>c. ASSUME phase' = "body" \/ phase' = "switch",
             OpenBlocksOf(result, nextJumpTargetIndex)'
      PROVE  BalanceInv'
  BY <1>0, <1>c DEF BalanceInv, BlocksBalanced
<1>1. CASE OpenBlocks
  <2>1. phase = "open" /\ UNCHANGED <<jumpTargets, nextJumpTargetIndex>> /\ nextJumpTargetIndex = 0
    BY <1>1 DEF OpenBlocks, BalanceInv
  <2>2. CASE Code = <<>>
    <3> DEFINE e == <<W("end")>>
    <3>1. result' = e /\ phase' = "done" /\ Len(e) = 1
      BY <1>1, <2>2 DEF OpenBlocks
    <3>2. Nesting(e, 0) = 0 /\ Nesting(e, 1) = -1
      BY NestingAtStart, EmittedOps, SingleNesting DEF Openers
    <3> HIDE DEF e
    <3>3. BlocksBalanced'
      BY <3>1, <3>2 DEF BlocksBalanced
    <3> QED
      BY <1>0, <3>1, <3>3 DEF BalanceInv
  <2>3. CASE Code # <<>>
    <3>1. result' = Prologue(Len(jumpTargets)) /\ phase' = "body"
      BY <1>1, <2>3 DEF OpenBlocks
    <3>2. /\ Above(Prologue(Len(jumpTargets)), 0)
          /\ Depth(Prologue(Len(jumpTargets))) = 1 + Len(jumpTargets)
      BY <1>a, PrologueNesting
    <3>3. Above(result', 0) /\ Depth(result') = 1 + Len(jumpTargets') - nextJumpTargetIndex'
      BY <1>a, <2>1, <3>1, <3>2
    <3> QED
      BY <1>c, <3>1, <3>3 DEF OpenBlocksOf
  <2> QED
    BY <2>2, <2>3
<1>2. CASE CompileStraightInstruction
  <2>1. /\ phase = "body" /\ phase' = "body" /\ UNCHANGED jumpTargets
        /\ il \in 1 .. Len(Code) /\ Code[il].op \in StraightOps
        /\ BeginInstruction(CompileStraight(Code[il]))
    BY <1>2, <1>a DEF CompileStraightInstruction, InBody
  <2>2. CompileStraight(Code[il]) \in Seq(FlatInstr)
    BY <1>a, <2>1, CodeFacts, StraightType
  <2> QED
    BY <1>0, <1>b, <1>c, <2>1, <2>2, BeginInstructionBalance
<1>3. CASE CompileBranch
  <2> DEFINE t    == Code[il].targets[1]
             code == JumpSetup(t, ClosedHere) \o BranchTests[Code[il].op]
                       \o <<WN(BranchOp(Code[il].op), BreakDepth(t, ClosedHere))>>
  <2>1. /\ phase = "body" /\ phase' = "body" /\ UNCHANGED jumpTargets
        /\ il \in 1 .. Len(Code) /\ Code[il].op \in DOMAIN BranchTests
        /\ BeginInstruction(code)
    BY <1>3, <1>a DEF CompileBranch, InBody
  <2>2. Code[il].op \in Branches
    BY <2>1 DEF BranchTests, Branches, ConditionalBranches, UnconditionalBranches
  <2>3. t \in SortedOffsets(Code)
    BY <1>a, <2>1, <2>2, CodeFacts
  <2>4. ClosedHere \in 0 .. Len(jumpTargets)
    BY <1>a DEF ClosedHere, AtTarget
  <2>5. code \in Seq(FlatInstr)
    BY <1>0, <2>1, <2>3, <2>4, BranchCodeType
  <2> HIDE DEF code, t
  <2> QED
    BY <1>0, <1>b, <1>c, <2>1, <2>5, BeginInstructionBalance
<1>4. CASE BeginSwitch
  <2> DEFINE code == <<SetLocal("switchValue", 0)>>
  <2>1. phase = "body" /\ phase' = "switch" /\ UNCHANGED jumpTargets /\ BeginInstruction(code)
    BY <1>4 DEF BeginSwitch, InBody
  <2>2. code \in Seq(FlatInstr)
    BY InstrTypes, EmittedOps
  <2> HIDE DEF code
  <2> QED
    BY <1>0, <1>b, <1>c, <2>1, <2>2, BeginInstructionBalance
<1>5. CASE CompileSwitchItem
  <2> DEFINE t    == Code[il].targets[item + 1]
             test == <<GetLocal("switchValue", 0), Const(item), W("i32.eq")>>
             jump == <<WN("br_if", BreakDepth(t, nextJumpTargetIndex))>>
             code == test \o JumpSetup(t, nextJumpTargetIndex) \o jump
  <2>1. /\ phase = "switch" /\ phase' = "switch" /\ UNCHANGED <<jumpTargets, nextJumpTargetIndex>>
        /\ item < Len(Code[il].targets) /\ result' = result \o code
    BY <1>5 DEF CompileSwitchItem
  <2>2. il \in 1 .. Len(Code) /\ item \in Nat
    BY <1>0, <2>1 DEF TypeInv, TypeOK
  <2>3. Code[il].targets \in Seq(Nat)
    BY <1>a, <2>2, CodeFacts DEF CilInstr
  <2>4. t \in SortedOffsets(Code)
    <3>1. item + 1 \in 1 .. Len(Code[il].targets)
      BY <2>1, <2>2, <2>3
    <3> QED
      BY <1>a, <2>2, <3>1, CodeFacts
  <2>5. JumpSetup(t, nextJumpTargetIndex) \in Seq(FlatInstr) /\ BreakDepth(t, nextJumpTargetIndex) \in Nat
    BY <1>0, <1>a, <2>4, JumpTypes
  <2>6. test \in Seq(FlatInstr)
    BY <2>2, InstrTypes, EmittedOps
  <2>7. jump \in Seq(FlatInstr)
    BY <2>5, InstrTypes, EmittedOps
  <2> HIDE DEF test, jump, t
  <2>8. code \in Seq(FlatInstr)
    BY <2>5, <2>6, <2>7, ConcatProperties
  <2> HIDE DEF code
  <2>9. Above(result, 0) /\ Depth(result) = 1 + Len(jumpTargets) - nextJumpTargetIndex
    BY <1>b, <2>1 DEF OpenBlocksOf
  <2>10. Above(result', 0) /\ Depth(result') = 1 + Len(jumpTargets') - nextJumpTargetIndex'
    BY <1>a, <2>1, <2>8, <2>9, ExtendedByFlat
  <2> QED
    BY <1>c, <2>1, <2>10 DEF OpenBlocksOf
<1>6. CASE EndSwitch
  <2>1. /\ phase = "switch" /\ phase' = "body"
        /\ UNCHANGED <<jumpTargets, nextJumpTargetIndex, result>>
    BY <1>6 DEF EndSwitch
  <2> QED
    BY <1>b, <1>c, <2>1 DEF OpenBlocksOf
<1>7. CASE RejectInstruction
  <2>1. phase' = "failed"
    BY <1>7 DEF RejectInstruction
  <2> QED
    BY <1>0, <2>1 DEF BalanceInv, BlocksBalanced
<1>8. CASE CloseBlocks
  <2> DEFINE n == Len(jumpTargets) - nextJumpTargetIndex
  <2>1. phase = "body" /\ phase' = "done" /\ result' = result \o Epilogue(n, method.returns)
    BY <1>8 DEF CloseBlocks
  <2>2. n \in Nat /\ 1 + Len(jumpTargets) - nextJumpTargetIndex = 1 + n
    BY <1>a
  <2>3. Above(result, 0) /\ Depth(result) = 1 + n
    BY <1>b, <2>1, <2>2 DEF OpenBlocksOf
  <2>4. method.returns \in BOOLEAN
    BY <1>a, MethodsAssumption
  <2> HIDE DEF n
  <2>5. /\ Depth(result') = -1
        /\ \A p \in 0 .. Len(result') - 1 : Nesting(result', p) >= 0
    BY <1>a, <2>1, <2>2, <2>3, <2>4, EpilogueBalance
  <2>6. BlocksBalanced'
    BY <2>5 DEF BlocksBalanced, Depth
  <2> QED
    BY <1>0, <2>1, <2>6 DEF BalanceInv
<1>9. CASE UNCHANGED compilerVars
  <2>1. UNCHANGED <<phase, jumpTargets, nextJumpTargetIndex, result>>
    BY <1>9 DEF compilerVars
  <2> QED
    BY <1>0, <2>1 DEF BalanceInv, BlocksBalanced, OpenBlocksOf
<1> QED
  BY <1>1, <1>2, <1>3, <1>4, <1>5, <1>6, <1>7, <1>8, <1>9 DEF Compile

(* Whatever the body, and wherever its jumps go, every block and loop the  *)
(* compiler opens is closed once, and the last instruction is the one end  *)
(* more that closes the function.                                          *)
THEOREM BlocksBalancedAlways == CompilerSpec => []BlocksBalanced
<1>1. BalanceInv => BlocksBalanced
  BY DEF BalanceInv
<1> QED
  BY <1>1, InitBalance, StepBalance, PTL DEF CompilerSpec
-----------------------------------------------------------------------------
(* What the argument needs of the code, c, and of the places where the     *)
(* code of instructions starts, st, for n targets ts.                      *)

(* The loop and the blocks come first: the block of target k is opened at  *)
(* BlockOf(n, k).  The jump table sees the blocks and one of its own.      *)
BlockOf(n, k) == n + 2 - k

HasPrologue(c, n) ==
  /\ n + 1 <= Len(c)
  /\ c[1].op = "loop" /\ \A q \in 2 .. n + 1 : c[q].op = "block"
  /\ \A r \in 0 .. n + 1 : Nesting(c, r) = r
  /\ n > 0 =>
       /\ n + 5 <= Len(c)
       /\ c[n + 4].n = n
       /\ Nesting(c, n + 2) = n + 2 /\ Nesting(c, n + 3) = n + 2

(* As long as no more than `closed` blocks are closed.                     *)
AtLeastOpen(c, n, closed, last) == \A r \in n + 1 .. last : Nesting(c, r) >= n + 1 - closed

(* The end at q closes the block of target k.                              *)
ClosesTarget(c, n, k, q) ==
  /\ q \in n + 2 .. Len(c)
  /\ c[q].op = "end"
  /\ Nesting(c, q) = n + 1 - k
  /\ AtLeastOpen(c, n, k - 1, q - 1)

(* The blocks of the targets passed end right before their code.           *)
Passed(c, n, ts, st, closed) ==
  \A k \in 1 .. closed : ts[k] \in 1 .. Len(st) /\ ClosesTarget(c, n, k, st[ts[k]] - 1)

(* A branch to target k was compiled when `closed` blocks were closed.     *)
Stored(c, st, j, k) ==
  /\ j.from \in 1 .. Len(st)
  /\ \E s \in 2 .. j.at - 1 :
       /\ st[j.from] + 1 <= s
       /\ c[s - 1] = Const(k) /\ c[s] = SetLocal("jumpTarget", 0)
       /\ \A r \in s + 1 .. j.at : c[r].op # "set_local"

CompiledAt(c, n, st, j, k, closed) ==
  /\ j.at \in n + 2 .. Len(c)
  /\ Nesting(c, j.at - 1) = n + 1 - closed
  /\ AtLeastOpen(c, n, closed, j.at - 1)
  /\ k > closed => c[j.at].n = k - 1 - closed
  /\ k <= closed => c[j.at].n = n - closed /\ Stored(c, st, j, k)

HasTarget(c, n, ts, st, j) ==
  \E k \in 1 .. n, closed \in 0 .. n : ts[k] = j.to /\ CompiledAt(c, n, st, j, k, closed)

Landed(c, n, ts, st, closed, js) ==
  HasPrologue(c, n) /\ Passed(c, n, ts, st, closed) /\ \A j \in js : HasTarget(c, n, ts, st, j)
-----------------------------------------------------------------------------
(* Code and starts that go on as others begin.                             *)
GoesOn(c, e) ==
  /\ Len(c) \in Nat /\ Len(e) \in Nat /\ Len(c) <= Len(e)
  /\ \A q \in 1 .. Len(c) : e[q] = c[q]

(* What is appended changes neither the code before it nor its nesting.    *)
LEMMA AppendedGoesOn ==
  ASSUME NEW c \in Seq(WasmInstr), NEW d \in Seq(WasmInstr)
  PROVE  GoesOn(c, c \o d) /\ \A p \in 0 .. Len(c) : Nesting(c \o d, p) = Nesting(c, p)
<1>1. Len(c) \in Nat /\ Len(d) \in Nat /\ Len(c \o d) = Len(c) + Len(d)
  BY ConcatProperties
<1>2. \A q \in 1 .. Len(c) : (c \o d)[q] = c[q]
  BY ConcatProperties
<1>3. \A p \in 0 .. Len(c) : Nesting(c \o d, p) = Nesting(c, p)
  BY NestingPrefix
<1> QED
  BY <1>1, <1>2, <1>3 DEF GoesOn

(* What holds of code and starts goes on holding.                          *)
LEMMA LandedGoesOn ==
  ASSUME NEW c, NEW e, NEW st, NEW st2, NEW n \in Nat, NEW ts, NEW closed \in 0 .. n, NEW js,
         GoesOn(c, e), GoesOn(st, st2), \A p \in 0 .. Len(c) : Nesting(e, p) = Nesting(c, p),
         \A j \in js : j.at \in Nat,
         Landed(c, n, ts, st, closed, js)
  PROVE  Landed(e, n, ts, st2, closed, js)
<1>1. /\ Len(c) \in Nat /\ Len(e) \in Nat /\ Len(c) <= Len(e)
      /\ \A q \in 1 .. Len(c) : e[q] = c[q]
  BY DEF GoesOn
<1>2. /\ Len(st) \in Nat /\ Len(st2) \in Nat /\ Len(st) <= Len(st2)
      /\ \A q \in 1 .. Len(st) : st2[q] = st[q]
  BY DEF GoesOn
<1>3. HasPrologue(e, n)
  <2>1. HasPrologue(c, n)
    BY DEF Landed
  <2>2. n + 1 <= Len(c) /\ (n > 0 => n + 5 <= Len(c))
    BY <2>1 DEF HasPrologue
  <2>3. e[1] = c[1] /\ \A q \in 2 .. n + 1 : e[q] = c[q]
    BY <1>1, <2>2
  <2>4. \A r \in 0 .. n + 1 : Nesting(e, r) = Nesting(c, r)
    BY <1>1, <2>2
  <2>5. n > 0 => e[n + 4] = c[n + 4] /\ Nesting(e, n + 2) = Nesting(c, n + 2) /\ Nesting(e, n + 3) = Nesting(c, n + 3)
    BY <1>1, <2>2
  <2>6. n + 1 <= Len(e) /\ (n > 0 => n + 5 <= Len(e))
    BY <1>1, <2>2
  <2> QED
    BY <2>1, <2>3, <2>4, <2>5, <2>6 DEF HasPrologue
<1>4. ASSUME NEW last \in Int, last <= Len(c), NEW m
      PROVE  AtLeastOpen(c, n, m, last) => AtLeastOpen(e, n, m, last)
  BY <1>1, <1>4 DEF AtLeastOpen
<1>5. ASSUME NEW k \in 1 .. closed
      PROVE  ts[k] \in 1 .. Len(st2) /\ ClosesTarget(e, n, k, st2[ts[k]] - 1)
  <2> DEFINE q == st[ts[k]] - 1
  <2>1. ts[k] \in 1 .. Len(st) /\ ClosesTarget(c, n, k, q)
    BY DEF Landed, Passed
  <2>2. ts[k] \in 1 .. Len(st2) /\ st2[ts[k]] - 1 = q
    BY <1>2, <2>1
  <2> HIDE DEF q
  <2>3. /\ q \in n + 2 .. Len(c) /\ c[q].op = "end"
        /\ Nesting(c, q) = n + 1 - k /\ AtLeastOpen(c, n, k - 1, q - 1)
    BY <2>1 DEF ClosesTarget
  <2>4. q \in n + 2 .. Len(e) /\ e[q] = c[q] /\ Nesting(e, q) = Nesting(c, q)
    BY <1>1, <2>3
  <2>5. AtLeastOpen(e, n, k - 1, q - 1)
    BY <1>1, <1>4, <2>3
  <2> QED
    BY <2>2, <2>3, <2>4, <2>5 DEF ClosesTarget
<1>6. ASSUME NEW j \in js PROVE HasTarget(e, n, ts, st2, j)
  <2>1. PICK k \in 1 .. n, m \in 0 .. n : ts[k] = j.to /\ CompiledAt(c, n, st, j, k, m)
    BY DEF Landed, HasTarget
  <2>2. /\ j.at \in n + 2 .. Len(c) /\ Nesting(c, j.at - 1) = n + 1 - m
        /\ AtLeastOpen(c, n, m, j.at - 1)
        /\ k > m => c[j.at].n = k - 1 - m
        /\ k <= m => c[j.at].n = n - m /\ Stored(c, st, j, k)
    BY <2>1 DEF CompiledAt
  <2>3. j.at \in n + 2 .. Len(e) /\ e[j.at] = c[j.at] /\ Nesting(e, j.at - 1) = Nesting(c, j.at - 1)
    <3>1. /\ Len(c) \in Nat /\ Len(e) \in Nat /\ Len(c) <= Len(e)
          /\ j.at \in n + 2 .. Len(c)
      BY <1>1, <2>2
    <3>2. j.at \in n + 2 .. Len(e) /\ j.at \in 1 .. Len(c) /\ j.at - 1 \in 0 .. Len(c)
      BY <3>1
    <3> QED
      BY <1>1, <3>2
  <2>4. AtLeastOpen(e, n, m, j.at - 1)
    BY <1>1, <1>4, <2>2
  <2>5. ASSUME k <= m PROVE Stored(e, st2, j, k)
    <3>1. j.from \in 1 .. Len(st)
      BY <2>2, <2>5 DEF Stored
    <3>2. PICK s \in 2 .. j.at - 1 :
            /\ st[j.from] + 1 <= s
            /\ c[s - 1] = Const(k) /\ c[s] = SetLocal("jumpTarget", 0)
            /\ \A r \in s + 1 .. j.at : c[r].op # "set_local"
      BY <2>2, <2>5 DEF Stored
    <3>3. j.from \in 1 .. Len(st2) /\ st2[j.from] = st[j.from]
      BY <1>2, <3>1
    <3>4. e[s - 1] = c[s - 1] /\ e[s] = c[s] /\ \A r \in s + 1 .. j.at : e[r] = c[r]
      <4>1. s - 1 \in 1 .. Len(c) /\ s \in 1 .. Len(c)
        BY <1>1, <2>2
      <4>2. \A r \in s + 1 .. j.at : r \in 1 .. Len(c)
        BY <1>1, <2>2
      <4> QED
        BY <1>1, <4>1, <4>2
    <3> QED
      BY <3>2, <3>3, <3>4 DEF Stored
  <2>6. CompiledAt(e, n, st2, j, k, m)
    BY <2>2, <2>3, <2>4, <2>5 DEF CompiledAt
  <2> QED
    BY <2>1, <2>6 DEF HasTarget
<1> QED
  BY <1>3, <1>5, <1>6 DEF Landed, Passed
-----------------------------------------------------------------------------
(* The head of the function is as HasPrologue says, and never has fewer    *)
(* than the loop and the blocks open behind them.                          *)
LEMMA PrologueHolds ==
  ASSUME NEW n \in Nat
  PROVE  HasPrologue(Prologue(n), n) /\ AtLeastOpen(Prologue(n), n, 0, Len(Prologue(n)))
<1> DEFINE c == Prologue(n)
           l == <<W("loop")>>
           b == [k \in 1 .. n |-> W("block")]
           h == l \o b
           t == JumpTable(n)
<1>1. l \in Seq(WasmInstr) /\ Len(l) = 1 /\ b \in Seq(WasmInstr) /\ Len(b) = n
  BY InstrTypes, EmittedOps
<1>2. t \in Seq(WasmInstr)
  BY JumpTableNesting
<1>3. W("loop").op = "loop" /\ W("block").op = "block" /\ W("end").op = "end"
  BY DEF W
<1>4. l[1] = W("loop") /\ \A k \in 1 .. n : b[k] = W("block")
  OBVIOUS
<1>5. c = h \o t
  BY DEF Prologue
<1> HIDE DEF c, l, b, t
<1>6. /\ h \in Seq(WasmInstr) /\ Len(h) = n + 1
      /\ h[1].op = "loop" /\ \A q \in 2 .. n + 1 : h[q].op = "block"
  <2>0. /\ h \in Seq(WasmInstr) /\ Len(h) = Len(l) + Len(b)
        /\ \A q \in 1 .. Len(l) + Len(b) : h[q] = IF q <= Len(l) THEN l[q] ELSE b[q - Len(l)]
    BY <1>1, ConcatProperties
  <2> HIDE DEF h
  <2>1. h \in Seq(WasmInstr) /\ Len(h) = n + 1
    BY <1>1, <2>0
  <2>2. \A q \in 1 .. 1 + n : h[q] = IF q <= 1 THEN l[q] ELSE b[q - 1]
    BY <1>1, <2>0
  <2>3. h[1] = W("loop")
    <3>1. 1 \in 1 .. 1 + n /\ 1 <= 1
      OBVIOUS
    <3> QED
      BY <1>4, <2>2, <3>1
  <2>4. ASSUME NEW q \in 2 .. n + 1 PROVE h[q] = W("block")
    <3>1. q \in 1 .. 1 + n /\ ~(q <= 1) /\ q - 1 \in 1 .. n
      OBVIOUS
    <3> QED
      BY <1>4, <2>2, <3>1
  <2> QED
    BY <1>3, <2>1, <2>3, <2>4
<1> HIDE DEF h
<1>7. /\ Len(c) = n + 1 + Len(t) /\ Len(t) \in Nat
      /\ \A q \in 1 .. n + 1 : c[q] = h[q]
      /\ \A q \in 1 .. Len(t) : c[n + 1 + q] = t[q]
  <2>0. Len(t) \in Nat
    BY <1>2
  <2>1. Len(c) = Len(h) + Len(t) /\ Len(t) \in Nat
    BY <1>2, <1>5, <1>6, <2>0, ConcatProperties
  <2>2. \A q \in 1 .. Len(h) + Len(t) : c[q] = IF q <= Len(h) THEN h[q] ELSE t[q - Len(h)]
    BY <1>2, <1>5, <1>6, ConcatProperties
  <2>3. ASSUME NEW q \in 1 .. Len(t) PROVE c[n + 1 + q] = t[q]
    <3>1. n + 1 + q \in 1 .. Len(h) + Len(t) /\ ~(n + 1 + q <= Len(h)) /\ n + 1 + q - Len(h) = q
      BY <1>6, <2>1
    <3> QED
      BY <2>2, <3>1
  <2>4. ASSUME NEW q \in 1 .. n + 1 PROVE c[q] = h[q]
    <3>1. q \in 1 .. Len(h) + Len(t) /\ q <= Len(h)
      BY <1>6, <2>1
    <3> QED
      BY <2>2, <3>1
  <2> QED
    BY <1>6, <2>1, <2>3, <2>4
<1>8. c[1].op = "loop" /\ \A q \in 2 .. n + 1 : c[q].op = "block"
  BY <1>6, <1>7
<1>9. \A q \in 1 .. n + 1 : c[q].op \in Openers /\ c[q].op # "end"
  <2>1. \A q \in 1 .. n + 1 : q = 1 \/ q \in 2 .. n + 1
    OBVIOUS
  <2> QED
    BY <1>8, <2>1 DEF Openers
<1>10. ASSUME NEW r \in 0 .. n + 1 PROVE Nesting(c, r) = r
  <2>1. Opened(c, r) = 1 .. r /\ Ended(c, r) = {}
    BY <1>9 DEF Opened, Ended
  <2>2. Cardinality(1 .. r) = r /\ Cardinality({}) = 0
    BY FS_Interval, FS_EmptySet
  <2> QED
    BY <2>1, <2>2 DEF Nesting
<1>11. CASE n = 0
  <2>1. Len(c) = 1
    <3>1. t = <<>>
      BY <1>11 DEF JumpTable, t
    <3> QED
      BY <1>7, <1>11, <3>1
  <2>2. HasPrologue(c, n)
    BY <1>7, <1>8, <1>10, <1>11 DEF HasPrologue
  <2>3. AtLeastOpen(c, n, 0, Len(c))
    BY <1>10, <1>11, <2>1 DEF AtLeastOpen
  <2> QED
    BY <2>2, <2>3 DEF c
<1>12. CASE n # 0
  <2>1. /\ Len(t) = 4 /\ t[1] = W("block") /\ t[2] = GetLocal("jumpTarget", 0)
        /\ t[3] = WN("br_table", n) /\ t[4] = W("end")
    BY <1>12 DEF JumpTable, t
  <2>2. /\ Len(c) = n + 5 /\ c[n + 2] = W("block") /\ c[n + 3] = GetLocal("jumpTarget", 0)
        /\ c[n + 4] = WN("br_table", n) /\ c[n + 5] = W("end")
    <3>1. /\ n + 1 + 1 = n + 2 /\ n + 1 + 2 = n + 3 /\ n + 1 + 3 = n + 4 /\ n + 1 + 4 = n + 5
          /\ 1 \in 1 .. Len(t) /\ 2 \in 1 .. Len(t) /\ 3 \in 1 .. Len(t) /\ 4 \in 1 .. Len(t)
      BY <2>1
    <3>2. /\ c[n + 1 + 1] = t[1] /\ c[n + 1 + 2] = t[2]
          /\ c[n + 1 + 3] = t[3] /\ c[n + 1 + 4] = t[4]
      BY <1>7, <3>1
    <3> QED
      BY <1>7, <2>1, <3>1, <3>2
  <2>a. WN("br_table", n).n = n /\ WN("br_table", n).op = "br_table"
        /\ GetLocal("jumpTarget", 0).op = "get_local"
    BY DEF WN, GetLocal
  <2>3. c[n + 4].n = n
    BY <2>2, <2>a
  <2>4. /\ c[n + 2].op = "block" /\ c[n + 3].op = "get_local"
        /\ c[n + 4].op = "br_table" /\ c[n + 5].op = "end"
    BY <1>3, <2>2, <2>a
  <2>5. \A q \in 1 .. n + 5 : q \in 1 .. n + 1 \/ q = n + 2 \/ q = n + 3 \/ q = n + 4 \/ q = n + 5
    OBVIOUS
  <2>6. /\ \A q \in 1 .. n + 2 : c[q].op \in Openers
        /\ c[n + 3].op \notin Openers /\ c[n + 4].op \notin Openers /\ c[n + 5].op \notin Openers
        /\ \A q \in 1 .. n + 4 : c[q].op # "end"
    BY <1>9, <2>4, <2>5 DEF Openers
  <2>7. Cardinality(1 .. n + 2) = n + 2 /\ Cardinality({}) = 0 /\ Cardinality({n + 5}) = 1
    <3>1. Cardinality(1 .. n + 2) = n + 2
      BY FS_Interval
    <3> QED
      BY <3>1, FS_EmptySet, FS_Singleton
  <2>8. ASSUME NEW r \in n + 2 .. n + 5 PROVE Opened(c, r) = 1 .. n + 2
    BY <2>6 DEF Opened
  <2>9. \A r \in n + 2 .. n + 4 : Ended(c, r) = {}
    BY <2>6 DEF Ended
  <2>10. Ended(c, n + 5) = {n + 5}
    BY <2>4, <2>5, <2>6 DEF Ended
  <2>11. ASSUME NEW r \in n + 2 .. n + 4 PROVE Nesting(c, r) = n + 2
    <3>1. r \in n + 2 .. n + 5
      OBVIOUS
    <3>2. Opened(c, r) = 1 .. n + 2 /\ Ended(c, r) = {}
      BY <2>8, <2>9, <3>1
    <3> QED
      BY <2>7, <3>2 DEF Nesting
  <2>12. Nesting(c, n + 5) = n + 1
    <3>1. n + 5 \in n + 2 .. n + 5
      OBVIOUS
    <3>2. Nesting(c, n + 5) = (n + 2) - 1
      BY <2>7, <2>8, <2>10, <3>1 DEF Nesting
    <3> QED
      BY <3>2
  <2>13. HasPrologue(c, n)
    <3>1. Nesting(c, n + 2) = n + 2 /\ Nesting(c, n + 3) = n + 2
      BY <2>11
    <3>2. n + 1 <= Len(c) /\ n + 5 <= Len(c)
      BY <2>2
    <3> QED
      BY <1>8, <1>10, <2>3, <3>1, <3>2 DEF HasPrologue
  <2>14. ASSUME NEW r \in n + 1 .. n + 5 PROVE Nesting(c, r) >= n + 1 - 0
    <3>1. r = n + 1 \/ r \in n + 2 .. n + 4 \/ r = n + 5
      OBVIOUS
    <3> QED
      BY <1>10, <2>11, <2>12, <3>1
  <2>15. AtLeastOpen(c, n, 0, Len(c))
    BY <2>2, <2>14 DEF AtLeastOpen
  <2> QED
    BY <2>13, <2>15 DEF c
<1> QED
  BY <1>11, <1>12
-----------------------------------------------------------------------------
(* Where the instructions of two pieces of code are when they are joined.  *)
LEMMA Joined ==
  ASSUME NEW S, NEW s \in Seq(S), NEW t \in Seq(S)
  PROVE  /\ s \o t \in Seq(S)
         /\ Len(s) \in Nat /\ Len(t) \in Nat /\ Len(s \o t) = Len(s) + Len(t)
         /\ \A q \in 1 .. Len(s) : (s \o t)[q] = s[q]
         /\ \A q \in 1 .. Len(t) : (s \o t)[Len(s) + q] = t[q]
<1> DEFINE c == s \o t
<1>1. Len(s) \in Nat /\ Len(t) \in Nat
  OBVIOUS
<1>2. /\ c \in Seq(S) /\ Len(c) = Len(s) + Len(t)
      /\ \A q \in 1 .. Len(s) + Len(t) : c[q] = IF q <= Len(s) THEN s[q] ELSE t[q - Len(s)]
  BY ConcatProperties
<1> HIDE DEF c
<1>3. ASSUME NEW q \in 1 .. Len(s) PROVE c[q] = s[q]
  <2>1. q \in 1 .. Len(s) + Len(t) /\ q <= Len(s)
    BY <1>1
  <2> QED
    BY <1>2, <2>1
<1>4. ASSUME NEW q \in 1 .. Len(t) PROVE c[Len(s) + q] = t[q]
  <2>1. Len(s) + q \in 1 .. Len(s) + Len(t) /\ ~(Len(s) + q <= Len(s)) /\ Len(s) + q - Len(s) = q
    BY <1>1
  <2> QED
    BY <1>2, <2>1
<1> QED
  BY <1>1, <1>2, <1>3, <1>4 DEF c

(* The code of a branch: the depth comes last, and in front of it, unless  *)
(* the jump is forward, the number of the target for jumpTarget.           *)
JumpCode(code, t, closed) ==
  /\ code \in Seq(FlatInstr) /\ Len(code) \in Nat \ {0}
  /\ code[Len(code)].n = BreakDepth(t, closed)
  /\ ~IsForward(t, closed) =>
       \E p \in 2 .. Len(code) :
         /\ code[p - 1] = Const(TargetIndex(t) + 1) /\ code[p] = SetLocal("jumpTarget", 0)
         /\ \A r \in p + 1 .. Len(code) : code[r].op # "set_local"
         /\ p # Len(code)

(* A piece in front, the number, a piece behind and the branch make such   *)
(* code, if the piece behind touches no local.                             *)
LEMMA JumpCodeMade ==
  ASSUME TypeInv, NEW t \in SortedOffsets(Code), NEW closed \in 0 .. Len(jumpTargets),
         NEW before \in Seq(FlatInstr), NEW after \in Seq(FlatInstr),
         \A r \in 1 .. Len(after) : after[r].op # "set_local",
         NEW op \in {"br", "br_if"}
  PROVE  JumpCode(((before \o JumpSetup(t, closed)) \o after) \o <<WN(op, BreakDepth(t, closed))>>,
                  t, closed)
<1> DEFINE setup == JumpSetup(t, closed)
           depth == BreakDepth(t, closed)
           last  == <<WN(op, depth)>>
           one   == before \o setup
           two   == one \o after
           code  == two \o last
<1>1. setup \in Seq(FlatInstr) /\ depth \in Nat
  BY JumpTypes
<1>2. WN(op, depth).n = depth /\ WN(op, depth).op # "set_local"
  BY DEF WN
<1>3. last \in Seq(FlatInstr) /\ Len(last) = 1 /\ last[1] = WN(op, depth)
  BY <1>1, InstrTypes, EmittedOps
<1>4. Len(before) \in Nat /\ Len(after) \in Nat /\ Len(setup) \in Nat
  BY <1>1
<1>5. ~IsForward(t, closed) =>
        /\ Len(setup) = 2 /\ setup[1] = Const(TargetIndex(t) + 1) /\ setup[2] = SetLocal("jumpTarget", 0)
  BY DEF JumpSetup
<1> HIDE DEF setup, depth, last
<1>6. /\ one \in Seq(FlatInstr) /\ Len(one) = Len(before) + Len(setup)
      /\ \A q \in 1 .. Len(setup) : one[Len(before) + q] = setup[q]
  BY <1>1, Joined
<1> HIDE DEF one
<1>a. one \in Seq(FlatInstr)
  BY <1>6
<1>7. /\ two \in Seq(FlatInstr) /\ Len(two) = Len(one) + Len(after)
      /\ \A q \in 1 .. Len(one) : two[q] = one[q]
      /\ \A q \in 1 .. Len(after) : two[Len(one) + q] = after[q]
  BY <1>a, Joined
<1> HIDE DEF two
<1>b. two \in Seq(FlatInstr) /\ last \in Seq(FlatInstr)
  BY <1>3, <1>7
<1>8. /\ code \in Seq(FlatInstr) /\ Len(code) = Len(two) + Len(last)
      /\ \A q \in 1 .. Len(two) : code[q] = two[q]
      /\ \A q \in 1 .. Len(last) : code[Len(two) + q] = last[q]
  BY <1>b, Joined
<1> HIDE DEF code
<1>9. /\ Len(one) \in Nat /\ Len(two) \in Nat /\ Len(code) \in Nat \ {0}
      /\ Len(code) = Len(two) + 1
  BY <1>3, <1>4, <1>6, <1>7, <1>8
<1>10. code[Len(code)] = WN(op, depth)
  <2>1. 1 \in 1 .. Len(last)
    BY <1>3
  <2> QED
    BY <1>3, <1>8, <1>9, <2>1
<1>11. ASSUME ~IsForward(t, closed)
       PROVE  \E p \in 2 .. Len(code) :
                /\ code[p - 1] = Const(TargetIndex(t) + 1) /\ code[p] = SetLocal("jumpTarget", 0)
                /\ \A r \in p + 1 .. Len(code) : code[r].op # "set_local"
                /\ p # Len(code)
  <2> DEFINE p == Len(one)
  <2>1. Len(setup) = 2 /\ setup[1] = Const(TargetIndex(t) + 1) /\ setup[2] = SetLocal("jumpTarget", 0)
    BY <1>5, <1>11
  <2>2. p = Len(before) + 2 /\ p \in 2 .. Len(code) /\ p # Len(code)
    BY <1>4, <1>6, <1>7, <1>9, <2>1
  <2>3. one[p - 1] = setup[1] /\ one[p] = setup[2]
    <3>1. p - 1 = Len(before) + 1 /\ 1 \in 1 .. Len(setup) /\ 2 \in 1 .. Len(setup)
      BY <1>4, <2>1, <2>2
    <3> QED
      BY <1>6, <2>2, <3>1
  <2>4. ASSUME NEW q \in {p - 1, p} PROVE code[q] = one[q]
    <3>1. q \in 1 .. Len(one) /\ q \in 1 .. Len(two)
      BY <1>4, <1>7, <1>9, <2>2
    <3> QED
      BY <1>7, <1>8, <3>1
  <2>5. ASSUME NEW r \in p + 1 .. Len(code) PROVE code[r].op # "set_local"
    <3>1. CASE r = Len(code)
      BY <1>2, <1>10, <3>1
    <3>2. CASE r # Len(code)
      <4>1. Len(two) = Len(one) + Len(after) /\ r \in Len(one) + 1 .. Len(two)
        BY <1>7, <1>9, <3>2
      <4>1a. r - Len(one) \in 1 .. Len(after) /\ r = Len(one) + (r - Len(one)) /\ r \in 1 .. Len(two)
        BY <1>4, <1>9, <4>1
      <4>2. code[r] = after[r - Len(one)]
        BY <1>7, <1>8, <4>1a
      <4> QED
        BY <4>1a, <4>2
    <3> QED
      BY <3>1, <3>2
  <2>6. code[p - 1] = Const(TargetIndex(t) + 1) /\ code[p] = SetLocal("jumpTarget", 0)
    BY <2>1, <2>3, <2>4
  <2> HIDE DEF p
  <2> QED
    BY <2>2, <2>5, <2>6
<1>12. code[Len(code)].n = BreakDepth(t, closed)
  BY <1>2, <1>10 DEF depth
<1>13. JumpCode(code, t, closed)
  BY <1>8, <1>9, <1>11, <1>12 DEF JumpCode
<1> QED
  BY <1>13 DEF code, two, one, last, setup, depth

(* The branch opcodes' code is such code.                                  *)
LEMMA BranchIsJumpCode ==
  ASSUME TypeInv, NEW t \in SortedOffsets(Code), NEW closed \in 0 .. Len(jumpTargets),
         NEW op \in DOMAIN BranchTests
  PROVE  JumpCode(JumpSetup(t, closed) \o BranchTests[op] \o <<WN(BranchOp(op), BreakDepth(t, closed))>>,
                  t, closed)
<1> DEFINE test  == BranchTests[op]
           setup == JumpSetup(t, closed)
<1>1. \/ test = <<>>
      \/ test = <<Const(1), W("i32.sub")>>
      \/ \E name \in {"i32.eq", "i32.gt_s", "i32.lt_s", "i32.le_s"} : test = <<W(name)>>
  BY DEF BranchTests
<1>2. test \in Seq(FlatInstr) /\ \A r \in 1 .. Len(test) : test[r].op # "set_local"
  <2>1. CASE test = <<>>
    BY <2>1
  <2>2. CASE test = <<Const(1), W("i32.sub")>>
    <3>1. Const(1).op # "set_local" /\ W("i32.sub").op # "set_local"
      BY DEF Const, WN, W
    <3>2. test \in Seq(FlatInstr) /\ Len(test) = 2 /\ test[1] = Const(1) /\ test[2] = W("i32.sub")
      BY <2>2, InstrTypes, EmittedOps
    <3> HIDE DEF test
    <3>3. \A r \in 1 .. 2 : r = 1 \/ r = 2
      OBVIOUS
    <3> QED
      BY <3>1, <3>2, <3>3
  <2>3. ASSUME NEW name \in {"i32.eq", "i32.gt_s", "i32.lt_s", "i32.le_s"}, test = <<W(name)>>
        PROVE  test \in Seq(FlatInstr) /\ \A r \in 1 .. Len(test) : test[r].op # "set_local"
    <3>1. W(name).op # "set_local"
      BY DEF W
    <3>2. test \in Seq(FlatInstr) /\ Len(test) = 1 /\ test[1] = W(name)
      BY <2>3, InstrTypes, EmittedOps
    <3> HIDE DEF test
    <3> QED
      BY <3>1, <3>2
  <2> HIDE DEF test
  <2> QED
    BY <1>1, <2>1, <2>2, <2>3
<1>3. setup \in Seq(FlatInstr) /\ <<>> \in Seq(FlatInstr)
  BY JumpTypes
<1>4. BranchOp(op) \in {"br", "br_if"}
  BY DEF BranchOp
<1> HIDE DEF test
<1>5. JumpCode(((<<>> \o setup) \o test) \o <<WN(BranchOp(op), BreakDepth(t, closed))>>, t, closed)
  BY <1>2, <1>3, <1>4, JumpCodeMade
<1>6. <<>> \o setup = setup
  BY <1>3, ConcatEmptySeq
<1> HIDE DEF setup
<1>7. JumpCode((setup \o test) \o <<WN(BranchOp(op), BreakDepth(t, closed))>>, t, closed)
  BY <1>5, <1>6
<1> QED
  BY <1>7 DEF test, setup

(* So is the code of one target of a switch.                               *)
LEMMA ItemIsJumpCode ==
  ASSUME TypeInv, NEW t \in SortedOffsets(Code), NEW closed \in 0 .. Len(jumpTargets), NEW i \in Nat
  PROVE  JumpCode(<<GetLocal("switchValue", 0), Const(i), W("i32.eq")>> \o JumpSetup(t, closed)
                    \o <<WN("br_if", BreakDepth(t, closed))>>, t, closed)
<1> DEFINE test  == <<GetLocal("switchValue", 0), Const(i), W("i32.eq")>>
           setup == JumpSetup(t, closed)
           last  == <<WN("br_if", BreakDepth(t, closed))>>
<1>1. test \in Seq(FlatInstr)
  BY InstrTypes, EmittedOps
<1>2. setup \in Seq(FlatInstr) /\ <<>> \in Seq(FlatInstr)
  BY JumpTypes
<1> HIDE DEF test
<1>3. JumpCode(((test \o setup) \o <<>>) \o last, t, closed)
  <2>1. \A r \in 1 .. Len(<<>>) : <<>>[r].op # "set_local"
    OBVIOUS
  <2> QED
    BY <1>1, <1>2, <2>1, JumpCodeMade
<1> HIDE DEF setup, last
<1>4. test \o setup \in Seq(FlatInstr)
  BY <1>1, <1>2, ConcatProperties
<1>5. (test \o setup) \o <<>> = test \o setup
  BY <1>4, ConcatEmptySeq
<1>6. JumpCode((test \o setup) \o last, t, closed)
  BY <1>3, <1>5
<1> QED
  BY <1>6 DEF test, setup, last

(* Appended to code with the right blocks open, it is a branch to its      *)
(* target.                                                                 *)
LEMMA JumpLands ==
  ASSUME TypeInv, NEW t \in SortedOffsets(Code), NEW closed \in 0 .. Len(jumpTargets),
         NEW c \in Seq(WasmInstr), Len(jumpTargets) + 1 <= Len(c),
         Depth(c) = Len(jumpTargets) + 1 - closed,
         AtLeastOpen(c, Len(jumpTargets), closed, Len(c)),
         NEW code, JumpCode(code, t, closed),
         NEW st, NEW from \in 1 .. Len(st), st[from] \in Nat, st[from] <= Len(c) + 1,
         NEW at, at = Len(c) + Len(code)
  PROVE  HasTarget(c \o code, Len(jumpTargets), jumpTargets, st, [at |-> at, from |-> from, to |-> t])
<1> DEFINE n == Len(jumpTargets)
           k == TargetIndex(t) + 1
           j == [at |-> at, from |-> from, to |-> t]
           e == c \o code
<1>1. n \in Nat /\ k \in 1 .. n /\ jumpTargets[k] = t
  <2>1. n \in Nat /\ TargetIndex(t) \in 0 .. n - 1 /\ jumpTargets[k] = t
    <3>1. Len(jumpTargets) \in Nat
      BY JumpTargetFacts
    <3>2. TargetIndex(t) \in 0 .. Len(jumpTargets) - 1 /\ jumpTargets[TargetIndex(t) + 1] = t
      BY JumpTargetFacts
    <3> QED
      BY <3>1, <3>2
  <2>2. k \in 1 .. n
    BY <2>1
  <2> QED
    BY <2>1, <2>2
<1>2. /\ code \in Seq(FlatInstr) /\ Len(code) \in Nat \ {0} /\ code \in Seq(WasmInstr)
      /\ code[Len(code)].n = BreakDepth(t, closed)
  BY FlatIsCode DEF JumpCode
<1>3. Len(c) \in Nat
  OBVIOUS
<1>4. /\ Len(e) = Len(c) + Len(code)
      /\ \A q \in 1 .. Len(c) + Len(code) : e[q] = IF q <= Len(c) THEN c[q] ELSE code[q - Len(c)]
  BY <1>2, ConcatProperties
<1>5. \A p \in 0 .. Len(code) : Nesting(e, Len(c) + p) = n + 1 - closed
  <2>1. ASSUME NEW p \in 0 .. Len(code) PROVE Nesting(e, Len(c) + p) = n + 1 - closed
    <3>1. Nesting(e, Len(c) + p) = Depth(c) + Nesting(code, p)
      BY <1>2, NestingAppended DEF Depth
    <3>2. Nesting(code, p) = 0
      BY <1>2, FlatNesting
    <3> QED
      BY <1>1, <3>1, <3>2
  <2> QED
    BY <2>1
<1>6. \A p \in 0 .. Len(c) : Nesting(e, p) = Nesting(c, p)
  BY <1>2, NestingPrefix
<1>7. \A q \in 1 .. Len(code) : e[Len(c) + q] = code[q]
  <2>1. ASSUME NEW q \in 1 .. Len(code) PROVE e[Len(c) + q] = code[q]
    <3>1. Len(c) + q \in 1 .. Len(c) + Len(code) /\ ~(Len(c) + q <= Len(c)) /\ Len(c) + q - Len(c) = q
      BY <1>2, <1>3
    <3> QED
      BY <1>4, <3>1
  <2> QED
    BY <2>1
<1> HIDE DEF e
<1>8. j.at = at /\ j.from = from /\ j.to = t
  OBVIOUS
<1> HIDE DEF j
<1>9. at \in n + 2 .. Len(e)
  BY <1>1, <1>2, <1>3, <1>4
<1>10. Nesting(e, at - 1) = n + 1 - closed
  <2>1. Len(code) - 1 \in 0 .. Len(code) /\ at - 1 = Len(c) + (Len(code) - 1)
    BY <1>2, <1>3
  <2> QED
    BY <1>5, <2>1
<1>11. AtLeastOpen(e, n, closed, at - 1)
  <2>1. ASSUME NEW r \in n + 1 .. at - 1 PROVE Nesting(e, r) >= n + 1 - closed
    <3>1. CASE r <= Len(c)
      <4>1. r \in n + 1 .. Len(c) /\ r \in 0 .. Len(c)
        BY <1>1, <1>3, <3>1
      <4> QED
        BY <1>6, <4>1 DEF AtLeastOpen
    <3>2. CASE ~(r <= Len(c))
      <4>1. r - Len(c) \in 0 .. Len(code) /\ r = Len(c) + (r - Len(c))
        BY <1>1, <1>2, <1>3, <3>2
      <4>2. Nesting(e, r) = n + 1 - closed
        BY <1>5, <4>1
      <4> QED
        BY <1>1, <4>2
    <3> QED
      BY <3>1, <3>2
  <2> QED
    BY <2>1 DEF AtLeastOpen
<1>12. e[at].n = BreakDepth(t, closed)
  BY <1>2, <1>7
<1>13. /\ IsForward(t, closed) <=> k > closed
       /\ k > closed => BreakDepth(t, closed) = k - 1 - closed
       /\ k <= closed => BreakDepth(t, closed) = n - closed
  <2>1. TargetIndex(t) \in 0 .. n - 1 /\ k = TargetIndex(t) + 1
    BY JumpTargetFacts
  <2> HIDE DEF k
  <2>2. IsForward(t, closed) <=> k > closed
    BY <1>1, <2>1 DEF IsForward
  <2>3. TargetIndex(t) - closed = k - 1 - closed
    BY <1>1, <2>1
  <2>4. k <= closed => ~(k > closed)
    BY <1>1
  <2> QED
    BY <2>2, <2>3, <2>4 DEF BreakDepth
<1>14. ASSUME k > closed PROVE e[at].n = k - 1 - closed
  BY <1>12, <1>13, <1>14
<1>15. ASSUME k <= closed PROVE e[at].n = n - closed /\ Stored(e, st, j, k)
  <2>1. ~IsForward(t, closed)
    BY <1>1, <1>13, <1>15
  <2>2. e[at].n = n - closed
    BY <1>12, <1>13, <1>15
  <2>3. PICK p \in 2 .. Len(code) :
          /\ code[p - 1] = Const(k) /\ code[p] = SetLocal("jumpTarget", 0)
          /\ \A r \in p + 1 .. Len(code) : code[r].op # "set_local"
          /\ p # Len(code)
    BY <2>1 DEF JumpCode
  <2> DEFINE s == Len(c) + p
  <2>4. s \in 2 .. at - 1 /\ st[from] + 1 <= s
    <3>1. p \in 2 .. Len(code) - 1 /\ Len(code) \in Nat
      BY <1>2, <2>3
    <3>2. s \in 2 .. at - 1
      BY <1>3, <3>1
    <3>3. Len(c) + 2 <= s /\ s \in Nat /\ st[from] + 1 <= Len(c) + 2
      BY <1>3, <3>1
    <3> HIDE DEF s
    <3>4. st[from] + 1 <= s
      BY <1>3, <3>3
    <3> QED
      BY <3>2, <3>4
  <2>5. e[s - 1] = Const(k) /\ e[s] = SetLocal("jumpTarget", 0)
    <3>1. p - 1 \in 1 .. Len(code) /\ p \in 1 .. Len(code) /\ s - 1 = Len(c) + (p - 1)
      BY <1>2, <1>3
    <3> QED
      BY <1>7, <2>3, <3>1
  <2>6. ASSUME NEW r \in s + 1 .. at PROVE e[r].op # "set_local"
    <3>1. r - Len(c) \in p + 1 .. Len(code) /\ r - Len(c) \in 1 .. Len(code) /\ r = Len(c) + (r - Len(c))
      BY <1>2, <1>3
    <3>2. e[r] = code[r - Len(c)]
      BY <1>7, <3>1
    <3> QED
      BY <2>3, <3>1, <3>2
  <2> HIDE DEF s
  <2>7. Stored(e, st, j, k)
    BY <1>8, <2>4, <2>5, <2>6 DEF Stored
  <2> QED
    BY <2>2, <2>7
<1> HIDE DEF k
<1>16. CompiledAt(e, n, st, j, k, closed)
  BY <1>8, <1>9, <1>10, <1>11, <1>14, <1>15 DEF CompiledAt
<1>17. HasTarget(e, n, jumpTargets, st, j)
  BY <1>1, <1>8, <1>16 DEF HasTarget
<1> QED
  BY <1>17 DEF e, j
-----------------------------------------------------------------------------
(* The end in front of the code of target k closes its block.              *)
LEMMA BlockCloses ==
  ASSUME TypeInv, NEW n, n = Len(jumpTargets), NEW k \in 1 .. n,
         HasPrologue(result, n), ClosesTarget(result, n, k, start[jumpTargets[k]] - 1)
  PROVE  LET m == BlockOf(n, k)
         IN  /\ m \in 2 .. n + 1 /\ m = n + 2 - k /\ result[m].op = "block" /\ Nesting(result, m) = m
             /\ ClosedBy(result, m, start[jumpTargets[k]] - 1)
             /\ \A last \in Int : AtLeastOpen(result, n, k - 1, last) =>
                  \A r \in m .. last : Nesting(result, r) >= Nesting(result, m)
<1> DEFINE m == BlockOf(n, k)
           q == start[jumpTargets[k]] - 1
<1>1. n \in Nat
  BY JumpTargetFacts
<1>2. m \in 2 .. n + 1 /\ m = n + 2 - k /\ m \in 0 .. n + 1
  BY <1>1 DEF BlockOf
<1>3. /\ q \in n + 2 .. Len(result) /\ result[q].op = "end" /\ Nesting(result, q) = n + 1 - k
      /\ AtLeastOpen(result, n, k - 1, q - 1)
  BY DEF ClosesTarget
<1> HIDE DEF m, q
<1>4. result[m].op = "block" /\ \A r \in 0 .. n + 1 : Nesting(result, r) = r
  BY <1>2 DEF HasPrologue
<1>5. ASSUME NEW last \in Int, AtLeastOpen(result, n, k - 1, last), NEW r \in m .. last
      PROVE  Nesting(result, r) >= Nesting(result, m)
  <2>1. CASE r <= n + 1
    <3>1. r \in 0 .. n + 1 /\ r >= m
      BY <1>1, <1>2, <2>1
    <3> QED
      BY <1>2, <1>4, <3>1
  <2>2. CASE ~(r <= n + 1)
    <3>1. r \in n + 1 .. last
      BY <1>1, <1>2, <2>2
    <3>2. Nesting(result, r) >= n + 1 - (k - 1)
      BY <1>5, <3>1 DEF AtLeastOpen
    <3>3. n + 1 - (k - 1) = m
      BY <1>1, <1>2
    <3> QED
      BY <1>2, <1>4, <3>2, <3>3
  <2> QED
    BY <2>1, <2>2
<1>6. Nesting(result, m) = m /\ m < q /\ q - 1 \in Int
  <2>1. Nesting(result, m) = m
    BY <1>2, <1>4
  <2>2. Len(result) \in Nat
    BY DEF TypeInv, TypeOK
  <2>3. m \in 2 .. n + 1 /\ q \in n + 2 .. Len(result)
    BY <1>2, <1>3
  <2>4. m < q /\ q - 1 \in Int
    BY <1>1, <2>2, <2>3
  <2> QED
    BY <2>1, <2>4
<1>8. ClosedBy(result, m, q)
  <2>1. Nesting(result, q) = Nesting(result, m) - 1
    BY <1>1, <1>2, <1>3, <1>6
  <2>2. \A r \in m .. q - 1 : Nesting(result, r) >= Nesting(result, m)
    BY <1>3, <1>5, <1>6
  <2> QED
    BY <1>3, <1>6, <2>1, <2>2 DEF ClosedBy
<1>9. ClosedBy(result, m, start[jumpTargets[k]] - 1)
  BY <1>8 DEF q
<1>10. \A last \in Int : AtLeastOpen(result, n, k - 1, last) =>
         \A r \in m .. last : Nesting(result, r) >= Nesting(result, m)
  BY <1>5
<1> QED
  BY <1>2, <1>4, <1>6, <1>9, <1>10 DEF m

(* A branch at p that sees the block of target k at depth d leaves it for  *)
(* the code of the target.                                                 *)
LEMMA BlockLeaves ==
  ASSUME TypeInv, NEW n, n = Len(jumpTargets), NEW k \in 1 .. n, NEW p \in Nat, n + 2 <= p, NEW d \in Int,
         HasPrologue(result, n), ClosesTarget(result, n, k, start[jumpTargets[k]] - 1),
         AtLeastOpen(result, n, k - 1, p - 1), Nesting(result, p - 1) = n + 2 - k + d
  PROVE  LeavesBefore(p, d, jumpTargets[k])
<1> DEFINE m == BlockOf(n, k)
<1>1. n \in Nat
  BY JumpTargetFacts
<1>2. /\ m \in 2 .. n + 1 /\ m = n + 2 - k /\ result[m].op = "block" /\ Nesting(result, m) = m
      /\ ClosedBy(result, m, start[jumpTargets[k]] - 1)
      /\ \A last \in Int : AtLeastOpen(result, n, k - 1, last) =>
           \A r \in m .. last : Nesting(result, r) >= Nesting(result, m)
  BY BlockCloses
<1> HIDE DEF m
<1>3. p - 1 \in Int /\ m < p /\ m \in 1 .. p - 1 /\ m = n + 2 - k + d - d
  BY <1>1, <1>2
<1>4. \A r \in m .. p - 1 : Nesting(result, r) >= Nesting(result, m)
  BY <1>2, <1>3
<1>5. Encloses(result, m, p, d)
  BY <1>1, <1>2, <1>3, <1>4 DEF Encloses, Openers
<1> QED
  BY <1>2, <1>3, <1>5 DEF LeavesBefore

(* When every target has been passed, every branch leads to its target.    *)
LEMMA LandedIsEnough ==
  ASSUME TypeInv, NEW n, n = Len(jumpTargets),
         Landed(result, n, jumpTargets, start, n, jumps), NEW j \in jumps
  PROVE  LeavesBefore(j.at, result[j.at].n, j.to) \/ RestartsFor(j)
<1>1. n \in Nat
  BY JumpTargetFacts
<1>2. HasPrologue(result, n) /\ Passed(result, n, jumpTargets, start, n)
  BY DEF Landed
<1>3. PICK k \in 1 .. n, closed \in 0 .. n :
        jumpTargets[k] = j.to /\ CompiledAt(result, n, start, j, k, closed)
  BY DEF Landed, HasTarget
<1>4. /\ j.at \in n + 2 .. Len(result) /\ j.at \in Nat
      /\ Nesting(result, j.at - 1) = n + 1 - closed
      /\ AtLeastOpen(result, n, closed, j.at - 1)
      /\ k > closed => result[j.at].n = k - 1 - closed
      /\ k <= closed => result[j.at].n = n - closed /\ Stored(result, start, j, k)
  BY <1>1, <1>3 DEF CompiledAt
<1>5. ClosesTarget(result, n, k, start[jumpTargets[k]] - 1)
  BY <1>2 DEF Passed
<1>6. \A r \in 0 .. n + 1 : Nesting(result, r) = r
  BY <1>2 DEF HasPrologue
<1>7. \A r \in Nat : Nesting(result, r) \in Int
  BY NestingType
<1>8. CASE k > closed
  <2>1. result[j.at].n = k - 1 - closed /\ k - 1 - closed \in Int
    BY <1>1, <1>4, <1>8
  <2>2. AtLeastOpen(result, n, k - 1, j.at - 1)
    <3>1. ASSUME NEW r \in n + 1 .. j.at - 1 PROVE Nesting(result, r) >= n + 1 - (k - 1)
      <4>1. Nesting(result, r) >= n + 1 - closed /\ r \in Nat
        BY <1>1, <1>4 DEF AtLeastOpen
      <4>2. n + 1 - closed >= n + 1 - (k - 1)
        BY <1>1, <1>8
      <4>3. Nesting(result, r) \in Int
        BY <1>7, <4>1
      <4> QED
        BY <1>1, <4>1, <4>2, <4>3
    <3> QED
      BY <3>1 DEF AtLeastOpen
  <2>3. Nesting(result, j.at - 1) = n + 2 - k + (k - 1 - closed) /\ n + 2 <= j.at
    BY <1>1, <1>4
  <2>4. LeavesBefore(j.at, k - 1 - closed, jumpTargets[k])
    BY <1>2, <1>4, <1>5, <2>1, <2>2, <2>3, BlockLeaves
  <2> QED
    BY <1>3, <2>1, <2>4
<1>9. CASE k <= closed
  <2>1. result[j.at].n = n - closed /\ Stored(result, start, j, k) /\ n > 0
    BY <1>1, <1>4, <1>9
  <2>2. /\ n + 1 <= Len(result) /\ result[1].op = "loop" /\ result[n + 4].n = n
        /\ Nesting(result, n + 2) = n + 2 /\ Nesting(result, n + 3) = n + 2
    BY <1>2, <2>1 DEF HasPrologue
  <2>3. Encloses(result, 1, j.at, n - closed)
    <3>1. 1 < j.at /\ 1 \in 0 .. n + 1 /\ Nesting(result, j.at - 1) - (n - closed) = 1
      BY <1>1, <1>4
    <3>2. Nesting(result, 1) = 1
      BY <1>6, <3>1
    <3>3. ASSUME NEW r \in 1 .. j.at - 1 PROVE Nesting(result, r) >= 1
      <4>1. CASE r <= n + 1
        <5>1. r \in 0 .. n + 1 /\ r >= 1
          BY <1>1, <4>1
        <5> QED
          BY <1>6, <5>1
      <4>2. CASE ~(r <= n + 1)
        <5>1. r \in n + 1 .. j.at - 1 /\ r \in Nat /\ n + 1 - closed >= 1
          BY <1>1, <1>4, <4>2
        <5>2. Nesting(result, r) >= n + 1 - closed
          BY <1>4, <5>1 DEF AtLeastOpen
        <5> QED
          BY <1>1, <1>7, <5>1, <5>2
      <4> QED
        BY <4>1, <4>2
    <3> QED
      BY <2>2, <3>1, <3>2, <3>3 DEF Encloses, Openers
  <2>4. LeavesBefore(n + 4, k, jumpTargets[k])
    <3>1. ASSUME NEW r \in n + 1 .. n + 4 - 1 PROVE Nesting(result, r) >= n + 1 - (k - 1)
      <4>1. r = n + 1 \/ r = n + 2 \/ r = n + 3
        BY <1>1
      <4>2. n + 1 \in 0 .. n + 1 /\ n + 1 >= n + 1 - (k - 1) /\ n + 2 >= n + 1 - (k - 1)
        BY <1>1
      <4>3. Nesting(result, n + 1) = n + 1
        BY <1>6, <4>2
      <4> QED
        BY <2>2, <4>1, <4>2, <4>3
    <3>2. AtLeastOpen(result, n, k - 1, n + 4 - 1)
      BY <3>1 DEF AtLeastOpen
    <3>3. n + 4 \in Nat /\ n + 2 <= n + 4 /\ n + 4 - 1 = n + 3 /\ n + 2 - k + k = n + 2 /\ k \in Int
      BY <1>1
    <3>4. Nesting(result, n + 4 - 1) = n + 2 - k + k
      BY <2>2, <3>3
    <3> DEFINE p == n + 4
    <3>5. /\ p \in Nat /\ n + 2 <= p /\ AtLeastOpen(result, n, k - 1, p - 1)
          /\ Nesting(result, p - 1) = n + 2 - k + k
      BY <3>2, <3>3, <3>4
    <3> HIDE DEF p
    <3>6. LeavesBefore(p, k, jumpTargets[k])
      BY <1>2, <1>5, <3>3, <3>5, BlockLeaves
    <3> QED
      BY <3>6 DEF p
  <2>5. PICK s \in 2 .. j.at - 1 :
          /\ start[j.from] + 1 <= s
          /\ result[s - 1] = Const(k) /\ result[s] = SetLocal("jumpTarget", 0)
          /\ \A r \in s + 1 .. j.at : result[r].op # "set_local"
    BY <2>1 DEF Stored
  <2>6. start[j.from] \in Nat
    <3>1. start \in Seq(Nat) /\ j.from \in 1 .. Len(start)
      BY <2>1 DEF Stored, TypeInv, TypeOK
    <3> QED
      BY <3>1, ElementOfSeq
  <2>7. s \in start[j.from] + 1 .. j.at - 1 /\ k \in 1 .. result[n + 4].n
    BY <2>2, <2>5, <2>6
  <2>8. TablePosition = n + 4
    BY DEF TablePosition
  <2>9. LeavesBefore(TablePosition, k, j.to) /\ k \in 1 .. result[TablePosition].n
    BY <1>3, <2>4, <2>7, <2>8
  <2>10. Encloses(result, 1, j.at, result[j.at].n)
    BY <2>1, <2>3
  <2>11. RestartsFor(j)
    BY <2>2, <2>5, <2>7, <2>9, <2>10 DEF RestartsFor
  <2> QED
    BY <2>11
<1> QED
  BY <1>1, <1>8, <1>9
-----------------------------------------------------------------------------
(* While the code grows: it has landed so far, the start of every          *)
(* instruction compiled, m of them, is in it or right behind it, and the   *)
(* targets whose blocks are open are instructions still to come.           *)
BuiltTo(c, ts, st, closed, js, m) ==
  /\ Landed(c, Len(ts), ts, st, closed, js)
  /\ AtLeastOpen(c, Len(ts), closed, Len(c))
  /\ Len(st) = m
  /\ \A i \in 1 .. m : st[i] <= Len(c) + 1
  /\ \A k \in closed + 1 .. Len(ts) : ts[k] > m

(* The invariant behind BranchesLand.                                      *)
LandInv ==
  /\ BalanceInv
  /\ phase = "open" => jumps = {} /\ start = <<>> /\ il = 1 /\ nextJumpTargetIndex = 0
  /\ phase = "body" => BuiltTo(result, jumpTargets, start, nextJumpTargetIndex, jumps, il - 1)
  /\ phase = "switch" => BuiltTo(result, jumpTargets, start, nextJumpTargetIndex, jumps, il)
  /\ phase = "done" =>
       \/ Code = <<>> /\ jumps = {}
       \/ Landed(result, Len(jumpTargets), jumpTargets, start, Len(jumpTargets), jumps)

(* At the head of an iteration the target that is reached, and no other,   *)
(* has its block closed right before the code of its instruction.          *)
LEMMA ClosingBuilds ==
  ASSUME TypeInv, OpenBlocksOf(result, nextJumpTargetIndex), il \in 1 .. Len(Code),
         BuiltTo(result, jumpTargets, start, nextJumpTargetIndex, jumps, il - 1),
         NEW c, c = result \o ClosingEnd, NEW st, st = Append(start, Len(result) + Len(ClosingEnd) + 1)
  PROVE  /\ c \in Seq(WasmInstr) /\ Len(c) = Len(result) + Len(ClosingEnd)
         /\ Depth(c) = Len(jumpTargets) + 1 - ClosedHere
         /\ ClosedHere \in 0 .. Len(jumpTargets)
         /\ BuiltTo(c, jumpTargets, st, ClosedHere, jumps, il)
         /\ st \in Seq(Nat) /\ il \in 1 .. Len(st) /\ st[il] = Len(c) + 1
<1> DEFINE n    == Len(jumpTargets)
           next == nextJumpTargetIndex
           e    == ClosingEnd
<1>1. /\ n \in Nat /\ next \in 0 .. n /\ il \in Nat \ {0}
      /\ result \in Seq(WasmInstr) /\ start \in Seq(Nat) /\ Len(result) \in Nat
      /\ \A j \in jumps : j.at \in Nat
      /\ \A k \in 1 .. n : jumpTargets[k] \in Nat
      /\ \A k, l \in 1 .. n : k < l => jumpTargets[k] < jumpTargets[l]
  BY JumpTargetFacts DEF TypeInv, TypeOK
<1>2. e \in Seq(WasmInstr) /\ Len(e) \in Nat
  BY InstrTypes, EmittedOps DEF ClosingEnd
<1>3. c \in Seq(WasmInstr) /\ Len(c) = Len(result) + Len(e) /\ \A q \in 1 .. Len(e) : c[Len(result) + q] = e[q]
  BY <1>1, <1>2, Joined
<1>4. GoesOn(result, c) /\ \A p \in 0 .. Len(result) : Nesting(c, p) = Nesting(result, p)
  BY <1>1, <1>2, AppendedGoesOn
<1>5. /\ Landed(result, n, jumpTargets, start, next, jumps)
      /\ AtLeastOpen(result, n, next, Len(result))
      /\ Len(start) = il - 1
      /\ \A i \in 1 .. il - 1 : start[i] <= Len(result) + 1
      /\ \A k \in next + 1 .. n : jumpTargets[k] > il - 1
  BY DEF BuiltTo
<1>6. /\ st \in Seq(Nat) /\ Len(st) = il /\ st[il] = Len(c) + 1
      /\ \A i \in 1 .. il - 1 : st[i] = start[i]
  <2> DEFINE x == Len(c) + 1
  <2>1. x \in Nat /\ st = Append(start, x)
    BY <1>1, <1>2, <1>3
  <2> HIDE DEF x
  <2>2. st \in Seq(Nat) /\ Len(st) = Len(start) + 1 /\ st[Len(start) + 1] = x
        /\ \A i \in 1 .. Len(start) : st[i] = start[i]
    BY <1>1, <2>1, AppendProperties
  <2>3. Len(start) + 1 = il
    BY <1>1, <1>5
  <2> QED
    BY <1>5, <2>2, <2>3 DEF x
<1>7. GoesOn(start, st)
  BY <1>1, <1>5, <1>6 DEF GoesOn
<1>8. Landed(c, n, jumpTargets, st, next, jumps)
  BY <1>1, <1>4, <1>5, <1>7, LandedGoesOn
<1>9. HasPrologue(c, n) /\ Passed(c, n, jumpTargets, st, next) /\ \A j \in jumps : HasTarget(c, n, jumpTargets, st, j)
  BY <1>8 DEF Landed
<1>10. n + 1 <= Len(result)
  BY <1>5 DEF Landed, HasPrologue
<1>11. Depth(result) = 1 + n - next
  BY DEF OpenBlocksOf
<1>12. \A i \in 1 .. il : st[i] <= Len(c) + 1
  <2>1. ASSUME NEW i \in 1 .. il PROVE st[i] <= Len(c) + 1
    <3>1. CASE i = il
      BY <1>1, <1>2, <1>3, <1>6, <3>1
    <3>2. CASE i # il
      <4>1. i \in 1 .. il - 1 /\ i \in 1 .. Len(start)
        BY <1>1, <1>5, <3>2
      <4>2. st[i] = start[i] /\ start[i] <= Len(result) + 1 /\ start[i] \in Nat
        BY <1>1, <1>5, <1>6, <4>1, ElementOfSeq
      <4>3. Len(c) = Len(result) + Len(e) /\ Len(result) \in Nat /\ Len(e) \in Nat
        BY <1>1, <1>2, <1>3
      <4>4. \A a, b, d, x \in Nat : a <= b + 1 /\ d = b + x => a <= d + 1
        OBVIOUS
      <4>5. start[i] <= Len(c) + 1
        <5>1. Len(c) \in Nat
          BY <4>3
        <5> HIDE DEF e
        <5> QED
          BY <4>2, <4>3, <4>4, <5>1, Zenon
      <4> QED
        BY <4>2, <4>5, Zenon
    <3> QED
      BY <3>1, <3>2
  <2> QED
    BY <2>1
<1>13. \A r \in n + 1 .. Len(result) : Nesting(c, r) >= n + 1 - next /\ Nesting(c, r) \in Int
  <2>1. ASSUME NEW r \in n + 1 .. Len(result)
        PROVE  Nesting(c, r) >= n + 1 - next /\ Nesting(c, r) \in Int
    <3>1. r \in 0 .. Len(result) /\ r \in Nat
      BY <1>1
    <3> QED
      BY <1>4, <1>5, <3>1, NestingType DEF AtLeastOpen
  <2> QED
    BY <2>1
<1>14. CASE AtTarget
  <2> DEFINE k == next + 1
             q == Len(c)
  <2>1. e = <<W("end")>> /\ ClosedHere = k /\ k \in 1 .. n /\ il >= jumpTargets[k]
    BY <1>1, <1>14 DEF ClosingEnd, ClosedHere, AtTarget
  <2>2. jumpTargets[k] = il
    <3>1. k \in next + 1 .. n
      BY <1>1, <2>1
    <3>2. jumpTargets[k] > il - 1 /\ jumpTargets[k] \in Nat
      BY <1>1, <1>5, <2>1, <3>1
    <3> QED
      BY <1>1, <2>1, <3>2
  <2>3. Len(e) = 1 /\ e[1] = W("end") /\ W("end").op = "end"
    BY <2>1 DEF W
  <2>4. q = Len(result) + 1 /\ c[q].op = "end" /\ q \in n + 2 .. Len(c)
    <3>1. 1 \in 1 .. Len(e)
      BY <2>3
    <3>2. q = Len(result) + 1
      BY <1>3, <2>3
    <3> QED
      BY <1>1, <1>3, <1>10, <2>3, <3>1, <3>2
  <2>5. Nesting(c, q) = n + 1 - k
    <3>1. 1 \in 0 .. Len(e)
      BY <2>3
    <3>2. Nesting(c, Len(result) + 1) = Nesting(result, Len(result)) + Nesting(e, 1)
      BY <1>1, <1>2, <3>1, NestingAppended
    <3>3. Nesting(e, 1) = -1
      BY <2>1, EmittedOps, SingleNesting DEF Openers
    <3>4. Nesting(result, Len(result)) = 1 + n - next
      BY <1>11 DEF Depth
    <3>5. 1 + n - next + (-1) = n + 1 - k
      BY <1>1
    <3> QED
      BY <2>4, <3>2, <3>3, <3>4, <3>5
  <2> HIDE DEF e
  <2>6. ClosesTarget(c, n, k, q)
    <3>1. k - 1 = next /\ q - 1 = Len(result)
      BY <1>1, <2>4
    <3>2. AtLeastOpen(c, n, k - 1, q - 1)
      BY <1>13, <3>1 DEF AtLeastOpen
    <3> QED
      BY <2>4, <2>5, <3>2 DEF ClosesTarget
  <2>7. ASSUME NEW l \in 1 .. k
        PROVE  jumpTargets[l] \in 1 .. Len(st) /\ ClosesTarget(c, n, l, st[jumpTargets[l]] - 1)
    <3>1. CASE l = k
      <4>1. il \in 1 .. Len(st) /\ st[il] - 1 = q
        BY <1>1, <1>3, <1>6, <2>4
      <4> QED
        BY <2>2, <2>6, <3>1, <4>1
    <3>2. CASE l # k
      <4>1. l \in 1 .. next
        BY <1>1, <3>2
      <4> QED
        BY <1>9, <4>1 DEF Passed
    <3> QED
      BY <3>1, <3>2
  <2>8. Landed(c, n, jumpTargets, st, k, jumps)
    BY <1>9, <2>7 DEF Landed, Passed
  <2>9. AtLeastOpen(c, n, k, Len(c))
    <3>1. ASSUME NEW r \in n + 1 .. Len(c) PROVE Nesting(c, r) >= n + 1 - k
      <4>1. CASE r = q
        BY <1>1, <2>5, <4>1
      <4>2. CASE r # q
        <5>0. n \in Nat /\ Len(result) \in Nat /\ Len(c) = Len(result) + 1 /\ r # Len(c)
          BY <1>1, <2>4, <4>2
        <5>1. r \in n + 1 .. Len(result)
          BY <5>0
        <5> QED
          BY <1>1, <1>13, <5>1
      <4> QED
        BY <4>1, <4>2
    <3> QED
      BY <3>1 DEF AtLeastOpen
  <2>10. ASSUME NEW l \in k + 1 .. n PROVE jumpTargets[l] > il
    <3>1. l \in 1 .. n /\ k < l /\ jumpTargets[l] \in Nat
      BY <1>1
    <3>2. jumpTargets[k] < jumpTargets[l]
      BY <1>1, <2>1, <3>1
    <3> QED
      BY <1>1, <2>2, <3>1, <3>2
  <2>11. BuiltTo(c, jumpTargets, st, k, jumps, il)
    BY <1>6, <1>12, <2>8, <2>9, <2>10 DEF BuiltTo
  <2>12. Depth(c) = n + 1 - k
    BY <2>5 DEF Depth
  <2>13. k \in 0 .. n /\ il \in 1 .. Len(st)
    <3>1. n \in Nat /\ il \in Nat \ {0} /\ Len(st) = il
      BY <1>1, <1>6
    <3> QED
      BY <2>1, <3>1
  <2> HIDE DEF k
  <2> QED
    BY <1>3, <1>6, <2>1, <2>11, <2>12, <2>13 DEF e
<1>15. CASE ~AtTarget
  <2>1. e = <<>> /\ ClosedHere = next
    BY <1>15 DEF ClosingEnd, ClosedHere
  <2>2. c = result /\ Len(e) = 0
    BY <1>1, <2>1, ConcatEmptySeq
  <2>3. AtLeastOpen(c, n, next, Len(c)) /\ Depth(c) = n + 1 - next
    BY <1>1, <1>5, <1>11, <2>2
  <2>4. ASSUME NEW l \in next + 1 .. n PROVE jumpTargets[l] > il
    <3>1. next < n /\ next + 1 \in 1 .. n /\ l \in 1 .. n
      BY <1>1
    <3>2. ~(il >= jumpTargets[next + 1])
      BY <1>15, <3>1 DEF AtTarget
    <3>3. jumpTargets[next + 1] \in Nat /\ jumpTargets[l] \in Nat
      BY <1>1, <3>1
    <3>4. l = next + 1 \/ next + 1 < l
      BY <1>1
    <3>5. l = next + 1 \/ jumpTargets[next + 1] < jumpTargets[l]
      BY <1>1, <3>1, <3>4
    <3> QED
      BY <1>1, <3>2, <3>3, <3>5
  <2>5. BuiltTo(c, jumpTargets, st, next, jumps, il)
    BY <1>6, <1>8, <1>12, <2>3, <2>4 DEF BuiltTo
  <2>6. il \in 1 .. Len(st)
    BY <1>1, <1>6
  <2> QED
    BY <1>1, <1>3, <1>6, <2>1, <2>3, <2>5, <2>6
<1> QED
  BY <1>14, <1>15

(* Flat code appended, perhaps with one more branch in it, changes none of *)
(* this.                                                                   *)
LEMMA FlatBuilds ==
  ASSUME TypeInv, NEW c \in Seq(WasmInstr), NEW code \in Seq(FlatInstr), NEW st \in Seq(Nat),
         NEW closed \in 0 .. Len(jumpTargets), NEW m \in Nat,
         Depth(c) = Len(jumpTargets) + 1 - closed,
         BuiltTo(c, jumpTargets, st, closed, jumps, m),
         NEW js, \A j \in js : j \in jumps \/ HasTarget(c \o code, Len(jumpTargets), jumpTargets, st, j)
  PROVE  BuiltTo(c \o code, jumpTargets, st, closed, js, m)
<1> DEFINE n == Len(jumpTargets)
           e == c \o code
<1>1. n \in Nat /\ code \in Seq(WasmInstr) /\ \A j \in jumps : j.at \in Nat
  BY JumpTargetFacts, FlatIsCode DEF TypeInv, TypeOK
<1>2. Len(c) \in Nat /\ Len(code) \in Nat /\ Len(e) = Len(c) + Len(code)
  BY <1>1, Joined
<1>3. GoesOn(c, e) /\ \A p \in 0 .. Len(c) : Nesting(e, p) = Nesting(c, p)
  BY <1>1, AppendedGoesOn
<1>4. GoesOn(st, st)
  BY DEF GoesOn
<1>5. \A p \in 0 .. Len(code) : Nesting(e, Len(c) + p) = n + 1 - closed
  <2>1. ASSUME NEW p \in 0 .. Len(code) PROVE Nesting(e, Len(c) + p) = n + 1 - closed
    <3>1. Nesting(e, Len(c) + p) = Depth(c) + Nesting(code, p)
      BY <1>1, NestingAppended DEF Depth
    <3>2. Nesting(code, p) = 0
      BY FlatNesting
    <3> QED
      BY <1>1, <3>1, <3>2
  <2> QED
    BY <2>1
<1>6. /\ Landed(c, n, jumpTargets, st, closed, jumps)
      /\ AtLeastOpen(c, n, closed, Len(c))
      /\ Len(st) = m
      /\ \A i \in 1 .. m : st[i] <= Len(c) + 1
      /\ \A k \in closed + 1 .. n : jumpTargets[k] > m
  BY DEF BuiltTo
<1>7. \A j \in js : j \in jumps \/ HasTarget(e, n, jumpTargets, st, j)
  OBVIOUS
<1> HIDE DEF e
<1>8. Landed(e, n, jumpTargets, st, closed, jumps)
  BY <1>1, <1>3, <1>4, <1>6, LandedGoesOn
<1>9. Landed(e, n, jumpTargets, st, closed, js)
  BY <1>7, <1>8 DEF Landed
<1>10. AtLeastOpen(e, n, closed, Len(e))
  <2>1. ASSUME NEW r \in n + 1 .. Len(e) PROVE Nesting(e, r) >= n + 1 - closed
    <3>1. CASE r <= Len(c)
      <4>1. r \in n + 1 .. Len(c) /\ r \in 0 .. Len(c)
        BY <1>1, <1>2, <3>1
      <4> QED
        BY <1>3, <1>6, <4>1 DEF AtLeastOpen
    <3>2. CASE ~(r <= Len(c))
      <4>1. r - Len(c) \in 0 .. Len(code) /\ r = Len(c) + (r - Len(c))
        BY <1>1, <1>2, <3>2
      <4>2. Nesting(e, r) = n + 1 - closed
        BY <1>5, <4>1
      <4> QED
        BY <1>1, <4>2
    <3> QED
      BY <3>1, <3>2
  <2> QED
    BY <2>1 DEF AtLeastOpen
<1>11. ASSUME NEW i \in 1 .. m PROVE st[i] <= Len(e) + 1
  <2>1. st[i] \in Nat /\ st[i] <= Len(c) + 1
    BY <1>6, ElementOfSeq
  <2> QED
    BY <1>2, <2>1
<1> QED
  BY <1>6, <1>9, <1>10, <1>11 DEF BuiltTo, e
-----------------------------------------------------------------------------
(* Before the first step nothing is compiled.                              *)
LEMMA InitLands == Init => LandInv
  BY InitBalance DEF Init, LandInv

(* What holds between two instructions of the body.                        *)
LEMMA BeginBuilds ==
  ASSUME TypeInv, OpenBlocksOf(result, nextJumpTargetIndex), il \in 1 .. Len(Code),
         BuiltTo(result, jumpTargets, start, nextJumpTargetIndex, jumps, il - 1),
         NEW code \in Seq(FlatInstr), BeginInstruction(code), UNCHANGED jumpTargets,
         \/ jumps' = jumps
         \/ \E t \in SortedOffsets(Code) :
              /\ JumpCode(code, t, ClosedHere)
              /\ jumps' = jumps \cup {[at |-> Len(result) + Len(ClosingEnd) + Len(code), from |-> il, to |-> t]}
  PROVE  BuiltTo(result', jumpTargets', start', nextJumpTargetIndex', jumps', il)
<1> DEFINE c  == result \o ClosingEnd
           st == Append(start, Len(result) + Len(ClosingEnd) + 1)
           n  == Len(jumpTargets)
<1>1. /\ c \in Seq(WasmInstr) /\ Len(c) = Len(result) + Len(ClosingEnd)
      /\ Depth(c) = n + 1 - ClosedHere
      /\ ClosedHere \in 0 .. n
      /\ BuiltTo(c, jumpTargets, st, ClosedHere, jumps, il)
      /\ st \in Seq(Nat) /\ il \in 1 .. Len(st) /\ st[il] = Len(c) + 1
  BY ClosingBuilds
<1>2. result' = c \o code /\ start' = st /\ nextJumpTargetIndex' = ClosedHere
  BY DEF BeginInstruction
<1>3. n \in Nat /\ il \in Nat
  BY JumpTargetFacts DEF TypeInv, TypeOK
<1>4. Len(c) \in Nat
  BY <1>1
<1>5. n + 1 <= Len(c) /\ AtLeastOpen(c, n, ClosedHere, Len(c))
  BY <1>1 DEF BuiltTo, Landed, HasPrologue
<1> DEFINE js == jumps'
<1>6. \/ js = jumps
      \/ \E t \in SortedOffsets(Code) :
           /\ JumpCode(code, t, ClosedHere)
           /\ js = jumps \cup {[at |-> Len(c) + Len(code), from |-> il, to |-> t]}
  BY <1>1
<1> HIDE DEF c, st, js
<1>7. \A j \in js : j \in jumps \/ HasTarget(c \o code, n, jumpTargets, st, j)
  <2>1. CASE js = jumps
    BY <2>1
  <2>2. ASSUME NEW t \in SortedOffsets(Code), JumpCode(code, t, ClosedHere),
               js = jumps \cup {[at |-> Len(c) + Len(code), from |-> il, to |-> t]}
        PROVE  \A j \in js : j \in jumps \/ HasTarget(c \o code, n, jumpTargets, st, j)
    <3>1. st[il] \in Nat /\ st[il] <= Len(c) + 1
      BY <1>1, <1>4
    <3>2. HasTarget(c \o code, n, jumpTargets, st, [at |-> Len(c) + Len(code), from |-> il, to |-> t])
      BY <1>1, <1>5, <2>2, <3>1, JumpLands
    <3> QED
      BY <2>2, <3>2
  <2> QED
    BY <1>6, <2>1, <2>2
<1>8. BuiltTo(c \o code, jumpTargets, st, ClosedHere, js, il)
  BY <1>1, <1>3, <1>7, FlatBuilds
<1> QED
  BY <1>2, <1>8 DEF js

(* Every step keeps the branches compiled so far landing.                  *)
LEMMA StepLands == LandInv /\ [Compile]_compilerVars => LandInv'
<1> SUFFICES ASSUME LandInv, [Compile]_compilerVars PROVE LandInv'
  OBVIOUS
<1>0. BalanceInv /\ BalanceInv' /\ TypeInv
  BY StepBalance DEF LandInv, BalanceInv
<1>a. /\ method \in Methods /\ Len(Code) \in Nat /\ Len(jumpTargets) \in Nat
      /\ il \in 1 .. Len(Code) + 1 /\ item \in Nat
      /\ nextJumpTargetIndex \in 0 .. Len(jumpTargets)
      /\ result \in Seq(WasmInstr) /\ start \in Seq(Nat)
  BY <1>0, CodeFacts, JumpTargetFacts DEF TypeInv, TypeOK
<1>b. ASSUME phase = "body" \/ phase = "switch"
      PROVE  OpenBlocksOf(result, nextJumpTargetIndex)
  BY <1>0, <1>b DEF BalanceInv
<1>c. ASSUME phase = "body"
      PROVE  BuiltTo(result, jumpTargets, start, nextJumpTargetIndex, jumps, il - 1)
  BY <1>c DEF LandInv
<1>d. ASSUME phase = "switch"
      PROVE  BuiltTo(result, jumpTargets, start, nextJumpTargetIndex, jumps, il)
  BY <1>d DEF LandInv
<1>e. ASSUME phase' = "body", BuiltTo(result', jumpTargets', start', nextJumpTargetIndex', jumps', il),
             il' = il + 1
      PROVE  LandInv'
  <2>1. il' - 1 = il
    BY <1>a, <1>e
  <2> QED
    BY <1>0, <1>e, <2>1 DEF LandInv
<1>f. ASSUME phase' = "switch", BuiltTo(result', jumpTargets', start', nextJumpTargetIndex', jumps', il'),
             UNCHANGED il
      PROVE  LandInv'
  BY <1>0, <1>f DEF LandInv
<1>1. CASE OpenBlocks
  <2>1. /\ phase = "open" /\ UNCHANGED <<jumpTargets, il, nextJumpTargetIndex, start, jumps>>
        /\ jumps = {} /\ start = <<>> /\ il = 1 /\ nextJumpTargetIndex = 0
    BY <1>1 DEF OpenBlocks, LandInv
  <2>2. CASE Code = <<>>
    <3>1. phase' = "done" /\ jumps' = {} /\ Code' = <<>>
      BY <1>1, <2>1, <2>2 DEF OpenBlocks, Code
    <3> QED
      BY <1>0, <3>1 DEF LandInv
  <2>3. CASE Code # <<>>
    <3> DEFINE n == Len(jumpTargets)
               c == Prologue(n)
    <3>1. result' = c /\ phase' = "body"
      BY <1>1, <2>3 DEF OpenBlocks
    <3>2. HasPrologue(c, n) /\ AtLeastOpen(c, n, 0, Len(c))
      BY <1>a, PrologueHolds
    <3> HIDE DEF c
    <3>3. Landed(c, n, jumpTargets, <<>>, 0, {})
      BY <3>2 DEF Landed, Passed
    <3>4. \A k \in 1 .. n : jumpTargets[k] > 0
      BY <1>0, JumpTargetFacts
    <3>5. \A k \in 0 + 1 .. n : jumpTargets[k] > 0
      BY <3>4
    <3>6. Len(<<>>) = 0 /\ \A i \in 1 .. 0 : <<>>[i] <= Len(c) + 1
      OBVIOUS
    <3>7. BuiltTo(c, jumpTargets, <<>>, 0, {}, 0)
      BY <3>2, <3>3, <3>5, <3>6 DEF BuiltTo
    <3>8. il' - 1 = 0
      BY <2>1
    <3>9. BuiltTo(result', jumpTargets', start', nextJumpTargetIndex', jumps', il' - 1)
      BY <2>1, <3>1, <3>7, <3>8
    <3> QED
      BY <1>0, <3>1, <3>9 DEF LandInv
  <2> QED
    BY <2>2, <2>3
<1>2. CASE CompileStraightInstruction
  <2>1. /\ phase = "body" /\ phase' = "body" /\ UNCHANGED <<jumpTargets, jumps>> /\ il' = il + 1
        /\ il \in 1 .. Len(Code) /\ Code[il].op \in StraightOps
        /\ BeginInstruction(CompileStraight(Code[il]))
    BY <1>2, <1>a DEF CompileStraightInstruction, InBody
  <2>2. CompileStraight(Code[il]) \in Seq(FlatInstr)
    BY <1>a, <2>1, CodeFacts, StraightType
  <2>3. BuiltTo(result', jumpTargets', start', nextJumpTargetIndex', jumps', il)
    BY <1>0, <1>b, <1>c, <2>1, <2>2, BeginBuilds
  <2> QED
    BY <1>e, <2>1, <2>3
<1>3. CASE CompileBranch
  <2> DEFINE t    == Code[il].targets[1]
             code == JumpSetup(t, ClosedHere) \o BranchTests[Code[il].op]
                       \o <<WN(BranchOp(Code[il].op), BreakDepth(t, ClosedHere))>>
  <2>1. /\ phase = "body" /\ phase' = "body" /\ UNCHANGED jumpTargets /\ il' = il + 1
        /\ il \in 1 .. Len(Code) /\ Code[il].op \in DOMAIN BranchTests
        /\ BeginInstruction(code)
        /\ jumps' = jumps \cup {[at |-> Len(result) + Len(ClosingEnd) + Len(code), from |-> il, to |-> t]}
    BY <1>3, <1>a DEF CompileBranch, InBody
  <2>2. Code[il].op \in Branches
    BY <2>1 DEF BranchTests, Branches, ConditionalBranches, UnconditionalBranches
  <2>3. t \in SortedOffsets(Code)
    BY <1>a, <2>1, <2>2, CodeFacts
  <2>4. ClosedHere \in 0 .. Len(jumpTargets)
    BY <1>a DEF ClosedHere, AtTarget
  <2>5. JumpCode(code, t, ClosedHere)
    BY <1>0, <2>1, <2>3, <2>4, BranchIsJumpCode
  <2>6. code \in Seq(FlatInstr)
    BY <2>5 DEF JumpCode
  <2> HIDE DEF code, t
  <2>7. OpenBlocksOf(result, nextJumpTargetIndex)
        /\ BuiltTo(result, jumpTargets, start, nextJumpTargetIndex, jumps, il - 1)
    BY <1>b, <1>c, <2>1
  <2>8. BuiltTo(result', jumpTargets', start', nextJumpTargetIndex', jumps', il)
    BY <1>0, <2>1, <2>3, <2>5, <2>6, <2>7, BeginBuilds
  <2> QED
    BY <1>e, <2>1, <2>8
<1>4. CASE BeginSwitch
  <2> DEFINE code == <<SetLocal("switchValue", 0)>>
  <2>1. /\ phase = "body" /\ phase' = "switch" /\ UNCHANGED <<jumpTargets, jumps, il>>
        /\ il \in 1 .. Len(Code) /\ BeginInstruction(code)
    BY <1>4, <1>a DEF BeginSwitch, InBody
  <2>2. code \in Seq(FlatInstr)
    BY InstrTypes, EmittedOps
  <2> HIDE DEF code
  <2>3. BuiltTo(result', jumpTargets', start', nextJumpTargetIndex', jumps', il)
    BY <1>0, <1>b, <1>c, <2>1, <2>2, BeginBuilds
  <2> QED
    BY <1>f, <2>1, <2>3
<1>5. CASE CompileSwitchItem
  <2> DEFINE t    == Code[il].targets[item + 1]
             code == <<GetLocal("switchValue", 0), Const(item), W("i32.eq")>>
                       \o JumpSetup(t, nextJumpTargetIndex)
                       \o <<WN("br_if", BreakDepth(t, nextJumpTargetIndex))>>
             n    == Len(jumpTargets)
             j    == [at |-> Len(result) + Len(code), from |-> il, to |-> t]
  <2>1. /\ phase = "switch" /\ phase' = "switch" /\ UNCHANGED <<jumpTargets, nextJumpTargetIndex, start, il>>
        /\ item < Len(Code[il].targets) /\ result' = result \o code /\ jumps' = jumps \cup {j}
    BY <1>5 DEF CompileSwitchItem
  <2>2. il \in 1 .. Len(Code)
    BY <1>0, <2>1 DEF TypeInv, TypeOK
  <2>3. Code[il].targets \in Seq(Nat)
    BY <1>a, <2>2, CodeFacts DEF CilInstr
  <2>4. t \in SortedOffsets(Code)
    <3>1. item \in Nat /\ item < Len(Code[il].targets) /\ Len(Code[il].targets) \in Nat
      BY <1>a, <2>1, <2>3
    <3>2. item + 1 \in 1 .. Len(Code[il].targets)
      BY <3>1
    <3> QED
      BY <1>a, <2>2, <3>2, CodeFacts
  <2>5. JumpCode(code, t, nextJumpTargetIndex)
    BY <1>0, <1>a, <2>4, ItemIsJumpCode
  <2>6. code \in Seq(FlatInstr)
    BY <2>5 DEF JumpCode
  <2>7. BuiltTo(result, jumpTargets, start, nextJumpTargetIndex, jumps, il)
    BY <1>d, <2>1
  <2>8. Depth(result) = n + 1 - nextJumpTargetIndex
    BY <1>a, <1>b, <2>1 DEF OpenBlocksOf
  <2>9. /\ n + 1 <= Len(result) /\ AtLeastOpen(result, n, nextJumpTargetIndex, Len(result))
        /\ Len(start) = il /\ \A i \in 1 .. il : start[i] <= Len(result) + 1
    BY <2>7 DEF BuiltTo, Landed, HasPrologue
  <2>10. il \in 1 .. Len(start) /\ start[il] \in Nat /\ start[il] <= Len(result) + 1
    <3>1. il \in 1 .. il /\ il \in 1 .. Len(start)
      BY <1>a, <2>9
    <3> QED
      BY <1>a, <2>9, <3>1, ElementOfSeq
  <2> HIDE DEF code, t
  <2>11. HasTarget(result \o code, n, jumpTargets, start, j)
    BY <1>0, <1>a, <2>4, <2>5, <2>8, <2>9, <2>10, JumpLands
  <2> HIDE DEF j
  <2>12. \A i \in jumps \cup {j} : i \in jumps \/ HasTarget(result \o code, n, jumpTargets, start, i)
    BY <2>11
  <2>13. il \in Nat
    BY <1>a
  <2>14. BuiltTo(result \o code, jumpTargets, start, nextJumpTargetIndex, jumps \cup {j}, il)
    BY <1>0, <1>a, <2>6, <2>7, <2>8, <2>12, <2>13, FlatBuilds
  <2>15. BuiltTo(result', jumpTargets', start', nextJumpTargetIndex', jumps', il')
    BY <2>1, <2>14
  <2> QED
    BY <1>f, <2>1, <2>15
<1>6. CASE EndSwitch
  <2>1. /\ phase = "switch" /\ phase' = "body" /\ il' = il + 1
        /\ UNCHANGED <<jumpTargets, nextJumpTargetIndex, result, start, jumps>>
    BY <1>6 DEF EndSwitch
  <2>2. BuiltTo(result', jumpTargets', start', nextJumpTargetIndex', jumps', il)
    BY <1>d, <2>1
  <2> QED
    BY <1>e, <2>1, <2>2
<1>7. CASE RejectInstruction
  <2>1. phase' = "failed"
    BY <1>7 DEF RejectInstruction
  <2> QED
    BY <1>0, <2>1 DEF LandInv
<1>8. CASE CloseBlocks
  <2> DEFINE n == Len(jumpTargets)
             d == Epilogue(n - nextJumpTargetIndex, method.returns)
  <2>1. /\ phase = "body" /\ phase' = "done" /\ UNCHANGED <<jumpTargets, start, jumps>>
        /\ il > Len(Code) /\ result' = result \o d
    BY <1>8 DEF CloseBlocks
  <2>2. BuiltTo(result, jumpTargets, start, nextJumpTargetIndex, jumps, il - 1)
    BY <1>c, <2>1
  <2>3. nextJumpTargetIndex = n
    <3>1. il - 1 = Len(Code)
      BY <1>a, <2>1
    <3>2. ASSUME nextJumpTargetIndex # n PROVE FALSE
      <4>1. n \in nextJumpTargetIndex + 1 .. n /\ n \in 1 .. n
        BY <1>a, <3>2
      <4>2. jumpTargets[n] > Len(Code)
        BY <2>2, <3>1, <4>1 DEF BuiltTo
      <4>3. jumpTargets[n] \in 1 .. Len(Code)
        BY <1>0, <4>1, JumpTargetFacts
      <4> QED
        BY <1>a, <4>2, <4>3
    <3> QED
      BY <3>2
  <2>4. d \in Seq(WasmInstr)
    <3>1. n - nextJumpTargetIndex \in Nat /\ method.returns \in BOOLEAN
      BY <1>a, MethodsAssumption
    <3> QED
      BY <3>1, EpilogueType
  <2> HIDE DEF d
  <2>5. Landed(result, n, jumpTargets, start, nextJumpTargetIndex, jumps)
    BY <2>2 DEF BuiltTo
  <2>6. GoesOn(start, start) /\ \A j \in jumps : j.at \in Nat
    BY <1>0, <1>a DEF GoesOn, TypeInv, TypeOK
  <2>7. GoesOn(result, result \o d) /\ \A p \in 0 .. Len(result) : Nesting(result \o d, p) = Nesting(result, p)
    BY <1>a, <2>4, AppendedGoesOn
  <2>8. Landed(result \o d, n, jumpTargets, start, nextJumpTargetIndex, jumps)
    BY <1>a, <2>5, <2>6, <2>7, LandedGoesOn
  <2>9. Landed(result', Len(jumpTargets'), jumpTargets', start', Len(jumpTargets'), jumps')
    BY <2>1, <2>3, <2>8
  <2> QED
    BY <1>0, <2>1, <2>9 DEF LandInv
<1>9. CASE UNCHANGED compilerVars
  BY <1>0, <1>9 DEF compilerVars, LandInv, Code
<1> QED
  BY <1>1, <1>2, <1>3, <1>4, <1>5, <1>6, <1>7, <1>8, <1>9 DEF Compile

(* When the code is complete every branch in it leads to its target.       *)
LEMMA LandInvEnough == LandInv => BranchesLand
<1> SUFFICES ASSUME LandInv, phase = "done", NEW j \in jumps
             PROVE  LeavesBefore(j.at, result[j.at].n, j.to) \/ RestartsFor(j)
  BY DEF BranchesLand
<1>1. TypeInv /\ Landed(result, Len(jumpTargets), jumpTargets, start, Len(jumpTargets), jumps)
  BY DEF LandInv, BalanceInv
<1> QED
  BY <1>1, LandedIsEnough

(* In the code of every method, every branch, forward or backward,         *)
(* continues at the code of the CIL instruction it names: the relative     *)
(* depths and the numbers of targets that getBreakDepth computes while     *)
(* blocks are being closed are right.                                      *)
THEOREM BranchesAlwaysLand == CompilerSpec => []BranchesLand
  BY InitLands, StepLands, LandInvEnough, PTL DEF CompilerSpec
=============================================================================
