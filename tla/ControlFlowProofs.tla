------------------------- MODULE ControlFlowProofs --------------------------
(***************************************************************************)
(* The compiled code of every method implements the control flow of its    *)
(* CIL body: CompiledControlFlow's Spec implies CilControl's.              *)
(***************************************************************************)
EXTENDS CompiledControlFlow, MethodBodyCompilerProofs

-----------------------------------------------------------------------------
(* Where the code of instruction i of a body begins, for targets ts: with  *)
(* the end of its block, if it is a target.  It goes as far as the next    *)
(* one's, the last one's to `end`.                                         *)
Origin(ts, st, i) == IF \E k \in DOMAIN ts : ts[k] = i THEN st[i] - 1 ELSE st[i]
Limit(ts, st, i, end) == IF i < Len(st) THEN Origin(ts, st, i + 1) ELSE end

(* The head of the function goes as far as this.                           *)
HeadEnd(n) == IF n = 0 THEN 2 ELSE n + 6

HeadLaid(c, n) ==
  n > 0 => /\ c[n + 2] = W("block") /\ c[n + 3] = GetLocal("jumpTarget", 0)
           /\ c[n + 4] = WN("br_table", n) /\ c[n + 5] = W("end")

(* What an instruction of the code of the CIL instruction ins, number i of *)
(* the body, may be.  It is at p, and w is the one in front of it.         *)
Fits(v, w, ins, i, p, first, n, js) ==
  /\ v.op \notin Structural \cup {"br_table"}
  /\ v.op \in {"i32.rem_s", "call"} => ins.op \in CIL!MayThrow
  /\ v.op = "return" => ins.op = "Ret"
  /\ v.op \in BranchOps => \E j \in js : j.at = p /\ j.from = i /\ j.to \in TryGetJumpTarget(ins)
  /\ v = SetLocal("jumpTarget", 0) => p # first /\ \E k \in 1 .. n : w = Const(k)

(* The code of an instruction that never falls through ends in one that    *)
(* does not either.                                                        *)
Closes(v, ins) ==
  /\ ins.op = "Br_S" => v.op = "br"
  /\ ins.op = "Ret" => v.op = "return"

(* The opcodes that are not rejected.                                      *)
Supported == StraightOps \cup DOMAIN BranchTests \cup {"Switch"}

Laid(c, ts, st, js, ins, i, lim) ==
  /\ ins.op \in Supported
  /\ st[i] <= lim
  /\ ins.op = "Nop" <=> st[i] = lim
  /\ ins.op # "Nop" => Closes(c[lim - 1], ins)
  /\ \A p \in st[i] .. lim - 1 : Fits(c[p], c[p - 1], ins, i, p, st[i], Len(ts), js)

(* The code of one instruction after the other, in the order of the body.  *)
Layout(body, c, ts, st, js, end) ==
  /\ HeadLaid(c, Len(ts))
  /\ HeadEnd(Len(ts)) <= end /\ end <= Len(c) + 1
  /\ Len(st) = 0 => end = HeadEnd(Len(ts))
  /\ Len(st) > 0 => Origin(ts, st, 1) = HeadEnd(Len(ts))
  /\ \A i \in 1 .. Len(st) :
       /\ HeadEnd(Len(ts)) <= Origin(ts, st, i)
       /\ st[i] <= end
       /\ Laid(c, ts, st, js, body[i], i, Limit(ts, st, i, end))
  /\ \A i, j \in 1 .. Len(st) : i < j => st[i] <= Origin(ts, st, j)

(* Behind the code of the body: the end of the loop, the fake return value *)
(* and the end of the function.                                            *)
Behind == IF method.returns THEN 2 ELSE 1

LayoutInv ==
  /\ LandInv
  /\ phase = "switch" => Code[il].op = "Switch"
  /\ phase \in {"body", "switch"} => Layout(Code, result, jumpTargets, start, jumps, Len(result) + 1)
  /\ phase = "done" /\ Code # <<>> =>
       /\ Len(start) = Len(Code)
       /\ Layout(Code, result, jumpTargets, start, jumps, Len(result) - Behind)
-----------------------------------------------------------------------------
(* What the code of the CIL instruction ins consists of, for n targets.    *)
Piece(code, ins, n) ==
  /\ code \in Seq(FlatInstr)
  /\ \A q \in 1 .. Len(code) :
       /\ code[q].op # "br_table"
       /\ code[q].op \in {"i32.rem_s", "call"} => ins.op \in CIL!MayThrow
       /\ code[q].op = "return" => ins.op = "Ret"
       /\ code[q].op \in BranchOps => q = Len(code)
       /\ code[q] = SetLocal("jumpTarget", 0) => q > 1 /\ \E k \in 1 .. n : code[q - 1] = Const(k)

(* The same without a branch.                                              *)
Quiet(code, ins, n) ==
  Piece(code, ins, n) /\ \A q \in 1 .. Len(code) : code[q].op \notin BranchOps

(* The instructions that may stand anywhere in it.                         *)
PlainInstr(ins) ==
  {v \in FlatInstr :
     /\ v.op \notin BranchOps \cup {"br_table"}
     /\ v.op \in {"i32.rem_s", "call"} => ins.op \in CIL!MayThrow
     /\ v.op = "return" => ins.op = "Ret"
     /\ v.x # "jumpTarget"}

(* Code that consists of those.                                            *)
LEMMA PlainIsQuiet ==
  ASSUME NEW ins, NEW n, NEW code \in Seq(PlainInstr(ins))
  PROVE  Quiet(code, ins, n)
<1>1. \A q \in 1 .. Len(code) : code[q] \in PlainInstr(ins)
  BY ElementOfSeq
<1>2. PlainInstr(ins) \subseteq FlatInstr
  BY DEF PlainInstr
<1>3. code \in Seq(FlatInstr)
  BY <1>2
<1>4. SetLocal("jumpTarget", 0).x = "jumpTarget"
  BY DEF SetLocal
<1> QED
  BY <1>1, <1>3, <1>4 DEF Quiet, Piece, PlainInstr

(* Pieces are put together.                                                *)
LEMMA PiecesJoin ==
  ASSUME NEW ins, NEW n, NEW s, NEW t, Quiet(s, ins, n), Piece(t, ins, n)
  PROVE  /\ Piece(s \o t, ins, n)
         /\ Quiet(t, ins, n) => Quiet(s \o t, ins, n)
<1> DEFINE c == s \o t
<1>1. s \in Seq(FlatInstr) /\ t \in Seq(FlatInstr)
  BY DEF Quiet, Piece
<1>2. /\ c \in Seq(FlatInstr)
      /\ Len(s) \in Nat /\ Len(t) \in Nat /\ Len(c) = Len(s) + Len(t)
      /\ \A q \in 1 .. Len(s) : c[q] = s[q]
      /\ \A q \in 1 .. Len(t) : c[Len(s) + q] = t[q]
  <2>1. s \in Seq(FlatInstr)
    BY <1>1
  <2>2. t \in Seq(FlatInstr)
    BY <1>1
  <2> QED
    BY <2>1, <2>2, Joined
<1> HIDE DEF c
<1>3. ASSUME NEW q \in 1 .. Len(c)
      PROVE  /\ c[q].op # "br_table"
             /\ c[q].op \in {"i32.rem_s", "call"} => ins.op \in CIL!MayThrow
             /\ c[q].op = "return" => ins.op = "Ret"
             /\ c[q].op \in BranchOps => q = Len(c)
             /\ c[q] = SetLocal("jumpTarget", 0) => q > 1 /\ \E k \in 1 .. n : c[q - 1] = Const(k)
             /\ Quiet(t, ins, n) => c[q].op \notin BranchOps
  <2>1. CASE q <= Len(s)
    <3>1. q \in 1 .. Len(s) /\ c[q] = s[q]
      BY <1>2, <2>1
    <3>2. /\ s[q].op # "br_table"
          /\ s[q].op \in {"i32.rem_s", "call"} => ins.op \in CIL!MayThrow
          /\ s[q].op = "return" => ins.op = "Ret"
          /\ s[q].op \notin BranchOps
          /\ s[q] = SetLocal("jumpTarget", 0) => q > 1 /\ \E k \in 1 .. n : s[q - 1] = Const(k)
      BY <3>1 DEF Quiet, Piece
    <3>3. q > 1 => c[q - 1] = s[q - 1]
      <4>1. q > 1 => q - 1 \in 1 .. Len(s)
        BY <3>1
      <4> QED
        BY <1>2, <4>1
    <3> QED
      BY <3>1, <3>2, <3>3
  <2>2. CASE ~(q <= Len(s))
    <3> DEFINE r == q - Len(s)
    <3>1. r \in 1 .. Len(t) /\ q = Len(s) + r /\ (r = Len(t) => q = Len(c)) /\ (r > 1 => q > 1)
      BY <1>2, <2>2
    <3>2. r > 1 => r - 1 \in 1 .. Len(t) /\ q - 1 = Len(s) + (r - 1)
      BY <1>2, <3>1
    <3> HIDE DEF r
    <3>3. c[q] = t[r] /\ (r > 1 => c[q - 1] = t[r - 1])
      BY <1>2, <3>1, <3>2
    <3>4. /\ t[r].op # "br_table"
          /\ t[r].op \in {"i32.rem_s", "call"} => ins.op \in CIL!MayThrow
          /\ t[r].op = "return" => ins.op = "Ret"
          /\ t[r].op \in BranchOps => r = Len(t)
          /\ t[r] = SetLocal("jumpTarget", 0) => r > 1 /\ \E k \in 1 .. n : t[r - 1] = Const(k)
          /\ Quiet(t, ins, n) => t[r].op \notin BranchOps
      BY <3>1 DEF Quiet, Piece
    <3> QED
      BY <3>1, <3>3, <3>4
  <2> QED
    BY <2>1, <2>2
<1>4. Piece(c, ins, n)
  BY <1>2, <1>3 DEF Piece
<1>5. Quiet(t, ins, n) => Quiet(c, ins, n)
  BY <1>3, <1>4 DEF Quiet
<1> QED
  BY <1>4, <1>5 DEF c

(* The instructions the compiler emits for an opcode that does not branch. *)
LEMMA PlainTypes ==
  ASSUME NEW ins
  PROVE  /\ \A op \in {"drop", "i32.add", "i32.sub", "i32.mul", "i32.eq", "i32.lt_s", "i32.gt_s", "i32.le_s"} :
              W(op) \in PlainInstr(ins)
         /\ ins.op \in CIL!MayThrow => W("i32.rem_s") \in PlainInstr(ins)
         /\ ins.op \in CIL!MayThrow => \A k \in Int : WN("call", k) \in PlainInstr(ins)
         /\ ins.op = "Ret" => W("return") \in PlainInstr(ins)
         /\ \A op \in {"get_global", "i32.load", "i32.store"}, k \in Int : WN(op, k) \in PlainInstr(ins)
         /\ \A k \in Int : Const(k) \in PlainInstr(ins)
         /\ \A x \in {"arg", "loc", "dupTemp", "switchValue", "ctorparam", "newObjectAddr"}, k \in Int :
              GetLocal(x, k) \in PlainInstr(ins) /\ SetLocal(x, k) \in PlainInstr(ins)
<1>1. ASSUME NEW op, W(op) \in FlatInstr, op \notin BranchOps \cup {"br_table"},
             op \in {"i32.rem_s", "call"} => ins.op \in CIL!MayThrow, op = "return" => ins.op = "Ret"
      PROVE  W(op) \in PlainInstr(ins)
  <2>1. W(op).op = op /\ W(op).x # "jumpTarget"
    BY DEF W
  <2> QED
    BY <1>1, <2>1 DEF PlainInstr
<1>2. ASSUME NEW op, NEW k \in Int, WN(op, k) \in FlatInstr, op \notin BranchOps \cup {"br_table"},
             op \in {"i32.rem_s", "call"} => ins.op \in CIL!MayThrow, op = "return" => ins.op = "Ret"
      PROVE  WN(op, k) \in PlainInstr(ins)
  <2>1. WN(op, k).op = op /\ WN(op, k).x # "jumpTarget"
    BY DEF WN
  <2> QED
    BY <1>2, <2>1 DEF PlainInstr
<1>3. ASSUME NEW op \in {"drop", "i32.add", "i32.sub", "i32.mul", "i32.eq", "i32.lt_s", "i32.gt_s", "i32.le_s"}
      PROVE  W(op) \in PlainInstr(ins)
  <2>1. W(op) \in FlatInstr
    BY InstrTypes, EmittedOps
  <2>2. op \notin BranchOps \cup {"br_table"} /\ op \notin {"i32.rem_s", "call"} /\ op # "return"
    BY DEF BranchOps
  <2> QED
    BY <1>1, <2>1, <2>2
<1>4. ASSUME ins.op \in CIL!MayThrow PROVE W("i32.rem_s") \in PlainInstr(ins)
  <2>1. W("i32.rem_s") \in FlatInstr
    BY InstrTypes, EmittedOps
  <2>2. "i32.rem_s" \notin BranchOps \cup {"br_table"} /\ "i32.rem_s" # "return"
    BY DEF BranchOps
  <2> QED
    BY <1>1, <1>4, <2>1, <2>2
<1>5. ASSUME ins.op = "Ret" PROVE W("return") \in PlainInstr(ins)
  <2>1. W("return") \in FlatInstr
    BY InstrTypes, EmittedOps
  <2>2. "return" \notin BranchOps \cup {"br_table"} /\ "return" \notin {"i32.rem_s", "call"}
    BY DEF BranchOps
  <2> QED
    BY <1>1, <1>5, <2>1, <2>2
<1>6. ASSUME ins.op \in CIL!MayThrow, NEW k \in Int PROVE WN("call", k) \in PlainInstr(ins)
  <2>1. WN("call", k) \in FlatInstr
    BY InstrTypes, EmittedOps
  <2>2. "call" \notin BranchOps \cup {"br_table"} /\ "call" # "return"
    BY DEF BranchOps
  <2> QED
    BY <1>2, <1>6, <2>1, <2>2
<1>7. ASSUME NEW op \in {"get_global", "i32.load", "i32.store", "i32.const"}, NEW k \in Int
      PROVE  WN(op, k) \in PlainInstr(ins)
  <2>1. WN(op, k) \in FlatInstr
    BY InstrTypes, EmittedOps
  <2>2. op \notin BranchOps \cup {"br_table"} /\ op \notin {"i32.rem_s", "call"} /\ op # "return"
    BY DEF BranchOps
  <2> QED
    BY <1>2, <2>1, <2>2
<1>8. \A k \in Int : Const(k) \in PlainInstr(ins)
  BY <1>7 DEF Const
<1>9. ASSUME NEW x \in {"arg", "loc", "dupTemp", "switchValue", "ctorparam", "newObjectAddr"}, NEW k \in Int
      PROVE  GetLocal(x, k) \in PlainInstr(ins) /\ SetLocal(x, k) \in PlainInstr(ins)
  <2>1. GetLocal(x, k) \in FlatInstr /\ SetLocal(x, k) \in FlatInstr
    BY InstrTypes, EmittedOps
  <2>2. /\ GetLocal(x, k).op = "get_local" /\ GetLocal(x, k).x # "jumpTarget"
        /\ SetLocal(x, k).op = "set_local" /\ SetLocal(x, k).x # "jumpTarget"
    BY DEF GetLocal, SetLocal
  <2>3. \A op \in {"get_local", "set_local"} :
          op \notin BranchOps \cup {"br_table"} /\ op \notin {"i32.rem_s", "call"} /\ op # "return"
    BY DEF BranchOps
  <2> QED
    BY <2>1, <2>2, <2>3 DEF PlainInstr
<1> QED
  BY <1>3, <1>4, <1>5, <1>6, <1>7, <1>8, <1>9

(* Newobj's code is plain.                                                 *)
LEMMA NewobjPlain ==
  ASSUME NEW ins \in CilInstr, ins.op = "Newobj"
  PROVE  CompileNewobj(ins) \in Seq(PlainInstr(ins))
<1>1. ins.params \in Nat /\ ins.n \in Int
  BY DEF CilInstr
<1>2. ins.op \in CIL!MayThrow
  BY DEF CIL!MayThrow
<1> DEFINE P == PlainInstr(ins)
<1>a. /\ \A k \in Int : WN("call", k) \in P /\ WN("get_global", k) \in P
      /\ \A k \in Int : GetLocal("ctorparam", k) \in P /\ SetLocal("ctorparam", k) \in P
      /\ GetLocal("newObjectAddr", 0) \in P /\ SetLocal("newObjectAddr", 0) \in P
  BY <1>2, PlainTypes
<1> HIDE DEF P
<1>3. [k \in 1 .. ins.params |-> SetLocal("ctorparam", ins.params - k)] \in Seq(P)
  BY <1>1, <1>a
<1>4. [k \in 1 .. ins.params |-> GetLocal("ctorparam", k - 1)] \in Seq(P)
  BY <1>1, <1>a
<1>5. <<WN("get_global", ins.n), WN("call", 0), SetLocal("newObjectAddr", 0),
        GetLocal("newObjectAddr", 0)>> \in Seq(P)
  BY <1>1, <1>a
<1>6. <<WN("call", ins.n), GetLocal("newObjectAddr", 0)>> \in Seq(P)
  BY <1>1, <1>a
<1>7. CompileNewobj(ins) \in Seq(P)
  BY <1>3, <1>4, <1>5, <1>6, ConcatProperties DEF CompileNewobj
<1> QED
  BY <1>7 DEF P

(* So is the code of every opcode that does not branch.                    *)
LEMMA StraightPlain ==
  ASSUME NEW ins \in CilInstr, ins.op \in StraightOps
  PROVE  CompileStraight(ins) \in Seq(PlainInstr(ins))
<1>1. ins.n \in Int /\ ins.op \in STRING
  BY DEF CilInstr
<1>2. GetFieldOffset(ins.n) \in Int
  BY <1>1 DEF GetFieldOffset, MonoObjectHeaderLength
<1> DEFINE P == PlainInstr(ins)
<1>3. CASE ins.op \in DOMAIN SimpleOps
  <2>1. W(SimpleOps[ins.op]) \in P
    BY <1>3, PlainTypes DEF SimpleOps, CIL!MayThrow
  <2> HIDE DEF P
  <2>2. <<W(SimpleOps[ins.op])>> \in Seq(P)
    BY <2>1
  <2> QED
    BY <1>3, <2>2 DEF CompileStraight, SimpleOps, P
<1>4. CASE ins.op = "Newobj"
  BY <1>4, NewobjPlain DEF CompileStraight, SimpleOps
<1>5. CASE ins.op \in {"Call", "Callvirt", "Dup", "Ldarg", "Ldfld", "Ldloc", "Ldc_I4"}
  <2>1. CASE ins.op \in {"Call", "Callvirt"}
    <3>1. WN("call", ins.n) \in P
      BY <1>1, <2>1, PlainTypes DEF CIL!MayThrow
    <3> QED
      BY <2>1, <3>1 DEF CompileStraight, SimpleOps
  <2>2. CASE ins.op \in {"Dup", "Ldarg", "Ldfld", "Ldloc", "Ldc_I4"}
    <3>1. /\ SetLocal("dupTemp", 0) \in P /\ GetLocal("dupTemp", 0) \in P
          /\ GetLocal("arg", ins.n) \in P /\ WN("i32.load", GetFieldOffset(ins.n)) \in P
          /\ GetLocal("loc", ins.n) \in P /\ Const(ins.n) \in P
      BY <1>1, <1>2, PlainTypes
    <3> HIDE DEF P
    <3>2. CompileStraight(ins) \in Seq(P)
      BY <2>2, <3>1 DEF CompileStraight, SimpleOps
    <3> QED
      BY <3>2 DEF P
  <2> QED
    BY <1>5, <2>1, <2>2
<1>6. CASE ins.op \in {"Neg", "Starg", "Stfld", "Stloc", "Nop"}
  <2>1. /\ Const(-1) \in P /\ W("i32.mul") \in P /\ SetLocal("arg", ins.n) \in P
        /\ WN("i32.store", GetFieldOffset(ins.n)) \in P /\ SetLocal("loc", ins.n) \in P
    BY <1>1, <1>2, PlainTypes
  <2> HIDE DEF P
  <2>2. CompileStraight(ins) \in Seq(P)
    BY <1>6, <2>1 DEF CompileStraight, SimpleOps
  <2> QED
    BY <2>2 DEF P
<1> QED
  BY <1>3, <1>4, <1>5, <1>6 DEF StraightOps

(* The last instruction of a piece of code.                                *)
Final(code) == code[Len(code)]

(* Only a Nop has none, and that of a Ret is a return.                     *)
LEMMA StraightLength ==
  ASSUME NEW ins \in CilInstr, ins.op \in StraightOps
  PROVE  LET code == CompileStraight(ins)
         IN  /\ Len(code) \in Nat
             /\ Len(code) = 0 <=> ins.op = "Nop"
             /\ Len(code) > 0 => Closes(Final(code), ins)
<1> DEFINE code == CompileStraight(ins)
<1>0. Len(code) \in Nat
  BY StraightPlain
<1>1. CASE ins.op \in DOMAIN SimpleOps
  <2>1. code = <<W(SimpleOps[ins.op])>>
    BY <1>1 DEF CompileStraight, SimpleOps
  <2>2. ins.op = "Ret" => SimpleOps[ins.op] = "return"
    BY DEF SimpleOps
  <2>3. ins.op # "Br_S" /\ ins.op # "Nop"
    BY <1>1 DEF SimpleOps
  <2>a. W(SimpleOps[ins.op]).op = SimpleOps[ins.op]
    BY DEF W
  <2> HIDE DEF code
  <2>4. Len(code) = 1 /\ code[1] = W(SimpleOps[ins.op])
    BY <2>1
  <2> QED
    BY <2>2, <2>3, <2>4, <2>a DEF Closes, Final, code
<1>2. CASE ins.op = "Newobj"
  <2> DEFINE P == PlainInstr(ins)
             a == ([k \in 1 .. ins.params |-> SetLocal("ctorparam", ins.params - k)]
                     \o <<WN("get_global", ins.n), WN("call", 0), SetLocal("newObjectAddr", 0),
                          GetLocal("newObjectAddr", 0)>>)
                     \o [k \in 1 .. ins.params |-> GetLocal("ctorparam", k - 1)]
             b == <<WN("call", ins.n), GetLocal("newObjectAddr", 0)>>
  <2>1. ins.params \in Nat /\ ins.n \in Int /\ ins.op \in CIL!MayThrow
    BY <1>2 DEF CilInstr, CIL!MayThrow
  <2>2. /\ \A k \in Int : WN("call", k) \in P /\ WN("get_global", k) \in P
        /\ \A k \in Int : GetLocal("ctorparam", k) \in P /\ SetLocal("ctorparam", k) \in P
        /\ GetLocal("newObjectAddr", 0) \in P /\ SetLocal("newObjectAddr", 0) \in P
    BY <2>1, PlainTypes
  <2> HIDE DEF P
  <2>3. [k \in 1 .. ins.params |-> SetLocal("ctorparam", ins.params - k)] \in Seq(P)
    BY <2>1, <2>2
  <2>4. [k \in 1 .. ins.params |-> GetLocal("ctorparam", k - 1)] \in Seq(P)
    BY <2>1, <2>2
  <2>5. <<WN("get_global", ins.n), WN("call", 0), SetLocal("newObjectAddr", 0),
          GetLocal("newObjectAddr", 0)>> \in Seq(P)
    BY <2>1, <2>2
  <2>6. a \in Seq(P)
    BY <2>3, <2>4, <2>5, ConcatProperties
  <2>7. b \in Seq(P) /\ Len(b) = 2
    BY <2>1, <2>2
  <2>8. code = a \o b
    BY <1>2 DEF CompileStraight, CompileNewobj, SimpleOps
  <2> HIDE DEF a, b
  <2>a. b \in Seq(P)
    BY <2>7
  <2>9. Len(code) = Len(a) + Len(b) /\ Len(a) \in Nat
    BY <2>6, <2>8, <2>a, Joined
  <2>10. Len(code) # 0
    BY <2>7, <2>9
  <2> QED
    BY <1>0, <1>2, <2>10 DEF Closes
<1>3. CASE ins.op \in {"Call", "Callvirt", "Dup", "Ldarg", "Ldfld", "Ldloc", "Ldc_I4"}
  <2>1. Len(code) # 0
    BY <1>3 DEF CompileStraight, SimpleOps
  <2> QED
    BY <1>0, <1>3, <2>1 DEF Closes
<1>4. CASE ins.op \in {"Neg", "Starg", "Stfld", "Stloc"}
  <2>1. Len(code) # 0
    BY <1>4 DEF CompileStraight, SimpleOps
  <2> QED
    BY <1>0, <1>4, <2>1 DEF Closes
<1>5. CASE ins.op = "Nop"
  <2>1. Len(code) = 0
    BY <1>5 DEF CompileStraight, SimpleOps
  <2> QED
    BY <1>5, <2>1
<1> QED
  BY <1>1, <1>2, <1>3, <1>4, <1>5 DEF StraightOps

(* The code of a jump: something quiet, the number of the target unless    *)
(* the jump is forward, something quiet again, and the branch.             *)
JumpWith(before, after, op, t, closed) ==
  ((before \o JumpSetup(t, closed)) \o after) \o <<WN(op, BreakDepth(t, closed))>>

EndsWith(code, op) == Len(code) \in Nat \ {0} /\ Final(code).op = op

(* It is a piece that ends in the branch.                                  *)
LEMMA JumpIsPiece ==
  ASSUME TypeInv, NEW t \in SortedOffsets(Code), NEW closed \in 0 .. Len(jumpTargets), NEW ins,
         NEW before \in Seq(PlainInstr(ins)), NEW after \in Seq(PlainInstr(ins)),
         NEW op \in BranchOps
  PROVE  LET code == JumpWith(before, after, op, t, closed)
         IN  Piece(code, ins, Len(jumpTargets)) /\ EndsWith(code, op)
<1> DEFINE n     == Len(jumpTargets)
           code  == JumpWith(before, after, op, t, closed)
           setup == JumpSetup(t, closed)
           v     == WN(op, BreakDepth(t, closed))
           last  == <<v>>
           one   == before \o setup
           two   == one \o after
<1>1. setup \in Seq(FlatInstr) /\ v \in FlatInstr
  BY JumpTypes, InstrTypes, EmittedOps DEF BranchOps
<1>2. v.op = op
  BY DEF WN
<1>3. Quiet(setup, ins, n)
  <2>1. CASE IsForward(t, closed)
    <3>1. setup = <<>>
      BY <2>1 DEF JumpSetup
    <3> QED
      BY <1>1, <3>1 DEF Quiet, Piece
  <2>2. CASE ~IsForward(t, closed)
    <3> DEFINE k == TargetIndex(t) + 1
    <3>1. k \in 1 .. n
      <4>1. TargetIndex(t) \in 0 .. n - 1 /\ n \in Nat
        BY JumpTargetFacts
      <4> QED
        BY <4>1
    <3>2. setup = <<Const(k), SetLocal("jumpTarget", 0)>>
      BY <2>2 DEF JumpSetup
    <3>3. Const(k).op = "i32.const" /\ SetLocal("jumpTarget", 0).op = "set_local"
      BY DEF Const, WN, SetLocal
    <3>4. Len(setup) = 2 /\ setup[1] = Const(k) /\ setup[2] = SetLocal("jumpTarget", 0)
      BY <3>2
    <3> HIDE DEF setup, k
    <3>5. ASSUME NEW q \in 1 .. Len(setup)
          PROVE  /\ setup[q].op \in {"i32.const", "set_local"}
                 /\ setup[q] = SetLocal("jumpTarget", 0) => q > 1 /\ setup[q - 1] = Const(k)
      <4>1. q = 1 \/ q = 2
        BY <3>4
      <4>2. Const(k) # SetLocal("jumpTarget", 0)
        BY <3>3
      <4>3. CASE q = 1
        BY <3>3, <3>4, <4>2, <4>3
      <4>4. CASE q = 2
        BY <3>3, <3>4, <4>4
      <4> QED
        BY <4>1, <4>3, <4>4
    <3> QED
      BY <1>1, <3>1, <3>5 DEF Quiet, Piece, BranchOps
  <2> QED
    BY <2>1, <2>2
<1>4. Piece(last, ins, n)
  <2>1. last \in Seq(FlatInstr) /\ Len(last) = 1 /\ last[1] = v
    BY <1>1
  <2>2. v.op \notin {"br_table", "i32.rem_s", "call", "return"} /\ v # SetLocal("jumpTarget", 0)
    BY <1>2 DEF SetLocal, BranchOps
  <2> HIDE DEF last, v
  <2>3. \A q \in 1 .. Len(last) : q = Len(last) /\ last[q] = v
    BY <2>1
  <2> QED
    BY <2>1, <2>2, <2>3 DEF Piece
<1>5. Quiet(before, ins, n)
  BY PlainIsQuiet
<1>6. Quiet(after, ins, n)
  BY PlainIsQuiet
<1> HIDE DEF setup, last
<1>7. Quiet(one, ins, n)
  <2>1. Piece(setup, ins, n)
    BY <1>3 DEF Quiet
  <2> QED
    BY <1>3, <1>5, <2>1, PiecesJoin
<1> HIDE DEF one
<1>8. Quiet(two, ins, n)
  <2>1. Piece(after, ins, n)
    BY <1>6 DEF Quiet
  <2> QED
    BY <1>6, <1>7, <2>1, PiecesJoin
<1> HIDE DEF two
<1>9. Piece(two \o last, ins, n)
  BY <1>4, <1>8, PiecesJoin
<1>10. code = two \o last
  BY DEF two, one, setup, last, v, JumpWith
<1> HIDE DEF code
<1>11. Len(code) \in Nat \ {0} /\ code[Len(code)] = v
  <2>1. two \in Seq(FlatInstr)
    BY <1>8 DEF Quiet, Piece
  <2>2. last \in Seq(FlatInstr)
    BY <1>4 DEF Piece
  <2>a. /\ Len(two) \in Nat /\ Len(two \o last) = Len(two) + Len(last)
        /\ \A q \in 1 .. Len(last) : (two \o last)[Len(two) + q] = last[q]
    BY <2>1, <2>2, Joined
  <2>3. /\ Len(two) \in Nat /\ Len(code) = Len(two) + Len(last)
        /\ \A q \in 1 .. Len(last) : code[Len(two) + q] = last[q]
    BY <1>10, <2>a
  <2>4. Len(last) = 1 /\ last[1] = v
    BY DEF last
  <2>5. 1 \in 1 .. Len(last)
    BY <2>4
  <2>6. code[Len(two) + 1] = v /\ Len(code) = Len(two) + 1
    BY <2>3, <2>4, <2>5
  <2> QED
    BY <2>3, <2>6
<1> HIDE DEF v
<1> QED
  BY <1>2, <1>9, <1>10, <1>11 DEF code, Final, EndsWith

(* The branch opcodes' code.                                               *)
LEMMA BranchIsPiece ==
  ASSUME TypeInv, NEW t \in SortedOffsets(Code), NEW closed \in 0 .. Len(jumpTargets), NEW ins,
         ins.op \in DOMAIN BranchTests,
         NEW code,
         code = JumpSetup(t, closed) \o BranchTests[ins.op] \o <<WN(BranchOp(ins.op), BreakDepth(t, closed))>>
  PROVE  /\ Piece(code, ins, Len(jumpTargets))
         /\ Len(code) \in Nat \ {0} /\ Closes(Final(code), ins)
<1> DEFINE test  == BranchTests[ins.op]
           setup == JumpSetup(t, closed)
           last  == <<WN(BranchOp(ins.op), BreakDepth(t, closed))>>
<1>1. test \in Seq(PlainInstr(ins))
  <2>1. \/ test = <<>>
        \/ test = <<Const(1), W("i32.sub")>>
        \/ \E name \in {"i32.eq", "i32.gt_s", "i32.lt_s", "i32.le_s"} : test = <<W(name)>>
    BY DEF BranchTests
  <2>2. /\ Const(1) \in PlainInstr(ins) /\ W("i32.sub") \in PlainInstr(ins)
        /\ \A name \in {"i32.eq", "i32.gt_s", "i32.lt_s", "i32.le_s"} : W(name) \in PlainInstr(ins)
    BY PlainTypes
  <2> HIDE DEF test
  <2>a. CASE test = <<Const(1), W("i32.sub")>>
    <3>1. <<Const(1), W("i32.sub")>> \in Seq(PlainInstr(ins))
      BY <2>2
    <3> QED
      BY <2>a, <3>1
  <2>b. ASSUME NEW name \in {"i32.eq", "i32.gt_s", "i32.lt_s", "i32.le_s"}, test = <<W(name)>>
        PROVE  test \in Seq(PlainInstr(ins))
    <3>1. <<W(name)>> \in Seq(PlainInstr(ins))
      BY <2>2
    <3> QED
      BY <2>b, <3>1
  <2>c. CASE test = <<>>
    BY <2>c
  <2>3. test \in Seq(PlainInstr(ins))
    BY <2>1, <2>a, <2>b, <2>c
  <2> QED
    BY <2>3
<1>2. <<>> \in Seq(PlainInstr(ins))
  OBVIOUS
<1>3. BranchOp(ins.op) \in BranchOps /\ (ins.op = "Br_S" => BranchOp(ins.op) = "br") /\ ins.op # "Ret"
  BY DEF BranchOp, BranchTests, BranchOps
<1>4. setup \in Seq(FlatInstr)
  BY JumpTypes
<1> HIDE DEF test
<1>a. test \in Seq(PlainInstr(ins))
  BY <1>1 DEF test
<1>5. code = JumpWith(<<>>, test, BranchOp(ins.op), t, closed)
  <2>1. <<>> \o setup = setup
    BY <1>4, ConcatEmptySeq
  <2> QED
    BY <2>1 DEF test, JumpWith
<1>6. Piece(code, ins, Len(jumpTargets)) /\ EndsWith(code, BranchOp(ins.op))
  <2> DEFINE x == JumpWith(<<>>, test, BranchOp(ins.op), t, closed)
  <2>1. Piece(x, ins, Len(jumpTargets)) /\ EndsWith(x, BranchOp(ins.op))
    <3>1. BranchOp(ins.op) \in BranchOps
      BY <1>3
    <3> QED
      BY <1>2, <1>a, <3>1, JumpIsPiece, Zenon
  <2> QED
    BY <1>5, <2>1
<1> QED
  BY <1>3, <1>6 DEF Closes, EndsWith

(* The code for one target of a switch.                                    *)
LEMMA ItemIsPiece ==
  ASSUME TypeInv, NEW t \in SortedOffsets(Code), NEW closed \in 0 .. Len(jumpTargets), NEW ins, NEW i \in Nat,
         NEW code,
         code = <<GetLocal("switchValue", 0), Const(i), W("i32.eq")>> \o JumpSetup(t, closed)
                  \o <<WN("br_if", BreakDepth(t, closed))>>
  PROVE  Piece(code, ins, Len(jumpTargets)) /\ Len(code) \in Nat \ {0}
<1> DEFINE test  == <<GetLocal("switchValue", 0), Const(i), W("i32.eq")>>
           setup == JumpSetup(t, closed)
           last  == <<WN("br_if", BreakDepth(t, closed))>>
<1>1. test \in Seq(PlainInstr(ins))
  <2> DEFINE P == PlainInstr(ins)
  <2>1. GetLocal("switchValue", 0) \in P /\ Const(i) \in P /\ W("i32.eq") \in P
    BY PlainTypes
  <2> HIDE DEF P
  <2>2. test \in Seq(P)
    BY <2>1
  <2> QED
    BY <2>2 DEF P
<1>2. <<>> \in Seq(PlainInstr(ins))
  OBVIOUS
<1>3. test \o setup \in Seq(FlatInstr)
  <2>1. setup \in Seq(FlatInstr)
    BY JumpTypes
  <2>2. PlainInstr(ins) \subseteq FlatInstr
    BY DEF PlainInstr
  <2>3. test \in Seq(FlatInstr)
    BY <1>1, <2>2
  <2> HIDE DEF test, setup
  <2> QED
    BY <2>1, <2>3, ConcatProperties
<1> HIDE DEF test
<1>a. test \in Seq(PlainInstr(ins))
  BY <1>1 DEF test
<1>4. code = JumpWith(test, <<>>, "br_if", t, closed)
  <2>1. (test \o setup) \o <<>> = test \o setup
    BY <1>3, ConcatEmptySeq
  <2> QED
    BY <2>1 DEF test, JumpWith
<1> QED
  <2> DEFINE x == JumpWith(test, <<>>, "br_if", t, closed)
  <2>1. Piece(x, ins, Len(jumpTargets)) /\ EndsWith(x, "br_if")
    <3>1. "br_if" \in BranchOps
      BY DEF BranchOps
    <3> QED
      BY <1>2, <1>a, <3>1, JumpIsPiece, Zenon
  <2> QED
    BY <1>4, <2>1 DEF EndsWith
-----------------------------------------------------------------------------
(* Where an instruction's code begins.                                     *)
LEMMA OriginIs ==
  ASSUME NEW ts, NEW st, NEW i
  PROVE  /\ (\E k \in DOMAIN ts : ts[k] = i) => Origin(ts, st, i) = st[i] - 1
         /\ ~(\E k \in DOMAIN ts : ts[k] = i) => Origin(ts, st, i) = st[i]
         /\ \A st2 : st2[i] = st[i] => Origin(ts, st2, i) = Origin(ts, st, i)
  BY DEF Origin

(* A piece behind other code fits.                                         *)
LEMMA PieceFits ==
  ASSUME NEW c \in Seq(WasmInstr), NEW code, NEW ins, NEW i, NEW n, NEW js, NEW first \in Nat,
         first <= Len(c) + 1, Piece(code, ins, n),
         \A q \in 1 .. Len(code) : code[q].op \in BranchOps =>
           \E j \in js : j.at = Len(c) + q /\ j.from = i /\ j.to \in TryGetJumpTarget(ins),
         NEW p \in Len(c) + 1 .. Len(c) + Len(code)
  PROVE  Fits((c \o code)[p], (c \o code)[p - 1], ins, i, p, first, n, js)
<1> DEFINE e == c \o code
           q == p - Len(c)
<1>1. code \in Seq(FlatInstr) /\ code \in Seq(WasmInstr)
  BY FlatIsCode DEF Piece
<1>2. code \in Seq(WasmInstr)
  BY <1>1
<1>3. /\ Len(c) \in Nat /\ Len(code) \in Nat
      /\ \A x \in 1 .. Len(code) : e[Len(c) + x] = code[x]
  BY <1>2, Joined
<1> HIDE DEF e
<1>4. /\ q \in 1 .. Len(code) /\ p = Len(c) + q
      /\ q > 1 => q - 1 \in 1 .. Len(code) /\ p - 1 = Len(c) + (q - 1) /\ p # first
  BY <1>3
<1> HIDE DEF q
<1>5. e[p] = code[q] /\ (q > 1 => e[p - 1] = code[q - 1])
  BY <1>3, <1>4
<1>6. code[q].op \notin Structural
  <2>1. code[q] \in FlatInstr
    BY <1>1, <1>4, ElementOfSeq
  <2> QED
    BY <2>1 DEF FlatInstr, FlatOps
<1>7. Fits(e[p], e[p - 1], ins, i, p, first, n, js)
  BY <1>4, <1>5, <1>6 DEF Fits, Piece
<1> QED
  BY <1>7 DEF e

(* Code that is laid out stays so when more is appended and more branches  *)
(* are recorded.                                                           *)
LEMMA LaidGoesOn ==
  ASSUME NEW c, NEW e, GoesOn(c, e), NEW ts, NEW st, NEW st2, NEW js, NEW js2, js \subseteq js2, NEW ins,
         NEW i, st[i] \in Nat, st[i] > 1, st2[i] = st[i], NEW lim \in Nat, lim <= Len(c) + 1,
         Laid(c, ts, st, js, ins, i, lim)
  PROVE  Laid(e, ts, st2, js2, ins, i, lim)
<1>1. /\ Len(c) \in Nat /\ \A q \in 1 .. Len(c) : e[q] = c[q]
  BY DEF GoesOn
<1>2. ASSUME NEW p \in st[i] .. lim - 1
      PROVE  Fits(e[p], e[p - 1], ins, i, p, st2[i], Len(ts), js2)
  <2>1. p \in 1 .. Len(c) /\ p - 1 \in 1 .. Len(c)
    BY <1>1
  <2>2. Fits(c[p], c[p - 1], ins, i, p, st[i], Len(ts), js)
    BY DEF Laid
  <2>3. e[p] = c[p] /\ e[p - 1] = c[p - 1]
    BY <1>1, <2>1
  <2> QED
    BY <2>2, <2>3 DEF Fits
<1>3. ins.op # "Nop" => e[lim - 1] = c[lim - 1]
  <2>1. ins.op # "Nop" => st[i] < lim
    BY DEF Laid
  <2>2. ins.op # "Nop" => lim - 1 \in 1 .. Len(c)
    BY <1>1, <2>1
  <2> QED
    BY <1>1, <2>2
<1> QED
  BY <1>2, <1>3 DEF Laid
-----------------------------------------------------------------------------
(* The places a layout consists of are in order, and behind the first      *)
(* instruction of the function.                                            *)
LEMMA LayoutFacts ==
  ASSUME NEW body, NEW c, Len(c) \in Nat, NEW ts, Len(ts) \in Nat, NEW st \in Seq(Nat), NEW js,
         NEW end \in Nat, Layout(body, c, ts, st, js, end)
  PROVE  /\ HeadEnd(Len(ts)) \in Nat /\ HeadEnd(Len(ts)) > 1
         /\ Len(ts) > 0 => HeadEnd(Len(ts)) = Len(ts) + 6
         /\ \A i \in 1 .. Len(st) :
              LET lim == Limit(ts, st, i, end)
              IN  /\ st[i] \in Nat /\ st[i] > 1 /\ Origin(ts, st, i) \in Nat
                  /\ HeadEnd(Len(ts)) <= Origin(ts, st, i) /\ Origin(ts, st, i) <= st[i]
                  /\ lim \in Nat /\ st[i] <= lim /\ lim <= end
                  /\ Laid(c, ts, st, js, body[i], i, lim)
<1> DEFINE h == HeadEnd(Len(ts))
<1>1. h \in Nat /\ h > 1 /\ (Len(ts) > 0 => h = Len(ts) + 6)
  BY DEF HeadEnd
<1> HIDE DEF h
<1>2. ASSUME NEW i \in 1 .. Len(st)
      PROVE  /\ st[i] \in Nat /\ st[i] > 1 /\ Origin(ts, st, i) \in Nat
             /\ h <= Origin(ts, st, i) /\ Origin(ts, st, i) <= st[i] /\ st[i] <= end
  <2>1. st[i] \in Nat
    BY ElementOfSeq
  <2>2. Origin(ts, st, i) = st[i] \/ Origin(ts, st, i) = st[i] - 1
    BY OriginIs
  <2>3. h <= Origin(ts, st, i) /\ st[i] <= end
    BY DEF Layout, h
  <2> QED
    BY <1>1, <2>1, <2>2, <2>3
<1>3. ASSUME NEW i \in 1 .. Len(st)
      PROVE  LET lim == Limit(ts, st, i, end)
             IN  lim \in Nat /\ st[i] <= lim /\ lim <= end /\ Laid(c, ts, st, js, body[i], i, lim)
  <2> DEFINE lim == Limit(ts, st, i, end)
  <2>1. Laid(c, ts, st, js, body[i], i, lim)
    BY DEF Layout
  <2>2. st[i] <= lim
    BY <2>1 DEF Laid
  <2>3. CASE i < Len(st)
    <3>1. i + 1 \in 1 .. Len(st)
      BY <2>3
    <3>2. lim = Origin(ts, st, i + 1)
      BY <2>3 DEF Limit
    <3> HIDE DEF lim
    <3>3. Origin(ts, st, i + 1) \in Nat /\ Origin(ts, st, i + 1) <= st[i + 1] /\ st[i + 1] <= end /\ st[i + 1] \in Nat
      BY <1>2, <3>1
    <3>4. \A a, b, d \in Nat : a <= b /\ b <= d => a <= d
      OBVIOUS
    <3>5. lim \in Nat /\ lim <= end
      BY <3>2, <3>3, <3>4, Zenon
    <3> QED
      BY <2>1, <2>2, <3>5 DEF lim
  <2>4. CASE ~(i < Len(st))
    <3>1. lim = end
      BY <2>4 DEF Limit
    <3> QED
      BY <2>1, <2>2, <3>1
  <2> QED
    BY <2>3, <2>4
<1> QED
  BY <1>1, <1>2, <1>3 DEF h

(* Code behind it leaves a layout as it is.                                *)
LEMMA LayoutGoesOn ==
  ASSUME NEW body, NEW c, NEW e, GoesOn(c, e), NEW ts, Len(ts) \in Nat, NEW st \in Seq(Nat), NEW js,
         NEW js2, js \subseteq js2, NEW end \in Nat, Layout(body, c, ts, st, js, end)
  PROVE  Layout(body, e, ts, st, js2, end)
<1> DEFINE n == Len(ts)
<1>1. Len(c) \in Nat /\ Len(e) \in Nat /\ Len(c) <= Len(e) /\ \A q \in 1 .. Len(c) : e[q] = c[q]
  BY DEF GoesOn
<1>2. HeadEnd(n) \in Nat /\ HeadEnd(n) > 1 /\ (n > 0 => HeadEnd(n) = n + 6)
  BY <1>1, LayoutFacts
<1>3. HeadEnd(n) <= end /\ end <= Len(c) + 1
  BY DEF Layout
<1>4. HeadLaid(e, n)
  <2>1. HeadLaid(c, n)
    BY DEF Layout
  <2>2. n > 0 => n + 5 <= Len(c)
    BY <1>1, <1>2, <1>3
  <2>3. n > 0 => /\ e[n + 2] = c[n + 2] /\ e[n + 3] = c[n + 3] /\ e[n + 4] = c[n + 4] /\ e[n + 5] = c[n + 5]
    <3>1. n > 0 => n + 2 \in 1 .. Len(c) /\ n + 3 \in 1 .. Len(c) /\ n + 4 \in 1 .. Len(c) /\ n + 5 \in 1 .. Len(c)
      BY <1>1, <2>2
    <3> QED
      BY <1>1, <3>1
  <2> QED
    BY <2>1, <2>3 DEF HeadLaid
<1>5. end <= Len(e) + 1
  BY <1>1, <1>3
<1>6. ASSUME NEW i \in 1 .. Len(st)
      PROVE  Laid(e, ts, st, js2, body[i], i, Limit(ts, st, i, end))
  <2> DEFINE lim == Limit(ts, st, i, end)
  <2>1. st[i] \in Nat /\ st[i] > 1 /\ lim \in Nat /\ lim <= end /\ Laid(c, ts, st, js, body[i], i, lim)
    BY <1>1, LayoutFacts
  <2> HIDE DEF lim
  <2>2. lim <= Len(c) + 1
    BY <1>1, <1>3, <2>1
  <2>3. Laid(e, ts, st, js2, body[i], i, lim)
    BY <2>1, <2>2, LaidGoesOn
  <2> QED
    BY <2>3 DEF lim
<1> QED
  BY <1>4, <1>5, <1>6 DEF Layout

(* The code of the last instruction grows by one more piece, as that of a  *)
(* switch does.                                                            *)
LEMMA LayoutGrows ==
  ASSUME NEW body, NEW c \in Seq(WasmInstr), NEW code, NEW ts, Len(ts) \in Nat, NEW st \in Seq(Nat), NEW js,
         NEW js2, js \subseteq js2,
         Layout(body, c, ts, st, js, Len(c) + 1),
         NEW i, i \in 1 .. Len(st), i = Len(st), body[i].op = "Switch",
         Piece(code, body[i], Len(ts)),
         \A q \in 1 .. Len(code) : code[q].op \in BranchOps =>
           \E j \in js2 : j.at = Len(c) + q /\ j.from = i /\ j.to \in TryGetJumpTarget(body[i])
  PROVE  Layout(body, c \o code, ts, st, js2, Len(c \o code) + 1)
<1> DEFINE e   == c \o code
           n   == Len(ts)
           end == Len(c) + 1
           new == Len(e) + 1
<1>1. code \in Seq(WasmInstr)
  BY FlatIsCode DEF Piece
<1>2. Len(c) \in Nat /\ Len(code) \in Nat /\ Len(e) = Len(c) + Len(code)
  BY <1>1, Joined
<1>3. GoesOn(c, e)
  BY <1>1, AppendedGoesOn
<1> HIDE DEF e
<1>4. end \in Nat /\ new \in Nat /\ end <= new /\ Len(e) \in Nat
  BY <1>2
<1> HIDE DEF end
<1>4a. Layout(body, c, ts, st, js, end)
  BY DEF end
<1>5. Layout(body, e, ts, st, js2, end)
  BY <1>3, <1>4, <1>4a, LayoutGoesOn
<1>6. ASSUME NEW x \in 1 .. Len(st)
      PROVE  /\ HeadEnd(n) <= Origin(ts, st, x)
             /\ st[x] <= new
             /\ Laid(e, ts, st, js2, body[x], x, Limit(ts, st, x, new))
  <2>1. /\ st[x] \in Nat /\ st[x] > 1 /\ HeadEnd(n) <= Origin(ts, st, x)
        /\ Limit(ts, st, x, end) \in Nat /\ st[x] <= Limit(ts, st, x, end) /\ Limit(ts, st, x, end) <= end
        /\ Laid(e, ts, st, js2, body[x], x, Limit(ts, st, x, end))
    BY <1>2, <1>4, <1>5, LayoutFacts
  <2>2. st[x] <= new
    BY <1>4, <2>1
  <2>3. CASE x < Len(st)
    <3>1. Limit(ts, st, x, new) = Limit(ts, st, x, end)
      BY <2>3 DEF Limit
    <3> QED
      BY <2>1, <2>2, <3>1
  <2>4. CASE ~(x < Len(st))
    <3>1. x = i /\ Limit(ts, st, x, end) = end /\ Limit(ts, st, x, new) = new
      BY <2>4 DEF Limit
    <3>2. /\ body[x].op \in Supported /\ body[x].op # "Nop"
          /\ st[x] < end
          /\ \A p \in st[x] .. end - 1 : Fits(e[p], e[p - 1], body[x], x, p, st[x], n, js2)
      BY <1>4, <2>1, <3>1 DEF Laid
    <3>3. Closes(e[new - 1], body[x])
      BY <3>1 DEF Closes
    <3>4. st[x] # new
      BY <1>4, <2>1, <3>2
    <3>5. ASSUME NEW p \in st[x] .. new - 1
          PROVE  Fits(e[p], e[p - 1], body[x], x, p, st[x], n, js2)
      <4>1. CASE p < end
        <5>1. p \in st[x] .. end - 1
          BY <1>4, <4>1
        <5> QED
          BY <3>2, <5>1
      <4>2. CASE ~(p < end)
        <5>1. p \in Len(c) + 1 .. Len(c) + Len(code) /\ st[x] <= Len(c) + 1
          BY <1>2, <1>4, <2>1, <3>2, <4>2 DEF end
        <5> QED
          BY <1>2, <2>1, <3>1, <5>1, PieceFits DEF e
      <4> QED
        BY <4>1, <4>2
    <3>6. Laid(e, ts, st, js2, body[x], x, new)
      BY <2>2, <3>2, <3>3, <3>4, <3>5 DEF Laid
    <3> QED
      BY <2>1, <2>2, <3>1, <3>6
  <2> QED
    BY <2>3, <2>4
<1>7. HeadEnd(n) <= new
  <2>1. HeadEnd(n) \in Nat
    BY <1>2, <1>4, <1>5, LayoutFacts
  <2>2. HeadEnd(n) <= end
    BY <1>5 DEF Layout
  <2> QED
    BY <1>4, <2>1, <2>2
<1>8. new <= Len(e) + 1
  BY <1>4
<1>9. Len(st) # 0
  OBVIOUS
<1> HIDE DEF new
<1>10. Layout(body, e, ts, st, js2, new)
  BY <1>5, <1>6, <1>7, <1>8, <1>9 DEF Layout
<1> QED
  BY <1>10 DEF e, new

(* The code of instruction i comes next, behind the end e of its block if  *)
(* it is a target.                                                         *)
Begins(body, c, e, code, ts, st, js, js2, i) ==
  /\ c \in Seq(WasmInstr)
  /\ e \in Seq(WasmInstr)
  /\ Len(ts) \in Nat
  /\ st \in Seq(Nat)
  /\ js \subseteq js2
  /\ Layout(body, c, ts, st, js, Len(c) + 1)
  /\ i = Len(st) + 1
  /\ (\E k \in DOMAIN ts : ts[k] = i) => Len(e) = 1
  /\ ~(\E k \in DOMAIN ts : ts[k] = i) => Len(e) = 0
  /\ body[i].op \in Supported
  /\ Piece(code, body[i], Len(ts))
  /\ Len(code) = 0 <=> body[i].op = "Nop"
  /\ Len(code) > 0 => Closes(Final(code), body[i])
  /\ \A q \in 1 .. Len(code) : code[q].op \in BranchOps =>
       \E j \in js2 : j.at = Len(c) + Len(e) + q /\ j.from = i /\ j.to \in TryGetJumpTarget(body[i])

(* It is laid out like the others.                                         *)
LEMMA LayoutBegins ==
  ASSUME NEW body, NEW c, NEW e, NEW code, NEW ts, NEW st, NEW js, NEW js2, NEW i,
         Begins(body, c, e, code, ts, st, js, js2, i)
  PROVE  Layout(body, (c \o e) \o code, ts, Append(st, Len(c) + Len(e) + 1), js2, Len((c \o e) \o code) + 1)
<1> USE DEF Begins
<1> DEFINE d   == c \o e
           r   == d \o code
           n   == Len(ts)
           end == Len(c) + 1
           new == Len(r) + 1
           st2 == Append(st, Len(c) + Len(e) + 1)
<1>1. code \in Seq(WasmInstr)
  BY FlatIsCode DEF Piece
<1>2. d \in Seq(WasmInstr) /\ Len(c) \in Nat /\ Len(e) \in Nat /\ Len(d) = Len(c) + Len(e)
  BY Joined
<1>3. GoesOn(c, d)
  BY AppendedGoesOn
<1> HIDE DEF d
<1>2a. d \in Seq(WasmInstr)
  BY <1>2
<1>4. /\ Len(code) \in Nat /\ Len(d) \in Nat /\ Len(r) = Len(d) + Len(code)
      /\ \A q \in 1 .. Len(code) : r[Len(d) + q] = code[q]
  BY <1>1, <1>2a, Joined
<1>5. GoesOn(d, r)
  BY <1>1, <1>2a, AppendedGoesOn
<1>6. GoesOn(c, r)
  <2>1. \A q \in 1 .. Len(c) : q \in 1 .. Len(d)
    BY <1>2, <1>4
  <2> QED
    BY <1>2, <1>3, <1>4, <1>5, <2>1 DEF GoesOn
<1>7. /\ st2 \in Seq(Nat) /\ Len(st2) = i /\ st2[i] = Len(d) + 1
      /\ \A x \in 1 .. Len(st) : st2[x] = st[x]
  <2> DEFINE v == Len(c) + Len(e) + 1
  <2>1. v \in Nat /\ v = Len(d) + 1
    BY <1>2
  <2> HIDE DEF v
  <2>2. /\ Append(st, v) \in Seq(Nat) /\ Len(Append(st, v)) = Len(st) + 1 /\ Append(st, v)[Len(st) + 1] = v
        /\ \A x \in 1 .. Len(st) : Append(st, v)[x] = st[x]
    BY <2>1, AppendProperties
  <2> QED
    BY <2>1, <2>2 DEF v
<1> HIDE DEF r, st2
<1>8. end \in Nat /\ new \in Nat /\ end <= new /\ Len(r) \in Nat /\ Len(st) \in Nat /\ i \in Nat \ {0}
  BY <1>2, <1>4
<1> HIDE DEF end
<1>8a. Layout(body, c, ts, st, js, end)
  BY DEF end
<1>9. Layout(body, r, ts, st, js2, end)
  BY <1>6, <1>8, <1>8a, LayoutGoesOn
<1>10. HeadEnd(n) \in Nat /\ HeadEnd(n) <= end
  <2>1. HeadEnd(n) <= end
    BY <1>9 DEF Layout
  <2> QED
    BY <1>8, <1>9, <2>1, LayoutFacts
<1>11. Origin(ts, st2, i) = end
  <2>1. CASE \E k \in DOMAIN ts : ts[k] = i
    <3>1. Origin(ts, st2, i) = st2[i] - 1 /\ Len(e) = 1
      BY <2>1, OriginIs
    <3> QED
      BY <1>2, <1>7, <3>1 DEF end
  <2>2. CASE ~(\E k \in DOMAIN ts : ts[k] = i)
    <3>1. Origin(ts, st2, i) = st2[i] /\ Len(e) = 0
      BY <2>2, OriginIs
    <3> QED
      BY <1>2, <1>7, <3>1 DEF end
  <2> QED
    BY <2>1, <2>2
<1>11a. Len(st2) = Len(st) + 1 /\ Len(st) \in Nat
  BY <1>7, <1>8
<1>12. ASSUME NEW x \in 1 .. Len(st) PROVE Origin(ts, st2, x) = Origin(ts, st, x)
  BY <1>7, OriginIs
<1>13. ASSUME NEW x \in 1 .. Len(st) PROVE Limit(ts, st2, x, new) = Limit(ts, st, x, end)
  <2>1. CASE x < Len(st)
    <3>1. x + 1 \in 1 .. Len(st) /\ x < Len(st2)
      BY <1>11a, <2>1
    <3> QED
      BY <1>12, <2>1, <3>1 DEF Limit
  <2>2. CASE ~(x < Len(st))
    <3>1. x + 1 = i /\ x < Len(st2)
      BY <1>7, <1>8, <2>2
    <3> QED
      BY <1>11, <2>2, <3>1 DEF Limit
  <2> QED
    BY <2>1, <2>2
<1>14. /\ end <= Len(d) + 1 /\ Len(d) + 1 <= new /\ Len(d) + 1 > 1
  BY <1>2, <1>4, <1>8, <1>10 DEF end, new, HeadEnd
<1>15. ASSUME NEW x \in 1 .. Len(st)
       PROVE  /\ HeadEnd(n) <= Origin(ts, st2, x)
              /\ st2[x] <= new /\ st2[x] <= end
              /\ Laid(r, ts, st2, js2, body[x], x, Limit(ts, st2, x, new))
  <2> DEFINE lim == Limit(ts, st, x, end)
  <2>1. /\ st[x] \in Nat /\ HeadEnd(n) <= Origin(ts, st, x)
        /\ lim \in Nat /\ st[x] <= lim /\ lim <= end
        /\ Laid(r, ts, st, js2, body[x], x, lim)
    BY <1>8, <1>9, LayoutFacts
  <2>2. st2[x] = st[x] /\ Origin(ts, st2, x) = Origin(ts, st, x) /\ Limit(ts, st2, x, new) = lim
    BY <1>7, <1>12, <1>13
  <2> HIDE DEF lim
  <2>3. st[x] <= new /\ st[x] <= end
    <3> DEFINE at == st[x]
    <3>1. at \in Nat /\ at <= lim /\ lim <= end /\ lim \in Nat
      BY <2>1
    <3> HIDE DEF at
    <3>2. at <= end /\ at <= new
      BY <1>8, <3>1
    <3> QED
      BY <3>2 DEF at
  <2>4. Laid(r, ts, st2, js2, body[x], x, lim)
    BY <2>1, <2>2 DEF Laid
  <2> QED
    BY <2>1, <2>2, <2>3, <2>4
<1>16. /\ HeadEnd(n) <= Origin(ts, st2, i)
       /\ st2[i] <= new
       /\ Laid(r, ts, st2, js2, body[i], i, Limit(ts, st2, i, new))
  <2>1. HeadEnd(n) <= Origin(ts, st2, i) /\ st2[i] <= new
    BY <1>7, <1>10, <1>11, <1>14
  <2>2. Limit(ts, st2, i, new) = new
    BY <1>7, <1>8 DEF Limit
  <2>3. body[i].op = "Nop" <=> st2[i] = new
    BY <1>4, <1>7 DEF new
  <2>4. body[i].op # "Nop" => Closes(r[new - 1], body[i])
    <3>1. SUFFICES ASSUME body[i].op # "Nop" PROVE Closes(r[new - 1], body[i])
      OBVIOUS
    <3>2. Len(code) > 0 /\ Closes(Final(code), body[i])
      BY <1>4, <3>1
    <3>3. new - 1 = Len(d) + Len(code) /\ Len(code) \in 1 .. Len(code)
      BY <1>4, <3>2 DEF new
    <3> QED
      BY <1>4, <3>2, <3>3 DEF Final
  <2>5. ASSUME NEW p \in st2[i] .. new - 1
        PROVE  Fits(r[p], r[p - 1], body[i], i, p, st2[i], n, js2)
    <3>1. p \in Len(d) + 1 .. Len(d) + Len(code) /\ st2[i] \in Nat /\ st2[i] <= Len(d) + 1
      BY <1>4, <1>7 DEF new
    <3>2. \A q \in 1 .. Len(code) : code[q].op \in BranchOps =>
           \E j \in js2 : j.at = Len(d) + q /\ j.from = i /\ j.to \in TryGetJumpTarget(body[i])
      BY <1>2
    <3> QED
      BY <1>2a, <3>1, <3>2, PieceFits DEF r
  <2>6. Laid(r, ts, st2, js2, body[i], i, new)
    BY <2>1, <2>3, <2>4, <2>5 DEF Laid
  <2> QED
    BY <2>1, <2>2, <2>6
<1>17. ASSUME NEW x \in 1 .. Len(st2)
       PROVE  /\ HeadEnd(n) <= Origin(ts, st2, x)
              /\ st2[x] <= new
              /\ Laid(r, ts, st2, js2, body[x], x, Limit(ts, st2, x, new))
  <2>1. x = i \/ x \in 1 .. Len(st)
    BY <1>7, <1>8
  <2> QED
    BY <1>15, <1>16, <2>1
<1>18. ASSUME NEW x \in 1 .. Len(st2), NEW y \in 1 .. Len(st2), x < y
       PROVE  st2[x] <= Origin(ts, st2, y)
  <2>1. x \in 1 .. Len(st) /\ (y = i \/ y \in 1 .. Len(st))
    BY <1>11a, <1>18
  <2>2. CASE y = i
    BY <1>11, <1>15, <2>1, <2>2
  <2>3. CASE y \in 1 .. Len(st)
    <3>1. st[x] <= Origin(ts, st, y)
      BY <1>9, <1>18, <2>1, <2>3 DEF Layout
    <3> QED
      BY <1>7, <1>12, <2>1, <2>3, <3>1
  <2> QED
    BY <2>1, <2>2, <2>3
<1>19. Origin(ts, st2, 1) = HeadEnd(n)
  <2>1. CASE Len(st) = 0
    <3>1. end = HeadEnd(n) /\ i = 1
      BY <1>9, <2>1 DEF Layout
    <3> QED
      BY <1>11, <3>1
  <2>2. CASE Len(st) # 0
    <3>1. 1 \in 1 .. Len(st) /\ Len(st) > 0
      BY <1>8, <2>2
    <3>2. Origin(ts, st, 1) = HeadEnd(n)
      BY <1>9, <3>1 DEF Layout
    <3> QED
      BY <1>12, <3>1, <3>2
  <2> QED
    BY <2>1, <2>2
<1>20. HeadEnd(n) <= new /\ new <= Len(r) + 1 /\ HeadLaid(r, n) /\ Len(st2) # 0
  <2>1. HeadLaid(r, n)
    BY <1>9 DEF Layout
  <2>2. HeadEnd(n) <= new
    BY <1>8, <1>10
  <2>3. new <= Len(r) + 1 /\ Len(st2) # 0
    BY <1>7, <1>8 DEF new
  <2> QED
    BY <2>1, <2>2, <2>3
<1> HIDE DEF new
<1>21. Layout(body, r, ts, st2, js2, new)
  BY <1>17, <1>18, <1>19, <1>20 DEF Layout
<1> QED
  BY <1>21 DEF r, st2, new, d
-----------------------------------------------------------------------------
(* The head of an iteration emits an end for a target, and for nothing     *)
(* else.                                                                   *)
LEMMA ClosingLength ==
  ASSUME TypeInv, il \in 1 .. Len(Code),
         BuiltTo(result, jumpTargets, start, nextJumpTargetIndex, jumps, il - 1)
  PROVE  /\ il = Len(start) + 1 /\ ClosingEnd \in Seq(WasmInstr)
         /\ (\E k \in DOMAIN jumpTargets : jumpTargets[k] = il) => Len(ClosingEnd) = 1
         /\ ~(\E k \in DOMAIN jumpTargets : jumpTargets[k] = il) => Len(ClosingEnd) = 0
<1> DEFINE n    == Len(jumpTargets)
           next == nextJumpTargetIndex
<1>1. /\ n \in Nat /\ next \in 0 .. n /\ il \in Nat \ {0} /\ DOMAIN jumpTargets = 1 .. n
      /\ \A k \in 1 .. n : jumpTargets[k] \in Nat
      /\ \A k, l \in 1 .. n : k < l => jumpTargets[k] < jumpTargets[l]
  BY JumpTargetFacts DEF TypeInv, TypeOK
<1>2. /\ Len(start) = il - 1
      /\ \A k \in next + 1 .. n : jumpTargets[k] > il - 1
      /\ Passed(result, n, jumpTargets, start, next)
  BY DEF BuiltTo, Landed
<1>3. ClosingEnd \in Seq(WasmInstr)
  BY InstrTypes, EmittedOps DEF ClosingEnd
<1>4. AtTarget <=> \E k \in DOMAIN jumpTargets : jumpTargets[k] = il
  <2>1. ASSUME AtTarget PROVE \E k \in DOMAIN jumpTargets : jumpTargets[k] = il
    <3>1. next < n /\ il >= jumpTargets[next + 1]
      BY <2>1 DEF AtTarget
    <3>2. next + 1 \in next + 1 .. n /\ next + 1 \in 1 .. n
      BY <1>1, <3>1
    <3>3. jumpTargets[next + 1] > il - 1 /\ jumpTargets[next + 1] \in Nat
      BY <1>1, <1>2, <3>2
    <3>4. jumpTargets[next + 1] = il
      BY <1>1, <3>1, <3>3
    <3> QED
      BY <1>1, <3>2, <3>4
  <2>2. ASSUME NEW k \in DOMAIN jumpTargets, jumpTargets[k] = il PROVE AtTarget
    <3>0. k \in 1 .. n
      BY <1>1
    <3>1. k \notin 1 .. next
      <4>1. SUFFICES ASSUME k \in 1 .. next PROVE FALSE
        OBVIOUS
      <4>2. jumpTargets[k] \in 1 .. Len(start)
        BY <1>2, <4>1 DEF Passed
      <4> QED
        BY <1>1, <1>2, <2>2, <4>2
    <3>2. next < n /\ next + 1 \in 1 .. n /\ next + 1 <= k
      BY <1>1, <3>0, <3>1
    <3>3. next + 1 = k \/ jumpTargets[next + 1] < jumpTargets[k]
      BY <1>1, <3>0, <3>2
    <3>4. jumpTargets[next + 1] \in Nat
      BY <1>1, <3>2
    <3>5. il >= jumpTargets[next + 1]
      BY <1>1, <2>2, <3>3, <3>4
    <3> QED
      BY <3>2, <3>5 DEF AtTarget
  <2> QED
    BY <2>1, <2>2
<1>5. AtTarget => Len(ClosingEnd) = 1
  BY DEF ClosingEnd
<1>6. ~AtTarget => Len(ClosingEnd) = 0
  BY DEF ClosingEnd
<1>7. il = Len(start) + 1
  BY <1>1, <1>2
<1> QED
  BY <1>3, <1>4, <1>5, <1>6, <1>7

(* The head of the function, laid out.                                     *)
LEMMA PrologueLaid ==
  ASSUME NEW n \in Nat
  PROVE  /\ HeadLaid(Prologue(n), n)
         /\ Len(Prologue(n)) \in Nat /\ Len(Prologue(n)) + 1 = HeadEnd(n)
<1> DEFINE c == Prologue(n)
           l == <<W("loop")>>
           b == [k \in 1 .. n |-> W("block")]
           h == l \o b
           t == JumpTable(n)
<1>1. l \in Seq(WasmInstr) /\ Len(l) = 1 /\ b \in Seq(WasmInstr) /\ Len(b) = n
  BY InstrTypes, EmittedOps
<1>2. t \in Seq(WasmInstr)
  BY JumpTableNesting
<1>3. c = h \o t
  BY DEF Prologue
<1> HIDE DEF c, l, b, t
<1>4. h \in Seq(WasmInstr) /\ Len(h) = n + 1
  <2>1. l \in Seq(WasmInstr)
    BY <1>1
  <2>2. b \in Seq(WasmInstr)
    BY <1>1
  <2>3. h \in Seq(WasmInstr) /\ Len(h) = Len(l) + Len(b)
    BY <2>1, <2>2, Joined
  <2> HIDE DEF h
  <2> QED
    BY <1>1, <2>3
<1> HIDE DEF h
<1>5. Len(t) \in Nat /\ Len(c) = n + 1 + Len(t) /\ \A q \in 1 .. Len(t) : c[n + 1 + q] = t[q]
  <2>1. h \in Seq(WasmInstr)
    BY <1>4
  <2>2. Len(t) \in Nat /\ Len(h \o t) = Len(h) + Len(t) /\ \A q \in 1 .. Len(t) : (h \o t)[Len(h) + q] = t[q]
    BY <1>2, <2>1, Joined
  <2> QED
    BY <1>3, <1>4, <2>2
<1>6. CASE n = 0
  <2>1. Len(t) = 0
    BY <1>6 DEF JumpTable, t
  <2>2. Len(c) \in Nat /\ Len(c) + 1 = HeadEnd(n) /\ HeadLaid(c, n)
    BY <1>5, <1>6, <2>1 DEF HeadEnd, HeadLaid
  <2> QED
    BY <2>2 DEF c
<1>7. CASE n # 0
  <2>1. /\ Len(t) = 4 /\ t[1] = W("block") /\ t[2] = GetLocal("jumpTarget", 0)
        /\ t[3] = WN("br_table", n) /\ t[4] = W("end")
    BY <1>7 DEF JumpTable, t
  <2>2. /\ n + 1 + 1 = n + 2 /\ n + 1 + 2 = n + 3 /\ n + 1 + 3 = n + 4 /\ n + 1 + 4 = n + 5
        /\ 1 \in 1 .. Len(t) /\ 2 \in 1 .. Len(t) /\ 3 \in 1 .. Len(t) /\ 4 \in 1 .. Len(t)
    BY <2>1
  <2>3. /\ c[n + 1 + 1] = t[1] /\ c[n + 1 + 2] = t[2]
        /\ c[n + 1 + 3] = t[3] /\ c[n + 1 + 4] = t[4]
    BY <1>5, <2>2
  <2>4. HeadLaid(c, n)
    BY <2>1, <2>2, <2>3 DEF HeadLaid
  <2>5. Len(c) \in Nat /\ Len(c) + 1 = HeadEnd(n)
    BY <1>5, <1>7, <2>1 DEF HeadEnd
  <2> QED
    BY <2>4, <2>5 DEF c
<1> QED
  BY <1>6, <1>7

(* When every block is closed the end of the function is two or three      *)
(* instructions.                                                           *)
LEMMA EpilogueLength ==
  ASSUME NEW open, open = 0, NEW returns \in BOOLEAN
  PROVE  /\ Epilogue(open, returns) \in Seq(WasmInstr)
         /\ Len(Epilogue(open, returns)) = 1 + (IF returns THEN 2 ELSE 1)
<1> DEFINE none == [k \in 1 .. open |-> W("end")]
           e    == <<W("end")>>
           fake == IF returns THEN <<Const(-1)>> ELSE <<>>
           some == IF returns THEN 1 ELSE 0
<1>1. none = <<>>
  OBVIOUS
<1>2. W("end") \in WasmInstr /\ Const(-1) \in WasmInstr
  BY InstrTypes, EmittedOps, FlatIsCode
<1>3. e \in Seq(WasmInstr) /\ Len(e) = 1
  BY <1>2
<1>4. fake \in Seq(WasmInstr) /\ Len(fake) = some
  BY <1>2
<1>a. some \in Nat /\ 1 + some + 1 = 1 + (IF returns THEN 2 ELSE 1)
  OBVIOUS
<1>7. Epilogue(open, returns) = ((none \o e) \o fake) \o e
  BY DEF Epilogue
<1> HIDE DEF e, fake, some
<1>5. e \o fake \in Seq(WasmInstr) /\ Len(e \o fake) = Len(e) + Len(fake)
  <2>1. e \in Seq(WasmInstr)
    BY <1>3
  <2>2. fake \in Seq(WasmInstr)
    BY <1>4
  <2> QED
    BY <2>1, <2>2, Joined
<1>6. (e \o fake) \o e \in Seq(WasmInstr) /\ Len((e \o fake) \o e) = Len(e \o fake) + Len(e)
  <2>1. e \in Seq(WasmInstr)
    BY <1>3
  <2>2. e \o fake \in Seq(WasmInstr)
    BY <1>5
  <2> QED
    BY <2>1, <2>2, Joined
<1>8. none \o e = e
  BY <1>1, <1>3, ConcatEmptySeq
<1>9. Len((e \o fake) \o e) = 1 + some + 1
  BY <1>3, <1>4, <1>5, <1>6
<1>10. Epilogue(open, returns) = (e \o fake) \o e
  BY <1>7, <1>8
<1> QED
  BY <1>6, <1>9, <1>10, <1>a

(* An iteration lays out the instruction it compiles.                      *)
LEMMA BeginLays ==
  ASSUME TypeInv, il \in 1 .. Len(Code),
         BuiltTo(result, jumpTargets, start, nextJumpTargetIndex, jumps, il - 1),
         Layout(Code, result, jumpTargets, start, jumps, Len(result) + 1),
         NEW code, BeginInstruction(code), UNCHANGED <<method, jumpTargets>>,
         jumps \subseteq jumps',
         Code[il].op \in Supported, Piece(code, Code[il], Len(jumpTargets)),
         Len(code) = 0 <=> Code[il].op = "Nop",
         Len(code) > 0 => Closes(Final(code), Code[il]),
         \A q \in 1 .. Len(code) : code[q].op \in BranchOps =>
           \E j \in jumps' : /\ j.at = Len(result) + Len(ClosingEnd) + q
                             /\ j.from = il /\ j.to \in TryGetJumpTarget(Code[il])
  PROVE  Layout(Code', result', jumpTargets', start', jumps', Len(result') + 1)
<1>1. /\ il = Len(start) + 1 /\ ClosingEnd \in Seq(WasmInstr)
      /\ (\E k \in DOMAIN jumpTargets : jumpTargets[k] = il) => Len(ClosingEnd) = 1
      /\ ~(\E k \in DOMAIN jumpTargets : jumpTargets[k] = il) => Len(ClosingEnd) = 0
  BY ClosingLength
<1>2. /\ result \in Seq(WasmInstr) /\ start \in Seq(Nat) /\ Len(jumpTargets) \in Nat
  BY JumpTargetFacts DEF TypeInv, TypeOK
<1> DEFINE js2 == jumps'
           st2 == Append(start, Len(result) + Len(ClosingEnd) + 1)
           r   == (result \o ClosingEnd) \o code
<1>3. /\ jumps \subseteq js2
      /\ \A q \in 1 .. Len(code) : code[q].op \in BranchOps =>
           \E j \in js2 : /\ j.at = Len(result) + Len(ClosingEnd) + q
                          /\ j.from = il /\ j.to \in TryGetJumpTarget(Code[il])
  OBVIOUS
<1>4. result' = r /\ start' = st2 /\ Code' = Code /\ jumpTargets' = jumpTargets
  BY DEF BeginInstruction, Code
<1> HIDE DEF js2
<1>5. Layout(Code, r, jumpTargets, st2, js2, Len(r) + 1)
  <2> DEFINE body == Code
             c    == result
             e    == ClosingEnd
             ts   == jumpTargets
             st   == start
             js   == jumps
             i    == il
  <2>1. c \in Seq(WasmInstr) /\ e \in Seq(WasmInstr) /\ Len(ts) \in Nat /\ st \in Seq(Nat)
    BY <1>1, <1>2
  <2>2. /\ js \subseteq js2 /\ i = Len(st) + 1
        /\ (\E k \in DOMAIN ts : ts[k] = i) => Len(e) = 1
        /\ ~(\E k \in DOMAIN ts : ts[k] = i) => Len(e) = 0
    BY <1>1, <1>3
  <2>3. Layout(body, c, ts, st, js, Len(c) + 1)
    OBVIOUS
  <2>4. /\ body[i].op \in Supported /\ Piece(code, body[i], Len(ts))
        /\ Len(code) = 0 <=> body[i].op = "Nop"
        /\ Len(code) > 0 => Closes(Final(code), body[i])
        /\ \A q \in 1 .. Len(code) : code[q].op \in BranchOps =>
             \E j \in js2 : j.at = Len(c) + Len(e) + q /\ j.from = i /\ j.to \in TryGetJumpTarget(body[i])
    BY <1>3
  <2> HIDE DEF body, c, e, ts, st, js, i
  <2>5. Layout(body, (c \o e) \o code, ts, Append(st, Len(c) + Len(e) + 1), js2, Len((c \o e) \o code) + 1)
    <3>1. Begins(body, c, e, code, ts, st, js, js2, i)
      BY <2>1, <2>2, <2>3, <2>4 DEF Begins
    <3> QED
      BY <3>1, LayoutBegins, Zenon
  <2> QED
    BY <2>5 DEF body, c, e, ts, st, js, i
<1> HIDE DEF r, st2
<1> QED
  BY <1>4, <1>5 DEF js2

(* Before the first step nothing has to be laid out.                       *)
LEMMA InitLays == Init => LayoutInv
<1> SUFFICES ASSUME Init PROVE LayoutInv
  OBVIOUS
<1>1. LandInv /\ phase = "open"
  BY InitLands DEF Init
<1> QED
  BY <1>1 DEF LayoutInv

(* When the body is compiled every block has been closed, and what comes   *)
(* behind it is the end of the loop and the end of the function.           *)
LEMMA EndMoves ==
  ASSUME LandInv, CloseBlocks
  PROVE  LET d == Epilogue(Len(jumpTargets) - nextJumpTargetIndex, method.returns)
         IN  /\ Len(start) = Len(Code) /\ d \in Seq(WasmInstr)
             /\ Len(result \o d) - Behind = Len(result) + 1
<1> DEFINE n == Len(jumpTargets)
           d == Epilogue(n - nextJumpTargetIndex, method.returns)
<1>0. TypeInv
  BY DEF LandInv, BalanceInv
<1>a. /\ method \in Methods /\ Len(Code) \in Nat /\ n \in Nat
      /\ il \in 1 .. Len(Code) + 1
      /\ nextJumpTargetIndex \in 0 .. n
      /\ result \in Seq(WasmInstr) /\ start \in Seq(Nat) /\ Len(result) \in Nat
  BY <1>0, CodeFacts, JumpTargetFacts DEF TypeInv, TypeOK
<1>1. phase = "body" /\ il > Len(Code)
  BY DEF CloseBlocks
<1>2. BuiltTo(result, jumpTargets, start, nextJumpTargetIndex, jumps, il - 1)
  BY <1>1 DEF LandInv
<1>3. nextJumpTargetIndex = n /\ Len(start) = Len(Code)
  <2>1. il - 1 = Len(Code)
    BY <1>a, <1>1
  <2>2. ASSUME nextJumpTargetIndex # n PROVE FALSE
    <3>1. n \in nextJumpTargetIndex + 1 .. n /\ n \in 1 .. n
      BY <1>a, <2>2
    <3>2. jumpTargets[n] > Len(Code)
      BY <1>2, <2>1, <3>1 DEF BuiltTo
    <3>3. jumpTargets[n] \in 1 .. Len(Code)
      BY <1>0, <3>1, JumpTargetFacts
    <3> QED
      BY <1>a, <3>2, <3>3
  <2>3. Len(start) = il - 1
    BY <1>2 DEF BuiltTo
  <2> QED
    BY <2>1, <2>2, <2>3
<1>4. d \in Seq(WasmInstr) /\ Len(d) = 1 + Behind
  <2>1. n - nextJumpTargetIndex = 0 /\ method.returns \in BOOLEAN
    BY <1>a, <1>3, MethodsAssumption
  <2> QED
    BY <2>1, EpilogueLength DEF Behind
<1> HIDE DEF d
<1>5. Len(result \o d) - Behind = Len(result) + 1
  <2>1. d \in Seq(WasmInstr)
    BY <1>4
  <2>2. Len(result \o d) = Len(result) + Len(d)
    BY <1>a, <2>1, Joined
  <2>3. Behind \in Nat
    BY DEF Behind
  <2> QED
    BY <1>a, <1>4, <2>2, <2>3
<1> QED
  BY <1>3, <1>4, <1>5 DEF d

(* Every step keeps the code laid out.                                     *)
LEMMA StepLays == LayoutInv /\ [Compile]_compilerVars => LayoutInv'
<1> SUFFICES ASSUME LayoutInv, [Compile]_compilerVars PROVE LayoutInv'
  OBVIOUS
<1>0. LandInv /\ LandInv' /\ TypeInv
  BY StepLands DEF LayoutInv, LandInv, BalanceInv
<1>a. /\ method \in Methods /\ Len(Code) \in Nat /\ Len(jumpTargets) \in Nat
      /\ il \in 1 .. Len(Code) + 1 /\ item \in Nat
      /\ nextJumpTargetIndex \in 0 .. Len(jumpTargets)
      /\ result \in Seq(WasmInstr) /\ start \in Seq(Nat) /\ Len(result) \in Nat
  BY <1>0, CodeFacts, JumpTargetFacts DEF TypeInv, TypeOK
<1>b. ASSUME phase = "body"
      PROVE  BuiltTo(result, jumpTargets, start, nextJumpTargetIndex, jumps, il - 1)
  BY <1>0, <1>b DEF LandInv
<1>c. ASSUME phase \in {"body", "switch"}
      PROVE  Layout(Code, result, jumpTargets, start, jumps, Len(result) + 1)
  BY <1>c DEF LayoutInv
<1>d. ASSUME phase' \in {"body", "switch"}, phase' = "switch" => Code'[il'].op = "Switch",
             Layout(Code', result', jumpTargets', start', jumps', Len(result') + 1)
      PROVE  LayoutInv'
  BY <1>0, <1>d DEF LayoutInv
<1>e. Supported = StraightOps \cup DOMAIN BranchTests \cup {"Switch"}
  BY DEF Supported
<1>1. CASE OpenBlocks
  <2>1. /\ phase = "open" /\ UNCHANGED <<method, jumpTargets, start, jumps>>
        /\ jumps = {} /\ start = <<>>
    BY <1>0, <1>1 DEF OpenBlocks, LandInv
  <2>2. CASE Code = <<>>
    <3>1. phase' = "done" /\ Code' = <<>>
      BY <1>1, <2>1, <2>2 DEF OpenBlocks, Code
    <3> QED
      BY <1>0, <3>1 DEF LayoutInv
  <2>3. CASE Code # <<>>
    <3> DEFINE n == Len(jumpTargets)
               c == Prologue(n)
    <3>1. result' = c /\ phase' = "body" /\ Code' = Code
      BY <1>1, <2>1, <2>3 DEF OpenBlocks, Code
    <3>2. HeadLaid(c, n) /\ Len(c) \in Nat /\ Len(c) + 1 = HeadEnd(n)
      BY <1>a, PrologueLaid
    <3> HIDE DEF c
    <3>3. /\ HeadEnd(n) <= Len(c) + 1 /\ Len(c) + 1 <= Len(c) + 1
          /\ 1 .. Len(<<>>) = {} /\ Len(<<>>) = 0
      BY <3>2
    <3>4. Layout(Code, c, jumpTargets, <<>>, {}, Len(c) + 1)
      BY <3>2, <3>3 DEF Layout
    <3>5. Layout(Code', result', jumpTargets', start', jumps', Len(result') + 1)
      BY <2>1, <3>1, <3>4
    <3> QED
      BY <1>d, <3>1, <3>5
  <2> QED
    BY <2>2, <2>3
<1>2. CASE CompileStraightInstruction
  <2> DEFINE code == CompileStraight(Code[il])
  <2>1. /\ phase = "body" /\ phase' = "body" /\ UNCHANGED <<method, jumpTargets>> /\ jumps' = jumps
        /\ il \in 1 .. Len(Code) /\ Code[il].op \in StraightOps
        /\ BeginInstruction(code)
    BY <1>2, <1>a DEF CompileStraightInstruction, InBody
  <2>2. Code[il] \in CilInstr
    BY <1>a, <2>1, CodeFacts
  <2>3. Quiet(code, Code[il], Len(jumpTargets))
    <3>1. code \in Seq(PlainInstr(Code[il]))
      BY <2>1, <2>2, StraightPlain
    <3> QED
      BY <3>1, PlainIsQuiet
  <2>4. /\ Len(code) = 0 <=> Code[il].op = "Nop"
        /\ Len(code) > 0 => Closes(Final(code), Code[il])
    BY <2>1, <2>2, StraightLength
  <2> HIDE DEF code
  <2>5. /\ Piece(code, Code[il], Len(jumpTargets))
        /\ \A q \in 1 .. Len(code) : code[q].op \notin BranchOps
        /\ jumps \subseteq jumps' /\ Code[il].op \in Supported
        /\ Layout(Code, result, jumpTargets, start, jumps, Len(result) + 1)
        /\ BuiltTo(result, jumpTargets, start, nextJumpTargetIndex, jumps, il - 1)
    BY <1>b, <1>c, <1>e, <2>1, <2>3 DEF Quiet
  <2>6. Layout(Code', result', jumpTargets', start', jumps', Len(result') + 1)
    BY <1>0, <2>1, <2>4, <2>5, BeginLays
  <2> QED
    BY <1>d, <2>1, <2>6
<1>3. CASE CompileBranch
  <2> DEFINE t    == Code[il].targets[1]
             code == JumpSetup(t, ClosedHere) \o BranchTests[Code[il].op]
                       \o <<WN(BranchOp(Code[il].op), BreakDepth(t, ClosedHere))>>
             j    == [at |-> Len(result) + Len(ClosingEnd) + Len(code), from |-> il, to |-> t]
  <2>1. /\ phase = "body" /\ phase' = "body" /\ UNCHANGED <<method, jumpTargets>>
        /\ il \in 1 .. Len(Code) /\ Code[il].op \in DOMAIN BranchTests
        /\ BeginInstruction(code)
        /\ jumps' = jumps \cup {j}
    BY <1>3, <1>a DEF CompileBranch, InBody
  <2>2. Code[il].op \in Branches /\ Code[il].op # "Nop"
    BY <2>1 DEF BranchTests, Branches, ConditionalBranches, UnconditionalBranches
  <2>3. t \in SortedOffsets(Code) /\ t \in TryGetJumpTarget(Code[il])
    <3>1. t \in SortedOffsets(Code)
      BY <1>a, <2>1, <2>2, CodeFacts
    <3>2. 1 \in DOMAIN Code[il].targets
      <4>1. Len(Code[il].targets) = 1 /\ Code[il].targets \in Seq(Nat)
        BY <1>a, <2>1, <2>2, CodeFacts DEF CilInstr
      <4> QED
        BY <4>1
    <3> QED
      BY <2>2, <3>1, <3>2 DEF TryGetJumpTarget, JumpOpcodes
  <2>4. ClosedHere \in 0 .. Len(jumpTargets)
    BY <1>a DEF ClosedHere, AtTarget
  <2>5. Piece(code, Code[il], Len(jumpTargets)) /\ Len(code) \in Nat \ {0} /\ Closes(Final(code), Code[il])
    BY <1>0, <2>1, <2>3, <2>4, BranchIsPiece
  <2> HIDE DEF code
  <2>6. j.at = Len(result) + Len(ClosingEnd) + Len(code) /\ j.from = il /\ j.to = t
    OBVIOUS
  <2> HIDE DEF j, t
  <2>7. \A q \in 1 .. Len(code) : code[q].op \in BranchOps =>
           \E i \in jumps' : /\ i.at = Len(result) + Len(ClosingEnd) + q
                             /\ i.from = il /\ i.to \in TryGetJumpTarget(Code[il])
    BY <2>1, <2>3, <2>5, <2>6 DEF Piece
  <2>8. /\ jumps \subseteq jumps' /\ Code[il].op \in Supported
        /\ Layout(Code, result, jumpTargets, start, jumps, Len(result) + 1)
        /\ BuiltTo(result, jumpTargets, start, nextJumpTargetIndex, jumps, il - 1)
        /\ Len(code) # 0
    BY <1>b, <1>c, <1>e, <2>1, <2>5
  <2>9. Layout(Code', result', jumpTargets', start', jumps', Len(result') + 1)
    BY <1>0, <2>1, <2>2, <2>5, <2>7, <2>8, BeginLays
  <2> QED
    BY <1>d, <2>1, <2>9
<1>4. CASE BeginSwitch
  <2> DEFINE code == <<SetLocal("switchValue", 0)>>
  <2>1. /\ phase = "body" /\ phase' = "switch" /\ UNCHANGED <<method, jumpTargets>> /\ jumps' = jumps
        /\ il \in 1 .. Len(Code) /\ Code[il].op = "Switch"
        /\ BeginInstruction(code)
    BY <1>4, <1>a DEF BeginSwitch, InBody
  <2>2. Quiet(code, Code[il], Len(jumpTargets))
    <3>1. SetLocal("switchValue", 0) \in PlainInstr(Code[il])
      BY PlainTypes
    <3>2. code \in Seq(PlainInstr(Code[il]))
      BY <3>1
    <3> QED
      BY <3>2, PlainIsQuiet
  <2>3. Len(code) # 0
    OBVIOUS
  <2> HIDE DEF code
  <2>4. Closes(Final(code), Code[il])
    BY <2>1 DEF Closes
  <2>5. /\ Piece(code, Code[il], Len(jumpTargets))
        /\ \A q \in 1 .. Len(code) : code[q].op \notin BranchOps
        /\ jumps \subseteq jumps' /\ Code[il].op \in Supported /\ Code[il].op # "Nop"
        /\ Layout(Code, result, jumpTargets, start, jumps, Len(result) + 1)
        /\ BuiltTo(result, jumpTargets, start, nextJumpTargetIndex, jumps, il - 1)
    BY <1>b, <1>c, <1>e, <2>1, <2>2 DEF Quiet
  <2>6. Layout(Code', result', jumpTargets', start', jumps', Len(result') + 1)
    BY <1>0, <2>1, <2>3, <2>4, <2>5, BeginLays
  <2>7. Code'[il'].op = "Switch"
    BY <1>4, <2>1 DEF BeginSwitch, Code
  <2> QED
    BY <1>d, <2>1, <2>6, <2>7
<1>5. CASE CompileSwitchItem
  <2> DEFINE t    == Code[il].targets[item + 1]
             code == <<GetLocal("switchValue", 0), Const(item), W("i32.eq")>>
                       \o JumpSetup(t, nextJumpTargetIndex)
                       \o <<WN("br_if", BreakDepth(t, nextJumpTargetIndex))>>
             j    == [at |-> Len(result) + Len(code), from |-> il, to |-> t]
  <2>1. /\ phase = "switch" /\ phase' = "switch" /\ UNCHANGED <<method, jumpTargets, start, il>>
        /\ item < Len(Code[il].targets) /\ result' = result \o code /\ jumps' = jumps \cup {j}
    BY <1>5 DEF CompileSwitchItem
  <2>2. il \in 1 .. Len(Code)
    BY <1>0, <2>1 DEF TypeInv, TypeOK
  <2>3. Code[il].targets \in Seq(Nat)
    BY <1>a, <2>2, CodeFacts DEF CilInstr
  <2>4. il = Len(start) /\ il \in 1 .. Len(start)
    <3>1. BuiltTo(result, jumpTargets, start, nextJumpTargetIndex, jumps, il)
      BY <1>0, <2>1 DEF LandInv
    <3> QED
      BY <2>2, <3>1 DEF BuiltTo
  <2>5. item + 1 \in 1 .. Len(Code[il].targets)
    <3>1. item \in Nat /\ Len(Code[il].targets) \in Nat
      BY <1>a, <2>3
    <3> QED
      BY <2>1, <3>1
  <2>6. Code[il].op = "Switch"
    BY <2>1 DEF LayoutInv
  <2>7. t \in SortedOffsets(Code) /\ t \in TryGetJumpTarget(Code[il])
    <3>1. t \in SortedOffsets(Code)
      BY <1>a, <2>2, <2>5, CodeFacts
    <3>2. item + 1 \in DOMAIN Code[il].targets
      BY <2>3, <2>5
    <3> QED
      BY <2>6, <3>1, <3>2 DEF TryGetJumpTarget, JumpOpcodes
  <2>8. Piece(code, Code[il], Len(jumpTargets)) /\ Len(code) \in Nat \ {0}
    BY <1>0, <1>a, <2>7, ItemIsPiece
  <2> HIDE DEF code
  <2>9. j.at = Len(result) + Len(code) /\ j.from = il /\ j.to = t
    OBVIOUS
  <2> HIDE DEF j, t
  <2> DEFINE js2 == jumps \cup {j}
  <2>10. /\ jumps \subseteq js2
         /\ \A q \in 1 .. Len(code) : code[q].op \in BranchOps =>
              \E i \in js2 : i.at = Len(result) + q /\ i.from = il /\ i.to \in TryGetJumpTarget(Code[il])
    BY <2>7, <2>8, <2>9 DEF Piece
  <2> HIDE DEF js2
  <2>11. Layout(Code, result, jumpTargets, start, jumps, Len(result) + 1)
    BY <1>c, <2>1
  <2>12. Layout(Code, result \o code, jumpTargets, start, js2, Len(result \o code) + 1)
    BY <1>a, <2>4, <2>6, <2>8, <2>10, <2>11, LayoutGrows
  <2>13. Code' = Code
    BY <2>1 DEF Code
  <2>14. Layout(Code', result', jumpTargets', start', jumps', Len(result') + 1)
    BY <2>1, <2>12, <2>13 DEF js2
  <2>15. Code'[il'].op = "Switch" /\ phase' \in {"body", "switch"}
    BY <2>1, <2>6, <2>13
  <2> QED
    BY <1>d, <2>14, <2>15
<1>6. CASE EndSwitch
  <2>1. /\ phase = "switch" /\ phase' = "body"
        /\ UNCHANGED <<method, jumpTargets, nextJumpTargetIndex, result, start, jumps>>
    BY <1>6 DEF EndSwitch
  <2>2. Layout(Code', result', jumpTargets', start', jumps', Len(result') + 1)
    BY <1>c, <2>1 DEF Code
  <2> QED
    BY <1>d, <2>1, <2>2
<1>7. CASE RejectInstruction
  <2>1. phase' = "failed"
    BY <1>7 DEF RejectInstruction
  <2> QED
    BY <1>0, <2>1 DEF LayoutInv
<1>8. CASE CloseBlocks
  <2> DEFINE d == Epilogue(Len(jumpTargets) - nextJumpTargetIndex, method.returns)
  <2>1. /\ phase = "body" /\ phase' = "done" /\ UNCHANGED <<method, jumpTargets, start, jumps>>
        /\ result' = result \o d
    BY <1>8 DEF CloseBlocks
  <2>2. /\ Len(start) = Len(Code) /\ d \in Seq(WasmInstr)
        /\ Len(result \o d) - Behind = Len(result) + 1
    BY <1>0, <1>8, EndMoves
  <2> HIDE DEF d
  <2>3. GoesOn(result, result \o d)
    BY <1>a, <2>2, AppendedGoesOn
  <2>4. Layout(Code, result, jumpTargets, start, jumps, Len(result) + 1) /\ Len(result) + 1 \in Nat
    BY <1>a, <1>c, <2>1
  <2>5. Layout(Code, result \o d, jumpTargets, start, jumps, Len(result) + 1)
    BY <1>a, <2>3, <2>4, LayoutGoesOn
  <2>6. Behind' = Behind /\ Code' = Code
    BY <2>1 DEF Behind, Code
  <2>7. Len(start') = Len(Code') /\ Layout(Code', result', jumpTargets', start', jumps', Len(result') - Behind')
    BY <2>1, <2>2, <2>5, <2>6
  <2> QED
    BY <1>0, <2>1, <2>7 DEF LayoutInv
<1>9. CASE UNCHANGED compilerVars
  <2>1. UNCHANGED <<method, jumpTargets, phase, il, result, start, jumps>>
    BY <1>9 DEF compilerVars
  <2>2. Behind' = Behind /\ Code' = Code
    BY <2>1 DEF Behind, Code
  <2> QED
    BY <1>0, <2>1, <2>2 DEF LayoutInv
<1> QED
  BY <1>1, <1>2, <1>3, <1>4, <1>5, <1>6, <1>7, <1>8, <1>9 DEF Compile
-----------------------------------------------------------------------------
(* The code is complete and can be called.                                 *)
Compiled == LayoutInv /\ phase = "done" /\ Code # <<>>

BodyEnd    == Len(result) - Behind
FirstOf(i) == Origin(jumpTargets, start, i)
LimitOf(i) == Limit(jumpTargets, start, i, BodyEnd)

(* Position q is in the code of instruction i, or at the end before it.    *)
Covers(i, q) == i \in 1 .. Len(Code) /\ FirstOf(i) <= q /\ q < LimitOf(i)

IsTarget(i) == \E k \in 1 .. Len(jumpTargets) : jumpTargets[k] = i

(* The code of the instructions follows the head of the function, one      *)
(* after the other, and the last one does not fall through.                *)
LEMMA Places ==
  ASSUME Compiled
  PROVE  /\ Len(jumpTargets) \in Nat /\ Len(Code) \in Nat \ {0}
         /\ BodyEnd \in Nat /\ BodyEnd <= Len(result) /\ result \in Seq(WasmInstr)
         /\ HeadEnd(Len(jumpTargets)) \in Nat
         /\ FirstOf(1) = HeadEnd(Len(jumpTargets))
         /\ \A i \in 1 .. Len(Code) :
              /\ FirstOf(i) \in Nat /\ start[i] \in Nat /\ LimitOf(i) \in Nat
              /\ HeadEnd(Len(jumpTargets)) <= FirstOf(i)
              /\ FirstOf(i) <= start[i] /\ start[i] <= FirstOf(i) + 1
              /\ start[i] <= LimitOf(i) /\ LimitOf(i) <= BodyEnd
              /\ IsTarget(i) <=> FirstOf(i) < start[i]
              /\ Laid(result, jumpTargets, start, jumps, Code[i], i, LimitOf(i))
         /\ \A i, j \in 1 .. Len(Code) : i < j => start[i] <= FirstOf(j) /\ LimitOf(i) <= FirstOf(j)
         /\ \A i \in 1 .. Len(Code) - 1 : LimitOf(i) = FirstOf(i + 1)
         /\ Code[Len(Code)].op \in {"Br_S", "Ret"} /\ start[Len(Code)] < BodyEnd
<1> DEFINE n == Len(jumpTargets)
           L == Len(Code)
           h == HeadEnd(n)
           b == BodyEnd
<1>1. /\ TypeInv /\ method \in Methods /\ n \in Nat /\ result \in Seq(WasmInstr) /\ start \in Seq(Nat)
      /\ Len(result) \in Nat /\ Behind \in 1 .. 2
  BY JumpTargetFacts DEF Compiled, LayoutInv, LandInv, BalanceInv, TypeInv, TypeOK, Behind
<1>2. /\ WellFormedBody(Code) /\ Code \in Seq(CilInstr) /\ L \in Nat
  BY <1>1, CodeFacts
<1>3. L \in Nat \ {0}
  BY <1>2, EmptySeq DEF Compiled
<1>4. Len(start) = L /\ Layout(Code, result, jumpTargets, start, jumps, b)
  BY DEF Compiled, LayoutInv, BodyEnd
<1>5. /\ h <= b /\ b <= Len(result) + 1 /\ Origin(jumpTargets, start, 1) = h
      /\ \A i, j \in 1 .. L : i < j => start[i] <= Origin(jumpTargets, start, j)
  BY <1>3, <1>4 DEF Layout
<1>6. h \in Nat /\ h > 1
  <2>1. n = 0 => h = 2
    BY DEF HeadEnd
  <2>2. n # 0 => h = n + 6
    BY DEF HeadEnd
  <2> QED
    BY <1>1, <2>1, <2>2
<1>7. b \in Nat /\ b <= Len(result)
  <2>1. b = Len(result) - Behind
    BY DEF BodyEnd
  <2>2. b \in Int /\ b >= h
    BY <1>1, <1>5, <1>6, <2>1
  <2> HIDE DEF b, h
  <2> QED
    BY <1>1, <1>6, <2>1, <2>2
<1>a. Len(result) \in Nat /\ n \in Nat /\ start \in Seq(Nat) /\ b \in Nat
  BY <1>1, <1>7
<1> HIDE DEF b, h
<1>8. ASSUME NEW i \in 1 .. L
      PROVE  /\ FirstOf(i) \in Nat /\ start[i] \in Nat /\ LimitOf(i) \in Nat
             /\ h <= FirstOf(i)
             /\ FirstOf(i) <= start[i] /\ start[i] <= FirstOf(i) + 1
             /\ start[i] <= LimitOf(i) /\ LimitOf(i) <= b
             /\ IsTarget(i) <=> FirstOf(i) < start[i]
             /\ Laid(result, jumpTargets, start, jumps, Code[i], i, LimitOf(i))
  <2>1. LET lim == Limit(jumpTargets, start, i, b)
        IN  /\ start[i] \in Nat /\ start[i] > 1 /\ Origin(jumpTargets, start, i) \in Nat
            /\ h <= Origin(jumpTargets, start, i) /\ Origin(jumpTargets, start, i) <= start[i]
            /\ lim \in Nat /\ start[i] <= lim /\ lim <= b
            /\ Laid(result, jumpTargets, start, jumps, Code[i], i, lim)
    <3>1. i \in 1 .. Len(start)
      BY <1>4
    <3> QED
      BY <1>a, <1>4, <3>1, LayoutFacts DEF h
  <2>2. DOMAIN jumpTargets = 1 .. n
    BY <1>1 DEF TypeInv, TypeOK
  <2>3. /\ IsTarget(i) => FirstOf(i) = start[i] - 1
        /\ ~IsTarget(i) => FirstOf(i) = start[i]
    BY <2>2 DEF IsTarget, FirstOf, Origin
  <2>4. FirstOf(i) = Origin(jumpTargets, start, i) /\ LimitOf(i) = Limit(jumpTargets, start, i, b)
    BY DEF FirstOf, LimitOf, b
  <2>5. start[i] <= FirstOf(i) + 1 /\ (IsTarget(i) <=> FirstOf(i) < start[i])
    <3>1. start[i] \in Nat
      BY <2>1
    <3>2. CASE IsTarget(i)
      BY <2>3, <3>1, <3>2
    <3>3. CASE ~IsTarget(i)
      BY <2>3, <3>1, <3>3
    <3> QED
      BY <3>2, <3>3
  <2> QED
    BY <2>1, <2>4, <2>5
<1>9. \A i \in 1 .. L - 1 : LimitOf(i) = FirstOf(i + 1)
  <2> TAKE i \in 1 .. L - 1
  <2>1. i < Len(start)
    BY <1>2, <1>4
  <2> QED
    BY <2>1 DEF LimitOf, Limit, FirstOf
<1>10. ASSUME NEW i \in 1 .. L, NEW j \in 1 .. L, i < j
       PROVE  start[i] <= FirstOf(j) /\ LimitOf(i) <= FirstOf(j)
  <2>1. start[i] <= FirstOf(j)
    BY <1>5, <1>10 DEF FirstOf
  <2>2. i \in 1 .. L - 1 /\ i + 1 \in 1 .. L /\ (i + 1 = j \/ i + 1 < j)
    BY <1>2, <1>10
  <2>3. LimitOf(i) = FirstOf(i + 1)
    BY <1>9, <2>2
  <2>4. CASE i + 1 = j
    BY <1>8, <2>1, <2>3, <2>4
  <2>5. CASE i + 1 < j
    <3>1. start[i + 1] <= FirstOf(j)
      BY <1>5, <2>2, <2>5 DEF FirstOf
    <3>2. FirstOf(i + 1) <= start[i + 1] /\ FirstOf(i + 1) \in Nat /\ start[i + 1] \in Nat /\ FirstOf(j) \in Nat
      BY <1>8, <2>2
    <3>3. \A x, y, z \in Nat : x <= y /\ y <= z => x <= z
      OBVIOUS
    <3>4. FirstOf(i + 1) <= FirstOf(j)
      BY <3>1, <3>2, <3>3, Zenon
    <3> QED
      BY <2>1, <2>3, <3>4
  <2> QED
    BY <2>2, <2>4, <2>5
<1>11. Code[L].op \in {"Br_S", "Ret"} /\ start[L] < b
  <2>1. L \in 1 .. L /\ ~(L < Len(start))
    BY <1>3, <1>4
  <2>2. LimitOf(L) = b
    BY <2>1 DEF LimitOf, Limit, b
  <2>3. Code[L].op \in LastOps
    BY <1>2 DEF WellFormedBody, Compiled
  <2>4. Laid(result, jumpTargets, start, jumps, Code[L], L, b) /\ start[L] \in Nat
    BY <1>8, <2>1, <2>2
  <2>5. Code[L].op \in Supported /\ start[L] <= b /\ (Code[L].op # "Nop" => start[L] # b)
    BY <2>4 DEF Laid
  <2>6. Supported \cap LastOps \subseteq {"Br_S", "Ret"}
    BY DEF Supported, LastOps, UnconditionalBranches, StraightOps, SimpleOps, BranchTests
  <2>7. Code[L].op \in {"Br_S", "Ret"}
    BY <2>3, <2>5, <2>6
  <2>8. start[L] # b
    BY <2>5, <2>7
  <2> QED
    BY <1>7, <2>4, <2>5, <2>7, <2>8
<1>12. FirstOf(1) = h
  BY <1>5 DEF FirstOf
<1> QED
  BY <1>1, <1>3, <1>6, <1>7, <1>8, <1>9, <1>10, <1>11, <1>12 DEF b, h

(* A finite set of numbers has a greatest.                                 *)
LEMMA GreatestExists ==
  ASSUME NEW S \in SUBSET Nat, IsFiniteSet(S), S # {}
  PROVE  \E x \in S : \A y \in S : y <= x
<1> DEFINE n == Cardinality(S)
<1>1. n \in Nat /\ n # 0
  BY FS_CardinalityType, FS_EmptySet
<1>2. PICK s \in [1 .. n -> S] : IsSortedListOf(s, S)
  BY SortedListExists
<1> HIDE DEF n
<1>3. n \in 1 .. n /\ s[n] \in S
  BY <1>1, <1>2
<1>4. ASSUME NEW y \in S PROVE y <= s[n]
  <2>1. PICK i \in 1 .. n : s[i] = y
    BY <1>2 DEF IsSortedListOf
  <2>2. i = n \/ i < n
    BY <1>1, <2>1
  <2>3. i < n => s[i] < s[n]
    BY <1>2, <1>3, <2>1 DEF IsSortedListOf
  <2>4. s[n] \in Nat /\ s[i] \in Nat
    BY <1>3, <2>1
  <2> QED
    BY <2>1, <2>2, <2>3, <2>4
<1> QED
  BY <1>3, <1>4

(* Every position behind the head is in the code of an instruction.        *)
LEMMA SomeCovers ==
  ASSUME Compiled, NEW q \in Nat, HeadEnd(Len(jumpTargets)) <= q, q < BodyEnd
  PROVE  \E i \in 1 .. Len(Code) : Covers(i, q)
<1> DEFINE L == Len(Code)
           S == {i \in 1 .. L : FirstOf(i) <= q}
<1>1. L \in Nat \ {0} /\ 1 \in 1 .. L /\ FirstOf(1) = HeadEnd(Len(jumpTargets))
  BY Places
<1>2. S \in SUBSET Nat /\ IsFiniteSet(S) /\ 1 \in S
  <2>1. IsFiniteSet(1 .. L)
    BY <1>1, FS_Interval
  <2>2. S \subseteq 1 .. L
    OBVIOUS
  <2>3. IsFiniteSet(S)
    BY <2>1, <2>2, FS_Subset
  <2> QED
    BY <1>1, <2>3
<1>3. PICK i \in S : \A j \in S : j <= i
  <2> HIDE DEF S
  <2> QED
    BY <1>2, GreatestExists
<1>4. i \in 1 .. L /\ FirstOf(i) <= q
  OBVIOUS
<1>5. q < LimitOf(i)
  <2>1. CASE i = L
    <3>1. LimitOf(L) = BodyEnd
      <4>1. Len(start) = L
        BY DEF Compiled, LayoutInv
      <4>2. ~(L < Len(start))
        BY <1>1, <4>1
      <4> QED
        BY <4>2 DEF LimitOf, Limit
    <3> QED
      BY <2>1, <3>1
  <2>2. CASE i # L
    <3>1. i \in 1 .. L - 1 /\ i + 1 \in 1 .. L /\ ~(i + 1 <= i)
      BY <1>1, <1>4, <2>2
    <3>2. LimitOf(i) = FirstOf(i + 1) /\ FirstOf(i + 1) \in Nat
      BY <3>1, Places
    <3>3. i + 1 \notin S
      BY <1>3, <3>1
    <3>4. ~(FirstOf(i + 1) <= q)
      BY <3>1, <3>3
    <3> QED
      BY <3>2, <3>4
  <2> QED
    BY <2>1, <2>2
<1> QED
  BY <1>4, <1>5 DEF Covers

(* And of one only: the engine is past the beginning of those before it.   *)
LEMMA CoversOrder ==
  ASSUME Compiled, NEW q \in Nat, NEW i, Covers(i, q), NEW j \in 1 .. Len(Code)
  PROVE  FirstOf(j) <= q <=> j <= i
<1>1. i \in 1 .. Len(Code) /\ FirstOf(i) <= q /\ q < LimitOf(i) /\ Len(Code) \in Nat
  BY Places DEF Covers
<1>2. /\ FirstOf(i) \in Nat /\ LimitOf(i) \in Nat /\ FirstOf(j) \in Nat /\ start[j] \in Nat
      /\ FirstOf(j) <= start[j]
  BY <1>1, Places
<1>3. j < i => start[j] <= FirstOf(i)
  BY <1>1, Places
<1>4. i < j => LimitOf(i) <= FirstOf(j)
  BY <1>1, Places
<1>5. j < i \/ j = i \/ i < j
  BY <1>1
<1>6. CASE j < i
  BY <1>1, <1>2, <1>3, <1>6
<1>7. CASE j = i
  BY <1>1, <1>7
<1>8. CASE i < j
  BY <1>1, <1>2, <1>4, <1>8
<1> QED
  BY <1>5, <1>6, <1>7, <1>8
-----------------------------------------------------------------------------
(* Nops do not count.                                                      *)
LEMMA ActiveSkips ==
  ASSUME NEW code, Len(code) \in Nat, NEW t \in Nat, NEW r \in Nat, t <= r,
         \A k \in t .. r - 1 : code[k].op = "Nop"
  PROVE  Active(code, t) = Active(code, r)
<1> DEFINE P(j) == /\ j \in t .. Len(code) /\ code[j].op # "Nop"
                   /\ \A k \in t .. j - 1 : code[k].op = "Nop"
           Q(j) == /\ j \in r .. Len(code) /\ code[j].op # "Nop"
                   /\ \A k \in r .. j - 1 : code[k].op = "Nop"
<1>1. ASSUME NEW j, P(j) PROVE Q(j)
  <2>1. j \in Nat /\ t <= j /\ j <= Len(code)
    BY <1>1
  <2>2. r <= j
    <3>1. SUFFICES ASSUME ~(r <= j) PROVE FALSE
      OBVIOUS
    <3>2. j \in t .. r - 1
      BY <2>1, <3>1
    <3> QED
      BY <1>1, <3>2
  <2>3. \A k \in r .. j - 1 : k \in t .. j - 1
    BY <2>1
  <2> QED
    BY <1>1, <2>1, <2>2, <2>3
<1>2. ASSUME NEW j, Q(j) PROVE P(j)
  <2>1. j \in Nat /\ r <= j /\ j <= Len(code) /\ t <= j
    BY <1>2
  <2>2. \A k \in t .. j - 1 : k \in t .. r - 1 \/ k \in r .. j - 1
    BY <2>1
  <2> QED
    BY <1>2, <2>1, <2>2
<1>3. \A j : P(j) <=> Q(j)
  BY <1>1, <1>2
<1>4. Active(code, t) = CHOOSE j : P(j)
  BY DEF Active
<1>5. Active(code, r) = CHOOSE j : Q(j)
  BY DEF Active
<1> HIDE DEF P, Q
<1>6. (CHOOSE j : P(j)) = (CHOOSE j : Q(j))
  BY <1>3
<1> QED
  BY <1>4, <1>5, <1>6

(* Anything else does.                                                     *)
LEMMA ActiveStays ==
  ASSUME NEW code, Len(code) \in Nat, NEW i \in 1 .. Len(code), code[i].op # "Nop"
  PROVE  Active(code, i) = i
<1> DEFINE P(j) == /\ j \in i .. Len(code) /\ code[j].op # "Nop"
                   /\ \A k \in i .. j - 1 : code[k].op = "Nop"
<1>1. P(i)
  OBVIOUS
<1>2. ASSUME NEW j, P(j) PROVE j = i
  <2>1. j \in Nat /\ i <= j
    BY <1>2
  <2>2. SUFFICES ASSUME j # i PROVE FALSE
    OBVIOUS
  <2>3. i \in i .. j - 1
    BY <2>1, <2>2
  <2> QED
    BY <1>2, <2>3
<1>3. Active(code, i) = CHOOSE j : P(j)
  BY DEF Active
<1> HIDE DEF P
<1>4. P(CHOOSE j : P(j))
  BY <1>1
<1> QED
  BY <1>2, <1>3, <1>4

(* Where the engine arrives between the end of t's block and t's code it   *)
(* is about to execute what t does, even if t is a Nop, whose code is      *)
(* empty.                                                                  *)
LEMMA Settles ==
  ASSUME Compiled, NEW t \in 1 .. Len(Code), NEW q \in Nat, FirstOf(t) <= q, q <= start[t],
         NEW r, Covers(r, q)
  PROVE  Active(Code, r) = Active(Code, t)
<1>1. r \in 1 .. Len(Code) /\ FirstOf(r) <= q /\ Len(Code) \in Nat
  BY Places DEF Covers
<1>2. t <= r
  BY CoversOrder
<1>3. ASSUME NEW k \in t .. r - 1 PROVE Code[k].op = "Nop"
  <2>1. k \in 1 .. Len(Code) /\ t <= k /\ k < r
    BY <1>1
  <2>2. /\ start[t] \in Nat /\ start[k] \in Nat /\ FirstOf(k) \in Nat /\ FirstOf(k) <= start[k]
        /\ LimitOf(k) \in Nat /\ FirstOf(r) \in Nat /\ start[k] <= LimitOf(k)
        /\ Laid(result, jumpTargets, start, jumps, Code[k], k, LimitOf(k))
    BY <1>1, <2>1, Places
  <2>3. t = k \/ start[t] <= FirstOf(k)
    <3>1. t = k \/ t < k
      BY <2>1
    <3> QED
      BY <2>1, <3>1, Places
  <2>4. LimitOf(k) <= FirstOf(r)
    BY <1>1, <2>1, Places
  <2>5. start[t] <= start[k]
    <3>1. \A x, y, z \in Nat : x <= y /\ y <= z => x <= z
      OBVIOUS
    <3>2. CASE t = k
      BY <2>2, <3>2
    <3>3. CASE start[t] <= FirstOf(k)
      BY <2>2, <3>1, <3>3, Zenon
    <3> QED
      BY <2>3, <3>2, <3>3
  <2>6. start[k] = LimitOf(k)
    <3>1. \A a, b, c, d, e \in Nat : a <= b /\ b <= c /\ c <= d /\ d <= e /\ e <= a => b = c
      OBVIOUS
    <3>2. /\ start[t] \in Nat /\ start[k] \in Nat /\ LimitOf(k) \in Nat /\ FirstOf(r) \in Nat
          /\ start[t] <= start[k] /\ start[k] <= LimitOf(k) /\ LimitOf(k) <= FirstOf(r) /\ FirstOf(r) <= q
          /\ q <= start[t]
      BY <1>1, <2>2, <2>4, <2>5
    <3> QED
      BY <3>1, <3>2, Zenon
  <2> QED
    BY <2>2, <2>6 DEF Laid
<1> QED
  BY <1>1, <1>2, <1>3, ActiveSkips
-----------------------------------------------------------------------------
(* The refinement mapping, Pc: the instructions reached from position q.   *)
ReachedFrom(q) == {i \in DOMAIN Code : CodeOf(i) <= q}

(* The last of them is the one whose code q is in.                         *)
LEMMA ReachedIs ==
  ASSUME Compiled, NEW q \in Nat
  PROVE  /\ \A i : Covers(i, q) => /\ ReachedFrom(q) # {}
                                   /\ (CHOOSE x \in ReachedFrom(q) : \A y \in ReachedFrom(q) : y <= x) = i
         /\ q < HeadEnd(Len(jumpTargets)) => ReachedFrom(q) = {}
<1>1. /\ DOMAIN Code = 1 .. Len(Code) /\ Len(Code) \in Nat
      /\ \A i : CodeOf(i) = FirstOf(i)
  <2>1. method \in Methods
    BY DEF Compiled, LayoutInv, LandInv, BalanceInv, TypeInv, TypeOK
  <2> QED
    BY <2>1, CodeFacts DEF CodeOf, FirstOf, Origin
<1> DEFINE S == ReachedFrom(q)
<1>2. \A j : j \in S <=> j \in 1 .. Len(Code) /\ FirstOf(j) <= q
  BY <1>1 DEF ReachedFrom
<1> HIDE DEF S
<1>3. ASSUME NEW i, Covers(i, q)
      PROVE  S # {} /\ (CHOOSE x \in S : \A y \in S : y <= x) = i
  <2> DEFINE P(x) == x \in S /\ \A y \in S : y <= x
  <2>1. i \in 1 .. Len(Code) /\ FirstOf(i) <= q
    BY <1>3 DEF Covers
  <2>2. i \in S
    BY <1>2, <2>1
  <2>3. \A y \in S : y \in 1 .. Len(Code) /\ y <= i
    BY <1>2, <1>3, CoversOrder
  <2>4. P(i)
    BY <2>2, <2>3
  <2>5. \A x : P(x) => x = i
    <3>1. ASSUME NEW x, P(x) PROVE x = i
      <4>1. x \in 1 .. Len(Code) /\ x <= i /\ i <= x
        BY <2>2, <2>3, <3>1
      <4> QED
        BY <1>1, <2>1, <4>1
    <3> QED
      BY <3>1
  <2>6. (CHOOSE x \in S : \A y \in S : y <= x) = CHOOSE x : P(x)
    OBVIOUS
  <2> HIDE DEF P
  <2>7. P(CHOOSE x : P(x))
    BY <2>4
  <2> QED
    BY <2>2, <2>5, <2>6, <2>7
<1>4. ASSUME q < HeadEnd(Len(jumpTargets)) PROVE S = {}
  <2>1. \A j \in 1 .. Len(Code) : ~(FirstOf(j) <= q)
    <3> TAKE j \in 1 .. Len(Code)
    <3>1. FirstOf(j) \in Nat /\ HeadEnd(Len(jumpTargets)) <= FirstOf(j) /\ HeadEnd(Len(jumpTargets)) \in Nat
      BY Places
    <3> QED
      BY <1>4, <3>1
  <2> QED
    BY <1>2, <2>1
<1> QED
  BY <1>3, <1>4 DEF S

(* What it says of a running engine.                                       *)
LEMMA PcNow ==
  ASSUME Compiled, Running, ip \in Nat
  PROVE  /\ \A i : Covers(i, ip) => Pc = Active(Code, i)
         /\ ip < HeadEnd(Len(jumpTargets)) => Pc = Active(Code, HeadedFor)
<1>1. Code # <<>> /\ status = "running" /\ Reached = ReachedFrom(ip)
  BY DEF Compiled, Running, Reached, ReachedFrom
<1>2. ASSUME NEW i, Covers(i, ip) PROVE Pc = Active(Code, i)
  <2>1. ReachedFrom(ip) # {} /\ (CHOOSE x \in ReachedFrom(ip) : \A y \in ReachedFrom(ip) : y <= x) = i
    BY <1>2, ReachedIs
  <2>2. ~InHead /\ Running
    BY <1>1, <2>1 DEF InHead
  <2>3. Pc = Active(Code, CHOOSE x \in Reached : \A y \in Reached : y <= x)
    BY <1>1, <2>2 DEF Pc
  <2> QED
    BY <1>1, <2>1, <2>3
<1>3. ASSUME ip < HeadEnd(Len(jumpTargets)) PROVE Pc = Active(Code, HeadedFor)
  <2>1. ReachedFrom(ip) = {}
    BY <1>3, ReachedIs
  <2>2. InHead
    BY <1>1, <2>1 DEF InHead
  <2> QED
    BY <1>1, <2>2 DEF Pc
<1> QED
  BY <1>2, <1>3

(* And what of one that is running after a step.                           *)
LEMMA PcNext ==
  ASSUME Compiled, UNCHANGED compilerVars, Running', ip' \in Nat
  PROVE  /\ \A i : Covers(i, ip') => Pc' = Active(Code, i)
         /\ ip' < HeadEnd(Len(jumpTargets)) => Pc' = Active(Code, HeadedFor')
<1>1. Code # <<>> /\ Code' = Code /\ status' = "running" /\ Reached' = ReachedFrom(ip')
  BY DEF compilerVars, Compiled, Running, Reached, ReachedFrom, CodeOf, Code
<1>2. ASSUME NEW i, Covers(i, ip') PROVE Pc' = Active(Code, i)
  <2>1. ReachedFrom(ip') # {} /\ (CHOOSE x \in ReachedFrom(ip') : \A y \in ReachedFrom(ip') : y <= x) = i
    BY <1>2, ReachedIs
  <2>2. ~InHead' /\ Running'
    BY <1>1, <2>1 DEF InHead
  <2>3. Pc' = Active(Code', CHOOSE x \in Reached' : \A y \in Reached' : y <= x)
    BY <1>1, <2>2 DEF Pc
  <2> QED
    BY <1>1, <2>1, <2>3
<1>3. ASSUME ip' < HeadEnd(Len(jumpTargets)) PROVE Pc' = Active(Code, HeadedFor')
  <2>1. ReachedFrom(ip') = {}
    BY <1>3, ReachedIs
  <2>2. InHead'
    BY <1>1, <2>1 DEF InHead
  <2>3. Pc' = Active(Code', HeadedFor')
    BY <1>1, <2>2 DEF Pc
  <2> QED
    BY <1>1, <2>3
<1> QED
  BY <1>2, <1>3
-----------------------------------------------------------------------------
(* The nesting one instruction further on.                                 *)
LEMMA NestingStep ==
  ASSUME NEW c, NEW p \in Nat \ {0}
  PROVE  /\ c[p].op \in Openers => Nesting(c, p) = Nesting(c, p - 1) + 1
         /\ c[p].op = "end" => Nesting(c, p) = Nesting(c, p - 1) - 1
         /\ c[p].op \notin Structural => Nesting(c, p) = Nesting(c, p - 1)
         /\ Nesting(c, p - 1) \in Int
<1>1. p - 1 \in Nat /\ p \notin 1 .. p - 1 /\ 1 .. p = (1 .. p - 1) \cup {p}
  OBVIOUS
<1>2. /\ IsFiniteSet(Opened(c, p - 1)) /\ Cardinality(Opened(c, p - 1)) \in Nat
      /\ IsFiniteSet(Ended(c, p - 1)) /\ Cardinality(Ended(c, p - 1)) \in Nat
      /\ Nesting(c, p - 1) \in Int
  BY <1>1, NestingType
<1>3. p \notin Opened(c, p - 1) /\ p \notin Ended(c, p - 1)
  BY <1>1 DEF Opened, Ended
<1>4. /\ c[p].op \in Openers => Opened(c, p) = Opened(c, p - 1) \cup {p}
      /\ c[p].op \notin Openers => Opened(c, p) = Opened(c, p - 1)
      /\ c[p].op = "end" => Ended(c, p) = Ended(c, p - 1) \cup {p}
      /\ c[p].op # "end" => Ended(c, p) = Ended(c, p - 1)
  BY <1>1 DEF Opened, Ended
<1>5. /\ Cardinality(Opened(c, p - 1) \cup {p}) = Cardinality(Opened(c, p - 1)) + 1
      /\ Cardinality(Ended(c, p - 1) \cup {p}) = Cardinality(Ended(c, p - 1)) + 1
  BY <1>2, <1>3, FS_AddElement
<1>6. /\ Nesting(c, p) = Cardinality(Opened(c, p)) - Cardinality(Ended(c, p))
      /\ Nesting(c, p - 1) = Cardinality(Opened(c, p - 1)) - Cardinality(Ended(c, p - 1))
  BY DEF Nesting
<1>a. \A a, b \in Nat : a + 1 - b = a - b + 1 /\ a - (b + 1) = a - b - 1
  OBVIOUS
<1>7. ASSUME c[p].op \in Openers PROVE Nesting(c, p) = Nesting(c, p - 1) + 1
  <2>1. c[p].op # "end"
    BY <1>7 DEF Openers
  <2>2. Cardinality(Opened(c, p)) = Cardinality(Opened(c, p - 1)) + 1
    BY <1>4, <1>5, <1>7
  <2>3. Cardinality(Ended(c, p)) = Cardinality(Ended(c, p - 1))
    BY <1>4, <2>1
  <2> QED
    BY <1>2, <1>6, <1>a, <2>2, <2>3
<1>8. ASSUME c[p].op = "end" PROVE Nesting(c, p) = Nesting(c, p - 1) - 1
  <2>1. c[p].op \notin Openers
    BY <1>8 DEF Openers
  <2>2. Cardinality(Ended(c, p)) = Cardinality(Ended(c, p - 1)) + 1
    BY <1>4, <1>5, <1>8
  <2>3. Cardinality(Opened(c, p)) = Cardinality(Opened(c, p - 1))
    BY <1>4, <2>1
  <2> QED
    BY <1>2, <1>6, <1>a, <2>2, <2>3
<1>9. ASSUME c[p].op \notin Structural PROVE Nesting(c, p) = Nesting(c, p - 1)
  <2>1. c[p].op # "end" /\ c[p].op \notin Openers
    BY <1>9 DEF Structural
  <2> QED
    BY <1>4, <1>6, <2>1
<1> QED
  BY <1>2, <1>7, <1>8, <1>9

(* A block or loop ends once.                                              *)
LEMMA ClosedOnce ==
  ASSUME NEW c, NEW m \in Nat, NEW q \in Nat, ClosedBy(c, m, q)
  PROVE  (CHOOSE r \in m + 1 .. Len(c) : ClosedBy(c, m, r)) = q \/ q \notin m + 1 .. Len(c)
<1>1. ASSUME NEW a \in Nat, NEW b \in Nat, ClosedBy(c, m, a), ClosedBy(c, m, b), a < b PROVE FALSE
  <2>1. a \in m .. b - 1
    BY <1>1 DEF ClosedBy
  <2>2. Nesting(c, a) >= Nesting(c, m) /\ Nesting(c, a) = Nesting(c, m) - 1
    BY <1>1, <2>1 DEF ClosedBy
  <2>3. Nesting(c, m) \in Int
    BY NestingType
  <2> QED
    BY <2>2, <2>3
<1> DEFINE P(r) == r \in m + 1 .. Len(c) /\ ClosedBy(c, m, r)
<1>2. ASSUME q \in m + 1 .. Len(c) PROVE (CHOOSE r \in m + 1 .. Len(c) : ClosedBy(c, m, r)) = q
  <2>1. P(q)
    BY <1>2
  <2>2. \A r : P(r) => r = q
    <3>1. ASSUME NEW r, P(r) PROVE r = q
      <4>1. r \in Nat
        BY <3>1
      <4>2. r < q \/ r = q \/ q < r
        BY <4>1
      <4> QED
        BY <1>1, <3>1, <4>1, <4>2
    <3> QED
      BY <3>1
  <2>3. (CHOOSE r \in m + 1 .. Len(c) : ClosedBy(c, m, r)) = CHOOSE r : P(r)
    OBVIOUS
  <2> HIDE DEF P
  <2>4. P(CHOOSE r : P(r))
    BY <2>1
  <2> QED
    BY <2>2, <2>3, <2>4
<1> QED
  BY <1>2
-----------------------------------------------------------------------------
(* The head of the function, instruction by instruction.                   *)
LEMMA HeadCode ==
  ASSUME Compiled, NEW n, n = Len(jumpTargets)
  PROVE  /\ n \in Nat /\ result[1].op = "loop" /\ \A q \in 2 .. n + 1 : result[q].op = "block"
         /\ \A r \in 0 .. n + 1 : Nesting(result, r) = r
         /\ n = 0 => HeadEnd(n) = 2
         /\ n > 0 =>
              /\ HeadEnd(n) = n + 6
              /\ result[n + 2].op = "block" /\ result[n + 3] = GetLocal("jumpTarget", 0)
              /\ result[n + 4].op = "br_table" /\ result[n + 4].n = n /\ result[n + 5].op = "end"
              /\ Nesting(result, n + 2) = n + 2 /\ Nesting(result, n + 3) = n + 2
              /\ Nesting(result, n + 4) = n + 2 /\ Nesting(result, n + 5) = n + 1
         /\ HasPrologue(result, n) /\ Passed(result, n, jumpTargets, start, n)
         /\ \A j \in jumps : HasTarget(result, n, jumpTargets, start, j)
<1>1. /\ n \in Nat /\ Landed(result, n, jumpTargets, start, n, jumps)
      /\ Layout(Code, result, jumpTargets, start, jumps, BodyEnd)
  BY Places DEF Compiled, LayoutInv, LandInv, BodyEnd
<1>2. HasPrologue(result, n) /\ HeadLaid(result, n)
  BY <1>1 DEF Landed, Layout
<1>3. ASSUME n > 0
      PROVE  /\ HeadEnd(n) = n + 6
             /\ result[n + 2].op = "block" /\ result[n + 3] = GetLocal("jumpTarget", 0)
             /\ result[n + 4].op = "br_table" /\ result[n + 4].n = n /\ result[n + 5].op = "end"
             /\ Nesting(result, n + 2) = n + 2 /\ Nesting(result, n + 3) = n + 2
             /\ Nesting(result, n + 4) = n + 2 /\ Nesting(result, n + 5) = n + 1
  <2>1. /\ result[n + 2] = W("block") /\ result[n + 3] = GetLocal("jumpTarget", 0)
        /\ result[n + 4] = WN("br_table", n) /\ result[n + 5] = W("end")
    BY <1>2, <1>3 DEF HeadLaid
  <2>2. /\ result[n + 2].op = "block" /\ result[n + 4].op = "br_table" /\ result[n + 4].n = n
        /\ result[n + 5].op = "end"
    <3>1. \A op, k : W(op).op = op /\ WN(op, k).op = op /\ WN(op, k).n = k
      BY DEF W, WN
    <3> QED
      BY <2>1, <3>1
  <2>3. Nesting(result, n + 2) = n + 2 /\ Nesting(result, n + 3) = n + 2
    BY <1>2, <1>3 DEF HasPrologue
  <2>4. n + 4 \in Nat \ {0} /\ n + 5 \in Nat \ {0} /\ n + 4 - 1 = n + 3 /\ n + 5 - 1 = n + 4
    BY <1>1
  <2>5. Nesting(result, n + 4) = Nesting(result, n + 3)
    <3>1. result[n + 4].op \notin Structural
      BY <2>2 DEF Structural, Openers
    <3> QED
      BY <2>4, <3>1, NestingStep
  <2>6. Nesting(result, n + 5) = Nesting(result, n + 4) - 1
    BY <2>2, <2>4, NestingStep
  <2>7. HeadEnd(n) = n + 6
    BY <1>3, <1>1 DEF HeadEnd
  <2> QED
    BY <1>1, <2>1, <2>2, <2>3, <2>5, <2>6, <2>7
<1> QED
  BY <1>1, <1>2, <1>3 DEF HasPrologue, Landed, HeadEnd

(* Number k in jumpTarget stands for instruction HeadingFor(k), label k of *)
(* the jump table leads to LandingOf(k).                                   *)
HeadingFor(k) == IF k = 0 THEN 1 ELSE jumpTargets[k]
LandingOf(k)  == IF k = 0 THEN FirstOf(1) ELSE start[jumpTargets[k]]

(* A branch that leaves the block opened at m continues at q.              *)
LeavesTo(m, q) ==
  /\ result[m].op = "block"
  /\ 1 + (CHOOSE r \in m + 1 .. Len(result) : ClosedBy(result, m, r)) = q

(* The block opened at n + 2 - k ends right before that place.             *)
LEMMA Landing ==
  ASSUME Compiled, NEW n, n = Len(jumpTargets), n > 0, NEW k \in 0 .. n
  PROVE  /\ n + 2 - k \in 2 .. n + 2 /\ LeavesTo(n + 2 - k, LandingOf(k))
         /\ LandingOf(k) \in Nat /\ HeadingFor(k) \in 1 .. Len(Code)
         /\ FirstOf(HeadingFor(k)) <= LandingOf(k) /\ LandingOf(k) <= start[HeadingFor(k)]
         /\ Nesting(result, LandingOf(k) - 1) = n + 1 - k
<1>1. /\ n \in Nat /\ Len(Code) \in Nat \ {0} /\ TypeInv /\ Len(result) \in Nat
  <2>1. TypeInv
    BY DEF Compiled, LayoutInv, LandInv, BalanceInv
  <2>2. result \in Seq(WasmInstr)
    BY Places
  <2> QED
    BY <2>1, <2>2, Places
<1>2. /\ HasPrologue(result, n) /\ Passed(result, n, jumpTargets, start, n)
      /\ \A r \in 0 .. n + 1 : Nesting(result, r) = r
      /\ result[n + 2].op = "block" /\ result[n + 5].op = "end" /\ HeadEnd(n) = n + 6
      /\ Nesting(result, n + 2) = n + 2 /\ Nesting(result, n + 3) = n + 2
      /\ Nesting(result, n + 4) = n + 2 /\ Nesting(result, n + 5) = n + 1
  BY HeadCode
<1>3. CASE k = 0
  <2> DEFINE m == n + 2
  <2>1. m - 0 = m /\ n + 2 - k = m /\ m \in 2 .. n + 2 /\ m \in Nat /\ n + 5 \in Nat /\ m < n + 5
    BY <1>1, <1>3
  <2>2. HeadingFor(k) = 1 /\ LandingOf(k) = n + 6 /\ 1 \in 1 .. Len(Code)
    BY <1>1, <1>2, <1>3, Places DEF HeadingFor, LandingOf
  <2>3. FirstOf(1) = n + 6 /\ FirstOf(1) <= start[1]
    BY <1>2, <2>2, Places
  <2>4. ClosedBy(result, m, n + 5)
    <3>1. \A r \in m .. n + 5 - 1 : r = n + 2 \/ r = n + 3 \/ r = n + 4
      BY <1>1
    <3>2. \A r \in m .. n + 5 - 1 : Nesting(result, r) = n + 2
      BY <1>2, <3>1
    <3>3. n + 2 >= n + 2 /\ n + 2 - 1 = n + 1
      BY <1>1
    <3> QED
      BY <1>2, <2>1, <3>2, <3>3 DEF ClosedBy
  <2>5. n + 5 \in m + 1 .. Len(result)
    <3>1. n + 5 <= Len(result)
      BY <1>2 DEF HasPrologue
    <3> QED
      BY <1>1, <3>1
  <2> HIDE DEF m
  <2>6. (CHOOSE q \in m + 1 .. Len(result) : ClosedBy(result, m, q)) = n + 5
    BY <2>1, <2>4, <2>5, ClosedOnce
  <2>7. 1 + (n + 5) = n + 6 /\ n + 6 - 1 = n + 5 /\ n + 1 - 0 = n + 1 /\ n + 6 <= n + 6 /\ n + 6 \in Nat
    BY <1>1
  <2>8. result[m].op = "block"
    BY <1>2 DEF m
  <2>9. LeavesTo(m, LandingOf(k))
    BY <2>2, <2>6, <2>7, <2>8 DEF LeavesTo
  <2>10. LandingOf(k) <= start[HeadingFor(k)] /\ FirstOf(HeadingFor(k)) <= LandingOf(k)
    BY <2>2, <2>3, <2>7
  <2>11. Nesting(result, LandingOf(k) - 1) = n + 1 - k
    BY <1>2, <1>3, <2>2, <2>7
  <2> QED
    BY <2>1, <2>2, <2>7, <2>9, <2>10, <2>11
<1>4. CASE k # 0
  <2> DEFINE m == n + 2 - k
             t == jumpTargets[k]
             q == start[t] - 1
  <2>1. k \in 1 .. n /\ HeadingFor(k) = t /\ LandingOf(k) = start[t]
    BY <1>1, <1>4 DEF HeadingFor, LandingOf
  <2>2. t \in 1 .. Len(Code)
    BY <1>1, <2>1, JumpTargetFacts
  <2>3. ClosesTarget(result, n, k, q)
    BY <1>2, <2>1 DEF Passed
  <2>4. m = BlockOf(n, k)
    BY DEF BlockOf
  <2>5. m \in 2 .. n + 1 /\ result[m].op = "block" /\ ClosedBy(result, m, q)
    BY <1>1, <1>2, <2>1, <2>3, <2>4, BlockCloses
  <2>6. q \in n + 2 .. Len(result) /\ Nesting(result, q) = n + 1 - k
    BY <2>3 DEF ClosesTarget
  <2>7. start[t] \in Nat /\ FirstOf(t) <= start[t] /\ start[t] <= start[t]
    BY <2>2, Places
  <2>8. m \in 2 .. n + 2 /\ m \in Nat /\ q \in Nat /\ q \in m + 1 .. Len(result) /\ 1 + q = start[t]
    <3>1. m \in 2 .. n + 1
      BY <2>5
    <3>2. q \in n + 2 .. Len(result) /\ 1 + q = start[t]
      BY <2>6, <2>7
    <3> HIDE DEF m, q
    <3> QED
      BY <1>1, <3>1, <3>2
  <2>a. LandingOf(k) - 1 = q
    BY <2>1
  <2> HIDE DEF m, q, t
  <2>9. (CHOOSE r \in m + 1 .. Len(result) : ClosedBy(result, m, r)) = q
    BY <2>5, <2>8, ClosedOnce
  <2>10. /\ LandingOf(k) \in Nat /\ HeadingFor(k) \in 1 .. Len(Code)
         /\ FirstOf(HeadingFor(k)) <= LandingOf(k) /\ LandingOf(k) <= start[HeadingFor(k)]
         /\ Nesting(result, LandingOf(k) - 1) = n + 1 - k
    BY <2>1, <2>2, <2>6, <2>7, <2>a
  <2>11. 1 + (CHOOSE r \in m + 1 .. Len(result) : ClosedBy(result, m, r)) = LandingOf(k)
    BY <2>1, <2>8, <2>9
  <2>12. LeavesTo(m, LandingOf(k))
    BY <2>5, <2>11 DEF LeavesTo
  <2> QED
    BY <2>8, <2>10, <2>12 DEF m
<1> QED
  BY <1>3, <1>4
-----------------------------------------------------------------------------
(* The labels the engine keeps are those of the blocks open at q: the loop *)
(* and the blocks of the targets not yet passed, each at its own place.    *)
LabelsMatch(ls, q) ==
  /\ ls \in Seq(Nat) /\ Len(ls) = Nesting(result, q - 1)
  /\ \A d \in 1 .. Len(ls) : ls[d] = d

HeadLast  == IF jumpTargets = <<>> THEN 1 ELSE Len(jumpTargets) + 4
InTheHead(q) == q \in 1 .. HeadLast

(* Within the code of an instruction i, a constant is on the stack behind  *)
(* its i32.const, and what was stored for jumpTarget last is in it.        *)
Carries(i, q, t, jt) ==
  start[i] < q /\ q < LimitOf(i) =>
    /\ result[q - 1].op = "i32.const" => t = <<result[q - 1].n>>
    /\ \A s \in start[i] + 1 .. q - 1 :
         result[s] = SetLocal("jumpTarget", 0) /\ (\A r \in s + 1 .. q - 1 : result[r].op # "set_local")
           => jt = result[s - 1].n

(* What holds of a running engine that is at q with the labels ls, t on    *)
(* the stack and jt in the local.                                          *)
Consistent(q, ls, t, jt) ==
  /\ LabelsMatch(ls, q)
  /\ InTheHead(q) \/ \E i \in 1 .. Len(Code) : Covers(i, q)
  /\ jumpTargets # <<>> /\ q = Len(jumpTargets) + 4 => t = <<jt>>
  /\ \A i \in 1 .. Len(Code) : Carries(i, q, t, jt)

EngineTypes ==
  /\ status \in {"idle", "running", "returned", "trapped"}
  /\ ip \in Nat
  /\ labels \in Seq(Nat)
  /\ top \in Seq(Int) /\ Len(top) <= 1
  /\ jumpTarget \in 0 .. Len(jumpTargets)

EngineInv ==
  /\ LayoutInv
  /\ EngineTypes
  /\ status = "idle" => ip = 1 /\ labels = <<>> /\ top = <<>> /\ jumpTarget = 0
  /\ status # "idle" => phase = "done" /\ Code # <<>>
  /\ Running => Consistent(ip, labels, top, jumpTarget)

(* The step of the CIL body a step of the engine stands for, if any.       *)
Follows == CIL!Next \/ Pc' = Pc

(* The head lies in front of the code of all instructions.                 *)
LEMMA HeadIsFirst ==
  ASSUME Compiled
  PROVE  /\ HeadLast \in Nat /\ 1 <= HeadLast /\ HeadLast < HeadEnd(Len(jumpTargets))
         /\ jumpTargets = <<>> <=> Len(jumpTargets) = 0
         /\ \A q \in 1 .. HeadLast, i \in 1 .. Len(Code) : ~Covers(i, q) /\ ~(start[i] < q)
<1> DEFINE n == Len(jumpTargets)
<1>1. n \in Nat /\ TypeInv
  BY Places DEF Compiled, LayoutInv, LandInv, BalanceInv
<1>2. jumpTargets \in Seq(1 .. Len(Code))
  BY <1>1, JumpTargetFacts
<1>3. jumpTargets = <<>> <=> n = 0
  BY <1>2, EmptySeq
<1>4. HeadLast \in Nat /\ 1 <= HeadLast /\ HeadLast < HeadEnd(n)
  <2>1. CASE n = 0
    BY <1>3, <2>1 DEF HeadLast, HeadEnd
  <2>2. CASE n # 0
    BY <1>1, <1>3, <2>2 DEF HeadLast, HeadEnd
  <2> QED
    BY <2>1, <2>2
<1>5. ASSUME NEW q \in 1 .. HeadLast, NEW i \in 1 .. Len(Code)
      PROVE  ~Covers(i, q) /\ ~(start[i] < q)
  <2>1. /\ FirstOf(i) \in Nat /\ start[i] \in Nat /\ HeadEnd(n) \in Nat
        /\ HeadEnd(n) <= FirstOf(i) /\ FirstOf(i) <= start[i]
    BY Places
  <2>2. q \in Nat /\ q <= HeadLast
    BY <1>4
  <2> HIDE DEF n
  <2>3. q < FirstOf(i) /\ q < start[i]
    BY <1>4, <2>1, <2>2
  <2> QED
    BY <2>1, <2>2, <2>3 DEF Covers
<1> QED
  BY <1>3, <1>4, <1>5

(* Anywhere between the end of t's block and its code the engine may       *)
(* arrive.                                                                 *)
LEMMA Arrives ==
  ASSUME Compiled, NEW t \in 1 .. Len(Code), NEW q \in Nat, FirstOf(t) <= q, q <= start[t],
         NEW ls, LabelsMatch(ls, q), NEW tp, NEW jt
  PROVE  Consistent(q, ls, tp, jt) /\ ~InTheHead(q) /\ \E i \in 1 .. Len(Code) : Covers(i, q)
<1>1. /\ Len(jumpTargets) \in Nat /\ Len(Code) \in Nat \ {0} /\ BodyEnd \in Nat
      /\ HeadEnd(Len(jumpTargets)) \in Nat
      /\ FirstOf(t) \in Nat /\ start[t] \in Nat /\ HeadEnd(Len(jumpTargets)) <= FirstOf(t)
      /\ start[Len(Code)] < BodyEnd
  BY Places
<1>2. start[t] <= start[Len(Code)] /\ start[Len(Code)] \in Nat
  <2>1. Len(Code) \in 1 .. Len(Code) /\ (t = Len(Code) \/ t < Len(Code))
    BY <1>1
  <2>2. start[Len(Code)] \in Nat /\ FirstOf(Len(Code)) <= start[Len(Code)] /\ FirstOf(Len(Code)) \in Nat
    BY <2>1, Places
  <2>3. t < Len(Code) => start[t] <= FirstOf(Len(Code))
    BY <2>1, Places
  <2> QED
    BY <1>1, <2>1, <2>2, <2>3
<1>3. HeadEnd(Len(jumpTargets)) <= q /\ q < BodyEnd
  BY <1>1, <1>2
<1>4. PICK i \in 1 .. Len(Code) : Covers(i, q)
  BY <1>3, SomeCovers
<1>5. ~InTheHead(q)
  BY <1>4, HeadIsFirst DEF InTheHead
<1>6. ~(jumpTargets # <<>> /\ q = Len(jumpTargets) + 4)
  <2>1. jumpTargets # <<>> => HeadEnd(Len(jumpTargets)) = Len(jumpTargets) + 6
    BY <1>1, HeadIsFirst, HeadCode
  <2> QED
    BY <1>1, <1>3, <2>1
<1>7. ASSUME NEW j \in 1 .. Len(Code) PROVE Carries(j, q, tp, jt)
  <2>1. start[j] \in Nat /\ LimitOf(j) \in Nat /\ FirstOf(j) \in Nat /\ FirstOf(j) <= start[j]
    BY Places
  <2>2. j < t \/ j = t \/ t < j
    BY <1>1
  <2>3. j < t => LimitOf(j) <= FirstOf(t)
    BY Places
  <2>4. t < j => start[t] <= FirstOf(j)
    BY Places
  <2>5. ~(start[j] < q /\ q < LimitOf(j))
    <3>1. CASE j < t
      BY <1>1, <2>1, <2>3, <3>1
    <3>2. CASE j = t
      BY <1>1, <3>2
    <3>3. CASE t < j
      BY <1>1, <2>1, <2>4, <3>3
    <3> QED
      BY <2>2, <3>1, <3>2, <3>3
  <2> QED
    BY <2>5 DEF Carries
<1> QED
  BY <1>4, <1>5, <1>6, <1>7 DEF Consistent

(* One instruction further on, within the code of an instruction of the    *)
(* body that can fall through, or at the next one's.                       *)
LEMMA Advances ==
  ASSUME Compiled, NEW q \in Nat, NEW i \in 1 .. Len(Code), Covers(i, q), start[i] <= q,
         result[q].op \notin Structural \cup {"br", "return"},
         NEW ls, LabelsMatch(ls, q), NEW tp, NEW jt, Carries(i, q + 1, tp, jt)
  PROVE  /\ Consistent(q + 1, ls, tp, jt)
         /\ \E r \in 1 .. Len(Code) :
              /\ Covers(r, q + 1)
              /\ \/ r = i
                 \/ /\ Code[i].op \notin UnconditionalBranches \cup {"Ret"}
                    /\ Active(Code, r) = Active(Code, i + 1)
<1>1. /\ Len(jumpTargets) \in Nat /\ Len(Code) \in Nat \ {0} /\ BodyEnd \in Nat
      /\ HeadEnd(Len(jumpTargets)) \in Nat
      /\ FirstOf(i) \in Nat /\ start[i] \in Nat /\ LimitOf(i) \in Nat /\ FirstOf(i) <= start[i]
      /\ HeadEnd(Len(jumpTargets)) <= FirstOf(i)
      /\ Laid(result, jumpTargets, start, jumps, Code[i], i, LimitOf(i))
      /\ Code[Len(Code)].op \in {"Br_S", "Ret"}
  BY Places
<1>2. q < LimitOf(i) /\ q \in Nat \ {0} /\ q + 1 \in Nat \ {0} /\ q + 1 - 1 = q
  <2>1. HeadEnd(Len(jumpTargets)) > 1
    BY <1>1, HeadIsFirst
  <2> QED
    BY <1>1, <2>1 DEF Covers
<1>3. LabelsMatch(ls, q + 1)
  <2>1. Nesting(result, q) = Nesting(result, q - 1)
    BY <1>2, NestingStep
  <2> QED
    BY <1>2, <2>1 DEF LabelsMatch
<1>4. CASE q + 1 < LimitOf(i)
  <2>1. Covers(i, q + 1)
    BY <1>1, <1>2, <1>4 DEF Covers
  <2>2. ~InTheHead(q + 1)
    BY <2>1, HeadIsFirst DEF InTheHead
  <2>3. ~(jumpTargets # <<>> /\ q + 1 = Len(jumpTargets) + 4)
    <3>1. jumpTargets # <<>> => HeadLast = Len(jumpTargets) + 4
      BY DEF HeadLast
    <3> QED
      BY <1>1, <2>2, <3>1 DEF InTheHead
  <2>4. ASSUME NEW j \in 1 .. Len(Code) PROVE Carries(j, q + 1, tp, jt)
    <3>1. CASE j = i
      BY <3>1
    <3>2. CASE j # i
      <4>1. start[j] \in Nat /\ LimitOf(j) \in Nat /\ FirstOf(j) \in Nat /\ FirstOf(j) <= start[j]
        BY Places
      <4>2. j < i \/ i < j
        BY <1>1, <3>2
      <4>3. j < i => LimitOf(j) <= FirstOf(i)
        BY Places
      <4>4. i < j => LimitOf(i) <= FirstOf(j)
        BY Places
      <4>5. ~(start[j] < q + 1 /\ q + 1 < LimitOf(j))
        <5>1. CASE j < i
          BY <1>1, <4>1, <4>3, <5>1
        <5>2. CASE i < j
          BY <1>1, <1>4, <4>1, <4>4, <5>2
        <5> QED
          BY <4>2, <5>1, <5>2
      <4> QED
        BY <4>5 DEF Carries
    <3> QED
      BY <3>1, <3>2
  <2> QED
    BY <1>3, <2>1, <2>3, <2>4 DEF Consistent
<1>5. CASE ~(q + 1 < LimitOf(i))
  <2>1. q + 1 = LimitOf(i) /\ LimitOf(i) - 1 = q
    BY <1>1, <1>2, <1>5
  <2>2. Code[i].op \in Supported /\ Closes(result[q], Code[i])
    <3>1. start[i] # LimitOf(i)
      BY <1>1, <1>2
    <3> QED
      BY <1>1, <2>1, <3>1 DEF Laid
  <2>3. Code[i].op \notin {"Br_S", "Ret"}
    BY <2>2 DEF Closes
  <2>4. Code[i].op \notin UnconditionalBranches \cup {"Ret"}
    <3>1. "Br" \notin Supported
      BY DEF Supported, StraightOps, SimpleOps, BranchTests
    <3> QED
      BY <2>2, <2>3, <3>1 DEF UnconditionalBranches
  <2>5. i \in 1 .. Len(Code) - 1 /\ i + 1 \in 1 .. Len(Code)
    BY <1>1, <2>3
  <2>6. q + 1 = FirstOf(i + 1) /\ FirstOf(i + 1) <= start[i + 1] /\ FirstOf(i + 1) <= q + 1 /\ q + 1 <= start[i + 1]
    <3>1. LimitOf(i) = FirstOf(i + 1) /\ FirstOf(i + 1) <= start[i + 1]
      BY <2>5, Places
    <3> QED
      BY <1>2, <2>1, <3>1
  <2>7. q + 1 \in Nat
    BY <1>2
  <2>8. Consistent(q + 1, ls, tp, jt) /\ \E r \in 1 .. Len(Code) : Covers(r, q + 1)
    BY <1>3, <2>5, <2>6, <2>7, Arrives
  <2>9. \A r : Covers(r, q + 1) => Active(Code, r) = Active(Code, i + 1)
    BY <2>5, <2>6, <2>7, Settles
  <2> QED
    BY <2>4, <2>8, <2>9
<1> QED
  BY <1>4, <1>5
-----------------------------------------------------------------------------
(* What is known of a running engine.                                      *)
LEMMA AtWork ==
  ASSUME EngineInv, Running
  PROVE  /\ Compiled /\ Consistent(ip, labels, top, jumpTarget) /\ LabelsMatch(labels, ip)
         /\ EngineTypes /\ ip \in Nat
         /\ InTheHead(ip) \/ \E i \in 1 .. Len(Code) : Covers(i, ip)
<1>1. status # "idle"
  BY DEF Running
<1> QED
  BY <1>1 DEF EngineInv, Compiled, Consistent, EngineTypes

(* In the code of an instruction, the engine is at the end of a target's   *)
(* block or at an instruction that fits; then the CIL instruction is the   *)
(* current one.                                                            *)
LEMMA InTheBody ==
  ASSUME EngineInv, Running, NEW i \in 1 .. Len(Code), Covers(i, ip)
  PROVE  /\ Pc = Active(Code, i)
         /\ ip \in 1 .. Len(result)
         /\ ip < start[i] => At.op = "end" /\ ip + 1 = start[i] /\ IsTarget(i)
         /\ start[i] <= ip =>
              /\ Pc = i /\ i > 0
              /\ Fits(At, result[ip - 1], Code[i], i, ip, start[i], Len(jumpTargets), jumps)
<1> DEFINE n == Len(jumpTargets)
<1>1. Compiled /\ ip \in Nat
  BY AtWork
<1>2. /\ n \in Nat /\ Len(Code) \in Nat \ {0} /\ BodyEnd \in Nat /\ BodyEnd <= Len(result)
      /\ result \in Seq(WasmInstr) /\ HeadEnd(n) \in Nat
      /\ FirstOf(i) \in Nat /\ start[i] \in Nat /\ LimitOf(i) \in Nat
      /\ HeadEnd(n) <= FirstOf(i) /\ FirstOf(i) <= start[i] /\ start[i] <= FirstOf(i) + 1
      /\ LimitOf(i) <= BodyEnd /\ (IsTarget(i) <=> FirstOf(i) < start[i])
      /\ Laid(result, jumpTargets, start, jumps, Code[i], i, LimitOf(i))
  BY <1>1, Places
<1>3. FirstOf(i) <= ip /\ ip < LimitOf(i) /\ 1 < HeadEnd(n)
  <2>1. HeadLast \in Nat /\ 1 <= HeadLast /\ HeadLast < HeadEnd(n)
    BY <1>1, HeadIsFirst
  <2> QED
    BY <1>2, <2>1 DEF Covers
<1>4. Len(result) \in Nat
  BY <1>2
<1> HIDE DEF n
<1>5. ip \in 1 .. Len(result)
  BY <1>1, <1>2, <1>3, <1>4
<1>6. Pc = Active(Code, i)
  BY <1>1, PcNow
<1>7. ASSUME ip < start[i]
      PROVE  At.op = "end" /\ ip + 1 = start[i] /\ IsTarget(i)
  <2>1. ip + 1 = start[i] /\ start[i] - 1 = ip /\ FirstOf(i) < start[i]
    BY <1>1, <1>2, <1>3, <1>7
  <2>2. PICK k \in 1 .. n : jumpTargets[k] = i
    BY <1>2, <2>1 DEF IsTarget, n
  <2>3. Passed(result, n, jumpTargets, start, n)
    BY <1>1, HeadCode DEF n
  <2>4. result[start[i] - 1].op = "end"
    BY <2>2, <2>3 DEF Passed, ClosesTarget
  <2> QED
    BY <1>2, <2>1, <2>4 DEF At
<1>8. ASSUME start[i] <= ip
      PROVE  /\ Pc = i /\ i > 0
             /\ Fits(At, result[ip - 1], Code[i], i, ip, start[i], n, jumps)
  <2>1. ip \in start[i] .. LimitOf(i) - 1 /\ start[i] # LimitOf(i)
    BY <1>1, <1>2, <1>3, <1>8
  <2>2. Code[i].op # "Nop"
    BY <1>2, <2>1 DEF Laid
  <2>3. Active(Code, i) = i
    BY <1>2, <2>2, ActiveStays
  <2>4. Fits(result[ip], result[ip - 1], Code[i], i, ip, start[i], n, jumps)
    BY <1>2, <2>1 DEF Laid, n
  <2>5. i > 0
    BY <1>2
  <2> QED
    BY <1>6, <2>3, <2>4, <2>5 DEF At
<1> QED
  BY <1>5, <1>6, <1>7, <1>8 DEF n

(* In the head it is at the loop, a block, or in the jump table.           *)
LEMMA InTheFront ==
  ASSUME EngineInv, Running, InTheHead(ip), NEW n, n = Len(jumpTargets)
  PROVE  /\ Pc = Active(Code, HeadedFor) /\ n \in Nat /\ ip \in 1 .. Len(result)
         /\ n = 0 => ip = 1 /\ jumpTargets = <<>>
         /\ n > 0 => ip \in 1 .. n + 4 /\ HeadLast = n + 4 /\ jumpTargets # <<>>
         /\ ip <= n + 1 => At.op \in Openers
         /\ n > 0 /\ ip = n + 2 => At.op \in Openers
         /\ n > 0 /\ ip = n + 3 => At = GetLocal("jumpTarget", 0)
         /\ n > 0 /\ ip = n + 4 => At.op = "br_table" /\ At.n = n
<1>1. Compiled /\ ip \in Nat /\ ip \in 1 .. HeadLast
  BY AtWork DEF InTheHead
<1>2. /\ HeadLast \in Nat /\ HeadLast < HeadEnd(n) /\ (jumpTargets = <<>> <=> n = 0)
  BY <1>1, HeadIsFirst
<1>3. /\ n \in Nat /\ HeadEnd(n) \in Nat /\ Len(Code) \in Nat \ {0} /\ FirstOf(1) = HeadEnd(n)
      /\ BodyEnd \in Nat /\ BodyEnd <= Len(result) /\ result \in Seq(WasmInstr)
  BY <1>1, Places
<1>4. HeadEnd(n) <= BodyEnd
  BY <1>1, <1>3 DEF Compiled, LayoutInv, Layout, BodyEnd
<1>5. Len(result) \in Nat
  BY <1>3
<1>6. ip < HeadEnd(n) /\ ip \in 1 .. Len(result)
  BY <1>1, <1>2, <1>3, <1>4, <1>5
<1>7. Pc = Active(Code, HeadedFor)
  BY <1>1, <1>6, PcNow
<1>8. n = 0 => ip = 1
  BY <1>1, <1>2 DEF HeadLast
<1>9. n > 0 => HeadLast = n + 4 /\ ip \in 1 .. n + 4
  BY <1>1, <1>2, <1>3 DEF HeadLast
<1>10. /\ result[1].op = "loop" /\ \A q \in 2 .. n + 1 : result[q].op = "block"
       /\ n > 0 => /\ result[n + 2].op = "block" /\ result[n + 3] = GetLocal("jumpTarget", 0)
                   /\ result[n + 4].op = "br_table" /\ result[n + 4].n = n
  BY <1>1, HeadCode
<1>11. ip <= n + 1 => At.op \in Openers
  <2>1. ip = 1 \/ (ip <= n + 1 => ip \in 2 .. n + 1)
    BY <1>1, <1>2, <1>3
  <2> QED
    BY <1>10, <2>1 DEF At, Openers
<1>12. /\ n > 0 /\ ip = n + 2 => At.op \in Openers
       /\ n > 0 /\ ip = n + 3 => At = GetLocal("jumpTarget", 0)
       /\ n > 0 /\ ip = n + 4 => At.op = "br_table" /\ At.n = n
  BY <1>10 DEF At, Openers
<1> QED
  BY <1>2, <1>3, <1>6, <1>7, <1>8, <1>9, <1>11, <1>12

(* The invariant after a step that leaves the compiled code alone.         *)
LEMMA HoldsOnceCompiled ==
  ASSUME Compiled, UNCHANGED compilerVars, EngineTypes',
         status' # "idle", Running' => Consistent(ip', labels', top', jumpTarget')
  PROVE  EngineInv'
<1>1. Compiled
  OBVIOUS
<1>2. LayoutInv'
  <2>1. LayoutInv
    BY <1>1 DEF Compiled
  <2> QED
    BY <2>1, StepLays
<1>3. /\ phase' = phase /\ Code' = Code /\ result' = result /\ start' = start /\ jumpTargets' = jumpTargets
      /\ Behind' = Behind
  BY DEF compilerVars, Code, Behind
<1>4. BodyEnd' = BodyEnd /\ HeadLast' = HeadLast
  BY <1>3 DEF BodyEnd, HeadLast
<1>5. \A i : FirstOf(i)' = FirstOf(i) /\ LimitOf(i)' = LimitOf(i)
  BY <1>3, <1>4 DEF FirstOf, LimitOf
<1>6. ASSUME Running' PROVE (Consistent(ip, labels, top, jumpTarget))'
  <2>0. Consistent(ip', labels', top', jumpTarget')
    BY <1>6
  <2>1. (LabelsMatch(labels, ip))'
    BY <1>3, <2>0 DEF Consistent, LabelsMatch
  <2>2. (InTheHead(ip) \/ \E i \in 1 .. Len(Code) : Covers(i, ip))'
    BY <1>3, <1>4, <1>5, <2>0 DEF Consistent, InTheHead, Covers
  <2>3. (jumpTargets # <<>> /\ ip = Len(jumpTargets) + 4 => top = <<jumpTarget>>)'
    BY <1>3, <2>0 DEF Consistent
  <2>4. (\A i \in 1 .. Len(Code) : Carries(i, ip, top, jumpTarget))'
    BY <1>3, <1>5, <2>0 DEF Consistent, Carries
  <2> QED
    BY <2>1, <2>2, <2>3, <2>4 DEF Consistent
<1>7. phase' = "done" /\ Code' # <<>>
  BY <1>1, <1>3 DEF Compiled
<1> QED
  BY <1>2, <1>6, <1>7 DEF EngineInv

(* The invariant after a step of the engine.                               *)
LEMMA Holds ==
  ASSUME EngineInv, Running, UNCHANGED compilerVars, EngineTypes',
         status' # "idle", Running' => Consistent(ip', labels', top', jumpTarget')
  PROVE  EngineInv'
<1>1. Compiled
  BY AtWork
<1> QED
  BY <1>1, HoldsOnceCompiled
-----------------------------------------------------------------------------
(* Inner labels are dropped.                                               *)
LEMMA LabelsCut ==
  ASSUME NEW ls \in Seq(Nat), \A d \in 1 .. Len(ls) : ls[d] = d, NEW m \in 0 .. Len(ls)
  PROVE  LET cut == SubSeq(ls, 1, m)
         IN  cut \in Seq(Nat) /\ Len(cut) = m /\ \A d \in 1 .. Len(cut) : cut[d] = d
<1>1. Len(ls) \in Nat /\ m \in Nat
  OBVIOUS
<1>2. 1 \in 1 .. Len(ls) + 1 /\ m \in 1 - 1 .. Len(ls)
  BY <1>1
<1>3. /\ SubSeq(ls, 1, m) \in Seq(Nat)
      /\ Len(SubSeq(ls, 1, m)) = m
      /\ \A d \in 1 .. m : SubSeq(ls, 1, m)[d] = ls[d]
  <2>1. SubSeq(ls, 1, m) \in Seq(Nat)
    BY <1>2, SubSeqProperties
  <2>2. Len(SubSeq(ls, 1, m)) = m
    BY <1>1
  <2>3. \A d \in 1 .. m : SubSeq(ls, 1, m)[d] = ls[d]
    BY <1>1
  <2> QED
    BY <2>1, <2>2, <2>3
<1>4. \A d \in 1 .. m : d \in 1 .. Len(ls)
  BY <1>1
<1> QED
  BY <1>3, <1>4

(* The engine arrives at the code of t.                                    *)
LEMMA ArrivesAt ==
  ASSUME EngineInv, Running, UNCHANGED compilerVars, EngineTypes', status' = "running",
         NEW t \in 1 .. Len(Code), FirstOf(t) <= ip', ip' <= start[t], LabelsMatch(labels', ip')
  PROVE  EngineInv' /\ Pc' = Active(Code, t)
<1>1. Compiled /\ ip' \in Nat /\ Running'
  BY AtWork DEF EngineTypes, Running
<1>2. /\ Consistent(ip', labels', top', jumpTarget')
      /\ \E i \in 1 .. Len(Code) : Covers(i, ip')
  BY <1>1, Arrives
<1>3. EngineInv'
  BY <1>2, Holds
<1>4. Pc' = Active(Code, t)
  <2>1. PICK i \in 1 .. Len(Code) : Covers(i, ip')
    BY <1>2
  <2>2. Active(Code, i) = Active(Code, t)
    BY <1>1, <2>1, Settles
  <2>3. Pc' = Active(Code, i)
    BY <1>1, <2>1, PcNext
  <2> QED
    BY <2>2, <2>3
<1> QED
  BY <1>3, <1>4

(* It stays in the head or goes back to it.                                *)
LEMMA HeadAt ==
  ASSUME EngineInv, Running, UNCHANGED compilerVars, EngineTypes', status' = "running",
         InTheHead(ip'), LabelsMatch(labels', ip'),
         jumpTargets # <<>> /\ ip' = Len(jumpTargets) + 4 => top' = <<jumpTarget'>>
  PROVE  EngineInv' /\ Pc' = Active(Code, HeadedFor')
<1>1. Compiled /\ ip' \in Nat /\ Running' /\ ip' \in 1 .. HeadLast
  BY AtWork DEF EngineTypes, Running, InTheHead
<1>2. \A i \in 1 .. Len(Code) : Carries(i, ip', top', jumpTarget')
  BY <1>1, HeadIsFirst DEF Carries
<1>3. EngineInv'
  <2>1. Consistent(ip', labels', top', jumpTarget')
    BY <1>2 DEF Consistent
  <2> QED
    BY <2>1, Holds
<1>4. Pc' = Active(Code, HeadedFor')
  <2>1. HeadLast \in Nat /\ HeadLast < HeadEnd(Len(jumpTargets)) /\ HeadEnd(Len(jumpTargets)) \in Nat
    BY <1>1, HeadIsFirst, Places
  <2>2. ip' < HeadEnd(Len(jumpTargets))
    BY <1>1, <2>1
  <2> QED
    BY <1>1, <2>2, PcNext
<1> QED
  BY <1>3, <1>4

(* It executes an instruction of the body that neither branches nor ends   *)
(* the call, and goes on.                                                  *)
LEMMA GoesOnInBody ==
  ASSUME EngineInv, Running, UNCHANGED compilerVars, EngineTypes', Advance, labels' = labels,
         NEW i \in 1 .. Len(Code), Covers(i, ip), start[i] <= ip,
         At.op \notin Structural \cup {"br", "return"},
         Carries(i, ip + 1, top', jumpTarget')
  PROVE  EngineInv' /\ (Pc' = Pc \/ CIL!FallThrough)
<1>1. Compiled /\ ip \in Nat /\ LabelsMatch(labels, ip) /\ ip' = ip + 1 /\ Running'
  BY AtWork DEF Advance, Running
<1>2. Pc = i /\ i > 0
  BY InTheBody
<1>3. /\ Consistent(ip + 1, labels, top', jumpTarget')
      /\ \E r \in 1 .. Len(Code) :
           /\ Covers(r, ip + 1)
           /\ \/ r = i
              \/ /\ Code[i].op \notin UnconditionalBranches \cup {"Ret"}
                 /\ Active(Code, r) = Active(Code, i + 1)
  <2>1. result[ip].op \notin Structural \cup {"br", "return"}
    BY DEF At
  <2> QED
    BY <1>1, <2>1, Advances
<1>4. EngineInv'
  <2>1. Consistent(ip', labels', top', jumpTarget') /\ status' # "idle"
    BY <1>1, <1>3 DEF Running
  <2> QED
    BY <2>1, Holds
<1>5. PICK r \in 1 .. Len(Code) :
        /\ Covers(r, ip + 1)
        /\ \/ r = i
           \/ /\ Code[i].op \notin UnconditionalBranches \cup {"Ret"}
              /\ Active(Code, r) = Active(Code, i + 1)
  BY <1>3
<1>6. Pc' = Active(Code, r) /\ Code' = Code
  <2>1. ip' \in Nat /\ Covers(r, ip')
    BY <1>1, <1>5
  <2> QED
    BY <1>1, <2>1, PcNext DEF compilerVars, Code
<1>7. CASE r = i
  <2>1. Pc = Active(Code, i)
    BY InTheBody
  <2> QED
    BY <1>4, <1>6, <1>7, <2>1
<1>8. CASE r # i
  <2>1. Pc' = Active(Code, Pc + 1) /\ Code[Pc].op \notin UnconditionalBranches \cup {"Ret"} /\ Pc > 0
    BY <1>2, <1>5, <1>6, <1>8
  <2>2. CIL!FallThrough
    BY <1>6, <2>1 DEF CIL!FallThrough, CIL!Op, CIL!Goto, CIL!Active, Active, CIL!UnconditionalBranches, UnconditionalBranches
  <2> QED
    BY <1>4, <2>2
<1> QED
  BY <1>7, <1>8
-----------------------------------------------------------------------------
(* A branch out of the block of target k, or out of the jump table's.      *)
LEMMA BranchLeaves ==
  ASSUME Compiled, NEW n, n = Len(jumpTargets), n > 0, NEW k \in 0 .. n, NEW d \in Nat,
         LabelsMatch(labels, ip), Len(labels) = n + 2 - k + d, BranchTo(d)
  PROVE  /\ status' = status /\ ip' = LandingOf(k) /\ labels' \in Seq(Nat)
         /\ LabelsMatch(labels', LandingOf(k))
<1> DEFINE m == n + 2 - k
<1>1. n \in Nat
  BY Places
<1>2. m \in 2 .. n + 2 /\ LeavesTo(m, LandingOf(k)) /\ Nesting(result, LandingOf(k) - 1) = n + 1 - k
  BY Landing
<1>3. labels \in Seq(Nat) /\ \A x \in 1 .. Len(labels) : labels[x] = x
  BY DEF LabelsMatch
<1>4. /\ Len(labels) - d = m /\ Len(labels) # d /\ m \in 1 .. Len(labels)
      /\ Len(labels) - (d + 1) = n + 1 - k /\ n + 1 - k \in 0 .. Len(labels)
  BY <1>1
<1> HIDE DEF m
<1>5. labels[Len(labels) - d] = m
  BY <1>3, <1>4
<1>6. result[m].op = "block" /\ result[m].op # "loop"
  BY <1>2 DEF LeavesTo
<1>7. /\ status' = status
      /\ ip' = 1 + CHOOSE q \in m + 1 .. Len(result) : ClosedBy(result, m, q)
      /\ labels' = SubSeq(labels, 1, Len(labels) - (d + 1))
  BY <1>4, <1>5, <1>6 DEF BranchTo
<1>8. ip' = LandingOf(k)
  BY <1>2, <1>7 DEF LeavesTo
<1>9. labels' = SubSeq(labels, 1, n + 1 - k)
  BY <1>4, <1>7
<1>10. labels' \in Seq(Nat) /\ Len(labels') = n + 1 - k /\ \A x \in 1 .. Len(labels') : labels'[x] = x
  <2>1. LET cut == SubSeq(labels, 1, n + 1 - k)
        IN  cut \in Seq(Nat) /\ Len(cut) = n + 1 - k /\ \A x \in 1 .. Len(cut) : cut[x] = x
    BY <1>3, <1>4, LabelsCut
  <2> QED
    BY <1>9, <2>1
<1> QED
  BY <1>2, <1>7, <1>8, <1>10 DEF LabelsMatch

(* A branch to the loop.                                                   *)
LEMMA BranchRestarts ==
  ASSUME Compiled, NEW d \in Nat, LabelsMatch(labels, ip), Len(labels) = 1 + d, BranchTo(d)
  PROVE  status' = status /\ ip' = 2 /\ labels' \in Seq(Nat) /\ LabelsMatch(labels', 2)
<1>1. result[1].op = "loop" /\ Nesting(result, 1) = 1
  <2>1. /\ Len(jumpTargets) \in Nat /\ result[1].op = "loop"
        /\ \A r \in 0 .. Len(jumpTargets) + 1 : Nesting(result, r) = r
    BY HeadCode
  <2>2. 1 \in 0 .. Len(jumpTargets) + 1
    BY <2>1
  <2> QED
    BY <2>1, <2>2
<1>2. labels \in Seq(Nat) /\ \A x \in 1 .. Len(labels) : labels[x] = x
  BY DEF LabelsMatch
<1>3. Len(labels) - d = 1 /\ Len(labels) # d /\ 1 \in 1 .. Len(labels) /\ 1 \in 0 .. Len(labels)
  OBVIOUS
<1>4. labels[Len(labels) - d] = 1
  BY <1>2, <1>3
<1>5. status' = status /\ ip' = 1 + 1 /\ labels' = SubSeq(labels, 1, Len(labels) - d)
  BY <1>1, <1>3, <1>4 DEF BranchTo
<1>6. LET cut == SubSeq(labels, 1, 1)
      IN  cut \in Seq(Nat) /\ Len(cut) = 1 /\ \A x \in 1 .. Len(cut) : cut[x] = x
  BY <1>2, <1>3, LabelsCut
<1>7. labels' \in Seq(Nat) /\ Len(labels') = 1 /\ \A x \in 1 .. Len(labels') : labels'[x] = x
  BY <1>3, <1>5, <1>6
<1>8. 2 - 1 = 1 /\ 1 + 1 = 2
  OBVIOUS
<1> QED
  BY <1>1, <1>5, <1>7, <1>8 DEF LabelsMatch
-----------------------------------------------------------------------------
(* Between the end of the block of some instruction and its code.          *)
Stops(q) == \E t \in 1 .. Len(Code) : FirstOf(t) <= q /\ q <= start[t]

(* Entering the loop or a block: only in the head.                         *)
LEMMA EnterStep ==
  ASSUME EngineInv, Enter, UNCHANGED compilerVars
  PROVE  /\ EngineInv' /\ Pc' = Pc /\ status' = status
         /\ InTheHead(ip) /\ ip # Len(jumpTargets) + 4
         /\ Stops(ip') \/ (InTheHead(ip') /\ ip' # Len(jumpTargets) + 4)
<1> DEFINE n == Len(jumpTargets)
<1>1. /\ Running /\ At.op \in Openers /\ labels' = Append(labels, ip) /\ ip' = ip + 1
      /\ status' = "running" /\ top' = top /\ jumpTarget' = jumpTarget /\ jumpTargets' = jumpTargets
  BY DEF Enter, Advance, Running, compilerVars
<1>2. Compiled /\ ip \in Nat /\ EngineTypes /\ LabelsMatch(labels, ip)
  BY <1>1, AtWork
<1>3. InTheHead(ip)
  <2>1. ASSUME NEW i \in 1 .. Len(Code), Covers(i, ip) PROVE FALSE
    <3>1. start[i] \in Nat
      BY <1>2, Places
    <3>2. ip < start[i] \/ start[i] <= ip
      BY <1>2, <3>1
    <3>3. ip < start[i] => At.op = "end"
      BY <1>1, <2>1, InTheBody
    <3>4. start[i] <= ip => At.op \notin Structural
      BY <1>1, <2>1, InTheBody DEF Fits
    <3> QED
      BY <1>1, <3>2, <3>3, <3>4 DEF Structural, Openers
  <2> QED
    BY <1>1, <2>1, AtWork
<1>4. /\ Pc = Active(Code, HeadedFor) /\ n \in Nat
      /\ n = 0 => ip = 1
      /\ n > 0 => ip \in 1 .. n + 4 /\ HeadLast = n + 4
      /\ n > 0 /\ ip = n + 3 => At = GetLocal("jumpTarget", 0)
      /\ n > 0 /\ ip = n + 4 => At.op = "br_table"
  BY <1>1, <1>3, InTheFront
<1>5. ip \in 1 .. n + 2
  <2>1. "br_table" \notin Openers /\ GetLocal("jumpTarget", 0).op \notin Openers
    BY DEF Openers, GetLocal
  <2>2. n > 0 => ip # n + 3 /\ ip # n + 4
    BY <1>1, <1>4, <2>1
  <2> QED
    BY <1>4, <2>2
<1>6. Nesting(result, ip - 1) = ip - 1
  <2>1. \A r \in 0 .. n + 1 : Nesting(result, r) = r
    BY <1>2, HeadCode
  <2>2. ip - 1 \in 0 .. n + 1
    BY <1>4, <1>5
  <2> QED
    BY <2>1, <2>2
<1>7. Nesting(result, ip) = ip
  <2>1. ip \in Nat \ {0}
    BY <1>4, <1>5
  <2>2. Nesting(result, ip) = Nesting(result, ip - 1) + 1
    BY <1>1, <2>1, NestingStep DEF At
  <2> QED
    BY <1>6, <2>1, <2>2
<1>8. LabelsMatch(labels', ip + 1) /\ labels' \in Seq(Nat)
  <2>1. labels \in Seq(Nat) /\ Len(labels) = ip - 1 /\ \A d \in 1 .. Len(labels) : labels[d] = d
    BY <1>6, <1>2 DEF LabelsMatch
  <2>2. /\ labels' \in Seq(Nat) /\ Len(labels') = Len(labels) + 1 /\ labels'[Len(labels) + 1] = ip
        /\ \A d \in 1 .. Len(labels) : labels'[d] = labels[d]
    BY <1>1, <1>2, <2>1, AppendProperties
  <2>3. Len(labels') = ip /\ ip + 1 - 1 = ip
    BY <1>2, <2>1, <2>2
  <2>4. ASSUME NEW d \in 1 .. Len(labels') PROVE labels'[d] = d
    <3>1. d \in 1 .. Len(labels) \/ d = Len(labels) + 1
      BY <2>1, <2>2
    <3> QED
      BY <2>1, <2>2, <2>3, <3>1
  <2> QED
    BY <1>7, <2>2, <2>3, <2>4 DEF LabelsMatch
<1>9. EngineTypes'
  BY <1>1, <1>2, <1>8 DEF EngineTypes
<1>10. InTheHead(ip) /\ status' = status /\ ip # n + 4
  BY <1>1, <1>3, <1>4, <1>5 DEF Running
<1>11. CASE n = 0
  <2>1. ip' = 2 /\ 2 = HeadEnd(n) /\ HeadedFor = 1
    BY <1>1, <1>2, <1>4, <1>11 DEF HeadEnd, HeadedFor, EngineTypes
  <2>2. FirstOf(1) = 2 /\ 1 \in 1 .. Len(Code) /\ FirstOf(1) <= start[1]
    BY <1>2, <2>1, Places
  <2>3. FirstOf(1) <= ip' /\ ip' <= start[1] /\ LabelsMatch(labels', ip')
    BY <1>1, <1>8, <2>1, <2>2
  <2>4. EngineInv' /\ Pc' = Active(Code, 1)
    BY <1>1, <1>9, <2>2, <2>3, ArrivesAt
  <2>5. Stops(ip')
    BY <2>2, <2>3 DEF Stops
  <2> QED
    BY <1>4, <1>10, <2>1, <2>4, <2>5
<1>12. CASE n # 0
  <2>1. ip' \in 1 .. HeadLast /\ ip' # n + 4
    BY <1>1, <1>4, <1>5, <1>12
  <2>2. InTheHead(ip') /\ LabelsMatch(labels', ip')
    BY <1>1, <1>8, <2>1 DEF InTheHead
  <2>3. EngineInv' /\ Pc' = Active(Code, HeadedFor')
    BY <1>1, <1>9, <2>1, <2>2, HeadAt
  <2>4. HeadedFor' = HeadedFor
    BY <1>1 DEF HeadedFor
  <2> QED
    BY <1>4, <1>10, <2>1, <2>2, <2>3, <2>4
<1> QED
  BY <1>11, <1>12

(* Leaving a block: in front of its target's code.                         *)
LEMMA LeaveStep ==
  ASSUME EngineInv, Leave, UNCHANGED compilerVars
  PROVE  /\ EngineInv' /\ Pc' = Pc /\ status' = status
         /\ \E i \in 1 .. Len(Code) : Covers(i, ip) /\ ip' = ip + 1 /\ ip' = start[i] /\ FirstOf(i) <= ip'
<1> DEFINE n == Len(jumpTargets)
<1>1. Running /\ At.op = "end" /\ top' = top /\ jumpTarget' = jumpTarget /\ jumpTargets' = jumpTargets
  BY DEF Leave, compilerVars
<1>2. Compiled /\ ip \in Nat /\ EngineTypes /\ LabelsMatch(labels, ip) /\ n \in Nat
  BY <1>1, AtWork, Places
<1>3. ~InTheHead(ip)
  <2>1. SUFFICES ASSUME InTheHead(ip) PROVE FALSE
    OBVIOUS
  <2>2. /\ n = 0 => ip = 1
        /\ n > 0 => ip \in 1 .. n + 4
        /\ ip <= n + 1 => At.op \in Openers
        /\ n > 0 /\ ip = n + 2 => At.op \in Openers
        /\ n > 0 /\ ip = n + 3 => At = GetLocal("jumpTarget", 0)
        /\ n > 0 /\ ip = n + 4 => At.op = "br_table"
    BY <1>1, <2>1, InTheFront
  <2>3. ip <= n + 1 \/ (n > 0 /\ (ip = n + 2 \/ ip = n + 3 \/ ip = n + 4))
    BY <1>2, <2>2
  <2>4. GetLocal("jumpTarget", 0).op # "end" /\ "end" \notin Openers
    BY DEF GetLocal, Openers
  <2> QED
    BY <1>1, <2>2, <2>3, <2>4
<1>4. PICK i \in 1 .. Len(Code) : Covers(i, ip)
  BY <1>1, <1>3, AtWork
<1>5. Pc = Active(Code, i) /\ ip + 1 = start[i] /\ IsTarget(i)
  <2>1. start[i] \in Nat
    BY <1>2, Places
  <2>2. ~(start[i] <= ip)
    <3>1. start[i] <= ip => At.op \notin Structural
      BY <1>1, <1>4, InTheBody DEF Fits
    <3> QED
      BY <1>1, <3>1 DEF Structural
  <2>3. ip < start[i]
    BY <1>2, <2>1, <2>2
  <2> QED
    BY <1>1, <1>4, <2>3, InTheBody
<1>6. PICK k \in 1 .. n : jumpTargets[k] = i
  BY <1>5 DEF IsTarget
<1>7. Nesting(result, ip) = n + 1 - k /\ ip \in Nat \ {0}
  <2>1. Passed(result, n, jumpTargets, start, n)
    BY <1>2, HeadCode
  <2>2. ClosesTarget(result, n, k, start[i] - 1)
    BY <1>6, <2>1 DEF Passed
  <2>3. start[i] - 1 = ip
    BY <1>2, <1>5
  <2>4. ip \in n + 2 .. Len(result) /\ Nesting(result, ip) = n + 1 - k
    BY <2>2, <2>3 DEF ClosesTarget
  <2> QED
    BY <1>2, <2>4
<1>8. Nesting(result, ip - 1) = n + 2 - k
  <2>1. Nesting(result, ip) = Nesting(result, ip - 1) - 1 /\ Nesting(result, ip - 1) \in Int
    BY <1>1, <1>7, NestingStep DEF At
  <2> QED
    BY <1>2, <1>6, <1>7, <2>1
<1>9. /\ labels \in Seq(Nat) /\ Len(labels) = n + 2 - k /\ \A d \in 1 .. Len(labels) : labels[d] = d
  BY <1>2, <1>8 DEF LabelsMatch
<1>10. Len(labels) - 1 = n + 1 - k /\ n + 1 - k \in 0 .. Len(labels) /\ Len(labels) # 0
  BY <1>2, <1>9
<1>11. status' = "running" /\ ip' = ip + 1 /\ labels' = SubSeq(labels, 1, n + 1 - k)
  <2>1. labels # <<>>
    BY <1>10
  <2> QED
    BY <1>1, <1>10, <2>1 DEF Leave, Advance, Running
<1>12. labels' \in Seq(Nat) /\ LabelsMatch(labels', ip')
  <2>1. LET cut == SubSeq(labels, 1, n + 1 - k)
        IN  cut \in Seq(Nat) /\ Len(cut) = n + 1 - k /\ \A d \in 1 .. Len(cut) : cut[d] = d
    BY <1>9, <1>10, LabelsCut
  <2>2. ip' - 1 = ip
    BY <1>2, <1>11
  <2> QED
    BY <1>7, <1>11, <2>1, <2>2 DEF LabelsMatch
<1>13. EngineTypes'
  BY <1>1, <1>2, <1>11, <1>12 DEF EngineTypes
<1>14. FirstOf(i) <= ip' /\ ip' <= start[i]
  <2>1. start[i] \in Nat /\ FirstOf(i) <= start[i]
    BY <1>2, Places
  <2> QED
    BY <1>5, <1>11, <2>1
<1>15. EngineInv' /\ Pc' = Active(Code, i)
  BY <1>1, <1>11, <1>12, <1>13, <1>14, ArrivesAt
<1>16. status' = status /\ ip' = ip + 1 /\ ip' = start[i]
  BY <1>1, <1>5, <1>11 DEF Running
<1> QED
  BY <1>4, <1>5, <1>14, <1>15, <1>16

(* In the head there is nothing but the loop, blocks and the jump table.   *)
LEMMA HeadOnly ==
  ASSUME EngineInv, Running, At.op \notin Structural \cup {"br_table"}, At # GetLocal("jumpTarget", 0)
  PROVE  ~InTheHead(ip)
<1> DEFINE n == Len(jumpTargets)
<1>1. SUFFICES ASSUME InTheHead(ip) PROVE FALSE
  OBVIOUS
<1>2. ip \in Nat /\ n \in Nat
  BY AtWork, Places
<1>3. /\ n = 0 => ip = 1
      /\ n > 0 => ip \in 1 .. n + 4
      /\ ip <= n + 1 => At.op \in Openers
      /\ n > 0 /\ ip = n + 2 => At.op \in Openers
      /\ n > 0 /\ ip = n + 3 => At = GetLocal("jumpTarget", 0)
      /\ n > 0 /\ ip = n + 4 => At.op = "br_table"
  BY <1>1, InTheFront
<1>4. ip <= n + 1 \/ (n > 0 /\ (ip = n + 2 \/ ip = n + 3 \/ ip = n + 4))
  BY <1>2, <1>3
<1> QED
  BY <1>3, <1>4 DEF Structural

(* Behind it, what is no end is part of the code of an instruction.        *)
LEMMA WorksInBody ==
  ASSUME EngineInv, Running, At.op \notin Structural, ~InTheHead(ip)
  PROVE  \E i \in 1 .. Len(Code) :
           /\ Covers(i, ip) /\ start[i] <= ip /\ Pc = i /\ i > 0
           /\ Fits(At, result[ip - 1], Code[i], i, ip, start[i], Len(jumpTargets), jumps)
<1>1. Compiled /\ ip \in Nat
  BY AtWork
<1>2. PICK i \in 1 .. Len(Code) : Covers(i, ip)
  BY AtWork
<1>3. start[i] <= ip
  <2>1. start[i] \in Nat
    BY <1>1, Places
  <2>2. ~(ip < start[i])
    <3>1. ip < start[i] => At.op = "end"
      BY <1>2, InTheBody
    <3> QED
      BY <3>1 DEF Structural
  <2> QED
    BY <1>1, <2>1, <2>2
<1> QED
  BY <1>2, <1>3, InTheBody

(* What an instruction carries on to the next one.                         *)
LEMMA CarriesOn ==
  ASSUME EngineInv, Running, NEW i \in 1 .. Len(Code), Covers(i, ip), start[i] <= ip,
         NEW t, NEW jt, At.op = "i32.const" => t = <<At.n>>,
         \/ At # SetLocal("jumpTarget", 0) /\ jt = jumpTarget
         \/ At = SetLocal("jumpTarget", 0) /\ jt = result[ip - 1].n
  PROVE  Carries(i, ip + 1, t, jt)
<1>1. /\ ip \in Nat /\ start[i] \in Nat /\ ip + 1 - 1 = ip /\ ip < LimitOf(i)
      /\ Carries(i, ip, top, jumpTarget)
  <2>1. Compiled /\ Consistent(ip, labels, top, jumpTarget) /\ ip \in Nat
    BY AtWork
  <2> QED
    BY <2>1, Places DEF Consistent, Covers
<1>2. result[ip].op = "i32.const" => t = <<result[ip].n>>
  BY DEF At
<1>3. ASSUME NEW s \in start[i] + 1 .. ip, result[s] = SetLocal("jumpTarget", 0),
             \A r \in s + 1 .. ip : result[r].op # "set_local"
      PROVE  jt = result[s - 1].n
  <2>1. CASE s = ip
    BY <1>3, <2>1 DEF At
  <2>2. CASE s # ip
    <3>1. s \in start[i] + 1 .. ip - 1 /\ start[i] < ip /\ ip \in s + 1 .. ip
      BY <1>1, <2>2
    <3>2. result[ip].op # "set_local"
      BY <1>3, <3>1
    <3>3. jt = jumpTarget
      BY <3>2 DEF At, SetLocal
    <3>4. \A r \in s + 1 .. ip - 1 : r \in s + 1 .. ip
      BY <1>1, <3>1
    <3>5. \A r \in s + 1 .. ip - 1 : result[r].op # "set_local"
      BY <1>3, <3>4
    <3>6. jumpTarget = result[s - 1].n
      BY <1>1, <1>3, <3>1, <3>5 DEF Carries
    <3> QED
      BY <3>3, <3>6
  <2> QED
    BY <2>1, <2>2
<1> QED
  BY <1>1, <1>2, <1>3 DEF Carries
-----------------------------------------------------------------------------
(* A br_if that is not taken.                                              *)
LEMMA SkipBranchStep ==
  ASSUME EngineInv, SkipBranch, UNCHANGED compilerVars
  PROVE  EngineInv' /\ Follows
<1>1. /\ Running /\ At.op = "br_if" /\ Advance /\ top' = <<>> /\ labels' = labels
      /\ jumpTarget' = jumpTarget /\ jumpTargets' = jumpTargets
  BY DEF SkipBranch, compilerVars
<1>2. At.op \notin Structural \cup {"br_table", "br", "return", "i32.const", "get_local", "set_local"}
  BY <1>1 DEF Structural, Openers
<1>3. At # GetLocal("jumpTarget", 0) /\ At # SetLocal("jumpTarget", 0)
  BY <1>2 DEF GetLocal, SetLocal
<1>4. PICK i \in 1 .. Len(Code) : Covers(i, ip) /\ start[i] <= ip
  BY <1>1, <1>2, <1>3, HeadOnly, WorksInBody
<1>5. Carries(i, ip + 1, top', jumpTarget')
  BY <1>1, <1>2, <1>3, <1>4, CarriesOn
<1>6. EngineTypes'
  <2>1. EngineTypes /\ ip \in Nat
    BY <1>1, AtWork
  <2> QED
    BY <1>1, <2>1 DEF EngineTypes, Advance
<1> QED
  BY <1>1, <1>2, <1>4, <1>5, <1>6, GoesOnInBody DEF Follows, CIL!Next

(* The number of a target is stored before the loop is restarted.          *)
LEMMA StoreStep ==
  ASSUME EngineInv, StoreJumpTarget, UNCHANGED compilerVars
  PROVE  EngineInv' /\ Follows
<1> DEFINE n == Len(jumpTargets)
<1>1. /\ Running /\ At = SetLocal("jumpTarget", 0) /\ Advance /\ jumpTarget' = top[1] /\ top' = <<>>
      /\ labels' = labels /\ jumpTargets' = jumpTargets
  BY DEF StoreJumpTarget, compilerVars
<1>2. At.op = "set_local" /\ At # GetLocal("jumpTarget", 0)
  BY <1>1 DEF SetLocal, GetLocal
<1>3. At.op \notin Structural \cup {"br_table", "br", "return", "i32.const"}
  BY <1>2 DEF Structural, Openers
<1>4. PICK i \in 1 .. Len(Code) :
        /\ Covers(i, ip) /\ start[i] <= ip
        /\ Fits(At, result[ip - 1], Code[i], i, ip, start[i], n, jumps)
  BY <1>1, <1>2, <1>3, HeadOnly, WorksInBody
<1>5. PICK k \in 1 .. n : result[ip - 1] = Const(k) /\ ip # start[i]
  BY <1>1, <1>4 DEF Fits
<1>6. Compiled /\ ip \in Nat /\ EngineTypes /\ Carries(i, ip, top, jumpTarget)
  BY <1>1, AtWork DEF Consistent
<1>7. n \in Nat /\ start[i] \in Nat /\ start[i] < ip /\ ip < LimitOf(i)
  BY <1>4, <1>5, <1>6, Places DEF Covers
<1>8. result[ip - 1].op = "i32.const" /\ result[ip - 1].n = k
  <2>1. \A x : Const(x).op = "i32.const" /\ Const(x).n = x
    BY DEF Const, WN
  <2> QED
    BY <1>5, <2>1
<1>9. top = <<k>>
  BY <1>6, <1>7, <1>8 DEF Carries
<1>10. jumpTarget' = k /\ k \in 0 .. n
  BY <1>1, <1>7, <1>9
<1>11. Carries(i, ip + 1, top', jumpTarget')
  BY <1>1, <1>3, <1>4, <1>8, <1>10, CarriesOn
<1>12. EngineTypes'
  BY <1>1, <1>6, <1>10 DEF EngineTypes, Advance
<1> QED
  BY <1>1, <1>3, <1>4, <1>11, <1>12, GoesOnInBody DEF Follows, CIL!Next

(* An instruction that computes something.                                 *)
LEMMA ComputeStep ==
  ASSUME EngineInv, Compute, UNCHANGED compilerVars
  PROVE  EngineInv' /\ Follows
<1> DEFINE n == Len(jumpTargets)
<1>1. /\ Running /\ At.op \notin Structural \cup BranchOps \cup {"br_table", "return"}
      /\ At # SetLocal("jumpTarget", 0) /\ Advance /\ labels' = labels
      /\ jumpTarget' = jumpTarget /\ jumpTargets' = jumpTargets
      /\ status' = "running" /\ ip' = ip + 1
  BY DEF Compute, compilerVars, Advance, Running
<1>2. /\ At.op = "i32.const" => top' = <<At.n>>
      /\ At = GetLocal("jumpTarget", 0) => top' = <<jumpTarget>>
      /\ At.op # "i32.const" /\ At # GetLocal("jumpTarget", 0) => top' = <<>>
  <2>1. GetLocal("jumpTarget", 0).op # "i32.const"
    BY DEF GetLocal
  <2>2. top' = CASE At.op = "i32.const" -> <<At.n>>
                 [] At = GetLocal("jumpTarget", 0) -> <<jumpTarget>>
                 [] OTHER -> <<>>
    BY DEF Compute
  <2> QED
    BY <2>1, <2>2
<1>3. Compiled /\ ip \in Nat /\ EngineTypes /\ LabelsMatch(labels, ip) /\ n \in Nat /\ result \in Seq(WasmInstr)
  BY <1>1, AtWork, Places
<1>4. ip \in 1 .. Len(result)
  BY <1>1, AtWork, InTheBody, InTheFront
<1>5. At.n \in Int
  <2>1. At \in WasmInstr
    BY <1>3, <1>4, ElementOfSeq DEF At
  <2> QED
    BY <2>1 DEF WasmInstr
<1>6. EngineTypes'
  <2>1. jumpTarget \in Int
    BY <1>3 DEF EngineTypes
  <2>2. top' \in Seq(Int) /\ Len(top') <= 1
    <3>1. /\ <<>> \in Seq(Int) /\ Len(<<>>) <= 1
          /\ \A x \in Int : <<x>> \in Seq(Int) /\ Len(<<x>>) <= 1
      OBVIOUS
    <3>2. top' = <<>> \/ \E x \in Int : top' = <<x>>
      BY <1>2, <1>5, <2>1
    <3> QED
      BY <3>1, <3>2
  <2> QED
    BY <1>1, <1>3, <2>2 DEF EngineTypes
<1>7. CASE InTheHead(ip)
  <2>1. /\ Pc = Active(Code, HeadedFor)
        /\ n = 0 => ip = 1
        /\ n > 0 => ip \in 1 .. n + 4 /\ HeadLast = n + 4
        /\ ip <= n + 1 => At.op \in Openers
        /\ n > 0 /\ ip = n + 2 => At.op \in Openers
        /\ n > 0 /\ ip = n + 3 => At = GetLocal("jumpTarget", 0)
        /\ n > 0 /\ ip = n + 4 => At.op = "br_table"
    BY <1>1, <1>7, InTheFront
  <2>2. At.op \notin Openers /\ At.op # "br_table"
    BY <1>1 DEF Structural
  <2>3. n > 0 /\ ip = n + 3
    BY <1>3, <2>1, <2>2
  <2>4. top' = <<jumpTarget'>> /\ ip' = n + 4 /\ ip' \in 1 .. HeadLast
    BY <1>1, <1>2, <1>3, <2>1, <2>3
  <2>5. LabelsMatch(labels', ip')
    <3>1. Nesting(result, n + 2) = n + 2 /\ Nesting(result, n + 3) = n + 2
      BY <1>3, <2>3, HeadCode
    <3>2. ip - 1 = n + 2 /\ ip' - 1 = n + 3
      BY <1>3, <2>3, <2>4
    <3> QED
      BY <1>1, <1>3, <3>1, <3>2 DEF LabelsMatch
  <2>6. EngineInv' /\ Pc' = Active(Code, HeadedFor')
    BY <1>1, <1>6, <2>4, <2>5, HeadAt DEF InTheHead
  <2>7. HeadedFor' = HeadedFor
    BY <1>1 DEF HeadedFor
  <2> QED
    BY <2>1, <2>6, <2>7 DEF Follows
<1>8. CASE ~InTheHead(ip)
  <2>1. PICK i \in 1 .. Len(Code) : Covers(i, ip) /\ start[i] <= ip
    BY <1>1, <1>8, WorksInBody
  <2>2. Carries(i, ip + 1, top', jumpTarget')
    BY <1>1, <1>2, <2>1, CarriesOn
  <2>3. At.op \notin Structural \cup {"br", "return"}
    BY <1>1 DEF BranchOps
  <2> QED
    BY <1>1, <1>6, <2>1, <2>2, <2>3, GoesOnInBody DEF Follows, CIL!Next
<1> QED
  BY <1>7, <1>8

(* The call ends, by the return of a Ret or by an exception of an          *)
(* instruction that may throw one.                                         *)
LEMMA EndStep ==
  ASSUME EngineInv, Return \/ Trap, UNCHANGED compilerVars
  PROVE  EngineInv' /\ Follows
<1>1. /\ Running /\ UNCHANGED <<ip, labels, top, jumpTarget>> /\ jumpTargets' = jumpTargets /\ Code' = Code
      /\ \/ At.op = "return" /\ status' = "returned"
         \/ At.op \in {"i32.rem_s", "call"} /\ status' = "trapped"
  BY DEF Return, Trap, compilerVars, Code
<1>2. At.op \notin Structural \cup {"br_table", "get_local"}
  BY <1>1 DEF Structural, Openers
<1>3. At # GetLocal("jumpTarget", 0)
  BY <1>2 DEF GetLocal
<1>4. PICK i \in 1 .. Len(Code) :
        /\ Pc = i /\ i > 0
        /\ Fits(At, result[ip - 1], Code[i], i, ip, start[i], Len(jumpTargets), jumps)
  BY <1>1, <1>2, <1>3, HeadOnly, WorksInBody
<1>5. EngineInv'
  <2>1. EngineTypes
    BY <1>1, AtWork
  <2>2. EngineTypes' /\ status' # "idle" /\ ~Running'
    BY <1>1, <2>1 DEF EngineTypes, Running
  <2> QED
    BY <1>1, <2>2, Holds
<1>6. CASE At.op = "return"
  <2>1. Code[i].op = "Ret"
    BY <1>4, <1>6 DEF Fits
  <2>a. status' = "returned"
    BY <1>1, <1>6
  <2>2. Pc' = 0
    BY <2>a DEF Pc, InHead, Running
  <2>3. CIL!Return
    BY <1>1, <1>4, <2>1, <2>2 DEF CIL!Return, CIL!Op
  <2> QED
    BY <1>5, <2>3 DEF Follows, CIL!Next
<1>7. CASE At.op \in {"i32.rem_s", "call"}
  <2>1. Code[i].op \in CIL!MayThrow
    BY <1>4, <1>7 DEF Fits
  <2>2. status' = "trapped" /\ Code' # <<>>
    BY <1>1, <1>7, AtWork DEF Compiled
  <2>3. Pc' = -1
    BY <2>2 DEF Pc, InHead, Running
  <2>4. CIL!Throw
    BY <1>1, <1>4, <2>1, <2>3 DEF CIL!Throw, CIL!Op
  <2> QED
    BY <1>5, <2>4 DEF Follows, CIL!Next
<1> QED
  BY <1>1, <1>6, <1>7
-----------------------------------------------------------------------------
(* The jump table leads on to the instruction jumpTarget stands for.       *)
LEMMA SelectStep ==
  ASSUME EngineInv, SelectBranch, UNCHANGED compilerVars
  PROVE  EngineInv' /\ Pc' = Pc /\ status' = status /\ InTheHead(ip) /\ Stops(ip')
<1> DEFINE n == Len(jumpTargets)
           k == jumpTarget
<1>1. /\ Running /\ At.op = "br_table" /\ BranchTo(IF top[1] < At.n THEN top[1] ELSE At.n)
      /\ top' = <<>> /\ jumpTarget' = jumpTarget /\ jumpTargets' = jumpTargets
  BY DEF SelectBranch, compilerVars
<1>2. /\ Compiled /\ ip \in Nat /\ EngineTypes /\ LabelsMatch(labels, ip) /\ n \in Nat
      /\ Consistent(ip, labels, top, jumpTarget)
  BY <1>1, AtWork, Places
<1>3. InTheHead(ip)
  <2>1. SUFFICES ASSUME ~InTheHead(ip) PROVE FALSE
    OBVIOUS
  <2>2. At.op \notin Structural
    BY <1>1 DEF Structural, Openers
  <2>3. At.op # "br_table"
    BY <1>1, <2>1, <2>2, WorksInBody DEF Fits
  <2> QED
    BY <1>1, <2>3
<1>4. Pc = Active(Code, HeadedFor) /\ n > 0 /\ ip = n + 4 /\ At.n = n /\ jumpTargets # <<>>
  <2>1. /\ Pc = Active(Code, HeadedFor)
        /\ n = 0 => ip = 1
        /\ n > 0 => ip \in 1 .. n + 4 /\ jumpTargets # <<>>
        /\ ip <= n + 1 => At.op \in Openers
        /\ n > 0 /\ ip = n + 2 => At.op \in Openers
        /\ n > 0 /\ ip = n + 3 => At = GetLocal("jumpTarget", 0)
        /\ n > 0 /\ ip = n + 4 => At.n = n
    BY <1>1, <1>3, InTheFront
  <2>2. At.op \notin Openers /\ At # GetLocal("jumpTarget", 0)
    BY <1>1 DEF Openers, GetLocal
  <2>3. n > 0 /\ ip = n + 4
    BY <1>2, <2>1, <2>2
  <2> QED
    BY <2>1, <2>3
<1>5. top = <<k>>
  BY <1>2, <1>4 DEF Consistent
<1>6. k \in 0 .. n
  BY <1>2 DEF EngineTypes
<1> HIDE DEF k
<1>7. BranchTo(k)
  <2>1. top[1] = k
    BY <1>5
  <2>2. (IF top[1] < At.n THEN top[1] ELSE At.n) = k
    BY <1>2, <1>4, <1>6, <2>1
  <2> QED
    BY <1>1, <2>2
<1>8. Len(labels) = n + 2 - k + k /\ k \in Nat
  <2>1. Nesting(result, n + 3) = n + 2
    BY <1>2, <1>4, HeadCode
  <2>2. ip - 1 = n + 3
    BY <1>2, <1>4
  <2>3. Len(labels) = n + 2
    BY <1>2, <2>1, <2>2 DEF LabelsMatch
  <2> QED
    BY <1>2, <1>6, <2>3
<1>9. /\ status' = status /\ ip' = LandingOf(k) /\ labels' \in Seq(Nat)
      /\ LabelsMatch(labels', LandingOf(k))
  BY <1>2, <1>4, <1>6, <1>7, <1>8, BranchLeaves
<1>10. /\ LandingOf(k) \in Nat /\ HeadingFor(k) \in 1 .. Len(Code)
       /\ FirstOf(HeadingFor(k)) <= LandingOf(k) /\ LandingOf(k) <= start[HeadingFor(k)]
  BY <1>2, <1>4, <1>6, Landing
<1>11. EngineTypes'
  <2>1. <<>> \in Seq(Int) /\ Len(<<>>) <= 1
    OBVIOUS
  <2> QED
    BY <1>1, <1>2, <1>9, <1>10, <2>1 DEF EngineTypes
<1>12. EngineInv' /\ Pc' = Active(Code, HeadingFor(k))
  <2>1. status' = "running"
    BY <1>1, <1>9 DEF Running
  <2> QED
    BY <1>1, <1>9, <1>10, <1>11, <2>1, ArrivesAt
<1>13. HeadedFor = HeadingFor(k)
  BY DEF HeadedFor, HeadingFor, k
<1>14. Stops(ip')
  BY <1>9, <1>10 DEF Stops
<1> QED
  BY <1>3, <1>4, <1>9, <1>12, <1>13, <1>14

(* A branch that is taken lands behind itself, at its target, or restarts  *)
(* the loop on the way to it.                                              *)
LandsAt(q) ==
  \/ InTheHead(q) /\ q # Len(jumpTargets) + 4
  \/ q > ip /\ Stops(q)

LEMMA JumpArrives ==
  ASSUME EngineInv, TakeBranch, UNCHANGED compilerVars
  PROVE  /\ EngineInv' /\ status' = status /\ LandsAt(ip')
         /\ \E i \in 1 .. Len(Code), j \in jumps :
              /\ Covers(i, ip) /\ start[i] <= ip /\ Pc = i /\ i > 0
              /\ j.at = ip /\ j.from = i /\ j.to \in TryGetJumpTarget(Code[i])
              /\ Pc' = Active(Code, j.to)
<1> DEFINE n == Len(jumpTargets)
           d == At.n
<1>1. /\ Running /\ At.op \in BranchOps /\ BranchTo(d)
      /\ top' = <<>> /\ jumpTarget' = jumpTarget /\ jumpTargets' = jumpTargets /\ Code' = Code
  BY DEF TakeBranch, compilerVars, Code
<1>2. /\ Compiled /\ ip \in Nat /\ EngineTypes /\ LabelsMatch(labels, ip) /\ n \in Nat
      /\ \A i \in 1 .. Len(Code) : Carries(i, ip, top, jumpTarget)
  BY <1>1, AtWork, Places DEF Consistent
<1>3. At.op \notin Structural \cup {"br_table", "get_local"}
  BY <1>1 DEF Structural, Openers, BranchOps
<1>4. At # GetLocal("jumpTarget", 0)
  BY <1>3 DEF GetLocal
<1>5. PICK i \in 1 .. Len(Code) :
        /\ Covers(i, ip) /\ start[i] <= ip /\ Pc = i /\ i > 0
        /\ Fits(At, result[ip - 1], Code[i], i, ip, start[i], n, jumps)
  BY <1>1, <1>3, <1>4, HeadOnly, WorksInBody
<1>6. PICK j \in jumps : j.at = ip /\ j.from = i /\ j.to \in TryGetJumpTarget(Code[i])
  BY <1>1, <1>5 DEF Fits
<1>7. PICK k \in 1 .. n, closed \in 0 .. n :
        jumpTargets[k] = j.to /\ CompiledAt(result, n, start, j, k, closed)
  <2>1. HasTarget(result, n, jumpTargets, start, j)
    BY <1>2, <1>6, HeadCode
  <2> QED
    BY <2>1 DEF HasTarget
<1>8. /\ Len(labels) = n + 1 - closed
      /\ k > closed => d = k - 1 - closed
      /\ k <= closed => d = n - closed /\ Stored(result, start, j, k)
  BY <1>2, <1>6, <1>7 DEF CompiledAt, LabelsMatch, At
<1> HIDE DEF d
<1>9. <<>> \in Seq(Int) /\ Len(<<>>) <= 1
  OBVIOUS
<1>10. SUFFICES EngineInv' /\ status' = status /\ LandsAt(ip') /\ Pc' = Active(Code, j.to)
  BY <1>5, <1>6
<1>11. CASE k > closed
  <2>1. d \in Nat /\ Len(labels) = n + 2 - k + d /\ n > 0 /\ k \in 0 .. n /\ k # 0
    BY <1>2, <1>8, <1>11
  <2>2. /\ status' = status /\ ip' = LandingOf(k) /\ labels' \in Seq(Nat)
        /\ LabelsMatch(labels', LandingOf(k))
    BY <1>1, <1>2, <2>1, BranchLeaves
  <2>3. /\ LandingOf(k) \in Nat /\ HeadingFor(k) \in 1 .. Len(Code)
        /\ FirstOf(HeadingFor(k)) <= LandingOf(k) /\ LandingOf(k) <= start[HeadingFor(k)]
    BY <1>2, <2>1, Landing
  <2>4. EngineTypes'
    BY <1>1, <1>2, <1>9, <2>2, <2>3 DEF EngineTypes
  <2>5. status' = "running"
    BY <1>1, <2>2 DEF Running
  <2>6. EngineInv' /\ Pc' = Active(Code, HeadingFor(k))
    BY <1>1, <2>2, <2>3, <2>4, <2>5, ArrivesAt
  <2>7. HeadingFor(k) = j.to
    BY <1>7, <2>1 DEF HeadingFor
  <2>8. LandingOf(k) > ip
    <3>1. Nesting(result, LandingOf(k) - 1) = n + 1 - k /\ HeadEnd(n) = n + 6
      BY <1>2, <2>1, Landing, HeadCode
    <3>2. n + 6 <= LandingOf(k)
      <4>1. HeadEnd(n) <= FirstOf(HeadingFor(k)) /\ FirstOf(HeadingFor(k)) \in Nat
        BY <1>2, <2>3, Places
      <4> QED
        BY <1>2, <2>3, <3>1, <4>1
    <3>3. AtLeastOpen(result, n, closed, ip - 1)
      BY <1>6, <1>7 DEF CompiledAt
    <3>4. \A q \in n + 1 .. ip - 1 : Nesting(result, q) >= n + 1 - closed
      BY <3>3 DEF AtLeastOpen
    <3> DEFINE q == LandingOf(k) - 1
    <3>5. ASSUME ~(LandingOf(k) > ip) PROVE FALSE
      <4>1. q \in n + 1 .. ip - 1
        <5> DEFINE l == LandingOf(k)
        <5>1. l \in Nat /\ ip \in Nat /\ n \in Nat /\ n + 6 <= l /\ ~(l > ip)
          BY <1>2, <2>3, <3>2, <3>5
        <5> HIDE DEF l, n
        <5> QED
          BY <5>1 DEF l
      <4>2. Nesting(result, q) >= n + 1 - closed /\ Nesting(result, q) = n + 1 - k
        BY <3>1, <3>4, <4>1
      <4> QED
        BY <1>2, <1>11, <4>2
    <3> QED
      BY <3>5
  <2>9. LandsAt(ip')
    BY <2>2, <2>3, <2>8 DEF LandsAt, Stops
  <2> QED
    BY <2>2, <2>6, <2>7, <2>9
<1>12. CASE ~(k > closed)
  <2>1. k <= closed /\ n > 0 /\ k # 0
    BY <1>2, <1>12
  <2>2. d \in Nat /\ Len(labels) = 1 + d
    BY <1>2, <1>8, <2>1
  <2>3. status' = status /\ ip' = 2 /\ labels' \in Seq(Nat) /\ LabelsMatch(labels', ip')
    BY <1>1, <1>2, <2>2, BranchRestarts
  <2>4. jumpTarget = k
    <3>1. PICK s \in 2 .. ip - 1 :
            /\ start[i] + 1 <= s
            /\ result[s - 1] = Const(k) /\ result[s] = SetLocal("jumpTarget", 0)
            /\ \A r \in s + 1 .. ip : result[r].op # "set_local"
      BY <1>6, <1>8, <2>1 DEF Stored
    <3>2. start[i] \in Nat /\ ip < LimitOf(i)
      BY <1>2, <1>5, Places DEF Covers
    <3>3. s \in start[i] + 1 .. ip - 1 /\ start[i] < ip
      BY <1>2, <3>1, <3>2
    <3>4. \A r \in s + 1 .. ip - 1 : r \in s + 1 .. ip
      BY <1>2, <3>3
    <3>5. jumpTarget = result[s - 1].n
      BY <1>2, <3>1, <3>2, <3>3, <3>4 DEF Carries
    <3>6. \A x : Const(x).n = x
      BY DEF Const, WN
    <3> QED
      BY <3>1, <3>5, <3>6
  <2>5. EngineTypes'
    BY <1>1, <1>2, <1>9, <2>3 DEF EngineTypes
  <2>6. InTheHead(ip') /\ ip' # n + 4
    <3>1. jumpTargets # <<>>
      BY <1>2, <2>1, HeadIsFirst
    <3>2. HeadLast = n + 4
      BY <3>1 DEF HeadLast
    <3> QED
      BY <1>2, <2>1, <2>3, <3>2 DEF InTheHead
  <2>7. status' = "running"
    BY <1>1, <2>3 DEF Running
  <2>8. EngineInv' /\ Pc' = Active(Code, HeadedFor')
    BY <1>1, <2>3, <2>5, <2>6, <2>7, HeadAt
  <2>9. HeadedFor' = j.to
    BY <1>1, <1>7, <2>1, <2>4 DEF HeadedFor
  <2>10. LandsAt(ip')
    BY <2>3, <2>6 DEF LandsAt
  <2> QED
    BY <2>3, <2>8, <2>9, <2>10
<1> QED
  BY <1>11, <1>12

(* A branch of a branch opcode or a switch arrives at one of its targets.  *)
LEMMA TakeBranchStep ==
  ASSUME EngineInv, TakeBranch, UNCHANGED compilerVars
  PROVE  EngineInv' /\ Follows
<1>1. PICK i \in 1 .. Len(Code), j \in jumps :
        /\ Pc = i /\ i > 0 /\ j.to \in TryGetJumpTarget(Code[i])
        /\ Pc' = Active(Code, j.to)
  BY JumpArrives
<1>2. Code[i].op \in Branches \cup {"Switch"} /\ \E x \in DOMAIN Code[i].targets : Code[i].targets[x] = j.to
  BY <1>1 DEF TryGetJumpTarget, JumpOpcodes
<1>3. CIL!ToTarget
  <2>1. Code' = Code
    BY DEF compilerVars, Code
  <2> QED
    BY <1>1, <1>2, <2>1 DEF CIL!ToTarget, CIL!Goto, CIL!Active, Active
<1>4. CIL!Branches = Branches
  BY DEF CIL!Branches, Branches, CIL!UnconditionalBranches, UnconditionalBranches,
         CIL!ConditionalBranches, ConditionalBranches
<1>5. CIL!Branch
  BY <1>1, <1>2, <1>3, <1>4 DEF CIL!Branch, CIL!Op
<1> QED
  BY <1>5, JumpArrives DEF Follows, CIL!Next
-----------------------------------------------------------------------------
(* A call finds the engine at the loop, with no label open.                *)
LEMMA CallStep ==
  ASSUME EngineInv, Call, UNCHANGED compilerVars
  PROVE  EngineInv' /\ Pc' = Pc
<1>1. /\ Compiled /\ status = "idle" /\ status' = "running" /\ Running'
      /\ ip = 1 /\ labels = <<>> /\ top = <<>> /\ jumpTarget = 0 /\ EngineTypes
      /\ UNCHANGED <<ip, labels, top, jumpTarget, jumpTargets>>
  BY DEF Call, EngineInv, Compiled, Running, compilerVars
<1>2. /\ HeadLast \in Nat /\ 1 <= HeadLast /\ HeadLast < HeadEnd(Len(jumpTargets))
      /\ HeadEnd(Len(jumpTargets)) \in Nat /\ Len(jumpTargets) \in Nat
      /\ Len(Code) \in Nat \ {0} /\ result \in Seq(WasmInstr)
  BY <1>1, HeadIsFirst, Places
<1>3. EngineTypes'
  BY <1>1 DEF EngineTypes
<1>4. Consistent(1, <<>>, <<>>, 0)
  <2>1. LabelsMatch(<<>>, 1)
    <3>1. Nesting(result, 0) = 0
      BY <1>2, NestingAtStart
    <3> QED
      BY <3>1 DEF LabelsMatch
  <2>2. InTheHead(1) /\ 1 \in 1 .. HeadLast
    BY <1>2 DEF InTheHead
  <2>3. ~(jumpTargets # <<>> /\ 1 = Len(jumpTargets) + 4)
    BY <1>2
  <2>4. ASSUME NEW i \in 1 .. Len(Code) PROVE Carries(i, 1, <<>>, 0)
    <3>1. ~(start[i] < 1)
      BY <1>1, <2>2, HeadIsFirst
    <3> QED
      BY <3>1 DEF Carries
  <2> QED
    BY <2>1, <2>2, <2>3, <2>4 DEF Consistent
<1>5. EngineInv'
  <2>1. Consistent(ip', labels', top', jumpTarget')
    BY <1>1, <1>4
  <2>2. status' # "idle"
    BY <1>1
  <2> QED
    BY <1>1, <1>3, <2>1, <2>2, HoldsOnceCompiled
<1>6. Pc' = Pc
  <2>1. ip' \in Nat /\ ip' < HeadEnd(Len(jumpTargets))
    BY <1>1, <1>2
  <2>2. Pc' = Active(Code, HeadedFor')
    BY <1>1, <2>1, PcNext
  <2>3. HeadedFor' = 1
    BY <1>1 DEF HeadedFor
  <2>4. Pc = Active(Code, 1)
    BY <1>1 DEF Pc, Compiled, InHead, Running
  <2> QED
    BY <2>2, <2>3, <2>4
<1> QED
  BY <1>5, <1>6

(* Nothing has been called while the compiler is at work.                  *)
LEMMA CompileStep ==
  ASSUME EngineInv, Compile, UNCHANGED engineVars
  PROVE  EngineInv' /\ Code' = Code /\ Pc' = Pc
<1>1. LayoutInv' /\ phase # "done"
  <2>1. LayoutInv
    BY DEF EngineInv
  <2>2. phase # "done"
    BY DEF Compile, OpenBlocks, CompileStraightInstruction, CompileBranch, BeginSwitch,
           CompileSwitchItem, EndSwitch, RejectInstruction, CloseBlocks, InBody, CannotCompile
  <2> QED
    BY <2>1, <2>2, StepLays
<1>2. method' = method /\ jumpTargets' = jumpTargets
  BY DEF Compile, OpenBlocks, CompileStraightInstruction, CompileBranch, BeginSwitch,
         CompileSwitchItem, EndSwitch, RejectInstruction, CloseBlocks, BeginInstruction
<1>3. /\ status = "idle" /\ status' = "idle" /\ ip' = ip /\ labels' = labels /\ top' = top
      /\ jumpTarget' = jumpTarget /\ Code' = Code
  BY <1>1, <1>2 DEF EngineInv, engineVars, Code
<1>4. EngineInv'
  <2>1. EngineTypes'
    BY <1>2, <1>3 DEF EngineInv, EngineTypes
  <2>2. ~Running'
    BY <1>3 DEF Running
  <2>3. status' = "idle" => ip' = 1 /\ labels' = <<>> /\ top' = <<>> /\ jumpTarget' = 0
    BY <1>3 DEF EngineInv
  <2> QED
    BY <1>1, <1>3, <2>1, <2>2, <2>3 DEF EngineInv
<1>5. Pc' = Pc
  BY <1>3 DEF Pc, InHead, Running
<1> QED
  BY <1>3, <1>4, <1>5

(* Nor does anything change when nothing happens.                          *)
LEMMA IdleStep ==
  ASSUME EngineInv, UNCHANGED vars
  PROVE  EngineInv' /\ Code' = Code /\ Pc' = Pc
<1>1. UNCHANGED <<compilerVars, engineVars>>
  BY DEF vars
<1>2. LayoutInv'
  <2>1. LayoutInv
    BY DEF EngineInv
  <2> QED
    BY <1>1, <2>1, StepLays
<1>3. EngineInv'
  BY <1>1, <1>2 DEF EngineInv, EngineTypes, compilerVars, engineVars, Code, Running, Consistent,
     LabelsMatch, InTheHead, HeadLast, Covers, Carries, FirstOf, LimitOf, BodyEnd, Behind
<1>4. Code' = Code /\ Pc' = Pc
  BY <1>1 DEF Pc, Code, InHead, Running, Reached, CodeOf, HeadedFor, compilerVars, engineVars
<1> QED
  BY <1>3, <1>4

(* The engine starts where the body does.                                  *)
LEMMA InitEngine == Init /\ EngineInit => EngineInv /\ CIL!Init
<1> SUFFICES ASSUME Init, EngineInit PROVE EngineInv /\ CIL!Init
  OBVIOUS
<1>1. LayoutInv /\ method \in Methods
  BY InitLays DEF Init
<1>2. Len(jumpTargets) \in Nat
  BY <1>1, JumpTargetFacts DEF LayoutInv, LandInv, BalanceInv
<1>3. EngineTypes
  BY <1>2 DEF EngineInit, EngineTypes
<1>4. ~Running /\ status = "idle" /\ ip = 1 /\ labels = <<>> /\ top = <<>> /\ jumpTarget = 0
  BY DEF EngineInit, Running
<1>5. EngineInv
  BY <1>1, <1>3, <1>4 DEF EngineInv
<1>6. CIL!Init
  <2>1. Code \in {m.code : m \in Methods}
    BY <1>1 DEF Code
  <2>2. CASE Code = <<>>
    <3>1. Pc = 0
      BY <1>4, <2>2 DEF Pc, InHead, Running
    <3> QED
      BY <2>1, <2>2, <3>1 DEF CIL!Init, CIL!Begin
  <2>3. CASE Code # <<>>
    <3>1. Pc = Active(Code, 1)
      BY <1>4, <2>3 DEF Pc, InHead, Running
    <3> QED
      BY <2>1, <2>3, <3>1 DEF CIL!Init, CIL!Begin, CIL!Active, Active
  <2> QED
    BY <2>2, <2>3
<1> QED
  BY <1>5, <1>6

(* Every step keeps the invariant, and takes the CIL body one instruction  *)
(* further or not at all.                                                  *)
LEMMA StepEngine ==
  EngineInv /\ [Next]_vars => EngineInv' /\ [CIL!Next]_<<Code, Pc>>
<1> SUFFICES ASSUME EngineInv, [Next]_vars
             PROVE  EngineInv' /\ (CIL!Next \/ (Code' = Code /\ Pc' = Pc))
  OBVIOUS
<1>1. ASSUME UNCHANGED compilerVars PROVE Code' = Code
  BY <1>1 DEF compilerVars, Code
<1>2. CASE Compile /\ UNCHANGED engineVars
  BY <1>2, CompileStep
<1>3. CASE Call /\ UNCHANGED compilerVars
  BY <1>1, <1>3, CallStep
<1>4. CASE Engine
  <2>1. UNCHANGED compilerVars /\ Code' = Code
    BY <1>1, <1>4 DEF Engine
  <2>2. CASE Enter
    BY <2>1, <2>2, EnterStep
  <2>3. CASE Leave
    BY <2>1, <2>3, LeaveStep
  <2>4. CASE TakeBranch
    BY <2>1, <2>4, TakeBranchStep DEF Follows
  <2>5. CASE SkipBranch
    BY <2>1, <2>5, SkipBranchStep DEF Follows
  <2>6. CASE SelectBranch
    BY <2>1, <2>6, SelectStep
  <2>7. CASE StoreJumpTarget
    BY <2>1, <2>7, StoreStep DEF Follows
  <2>8. CASE Return \/ Trap
    BY <2>1, <2>8, EndStep DEF Follows
  <2>9. CASE Compute
    BY <2>1, <2>9, ComputeStep DEF Follows
  <2> QED
    BY <1>4, <2>2, <2>3, <2>4, <2>5, <2>6, <2>7, <2>8, <2>9 DEF Engine
<1>5. CASE UNCHANGED vars
  BY <1>5, IdleStep
<1> QED
  BY <1>2, <1>3, <1>4, <1>5 DEF Next

(* The engine is in the head or in the code of an instruction, all of      *)
(* which lies in front of the ends, and the fake value, at the end.        *)
LEMMA StaysInside == EngineInv => NeverReachesFakeReturn
<1> SUFFICES ASSUME EngineInv, Running
             PROVE  ip < Len(result) - (IF method.returns THEN 1 ELSE 0)
  BY DEF NeverReachesFakeReturn
<1> DEFINE n == Len(jumpTargets)
<1>1. /\ Compiled /\ ip \in Nat
      /\ InTheHead(ip) \/ \E i \in 1 .. Len(Code) : Covers(i, ip)
  BY AtWork
<1>2. /\ n \in Nat /\ HeadEnd(n) \in Nat /\ BodyEnd \in Nat /\ result \in Seq(WasmInstr)
      /\ Len(Code) \in Nat \ {0}
  BY <1>1, Places
<1>3. HeadEnd(n) <= BodyEnd
  BY <1>1 DEF Compiled, LayoutInv, Layout, BodyEnd
<1>4. ip < BodyEnd
  <2>1. CASE InTheHead(ip)
    <3>1. HeadLast \in Nat /\ HeadLast < HeadEnd(n) /\ ip <= HeadLast
      BY <1>1, <2>1, HeadIsFirst DEF InTheHead
    <3> HIDE DEF n
    <3> QED
      BY <1>1, <1>2, <1>3, <3>1
  <2>2. CASE \E i \in 1 .. Len(Code) : Covers(i, ip)
    <3>1. PICK i \in 1 .. Len(Code) : Covers(i, ip)
      BY <2>2
    <3>2. LimitOf(i) \in Nat /\ LimitOf(i) <= BodyEnd /\ ip < LimitOf(i)
      BY <1>1, <3>1, Places DEF Covers
    <3> QED
      BY <1>1, <1>2, <3>2
  <2> QED
    BY <1>1, <2>1, <2>2
<1>5. Len(result) \in Nat /\ BodyEnd = Len(result) - (IF method.returns THEN 2 ELSE 1)
  BY <1>2 DEF BodyEnd, Behind
<1> QED
  BY <1>1, <1>4, <1>5
-----------------------------------------------------------------------------
(* Whatever the method and the values its code computes, the engine keeps  *)
(* a position in the code, numbers for labels, at most one known value on  *)
(* the stack, and the number of a target, or 0, in the local "jumpTarget": *)
(* the default label of the jump table is taken for the last target only.  *)
THEOREM EngineTypeCorrect == Spec => []TypeOKEngine
<1>1. Init /\ EngineInit => EngineInv
  BY InitEngine
<1>2. EngineInv /\ [Next]_vars => EngineInv'
  BY StepEngine
<1>3. EngineInv => TypeOKEngine
  BY DEF EngineInv, EngineTypes, TypeOKEngine
<1> QED
  BY <1>1, <1>2, <1>3, PTL DEF Spec

(* "Although the control flow will never reach this": in no call of any    *)
(* compiled method does the engine come to the fake return value that      *)
(* MethodBodyCompiler.Compile adds behind the loop, or run off the end.    *)
THEOREM FakeReturnNeverReached == Spec => []NeverReachesFakeReturn
<1>1. Init /\ EngineInit => EngineInv
  BY InitEngine
<1>2. EngineInv /\ [Next]_vars => EngineInv'
  BY StepEngine
<1>3. EngineInv => NeverReachesFakeReturn
  BY StaysInside
<1> QED
  BY <1>1, <1>2, <1>3, PTL DEF Spec

(* For every set of well-formed methods the code Compile generates goes    *)
(* through the instructions of the CIL body in an order the body allows:   *)
(* every step of the engine is the next step of the CIL body, or part of   *)
(* the work in between.                                                    *)
THEOREM CompiledCodeImplementsCil == Spec => ImplementsCil
<1>1. Init /\ EngineInit => EngineInv /\ CIL!Init
  BY InitEngine
<1>2. EngineInv /\ [Next]_vars => EngineInv' /\ [CIL!Next]_<<Code, Pc>>
  BY StepEngine
<1> QED
  BY <1>1, <1>2, PTL DEF Spec, ImplementsCil, CIL!Spec
=============================================================================
