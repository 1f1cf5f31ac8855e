-------------------------- MODULE ExecutionProofs ---------------------------
(***************************************************************************)
(* A call of a compiled function computes what the CIL body computes:      *)
(* CompiledExecution's DataSpec implies CilMachine's Spec, for every set   *)
(* of methods and of argument lists and every width of the integers.       *)
(*                                                                         *)
(* First, the code of each CIL instruction is exactly what the compiler    *)
(* has for its opcode (ExactInv).  Then, instruction by instruction of     *)
(* that code, what it does to the operand stack and the locals (Works),    *)
(* and that at its end this is what the CIL instruction does (Effect).     *)
(* Last, DataInv: the engine is somewhere in the code of an instruction,   *)
(* and its operands and locals are what that much of the code makes of     *)
(* those it came with, whichever way it came.                              *)
(***************************************************************************)
EXTENDS CompiledExecution, ControlFlowProofs

-----------------------------------------------------------------------------
(* Code c has s from b to right before e.                                  *)
Reads(c, b, e, s) ==
  s \in Seq(FlatInstr) /\ e = b + Len(s) /\ \A q \in 1 .. Len(s) : c[b + q - 1] = s[q]

(* What getBreakDepth adds in front of a branch.                           *)
Setup(s) == s = <<>> \/ \E k \in Int : s = <<Const(k), SetLocal("jumpTarget", 0)>>

(* The code of a branch instruction, and of item x of a switch.            *)
BranchCode(s, ins) ==
  \E setup, d : Setup(setup) /\ s = (setup \o BranchTests[ins.op]) \o <<WN(BranchOp(ins.op), d)>>

Asks(x) == <<GetLocal("switchValue", 0), Const(x), W("i32.eq")>>

ItemCode(s, x) == \E setup, d : Setup(setup) /\ s = (Asks(x) \o setup) \o <<WN("br_if", d)>>

(* The first m items of the switch at b lie one behind the other as far as *)
(* e, item x from a[x] on, and each ends in the branch to its target.      *)
Items(c, b, e, ins, js, m, a) ==
  /\ m \in 0 .. Len(ins.targets)
  /\ a[0] = b + 1 /\ a[m] = e
  /\ \A x \in 0 .. m : a[x] \in Nat /\ b < a[x] /\ a[x] <= e
  /\ c[b] = SetLocal("switchValue", 0)
  /\ \A x \in 0 .. m - 1 :
       /\ \E s : ItemCode(s, x) /\ Reads(c, a[x], a[x + 1], s)
       /\ \E j \in js : j.at = a[x + 1] - 1 /\ j.to = ins.targets[x + 1]

(* From b to right before e the code of instruction ins is what Compile has *)
(* for its opcode, of a switch m items.                                    *)
Exact(c, b, e, ins, js, m) ==
  /\ ins.op \in StraightOps => Reads(c, b, e, CompileStraight(ins))
  /\ ins.op \in DOMAIN BranchTests => \E s : BranchCode(s, ins) /\ Reads(c, b, e, s)
  /\ ins.op = "Switch" => \E a : Items(c, b, e, ins, js, m, a)

(* Instruction `now` is a switch of which m items are there, the others    *)
(* are complete.                                                           *)
ExactTo(body, c, ts, st, js, end, now, m) ==
  \A i \in 1 .. Len(st) :
    Exact(c, st[i], Limit(ts, st, i, end), body[i], js, IF i = now THEN m ELSE Len(body[i].targets))

(* No two jumps are at the same place.                                     *)
JumpsApart(js) == \A j, k \in js : j.at = k.at => j = k

(* The code of every CIL instruction is, at every step of the compiler,    *)
(* what Compile has for its opcode.                                        *)
ExactInv ==
  /\ LayoutInv
  /\ JumpsApart(jumps)
  /\ phase = "body" => ExactTo(Code, result, jumpTargets, start, jumps, Len(result) + 1, 0, 0)
  /\ phase = "switch" => ExactTo(Code, result, jumpTargets, start, jumps, Len(result) + 1, il, item)
  /\ phase = "done" /\ Code # <<>> =>
       ExactTo(Code, result, jumpTargets, start, jumps, Len(result) - Behind, 0, 0)
-----------------------------------------------------------------------------
(* An opcode is compiled in one way.                                       *)
LEMMA OpsApart ==
  /\ \A op \in StraightOps : op \notin DOMAIN BranchTests /\ op # "Switch"
  /\ \A op \in DOMAIN BranchTests : op # "Switch" /\ op \in Branches
<1> QED
  BY DEF StraightOps, SimpleOps, BranchTests, Branches, UnconditionalBranches, ConditionalBranches

(* Code that goes on still has what it had.                                *)
LEMMA ReadsGoesOn ==
  ASSUME NEW c, NEW r, GoesOn(c, r), NEW b \in Nat \ {0}, NEW e \in Nat, e <= Len(c) + 1,
         NEW s, Reads(c, b, e, s)
  PROVE  Reads(r, b, e, s)
<1>1. s \in Seq(FlatInstr) /\ Len(s) \in Nat /\ e = b + Len(s)
  BY DEF Reads
<1>2. ASSUME NEW q \in 1 .. Len(s) PROVE r[b + q - 1] = s[q]
  <2>1. b + q - 1 \in 1 .. Len(c)
    BY <1>1 DEF GoesOn
  <2> QED
    BY <2>1 DEF Reads, GoesOn
<1> QED
  BY <1>1, <1>2 DEF Reads

(* What is appended is there.                                              *)
LEMMA ReadsAppended ==
  ASSUME NEW c \in Seq(WasmInstr), NEW s \in Seq(FlatInstr)
  PROVE  Reads(c \o s, Len(c) + 1, Len(c \o s) + 1, s)
<1>1. s \in Seq(WasmInstr)
  BY FlatIsCode
<1> DEFINE r == c \o s
<1>2. /\ Len(c) \in Nat /\ Len(s) \in Nat /\ Len(r) = Len(c) + Len(s)
      /\ \A q \in 1 .. Len(s) : r[Len(c) + q] = s[q]
  BY <1>1, Joined
<1> HIDE DEF r
<1>3. ASSUME NEW q \in 1 .. Len(s) PROVE r[Len(c) + 1 + q - 1] = s[q]
  <2>1. Len(c) + 1 + q - 1 = Len(c) + q
    BY <1>2
  <2> QED
    BY <1>2, <2>1
<1>4. Len(r) + 1 = Len(c) + 1 + Len(s)
  BY <1>2
<1> QED
  BY <1>3, <1>4 DEF Reads, r

(* The items of a switch stay where they are.                              *)
LEMMA ItemsGoOn ==
  ASSUME NEW c, NEW r, GoesOn(c, r), NEW b \in Nat \ {0}, NEW e \in Nat, e <= Len(c) + 1,
         NEW ins, NEW js, NEW js2, js \subseteq js2, NEW m, NEW a, Len(ins.targets) \in Nat,
         Items(c, b, e, ins, js, m, a)
  PROVE  Items(r, b, e, ins, js2, m, a)
<1>1. /\ m \in 0 .. Len(ins.targets) /\ a[0] = b + 1 /\ a[m] = e
      /\ \A x \in 0 .. m : a[x] \in Nat /\ b < a[x] /\ a[x] <= e
      /\ c[b] = SetLocal("switchValue", 0)
      /\ \A x \in 0 .. m - 1 :
           /\ \E s : ItemCode(s, x) /\ Reads(c, a[x], a[x + 1], s)
           /\ \E j \in js : j.at = a[x + 1] - 1 /\ j.to = ins.targets[x + 1]
  BY DEF Items
<1>2. b \in 1 .. Len(c)
  <2>1. 0 \in 0 .. m
    BY <1>1
  <2>2. b < e
    BY <1>1, <2>1
  <2> QED
    BY <2>2 DEF GoesOn
<1>3. r[b] = SetLocal("switchValue", 0)
  BY <1>1, <1>2 DEF GoesOn
<1>4. ASSUME NEW x \in 0 .. m - 1
      PROVE  /\ \E s : ItemCode(s, x) /\ Reads(r, a[x], a[x + 1], s)
             /\ \E j \in js2 : j.at = a[x + 1] - 1 /\ j.to = ins.targets[x + 1]
  <2>1. PICK s : ItemCode(s, x) /\ Reads(c, a[x], a[x + 1], s)
    BY <1>1
  <2>2. x \in 0 .. m /\ x + 1 \in 0 .. m
    BY <1>1
  <2>3. a[x] \in Nat \ {0} /\ a[x + 1] \in Nat /\ a[x + 1] <= Len(c) + 1
    BY <1>1, <2>2 DEF GoesOn
  <2> DEFINE p == a[x]
             q == a[x + 1]
  <2>4. p \in Nat \ {0} /\ q \in Nat /\ q <= Len(c) + 1 /\ Reads(c, p, q, s)
    BY <2>1, <2>3
  <2> HIDE DEF p, q
  <2>5. Reads(r, p, q, s)
    BY <2>4, ReadsGoesOn
  <2>6. \E j \in js : j.at = a[x + 1] - 1 /\ j.to = ins.targets[x + 1]
    BY <1>1
  <2> QED
    BY <2>1, <2>5, <2>6 DEF p, q
<1> QED
  BY <1>1, <1>3, <1>4 DEF Items

(* So does all of the code of an instruction.                              *)
LEMMA ExactGoesOn ==
  ASSUME NEW c, NEW r, GoesOn(c, r), NEW b \in Nat \ {0}, NEW e \in Nat, e <= Len(c) + 1,
         NEW ins, NEW js, NEW js2, js \subseteq js2, NEW m, Len(ins.targets) \in Nat,
         Exact(c, b, e, ins, js, m)
  PROVE  Exact(r, b, e, ins, js2, m)
<1>1. ASSUME ins.op \in StraightOps PROVE Reads(r, b, e, CompileStraight(ins))
  <2>1. Reads(c, b, e, CompileStraight(ins))
    BY <1>1 DEF Exact
  <2> QED
    BY <2>1, ReadsGoesOn
<1>2. ASSUME ins.op \in DOMAIN BranchTests PROVE \E s : BranchCode(s, ins) /\ Reads(r, b, e, s)
  <2>1. PICK s : BranchCode(s, ins) /\ Reads(c, b, e, s)
    BY <1>2 DEF Exact
  <2>2. Reads(r, b, e, s)
    BY <2>1, ReadsGoesOn
  <2> QED
    BY <2>1, <2>2
<1>3. ASSUME ins.op = "Switch" PROVE \E a : Items(r, b, e, ins, js2, m, a)
  <2>1. PICK a : Items(c, b, e, ins, js, m, a)
    BY <1>3 DEF Exact
  <2>2. Items(r, b, e, ins, js2, m, a)
    BY <2>1, ItemsGoOn
  <2> QED
    BY <2>2
<1> QED
  BY <1>1, <1>2, <1>3 DEF Exact
-----------------------------------------------------------------------------
(* Code that no longer grows: the switch has all its items.                *)
LEMMA ExactDone ==
  ASSUME NEW body, NEW c, NEW ts, NEW st, NEW js, NEW end, NEW now, NEW m,
         ExactTo(body, c, ts, st, js, end, now, m),
         now \in 1 .. Len(st) => body[now].op # "Switch" \/ m = Len(body[now].targets)
  PROVE  ExactTo(body, c, ts, st, js, end, 0, 0)
<1>1. ASSUME NEW i \in 1 .. Len(st)
      PROVE  Exact(c, st[i], Limit(ts, st, i, end), body[i], js, Len(body[i].targets))
  <2>1. Exact(c, st[i], Limit(ts, st, i, end), body[i], js, IF i = now THEN m ELSE Len(body[i].targets))
    BY DEF ExactTo
  <2> DEFINE lim == Limit(ts, st, i, end)
             b   == st[i]
             ins == body[i]
  <2> HIDE DEF lim
  <2>2. CASE i # now \/ m = Len(ins.targets)
    BY <2>1, <2>2
  <2>3. CASE ins.op # "Switch"
    BY <2>1, <2>3 DEF Exact
  <2> QED
    BY <2>2, <2>3
<1>2. \A i \in 1 .. Len(st) : i # 0
  OBVIOUS
<1> QED
  BY <1>1, <1>2 DEF ExactTo

(* The code of the instructions there are stays what it is when more code  *)
(* follows.                                                                *)
LEMMA ExactStays ==
  ASSUME NEW body, NEW c, NEW r, GoesOn(c, r), NEW ts, Len(ts) \in Nat, NEW st \in Seq(Nat),
         NEW js, NEW js2, js \subseteq js2, NEW end \in Nat, end <= Len(c) + 1,
         Layout(body, c, ts, st, js, end),
         NEW x \in 1 .. Len(st), Len(body[x].targets) \in Nat, NEW m,
         Exact(c, st[x], Limit(ts, st, x, end), body[x], js, m)
  PROVE  Exact(r, st[x], Limit(ts, st, x, end), body[x], js2, m)
<1> DEFINE lim == Limit(ts, st, x, end)
           b   == st[x]
           ins == body[x]
<1>1. Len(c) \in Nat
  BY DEF GoesOn
<1>2. b \in Nat /\ b > 1 /\ lim \in Nat /\ lim <= end
  BY <1>1, LayoutFacts
<1>3. Exact(c, b, lim, ins, js, m) /\ Len(ins.targets) \in Nat
  OBVIOUS
<1> HIDE DEF lim, b, ins
<1>4. b \in Nat \ {0} /\ lim \in Nat /\ lim <= Len(c) + 1
  BY <1>1, <1>2
<1>5. Exact(r, b, lim, ins, js2, m)
  BY <1>3, <1>4, ExactGoesOn
<1> QED
  BY <1>5 DEF lim, b, ins

(* The next instruction's code makes it longer.                            *)
LEMMA ExactBegins ==
  ASSUME NEW body, NEW c \in Seq(WasmInstr), NEW e \in Seq(WasmInstr), NEW code \in Seq(FlatInstr),
         NEW ts, Len(ts) \in Nat, NEW st \in Seq(Nat), NEW js, NEW js2, js \subseteq js2,
         Layout(body, c, ts, st, js, Len(c) + 1), NEW i, i = Len(st) + 1,
         (\E k \in DOMAIN ts : ts[k] = i) => Len(e) = 1,
         ~(\E k \in DOMAIN ts : ts[k] = i) => Len(e) = 0,
         \A x \in 1 .. i : Len(body[x].targets) \in Nat,
         ExactTo(body, c, ts, st, js, Len(c) + 1, 0, 0),
         NEW m, Exact((c \o e) \o code, Len(c) + Len(e) + 1, Len((c \o e) \o code) + 1, body[i], js2, m)
  PROVE  ExactTo(body, (c \o e) \o code, ts, Append(st, Len(c) + Len(e) + 1), js2,
                 Len((c \o e) \o code) + 1, i, m)
<1> DEFINE d   == c \o e
           r   == d \o code
           end == Len(c) + 1
           new == Len(r) + 1
           v   == Len(c) + Len(e) + 1
           st2 == Append(st, v)
<1>0. /\ c \in Seq(WasmInstr) /\ e \in Seq(WasmInstr) /\ Len(ts) \in Nat /\ st \in Seq(Nat)
      /\ js \subseteq js2 /\ Layout(body, c, ts, st, js, end) /\ i = Len(st) + 1
      /\ (\E k \in DOMAIN ts : ts[k] = i) => Len(e) = 1
      /\ ~(\E k \in DOMAIN ts : ts[k] = i) => Len(e) = 0
  OBVIOUS
<1>1. code \in Seq(WasmInstr)
  BY FlatIsCode
<1>2. d \in Seq(WasmInstr) /\ Len(c) \in Nat /\ Len(e) \in Nat /\ Len(d) = Len(c) + Len(e)
  BY <1>0, Joined
<1>3. GoesOn(c, d)
  BY <1>0, AppendedGoesOn
<1> HIDE DEF d
<1>4. GoesOn(d, r)
  BY <1>1, <1>2, AppendedGoesOn
<1>5. GoesOn(c, r)
  <2>1. \A q \in 1 .. Len(c) : q \in 1 .. Len(d)
    BY <1>2
  <2> QED
    BY <1>2, <1>3, <1>4, <2>1 DEF GoesOn
<1>6. /\ st2 \in Seq(Nat) /\ Len(st2) = i /\ st2[i] = v /\ v \in Nat
      /\ \A x \in 1 .. Len(st) : st2[x] = st[x]
  <2>1. v \in Nat
    BY <1>2
  <2> HIDE DEF v
  <2> QED
    BY <1>0, <2>1, AppendProperties
<1>7. end \in Nat /\ new \in Nat /\ Len(st) \in Nat
  BY <1>0, <1>2, <1>4 DEF GoesOn
<1> HIDE DEF r, st2
<1>8. Origin(ts, st2, i) = end
  <2>1. CASE \E k \in DOMAIN ts : ts[k] = i
    <3>1. Origin(ts, st2, i) = st2[i] - 1 /\ Len(e) = 1
      BY <1>0, <2>1, OriginIs
    <3> QED
      BY <1>2, <1>6, <3>1
  <2>2. CASE ~(\E k \in DOMAIN ts : ts[k] = i)
    <3>1. Origin(ts, st2, i) = st2[i] /\ Len(e) = 0
      BY <1>0, <2>2, OriginIs
    <3> QED
      BY <1>2, <1>6, <3>1
  <2> QED
    BY <2>1, <2>2
<1> HIDE DEF end, new, v
<1>8a. Len(st2) = Len(st) + 1 /\ Len(st) \in Nat
  BY <1>0, <1>6, <1>7
<1>9. ASSUME NEW x \in 1 .. Len(st) PROVE Limit(ts, st2, x, new) = Limit(ts, st, x, end)
  <2>1. CASE x < Len(st)
    <3>1. x + 1 \in 1 .. Len(st) /\ x < Len(st2)
      BY <1>8a, <2>1
    <3>2. Origin(ts, st2, x + 1) = Origin(ts, st, x + 1)
      <4>1. st2[x + 1] = st[x + 1]
        BY <1>6, <3>1
      <4> QED
        BY <4>1, OriginIs
    <3> QED
      BY <2>1, <3>1, <3>2 DEF Limit
  <2>2. CASE ~(x < Len(st))
    <3>1. x + 1 = i /\ x < Len(st2)
      BY <1>0, <1>6, <1>7, <2>2
    <3> QED
      BY <1>8, <2>2, <3>1 DEF Limit
  <2> QED
    BY <2>1, <2>2
<1>10. ASSUME NEW x \in 1 .. Len(st)
       PROVE  Exact(r, st2[x], Limit(ts, st2, x, new), body[x], js2, Len(body[x].targets))
  <2>1. Exact(c, st[x], Limit(ts, st, x, end), body[x], js, Len(body[x].targets))
    <3>1. x # 0
      OBVIOUS
    <3> QED
      BY <3>1 DEF ExactTo, end
  <2>2. Len(body[x].targets) \in Nat /\ end <= Len(c) + 1
    <3>1. x \in 1 .. i
      BY <1>0, <1>7
    <3> QED
      BY <1>2, <3>1 DEF end
  <2>3. Exact(r, st[x], Limit(ts, st, x, end), body[x], js2, Len(body[x].targets))
    BY <1>0, <1>5, <1>7, <2>1, <2>2, ExactStays
  <2> QED
    BY <1>6, <1>9, <2>3
<1>11. Exact(r, st2[i], Limit(ts, st2, i, new), body[i], js2, m)
  <2>1. Limit(ts, st2, i, new) = new
    BY <1>0, <1>6, <1>7 DEF Limit
  <2> QED
    BY <1>6, <2>1 DEF r, d, new, v
<1>12. ASSUME NEW x \in 1 .. Len(st2)
       PROVE  Exact(r, st2[x], Limit(ts, st2, x, new), body[x], js2, IF x = i THEN m ELSE Len(body[x].targets))
  <2>1. CASE x = i
    BY <1>11, <2>1
  <2>2. CASE x # i
    <3>1. x \in 1 .. Len(st)
      BY <1>0, <1>6, <1>7, <2>2
    <3> QED
      BY <1>10, <2>2, <3>1
  <2> QED
    BY <2>1, <2>2
<1> QED
  BY <1>12 DEF ExactTo, r, d, st2, new, v

(* One item more.                                                          *)
LEMMA ItemsGrow ==
  ASSUME NEW c \in Seq(WasmInstr), NEW b \in Nat \ {0}, NEW e, e = Len(c) + 1, NEW ins, NEW js, NEW js2,
         js \subseteq js2, NEW m, Len(ins.targets) \in Nat, m < Len(ins.targets),
         NEW a, Items(c, b, e, ins, js, m, a),
         NEW code \in Seq(FlatInstr), ItemCode(code, m),
         \E j \in js2 : j.at = Len(c) + Len(code) /\ j.to = ins.targets[m + 1]
  PROVE  \E a2 : Items(c \o code, b, Len(c \o code) + 1, ins, js2, m + 1, a2)
<1> DEFINE r  == c \o code
           e2 == Len(r) + 1
           a2 == [x \in 0 .. m + 1 |-> IF x <= m THEN a[x] ELSE e2]
<1>1. code \in Seq(WasmInstr)
  BY FlatIsCode
<1>2. Reads(r, e, e2, code)
  BY ReadsAppended
<1>3. GoesOn(c, r) /\ Len(c) \in Nat /\ Len(code) \in Nat /\ Len(r) = Len(c) + Len(code)
  BY <1>1, AppendedGoesOn, Joined
<1> HIDE DEF r
<1>4. Items(r, b, e, ins, js2, m, a)
  BY <1>3, ItemsGoOn
<1>5. m \in Nat /\ m + 1 \in 0 .. Len(ins.targets)
  BY DEF Items
<1>6. /\ \A x \in 0 .. m : a[x] \in Nat /\ b < a[x] /\ a[x] <= e
      /\ a[0] = b + 1 /\ a[m] = e /\ r[b] = SetLocal("switchValue", 0)
      /\ \A x \in 0 .. m - 1 :
           /\ \E s : ItemCode(s, x) /\ Reads(r, a[x], a[x + 1], s)
           /\ \E j \in js2 : j.at = a[x + 1] - 1 /\ j.to = ins.targets[x + 1]
  BY <1>4 DEF Items
<1>7. e \in Nat /\ e2 \in Nat /\ e <= e2
  BY <1>3
<1> HIDE DEF e2
<1>8. /\ \A x \in 0 .. m : a2[x] = a[x]
      /\ a2[m + 1] = e2
  BY <1>5
<1> HIDE DEF a2
<1>9. /\ 0 \in 0 .. m /\ m \in 0 .. m
      /\ \A x \in 0 .. m + 1 : x \in 0 .. m \/ x = m + 1
      /\ \A x \in 0 .. m : x \in 0 .. m - 1 \/ x = m
      /\ \A x \in 0 .. m - 1 : x \in 0 .. m /\ x + 1 \in 0 .. m
      /\ m + 1 - 1 = m
  BY <1>5
<1>10. a2[0] = b + 1 /\ \A x \in 0 .. m + 1 : a2[x] \in Nat /\ b < a2[x] /\ a2[x] <= e2
  <2>1. ASSUME NEW x \in 0 .. m PROVE a2[x] \in Nat /\ b < a2[x] /\ a2[x] <= e2
    BY <1>6, <1>7, <1>8
  <2>2. b < e2
    BY <1>6, <1>7, <1>9
  <2> QED
    BY <1>6, <1>7, <1>8, <1>9, <2>1, <2>2
<1>11. ASSUME NEW x \in 0 .. m
       PROVE  /\ \E s : ItemCode(s, x) /\ Reads(r, a2[x], a2[x + 1], s)
              /\ \E j \in js2 : j.at = a2[x + 1] - 1 /\ j.to = ins.targets[x + 1]
  <2>1. CASE x \in 0 .. m - 1
    <3>1. a2[x] = a[x] /\ a2[x + 1] = a[x + 1]
      BY <1>8, <1>9, <2>1
    <3> QED
      BY <1>6, <2>1, <3>1
  <2>2. CASE x = m
    <3>1. a2[x] = e /\ a2[x + 1] = e2 /\ e2 - 1 = Len(c) + Len(code)
      BY <1>3, <1>6, <1>8, <1>9, <2>2 DEF e2
    <3> QED
      BY <1>2, <2>2, <3>1
  <2> QED
    BY <1>9, <2>1, <2>2
<1>12. Items(r, b, e2, ins, js2, m + 1, a2)
  BY <1>5, <1>6, <1>8, <1>9, <1>10, <1>11 DEF Items
<1> QED
  BY <1>12 DEF r, e2

(* So the code of a switch grows.                                          *)
LEMMA ExactGrows ==
  ASSUME NEW body, NEW c \in Seq(WasmInstr), NEW code \in Seq(FlatInstr), NEW ts, Len(ts) \in Nat,
         NEW st \in Seq(Nat), NEW js, NEW js2, js \subseteq js2,
         Layout(body, c, ts, st, js, Len(c) + 1),
         NEW i, i \in 1 .. Len(st), i = Len(st), body[i].op = "Switch",
         \A x \in 1 .. i : Len(body[x].targets) \in Nat,
         NEW m, ExactTo(body, c, ts, st, js, Len(c) + 1, i, m),
         m < Len(body[i].targets), ItemCode(code, m),
         \E j \in js2 : j.at = Len(c) + Len(code) /\ j.to = body[i].targets[m + 1]
  PROVE  ExactTo(body, c \o code, ts, st, js2, Len(c \o code) + 1, i, m + 1)
<1> DEFINE r   == c \o code
           end == Len(c) + 1
           new == Len(r) + 1
<1>1. code \in Seq(WasmInstr)
  BY FlatIsCode
<1>2. GoesOn(c, r) /\ Len(c) \in Nat /\ Len(r) \in Nat /\ Len(st) \in Nat
  BY <1>1, AppendedGoesOn DEF GoesOn
<1>3. end \in Nat /\ new \in Nat /\ end <= Len(c) + 1 /\ Layout(body, c, ts, st, js, end)
  BY <1>2
<1>4. ASSUME NEW x \in 1 .. Len(st), x # i
      PROVE  Exact(r, st[x], Limit(ts, st, x, new), body[x], js2, Len(body[x].targets))
  <2>1. Exact(c, st[x], Limit(ts, st, x, end), body[x], js, Len(body[x].targets))
    BY <1>4 DEF ExactTo
  <2>2. Len(body[x].targets) \in Nat
    OBVIOUS
  <2> HIDE DEF r, end
  <2>3. Exact(r, st[x], Limit(ts, st, x, end), body[x], js2, Len(body[x].targets))
    BY <1>2, <1>3, <2>1, <2>2, ExactStays
  <2>4. x < Len(st)
    BY <1>2, <1>4
  <2>5. Limit(ts, st, x, new) = Limit(ts, st, x, end)
    BY <2>4 DEF Limit
  <2> QED
    BY <2>3, <2>5
<1>5. Exact(r, st[i], Limit(ts, st, i, new), body[i], js2, m + 1)
  <2>1. Limit(ts, st, i, new) = new /\ Limit(ts, st, i, end) = end
    BY <1>2 DEF Limit
  <2>2. Exact(c, st[i], end, body[i], js, m)
    BY <2>1 DEF ExactTo
  <2>3. PICK a : Items(c, st[i], end, body[i], js, m, a)
    BY <2>2 DEF Exact
  <2>4. st[i] \in Nat \ {0}
    <3>1. st[i] \in Nat /\ st[i] > 1
      BY <1>2, <1>3, LayoutFacts
    <3> QED
      BY <3>1
  <2> DEFINE b   == st[i]
             ins == body[i]
  <2>5. /\ b \in Nat \ {0} /\ Items(c, b, end, ins, js, m, a) /\ Len(ins.targets) \in Nat
        /\ m < Len(ins.targets)
        /\ \E j \in js2 : j.at = Len(c) + Len(code) /\ j.to = ins.targets[m + 1]
    BY <2>3, <2>4
  <2> HIDE DEF b, ins
  <2>6. \E a2 : Items(c \o code, b, Len(c \o code) + 1, ins, js2, m + 1, a2)
    BY <2>5, ItemsGrow
  <2>7. \E a2 : Items(r, st[i], new, body[i], js2, m + 1, a2)
    BY <2>6 DEF b, ins
  <2>8. body[i].op \notin StraightOps /\ body[i].op \notin DOMAIN BranchTests
    BY OpsApart
  <2> HIDE DEF new, r
  <2> QED
    BY <2>1, <2>7, <2>8 DEF Exact
<1>6. ASSUME NEW x \in 1 .. Len(st)
      PROVE  Exact(r, st[x], Limit(ts, st, x, new), body[x], js2, IF x = i THEN m + 1 ELSE Len(body[x].targets))
  <2> HIDE DEF r, new
  <2>1. CASE x = i
    BY <1>5, <2>1
  <2>2. CASE x # i
    BY <1>4, <2>2
  <2> QED
    BY <2>1, <2>2
<1> QED
  BY <1>6 DEF ExactTo
-----------------------------------------------------------------------------
(* What the body gives for every instruction of it.                        *)
LEMMA TargetsCounted ==
  ASSUME method \in Methods
  PROVE  \A x \in 1 .. Len(Code) : Len(Code[x].targets) \in Nat
<1>1. ASSUME NEW x \in 1 .. Len(Code) PROVE Len(Code[x].targets) \in Nat
  <2>1. Code[x].targets \in Seq(Nat)
    BY CodeFacts DEF CilInstr
  <2> QED
    BY <2>1
<1> QED
  BY <1>1

(* An iteration adds an instruction's code behind the others.              *)
LEMMA BeginExact ==
  ASSUME ExactInv, phase = "body", il \in 1 .. Len(Code), NEW code \in Seq(FlatInstr),
         BeginInstruction(code), UNCHANGED <<method, jumpTargets>>, jumps \subseteq jumps',
         NEW m, \A r : \A b, e \in Nat : Reads(r, b, e, code) => Exact(r, b, e, Code[il], jumps', m)
  PROVE  ExactTo(Code', result', jumpTargets', start', jumps', Len(result') + 1, il, m)
<1>0. /\ TypeInv /\ BuiltTo(result, jumpTargets, start, nextJumpTargetIndex, jumps, il - 1)
      /\ Layout(Code, result, jumpTargets, start, jumps, Len(result) + 1)
      /\ ExactTo(Code, result, jumpTargets, start, jumps, Len(result) + 1, 0, 0)
  BY DEF ExactInv, LayoutInv, LandInv, BalanceInv
<1>1. /\ il = Len(start) + 1 /\ ClosingEnd \in Seq(WasmInstr)
      /\ (\E k \in DOMAIN jumpTargets : jumpTargets[k] = il) => Len(ClosingEnd) = 1
      /\ ~(\E k \in DOMAIN jumpTargets : jumpTargets[k] = il) => Len(ClosingEnd) = 0
  BY <1>0, ClosingLength
<1>2. /\ result \in Seq(WasmInstr) /\ start \in Seq(Nat) /\ Len(jumpTargets) \in Nat
  BY <1>0, JumpTargetFacts DEF TypeInv, TypeOK
<1>3. \A x \in 1 .. il : Len(Code[x].targets) \in Nat
  <2>1. method \in Methods /\ Len(Code) \in Nat
    BY <1>0, CodeFacts DEF TypeInv, TypeOK
  <2>2. \A x \in 1 .. il : x \in 1 .. Len(Code)
    BY <2>1
  <2> QED
    BY <2>1, <2>2, TargetsCounted
<1> DEFINE c   == result
           e   == ClosingEnd
           ts  == jumpTargets
           st  == start
           js  == jumps
           js2 == jumps'
           body == Code
           i   == il
           r   == (c \o e) \o code
<1>4. result' = r /\ start' = Append(st, Len(c) + Len(e) + 1) /\ Code' = body /\ jumpTargets' = ts
  BY DEF BeginInstruction, Code
<1>5. Exact(r, Len(c) + Len(e) + 1, Len(r) + 1, body[i], js2, m)
  <2> DEFINE d == c \o e
  <2>1. d \in Seq(WasmInstr) /\ Len(d) \in Nat /\ Len(d) = Len(c) + Len(e)
    BY <1>1, <1>2, Joined
  <2> HIDE DEF d
  <2>2. Reads(d \o code, Len(d) + 1, Len(d \o code) + 1, code)
    BY <2>1, ReadsAppended
  <2>3. d \o code \in Seq(WasmInstr)
    BY <2>1, FlatIsCode, Joined
  <2> DEFINE b == Len(d) + 1
             f == Len(d \o code) + 1
  <2>4. b \in Nat /\ f \in Nat /\ Reads(d \o code, b, f, code)
    BY <2>1, <2>2, <2>3
  <2> HIDE DEF b, f
  <2>5. Exact(d \o code, b, f, Code[il], jumps', m)
    BY <2>4
  <2> QED
    BY <2>1, <2>5 DEF b, f, d
<1>6. /\ c \in Seq(WasmInstr) /\ e \in Seq(WasmInstr) /\ Len(ts) \in Nat /\ st \in Seq(Nat)
      /\ js \subseteq js2 /\ Layout(body, c, ts, st, js, Len(c) + 1) /\ i = Len(st) + 1
      /\ (\E k \in DOMAIN ts : ts[k] = i) => Len(e) = 1
      /\ ~(\E k \in DOMAIN ts : ts[k] = i) => Len(e) = 0
      /\ \A x \in 1 .. i : Len(body[x].targets) \in Nat
      /\ ExactTo(body, c, ts, st, js, Len(c) + 1, 0, 0)
  BY <1>0, <1>1, <1>2, <1>3
<1> HIDE DEF c, e, ts, st, js, js2, body, i
<1>7. Exact((c \o e) \o code, Len(c) + Len(e) + 1, Len((c \o e) \o code) + 1, body[i], js2, m)
  BY <1>5
<1> HIDE DEF r
<1>8. ExactTo(body, (c \o e) \o code, ts, Append(st, Len(c) + Len(e) + 1), js2,
              Len((c \o e) \o code) + 1, i, m)
  BY <1>6, <1>7, ExactBegins
<1> QED
  BY <1>4, <1>8 DEF r, js2, i

(* A new branch is behind the others.                                      *)
LEMMA ApartStays ==
  ASSUME JumpsApart(jumps), NEW n, NEW c, Len(c) \in Nat,
         \A j \in jumps : HasTarget(c, n, jumpTargets, start, j),
         NEW new, new.at \in Nat, new.at > Len(c), n \in Nat
  PROVE  JumpsApart(jumps \cup {new})
<1>1. ASSUME NEW j \in jumps PROVE j.at # new.at
  <2>1. PICK k \in 1 .. n, closed \in 0 .. n : CompiledAt(c, n, start, j, k, closed)
    BY DEF HasTarget
  <2> QED
    BY <2>1 DEF CompiledAt
<1> QED
  BY <1>1 DEF JumpsApart

(* Nothing is there before the first step.                                 *)
LEMMA InitExact == Init => ExactInv
<1> SUFFICES ASSUME Init PROVE ExactInv
  OBVIOUS
<1>1. LayoutInv /\ phase = "open" /\ jumps = {}
  BY InitLays DEF Init
<1> QED
  BY <1>1 DEF ExactInv, JumpsApart

(* Every step adds the code Compile has for an instruction, or an item.    *)
LEMMA StepExact == ExactInv /\ [Compile]_compilerVars => ExactInv'
<1> SUFFICES ASSUME ExactInv, [Compile]_compilerVars PROVE ExactInv'
  OBVIOUS
<1>0. LayoutInv /\ LayoutInv' /\ LandInv /\ TypeInv /\ JumpsApart(jumps)
  BY StepLays DEF ExactInv, LayoutInv, LandInv, BalanceInv
<1>a. /\ method \in Methods /\ Len(Code) \in Nat /\ Len(jumpTargets) \in Nat
      /\ il \in 1 .. Len(Code) + 1 /\ item \in Nat
      /\ nextJumpTargetIndex \in 0 .. Len(jumpTargets)
      /\ result \in Seq(WasmInstr) /\ start \in Seq(Nat) /\ Len(result) \in Nat
      /\ \A x \in 1 .. Len(Code) : Len(Code[x].targets) \in Nat
  BY <1>0, CodeFacts, JumpTargetFacts, TargetsCounted DEF TypeInv, TypeOK
<1>b. phase = "body" => ExactTo(Code, result, jumpTargets, start, jumps, Len(result) + 1, 0, 0)
  BY DEF ExactInv
<1>c. phase = "switch" => ExactTo(Code, result, jumpTargets, start, jumps, Len(result) + 1, il, item)
  BY DEF ExactInv
<1>d. ASSUME JumpsApart(jumps'), phase' = "body",
             ExactTo(Code', result', jumpTargets', start', jumps', Len(result') + 1, 0, 0)
      PROVE  ExactInv'
  BY <1>0, <1>d DEF ExactInv
<1>e. \A new : new.at \in Nat /\ new.at > Len(result) /\ phase \in {"body", "switch"} => JumpsApart(jumps \cup {new})
  <2>1. phase \in {"body", "switch"} =>
          \A j \in jumps : HasTarget(result, Len(jumpTargets), jumpTargets, start, j)
    BY <1>0 DEF LandInv, BuiltTo, Landed
  <2> QED
    BY <1>0, <1>a, <2>1, ApartStays
<1>1. CASE OpenBlocks
  <2>1. /\ phase = "open" /\ UNCHANGED <<method, jumpTargets, start, jumps>>
        /\ jumps = {} /\ start = <<>> /\ phase' \in {"done", "body"} /\ (phase' = "done" => Code' = <<>>)
    BY <1>0, <1>1 DEF OpenBlocks, LandInv, Code
  <2>2. JumpsApart(jumps') /\ 1 .. Len(start') = {}
    BY <2>1 DEF JumpsApart
  <2>3. ExactTo(Code', result', jumpTargets', start', jumps', Len(result') + 1, 0, 0)
    BY <2>2 DEF ExactTo
  <2> QED
    BY <1>0, <2>1, <2>2, <2>3 DEF ExactInv
<1>2. CASE CompileStraightInstruction
  <2> DEFINE code == CompileStraight(Code[il])
  <2>1. /\ phase = "body" /\ phase' = "body" /\ UNCHANGED <<method, jumpTargets>> /\ jumps' = jumps
        /\ il \in 1 .. Len(Code) /\ Code[il].op \in StraightOps
        /\ BeginInstruction(code)
    BY <1>2, <1>a DEF CompileStraightInstruction, InBody
  <2>2. Code[il] \in CilInstr
    BY <1>a, <2>1, CodeFacts
  <2>3. code \in Seq(FlatInstr)
    <3>1. code \in Seq(PlainInstr(Code[il]))
      BY <2>1, <2>2, StraightPlain
    <3> QED
      BY <3>1, PlainIsQuiet DEF Quiet, Piece
  <2>4. \A r : \A b, e \in Nat : Reads(r, b, e, code) => Exact(r, b, e, Code[il], jumps', 0)
    BY <2>1, OpsApart DEF Exact
  <2> HIDE DEF code
  <2>5. ExactTo(Code', result', jumpTargets', start', jumps', Len(result') + 1, il, 0)
    BY <2>1, <2>3, <2>4, BeginExact
  <2>6. Code'[il].op # "Switch"
    BY <2>1, OpsApart DEF Code
  <2>7. ExactTo(Code', result', jumpTargets', start', jumps', Len(result') + 1, 0, 0)
    BY <2>5, <2>6, ExactDone
  <2> QED
    BY <1>0, <1>d, <2>1, <2>7
<1>3. CASE CompileBranch
  <2> DEFINE t    == Code[il].targets[1]
             code == JumpSetup(t, ClosedHere) \o BranchTests[Code[il].op]
                       \o <<WN(BranchOp(Code[il].op), BreakDepth(t, ClosedHere))>>
             j    == [at |-> Len(result) + Len(ClosingEnd) + Len(code), from |-> il, to |-> t]
  <2>1. /\ phase = "body" /\ phase' = "body" /\ UNCHANGED <<method, jumpTargets>>
        /\ il \in 1 .. Len(Code) /\ Code[il].op \in DOMAIN BranchTests
        /\ BeginInstruction(code)
        /\ jumps' = jumps \cup {j}
    BY <1>3, <1>a DEF CompileBranch, InBody
  <2>2. t \in SortedOffsets(Code)
    <3>1. Code[il].op \in Branches
      BY <2>1, OpsApart
    <3> QED
      BY <1>a, <2>1, <3>1, CodeFacts
  <2>3. ClosedHere \in 0 .. Len(jumpTargets)
    BY <1>a DEF ClosedHere, AtTarget
  <2>4. code \in Seq(FlatInstr) /\ Len(code) \in Nat \ {0}
    BY <1>0, <2>1, <2>2, <2>3, BranchIsPiece DEF Piece
  <2>5. BranchCode(code, Code[il])
    <3>1. Setup(JumpSetup(t, ClosedHere))
      <4>1. TargetIndex(t) + 1 \in Int
        BY <1>0, <2>2, JumpTargetFacts
      <4> QED
        BY <4>1 DEF Setup, JumpSetup
    <3> QED
      BY <3>1 DEF BranchCode
  <2> HIDE DEF code
  <2>6. \A r : \A b, e \in Nat : Reads(r, b, e, code) => Exact(r, b, e, Code[il], jumps', 0)
    BY <2>1, <2>5, OpsApart DEF Exact
  <2>7. j.at \in Nat /\ j.at > Len(result)
    <3>1. Len(ClosingEnd) \in Nat
      BY DEF ClosingEnd
    <3> QED
      BY <1>a, <2>4, <3>1
  <2> HIDE DEF j, t
  <2>8. JumpsApart(jumps')
    BY <1>e, <2>1, <2>7
  <2>9. ExactTo(Code', result', jumpTargets', start', jumps', Len(result') + 1, il, 0)
    <3>1. jumps \subseteq jumps'
      BY <2>1
    <3> QED
      BY <2>1, <2>4, <2>6, <3>1, BeginExact
  <2>10. Code'[il].op # "Switch"
    BY <2>1, OpsApart DEF Code
  <2>11. ExactTo(Code', result', jumpTargets', start', jumps', Len(result') + 1, 0, 0)
    BY <2>9, <2>10, ExactDone
  <2> QED
    BY <1>d, <2>1, <2>8, <2>11
<1>4. CASE BeginSwitch
  <2> DEFINE code == <<SetLocal("switchValue", 0)>>
             ins  == Code[il]
  <2>1. /\ phase = "body" /\ phase' = "switch" /\ UNCHANGED <<method, jumpTargets>> /\ jumps' = jumps
        /\ il \in 1 .. Len(Code) /\ ins.op = "Switch" /\ il' = il /\ item' = 0
        /\ BeginInstruction(code)
    BY <1>4, <1>a DEF BeginSwitch, InBody
  <2>2. code \in Seq(FlatInstr) /\ Len(code) = 1 /\ code[1] = SetLocal("switchValue", 0)
    <3>1. SetLocal("switchValue", 0) \in FlatInstr
      BY InstrTypes, EmittedOps
    <3> QED
      BY <3>1
  <2>3. Len(ins.targets) \in Nat
    BY <1>a, <2>1
  <2> HIDE DEF code, ins
  <2>4. ASSUME NEW r, NEW b \in Nat, NEW e \in Nat, Reads(r, b, e, code)
        PROVE  Exact(r, b, e, ins, jumps', 0)
    <3>1. e = b + 1 /\ r[b] = SetLocal("switchValue", 0)
      <4>1. e = b + Len(code) /\ r[b + 1 - 1] = code[1]
        BY <2>2, <2>4 DEF Reads
      <4> QED
        BY <2>2, <4>1
    <3>2. Items(r, b, e, ins, jumps', 0, [x \in 0 .. 0 |-> e])
      <4>1. \A x \in 0 .. 0 - 1 : FALSE
        OBVIOUS
      <4> QED
        BY <2>3, <3>1, <4>1 DEF Items
    <3> QED
      BY <2>1, <3>2, OpsApart DEF Exact
  <2>5. ExactTo(Code', result', jumpTargets', start', jumps', Len(result') + 1, il, 0)
    <3>1. \A r : \A b, e \in Nat : Reads(r, b, e, code) => Exact(r, b, e, Code[il], jumps', 0)
      BY <2>4 DEF ins
    <3> QED
      BY <2>1, <2>2, <3>1, BeginExact
  <2> QED
    BY <1>0, <2>1, <2>5 DEF ExactInv
<1>5. CASE CompileSwitchItem
  <2> DEFINE t    == Code[il].targets[item + 1]
             code == <<GetLocal("switchValue", 0), Const(item), W("i32.eq")>>
                       \o JumpSetup(t, nextJumpTargetIndex)
                       \o <<WN("br_if", BreakDepth(t, nextJumpTargetIndex))>>
             j    == [at |-> Len(result) + Len(code), from |-> il, to |-> t]
  <2>1. /\ phase = "switch" /\ phase' = "switch" /\ UNCHANGED <<method, jumpTargets, start, il>>
        /\ item < Len(Code[il].targets) /\ result' = result \o code /\ jumps' = jumps \cup {j}
        /\ item' = item + 1
    BY <1>5 DEF CompileSwitchItem
  <2>2. il \in 1 .. Len(Code) /\ Code[il].op = "Switch"
    BY <1>0, <2>1 DEF TypeInv, TypeOK, LayoutInv
  <2>3. il = Len(start) /\ il \in 1 .. Len(start)
    <3>1. BuiltTo(result, jumpTargets, start, nextJumpTargetIndex, jumps, il)
      BY <1>0, <2>1 DEF LandInv
    <3> QED
      BY <2>2, <3>1 DEF BuiltTo
  <2>4. t \in SortedOffsets(Code)
    <3>1. item + 1 \in 1 .. Len(Code[il].targets)
      BY <1>a, <2>1, <2>2
    <3> QED
      BY <1>a, <2>2, <3>1, CodeFacts
  <2>5. code \in Seq(FlatInstr) /\ Len(code) \in Nat \ {0}
    BY <1>0, <1>a, <2>4, ItemIsPiece DEF Piece
  <2>6. ItemCode(code, item)
    <3>1. Setup(JumpSetup(t, nextJumpTargetIndex))
      <4>1. TargetIndex(t) + 1 \in Int
        BY <1>0, <2>4, JumpTargetFacts
      <4> QED
        BY <4>1 DEF Setup, JumpSetup
    <3> QED
      BY <3>1 DEF ItemCode, Asks
  <2> HIDE DEF code
  <2>7. j.at = Len(result) + Len(code) /\ j.to = t
    OBVIOUS
  <2> HIDE DEF j
  <2>8. JumpsApart(jumps')
    <3>1. j.at \in Nat /\ j.at > Len(result)
      BY <1>a, <2>5, <2>7
    <3> QED
      BY <1>e, <2>1, <3>1
  <2> DEFINE js2 == jumps \cup {j}
  <2>9. jumps \subseteq js2 /\ j \in js2 /\ jumps' = js2
    BY <2>1
  <2> HIDE DEF js2
  <2>10. ExactTo(Code, result \o code, jumpTargets, start, js2, Len(result \o code) + 1, il, item + 1)
    <3>1. Layout(Code, result, jumpTargets, start, jumps, Len(result) + 1)
      BY <1>0, <2>1 DEF LayoutInv
    <3>2. \A x \in 1 .. il : Len(Code[x].targets) \in Nat
      <4>1. \A x \in 1 .. il : x \in 1 .. Len(Code)
        BY <1>a, <2>2
      <4> QED
        BY <1>a, <4>1
    <3>3. \E k \in js2 : k.at = Len(result) + Len(code) /\ k.to = Code[il].targets[item + 1]
      BY <2>7, <2>9
    <3>4. ExactTo(Code, result, jumpTargets, start, jumps, Len(result) + 1, il, item)
      BY <1>c, <2>1
    <3> DEFINE i  == il
               m  == item
               body == Code
    <3>5. /\ i \in 1 .. Len(start) /\ i = Len(start) /\ body[i].op = "Switch"
          /\ \A x \in 1 .. i : Len(body[x].targets) \in Nat
          /\ ExactTo(body, result, jumpTargets, start, jumps, Len(result) + 1, i, m)
          /\ m < Len(body[i].targets) /\ ItemCode(code, m)
          /\ \E k \in js2 : k.at = Len(result) + Len(code) /\ k.to = body[i].targets[m + 1]
          /\ Layout(body, result, jumpTargets, start, jumps, Len(result) + 1)
      BY <2>1, <2>2, <2>3, <2>6, <3>1, <3>2, <3>3, <3>4
    <3> HIDE DEF i, m, body
    <3>6. ExactTo(body, result \o code, jumpTargets, start, js2, Len(result \o code) + 1, i, m + 1)
      BY <1>a, <2>5, <2>9, <3>5, ExactGrows
    <3> QED
      BY <3>6 DEF i, m, body
  <2>11. ExactTo(Code', result', jumpTargets', start', jumps', Len(result') + 1, il', item')
    BY <2>1, <2>9, <2>10 DEF Code
  <2> QED
    BY <1>0, <2>1, <2>8, <2>11 DEF ExactInv
<1>6. CASE EndSwitch
  <2>1. /\ phase = "switch" /\ phase' = "body" /\ item = Len(Code[il].targets)
        /\ UNCHANGED <<method, jumpTargets, nextJumpTargetIndex, result, start, jumps>>
    BY <1>6 DEF EndSwitch
  <2>2. ExactTo(Code, result, jumpTargets, start, jumps, Len(result) + 1, 0, 0)
    BY <1>c, <2>1, ExactDone
  <2>3. ExactTo(Code', result', jumpTargets', start', jumps', Len(result') + 1, 0, 0)
    BY <2>1, <2>2 DEF Code
  <2> QED
    BY <1>0, <1>d, <2>1, <2>3
<1>7. CASE RejectInstruction
  <2>1. phase' = "failed" /\ jumps' = jumps
    BY <1>7 DEF RejectInstruction
  <2> QED
    BY <1>0, <2>1 DEF ExactInv
<1>8. CASE CloseBlocks
  <2> DEFINE d == Epilogue(Len(jumpTargets) - nextJumpTargetIndex, method.returns)
  <2>1. /\ phase = "body" /\ phase' = "done" /\ UNCHANGED <<method, jumpTargets, start, jumps>>
        /\ result' = result \o d
    BY <1>8 DEF CloseBlocks
  <2>2. /\ Len(start) = Len(Code) /\ d \in Seq(WasmInstr)
        /\ Len(result \o d) - Behind = Len(result) + 1
    BY <1>0, <1>8, EndMoves
  <2> HIDE DEF d
  <2>3. GoesOn(result, result \o d)
    BY <1>a, <2>2, AppendedGoesOn
  <2>5. /\ Layout(Code, result, jumpTargets, start, jumps, Len(result) + 1)
        /\ ExactTo(Code, result, jumpTargets, start, jumps, Len(result) + 1, 0, 0)
    BY <1>0, <1>b, <2>1 DEF LayoutInv
  <2> DEFINE end == Len(result) + 1
  <2>6. end \in Nat /\ end <= Len(result) + 1
    BY <1>a
  <2> HIDE DEF end
  <2>7. ASSUME NEW x \in 1 .. Len(start)
        PROVE  Exact(result \o d, start[x], Limit(jumpTargets, start, x, end), Code[x], jumps, Len(Code[x].targets))
    <3>1. Exact(result, start[x], Limit(jumpTargets, start, x, end), Code[x], jumps, Len(Code[x].targets))
      <4>1. x # 0
        OBVIOUS
      <4> QED
        BY <2>5, <4>1 DEF ExactTo, end
    <3>2. Len(Code[x].targets) \in Nat /\ Layout(Code, result, jumpTargets, start, jumps, end)
      BY <1>a, <2>5 DEF end
    <3> QED
      BY <1>a, <2>3, <2>6, <3>1, <3>2, ExactStays
  <2>8. ExactTo(Code, result \o d, jumpTargets, start, jumps, end, 0, 0)
    <3>1. \A x \in 1 .. Len(start) : x # 0
      OBVIOUS
    <3> QED
      BY <2>7, <3>1 DEF ExactTo
  <2>9. Behind' = Behind /\ Code' = Code
    BY <2>1 DEF Behind, Code
  <2>10. ExactTo(Code', result', jumpTargets', start', jumps', Len(result') - Behind', 0, 0)
    BY <2>1, <2>2, <2>8, <2>9 DEF end
  <2> QED
    BY <1>0, <2>1, <2>10 DEF ExactInv
<1>9. CASE UNCHANGED compilerVars
  <2>1. UNCHANGED <<method, jumpTargets, phase, il, item, result, start, jumps>>
    BY <1>9 DEF compilerVars
  <2>2. Behind' = Behind /\ Code' = Code
    BY <2>1 DEF Behind, Code
  <2> QED
    BY <1>0, <2>1, <2>2 DEF ExactInv
<1> QED
  BY <1>1, <1>2, <1>3, <1>4, <1>5, <1>6, <1>7, <1>8, <1>9 DEF Compile
-----------------------------------------------------------------------------
(* Two pieces of code and an instruction, one behind the other.            *)
Parts(code, x, y, w) == x \in Seq(FlatInstr) /\ y \in Seq(FlatInstr) /\ code = (x \o y) \o <<w>>

(* Where they are read.                                                    *)
LEMMA ReadsParts ==
  ASSUME NEW c, NEW b \in Nat, NEW e, NEW x, NEW y, NEW w,
         NEW code, Parts(code, x, y, w), Reads(c, b, e, code)
  PROVE  /\ Len(x) \in Nat /\ Len(y) \in Nat /\ e = b + Len(x) + Len(y) + 1
         /\ \A q \in 1 .. Len(x) : c[b + q - 1] = x[q]
         /\ \A q \in 1 .. Len(y) : c[b + Len(x) + q - 1] = y[q]
         /\ c[e - 1] = w
<1> DEFINE S == FlatInstr \cup {w}
           u == x \o y
           s == u \o <<w>>
<1>1. x \in Seq(S) /\ y \in Seq(S) /\ <<w>> \in Seq(S) /\ Len(<<w>>) = 1 /\ <<w>>[1] = w
  BY DEF Parts
<1> HIDE DEF S
<1>2. /\ u \in Seq(S) /\ Len(x) \in Nat /\ Len(y) \in Nat /\ Len(u) = Len(x) + Len(y)
      /\ \A q \in 1 .. Len(x) : u[q] = x[q]
      /\ \A q \in 1 .. Len(y) : u[Len(x) + q] = y[q]
  BY <1>1, Joined
<1> HIDE DEF u
<1>3. /\ Len(u) \in Nat /\ Len(s) = Len(u) + 1
      /\ \A q \in 1 .. Len(u) : s[q] = u[q]
      /\ s[Len(u) + 1] = w
  <2>1. u \in Seq(S) /\ <<w>> \in Seq(S)
    BY <1>1, <1>2
  <2>2. /\ Len(u) \in Nat /\ Len(s) = Len(u) + Len(<<w>>)
        /\ \A q \in 1 .. Len(u) : s[q] = u[q]
        /\ \A q \in 1 .. Len(<<w>>) : s[Len(u) + q] = <<w>>[q]
    BY <2>1, Joined
  <2> QED
    BY <1>1, <2>2
<1>4. e = b + Len(s) /\ \A q \in 1 .. Len(s) : c[b + q - 1] = s[q]
  BY DEF Reads, Parts, u
<1> HIDE DEF s
<1>5. \A q \in 1 .. Len(x) : c[b + q - 1] = x[q]
  <2>1. ASSUME NEW q \in 1 .. Len(x) PROVE c[b + q - 1] = x[q]
    <3>1. q \in 1 .. Len(u) /\ q \in 1 .. Len(s)
      BY <1>2, <1>3
    <3> QED
      BY <1>2, <1>3, <1>4, <3>1
  <2> QED
    BY <2>1
<1>6. \A q \in 1 .. Len(y) : c[b + Len(x) + q - 1] = y[q]
  <2>1. ASSUME NEW q \in 1 .. Len(y) PROVE c[b + Len(x) + q - 1] = y[q]
    <3>1. Len(x) + q \in 1 .. Len(u) /\ Len(x) + q \in 1 .. Len(s) /\ b + Len(x) + q - 1 = b + (Len(x) + q) - 1
      BY <1>2, <1>3
    <3> QED
      BY <1>2, <1>3, <1>4, <3>1
  <2> QED
    BY <2>1
<1>7. c[e - 1] = w
  <2>1. Len(u) + 1 \in 1 .. Len(s) /\ b + (Len(u) + 1) - 1 = e - 1
    BY <1>3, <1>4
  <2> QED
    BY <1>3, <1>4, <2>1
<1> QED
  BY <1>2, <1>3, <1>4, <1>5, <1>6, <1>7

(* The two instructions that store a target's number, if they are there.   *)
LEMMA SetupIs ==
  ASSUME NEW s, Setup(s)
  PROVE  /\ s \in Seq(FlatInstr)
         /\ Len(s) = 0 \/ (Len(s) = 2 /\ s[2] = SetLocal("jumpTarget", 0) /\ \E k \in Int : s[1] = Const(k))
<1>1. CASE s = <<>>
  BY <1>1
<1>2. CASE s # <<>>
  <2>1. PICK k \in Int : s = <<Const(k), SetLocal("jumpTarget", 0)>>
    BY <1>2 DEF Setup
  <2>2. Const(k) \in FlatInstr /\ SetLocal("jumpTarget", 0) \in FlatInstr
    BY InstrTypes, EmittedOps
  <2> QED
    BY <2>1, <2>2
<1> QED
  BY <1>1, <1>2

(* From b on: the number of the target unless the jump is forward, from z  *)
(* on the test and then the branch, right before e.                        *)
BranchLies(c, b, e, ins) ==
  LET test == BranchTests[ins.op]
      z    == e - 1 - Len(test)
  IN  /\ e \in Int /\ Len(test) \in Nat
      /\ \/ z = b
         \/ z = b + 2 /\ (\E k \in Int : c[b] = Const(k)) /\ c[b + 1] = SetLocal("jumpTarget", 0)
      /\ \A q \in 1 .. Len(test) : c[z + q - 1] = test[q]
      /\ \E d : c[e - 1] = WN(BranchOp(ins.op), d)

(* The code of a branch lies so.                                           *)
LEMMA BranchCodeLies ==
  ASSUME NEW c, NEW b \in Nat, NEW e, NEW ins, ins.op \in DOMAIN BranchTests,
         NEW s, BranchCode(s, ins), Reads(c, b, e, s)
  PROVE  BranchLies(c, b, e, ins)
<1> DEFINE test == BranchTests[ins.op]
<1>1. PICK setup, d : Setup(setup) /\ s = (setup \o test) \o <<WN(BranchOp(ins.op), d)>>
  BY DEF BranchCode
<1>2. test \in Seq(FlatInstr)
  <2>1. <<>> \in Seq(FlatInstr) /\ <<Const(1), W("i32.sub")>> \in Seq(FlatInstr)
    BY InstrTypes, EmittedOps
  <2>2. \A name \in {"i32.eq", "i32.gt_s", "i32.lt_s", "i32.le_s"} : <<W(name)>> \in Seq(FlatInstr)
    BY InstrTypes, EmittedOps
  <2>3. ins.op \in {"Br_S", "Brtrue_S"} => test = <<>>
    BY DEF BranchTests
  <2>4. ins.op = "Brfalse_S" => test = <<Const(1), W("i32.sub")>>
    BY DEF BranchTests
  <2>5. ins.op \in {"Beq_S", "Bgt_S", "Blt_S", "Ble_S"} =>
          \E name \in {"i32.eq", "i32.gt_s", "i32.lt_s", "i32.le_s"} : test = <<W(name)>>
    BY DEF BranchTests
  <2> HIDE DEF test
  <2>6. ins.op \in {"Br_S", "Brtrue_S", "Brfalse_S", "Beq_S", "Bgt_S", "Blt_S", "Ble_S"}
    BY DEF BranchTests
  <2> QED
    BY <2>1, <2>2, <2>3, <2>4, <2>5, <2>6
<1>3. /\ setup \in Seq(FlatInstr)
      /\ Len(setup) = 0 \/ (Len(setup) = 2 /\ setup[2] = SetLocal("jumpTarget", 0) /\ \E k \in Int : setup[1] = Const(k))
  BY <1>1, SetupIs
<1> HIDE DEF test
<1> DEFINE w == WN(BranchOp(ins.op), d)
<1>4. w = WN(BranchOp(ins.op), d)
  OBVIOUS
<1> HIDE DEF w
<1>5. /\ Len(test) \in Nat /\ e = b + Len(setup) + Len(test) + 1
      /\ \A q \in 1 .. Len(setup) : c[b + q - 1] = setup[q]
      /\ \A q \in 1 .. Len(test) : c[b + Len(setup) + q - 1] = test[q]
      /\ c[e - 1] = w
  <2>1. Parts(s, setup, test, w)
    BY <1>1, <1>2, <1>3, <1>4 DEF Parts
  <2> QED
    BY <2>1, ReadsParts
<1>6. e - 1 - Len(test) = b + Len(setup) /\ e \in Int /\ Len(setup) \in Nat
  BY <1>3, <1>5
<1>7. ASSUME Len(setup) = 2
      PROVE  (\E k \in Int : c[b] = Const(k)) /\ c[b + 1] = SetLocal("jumpTarget", 0)
  <2>1. c[b + 1 - 1] = setup[1] /\ c[b + 2 - 1] = setup[2]
    BY <1>5, <1>7
  <2>2. b + 1 - 1 = b /\ b + 2 - 1 = b + 1
    OBVIOUS
  <2> QED
    BY <1>3, <1>7, <2>1, <2>2
<1>8. \/ e - 1 - Len(test) = b
      \/ e - 1 - Len(test) = b + 2 /\ (\E k \in Int : c[b] = Const(k)) /\ c[b + 1] = SetLocal("jumpTarget", 0)
  <2>1. Len(setup) = 0 \/ Len(setup) = 2
    BY <1>3
  <2>2. CASE Len(setup) = 0
    <3>1. e - 1 - Len(test) = b
      BY <1>6, <2>2
    <3> QED
      BY <3>1
  <2>3. CASE Len(setup) = 2
    <3>1. e - 1 - Len(test) = b + 2
      BY <1>6, <2>3
    <3> QED
      BY <1>7, <2>3, <3>1
  <2> QED
    BY <2>1, <2>2, <2>3
<1> DEFINE z == e - 1 - Len(test)
<1>9. \A q \in 1 .. Len(test) : c[z + q - 1] = test[q]
  BY <1>5, <1>6
<1> QED
  BY <1>4, <1>5, <1>6, <1>8, <1>9 DEF BranchLies, test

(* The comparison, the number of the target and the branch of item x.      *)
ItemLies(c, b, e, x) ==
  /\ c[b] = GetLocal("switchValue", 0) /\ c[b + 1] = Const(x) /\ c[b + 2] = W("i32.eq")
  /\ \/ e = b + 4
     \/ e = b + 6 /\ (\E k \in Int : c[b + 3] = Const(k)) /\ c[b + 4] = SetLocal("jumpTarget", 0)
  /\ \E d : c[e - 1] = WN("br_if", d)

(* The code of an item lies so.                                            *)
LEMMA ItemCodeLies ==
  ASSUME NEW c, NEW b \in Nat, NEW e, NEW x \in Int, NEW s, ItemCode(s, x), Reads(c, b, e, s)
  PROVE  ItemLies(c, b, e, x)
<1>1. PICK setup, d : Setup(setup) /\ s = (Asks(x) \o setup) \o <<WN("br_if", d)>>
  BY DEF ItemCode
<1>2. /\ Asks(x) \in Seq(FlatInstr) /\ Len(Asks(x)) = 3
      /\ Asks(x)[1] = GetLocal("switchValue", 0) /\ Asks(x)[2] = Const(x) /\ Asks(x)[3] = W("i32.eq")
  <2>1. GetLocal("switchValue", 0) \in FlatInstr /\ Const(x) \in FlatInstr /\ W("i32.eq") \in FlatInstr
    BY InstrTypes, EmittedOps
  <2> QED
    BY <2>1 DEF Asks
<1>3. /\ setup \in Seq(FlatInstr)
      /\ Len(setup) = 0 \/ (Len(setup) = 2 /\ setup[2] = SetLocal("jumpTarget", 0) /\ \E k \in Int : setup[1] = Const(k))
  BY <1>1, SetupIs
<1> DEFINE w == WN("br_if", d)
           a == Asks(x)
<1>4. w = WN("br_if", d) /\ a \in Seq(FlatInstr) /\ s = (a \o setup) \o <<w>>
  BY <1>1, <1>2
<1> HIDE DEF w, a
<1>5. /\ Len(a) \in Nat /\ Len(setup) \in Nat /\ e = b + Len(a) + Len(setup) + 1
      /\ \A q \in 1 .. Len(a) : c[b + q - 1] = a[q]
      /\ \A q \in 1 .. Len(setup) : c[b + Len(a) + q - 1] = setup[q]
      /\ c[e - 1] = w
  <2>1. Parts(s, a, setup, w)
    BY <1>3, <1>4 DEF Parts
  <2> QED
    BY <2>1, ReadsParts
<1>6. Len(a) = 3 /\ c[b + 1 - 1] = a[1] /\ c[b + 2 - 1] = a[2] /\ c[b + 3 - 1] = a[3]
  BY <1>2, <1>5 DEF a
<1>7. c[b] = a[1] /\ c[b + 1] = a[2] /\ c[b + 2] = a[3]
  <2>1. b + 1 - 1 = b /\ b + 2 - 1 = b + 1 /\ b + 3 - 1 = b + 2
    OBVIOUS
  <2> QED
    BY <1>6, <2>1
<1>8. ASSUME Len(setup) = 2
      PROVE  (\E k \in Int : c[b + 3] = Const(k)) /\ c[b + 4] = SetLocal("jumpTarget", 0)
  <2>1. c[b + 3 + 1 - 1] = setup[1] /\ c[b + 3 + 2 - 1] = setup[2]
    BY <1>5, <1>6, <1>8
  <2>2. b + 3 + 1 - 1 = b + 3 /\ b + 3 + 2 - 1 = b + 4
    OBVIOUS
  <2> QED
    BY <1>3, <1>8, <2>1, <2>2
<1>9. (Len(setup) = 0 => e = b + 4) /\ (Len(setup) = 2 => e = b + 6)
  <2>1. e = b + 3 + Len(setup) + 1
    BY <1>5, <1>6
  <2>2. ASSUME Len(setup) = 0 PROVE e = b + 4
    BY <2>1, <2>2
  <2>3. ASSUME Len(setup) = 2 PROVE e = b + 6
    BY <2>1, <2>3
  <2> QED
    BY <2>2, <2>3
<1> QED
  BY <1>2, <1>3, <1>4, <1>5, <1>7, <1>8, <1>9 DEF ItemLies, a
-----------------------------------------------------------------------------
(* The code of a finished function is what Compile has for the opcodes.    *)
LEMMA CodeIs ==
  ASSUME ExactInv, Compiled, NEW i \in 1 .. Len(Code)
  PROVE  LET c == result
             b == start[i]
             e == LimitOf(i)
             ins == Code[i]
         IN  /\ ins.op \in StraightOps => Reads(c, b, e, CompileStraight(ins))
             /\ ins.op \in DOMAIN BranchTests => BranchLies(c, b, e, ins)
             /\ ins.op = "Switch" => \E a : Items(c, b, e, ins, jumps, Len(ins.targets), a)
             /\ ins.op \in Supported
<1>1. /\ ExactTo(Code, result, jumpTargets, start, jumps, BodyEnd, 0, 0)
      /\ i \in 1 .. Len(start) /\ i # 0
  BY DEF ExactInv, Compiled, BodyEnd, LayoutInv
<1>2. Exact(result, start[i], LimitOf(i), Code[i], jumps, Len(Code[i].targets))
  BY <1>1 DEF ExactTo, LimitOf
<1>3. start[i] \in Nat /\ Code[i].op \in Supported
  BY Places DEF Laid
<1>4. ASSUME Code[i].op \in DOMAIN BranchTests PROVE BranchLies(result, start[i], LimitOf(i), Code[i])
  <2>1. PICK s : BranchCode(s, Code[i]) /\ Reads(result, start[i], LimitOf(i), s)
    BY <1>2, <1>4 DEF Exact
  <2> QED
    BY <1>3, <1>4, <2>1, BranchCodeLies
<1> QED
  BY <1>2, <1>3, <1>4 DEF Exact
-----------------------------------------------------------------------------
(* The instructions the engine has come to, from its place in the code.    *)
LEMMA ReachedWhen ==
  ASSUME Compiled, NEW q \in Nat
  PROVE  /\ \A i : Covers(i, q) => ReachedFrom(q) = 1 .. i
         /\ q < HeadEnd(Len(jumpTargets)) => ReachedFrom(q) = {}
<1>1. q < HeadEnd(Len(jumpTargets)) => ReachedFrom(q) = {}
  BY ReachedIs
<1>2. ASSUME NEW i, Covers(i, q) PROVE ReachedFrom(q) = 1 .. i
  <2>1. i \in 1 .. Len(Code) /\ Len(Code) \in Nat
    BY <1>2, Places DEF Covers
  <2>2. DOMAIN Code = 1 .. Len(Code)
    BY CodeFacts DEF Compiled, LayoutInv, LandInv, BalanceInv, TypeInv, TypeOK
  <2>3. \A j \in 1 .. Len(Code) : FirstOf(j) <= q <=> j <= i
    BY <1>2, CoversOrder
  <2>4. \A j \in 1 .. Len(Code) : CodeOf(j) = FirstOf(j)
    BY DEF CodeOf, FirstOf, Origin
  <2>5. ReachedFrom(q) = {j \in 1 .. Len(Code) : j <= i}
    BY <2>2, <2>3, <2>4 DEF ReachedFrom
  <2> QED
    BY <2>1, <2>5
<1> QED
  BY <1>1, <1>2

(* Nothing of the code of the instruction at q has been executed.          *)
AtRest(q) == \A i \in 1 .. Len(Code) : Covers(i, q) => q <= start[i]

(* Whoever arrives at t's code, or at the end in front of it, is at rest.  *)
LEMMA RestsAt ==
  ASSUME Compiled, NEW t \in 1 .. Len(Code), NEW q \in Nat, FirstOf(t) <= q, q <= start[t],
         NEW r, Covers(r, q)
  PROVE  r \in 1 .. Len(Code) /\ t <= r /\ q <= start[r]
<1>1. r \in 1 .. Len(Code) /\ Len(Code) \in Nat
  BY Places DEF Covers
<1>2. t <= r
  BY CoversOrder
<1>3. CASE t = r
  BY <1>1, <1>3
<1>4. CASE t < r
  <2>1. start[t] <= FirstOf(r) /\ FirstOf(r) <= start[r] /\ start[t] \in Nat /\ start[r] \in Nat /\ FirstOf(r) \in Nat
    BY <1>1, <1>4, Places
  <2> QED
    BY <1>1, <1>2, <2>1
<1> QED
  BY <1>1, <1>2, <1>3, <1>4

(* Whoever stops in front of the code of an instruction is at rest.        *)
LEMMA StopsAtRest ==
  ASSUME Compiled, NEW q \in Nat, Stops(q)
  PROVE  AtRest(q) /\ ~InTheHead(q) /\ \E r \in 1 .. Len(Code) : Covers(r, q) /\ q <= start[r]
<1>1. PICK t \in 1 .. Len(Code) : FirstOf(t) <= q /\ q <= start[t]
  BY DEF Stops
<1>2. /\ HeadEnd(Len(jumpTargets)) \in Nat /\ HeadEnd(Len(jumpTargets)) <= FirstOf(t)
      /\ FirstOf(t) \in Nat /\ start[t] \in Nat /\ Len(Code) \in Nat /\ BodyEnd \in Nat
  BY <1>1, Places
<1>3. start[t] < BodyEnd
  <2>1. CASE t = Len(Code)
    BY <2>1, Places
  <2>2. CASE t # Len(Code)
    <3>1. Len(Code) \in 1 .. Len(Code) /\ t < Len(Code)
      BY <1>1, <1>2, <2>2
    <3>2. /\ start[t] <= FirstOf(Len(Code)) /\ FirstOf(Len(Code)) <= start[Len(Code)]
          /\ start[Len(Code)] < BodyEnd /\ FirstOf(Len(Code)) \in Nat /\ start[Len(Code)] \in Nat
      BY <1>1, <3>1, Places
    <3> QED
      BY <1>2, <3>2
  <2> QED
    BY <2>1, <2>2
<1>4. HeadEnd(Len(jumpTargets)) <= q /\ q < BodyEnd
  BY <1>1, <1>2, <1>3
<1>5. PICK r \in 1 .. Len(Code) : Covers(r, q)
  BY <1>4, SomeCovers
<1>6. AtRest(q) /\ q <= start[r]
  BY <1>1, <1>5, RestsAt DEF AtRest
<1>7. ~InTheHead(q)
  BY <1>5, HeadIsFirst DEF InTheHead
<1> QED
  BY <1>5, <1>6, <1>7
-----------------------------------------------------------------------------
(* The arguments and local variables of the CIL body, among the locals of  *)
(* the function.                                                           *)
VarSlots       == {<<"arg", i>> : i \in 0 .. 2} \cup {<<"loc", i>> : i \in 0 .. 3}
SameVars(f, g) == \A s \in VarSlots : f[s] = g[s]
Assigned(f, g, s, v) == g[s] = v /\ \A r \in VarSlots : r # s => g[r] = f[r]

Cut(S, k) == SubSeq(S, 1, Len(S) - k)
Second(S) == S[Len(S) - 1]

(* What executing v does to the operands o and the locals f.               *)
Computes(v, o, f, o2, f2) ==
  /\ v.op = "i32.add"   => o2 = Append(Cut(o, 2), Wrap(Second(o) + Last(o)))
  /\ v.op = "i32.sub"   => o2 = Append(Cut(o, 2), Wrap(Second(o) - Last(o)))
  /\ v.op = "i32.mul"   => o2 = Append(Cut(o, 2), Wrap(Second(o) * Last(o)))
  /\ v.op = "i32.rem_s" => o2 = Append(Cut(o, 2), Remainder(Second(o), Last(o))) /\ Last(o) # 0
  /\ v.op = "i32.eq"    => o2 = Append(Cut(o, 2), FromBool(Second(o) = Last(o)))
  /\ v.op = "i32.lt_s"  => o2 = Append(Cut(o, 2), FromBool(Second(o) < Last(o)))
  /\ v.op = "i32.gt_s"  => o2 = Append(Cut(o, 2), FromBool(Second(o) > Last(o)))
  /\ v.op = "i32.le_s"  => o2 = Append(Cut(o, 2), FromBool(Second(o) <= Last(o)))
  /\ v.op = "i32.const" => o2 = Append(o, v.n)
  /\ v.op = "get_local" => o2 = Append(o, f[<<v.x, v.n>>])
  /\ v.op \in {"set_local", "drop"} => o2 = Cut(o, 1)
  /\ f2 = IF v.op = "set_local" THEN [f EXCEPT ![<<v.x, v.n>>] = Last(o)] ELSE f

(* A step of the engine that computes.                                     *)
LEMMA ComputesData ==
  ASSUME ComputeData
  PROVE  Computes(At, operands, frame, operands', frame')
<1>1. /\ At.op = "i32.rem_s" => Last(operands) # 0
      /\ operands' = CASE At.op \in Binary      -> Append(Cut(operands, 2), Result2)
                       [] At.op = "i32.const"   -> Append(operands, At.n)
                       [] At.op = "get_local"   -> Append(operands, frame[<<At.x, At.n>>])
                       [] At.op \in {"set_local", "drop"} -> Cut(operands, 1)
      /\ frame' = IF At.op = "set_local" THEN [frame EXCEPT ![<<At.x, At.n>>] = Last(operands)] ELSE frame
  BY DEF ComputeData, PopN, Cut, Top, Slot
<1> DEFINE v == At
           o == operands
<1>2. /\ v.op = "i32.add"   => Result2 = Wrap(Second(o) + Last(o))
      /\ v.op = "i32.sub"   => Result2 = Wrap(Second(o) - Last(o))
      /\ v.op = "i32.mul"   => Result2 = Wrap(Second(o) * Last(o))
      /\ v.op = "i32.rem_s" => Result2 = Remainder(Second(o), Last(o))
      /\ v.op = "i32.eq"    => Result2 = FromBool(Second(o) = Last(o))
      /\ v.op = "i32.lt_s"  => Result2 = FromBool(Second(o) < Last(o))
      /\ v.op = "i32.gt_s"  => Result2 = FromBool(Second(o) > Last(o))
      /\ v.op = "i32.le_s"  => Result2 = FromBool(Second(o) <= Last(o))
  <2> HIDE DEF v
  <2>1. Under = Second(o) /\ Top = Last(o)
    BY DEF Under, Top, Second
  <2> QED
    BY <2>1 DEF Result2, v
<1>3. /\ At.op \in Binary => operands' = Append(Cut(operands, 2), Result2)
      /\ At.op = "i32.const" => operands' = Append(operands, At.n)
      /\ At.op = "get_local" => operands' = Append(operands, frame[<<At.x, At.n>>])
      /\ At.op \in {"set_local", "drop"} => operands' = Cut(operands, 1)
  <2> DEFINE r == Result2
  <2> HIDE DEF r
  <2>1. operands' = CASE At.op \in Binary      -> Append(Cut(operands, 2), r)
                       [] At.op = "i32.const"   -> Append(operands, At.n)
                       [] At.op = "get_local"   -> Append(operands, frame[<<At.x, At.n>>])
                       [] At.op \in {"set_local", "drop"} -> Cut(operands, 1)
    BY <1>1 DEF r
  <2> QED
    BY <2>1 DEF Binary, r
<1>4. \A op \in {"i32.add", "i32.sub", "i32.mul", "i32.rem_s", "i32.eq", "i32.lt_s", "i32.gt_s", "i32.le_s"} :
        op \in Binary
  BY DEF Binary
<1> HIDE DEF v, o
<1>5. v.op \in {"i32.add", "i32.sub", "i32.mul", "i32.rem_s", "i32.eq", "i32.lt_s", "i32.gt_s", "i32.le_s"}
        => operands' = Append(Cut(o, 2), Result2)
  BY <1>3, <1>4 DEF v, o
<1> QED
  BY <1>1, <1>2, <1>3, <1>5 DEF Computes, v, o

-----------------------------------------------------------------------------
(* Pushing and popping.                                                    *)
LEMMA Pushed ==
  ASSUME NEW S \in Seq(Int), NEW x \in Int
  PROVE  /\ Append(S, x) \in Seq(Int) /\ Len(Append(S, x)) = Len(S) + 1 /\ Len(S) \in Nat
         /\ Last(Append(S, x)) = x
         /\ Cut(Append(S, x), 1) = S
         /\ Len(S) >= 1 => Second(Append(S, x)) = Last(S) /\ Cut(Append(S, x), 2) = Cut(S, 1)
<1> DEFINE T == Append(S, x)
<1>1. T \in Seq(Int) /\ Len(T) = Len(S) + 1 /\ Len(S) \in Nat /\ T[Len(S) + 1] = x
      /\ \A i \in 1 .. Len(S) : T[i] = S[i]
  OBVIOUS
<1> HIDE DEF T
<1>2. Len(T) - 1 = Len(S) /\ Len(T) - 2 = Len(S) - 1
  BY <1>1
<1>3. SubSeq(T, 1, Len(S)) = S
  BY <1>1
<1>4. Len(S) >= 1 => SubSeq(T, 1, Len(S) - 1) = SubSeq(S, 1, Len(S) - 1)
  BY <1>1
<1>5. Len(S) >= 1 => Len(S) \in 1 .. Len(S)
  BY <1>1
<1> QED
  BY <1>1, <1>2, <1>3, <1>4, <1>5 DEF T, Cut, Second, Last

(* Operands, after k have been taken.                                      *)
LEMMA Popped ==
  ASSUME NEW S \in Seq(Int), NEW k \in Nat, k <= Len(S)
  PROVE  /\ Cut(S, k) \in Seq(Int) /\ Len(Cut(S, k)) = Len(S) - k /\ Len(S) \in Nat
         /\ Len(S) >= 1 => Last(S) \in Int
         /\ Len(S) >= 2 => Second(S) \in Int
<1>1. Len(S) \in Nat /\ Len(S) - k \in Nat
  OBVIOUS
<1>2. \A i \in 1 .. Len(S) : S[i] \in Int
  OBVIOUS
<1>3. SubSeq(S, 1, Len(S) - k) \in Seq(Int) /\ Len(SubSeq(S, 1, Len(S) - k)) = Len(S) - k
  BY <1>1
<1> QED
  BY <1>1, <1>2, <1>3 DEF Cut, Last, Second

(* The results are numbers.                                                *)
LEMMA Numbers ==
  /\ \A x \in Int : Wrap(x) \in Int
  /\ \A x, y \in Int : y # 0 => Remainder(x, y) \in Int
  /\ \A p : FromBool(p) \in {0, 1} /\ (FromBool(p) # 0 <=> p)
  /\ Wrap(0) = 0 /\ Wrap(-1) # 0
<1>1. Half \in Nat \ {0}
  BY HalfAssumption
<1>2. \A x \in Int : Wrap(x) \in Int
  BY <1>1 DEF Wrap
<1>3. \A x, y \in Int : y # 0 => Remainder(x, y) \in Int
  BY DEF Remainder, Abs
<1>4. \A p : FromBool(p) \in {0, 1} /\ (FromBool(p) # 0 <=> p)
  BY DEF FromBool
<1>5. Half % (2 * Half) = Half
  BY <1>1
<1>6. (Half - 1) % (2 * Half) = Half - 1
  BY <1>1
<1> QED
  BY <1>1, <1>2, <1>3, <1>4, <1>5, <1>6 DEF Wrap
-----------------------------------------------------------------------------
(* The opcodes of calls that stay within the method, as CilMachine has     *)
(* them, on arguments and local variables the function has.  Starg is that *)
(* of a static method, and a Brfalse_S goes on what a comparison gave.     *)
Ordinary(ins) ==
  /\ ins \in CilInstr
  /\ ins.op \notin {"Call", "Callvirt", "Newobj", "Ldfld", "Stfld"}
  /\ ins.op \in {"Ldarg", "Starg"} => ins.n \in 0 .. 2
  /\ ins.op \in {"Ldloc", "Stloc"} => ins.n \in 0 .. 3

(* Whether a branch is taken with S on the evaluation stack, and how many  *)
(* values it takes from there.                                             *)
IsTaken(ins, S) ==
  \/ ins.op = "Br_S"
  \/ ins.op = "Brtrue_S"  /\ Last(S) # 0
  \/ ins.op = "Brfalse_S" /\ Last(S) = 0
  \/ ins.op = "Beq_S" /\ Second(S) = Last(S)
  \/ ins.op = "Bgt_S" /\ Second(S) > Last(S)
  \/ ins.op = "Blt_S" /\ Second(S) < Last(S)
  \/ ins.op = "Ble_S" /\ Second(S) <= Last(S)

Taking(ins) == IF ins.op \in {"Brtrue_S", "Brfalse_S"} THEN 1 ELSE 2

(* What ins, if it goes on to the next instruction, does to the evaluation *)
(* stack S, and to the variables in f.                                     *)
Effect(ins, S, f, T, g) ==
  /\ ins.op \notin {"Starg", "Stloc"} => SameVars(f, g)
  /\ ins.op = "Starg"  => T = Cut(S, 1) /\ Assigned(f, g, <<"arg", ins.n>>, Last(S))
  /\ ins.op = "Stloc"  => T = Cut(S, 1) /\ Assigned(f, g, <<"loc", ins.n>>, Last(S))
  /\ ins.op = "Ldc_I4" => T = Append(S, ins.n)
  /\ ins.op = "Ldarg"  => T = Append(S, f[<<"arg", ins.n>>])
  /\ ins.op = "Ldloc"  => T = Append(S, f[<<"loc", ins.n>>])
  /\ ins.op = "Dup"    => T = Append(S, Last(S))
  /\ ins.op \in {"Pop", "CallObjectCtor"} => T = Cut(S, 1)
  /\ ins.op = "Add" => T = Append(Cut(S, 2), Wrap(Second(S) + Last(S)))
  /\ ins.op = "Sub" => T = Append(Cut(S, 2), Wrap(Second(S) - Last(S)))
  /\ ins.op = "Mul" => T = Append(Cut(S, 2), Wrap(Second(S) * Last(S)))
  /\ ins.op = "Rem" => T = Append(Cut(S, 2), Remainder(Second(S), Last(S))) /\ Last(S) # 0
  /\ ins.op = "Ceq" => T = Append(Cut(S, 2), FromBool(Second(S) = Last(S)))
  /\ ins.op = "Clt" => T = Append(Cut(S, 2), FromBool(Second(S) < Last(S)))
  /\ ins.op = "Cgt" => T = Append(Cut(S, 2), FromBool(Second(S) > Last(S)))
  /\ ins.op = "Neg" => T = Append(Cut(S, 1), Wrap(-Last(S)))
  /\ ins.op \in DOMAIN BranchTests => T = Cut(S, Taking(ins)) /\ ~IsTaken(ins, S)
  /\ ins.op = "Switch" => T = Cut(S, 1) /\ Last(S) \notin 0 .. Len(ins.targets) - 1

(* On the operands o the branch of ins, at its end, is decided as ins.     *)
Tests(ins, S, o) ==
  /\ o \in Seq(Int) /\ Len(o) >= 1
  /\ Cut(o, 1) = Cut(S, Taking(ins))
  /\ Last(o) # 0 <=> IsTaken(ins, S)

(* In front of p the code of branch ins, whose test has k instructions and *)
(* which ends right before e, has left o on S.                             *)
Testing(e, ins, k, p, S, o) ==
  /\ p < e - 1 - k => \E x \in Int : o = Append(S, x)
  /\ p = e - 1 - k => o = S
  /\ p > e - 1 - k /\ p < e - 1 => o = Append(S, 1)
  /\ p > e - 1 - k /\ p = e - 1 => Tests(ins, S, o)

(* In front of p the code of item x of a switch on v, from lo to hi, has   *)
(* left o on B.                                                            *)
Asking(lo, hi, x, p, B, v, o) ==
  /\ p = lo     => o = B
  /\ p = lo + 1 => o = Append(B, v)
  /\ p = lo + 2 => o = Append(Append(B, v), x)
  /\ p = lo + 3 \/ p = hi - 1 => o = Append(B, FromBool(v = x))
  /\ p = lo + 4 /\ hi = lo + 6 => \E k \in Int : o = Append(Append(B, FromBool(v = x)), k)

(* Item x is the first that may be that of the value v.                    *)
Choosing(c, b, e, ins, js, p, S, o) ==
  \E a : /\ Items(c, b, e, ins, js, Len(ins.targets), a)
         /\ \E x \in 0 .. Len(ins.targets) - 1 :
              /\ a[x] <= p /\ p < a[x + 1]
              /\ Last(S) \notin 0 .. x - 1
              /\ Asking(a[x], a[x + 1], x, p, Cut(S, 1), Last(S), o)

(* In front of p the code of ins, from b to e, has made of the evaluation  *)
(* stack S the operands o and the locals f.                                *)
Works(c, b, e, ins, js, p, S, o, f) ==
  /\ p = b => o = S
  /\ p > b =>
       /\ ins.op = "Dup" => /\ f[<<"dupTemp", 0>>] = Last(S)
                            /\ p = b + 1 => o = Cut(S, 1)
                            /\ p = b + 2 => o = S
       /\ ins.op = "Neg" => o = Append(S, -1)
       /\ ins.op \in DOMAIN BranchTests => Testing(e, ins, Len(BranchTests[ins.op]), p, S, o)
       /\ ins.op = "Switch" =>
            f[<<"switchValue", 0>>] = Last(S) /\ Choosing(c, b, e, ins, js, p, S, o)

(* After v at p: within the code of ins, or through with it.               *)
GoesOnWith(c, b, e, ins, js, p, S, f, o2, f2) ==
  /\ o2 \in Seq(Int) /\ f2 \in [Slots -> Int]
  /\ p + 1 = e => Effect(ins, S, f, o2, f2)
  /\ p + 1 < e => Works(c, b, e, ins, js, p + 1, S, o2, f2) /\ SameVars(f, f2)
-----------------------------------------------------------------------------
(* The locals the instructions name.                                       *)
LEMMA SlotsNamed ==
  /\ \A i \in 0 .. 2 : <<"arg", i>> \in Slots /\ <<"arg", i>> \in VarSlots
  /\ \A i \in 0 .. 3 : <<"loc", i>> \in Slots /\ <<"loc", i>> \in VarSlots
  /\ \A x \in {"dupTemp", "switchValue", "jumpTarget"} : <<x, 0>> \in Slots /\ <<x, 0>> \notin VarSlots
  /\ VarSlots \subseteq Slots
  /\ <<"dupTemp", 0>> # <<"jumpTarget", 0>> /\ <<"switchValue", 0>> # <<"jumpTarget", 0>>
<1> QED
  BY DEF Slots, VarSlots

(* Pushing a constant.                                                     *)
LEMMA ComputesConst ==
  ASSUME NEW k \in Int, NEW o \in Seq(Int), NEW f, NEW o2, NEW f2, Computes(Const(k), o, f, o2, f2)
  PROVE  o2 = Append(o, k) /\ o2 \in Seq(Int) /\ f2 = f
<1>1. Const(k).op = "i32.const" /\ Const(k).n = k
  BY DEF Const, WN
<1>2. o2 = Append(o, k) /\ f2 = f
  BY <1>1 DEF Computes
<1> QED
  BY <1>2, Pushed

(* Pushing a local.                                                        *)
LEMMA ComputesGet ==
  ASSUME NEW x, NEW k, <<x, k>> \in Slots, NEW o \in Seq(Int), NEW f, f \in [Slots -> Int], NEW o2, NEW f2,
         Computes(GetLocal(x, k), o, f, o2, f2)
  PROVE  o2 = Append(o, f[<<x, k>>]) /\ o2 \in Seq(Int) /\ f2 = f
<1> DEFINE v == GetLocal(x, k)
<1>1. v.op = "get_local" /\ v.n = k /\ v.x = x
  BY DEF GetLocal
<1>2. o2 = Append(o, f[<<x, k>>]) /\ f2 = f
  BY <1>1 DEF Computes
<1>3. f[<<x, k>>] \in Int
  OBVIOUS
<1> QED
  BY <1>2, <1>3, Pushed

(* Local s gets the value y.                                               *)
SetTo(f, g, s, y) == g \in [Slots -> Int] /\ g[s] = y /\ \A r \in Slots : r # s => g[r] = f[r]

(* Popping into a local.                                                   *)
LEMMA ComputesSet ==
  ASSUME NEW x, NEW k, <<x, k>> \in Slots, NEW o \in Seq(Int), Len(o) >= 1,
         NEW f, f \in [Slots -> Int], NEW o2, NEW f2,
         Computes(SetLocal(x, k), o, f, o2, f2)
  PROVE  o2 = Cut(o, 1) /\ o2 \in Seq(Int) /\ SetTo(f, f2, <<x, k>>, Last(o))
<1> DEFINE v == SetLocal(x, k)
           s == <<x, k>>
           y == Last(o)
<1>1. v.op = "set_local" /\ v.n = k /\ v.x = x
  BY DEF SetLocal
<1>2. o2 = Cut(o, 1) /\ f2 = [f EXCEPT ![s] = y]
  BY <1>1 DEF Computes
<1>3. o2 \in Seq(Int) /\ y \in Int
  BY <1>2, Popped
<1>4. s \in Slots
  OBVIOUS
<1> HIDE DEF s, y
<1>5. f2 \in [Slots -> Int] /\ f2[s] = y /\ \A r \in Slots : r # s => f2[r] = f[r]
  BY <1>2, <1>3, <1>4
<1> QED
  BY <1>2, <1>3, <1>5 DEF SetTo, s, y

(* The operations on two values.                                           *)
LEMMA ComputesTwo ==
  ASSUME NEW v, NEW o \in Seq(Int), NEW f, NEW o2, NEW f2, Computes(v, o, f, o2, f2),
         v.op \in Binary, Len(o) >= 2
  PROVE  o2 \in Seq(Int) /\ f2 = f
<1>1. Second(o) \in Int /\ Last(o) \in Int /\ Cut(o, 2) \in Seq(Int)
  BY Popped
<1>2. \E y \in Int : o2 = Append(Cut(o, 2), y)
  <2>1. Wrap(Second(o) + Last(o)) \in Int /\ Wrap(Second(o) - Last(o)) \in Int /\ Wrap(Second(o) * Last(o)) \in Int
    <3>1. \A x, y \in Int : x + y \in Int /\ x - y \in Int /\ x * y \in Int
      OBVIOUS
    <3> QED
      BY <1>1, <3>1, Numbers
  <2>2. Last(o) # 0 => Remainder(Second(o), Last(o)) \in Int
    BY <1>1, Numbers
  <2>3. \A p : FromBool(p) \in Int
    BY DEF FromBool
  <2> QED
    BY <2>1, <2>2, <2>3 DEF Computes, Binary
<1>3. o2 \in Seq(Int)
  BY <1>1, <1>2, Pushed
<1>4. v.op # "set_local"
  BY DEF Binary
<1> QED
  BY <1>3, <1>4 DEF Computes

(* A code of one instruction.                                              *)
LEMMA ReadsOne ==
  ASSUME NEW c, NEW b \in Nat, NEW e, NEW v, Reads(c, b, e, <<v>>)
  PROVE  e = b + 1 /\ c[b] = v
<1>1. Len(<<v>>) = 1 /\ <<v>>[1] = v /\ b + 1 - 1 = b
  OBVIOUS
<1>2. 1 \in 1 .. Len(<<v>>)
  BY <1>1
<1> QED
  BY <1>1, <1>2 DEF Reads
-----------------------------------------------------------------------------
(* The code of an opcode that does not branch, executed.                   *)
LEMMA StraightWorks ==
  ASSUME NEW c, NEW b \in Nat, NEW e \in Nat, NEW ins, Ordinary(ins), ins.op \in StraightOps \ {"Ret"},
         Reads(c, b, e, CompileStraight(ins)), NEW js, NEW p \in Nat, b <= p, p < e,
         NEW S \in Seq(Int), Len(S) >= CilTakes(ins), NEW o \in Seq(Int), NEW f \in [Slots -> Int],
         Works(c, b, e, ins, js, p, S, o, f), NEW o2, NEW f2, Computes(c[p], o, f, o2, f2)
  PROVE  GoesOnWith(c, b, e, ins, js, p, S, f, o2, f2)
<1>1. ins.n \in Int /\ Len(S) \in Nat
  BY DEF Ordinary, CilInstr
<1>2. ASSUME NEW v, CompileStraight(ins) = <<v>>
      PROVE  p = b /\ p + 1 = e /\ o = S /\ c[p] = v
  <2>1. e = b + 1 /\ c[b] = v
    BY <1>2, ReadsOne
  <2>2. p = b
    BY <2>1
  <2> QED
    BY <2>1, <2>2 DEF Works
<1>3. SameVars(f, f)
  BY DEF SameVars
<1>4. CASE ins.op \in {"Add", "Sub", "Mul", "Rem", "Ceq", "Clt", "Cgt"}
  <2> DEFINE v == W(SimpleOps[ins.op])
  <2>1. CompileStraight(ins) = <<v>>
    BY <1>4 DEF CompileStraight, SimpleOps
  <2>2. v.op \in Binary /\ Len(S) >= 2
    BY <1>4 DEF W, SimpleOps, Binary, CilTakes
  <2>3. /\ ins.op = "Add" => v.op = "i32.add"
        /\ ins.op = "Sub" => v.op = "i32.sub"
        /\ ins.op = "Mul" => v.op = "i32.mul"
        /\ ins.op = "Rem" => v.op = "i32.rem_s"
        /\ ins.op = "Ceq" => v.op = "i32.eq"
        /\ ins.op = "Clt" => v.op = "i32.lt_s"
        /\ ins.op = "Cgt" => v.op = "i32.gt_s"
    BY DEF W, SimpleOps
  <2> HIDE DEF v
  <2>4. p + 1 = e /\ o = S /\ c[p] = v
    BY <1>2, <2>1
  <2>5. o2 \in Seq(Int) /\ f2 = f
    BY <2>2, <2>4, ComputesTwo
  <2>6. Effect(ins, S, f, o2, f2)
    <3>1. Computes(v, S, f, o2, f2)
      BY <2>4
    <3>2. ins.op \notin DOMAIN BranchTests
      BY <1>4 DEF BranchTests
    <3> QED
      BY <1>3, <1>4, <2>3, <2>5, <3>1, <3>2 DEF Effect, Computes
  <2> QED
    BY <2>4, <2>5, <2>6 DEF GoesOnWith
<1>5. CASE ins.op \in {"Pop", "CallObjectCtor"}
  <2> DEFINE v == W("drop")
  <2>1. CompileStraight(ins) = <<v>>
    BY <1>5 DEF CompileStraight, SimpleOps
  <2>2. v.op = "drop" /\ Len(S) >= 1
    BY <1>5 DEF W, CilTakes
  <2> HIDE DEF v
  <2>4. p + 1 = e /\ o = S /\ c[p] = v
    BY <1>2, <2>1
  <2>5. o2 = Cut(S, 1) /\ f2 = f
    BY <2>2, <2>4 DEF Computes
  <2>6. o2 \in Seq(Int)
    BY <2>2, <2>5, Popped
  <2>7. Effect(ins, S, f, o2, f2)
    <3>2. ins.op \notin DOMAIN BranchTests
      BY <1>5 DEF BranchTests
    <3> QED
      BY <1>3, <1>5, <2>5, <3>2 DEF Effect
  <2> QED
    BY <2>4, <2>5, <2>6, <2>7 DEF GoesOnWith
<1>6. CASE ins.op = "Ldc_I4"
  <2>1. CompileStraight(ins) = <<Const(ins.n)>>
    BY <1>6 DEF CompileStraight, SimpleOps
  <2>4. p + 1 = e /\ o = S /\ c[p] = Const(ins.n)
    BY <1>2, <2>1
  <2>5. o2 = Append(S, ins.n) /\ o2 \in Seq(Int) /\ f2 = f
    <3>1. Computes(Const(ins.n), S, f, o2, f2)
      BY <2>4
    <3> QED
      BY <1>1, <3>1, ComputesConst
  <2>7. Effect(ins, S, f, o2, f2)
    BY <1>3, <1>6, <2>5 DEF Effect, BranchTests
  <2> QED
    BY <2>4, <2>5, <2>7 DEF GoesOnWith
<1>7. CASE ins.op \in {"Ldarg", "Ldloc"}
  <2>1. PICK x \in {"arg", "loc"} : /\ CompileStraight(ins) = <<GetLocal(x, ins.n)>>
                                    /\ x = IF ins.op = "Ldarg" THEN "arg" ELSE "loc"
    BY <1>7 DEF CompileStraight, SimpleOps
  <2>2. <<x, ins.n>> \in Slots
    BY <1>7, <2>1, SlotsNamed DEF Ordinary
  <2>4. p + 1 = e /\ o = S /\ c[p] = GetLocal(x, ins.n)
    BY <1>2, <2>1
  <2>5. o2 = Append(S, f[<<x, ins.n>>]) /\ o2 \in Seq(Int) /\ f2 = f
    <3>1. Computes(GetLocal(x, ins.n), S, f, o2, f2)
      BY <2>4
    <3> QED
      BY <2>2, <3>1, ComputesGet
  <2>7. Effect(ins, S, f, o2, f2)
    BY <1>3, <1>7, <2>1, <2>5 DEF Effect, BranchTests
  <2> QED
    BY <2>4, <2>5, <2>7 DEF GoesOnWith
<1>8. CASE ins.op \in {"Starg", "Stloc"}
  <2>1. PICK x \in {"arg", "loc"} : /\ CompileStraight(ins) = <<SetLocal(x, ins.n)>>
                                    /\ x = IF ins.op = "Starg" THEN "arg" ELSE "loc"
    BY <1>8 DEF CompileStraight, SimpleOps
  <2>2. <<x, ins.n>> \in Slots /\ Len(S) >= 1
    BY <1>8, <2>1, SlotsNamed DEF Ordinary, CilTakes
  <2>4. p + 1 = e /\ o = S /\ c[p] = SetLocal(x, ins.n)
    BY <1>2, <2>1
  <2>5. o2 = Cut(S, 1) /\ o2 \in Seq(Int) /\ SetTo(f, f2, <<x, ins.n>>, Last(S))
    <3>1. Computes(SetLocal(x, ins.n), S, f, o2, f2)
      BY <2>4
    <3>2. <<x, ins.n>> \in Slots
      BY <2>2
    <3>3. Len(S) >= 1
      BY <2>2
    <3> QED
      BY <3>1, <3>2, <3>3, ComputesSet
  <2>6. Assigned(f, f2, <<x, ins.n>>, Last(S))
    BY <2>5, SlotsNamed DEF Assigned, SetTo
  <2>7. Effect(ins, S, f, o2, f2)
    BY <1>8, <2>1, <2>5, <2>6 DEF Effect, BranchTests
  <2> QED
    BY <2>4, <2>5, <2>7 DEF GoesOnWith, SetTo
<1>9. CASE ins.op = "Dup"
  <2> DEFINE s == <<"dupTemp", 0>>
             code == CompileStraight(ins)
  <2>1. code = <<SetLocal("dupTemp", 0), GetLocal("dupTemp", 0), GetLocal("dupTemp", 0)>>
    BY <1>9 DEF CompileStraight, SimpleOps
  <2>2. Len(code) = 3 /\ code[1] = SetLocal("dupTemp", 0) /\ code[2] = GetLocal("dupTemp", 0)
        /\ code[3] = GetLocal("dupTemp", 0)
    BY <2>1
  <2> HIDE DEF code
  <2>3. e = b + Len(code) /\ \A q \in 1 .. Len(code) : c[b + q - 1] = code[q]
    BY DEF Reads, code
  <2>4. c[b + 1 - 1] = SetLocal("dupTemp", 0) /\ c[b + 2 - 1] = GetLocal("dupTemp", 0)
        /\ c[b + 3 - 1] = GetLocal("dupTemp", 0)
    BY <2>2, <2>3
  <2>5. c[b] = SetLocal("dupTemp", 0) /\ c[b + 1] = GetLocal("dupTemp", 0) /\ c[b + 2] = GetLocal("dupTemp", 0)
    <3>1. b + 1 - 1 = b /\ b + 2 - 1 = b + 1 /\ b + 3 - 1 = b + 2
      OBVIOUS
    <3> QED
      BY <2>4, <3>1
  <2>6. e = b + 3 /\ Len(S) >= 1
    BY <1>9, <2>2, <2>3 DEF CilTakes
  <2>7. s \in Slots /\ s \notin VarSlots /\ VarSlots \subseteq Slots
    BY SlotsNamed
  <2>8. p = b \/ p = b + 1 \/ p = b + 2
    BY <2>6
  <2>9. Last(S) \in Int /\ Cut(S, 1) \in Seq(Int)
    BY <2>6, Popped
  <2>10. CASE p = b
    <3>1. o = S /\ p + 1 # e /\ ~(b + 1 = b + 2)
      BY <2>6, <2>10 DEF Works
    <3>2. o2 = Cut(S, 1) /\ o2 \in Seq(Int) /\ SetTo(f, f2, s, Last(S))
      <4>1. Computes(SetLocal("dupTemp", 0), S, f, o2, f2)
        BY <2>5, <2>10, <3>1
      <4>2. s \in Slots
        BY <2>7
      <4>3. Len(S) >= 1
        BY <2>6
      <4> QED
        BY <4>1, <4>2, <4>3, ComputesSet
    <3>3. SameVars(f, f2)
      BY <2>7, <3>2 DEF SameVars, SetTo
    <3>4. Works(c, b, e, ins, js, p + 1, S, o2, f2)
      BY <1>9, <2>10, <3>1, <3>2 DEF Works, BranchTests, SetTo
    <3> QED
      BY <3>1, <3>2, <3>3, <3>4 DEF GoesOnWith, SetTo
  <2>11. CASE p = b + 1
    <3>1. o = Cut(S, 1) /\ f[s] = Last(S) /\ p + 1 = b + 2 /\ p + 1 # e /\ b + 2 # b /\ b + 2 # b + 1
      BY <1>9, <2>6, <2>11 DEF Works
    <3>2. o2 = Append(Cut(S, 1), Last(S)) /\ o2 \in Seq(Int) /\ f2 = f
      <4>1. Computes(GetLocal("dupTemp", 0), o, f, o2, f2)
        BY <2>5, <2>11
      <4>2. o2 = Append(o, f[<<"dupTemp", 0>>]) /\ o2 \in Seq(Int) /\ f2 = f
        BY <2>7, <4>1, ComputesGet
      <4> QED
        BY <3>1, <4>2
    <3>3. o2 = S
      <4>1. Append(SubSeq(S, 1, Len(S) - 1), S[Len(S)]) = S
        BY <2>6
      <4> QED
        BY <3>2, <4>1 DEF Cut, Last
    <3>4. Works(c, b, e, ins, js, p + 1, S, o2, f2)
      BY <1>9, <3>1, <3>2, <3>3 DEF Works, BranchTests
    <3> QED
      BY <1>3, <3>1, <3>2, <3>4 DEF GoesOnWith
  <2>12. CASE p = b + 2
    <3>1. o = S /\ f[s] = Last(S) /\ p + 1 = e
      BY <1>9, <2>6, <2>12 DEF Works
    <3>2. o2 = Append(S, Last(S)) /\ o2 \in Seq(Int) /\ f2 = f
      <4>1. Computes(GetLocal("dupTemp", 0), o, f, o2, f2)
        BY <2>5, <2>12
      <4> QED
        BY <2>7, <3>1, <4>1, ComputesGet
    <3>3. Effect(ins, S, f, o2, f2)
      BY <1>3, <1>9, <3>2 DEF Effect, BranchTests
    <3> QED
      BY <3>1, <3>2, <3>3 DEF GoesOnWith
  <2> QED
    BY <2>8, <2>10, <2>11, <2>12
<1>10. CASE ins.op = "Neg"
  <2> DEFINE code == CompileStraight(ins)
             w == W("i32.mul")
  <2>1. code = <<Const(-1), w>>
    BY <1>10 DEF CompileStraight, SimpleOps
  <2>2. Len(code) = 2 /\ code[1] = Const(-1) /\ code[2] = w
    BY <2>1
  <2>a. w.op = "i32.mul" /\ w.op \in Binary
    BY DEF W, Binary
  <2> HIDE DEF code, w
  <2>3. e = b + Len(code) /\ \A q \in 1 .. Len(code) : c[b + q - 1] = code[q]
    BY DEF Reads, code
  <2>4. c[b + 1 - 1] = Const(-1) /\ c[b + 2 - 1] = w
    BY <2>2, <2>3
  <2>5. c[b] = Const(-1) /\ c[b + 1] = w
    <3>1. b + 1 - 1 = b /\ b + 2 - 1 = b + 1
      OBVIOUS
    <3> QED
      BY <2>4, <3>1
  <2>6. e = b + 2 /\ Len(S) >= 1
    BY <1>10, <2>2, <2>3 DEF CilTakes
  <2>7. Last(S) \in Int /\ -1 \in Int
    BY <2>6, Popped
  <2>8. p = b \/ p = b + 1
    BY <2>6
  <2>9. CASE p = b
    <3>1. o = S /\ p + 1 # e /\ b + 1 # b
      BY <2>6, <2>9 DEF Works
    <3>2. o2 = Append(S, -1) /\ o2 \in Seq(Int) /\ f2 = f
      <4>1. Computes(Const(-1), S, f, o2, f2)
        BY <2>5, <2>9, <3>1
      <4> QED
        BY <2>7, <4>1, ComputesConst
    <3>4. Works(c, b, e, ins, js, p + 1, S, o2, f2)
      BY <1>10, <2>9, <3>1, <3>2 DEF Works, BranchTests
    <3> QED
      BY <1>3, <3>1, <3>2, <3>4 DEF GoesOnWith
  <2>10. CASE p = b + 1
    <3>1. o = Append(S, -1) /\ p + 1 = e
      BY <1>10, <2>6, <2>10 DEF Works
    <3>2. Last(o) = -1 /\ Second(o) = Last(S) /\ Cut(o, 2) = Cut(S, 1) /\ Len(o) >= 2
      BY <1>1, <2>6, <2>7, <3>1, Pushed
    <3>3. Computes(w, o, f, o2, f2)
      BY <2>5, <2>10
    <3>4. o2 \in Seq(Int) /\ f2 = f
      BY <2>a, <3>2, <3>3, ComputesTwo
    <3>5. o2 = Append(Cut(S, 1), Wrap(Last(S) * (-1)))
      BY <2>a, <3>2, <3>3 DEF Computes
    <3>6. Last(S) * (-1) = -Last(S)
      BY <2>7
    <3>7. Effect(ins, S, f, o2, f2)
      BY <1>3, <1>10, <3>4, <3>5, <3>6 DEF Effect, BranchTests
    <3> QED
      BY <3>1, <3>4, <3>7 DEF GoesOnWith
  <2> QED
    BY <2>8, <2>9, <2>10
<1>11. CASE ins.op = "Nop"
  <2>1. Len(CompileStraight(ins)) = 0
    BY <1>11 DEF CompileStraight, SimpleOps
  <2> QED
    BY <2>1 DEF Reads
<1> QED
  BY <1>4, <1>5, <1>6, <1>7, <1>8, <1>9, <1>10, <1>11 DEF StraightOps, SimpleOps, Ordinary
-----------------------------------------------------------------------------
(* The tests in front of the branches.                                     *)
LEMMA TestsAre ==
  ASSUME NEW ins, ins.op \in DOMAIN BranchTests, NEW test, test = BranchTests[ins.op]
  PROVE  \/ ins.op \in {"Br_S", "Brtrue_S"} /\ Len(test) = 0
         \/ ins.op = "Brfalse_S" /\ Len(test) = 2 /\ test[1] = Const(1) /\ test[2] = W("i32.sub")
         \/ ins.op = "Beq_S" /\ Len(test) = 1 /\ test[1] = W("i32.eq")
         \/ ins.op = "Bgt_S" /\ Len(test) = 1 /\ test[1] = W("i32.gt_s")
         \/ ins.op = "Blt_S" /\ Len(test) = 1 /\ test[1] = W("i32.lt_s")
         \/ ins.op = "Ble_S" /\ Len(test) = 1 /\ test[1] = W("i32.le_s")
<1>1. ins.op \in {"Br_S", "Brtrue_S", "Brfalse_S", "Beq_S", "Bgt_S", "Blt_S", "Ble_S"}
  BY DEF BranchTests
<1>2. ins.op \in {"Br_S", "Brtrue_S"} => test = <<>>
  BY DEF BranchTests
<1>3. ins.op = "Brfalse_S" => test = <<Const(1), W("i32.sub")>>
  BY DEF BranchTests
<1>4. /\ ins.op = "Beq_S" => test = <<W("i32.eq")>>
      /\ ins.op = "Bgt_S" => test = <<W("i32.gt_s")>>
      /\ ins.op = "Blt_S" => test = <<W("i32.lt_s")>>
      /\ ins.op = "Ble_S" => test = <<W("i32.le_s")>>
  BY DEF BranchTests
<1>5. \A v : Len(<<v>>) = 1 /\ <<v>>[1] = v
  OBVIOUS
<1>6. \A v, w : Len(<<v, w>>) = 2 /\ <<v, w>>[1] = v /\ <<v, w>>[2] = w
  OBVIOUS
<1>7. Len(<<>>) = 0
  OBVIOUS
<1>8. CASE ins.op \in {"Br_S", "Brtrue_S"}
  BY <1>2, <1>7, <1>8
<1>9. CASE ins.op = "Brfalse_S"
  <2>1. test = <<Const(1), W("i32.sub")>>
    BY <1>3, <1>9
  <2> QED
    BY <1>6, <1>9, <2>1
<1>10. CASE ins.op \in {"Beq_S", "Bgt_S", "Blt_S", "Ble_S"}
  BY <1>4, <1>5, <1>10
<1> QED
  BY <1>1, <1>8, <1>9, <1>10

(* What a branch takes from the stack is there.                            *)
LEMMA TakingIs ==
  ASSUME NEW ins, ins.op \in DOMAIN BranchTests, NEW n \in Nat, n >= CilTakes(ins)
  PROVE  /\ ins.op = "Br_S" \/ (n >= Taking(ins) /\ Taking(ins) \in {1, 2} /\ CilTakes(ins) = Taking(ins))
         /\ ins.op \in {"Brtrue_S", "Brfalse_S"} => Taking(ins) = 1
         /\ ins.op \in {"Beq_S", "Bgt_S", "Blt_S", "Ble_S"} => Taking(ins) = 2
         /\ ins.op = "Br_S" => CilTakes(ins) = 0
<1> QED
  BY DEF BranchTests, CilTakes, Taking

(* At the branch it is decided.                                            *)
LEMMA BranchDecided ==
  ASSUME NEW c, NEW b \in Nat, NEW e \in Nat, NEW ins, ins.op \in DOMAIN BranchTests,
         BranchLies(c, b, e, ins), NEW js, NEW p \in Nat, b <= p, p = e - 1,
         NEW S \in Seq(Int), Len(S) >= CilTakes(ins), NEW o \in Seq(Int), NEW f,
         Works(c, b, e, ins, js, p, S, o, f)
  PROVE  /\ ins.op = "Br_S" => o = S
         /\ ins.op # "Br_S" => Tests(ins, S, o)
         /\ c[p].op = BranchOp(ins.op)
<1> DEFINE test == BranchTests[ins.op]
           k == Len(test)
<1>0. k \in Nat /\ (e - 1 - k = b \/ e - 1 - k = b + 2) /\ c[p].op = BranchOp(ins.op)
  <2>1. k \in Nat /\ (e - 1 - k = b \/ e - 1 - k = b + 2) /\ \E d : c[p] = WN(BranchOp(ins.op), d)
    BY DEF BranchLies
  <2>2. \A op, d : WN(op, d).op = op
    BY DEF WN
  <2> QED
    BY <2>1, <2>2
<1>2. /\ ins.op \in {"Br_S", "Brtrue_S"} <=> k = 0
      /\ ins.op \in {"Br_S", "Brtrue_S", "Brfalse_S", "Beq_S", "Bgt_S", "Blt_S", "Ble_S"}
  <2> HIDE DEF test
  <2>1. test = BranchTests[ins.op]
    BY DEF test
  <2> QED
    BY <2>1, TestsAre
<1>3. p > b => Testing(e, ins, k, p, S, o)
  BY DEF Works
<1> HIDE DEF test, k
<1> DEFINE z == e - 1 - k
<1>1. k \in Nat /\ (z = b \/ z = b + 2) /\ c[p].op = BranchOp(ins.op)
  BY <1>0
<1>4. CASE k = 0
  <2>1. z = p
    BY <1>4
  <2>2. o = S
    <3>1. CASE p = b
      BY <3>1 DEF Works
    <3>2. CASE p > b
      BY <1>3, <2>1, <3>2 DEF Testing
    <3> QED
      BY <3>1, <3>2
  <2>3. ins.op = "Brtrue_S" => Tests(ins, S, o)
    <3>1. Len(S) \in Nat
      OBVIOUS
    <3>2. ins.op = "Brtrue_S" => Len(S) >= 1 /\ Taking(ins) = 1
      BY <3>1, TakingIs
    <3>3. ins.op = "Brtrue_S" => (IsTaken(ins, S) <=> Last(S) # 0)
      BY DEF IsTaken
    <3> QED
      BY <2>2, <3>2, <3>3 DEF Tests
  <2> QED
    BY <1>1, <1>2, <1>4, <2>2, <2>3
<1>5. CASE k # 0
  <2>1. p > z /\ p > b
    BY <1>1, <1>5
  <2>2. Tests(ins, S, o)
    BY <1>3, <2>1 DEF Testing
  <2> QED
    BY <1>1, <1>2, <1>5, <2>2
<1> QED
  BY <1>4, <1>5

(* In front of the branch: the number of the target, then the test.        *)
LEMMA BranchWorks ==
  ASSUME NEW c, NEW b \in Nat, NEW e \in Nat, NEW ins, ins.op \in DOMAIN BranchTests,
         BranchLies(c, b, e, ins), NEW js, NEW p \in Nat, b <= p, p < e - 1,
         NEW S \in Seq(Int), Len(S) >= CilTakes(ins), ins.op = "Brfalse_S" => Last(S) \in {0, 1},
         NEW o \in Seq(Int), NEW f \in [Slots -> Int],
         Works(c, b, e, ins, js, p, S, o, f), NEW o2, NEW f2, Computes(c[p], o, f, o2, f2)
  PROVE  GoesOnWith(c, b, e, ins, js, p, S, f, o2, f2)
<1> DEFINE test == BranchTests[ins.op]
           k == Len(test)
<1>0. /\ k \in Nat
      /\ \/ e - 1 - k = b
         \/ e - 1 - k = b + 2 /\ (\E x \in Int : c[b] = Const(x)) /\ c[b + 1] = SetLocal("jumpTarget", 0)
      /\ \A q \in 1 .. k : c[e - 1 - k + q - 1] = test[q]
  BY DEF BranchLies
<1>3. p > b => Testing(e, ins, k, p, S, o)
  BY DEF Works
<1>a. ASSUME Testing(e, ins, k, p + 1, S, o2), o2 \in Seq(Int), f2 \in [Slots -> Int], SameVars(f, f2)
      PROVE  GoesOnWith(c, b, e, ins, js, p, S, f, o2, f2)
  <2>1. p + 1 < e /\ p + 1 > b /\ p + 1 # e /\ p + 1 # b
    OBVIOUS
  <2>2. ins.op \notin {"Dup", "Neg", "Switch"}
    BY DEF BranchTests
  <2>3. Works(c, b, e, ins, js, p + 1, S, o2, f2)
    BY <1>a, <2>1, <2>2 DEF Works
  <2> QED
    BY <1>a, <2>1, <2>3 DEF GoesOnWith
<1> HIDE DEF test
<1>b. test = BranchTests[ins.op] /\ k = Len(test)
  BY DEF test
<1> HIDE DEF k
<1>c. \/ ins.op \in {"Br_S", "Brtrue_S"} /\ k = 0
      \/ ins.op = "Brfalse_S" /\ k = 2 /\ test[1] = Const(1) /\ test[2] = W("i32.sub")
      \/ ins.op = "Beq_S" /\ k = 1 /\ test[1] = W("i32.eq")
      \/ ins.op = "Bgt_S" /\ k = 1 /\ test[1] = W("i32.gt_s")
      \/ ins.op = "Blt_S" /\ k = 1 /\ test[1] = W("i32.lt_s")
      \/ ins.op = "Ble_S" /\ k = 1 /\ test[1] = W("i32.le_s")
  BY <1>b, TestsAre
<1> DEFINE z == e - 1 - k
<1>1. /\ k \in Nat /\ (z = b \/ z = b + 2)
      /\ z = b + 2 => (\E x \in Int : c[b] = Const(x)) /\ c[b + 1] = SetLocal("jumpTarget", 0)
      /\ \A q \in 1 .. k : c[z + q - 1] = test[q]
  <2>1. b # b + 2
    OBVIOUS
  <2> QED
    BY <1>0, <2>1
<1>2. Len(S) \in Nat /\ SameVars(f, f) /\ z \in Nat
  <2>1. z \in Nat
    BY <1>1
  <2> QED
    BY <2>1 DEF SameVars
<1>7. CASE p < z
  <2>1. z = b + 2 /\ (p = b \/ p = b + 1)
    BY <1>1, <1>7
  <2>2. CASE p = b
    <3>1. PICK x \in Int : c[b] = Const(x)
      BY <1>1, <2>1
    <3>2. Computes(Const(x), S, f, o2, f2)
      BY <2>2, <3>1 DEF Works
    <3>3. o2 = Append(S, x) /\ o2 \in Seq(Int) /\ f2 = f
      BY <3>2, ComputesConst
    <3>4. p + 1 < e - 1 - k
      BY <1>1, <2>1, <2>2
    <3>5. Testing(e, ins, k, p + 1, S, o2)
      BY <1>2, <3>3, <3>4 DEF Testing
    <3> QED
      BY <1>2, <1>a, <3>3, <3>5
  <2>3. CASE p = b + 1
    <3>1. PICK x \in Int : o = Append(S, x)
      BY <1>3, <1>7, <2>3 DEF Testing
    <3>2. Len(o) >= 1 /\ Cut(o, 1) = S
      BY <1>2, <3>1, Pushed
    <3>3. Computes(SetLocal("jumpTarget", 0), o, f, o2, f2)
      BY <1>1, <2>1, <2>3
    <3>4. <<"jumpTarget", 0>> \in Slots /\ <<"jumpTarget", 0>> \notin VarSlots /\ VarSlots \subseteq Slots
      BY SlotsNamed
    <3>5. o2 = Cut(o, 1) /\ o2 \in Seq(Int) /\ SetTo(f, f2, <<"jumpTarget", 0>>, Last(o))
      BY <3>2, <3>3, <3>4, ComputesSet
    <3>6. SameVars(f, f2) /\ f2 \in [Slots -> Int]
      BY <3>4, <3>5 DEF SetTo, SameVars
    <3>7. p + 1 = e - 1 - k
      BY <2>1, <2>3
    <3>8. Testing(e, ins, k, p + 1, S, o2)
      BY <1>2, <3>2, <3>5, <3>7 DEF Testing
    <3> QED
      BY <1>a, <3>5, <3>6, <3>8
  <2> QED
    BY <2>1, <2>2, <2>3
<1>8. CASE p >= z
  <2>1. k = 1 \/ k = 2
    <3>1. k = 0 \/ k = 1 \/ k = 2
      BY <1>c
    <3> QED
      BY <1>8, <3>1
  <2>2. p = z => o = S
    <3>1. CASE p = b
      BY <3>1 DEF Works
    <3>2. CASE p > b
      BY <1>3, <3>2 DEF Testing
    <3> QED
      BY <3>1, <3>2
  <2>3. CASE k = 1
    <3>1. p = z /\ c[z + 1 - 1] = test[1] /\ z + 1 - 1 = z
      BY <1>1, <1>2, <1>8, <2>3
    <3>2. PICK name \in {"i32.eq", "i32.gt_s", "i32.lt_s", "i32.le_s"} :
            /\ c[p] = W(name) /\ ins.op \in {"Beq_S", "Bgt_S", "Blt_S", "Ble_S"}
            /\ ins.op = "Beq_S" => name = "i32.eq"
            /\ ins.op = "Bgt_S" => name = "i32.gt_s"
            /\ ins.op = "Blt_S" => name = "i32.lt_s"
            /\ ins.op = "Ble_S" => name = "i32.le_s"
      BY <1>c, <2>3, <3>1
    <3> DEFINE v == W(name)
    <3>3. v.op = name /\ name \in Binary
      BY DEF W, Binary
    <3> HIDE DEF v
    <3>4. Computes(v, S, f, o2, f2) /\ Taking(ins) = 2 /\ Len(S) >= 2
      BY <1>2, <2>2, <3>1, <3>2, TakingIs DEF v
    <3>5. o2 \in Seq(Int) /\ f2 = f
      BY <3>3, <3>4, ComputesTwo
    <3>6. o2 = Append(Cut(S, 2), FromBool(IsTaken(ins, S)))
      <4>1. CASE ins.op = "Beq_S"
        <5>1. IsTaken(ins, S) <=> Second(S) = Last(S)
          BY <4>1 DEF IsTaken
        <5>2. o2 = Append(Cut(S, 2), FromBool(Second(S) = Last(S)))
          BY <3>2, <3>3, <3>4, <4>1 DEF Computes
        <5> QED
          BY <5>1, <5>2 DEF FromBool
      <4>2. CASE ins.op = "Bgt_S"
        <5>1. IsTaken(ins, S) <=> Second(S) > Last(S)
          BY <4>2 DEF IsTaken
        <5>2. o2 = Append(Cut(S, 2), FromBool(Second(S) > Last(S)))
          BY <3>2, <3>3, <3>4, <4>2 DEF Computes
        <5> QED
          BY <5>1, <5>2 DEF FromBool
      <4>3. CASE ins.op = "Blt_S"
        <5>1. IsTaken(ins, S) <=> Second(S) < Last(S)
          BY <4>3 DEF IsTaken
        <5>2. o2 = Append(Cut(S, 2), FromBool(Second(S) < Last(S)))
          BY <3>2, <3>3, <3>4, <4>3 DEF Computes
        <5> QED
          BY <5>1, <5>2 DEF FromBool
      <4>4. CASE ins.op = "Ble_S"
        <5>1. IsTaken(ins, S) <=> Second(S) <= Last(S)
          BY <4>4 DEF IsTaken
        <5>2. o2 = Append(Cut(S, 2), FromBool(Second(S) <= Last(S)))
          BY <3>2, <3>3, <3>4, <4>4 DEF Computes
        <5> QED
          BY <5>1, <5>2 DEF FromBool
      <4> QED
        BY <3>2, <4>1, <4>2, <4>3, <4>4
    <3> DEFINE y == FromBool(IsTaken(ins, S))
    <3>7. y \in Int /\ (y # 0 <=> IsTaken(ins, S)) /\ Cut(S, 2) \in Seq(Int)
      BY <1>2, <3>4, Numbers, Popped DEF FromBool
    <3> HIDE DEF y
    <3>8. Tests(ins, S, o2)
      <4>1. o2 = Append(Cut(S, 2), y)
        BY <3>6 DEF y
      <4>2. Len(o2) >= 1 /\ Cut(o2, 1) = Cut(S, 2) /\ Last(o2) = y
        BY <3>7, <4>1, Pushed
      <4> QED
        BY <3>4, <3>5, <3>7, <4>2 DEF Tests
    <3>9. Testing(e, ins, k, p + 1, S, o2)
      <4>1. p + 1 = e - 1 /\ p + 1 > e - 1 - k
        BY <2>3, <3>1
      <4> QED
        BY <1>2, <3>8, <4>1 DEF Testing
    <3> QED
      BY <1>2, <1>a, <3>5, <3>9
  <2>4. CASE k = 2
    <3>1. /\ (p = z \/ p = z + 1) /\ c[z + 1 - 1] = test[1] /\ c[z + 2 - 1] = test[2]
          /\ z + 1 - 1 = z /\ z + 2 - 1 = z + 1
      BY <1>1, <1>2, <1>8, <2>4
    <3>2. ins.op = "Brfalse_S" /\ c[z] = Const(1) /\ c[z + 1] = W("i32.sub")
      BY <1>c, <2>4, <3>1
    <3>3. Taking(ins) = 1 /\ Len(S) >= 1 /\ Last(S) \in {0, 1}
      BY <1>2, <3>2, TakingIs
    <3>4. CASE p = z
      <4>1. Computes(Const(1), S, f, o2, f2)
        BY <2>2, <3>2, <3>4
      <4>2. o2 = Append(S, 1) /\ o2 \in Seq(Int) /\ f2 = f
        BY <4>1, ComputesConst
      <4>3. p + 1 < e - 1 /\ p + 1 > e - 1 - k
        BY <2>4, <3>4
      <4>4. Testing(e, ins, k, p + 1, S, o2)
        BY <1>2, <4>2, <4>3 DEF Testing
      <4> QED
        BY <1>2, <1>a, <4>2, <4>4
    <3>5. CASE p = z + 1
      <4>1. o = Append(S, 1)
        <5>1. p > e - 1 - k /\ p < e - 1 /\ p > b
          BY <1>1, <2>4, <3>5
        <5> QED
          BY <1>3, <5>1 DEF Testing
      <4>2. Last(o) = 1 /\ Second(o) = Last(S) /\ Cut(o, 2) = Cut(S, 1) /\ Len(o) >= 2
        BY <1>2, <3>3, <4>1, Pushed
      <4> DEFINE v == W("i32.sub")
      <4>3. v.op = "i32.sub" /\ v.op \in Binary
        BY DEF W, Binary
      <4> HIDE DEF v
      <4>4. Computes(v, o, f, o2, f2)
        BY <3>2, <3>5 DEF v
      <4>5. o2 \in Seq(Int) /\ f2 = f
        BY <4>2, <4>3, <4>4, ComputesTwo
      <4>6. o2 = Append(Cut(S, 1), Wrap(Last(S) - 1))
        BY <4>2, <4>3, <4>4 DEF Computes
      <4> DEFINE y == Wrap(Last(S) - 1)
      <4>7. y \in Int /\ (y # 0 <=> Last(S) = 0) /\ Cut(S, 1) \in Seq(Int)
        <5>1. Last(S) - 1 \in {-1, 0} /\ (Last(S) - 1 = -1 <=> Last(S) = 0) /\ Last(S) - 1 \in Int
          BY <3>3
        <5>2. Cut(S, 1) \in Seq(Int)
          BY <3>3, Popped
        <5> QED
          BY <5>1, <5>2, Numbers
      <4> HIDE DEF y
      <4>8. Tests(ins, S, o2)
        <5>1. o2 = Append(Cut(S, 1), y)
          BY <4>6 DEF y
        <5>2. Len(o2) >= 1 /\ Cut(o2, 1) = Cut(S, 1) /\ Last(o2) = y
          BY <4>7, <5>1, Pushed
        <5>3. IsTaken(ins, S) <=> Last(S) = 0
          BY <3>2 DEF IsTaken
        <5> QED
          BY <3>3, <4>5, <4>7, <5>2, <5>3 DEF Tests
      <4>9. Testing(e, ins, k, p + 1, S, o2)
        <5>1. p + 1 = e - 1 /\ p + 1 > e - 1 - k
          BY <2>4, <3>5
        <5> QED
          BY <1>2, <4>8, <5>1 DEF Testing
      <4> QED
        BY <1>2, <1>a, <4>5, <4>9
    <3> QED
      BY <3>1, <3>4, <3>5
  <2> QED
    BY <2>1, <2>3, <2>4
<1> QED
  BY <1>1, <1>2, <1>7, <1>8
-----------------------------------------------------------------------------
(* A branch is the last instruction of its code.                           *)
LEMMA BranchIsLast ==
  ASSUME NEW c, NEW b \in Nat, NEW e \in Nat, NEW ins, ins.op \in DOMAIN BranchTests,
         BranchLies(c, b, e, ins), NEW p \in Nat, b <= p, p < e, c[p].op \in BranchOps
  PROVE  p = e - 1
<1> DEFINE test == BranchTests[ins.op]
           k == Len(test)
<1>1. /\ k \in Nat
      /\ \/ e - 1 - k = b
         \/ e - 1 - k = b + 2 /\ (\E x \in Int : c[b] = Const(x)) /\ c[b + 1] = SetLocal("jumpTarget", 0)
      /\ \A q \in 1 .. k : c[e - 1 - k + q - 1] = test[q]
  BY DEF BranchLies
<1>2. \A q \in 1 .. k : test[q].op \notin BranchOps
  <2> HIDE DEF test
  <2>1. test = BranchTests[ins.op]
    BY DEF test
  <2>2. k = 0 \/ k = 1 \/ k = 2
    BY <2>1, TestsAre
  <2>3. \A op \in {"i32.eq", "i32.gt_s", "i32.lt_s", "i32.le_s", "i32.sub"} : W(op).op \notin BranchOps
    BY DEF W, BranchOps
  <2>4. Const(1).op \notin BranchOps
    BY DEF Const, WN, BranchOps
  <2>5. k = 1 => test[1].op \notin BranchOps
    BY <2>1, <2>3, TestsAre
  <2>6. k = 2 => test[1].op \notin BranchOps /\ test[2].op \notin BranchOps
    BY <2>1, <2>3, <2>4, TestsAre
  <2>7. \A q \in 1 .. k : (k = 1 /\ q = 1) \/ (k = 2 /\ (q = 1 \/ q = 2))
    <3> HIDE DEF k
    <3> QED
      BY <2>2
  <2> QED
    BY <2>5, <2>6, <2>7
<1> HIDE DEF test, k
<1>3. \A x : Const(x).op \notin BranchOps
  BY DEF Const, WN, BranchOps
<1>4. SetLocal("jumpTarget", 0).op \notin BranchOps
  BY DEF SetLocal, BranchOps
<1>5. SUFFICES ASSUME p < e - 1 PROVE FALSE
  OBVIOUS
<1>6. CASE p < e - 1 - k
  <2>1. e - 1 - k # b
    BY <1>1, <1>6
  <2>2. e - 1 - k = b + 2 /\ (\E x \in Int : c[b] = Const(x)) /\ c[b + 1] = SetLocal("jumpTarget", 0)
    BY <1>1, <2>1
  <2>3. p = b \/ p = b + 1
    BY <1>6, <2>2
  <2> QED
    BY <1>3, <1>4, <2>2, <2>3
<1>7. CASE p >= e - 1 - k
  <2> DEFINE q == p - (e - 1 - k) + 1
  <2>1. q \in 1 .. k /\ e - 1 - k + q - 1 = p
    BY <1>1, <1>5, <1>7
  <2> HIDE DEF q
  <2>2. c[e - 1 - k + q - 1] = test[q]
    BY <1>1, <2>1
  <2> QED
    BY <1>2, <2>1, <2>2
<1> QED
  BY <1>1, <1>6, <1>7

-----------------------------------------------------------------------------
(* The items of a switch, each as Compile has it.                          *)
ItemAt(c, b, e, ins, js, lo, hi, x) ==
  /\ lo \in Nat /\ hi \in Nat /\ b < lo /\ hi <= e
  /\ hi = lo + 4 \/ hi = lo + 6
  /\ ItemLies(c, lo, hi, x)
  /\ \E j \in js : j.at = hi - 1 /\ j.to = ins.targets[x + 1]

(* Items lists them.                                                       *)
LEMMA ItemsAre ==
  ASSUME NEW c, NEW b \in Nat, NEW e \in Nat, NEW ins, NEW js, NEW m \in Nat, NEW a,
         Items(c, b, e, ins, js, m, a), NEW x \in 0 .. m - 1
  PROVE  ItemAt(c, b, e, ins, js, a[x], a[x + 1], x)
<1>1. /\ \A y \in 0 .. m : a[y] \in Nat /\ b < a[y] /\ a[y] <= e
      /\ \A y \in 0 .. m - 1 :
           /\ \E s : ItemCode(s, y) /\ Reads(c, a[y], a[y + 1], s)
           /\ \E j \in js : j.at = a[y + 1] - 1 /\ j.to = ins.targets[y + 1]
  BY DEF Items
<1>2. x \in 0 .. m /\ x + 1 \in 0 .. m /\ x \in Int
  OBVIOUS
<1> DEFINE lo == a[x]
           hi == a[x + 1]
<1>3. lo \in Nat /\ hi \in Nat /\ b < lo /\ hi <= e
  BY <1>1, <1>2
<1>4. PICK s : ItemCode(s, x) /\ Reads(c, lo, hi, s)
  BY <1>1
<1>5. \E j \in js : j.at = hi - 1 /\ j.to = ins.targets[x + 1]
  BY <1>1
<1> HIDE DEF lo, hi
<1>6. ItemLies(c, lo, hi, x)
  BY <1>2, <1>3, <1>4, ItemCodeLies
<1>7. hi = lo + 4 \/ hi = lo + 6
  BY <1>6 DEF ItemLies
<1> QED
  BY <1>3, <1>5, <1>6, <1>7 DEF ItemAt, lo, hi

(* A switch puts its value away.                                           *)
LEMMA SwitchBegins ==
  ASSUME NEW c, NEW b \in Nat, NEW e \in Nat, NEW ins, ins.op = "Switch", NEW js,
         NEW m \in Nat, m = Len(ins.targets), \E a : Items(c, b, e, ins, js, m, a),
         NEW S \in Seq(Int), Len(S) >= CilTakes(ins), NEW f \in [Slots -> Int],
         NEW o2, NEW f2, Computes(c[b], S, f, o2, f2)
  PROVE  GoesOnWith(c, b, e, ins, js, b, S, f, o2, f2)
<1>1. PICK a : Items(c, b, e, ins, js, m, a)
  OBVIOUS
<1>2. a[0] = b + 1 /\ a[m] = e /\ c[b] = SetLocal("switchValue", 0)
  BY <1>1 DEF Items
<1>3. Len(S) >= 1
  BY DEF CilTakes
<1>4. <<"switchValue", 0>> \in Slots /\ <<"switchValue", 0>> \notin VarSlots /\ VarSlots \subseteq Slots
  BY SlotsNamed
<1>5. o2 = Cut(S, 1) /\ o2 \in Seq(Int) /\ SetTo(f, f2, <<"switchValue", 0>>, Last(S))
  <2>1. Computes(SetLocal("switchValue", 0), S, f, o2, f2)
    BY <1>2
  <2> QED
    BY <1>3, <1>4, <2>1, ComputesSet
<1>6. SameVars(f, f2) /\ f2 \in [Slots -> Int] /\ f2[<<"switchValue", 0>>] = Last(S)
  BY <1>4, <1>5 DEF SameVars, SetTo
<1>7. CASE m = 0
  <2>1. b + 1 = e
    BY <1>2, <1>7
  <2>2. Last(S) \notin 0 .. m - 1
    BY <1>7
  <2>3. ins.op \notin DOMAIN BranchTests
    BY DEF BranchTests
  <2>4. Effect(ins, S, f, o2, f2)
    BY <1>5, <1>6, <2>2, <2>3 DEF Effect
  <2> QED
    BY <1>5, <1>6, <2>1, <2>4 DEF GoesOnWith
<1>8. CASE m > 0
  <2> DEFINE lo == a[0]
             hi == a[0 + 1]
  <2>1. 0 \in 0 .. m - 1
    BY <1>8
  <2>2. /\ lo \in Nat /\ hi \in Nat /\ hi <= e /\ (hi = lo + 4 \/ hi = lo + 6) /\ lo = b + 1
    <3>1. ItemAt(c, b, e, ins, js, lo, hi, 0)
      BY <1>1, <2>1, ItemsAre
    <3> HIDE DEF lo, hi
    <3> QED
      BY <1>2, <3>1 DEF ItemAt, lo
  <2> HIDE DEF lo, hi
  <2>3. b + 1 < e /\ b + 1 # e /\ b + 1 > b /\ b + 1 # b
    BY <2>2
  <2>4. Asking(lo, hi, 0, b + 1, Cut(S, 1), Last(S), o2)
    BY <1>5, <2>2 DEF Asking
  <2>5. Choosing(c, b, e, ins, js, b + 1, S, o2)
    <3>1. lo <= b + 1 /\ b + 1 < hi /\ Last(S) \notin 0 .. 0 - 1
      BY <2>2
    <3> QED
      BY <1>1, <2>1, <2>4, <3>1 DEF Choosing, lo, hi
  <2>6. Works(c, b, e, ins, js, b + 1, S, o2, f2)
    <3>1. ins.op \notin DOMAIN BranchTests
      BY DEF BranchTests
    <3> QED
      BY <1>6, <2>3, <2>5, <3>1 DEF Works
  <2> QED
    BY <1>5, <1>6, <2>3, <2>6 DEF GoesOnWith
<1> QED
  BY <1>7, <1>8

(* What is known within the items.                                         *)
InItem(c, b, e, ins, js, p, S, o, m, a, x, lo, hi) ==
  /\ Items(c, b, e, ins, js, m, a)
  /\ x \in 0 .. m - 1 /\ lo = a[x] /\ hi = a[x + 1] /\ lo <= p /\ p < hi
  /\ ItemAt(c, b, e, ins, js, lo, hi, x)
  /\ Last(S) \notin 0 .. x - 1
  /\ Asking(lo, hi, x, p, Cut(S, 1), Last(S), o)

(* Behind its first instruction the code of a switch is that of its items. *)
LEMMA InSomeItem ==
  ASSUME NEW c, NEW b \in Nat, NEW e \in Nat, NEW ins, ins.op = "Switch", NEW js,
         NEW m \in Nat, m = Len(ins.targets), NEW p \in Nat, b < p,
         NEW S, NEW o, NEW f, Works(c, b, e, ins, js, p, S, o, f)
  PROVE  /\ f[<<"switchValue", 0>>] = Last(S)
         /\ \E a, x, lo, hi : InItem(c, b, e, ins, js, p, S, o, m, a, x, lo, hi)
<1>1. f[<<"switchValue", 0>>] = Last(S) /\ Choosing(c, b, e, ins, js, p, S, o)
  BY DEF Works
<1>2. PICK a : /\ Items(c, b, e, ins, js, m, a)
               /\ \E x \in 0 .. m - 1 :
                    /\ a[x] <= p /\ p < a[x + 1]
                    /\ Last(S) \notin 0 .. x - 1
                    /\ Asking(a[x], a[x + 1], x, p, Cut(S, 1), Last(S), o)
  BY <1>1 DEF Choosing
<1>3. PICK x \in 0 .. m - 1 :
        /\ a[x] <= p /\ p < a[x + 1]
        /\ Last(S) \notin 0 .. x - 1
        /\ Asking(a[x], a[x + 1], x, p, Cut(S, 1), Last(S), o)
  BY <1>2
<1>4. ItemAt(c, b, e, ins, js, a[x], a[x + 1], x)
  BY <1>2, ItemsAre
<1>5. InItem(c, b, e, ins, js, p, S, o, m, a, x, a[x], a[x + 1])
  BY <1>2, <1>3, <1>4 DEF InItem
<1> QED
  BY <1>1, <1>5

(* At the next instruction of the item.                                    *)
LEMMA ItemGoesOn ==
  ASSUME NEW c, NEW b \in Nat, NEW e \in Nat, NEW ins, ins.op = "Switch", NEW js,
         NEW m \in Nat, m = Len(ins.targets), NEW p \in Nat, NEW S, NEW o, NEW f \in [Slots -> Int],
         f[<<"switchValue", 0>>] = Last(S),
         NEW a, NEW x, NEW lo, NEW hi, InItem(c, b, e, ins, js, p, S, o, m, a, x, lo, hi),
         p < hi - 1, NEW o2 \in Seq(Int), NEW f2 \in [Slots -> Int], SameVars(f, f2),
         f2[<<"switchValue", 0>>] = Last(S), Asking(lo, hi, x, p + 1, Cut(S, 1), Last(S), o2)
  PROVE  GoesOnWith(c, b, e, ins, js, p, S, f, o2, f2)
<1>1. /\ Items(c, b, e, ins, js, m, a) /\ x \in 0 .. m - 1 /\ lo = a[x] /\ hi = a[x + 1]
      /\ lo \in Nat /\ hi \in Nat /\ b < lo /\ hi <= e /\ lo <= p /\ Last(S) \notin 0 .. x - 1
  BY DEF InItem, ItemAt
<1>2. p + 1 < e /\ p + 1 # e /\ p + 1 > b /\ p + 1 # b /\ lo <= p + 1 /\ p + 1 < hi
  BY <1>1
<1>3. Choosing(c, b, e, ins, js, p + 1, S, o2)
  BY <1>1, <1>2 DEF Choosing
<1>4. Works(c, b, e, ins, js, p + 1, S, o2, f2)
  <2>1. ins.op \notin DOMAIN BranchTests
    BY DEF BranchTests
  <2> QED
    BY <1>2, <1>3, <2>1 DEF Works
<1> QED
  BY <1>2, <1>4 DEF GoesOnWith
-----------------------------------------------------------------------------
(* Within an item, in front of its branch.                                 *)
LEMMA SwitchWorks ==
  ASSUME NEW c, NEW b \in Nat, NEW e \in Nat, NEW ins, ins.op = "Switch", NEW js,
         NEW m \in Nat, m = Len(ins.targets), NEW p \in Nat, b < p,
         NEW S \in Seq(Int), Len(S) >= CilTakes(ins), NEW o \in Seq(Int), NEW f \in [Slots -> Int],
         Works(c, b, e, ins, js, p, S, o, f), c[p].op \notin BranchOps,
         NEW o2, NEW f2, Computes(c[p], o, f, o2, f2)
  PROVE  GoesOnWith(c, b, e, ins, js, p, S, f, o2, f2)
<1> DEFINE B == Cut(S, 1)
           V == Last(S)
<1>0. /\ f[<<"switchValue", 0>>] = Last(S)
      /\ \E a, x, lo, hi : InItem(c, b, e, ins, js, p, S, o, m, a, x, lo, hi)
  BY InSomeItem
<1>1. f[<<"switchValue", 0>>] = V
  BY <1>0
<1>2. PICK a, x, lo, hi : InItem(c, b, e, ins, js, p, S, o, m, a, x, lo, hi)
  BY <1>0
<1>3. B \in Seq(Int) /\ V \in Int
  <2>1. Len(S) >= 1
    BY DEF CilTakes
  <2> QED
    BY <2>1, Popped
<1>4. /\ x \in 0 .. m - 1 /\ lo <= p /\ p < hi /\ lo \in Nat /\ hi \in Nat
      /\ hi = lo + 4 \/ hi = lo + 6
      /\ c[lo] = GetLocal("switchValue", 0) /\ c[lo + 1] = Const(x) /\ c[lo + 2] = W("i32.eq")
      /\ \/ hi = lo + 4
         \/ hi = lo + 6 /\ (\E k \in Int : c[lo + 3] = Const(k)) /\ c[lo + 4] = SetLocal("jumpTarget", 0)
      /\ \E d : c[hi - 1] = WN("br_if", d)
      /\ Asking(lo, hi, x, p, B, V, o)
  BY <1>2 DEF InItem, ItemAt, ItemLies
<1>5. p < hi - 1
  <2>1. \A d : WN("br_if", d).op \in BranchOps
    BY DEF WN, BranchOps
  <2>2. p # hi - 1
    BY <1>4, <2>1
  <2> QED
    BY <1>4, <2>2
<1>6. SameVars(f, f)
  BY DEF SameVars
<1>7. ASSUME o2 \in Seq(Int), f2 \in [Slots -> Int], SameVars(f, f2), f2[<<"switchValue", 0>>] = V,
             Asking(lo, hi, x, p + 1, B, V, o2)
      PROVE  GoesOnWith(c, b, e, ins, js, p, S, f, o2, f2)
  BY <1>1, <1>2, <1>5, <1>7, ItemGoesOn
<1> HIDE DEF B, V
<1> DEFINE y == FromBool(V = x)
<1>8. y \in Int /\ x \in Int /\ -1 \in Int
  BY <1>4 DEF FromBool
<1>9. CASE p = lo
  <2>1. o = B /\ c[p] = GetLocal("switchValue", 0)
    BY <1>4, <1>9 DEF Asking
  <2>2. Computes(GetLocal("switchValue", 0), o, f, o2, f2)
    BY <2>1
  <2>3. o2 = Append(o, f[<<"switchValue", 0>>]) /\ o2 \in Seq(Int) /\ f2 = f
    <3>1. <<"switchValue", 0>> \in Slots
      BY SlotsNamed
    <3> QED
      BY <2>2, <3>1, ComputesGet
  <2>4. o2 = Append(B, V)
    BY <1>1, <2>1, <2>3
  <2>5. Asking(lo, hi, x, p + 1, B, V, o2)
    BY <1>4, <1>9, <2>4 DEF Asking
  <2> QED
    BY <1>1, <1>6, <1>7, <2>3, <2>5
<1>10. CASE p = lo + 1
  <2>1. o = Append(B, V) /\ c[p] = Const(x)
    BY <1>4, <1>10 DEF Asking
  <2>2. Computes(Const(x), o, f, o2, f2)
    BY <2>1
  <2>3. o2 = Append(o, x) /\ o2 \in Seq(Int) /\ f2 = f
    BY <1>8, <2>2, ComputesConst
  <2>5. Asking(lo, hi, x, p + 1, B, V, o2)
    BY <1>4, <1>10, <2>1, <2>3 DEF Asking
  <2> QED
    BY <1>1, <1>6, <1>7, <2>3, <2>5
<1>11. CASE p = lo + 2
  <2>1. o = Append(Append(B, V), x) /\ c[p] = W("i32.eq")
    BY <1>4, <1>11 DEF Asking
  <2> DEFINE v == W("i32.eq")
             u == Append(B, V)
  <2>2. v.op = "i32.eq" /\ v.op \in Binary
    BY DEF W, Binary
  <2>3. Computes(v, o, f, o2, f2)
    BY <2>1
  <2> HIDE DEF v
  <2>4. u \in Seq(Int) /\ Len(u) >= 1 /\ Last(u) = V /\ Cut(u, 1) = B
    BY <1>3, Pushed
  <2> HIDE DEF u
  <2>5. o = Append(u, x)
    BY <2>1 DEF u
  <2>6. Len(o) >= 2 /\ Last(o) = x /\ Second(o) = V /\ Cut(o, 2) = B
    BY <1>8, <2>4, <2>5, Pushed
  <2>7. o2 \in Seq(Int) /\ f2 = f
    BY <2>2, <2>3, <2>6, ComputesTwo
  <2>8. o2 = Append(B, y)
    BY <2>2, <2>3, <2>6 DEF Computes
  <2>9. Asking(lo, hi, x, p + 1, B, V, o2)
    BY <1>4, <1>11, <2>8 DEF Asking
  <2> QED
    BY <1>1, <1>6, <1>7, <2>7, <2>9
<1>12. CASE p = lo + 3
  <2>1. hi = lo + 6
    BY <1>4, <1>5, <1>12
  <2>2. PICK k \in Int : c[lo + 3] = Const(k)
    BY <1>4, <2>1
  <2>3. o = Append(B, y)
    BY <1>4, <1>12 DEF Asking
  <2>4. Computes(Const(k), o, f, o2, f2)
    BY <1>12, <2>2
  <2>5. o2 = Append(o, k) /\ o2 \in Seq(Int) /\ f2 = f
    BY <2>4, ComputesConst
  <2>6. Asking(lo, hi, x, p + 1, B, V, o2)
    BY <1>4, <1>12, <2>1, <2>3, <2>5 DEF Asking
  <2> QED
    BY <1>1, <1>6, <1>7, <2>5, <2>6
<1>13. CASE p = lo + 4
  <2>1. hi = lo + 6 /\ c[lo + 4] = SetLocal("jumpTarget", 0)
    BY <1>4, <1>5, <1>13
  <2>2. PICK k \in Int : o = Append(Append(B, y), k)
    BY <1>4, <1>13, <2>1 DEF Asking
  <2> DEFINE u == Append(B, y)
  <2>3. u \in Seq(Int) /\ Len(u) \in Nat
    BY <1>3, <1>8, Pushed
  <2> HIDE DEF u
  <2>4. Len(o) >= 1 /\ Cut(o, 1) = u
    <3>1. o = Append(u, k)
      BY <2>2 DEF u
    <3> QED
      BY <2>3, <3>1, Pushed
  <2>5. Computes(SetLocal("jumpTarget", 0), o, f, o2, f2)
    BY <1>13, <2>1
  <2>6. /\ <<"jumpTarget", 0>> \in Slots /\ <<"jumpTarget", 0>> \notin VarSlots /\ VarSlots \subseteq Slots
        /\ <<"switchValue", 0>> # <<"jumpTarget", 0>> /\ <<"switchValue", 0>> \in Slots
    BY SlotsNamed
  <2>7. o2 = Cut(o, 1) /\ o2 \in Seq(Int) /\ SetTo(f, f2, <<"jumpTarget", 0>>, Last(o))
    BY <2>4, <2>5, <2>6, ComputesSet
  <2>8. SameVars(f, f2) /\ f2 \in [Slots -> Int] /\ f2[<<"switchValue", 0>>] = V
    BY <1>1, <2>6, <2>7 DEF SetTo, SameVars
  <2>9. Asking(lo, hi, x, p + 1, B, V, o2)
    <3>1. o2 = Append(B, FromBool(V = x))
      BY <2>4, <2>7 DEF u
    <3>2. p + 1 # lo /\ p + 1 # lo + 1 /\ p + 1 # lo + 2 /\ p + 1 # lo + 4
      BY <1>4, <1>13
    <3> QED
      BY <3>1, <3>2 DEF Asking
  <2> QED
    BY <1>7, <2>7, <2>8, <2>9
<1> QED
  BY <1>4, <1>5, <1>9, <1>10, <1>11, <1>12, <1>13

(* At the branch of an item: taken for the item's value only.              *)
Asked(c, b, e, ins, js, p, S, o, f, x) ==
  /\ x \in 0 .. Len(ins.targets) - 1
  /\ Last(S) \notin 0 .. x - 1
  /\ o = Append(Cut(S, 1), FromBool(Last(S) = x))
  /\ \E j \in js : j.at = p /\ j.to = ins.targets[x + 1]
  /\ Last(S) # x => GoesOnWith(c, b, e, ins, js, p, S, f, Cut(S, 1), f)

(* A branch of a switch is that of an item, its test made.                 *)
LEMMA SwitchDecided ==
  ASSUME NEW c, NEW b \in Nat, NEW e \in Nat, NEW ins, ins.op = "Switch", NEW js,
         NEW m \in Nat, m = Len(ins.targets), NEW p \in Nat, b <= p, p < e,
         \E a : Items(c, b, e, ins, js, m, a),
         NEW S \in Seq(Int), Len(S) >= CilTakes(ins), NEW o \in Seq(Int), NEW f \in [Slots -> Int],
         Works(c, b, e, ins, js, p, S, o, f), c[p].op \in BranchOps
  PROVE  b < p /\ c[p].op = "br_if" /\ \E x : Asked(c, b, e, ins, js, p, S, o, f, x)
<1>1. b < p
  <2>1. c[b] = SetLocal("switchValue", 0)
    BY DEF Items
  <2>2. SetLocal("switchValue", 0).op \notin BranchOps
    BY DEF SetLocal, BranchOps
  <2> QED
    BY <2>1, <2>2
<1>2. f[<<"switchValue", 0>>] = Last(S)
  BY <1>1, InSomeItem
<1>3. PICK a, x, lo, hi : InItem(c, b, e, ins, js, p, S, o, m, a, x, lo, hi)
  BY <1>1, InSomeItem
<1> DEFINE B == Cut(S, 1)
           V == Last(S)
<1>4. B \in Seq(Int) /\ V \in Int
  <2>1. Len(S) >= 1
    BY DEF CilTakes
  <2> QED
    BY <2>1, Popped
<1>5. /\ x \in 0 .. m - 1 /\ lo <= p /\ p < hi /\ lo \in Nat /\ hi \in Nat /\ b < lo /\ hi <= e
      /\ hi = lo + 4 \/ hi = lo + 6
      /\ c[lo] = GetLocal("switchValue", 0) /\ c[lo + 1] = Const(x) /\ c[lo + 2] = W("i32.eq")
      /\ \/ hi = lo + 4
         \/ hi = lo + 6 /\ (\E k \in Int : c[lo + 3] = Const(k)) /\ c[lo + 4] = SetLocal("jumpTarget", 0)
      /\ \E d : c[hi - 1] = WN("br_if", d)
      /\ Items(c, b, e, ins, js, m, a) /\ lo = a[x] /\ hi = a[x + 1]
      /\ \E j \in js : j.at = hi - 1 /\ j.to = ins.targets[x + 1]
      /\ V \notin 0 .. x - 1
      /\ Asking(lo, hi, x, p, B, V, o)
  BY <1>3 DEF InItem, ItemAt, ItemLies
<1>6. p = hi - 1
  <2>1. /\ GetLocal("switchValue", 0).op \notin BranchOps /\ SetLocal("jumpTarget", 0).op \notin BranchOps
        /\ W("i32.eq").op \notin BranchOps /\ \A k : Const(k).op \notin BranchOps
    BY DEF GetLocal, SetLocal, W, Const, WN, BranchOps
  <2>2. p # lo /\ p # lo + 1 /\ p # lo + 2
    BY <1>5, <2>1
  <2>3. hi = lo + 6 => p # lo + 3 /\ p # lo + 4
    <3>1. ASSUME hi = lo + 6 PROVE p # lo + 3 /\ p # lo + 4
      <4>1. hi # lo + 4
        BY <1>5, <3>1
      <4> QED
        BY <1>5, <2>1, <4>1
    <3> QED
      BY <3>1
  <2>4. lo \in Nat /\ lo <= p /\ p < hi /\ (hi = lo + 4 \/ hi = lo + 6)
    BY <1>5
  <2>5. CASE hi = lo + 4
    BY <2>2, <2>4, <2>5
  <2>6. CASE hi = lo + 6
    BY <2>2, <2>3, <2>4, <2>6
  <2> QED
    BY <2>4, <2>5, <2>6
<1>7. o = Append(B, FromBool(V = x))
  BY <1>5, <1>6 DEF Asking
<1>8. c[p].op = "br_if"
  <2>1. \A d : WN("br_if", d).op = "br_if"
    BY DEF WN
  <2> QED
    BY <1>5, <1>6, <2>1
<1>9. SameVars(f, f)
  BY DEF SameVars
<1>10. ASSUME V # x PROVE GoesOnWith(c, b, e, ins, js, p, S, f, B, f)
  <2>1. V \notin 0 .. x
    BY <1>4, <1>5, <1>10
  <2>2. ins.op \notin DOMAIN BranchTests
    BY DEF BranchTests
  <2>3. CASE x + 1 = m
    <3>1. hi = e
      BY <1>5, <2>3 DEF Items
    <3>2. p + 1 = e /\ 0 .. m - 1 = 0 .. x
      <4>1. m - 1 = x
        BY <1>5, <2>3
      <4>2. p + 1 = e
        BY <1>6, <3>1
      <4> QED
        BY <4>1, <4>2
    <3>3. Effect(ins, S, f, B, f)
      BY <1>9, <2>1, <2>2, <3>2 DEF Effect
    <3> QED
      BY <1>4, <3>2, <3>3 DEF GoesOnWith
  <2>4. CASE x + 1 # m
    <3> DEFINE y == x + 1
               lo2 == a[y]
               hi2 == a[y + 1]
    <3>1. y \in 0 .. m - 1 /\ y - 1 = x
      BY <1>5, <2>4
    <3>a. lo2 = hi
      BY <1>5
    <3> HIDE DEF y
    <3>2. ItemAt(c, b, e, ins, js, lo2, hi2, y)
      BY <1>5, <3>1, ItemsAre
    <3>b. lo2 = a[y] /\ hi2 = a[y + 1]
      OBVIOUS
    <3> HIDE DEF lo2, hi2
    <3>3. lo2 \in Nat /\ hi2 \in Nat /\ hi2 <= e /\ (hi2 = lo2 + 4 \/ hi2 = lo2 + 6) /\ p + 1 = lo2
      BY <1>5, <1>6, <3>2, <3>a DEF ItemAt
    <3>4. Asking(lo2, hi2, y, p + 1, B, V, B)
      BY <3>3 DEF Asking
    <3>5. lo2 <= p + 1 /\ p + 1 < hi2 /\ p + 1 < e /\ p + 1 # e /\ p + 1 # b /\ p + 1 > b
      BY <1>1, <3>3
    <3>6. Choosing(c, b, e, ins, js, p + 1, S, B)
      BY <1>5, <2>1, <3>1, <3>4, <3>5, <3>b DEF Choosing
    <3>7. Works(c, b, e, ins, js, p + 1, S, B, f)
      BY <1>2, <2>2, <3>5, <3>6 DEF Works
    <3> QED
      BY <1>4, <1>9, <3>5, <3>7 DEF GoesOnWith
  <2> QED
    BY <2>3, <2>4
<1>11. Asked(c, b, e, ins, js, p, S, o, f, x)
  BY <1>5, <1>6, <1>7, <1>10 DEF Asked
<1> QED
  BY <1>1, <1>8, <1>11
-----------------------------------------------------------------------------
(* The variables as the refinement mapping sees them.                      *)
ArgsOf(f)   == [k \in 0 .. 2 |-> f[<<"arg", k>>]]
LocalsOf(f) == [k \in 0 .. 3 |-> f[<<"loc", k>>]]

(* They see the variables only, and a store of one.                        *)
LEMMA VarsAre ==
  ASSUME NEW f, NEW g
  PROVE  /\ SameVars(f, g) => ArgsOf(g) = ArgsOf(f) /\ LocalsOf(g) = LocalsOf(f)
         /\ \A n \in 0 .. 2 : \A v : Assigned(f, g, <<"arg", n>>, v) =>
              ArgsOf(g) = [ArgsOf(f) EXCEPT ![n] = v] /\ LocalsOf(g) = LocalsOf(f)
         /\ \A n \in 0 .. 3 : \A v : Assigned(f, g, <<"loc", n>>, v) =>
              LocalsOf(g) = [LocalsOf(f) EXCEPT ![n] = v] /\ ArgsOf(g) = ArgsOf(f)
<1>1. /\ \A k \in 0 .. 2 : <<"arg", k>> \in VarSlots
      /\ \A k \in 0 .. 3 : <<"loc", k>> \in VarSlots
  BY SlotsNamed
<1>2. /\ \A k, n : <<"arg", k>> # <<"loc", n>>
      /\ \A k, n : <<"arg", k>> = <<"arg", n>> => k = n
      /\ \A k, n : <<"loc", k>> = <<"loc", n>> => k = n
  OBVIOUS
<1>3. SameVars(f, g) => ArgsOf(g) = ArgsOf(f) /\ LocalsOf(g) = LocalsOf(f)
  BY <1>1 DEF SameVars, ArgsOf, LocalsOf
<1>4. ASSUME NEW n \in 0 .. 2, NEW v, Assigned(f, g, <<"arg", n>>, v)
      PROVE  ArgsOf(g) = [ArgsOf(f) EXCEPT ![n] = v] /\ LocalsOf(g) = LocalsOf(f)
  <2>1. g[<<"arg", n>>] = v /\ \A r \in VarSlots : r # <<"arg", n>> => g[r] = f[r]
    BY <1>4 DEF Assigned
  <2>2. \A k \in 0 .. 2 : k # n => g[<<"arg", k>>] = f[<<"arg", k>>]
    BY <1>1, <1>2, <2>1
  <2>3. \A k \in 0 .. 3 : g[<<"loc", k>>] = f[<<"loc", k>>]
    BY <1>1, <1>2, <2>1
  <2>4. ArgsOf(g) = [ArgsOf(f) EXCEPT ![n] = v]
    BY <2>1, <2>2 DEF ArgsOf
  <2> QED
    BY <2>3, <2>4 DEF LocalsOf
<1>5. ASSUME NEW n \in 0 .. 3, NEW v, Assigned(f, g, <<"loc", n>>, v)
      PROVE  LocalsOf(g) = [LocalsOf(f) EXCEPT ![n] = v] /\ ArgsOf(g) = ArgsOf(f)
  <2>1. g[<<"loc", n>>] = v /\ \A r \in VarSlots : r # <<"loc", n>> => g[r] = f[r]
    BY <1>5 DEF Assigned
  <2>2. \A k \in 0 .. 3 : k # n => g[<<"loc", k>>] = f[<<"loc", k>>]
    BY <1>1, <1>2, <2>1
  <2>3. \A k \in 0 .. 2 : g[<<"arg", k>>] = f[<<"arg", k>>]
    BY <1>1, <1>2, <2>1
  <2>4. LocalsOf(g) = [LocalsOf(f) EXCEPT ![n] = v]
    BY <2>1, <2>2 DEF LocalsOf
  <2> QED
    BY <2>3, <2>4 DEF ArgsOf
<1> QED
  BY <1>3, <1>4, <1>5

(* The machine computes in the same numbers.                               *)
LEMMA SameNumbers ==
  /\ \A x : Machine!Wrap(x) = Wrap(x) /\ Machine!FromBool(x) = FromBool(x)
  /\ \A x, y : Machine!Remainder(x, y) = Remainder(x, y)
  /\ \A c, i : Machine!Active(c, i) = Active(c, i)
  /\ Machine!Branches = Branches /\ Machine!UnconditionalBranches = UnconditionalBranches
  /\ Machine!MinInt = MinInt
<1> QED
  BY DEF Machine!Wrap, Wrap, Machine!FromBool, FromBool, Machine!Remainder, Remainder, Machine!Abs, Abs,
         Machine!Active, Active, Machine!Branches, Branches, Machine!UnconditionalBranches, UnconditionalBranches,
         Machine!ConditionalBranches, ConditionalBranches, Machine!MinInt, MinInt

(* A step in the mapped variables, from instruction i with the stack S on  *)
(* to instruction t with the stack T.                                      *)
Maps(i, S, t, T) ==
  /\ method' = method /\ arguments' = arguments /\ DOMAIN arguments = 0 .. 2
  /\ i \in Nat \ {0} /\ seen.pc = i /\ seen.operands = S
  /\ seen'.pc = Active(Code, t) /\ seen'.operands = T

(* What the machine's operators then are.                                  *)
LEMMA MachineIs ==
  ASSUME NEW i, NEW S, NEW t, NEW T, Maps(i, S, t, T)
  PROVE  /\ Machine!Ins1 = Code[i] /\ Machine!Running
         /\ \A k : Machine!Drop(k) = Cut(S, k)
         /\ Machine!Top = Last(S) /\ Machine!Under = Second(S)
         /\ Machine!Goto(t)
         /\ (\A n : Machine!ArgumentSlot(n) = IF method.hasThis THEN n + 1 ELSE n)
         /\ [k \in DOMAIN arguments |-> seen.frame[<<"arg", k>>]] = ArgsOf(seen.frame)
         /\ [k \in DOMAIN arguments |-> seen.frame[<<"arg", k>>]]' = ArgsOf(seen'.frame)
         /\ [k \in 0 .. 3 |-> seen.frame[<<"loc", k>>]] = LocalsOf(seen.frame)
         /\ [k \in 0 .. 3 |-> seen.frame[<<"loc", k>>]]' = LocalsOf(seen'.frame)
<1>1. /\ method' = method /\ arguments' = arguments /\ DOMAIN arguments = 0 .. 2
      /\ i \in Nat \ {0} /\ seen.pc = i /\ seen.operands = S
      /\ seen'.pc = Active(Code, t) /\ seen'.operands = T
  BY DEF Maps
<1>2. Machine!Ins1 = Code[i]
  BY <1>1 DEF Machine!Ins1
<1>3. Machine!Running
  BY <1>1 DEF Machine!Running
<1>4. \A k : Machine!Drop(k) = Cut(S, k)
  BY <1>1 DEF Machine!Drop, Cut
<1>5. Machine!Top = Last(S) /\ Machine!Under = Second(S)
  BY <1>1 DEF Machine!Top, Machine!Under, Last, Second
<1>6. Machine!Goto(t)
  <2>1. Machine!Active(Code, t) = Active(Code, t)
    BY SameNumbers
  <2>2. Code' = Code
    BY <1>1 DEF Code
  <2> QED
    BY <1>1, <2>1, <2>2 DEF Machine!Goto
<1>7. \A n : Machine!ArgumentSlot(n) = IF method.hasThis THEN n + 1 ELSE n
  BY DEF Machine!ArgumentSlot
<1>8. DOMAIN arguments' = 0 .. 2
  BY <1>1
<1> QED
  BY <1>1, <1>2, <1>3, <1>4, <1>5, <1>6, <1>7, <1>8 DEF ArgsOf, LocalsOf
-----------------------------------------------------------------------------
(* An effect is one on the variables only.                                 *)
LEMMA EffectSame ==
  ASSUME NEW ins, Ordinary(ins), NEW S, NEW T, NEW f, NEW g, NEW f2, NEW g2,
         SameVars(f, f2), SameVars(g, g2), Effect(ins, S, f, T, g)
  PROVE  Effect(ins, S, f2, T, g2)
<1>1. \A s \in VarSlots : f2[s] = f[s] /\ g2[s] = g[s]
  BY DEF SameVars
<1>2. SameVars(f, g) => SameVars(f2, g2)
  BY <1>1 DEF SameVars
<1>3. \A s \in VarSlots : \A v : Assigned(f, g, s, v) => Assigned(f2, g2, s, v)
  BY <1>1 DEF Assigned
<1>4. /\ ins.op \in {"Ldarg", "Starg"} => <<"arg", ins.n>> \in VarSlots
      /\ ins.op \in {"Ldloc", "Stloc"} => <<"loc", ins.n>> \in VarSlots
  BY SlotsNamed DEF Ordinary
<1> QED
  BY <1>1, <1>2, <1>3, <1>4 DEF Effect

(* The steps of the machine, from those of the mapped variables.           *)
LEMMA MachinePushes ==
  ASSUME NEW i, NEW S, NEW T, Maps(i, S, i + 1, T), SameVars(seen.frame, seen'.frame),
         NEW B, NEW v, T = Append(B, v)
  PROVE  Machine!Push(B, v)
<1>1. ArgsOf(seen'.frame) = ArgsOf(seen.frame) /\ LocalsOf(seen'.frame) = LocalsOf(seen.frame)
  BY VarsAre
<1>2. /\ Machine!Goto(i + 1)
      /\ [k \in DOMAIN arguments |-> seen.frame[<<"arg", k>>]] = ArgsOf(seen.frame)
      /\ [k \in DOMAIN arguments |-> seen.frame[<<"arg", k>>]]' = ArgsOf(seen'.frame)
      /\ [k \in 0 .. 3 |-> seen.frame[<<"loc", k>>]] = LocalsOf(seen.frame)
      /\ [k \in 0 .. 3 |-> seen.frame[<<"loc", k>>]]' = LocalsOf(seen'.frame)
  BY MachineIs
<1>3. seen.pc = i /\ seen'.operands = T
  BY DEF Maps
<1> QED
  BY <1>1, <1>2, <1>3 DEF Machine!Push

(* The effect of an instruction that goes on is the machine's step.        *)
LEMMA MachineFollows ==
  ASSUME NEW i, NEW S, NEW T, Maps(i, S, i + 1, T), NEW ins, ins = Code[i], Ordinary(ins),
         ins.op \in Supported \ {"Ret", "Nop"}, ins.op = "Starg" => ~method.hasThis,
         NEW f, NEW g, SameVars(f, seen.frame), SameVars(g, seen'.frame), Effect(ins, S, f, T, g)
  PROVE  Machine!Next
<1>1. Effect(ins, S, seen.frame, T, seen'.frame)
  BY EffectSame
<1>2. /\ Machine!Ins1 = ins /\ Machine!Running
      /\ \A k : Machine!Drop(k) = Cut(S, k)
      /\ Machine!Top = Last(S) /\ Machine!Under = Second(S)
      /\ Machine!Goto(i + 1)
      /\ (\A n : Machine!ArgumentSlot(n) = IF method.hasThis THEN n + 1 ELSE n)
      /\ [k \in DOMAIN arguments |-> seen.frame[<<"arg", k>>]] = ArgsOf(seen.frame)
      /\ [k \in DOMAIN arguments |-> seen.frame[<<"arg", k>>]]' = ArgsOf(seen'.frame)
      /\ [k \in 0 .. 3 |-> seen.frame[<<"loc", k>>]] = LocalsOf(seen.frame)
      /\ [k \in 0 .. 3 |-> seen.frame[<<"loc", k>>]]' = LocalsOf(seen'.frame)
  BY MachineIs
<1>3. seen.pc = i /\ seen.operands = S /\ seen'.operands = T /\ DOMAIN arguments = 0 .. 2
  BY DEF Maps
<1>4. ins.op \notin {"Starg", "Stloc"} =>
        ArgsOf(seen'.frame) = ArgsOf(seen.frame) /\ LocalsOf(seen'.frame) = LocalsOf(seen.frame)
  BY <1>1, VarsAre DEF Effect
<1>5. ins.op \notin {"Starg", "Stloc"} => SameVars(seen.frame, seen'.frame)
  BY <1>1 DEF Effect
<1>6. CASE ins.op \in {"Ldc_I4", "Ldarg", "Ldloc", "Dup"}
  <2>1. SameVars(seen.frame, seen'.frame)
    BY <1>5, <1>6
  <2>2. ins.op = "Ldc_I4" => Machine!Push(S, ins.n)
    BY <1>1, <2>1, MachinePushes DEF Effect
  <2>3. ins.op = "Ldarg" => Machine!Push(S, ArgsOf(seen.frame)[ins.n])
    <3> SUFFICES ASSUME ins.op = "Ldarg"
                 PROVE  Machine!Push(S, ArgsOf(seen.frame)[ins.n])
      OBVIOUS
    <3> DEFINE v == ArgsOf(seen.frame)[ins.n]
    <3>1. v = seen.frame[<<"arg", ins.n>>]
      BY DEF Ordinary, ArgsOf
    <3>2. T = Append(S, seen.frame[<<"arg", ins.n>>])
      BY <1>1 DEF Effect
    <3>3. T = Append(S, v)
      BY <3>1, <3>2
    <3> HIDE DEF v
    <3>4. Machine!Push(S, v)
      BY <2>1, <3>3, MachinePushes
    <3> QED
      BY <3>4 DEF v
  <2>4. ins.op = "Ldloc" => Machine!Push(S, LocalsOf(seen.frame)[ins.n])
    <3> SUFFICES ASSUME ins.op = "Ldloc"
                 PROVE  Machine!Push(S, LocalsOf(seen.frame)[ins.n])
      OBVIOUS
    <3> DEFINE v == LocalsOf(seen.frame)[ins.n]
    <3>1. v = seen.frame[<<"loc", ins.n>>]
      BY DEF Ordinary, LocalsOf
    <3>2. T = Append(S, seen.frame[<<"loc", ins.n>>])
      BY <1>1 DEF Effect
    <3>3. T = Append(S, v)
      BY <3>1, <3>2
    <3> HIDE DEF v
    <3>4. Machine!Push(S, v)
      BY <2>1, <3>3, MachinePushes
    <3> QED
      BY <3>4 DEF v
  <2>5. ins.op = "Dup" => Machine!Push(S, Last(S))
    BY <1>1, <2>1, MachinePushes DEF Effect
  <2>6. Machine!Load
    BY <1>2, <1>3, <1>6, <2>2, <2>3, <2>4, <2>5 DEF Machine!Load
  <2> QED
    BY <1>2, <2>6 DEF Machine!Next
<1>7. CASE ins.op \in {"Add", "Sub", "Mul", "Ceq", "Clt", "Cgt", "Rem", "Neg"}
  <2>1. SameVars(seen.frame, seen'.frame)
    BY <1>5, <1>7
  <2>2. /\ ins.op = "Add" => Machine!Push(Cut(S, 2), Wrap(Second(S) + Last(S)))
        /\ ins.op = "Sub" => Machine!Push(Cut(S, 2), Wrap(Second(S) - Last(S)))
        /\ ins.op = "Mul" => Machine!Push(Cut(S, 2), Wrap(Second(S) * Last(S)))
        /\ ins.op = "Rem" => Machine!Push(Cut(S, 2), Remainder(Second(S), Last(S))) /\ Last(S) # 0
        /\ ins.op = "Ceq" => Machine!Push(Cut(S, 2), FromBool(Second(S) = Last(S)))
        /\ ins.op = "Clt" => Machine!Push(Cut(S, 2), FromBool(Second(S) < Last(S)))
        /\ ins.op = "Cgt" => Machine!Push(Cut(S, 2), FromBool(Second(S) > Last(S)))
        /\ ins.op = "Neg" => Machine!Push(Cut(S, 1), Wrap(-Last(S)))
    BY <1>1, <2>1, MachinePushes DEF Effect
  <2>3. Machine!Arithmetic
    BY <1>2, <1>7, <2>2, SameNumbers DEF Machine!Arithmetic
  <2> QED
    BY <1>2, <2>3 DEF Machine!Next
<1>8. CASE ins.op \in {"Starg", "Stloc", "Pop", "CallObjectCtor"}
  <2>1. T = Cut(S, 1)
    BY <1>1, <1>8 DEF Effect
  <2>2. ins.op = "Starg" =>
          /\ ArgsOf(seen'.frame) = [ArgsOf(seen.frame) EXCEPT ![ins.n] = Last(S)]
          /\ LocalsOf(seen'.frame) = LocalsOf(seen.frame)
    BY <1>1, VarsAre DEF Effect, Ordinary
  <2>3. ins.op = "Stloc" =>
          /\ LocalsOf(seen'.frame) = [LocalsOf(seen.frame) EXCEPT ![ins.n] = Last(S)]
          /\ ArgsOf(seen'.frame) = ArgsOf(seen.frame)
    BY <1>1, VarsAre DEF Effect, Ordinary
  <2>4. ins.op = "Starg" => Machine!ArgumentSlot(ins.n) = ins.n
    BY <1>2
  <2>5. Machine!Store
    BY <1>2, <1>3, <1>4, <1>8, <2>1, <2>2, <2>3, <2>4 DEF Machine!Store
  <2> QED
    BY <1>2, <2>5 DEF Machine!Next
<1>9. CASE ins.op \in DOMAIN BranchTests
  <2>1. T = Cut(S, Taking(ins)) /\ ~IsTaken(ins, S)
    BY <1>1, <1>9 DEF Effect
  <2>2. ins.op \in {"Brtrue_S", "Brfalse_S", "Beq_S", "Bgt_S", "Blt_S", "Ble_S"}
    BY <1>9, <2>1 DEF BranchTests, IsTaken
  <2>3. Machine!Consumed = Taking(ins)
    BY <1>2, <2>2, SameNumbers DEF Machine!Consumed, Taking, UnconditionalBranches
  <2>4. ~Machine!Taken
    BY <1>2, <2>1, <2>2, SameNumbers DEF Machine!Taken, IsTaken, UnconditionalBranches
  <2>5. ins.op \in Machine!Branches
    BY <2>2, SameNumbers DEF Branches, ConditionalBranches
  <2>6. ins.op \notin {"Starg", "Stloc"}
    BY <2>2
  <2>7. Machine!Branch
    BY <1>2, <1>3, <1>4, <2>1, <2>3, <2>4, <2>5, <2>6 DEF Machine!Branch
  <2> QED
    BY <1>2, <2>7 DEF Machine!Next
<1>10. CASE ins.op = "Switch"
  <2>1. T = Cut(S, 1) /\ Last(S) \notin 0 .. Len(ins.targets) - 1
    BY <1>1, <1>10 DEF Effect
  <2>2. Machine!Switch
    BY <1>2, <1>3, <1>4, <1>10, <2>1 DEF Machine!Switch
  <2> QED
    BY <1>2, <2>2 DEF Machine!Next
<1> QED
  BY <1>6, <1>7, <1>8, <1>9, <1>10 DEF Supported, StraightOps, SimpleOps, Ordinary
-----------------------------------------------------------------------------
(* How many values a branch that is taken leaves behind itself on S.       *)
Left(ins, S) == Cut(S, IF ins.op = "Br_S" THEN 0 ELSE Taking(ins))

(* The machine takes a branch.                                             *)
LEMMA MachineJumps ==
  ASSUME NEW i, NEW S, NEW t, NEW T, Maps(i, S, t, T), NEW ins, ins = Code[i], Ordinary(ins),
         ins.op \in DOMAIN BranchTests, IsTaken(ins, S), t = ins.targets[1], T = Left(ins, S),
         SameVars(seen.frame, seen'.frame)
  PROVE  Machine!Next
<1>1. /\ Machine!Ins1 = ins /\ Machine!Running
      /\ \A k : Machine!Drop(k) = Cut(S, k)
      /\ Machine!Top = Last(S) /\ Machine!Under = Second(S)
      /\ Machine!Goto(t)
      /\ [k \in DOMAIN arguments |-> seen.frame[<<"arg", k>>]] = ArgsOf(seen.frame)
      /\ [k \in DOMAIN arguments |-> seen.frame[<<"arg", k>>]]' = ArgsOf(seen'.frame)
      /\ [k \in 0 .. 3 |-> seen.frame[<<"loc", k>>]] = LocalsOf(seen.frame)
      /\ [k \in 0 .. 3 |-> seen.frame[<<"loc", k>>]]' = LocalsOf(seen'.frame)
  BY MachineIs
<1>2. ArgsOf(seen'.frame) = ArgsOf(seen.frame) /\ LocalsOf(seen'.frame) = LocalsOf(seen.frame)
  BY VarsAre
<1>3. seen'.operands = T
  BY DEF Maps
<1>4. ins.op \in {"Br_S", "Brtrue_S", "Brfalse_S", "Beq_S", "Bgt_S", "Blt_S", "Ble_S"}
  BY DEF BranchTests
<1>5. Machine!Consumed = IF ins.op = "Br_S" THEN 0 ELSE Taking(ins)
  BY <1>1, <1>4, SameNumbers DEF Machine!Consumed, Taking, UnconditionalBranches
<1>6. Machine!Taken
  BY <1>1, <1>4, SameNumbers DEF Machine!Taken, IsTaken, UnconditionalBranches
<1>7. ins.op \in Machine!Branches
  BY <1>4, SameNumbers DEF Branches, ConditionalBranches, UnconditionalBranches
<1>8. Machine!Branch
  BY <1>1, <1>2, <1>3, <1>5, <1>6, <1>7 DEF Machine!Branch, Left
<1> QED
  BY <1>1, <1>8 DEF Machine!Next

(* The machine takes a jump of a switch.                                   *)
LEMMA MachineSwitches ==
  ASSUME NEW i, NEW S, NEW t, NEW T, Maps(i, S, t, T), NEW ins, ins = Code[i],
         ins.op = "Switch", Last(S) \in 0 .. Len(ins.targets) - 1, t = ins.targets[Last(S) + 1],
         T = Cut(S, 1), SameVars(seen.frame, seen'.frame)
  PROVE  Machine!Next
<1>1. /\ Machine!Ins1 = ins /\ Machine!Running
      /\ \A k : Machine!Drop(k) = Cut(S, k)
      /\ Machine!Top = Last(S)
      /\ Machine!Goto(t)
      /\ [k \in DOMAIN arguments |-> seen.frame[<<"arg", k>>]] = ArgsOf(seen.frame)
      /\ [k \in DOMAIN arguments |-> seen.frame[<<"arg", k>>]]' = ArgsOf(seen'.frame)
      /\ [k \in 0 .. 3 |-> seen.frame[<<"loc", k>>]] = LocalsOf(seen.frame)
      /\ [k \in 0 .. 3 |-> seen.frame[<<"loc", k>>]]' = LocalsOf(seen'.frame)
  BY MachineIs
<1>2. ArgsOf(seen'.frame) = ArgsOf(seen.frame) /\ LocalsOf(seen'.frame) = LocalsOf(seen.frame)
  BY VarsAre
<1>3. seen'.operands = T
  BY DEF Maps
<1>4. Machine!Switch
  BY <1>1, <1>2, <1>3 DEF Machine!Switch
<1> QED
  BY <1>1, <1>4 DEF Machine!Next

(* The mapped variables but for the position in the body stay.             *)
Keeps ==
  /\ method' = method /\ arguments' = arguments /\ DOMAIN arguments = 0 .. 2
  /\ seen'.operands = seen.operands /\ SameVars(seen.frame, seen'.frame)

(* Then so do the machine's variables but for pc.                          *)
LEMMA MachineKeeps ==
  ASSUME Keeps
  PROVE  /\ [body |-> Code, hasThis |-> method.hasThis, args |-> arguments]'
              = [body |-> Code, hasThis |-> method.hasThis, args |-> arguments]
         /\ seen.operands' = seen.operands
         /\ [k \in DOMAIN arguments |-> seen.frame[<<"arg", k>>]]'
              = [k \in DOMAIN arguments |-> seen.frame[<<"arg", k>>]]
         /\ [k \in 0 .. 3 |-> seen.frame[<<"loc", k>>]]' = [k \in 0 .. 3 |-> seen.frame[<<"loc", k>>]]
<1>1. ArgsOf(seen'.frame) = ArgsOf(seen.frame) /\ LocalsOf(seen'.frame) = LocalsOf(seen.frame)
  BY VarsAre DEF Keeps
<1>2. Code' = Code /\ method' = method /\ arguments' = arguments /\ DOMAIN arguments = 0 .. 2
  BY DEF Keeps, Code
<1>3. seen'.operands = seen.operands
  BY DEF Keeps
<1> QED
  BY <1>1, <1>2, <1>3 DEF ArgsOf, LocalsOf

(* The machine returns, or throws.                                         *)
LEMMA MachineEnds ==
  ASSUME Keeps, NEW i \in Nat \ {0}, seen.pc = i,
         \/ Code[i].op = "Ret" /\ seen'.pc = 0
         \/ Code[i].op = "Rem" /\ Last(seen.operands) = 0 /\ seen'.pc = -1
  PROVE  Machine!Next
<1>1. Machine!Ins1 = Code[i] /\ Machine!Running
  BY DEF Machine!Ins1, Machine!Running
<1>2. Machine!Top = Last(seen.operands)
  BY DEF Machine!Top, Last
<1>3. Machine!Return \/ Machine!Throw
  BY <1>1, <1>2, MachineKeeps DEF Machine!Return, Machine!Throw
<1> QED
  BY <1>1, <1>3 DEF Machine!Next

(* The machine does nothing.                                               *)
LEMMA MachineStays ==
  ASSUME Keeps, seen'.pc = seen.pc
  PROVE  UNCHANGED Machine!vars
<1> QED
  BY MachineKeeps DEF Machine!vars
-----------------------------------------------------------------------------
(* The least number with a property.                                       *)
LEMMA LeastExists ==
  ASSUME NEW S \in SUBSET Nat, S # {}
  PROVE  \E x \in S : \A y \in S : x <= y
<1>1. PICK x \in S : \A y \in S : ~(<<y, x>> \in OpToRel(<, Nat))
  BY NatLessThanWellFounded, WFMin
<1>2. \A y \in S : ~(y < x)
  BY <1>1 DEF OpToRel
<1>3. \A y \in S : y \in Nat /\ x \in Nat
  OBVIOUS
<1> QED
  BY <1>2, <1>3

(* The heights of the evaluation stack the theorem needs of a body.        *)
Height(h) == h \in Heights /\ EmptyAtTargets(h)

(* Opcodes that give 0 or 1.                                               *)
Comparisons == {"Ceq", "Clt", "Cgt"}

(* The methods whose calls CilMachine speaks of and of which the compiled  *)
(* code is right.  Starg counts as Ldarg does without a "this" only, and   *)
(* the evaluation stack is empty where a branch arrives.                   *)
Faithful ==
  /\ Code # <<>>
  /\ \A i \in DOMAIN Code :
       /\ Ordinary(Code[i])
       /\ Code[i].op = "Starg" => ~method.hasThis
  /\ \E h : Height(h)

(* A Brfalse_S subtracts 1 for "not", which is right of 0 and 1 only.  What *)
(* it tests is one of these right behind a comparison.                     *)
BehindComparison(i) ==
  i > 1 /\ Code[i - 1].op \in Comparisons /\ i \notin SortedOffsets(Code)

(* Elsewhere it depends on the values a call computes: of a truth value    *)
(* that was kept in a local, or was given as an argument, it is one too.   *)
(* The CIL call is about to execute seen.pc on the stack seen.operands.    *)
TestsBooleans ==
  seen.pc \in DOMAIN Code /\ Code[seen.pc].op = "Brfalse_S" /\ ~BehindComparison(seen.pc)
    => Last(seen.operands) \in {0, 1}

(* The first instruction that does something is there.                     *)
LEMMA ActiveIs ==
  ASSUME method \in Methods, NEW t \in 1 .. Len(Code), NEW a, a = Active(Code, t)
  PROVE  /\ a \in t .. Len(Code) /\ a \in 1 .. Len(Code)
         /\ \A k \in t .. a - 1 : Code[k].op = "Nop"
<1> DEFINE P(j) == /\ j \in t .. Len(Code) /\ Code[j].op # "Nop"
                   /\ \A k \in t .. j - 1 : Code[k].op = "Nop"
           S == {j \in t .. Len(Code) : Code[j].op # "Nop"}
<1>1. Len(Code) \in Nat /\ t \in Nat /\ 1 <= t /\ t <= Len(Code)
  BY CodeFacts
<1>2. Code[Len(Code)].op \in LastOps
  <2>1. WellFormedBody(Code)
    BY CodeFacts
  <2>2. Code # <<>>
    BY <1>1
  <2> QED
    BY <2>1, <2>2 DEF WellFormedBody
<1>3. Len(Code) \in S
  BY <1>1, <1>2 DEF LastOps, UnconditionalBranches
<1>4. S \in SUBSET Nat
  BY <1>1
<1>5. PICK j \in S : \A y \in S : j <= y
  BY <1>3, <1>4, LeastExists
<1>6. P(j)
  <2>1. ASSUME NEW k \in t .. j - 1, Code[k].op # "Nop" PROVE FALSE
    <3>1. j \in Nat /\ j <= Len(Code) /\ k \in t .. Len(Code) /\ k < j /\ k \in Nat
      BY <1>1, <1>4
    <3>2. j <= k
      BY <1>5, <2>1, <3>1
    <3> QED
      BY <3>1, <3>2
  <2> QED
    BY <2>1
<1>7. P(a)
  BY <1>6 DEF Active
<1> QED
  BY <1>1, <1>7

(* It has the height of the first.                                         *)
LEMMA HeightActive ==
  ASSUME method \in Methods, NEW h, Height(h), NEW t \in 1 .. Len(Code), NEW a, a = Active(Code, t)
  PROVE  h[a] = h[t]
<1>1. /\ a \in t .. Len(Code) /\ \A k \in t .. a - 1 : Code[k].op = "Nop"
      /\ Len(Code) \in Nat /\ DOMAIN Code = 1 .. Len(Code)
  BY ActiveIs, CodeFacts
<1>2. ASSUME NEW k \in t .. a - 1 PROVE h[k + 1] = h[k]
  <2>1. k \in DOMAIN Code /\ Code[k].op = "Nop"
    BY <1>1
  <2>2. k + 1 \in Successors(k)
    BY <2>1 DEF Successors, UnconditionalBranches
  <2>3. h[k + 1] = h[k] - CilTakes(Code[k]) + CilGives(Code[k]) /\ h[k] \in 0 .. MaxHeight
    BY <2>1, <2>2 DEF Height, Heights
  <2>4. CilTakes(Code[k]) = 0 /\ CilGives(Code[k]) = 0
    BY <2>1 DEF CilTakes, CilGives
  <2> QED
    BY <2>3, <2>4, MaxHeightAssumption
<1> DEFINE S == {k \in t .. a : h[k] # h[t]}
<1>3. SUFFICES ASSUME S # {} PROVE FALSE
  <2>1. a \in t .. a
    BY <1>1
  <2> QED
    BY <2>1
<1>4. S \in SUBSET Nat
  BY <1>1
<1>5. PICK k \in S : \A y \in S : k <= y
  BY <1>3, <1>4, LeastExists
<1>6. k - 1 \in t .. a - 1 /\ k - 1 \in t .. a /\ k \in Nat /\ (k - 1) + 1 = k
  BY <1>1, <1>4, <1>5
<1>7. h[k - 1] = h[t]
  <2>1. ~(k <= k - 1)
    BY <1>6
  <2> QED
    BY <1>5, <1>6, <2>1
<1>8. h[(k - 1) + 1] = h[k - 1]
  BY <1>2, <1>6
<1>9. h[k] = h[t]
  BY <1>6, <1>7, <1>8
<1> QED
  BY <1>5, <1>9

(* What stands right behind a comparison is come to by no other way.       *)
LEMMA ActiveOnly ==
  ASSUME method \in Methods, NEW t \in 1 .. Len(Code), NEW a, a = Active(Code, t),
         BehindComparison(a)
  PROVE  t = a
<1>1. a \in t .. Len(Code) /\ a \in 1 .. Len(Code) /\ \A k \in t .. a - 1 : Code[k].op = "Nop"
  BY ActiveIs
<1>2. a > 1 /\ Code[a - 1].op \in Comparisons
  BY DEF BehindComparison
<1>3. ASSUME t < a PROVE FALSE
  <2>1. a - 1 \in t .. a - 1
    BY <1>1, <1>3
  <2>2. Code[a - 1].op = "Nop"
    BY <1>1, <2>1
  <2> QED
    BY <1>2, <2>2 DEF Comparisons
<1> QED
  BY <1>1, <1>3
-----------------------------------------------------------------------------
(* The snapshot fits the heights h.                                        *)
Fit(h, s) ==
  s.pc > 0 =>
    /\ s.pc \in 1 .. Len(Code)
    /\ Len(s.operands) = h[s.pc]
    /\ Code[s.pc].op = "Brfalse_S" /\ BehindComparison(s.pc) => Last(s.operands) \in {0, 1}

(* Coming to t with the stack S.                                           *)
Suits(h, t, S) ==
  Len(S) = h[t] /\ (Code[t].op = "Brfalse_S" /\ BehindComparison(t) => Last(S) \in {0, 1})

(* Who comes so to t fits at the instruction that does something.          *)
LEMMA SuitsFit ==
  ASSUME method \in Methods, NEW h, Height(h), NEW t \in 1 .. Len(Code), NEW s, Suits(h, t, s.operands),
         s.pc = Active(Code, t)
  PROVE  Fit(h, s)
<1>1. s.pc \in 1 .. Len(Code) /\ h[s.pc] = h[t]
  BY ActiveIs, HeightActive
<1>2. BehindComparison(s.pc) => t = s.pc
  BY ActiveOnly
<1> QED
  BY <1>1, <1>2 DEF Fit, Suits

(* At the start, and where a branch arrives.                               *)
LEMMA SuitsEmpty ==
  ASSUME method \in Methods, Faithful, NEW h, Height(h), NEW t, t = 1 \/ t \in SortedOffsets(Code)
  PROVE  Suits(h, t, <<>>)
<1>1. h[t] = 0
  BY DEF Height, Heights, EmptyAtTargets
<1>2. t \in 1 .. Len(Code)
  <2>1. Code # <<>>
    BY DEF Faithful
  <2>2. 1 \in 1 .. Len(Code)
    BY <2>1, CodeFacts, EmptySeq
  <2>3. SortedOffsets(Code) \subseteq 1 .. Len(Code)
    BY CodeFacts DEF SortedOffsets, TryGetJumpTarget
  <2> QED
    BY <2>2, <2>3
<1>3. ~BehindComparison(t)
  BY <1>2 DEF BehindComparison
<1>4. Len(<<>>) = 0
  OBVIOUS
<1> QED
  BY <1>1, <1>3, <1>4 DEF Suits

(* The heights of the evaluation stack are those of the method.            *)
LEMMA FaithfulStays ==
  ASSUME method' = method
  PROVE  /\ Code' = Code /\ (Faithful => Faithful')
         /\ \A g : Height(g) => Height(g)'
         /\ \A g, s : Fit(g, s) => Fit(g, s)'
<1>1. Code' = Code /\ Arity' = Arity
  BY DEF Code, Arity
<1>2. ASSUME NEW g, Height(g) PROVE Height(g)'
  <2>1. \A ins : CilTakes(ins)' = CilTakes(ins)
    BY <1>1 DEF CilTakes
  <2>2. \A i : Successors(i)' = Successors(i)
    BY <1>1 DEF Successors
  <2>3. g \in Heights'
    BY <1>1, <1>2, <2>1, <2>2 DEF Height, Heights
  <2>4. EmptyAtTargets(g)'
    BY <1>1, <1>2 DEF Height, EmptyAtTargets
  <2> QED
    BY <2>3, <2>4 DEF Height
<1>3. Faithful => Faithful'
  BY <1>1, <1>2 DEF Faithful
<1>4. \A g, s : Fit(g, s) => Fit(g, s)'
  BY <1>1 DEF Fit, BehindComparison
<1> QED
  BY <1>1, <1>2, <1>3, <1>4
-----------------------------------------------------------------------------
(* What an instruction leaves behind itself fits the next one.             *)
LEMMA EffectHeight ==
  ASSUME NEW ins, Ordinary(ins), ins.op \in Supported \ {"Br_S", "Ret", "Nop"},
         NEW S \in Seq(Int), CilTakes(ins) <= Len(S), NEW f \in [Slots -> Int], NEW T, NEW g, Effect(ins, S, f, T, g)
  PROVE  /\ T \in Seq(Int) /\ Len(T) = Len(S) - CilTakes(ins) + CilGives(ins)
         /\ ins.op \in Comparisons => Last(T) \in {0, 1}
<1>1. ins \in CilInstr /\ ins.n \in Int /\ Len(S) \in Nat
  BY DEF Ordinary, CilInstr
<1>2. CASE ins.op \in {"Ldc_I4", "Ldarg", "Ldloc"}
  <2>1. \E v \in Int : T = Append(S, v)
    BY <1>1, <1>2, SlotsNamed DEF Effect, Ordinary
  <2>2. CilTakes(ins) = 0 /\ CilGives(ins) = 1
    BY <1>2 DEF CilTakes, CilGives
  <2>3. ins.op \notin Comparisons
    BY <1>2 DEF Comparisons
  <2> QED
    BY <1>1, <2>1, <2>2, <2>3, Pushed
<1>3. CASE ins.op = "Dup"
  <2>1. CilTakes(ins) = 1 /\ CilGives(ins) = 2
    BY <1>3 DEF CilTakes, CilGives
  <2>2. T = Append(S, Last(S)) /\ Last(S) \in Int
    <3>1. Len(S) >= 1
      BY <1>1, <2>1
    <3> QED
      BY <1>3, <3>1, Popped DEF Effect
  <2> QED
    BY <1>1, <1>3, <2>1, <2>2, Pushed DEF Comparisons
<1>4. CASE ins.op \in {"Add", "Sub", "Mul", "Rem", "Ceq", "Clt", "Cgt"}
  <2>1. CilTakes(ins) = 2 /\ CilGives(ins) = 1
    BY <1>4 DEF CilTakes, CilGives
  <2>2. /\ Len(S) >= 2 /\ Second(S) \in Int /\ Last(S) \in Int
        /\ Cut(S, 2) \in Seq(Int) /\ Len(Cut(S, 2)) = Len(S) - 2
    <3>1. Len(S) >= 2 /\ 2 \in Nat
      BY <1>1, <2>1
    <3> QED
      BY <3>1, Popped
  <2>3. \E v \in Int : T = Append(Cut(S, 2), v) /\ (ins.op \in Comparisons => v \in {0, 1})
    <3>1. CASE ins.op \in {"Add", "Sub", "Mul"}
      <4>1. /\ Wrap(Second(S) + Last(S)) \in Int /\ Wrap(Second(S) - Last(S)) \in Int
            /\ Wrap(Second(S) * Last(S)) \in Int
        <5>1. \A x, y \in Int : x + y \in Int /\ x - y \in Int /\ x * y \in Int
          OBVIOUS
        <5> QED
          BY <2>2, <5>1, Numbers
      <4> QED
        BY <3>1, <4>1 DEF Effect, Comparisons
    <3>2. CASE ins.op = "Rem"
      <4>1. Last(S) # 0 => Remainder(Second(S), Last(S)) \in Int
        BY <2>2, Numbers
      <4> QED
        BY <3>2, <4>1 DEF Effect, Comparisons
    <3>3. CASE ins.op \in {"Ceq", "Clt", "Cgt"}
      <4>1. \A p : FromBool(p) \in {0, 1} /\ FromBool(p) \in Int
        BY DEF FromBool
      <4> QED
        BY <3>3, <4>1 DEF Effect
    <3> QED
      BY <1>4, <3>1, <3>2, <3>3
  <2> QED
    BY <1>1, <2>1, <2>2, <2>3, Pushed
<1>5. CASE ins.op = "Neg"
  <2>1. CilTakes(ins) = 1 /\ CilGives(ins) = 1
    BY <1>5 DEF CilTakes, CilGives
  <2>2. Last(S) \in Int /\ Cut(S, 1) \in Seq(Int) /\ Len(Cut(S, 1)) = Len(S) - 1
    <3>1. Len(S) >= 1 /\ 1 \in Nat
      BY <1>1, <2>1
    <3> QED
      BY <3>1, Popped
  <2>3. T = Append(Cut(S, 1), Wrap(-Last(S))) /\ Wrap(-Last(S)) \in Int
    <3>1. -Last(S) \in Int
      BY <2>2
    <3> QED
      BY <1>5, <3>1, Numbers DEF Effect
  <2> QED
    BY <1>1, <1>5, <2>1, <2>2, <2>3, Pushed DEF Comparisons
<1>6. CASE ins.op \in {"Starg", "Stloc", "Pop", "CallObjectCtor", "Switch", "Brtrue_S", "Brfalse_S"}
  <2>1. CilTakes(ins) = 1 /\ CilGives(ins) = 0
    BY <1>6 DEF CilTakes, CilGives
  <2>2. T = Cut(S, 1)
    BY <1>6 DEF Effect, Taking, BranchTests
  <2>3. ins.op \notin Comparisons
    BY <1>6 DEF Comparisons
  <2>4. Cut(S, 1) \in Seq(Int) /\ Len(Cut(S, 1)) = Len(S) - 1
    <3>1. Len(S) >= 1 /\ 1 \in Nat
      BY <1>1, <2>1
    <3> QED
      BY <3>1, Popped
  <2> QED
    BY <1>1, <2>1, <2>2, <2>3, <2>4
<1>7. CASE ins.op \in {"Beq_S", "Bgt_S", "Blt_S", "Ble_S"}
  <2>1. CilTakes(ins) = 2 /\ CilGives(ins) = 0
    BY <1>7 DEF CilTakes, CilGives
  <2>2. T = Cut(S, 2)
    BY <1>7 DEF Effect, Taking, BranchTests
  <2>3. ins.op \notin Comparisons
    BY <1>7 DEF Comparisons
  <2>4. Cut(S, 2) \in Seq(Int) /\ Len(Cut(S, 2)) = Len(S) - 2
    <3>1. Len(S) >= 2 /\ 2 \in Nat
      BY <1>1, <2>1
    <3> QED
      BY <3>1, Popped
  <2> QED
    BY <1>1, <2>1, <2>2, <2>3, <2>4
<1> QED
  BY <1>2, <1>3, <1>4, <1>5, <1>6, <1>7 DEF Supported, StraightOps, SimpleOps, BranchTests, Ordinary

(* The height of what it leaves, and its truth value for a Brfalse_S.      *)
LEMMA EffectSuits ==
  ASSUME method \in Methods, Faithful, NEW h, Height(h), NEW i \in 1 .. Len(Code), i + 1 \in 1 .. Len(Code),
         Code[i].op \in Supported \ {"Br_S", "Ret", "Nop"},
         NEW S \in Seq(Int), Len(S) = h[i], NEW f \in [Slots -> Int], NEW T, NEW g, Effect(Code[i], S, f, T, g)
  PROVE  T \in Seq(Int) /\ Suits(h, i + 1, T)
<1>1. i \in DOMAIN Code /\ i + 1 \in DOMAIN Code /\ Ordinary(Code[i]) /\ i \in Nat /\ (i + 1) - 1 = i
  <2>1. i \in DOMAIN Code /\ i + 1 \in DOMAIN Code
    BY CodeFacts
  <2>2. Ordinary(Code[i])
    BY <2>1 DEF Faithful
  <2>3. Len(Code) \in Nat /\ i \in Nat
    BY CodeFacts
  <2>4. (i + 1) - 1 = i
    BY <2>3
  <2> QED
    BY <2>1, <2>2, <2>3, <2>4
<1>2. Code[i].op \notin UnconditionalBranches
  BY DEF UnconditionalBranches, Supported, StraightOps, SimpleOps, BranchTests
<1>3. i + 1 \in Successors(i)
  BY <1>2 DEF Successors
<1>4. h[i] >= CilTakes(Code[i]) /\ h[i + 1] = h[i] - CilTakes(Code[i]) + CilGives(Code[i])
  BY <1>1, <1>3 DEF Height, Heights
<1>5. CilTakes(Code[i]) <= Len(S)
  <2>1. h[i] \in Nat
    BY <1>1, MaxHeightAssumption DEF Height, Heights
  <2>2. CilTakes(Code[i]) \in Nat
    <3>1. Code[i].op \notin {"Call", "Callvirt", "Newobj"}
      BY <1>1 DEF Ordinary
    <3> QED
      BY <3>1 DEF CilTakes, Arity
  <2> QED
    BY <1>4, <2>1, <2>2
<1>6. /\ T \in Seq(Int) /\ Len(T) = Len(S) - CilTakes(Code[i]) + CilGives(Code[i])
      /\ Code[i].op \in Comparisons => Last(T) \in {0, 1}
  BY <1>1, <1>5, EffectHeight
<1>7. BehindComparison(i + 1) => Code[i].op \in Comparisons
  BY <1>1 DEF BehindComparison
<1> QED
  BY <1>4, <1>6, <1>7 DEF Suits

(* So does an empty evaluation stack the target of a branch.               *)
LEMMA JumpSuits ==
  ASSUME method \in Methods, Faithful, NEW h, Height(h), NEW i \in 1 .. Len(Code),
         Code[i].op \in DOMAIN BranchTests \cup {"Switch"},
         NEW S \in Seq(Int), Len(S) = h[i], NEW t, t \in TryGetJumpTarget(Code[i])
  PROVE  /\ t \in 1 .. Len(Code) /\ Suits(h, t, <<>>)
         /\ (IF Code[i].op = "Switch" THEN Cut(S, 1) ELSE Left(Code[i], S)) = <<>>
<1>1. i \in DOMAIN Code /\ DOMAIN Code = 1 .. Len(Code)
  BY CodeFacts
<1>2. t \in SortedOffsets(Code)
  BY <1>1 DEF SortedOffsets
<1>3. t \in 1 .. Len(Code)
  BY <1>2, CodeFacts, SortedOffsetsFinite
<1>4. h[t] = 0 /\ h[t] = h[i] - CilTakes(Code[i]) + CilGives(Code[i])
  <2>1. t \in Successors(i)
    BY DEF Successors
  <2> QED
    BY <1>1, <1>2, <2>1 DEF Height, Heights, EmptyAtTargets
<1> DEFINE k == IF Code[i].op = "Switch" THEN 1 ELSE IF Code[i].op = "Br_S" THEN 0 ELSE Taking(Code[i])
<1>5. CilTakes(Code[i]) = k /\ k \in Nat /\ CilGives(Code[i]) = 0
  BY DEF CilTakes, CilGives, Taking, BranchTests
<1>6. (IF Code[i].op = "Switch" THEN Cut(S, 1) ELSE Left(Code[i], S)) = Cut(S, k)
  BY DEF Left
<1> HIDE DEF k
<1>7. Len(S) = k
  <2>1. Len(S) \in Nat
    OBVIOUS
  <2> QED
    BY <1>4, <1>5, <2>1
<1>8. Cut(S, k) = <<>>
  <2>1. k <= Len(S)
    BY <1>5, <1>7
  <2>2. Cut(S, k) \in Seq(Int) /\ Len(Cut(S, k)) = Len(S) - k
    BY <1>5, <2>1, Popped
  <2>3. Len(S) - k = 0
    BY <1>5, <1>7
  <2> QED
    BY <2>2, <2>3, EmptySeq
<1>9. Suits(h, t, <<>>)
  BY <1>2, SuitsEmpty
<1> QED
  BY <1>3, <1>6, <1>8, <1>9
-----------------------------------------------------------------------------
(* When the engine takes a snapshot.                                       *)
PlaceAt(st, q) == [status |-> st, at |-> ReachedFrom(q)]

(* It takes one if it has then come to another place.                      *)
LEMMA KeepsPlace ==
  ASSUME UNCHANGED compilerVars, KeepSeen
  PROVE  seen' = IF PlaceAt(status', ip') # PlaceAt(status, ip)
                 THEN [pc |-> Pc', operands |-> operands', frame |-> frame'] ELSE seen
<1>1. Place = PlaceAt(status, ip)
  BY DEF Place, PlaceAt, Reached, ReachedFrom
<1>2. Code' = Code /\ \A i : CodeOf(i)' = CodeOf(i)
  BY DEF compilerVars, Code, CodeOf
<1>3. Place' = PlaceAt(status', ip')
  BY <1>2 DEF Place, PlaceAt, Reached, ReachedFrom
<1> QED
  BY <1>1, <1>3 DEF KeepSeen, Snapshot

(* It takes none on its way through the head or the code of instruction i. *)
LEMMA SeenStays ==
  ASSUME Compiled, UNCHANGED compilerVars, KeepSeen, status' = status, ip \in Nat, ip' \in Nat,
         \/ InTheHead(ip) /\ InTheHead(ip')
         \/ \E i \in 1 .. Len(Code) : Covers(i, ip) /\ Covers(i, ip')
  PROVE  seen' = seen
<1>1. \A q \in Nat : InTheHead(q) => ReachedFrom(q) = {}
  <2>1. HeadLast \in Nat /\ HeadLast < HeadEnd(Len(jumpTargets)) /\ HeadEnd(Len(jumpTargets)) \in Nat
    BY HeadIsFirst, Places
  <2>2. \A q \in Nat : InTheHead(q) => q < HeadEnd(Len(jumpTargets))
    BY <2>1 DEF InTheHead
  <2> QED
    BY <2>2, ReachedWhen
<1>2. ReachedFrom(ip') = ReachedFrom(ip)
  <2>1. CASE InTheHead(ip) /\ InTheHead(ip')
    BY <1>1, <2>1
  <2>2. CASE \E i \in 1 .. Len(Code) : Covers(i, ip) /\ Covers(i, ip')
    BY <2>2, ReachedWhen
  <2> QED
    BY <2>1, <2>2
<1> QED
  BY <1>2, KeepsPlace DEF PlaceAt

(* It does when it leaves them, and at the end of the call.                *)
LEMMA SeenMoves ==
  ASSUME Compiled, UNCHANGED compilerVars, KeepSeen, ip \in Nat, ip' \in Nat,
         \/ status' # status
         \/ InTheHead(ip) /\ \E r \in 1 .. Len(Code) : Covers(r, ip')
         \/ InTheHead(ip') /\ \E i \in 1 .. Len(Code) : Covers(i, ip)
         \/ \E i, r \in 1 .. Len(Code) : Covers(i, ip) /\ Covers(r, ip') /\ r # i
  PROVE  seen' = [pc |-> Pc', operands |-> operands', frame |-> frame']
<1>1. \A q \in Nat : InTheHead(q) => ReachedFrom(q) = {}
  <2>1. HeadLast \in Nat /\ HeadLast < HeadEnd(Len(jumpTargets)) /\ HeadEnd(Len(jumpTargets)) \in Nat
    BY HeadIsFirst, Places
  <2>2. \A q \in Nat : InTheHead(q) => q < HeadEnd(Len(jumpTargets))
    BY <2>1 DEF InTheHead
  <2> QED
    BY <2>2, ReachedWhen
<1>2. \A q \in Nat : \A i \in 1 .. Len(Code) : Covers(i, q) => ReachedFrom(q) = 1 .. i
  BY ReachedWhen
<1>3. Len(Code) \in Nat
  BY Places
<1>4. \A i, r \in 1 .. Len(Code) : r # i => 1 .. i # 1 .. r
  <2>1. ASSUME NEW i \in 1 .. Len(Code), NEW r \in 1 .. Len(Code), r < i PROVE 1 .. i # 1 .. r
    <3>1. i \in 1 .. i /\ i \notin 1 .. r
      BY <1>3, <2>1
    <3> QED
      BY <3>1
  <2> QED
    BY <1>3, <2>1
<1>5. \A i \in 1 .. Len(Code) : 1 .. i # {}
  <2>1. \A i \in 1 .. Len(Code) : 1 \in 1 .. i
    BY <1>3
  <2> QED
    BY <2>1
<1>6. status' # status \/ ReachedFrom(ip') # ReachedFrom(ip)
  BY <1>1, <1>2, <1>4, <1>5
<1> QED
  BY <1>6, KeepsPlace DEF PlaceAt
-----------------------------------------------------------------------------
(* What the code of instruction i has done so far, in front of q, to the   *)
(* evaluation stack the engine found.                                      *)
Midway(i, q, o, f, s) ==
  /\ q <= start[i] => o = s.operands
  /\ q > start[i] => Works(result, start[i], LimitOf(i), Code[i], jumps, q, s.operands, o, f)

(* What holds of operands o and locals f of an engine that is at q with    *)
(* the snapshot s.                                                         *)
DataAt(h, st, q, o, f, s) ==
  /\ o \in Seq(Int) /\ s.operands \in Seq(Int) /\ f \in [Slots -> Int] /\ SameVars(f, s.frame)
  /\ Fit(h, s)
  /\ st = "idle" => o = <<>> /\ s.operands = <<>>
  /\ st = "running" =>
       /\ InTheHead(q) => s.operands = <<>> /\ (q # Len(jumpTargets) + 4 => o = <<>>)
       /\ \A i \in 1 .. Len(Code) : Covers(i, q) => Midway(i, q, o, f, s)

DataInv ==
  /\ EngineInv /\ ExactInv /\ Faithful
  /\ arguments \in Arguments
  /\ seen.pc = Pc
  /\ \E h : Height(h) /\ DataAt(h, status, ip, operands, frame, seen)

(* Coming to rest at t.                                                    *)
LEMMA DataArrives ==
  ASSUME Compiled, Faithful, NEW h, Height(h), NEW t \in 1 .. Len(Code), NEW q \in Nat,
         NEW o \in Seq(Int), NEW f \in [Slots -> Int], NEW s, s.pc = Active(Code, t), s.operands = o, s.frame = f,
         Suits(h, t, o), AtRest(q), InTheHead(q) => o = <<>>
  PROVE  DataAt(h, "running", q, o, f, s)
<1>1. method \in Methods
  BY DEF Compiled, LayoutInv, LandInv, BalanceInv, TypeInv, TypeOK
<1>2. Fit(h, s)
  BY <1>1, SuitsFit
<1>3. SameVars(f, s.frame)
  BY DEF SameVars
<1>4. ASSUME NEW i \in 1 .. Len(Code), Covers(i, q) PROVE Midway(i, q, o, f, s)
  <2>1. q <= start[i] /\ start[i] \in Nat
    BY <1>4, Places DEF AtRest
  <2> QED
    BY <2>1 DEF Midway
<1> QED
  BY <1>2, <1>3, <1>4 DEF DataAt

(* The end of a call.                                                      *)
LEMMA DataEnds ==
  ASSUME NEW h, NEW st \in {"returned", "trapped"}, NEW q,
         NEW o \in Seq(Int), NEW f \in [Slots -> Int], NEW s, s.pc \in {0, -1}, s.operands = o, s.frame = f
  PROVE  DataAt(h, st, q, o, f, s)
<1>1. Fit(h, s)
  BY DEF Fit
<1>2. SameVars(f, s.frame)
  BY DEF SameVars
<1> QED
  BY <1>1, <1>2 DEF DataAt

(* The invariant after a step.                                             *)
LEMMA DataHolds ==
  ASSUME UNCHANGED compilerVars, EngineInv', ExactInv', Faithful, arguments \in Arguments, arguments' = arguments,
         seen'.pc = Pc', NEW h, Height(h), DataAt(h, status', ip', operands', frame', seen')
  PROVE  DataInv'
<1>1. /\ phase' = phase /\ Code' = Code /\ result' = result /\ start' = start /\ jumpTargets' = jumpTargets
      /\ jumps' = jumps /\ method' = method /\ Behind' = Behind /\ Arity' = Arity
  BY DEF compilerVars, Code, Behind, Arity
<1>2. BodyEnd' = BodyEnd /\ HeadLast' = HeadLast
  BY <1>1 DEF BodyEnd, HeadLast
<1>3. \A i : FirstOf(i)' = FirstOf(i) /\ LimitOf(i)' = LimitOf(i)
  BY <1>1, <1>2 DEF FirstOf, LimitOf
<1>4. \A g : Height(g) => Height(g)'
  BY <1>1, FaithfulStays
<1>5. Faithful'
  BY <1>1, FaithfulStays
<1>6. DataAt(h, status, ip, operands, frame, seen)'
  <2>1. \A i, q, o, f, s : Covers(i, q)' = Covers(i, q) /\ Midway(i, q, o, f, s)' = Midway(i, q, o, f, s)
    BY <1>1, <1>3 DEF Covers, Midway
  <2>2. \A q : InTheHead(q)' = InTheHead(q)
    BY <1>2 DEF InTheHead
  <2>3. \A s : Fit(h, s)' = Fit(h, s)
    BY <1>1 DEF Fit, BehindComparison
  <2> QED
    BY <1>1, <2>1, <2>2, <2>3 DEF DataAt
<1> QED
  BY <1>4, <1>5, <1>6 DEF DataInv
-----------------------------------------------------------------------------
(* A place is in the code of one instruction.                              *)
LEMMA CoversOne ==
  ASSUME Compiled, NEW q \in Nat, NEW i, Covers(i, q), NEW j, Covers(j, q)
  PROVE  i = j
<1>1. /\ i \in 1 .. Len(Code) /\ j \in 1 .. Len(Code) /\ Len(Code) \in Nat
      /\ FirstOf(i) <= q /\ FirstOf(j) <= q
  BY Places DEF Covers
<1>2. i <= j /\ j <= i
  BY <1>1, CoversOrder
<1> QED
  BY <1>1, <1>2

(* One further: still in the code of i, or at rest at the next one's.      *)
LEMMA GoesOnTo ==
  ASSUME EngineInv, Running, UNCHANGED compilerVars, Advance,
         NEW i \in 1 .. Len(Code), Covers(i, ip), start[i] <= ip,
         At.op \notin Structural \cup {"br", "return"}
  PROVE  \/ ip + 1 < LimitOf(i) /\ Covers(i, ip') /\ Pc' = Active(Code, i)
         \/ /\ ip + 1 = LimitOf(i) /\ Code[i].op \notin {"Br_S", "Ret"}
            /\ i + 1 \in 1 .. Len(Code) /\ Pc' = Active(Code, i + 1)
            /\ AtRest(ip') /\ ~InTheHead(ip')
            /\ \E r \in 1 .. Len(Code) : Covers(r, ip') /\ r # i
<1>1. /\ Compiled /\ ip \in Nat /\ ip' = ip + 1 /\ ip' \in Nat /\ Running'
      /\ Len(Code) \in Nat /\ FirstOf(i) \in Nat /\ start[i] \in Nat /\ LimitOf(i) \in Nat /\ ip < LimitOf(i)
      /\ FirstOf(i) <= ip
      /\ Laid(result, jumpTargets, start, jumps, Code[i], i, LimitOf(i))
      /\ Code[Len(Code)].op \in {"Br_S", "Ret"}
  <2>1. Compiled /\ ip \in Nat
    BY AtWork
  <2>2. ip' = ip + 1 /\ Running'
    BY DEF Advance, Running
  <2> QED
    BY <2>1, <2>2, Places DEF Covers
<1>2. CASE ip + 1 < LimitOf(i)
  <2>1. Covers(i, ip')
    BY <1>1, <1>2 DEF Covers
  <2> QED
    BY <1>1, <1>2, <2>1, PcNext
<1>3. CASE ~(ip + 1 < LimitOf(i))
  <2>1. ip + 1 = LimitOf(i) /\ LimitOf(i) - 1 = ip
    BY <1>1, <1>3
  <2>2. Closes(result[ip], Code[i])
    <3>1. start[i] # LimitOf(i)
      BY <1>1
    <3> QED
      BY <1>1, <2>1, <3>1 DEF Laid
  <2>3. Code[i].op \notin {"Br_S", "Ret"}
    BY <2>2 DEF Closes, At
  <2>4. i \in 1 .. Len(Code) - 1 /\ i + 1 \in 1 .. Len(Code)
    BY <1>1, <2>3
  <2>5. FirstOf(i + 1) <= ip' /\ ip' <= start[i + 1]
    <3>1. LimitOf(i) = FirstOf(i + 1) /\ FirstOf(i + 1) <= start[i + 1] /\ FirstOf(i + 1) \in Nat
      BY <1>1, <2>4, Places
    <3> QED
      BY <1>1, <2>1, <3>1
  <2>6. Stops(ip')
    BY <2>4, <2>5 DEF Stops
  <2>7. AtRest(ip') /\ ~InTheHead(ip') /\ \E r \in 1 .. Len(Code) : Covers(r, ip')
    BY <1>1, <2>6, StopsAtRest
  <2>8. PICK r \in 1 .. Len(Code) : Covers(r, ip')
    BY <2>7
  <2>9. r # i
    <3>1. ~Covers(i, ip')
      BY <1>1, <2>1 DEF Covers
    <3> QED
      BY <2>8, <3>1
  <2>10. Pc' = Active(Code, i + 1)
    <3>1. Pc' = Active(Code, r)
      BY <1>1, <2>8, PcNext
    <3>2. Active(Code, r) = Active(Code, i + 1)
      BY <1>1, <2>4, <2>5, <2>8, Settles
    <3> QED
      BY <3>1, <3>2
  <2> QED
    BY <2>1, <2>3, <2>4, <2>7, <2>8, <2>9, <2>10
<1> QED
  BY <1>2, <1>3
-----------------------------------------------------------------------------
(* The engine is executing the code of instruction i.                      *)
Working(h, i) ==
  /\ Compiled /\ method \in Methods /\ Faithful /\ Height(h)
  /\ i \in 1 .. Len(Code) /\ Covers(i, ip) /\ seen.pc = i
  /\ Ordinary(Code[i]) /\ (Code[i].op = "Starg" => ~method.hasThis)
  /\ ip \in Nat /\ start[i] \in Nat /\ LimitOf(i) \in Nat /\ start[i] <= ip /\ ip < LimitOf(i)
  /\ seen.operands \in Seq(Int) /\ operands \in Seq(Int) /\ frame \in [Slots -> Int]
  /\ SameVars(frame, seen.frame)
  /\ Len(seen.operands) = h[i] /\ Len(seen.operands) >= CilTakes(Code[i])
  /\ Code[i].op = "Brfalse_S" => Last(seen.operands) \in {0, 1}
  /\ Works(result, start[i], LimitOf(i), Code[i], jumps, ip, seen.operands, operands, frame)
  /\ Fits(At, result[ip - 1], Code[i], i, ip, start[i], Len(jumpTargets), jumps)

(* The invariant says it of an engine within that code.                    *)
LEMMA WorkingOn ==
  ASSUME EngineInv, Faithful, TestsBooleans, Running, seen.pc = Pc, NEW h, Height(h),
         DataAt(h, status, ip, operands, frame, seen),
         NEW i \in 1 .. Len(Code), Covers(i, ip), start[i] <= ip
  PROVE  Working(h, i)
<1>1. Compiled /\ ip \in Nat /\ status = "running"
  BY AtWork DEF Running
<1>2. method \in Methods
  BY <1>1 DEF Compiled, LayoutInv, LandInv, BalanceInv, TypeInv, TypeOK
<1>3. i \in DOMAIN Code /\ Ordinary(Code[i]) /\ (Code[i].op = "Starg" => ~method.hasThis)
  BY <1>2, CodeFacts DEF Faithful
<1>4. seen.pc = i /\ i > 0 /\ Fits(At, result[ip - 1], Code[i], i, ip, start[i], Len(jumpTargets), jumps)
  BY InTheBody
<1>5. start[i] \in Nat /\ LimitOf(i) \in Nat /\ ip < LimitOf(i)
  BY <1>1, Places DEF Covers
<1>6. /\ seen.operands \in Seq(Int) /\ operands \in Seq(Int) /\ frame \in [Slots -> Int]
      /\ SameVars(frame, seen.frame)
      /\ Fit(h, seen) /\ Midway(i, ip, operands, frame, seen)
  BY <1>1 DEF DataAt
<1>7. Len(seen.operands) = h[i] /\ (Code[i].op = "Brfalse_S" => Last(seen.operands) \in {0, 1})
  BY <1>3, <1>4, <1>6 DEF Fit, TestsBooleans
<1>8. h[i] >= CilTakes(Code[i])
  BY <1>3 DEF Height, Heights
<1>9. Works(result, start[i], LimitOf(i), Code[i], jumps, ip, seen.operands, operands, frame)
  <2>1. CASE ip = start[i]
    <3>1. operands = seen.operands
      BY <1>1, <1>6, <2>1 DEF Midway
    <3> QED
      BY <1>1, <2>1, <3>1 DEF Works
  <2>2. CASE ip # start[i]
    <3>1. ip > start[i]
      BY <1>1, <1>5, <2>2
    <3> QED
      BY <1>6, <3>1 DEF Midway
  <2> QED
    BY <2>1, <2>2
<1> QED
  BY <1>1, <1>2, <1>3, <1>4, <1>5, <1>6, <1>7, <1>8, <1>9 DEF Working
-----------------------------------------------------------------------------
(* The instruction at hand of the code of i has been executed: o2 and f2.  *)
Through(i, o2, f2) ==
  GoesOnWith(result, start[i], LimitOf(i), Code[i], jumps, ip, seen.operands, frame, o2, f2)

(* The code of instruction i is that of its opcode.                        *)
CodeOn(i) ==
  LET c == result
      b == start[i]
      e == LimitOf(i)
      ins == Code[i]
  IN  /\ ins.op \in StraightOps => Reads(c, b, e, CompileStraight(ins))
      /\ ins.op \in DOMAIN BranchTests => BranchLies(c, b, e, ins)
      /\ ins.op = "Switch" => \E a : Items(c, b, e, ins, jumps, Len(ins.targets), a)
      /\ ins.op \in Supported

(* So it is, whatever the opcode.                                          *)
LEMMA CodeIsOn ==
  ASSUME ExactInv, NEW h, NEW i, Working(h, i)
  PROVE  CodeOn(i)
<1>1. Compiled /\ i \in 1 .. Len(Code)
  BY DEF Working
<1> QED
  BY <1>1, CodeIs DEF CodeOn

(* An instruction that computes.                                           *)
LEMMA ComputesOn ==
  ASSUME NEW h, NEW i, Working(h, i), CodeOn(i), ComputeData
  PROVE  Through(i, operands', frame')
<1> DEFINE c == result
           b == start[i]
           e == LimitOf(i)
           ins == Code[i]
           S == seen.operands
           o2 == operands'
           f2 == frame'
<1>1. /\ Ordinary(ins) /\ ip \in Nat /\ b \in Nat /\ e \in Nat /\ b <= ip /\ ip < e
      /\ S \in Seq(Int) /\ Len(S) >= CilTakes(ins) /\ operands \in Seq(Int) /\ frame \in [Slots -> Int]
      /\ Works(c, b, e, ins, jumps, ip, S, operands, frame)
      /\ ins.op = "Brfalse_S" => Last(S) \in {0, 1}
  BY DEF Working
<1>2. Computes(c[ip], operands, frame, o2, f2)
  BY ComputesData DEF At
<1>3. c[ip].op \notin BranchOps /\ c[ip].op # "return"
  BY DEF ComputeData, Compute, StoreJumpTarget, At, SetLocal, BranchOps
<1> HIDE DEF c, b, e, o2, f2
<1>4. /\ ins.op \in StraightOps => Reads(c, b, e, CompileStraight(ins))
      /\ ins.op \in DOMAIN BranchTests => BranchLies(c, b, e, ins)
      /\ ins.op = "Switch" => \E a : Items(c, b, e, ins, jumps, Len(ins.targets), a)
      /\ ins.op \in Supported
  BY DEF CodeOn, c, b, e
<1> HIDE DEF ins, S
<1>5. CASE ins.op \in StraightOps
  <2>1. ins.op # "Ret"
    <3>1. SUFFICES ASSUME ins.op = "Ret" PROVE FALSE
      OBVIOUS
    <3>2. CompileStraight(ins) = <<W("return")>>
      BY <3>1 DEF CompileStraight, SimpleOps
    <3>3. Reads(c, b, e, <<W("return")>>)
      BY <1>4, <1>5, <3>2
    <3>4. e = b + 1 /\ c[b] = W("return")
      BY <1>1, <3>3, ReadsOne
    <3>5. ip = b
      BY <1>1, <3>4
    <3>6. W("return").op = "return"
      BY DEF W
    <3> QED
      BY <1>3, <3>4, <3>5, <3>6
  <2>2. GoesOnWith(c, b, e, ins, jumps, ip, S, frame, o2, f2)
    BY <1>1, <1>2, <1>4, <1>5, <2>1, StraightWorks
  <2> QED
    BY <2>2 DEF Through, c, b, e, ins, S, o2, f2
<1>6. CASE ins.op \in DOMAIN BranchTests
  <2>1. ip < e - 1
    <3>1. SUFFICES ASSUME ip = e - 1 PROVE FALSE
      BY <1>1
    <3>2. c[ip].op = BranchOp(ins.op)
      BY <1>1, <1>4, <1>6, <3>1, BranchDecided
    <3>3. c[ip].op \in {"br", "br_if"}
      BY <3>2 DEF BranchOp
    <3> QED
      BY <1>3, <3>3 DEF BranchOps
  <2>2. GoesOnWith(c, b, e, ins, jumps, ip, S, frame, o2, f2)
    BY <1>1, <1>2, <1>4, <1>6, <2>1, BranchWorks
  <2> QED
    BY <2>2 DEF Through, c, b, e, ins, S, o2, f2
<1>7. CASE ins.op = "Switch"
  <2> DEFINE m == Len(ins.targets)
  <2>1. m \in Nat
    BY <1>1 DEF Ordinary, CilInstr
  <2>2. \E a : Items(c, b, e, ins, jumps, m, a)
    BY <1>4, <1>7
  <2> HIDE DEF m
  <2>3. m = Len(ins.targets)
    BY DEF m
  <2>4. CASE ip = b
    <3>1. operands = S
      BY <1>1, <2>4 DEF Works
    <3>2. Computes(c[b], S, frame, o2, f2)
      BY <1>2, <2>4, <3>1
    <3>3. GoesOnWith(c, b, e, ins, jumps, b, S, frame, o2, f2)
      BY <1>1, <1>7, <2>1, <2>2, <2>3, <3>2, SwitchBegins
    <3> QED
      BY <2>4, <3>3 DEF Through, c, b, e, ins, S, o2, f2
  <2>5. CASE b < ip
    <3>1. GoesOnWith(c, b, e, ins, jumps, ip, S, frame, o2, f2)
      BY <1>1, <1>2, <1>3, <1>7, <2>1, <2>3, <2>5, SwitchWorks
    <3> QED
      BY <3>1 DEF Through, c, b, e, ins, S, o2, f2
  <2> QED
    BY <1>1, <2>4, <2>5
<1> QED
  BY <1>4, <1>5, <1>6, <1>7 DEF Supported

(* What is known of a branch instruction of the code of i.                 *)
Branching(i) ==
  \/ /\ Code[i].op \in DOMAIN BranchTests /\ ip + 1 = LimitOf(i)
     /\ Code[i].op = "Br_S" => At.op = "br"
     /\ Code[i].op # "Br_S" => At.op = "br_if" /\ Tests(Code[i], seen.operands, operands)
  \/ /\ Code[i].op = "Switch" /\ At.op = "br_if"
     /\ \E x : Asked(result, start[i], LimitOf(i), Code[i], jumps, ip, seen.operands, operands, frame, x)

(* A branch is of the code of a branch opcode or a switch.                 *)
LEMMA BranchesOn ==
  ASSUME NEW h, NEW i, Working(h, i), CodeOn(i), At.op \in BranchOps
  PROVE  Branching(i)
<1> DEFINE c == result
           b == start[i]
           e == LimitOf(i)
           ins == Code[i]
           S == seen.operands
<1>1. /\ Ordinary(ins) /\ ip \in Nat /\ b \in Nat /\ e \in Nat /\ b <= ip /\ ip < e
      /\ S \in Seq(Int) /\ Len(S) >= CilTakes(ins) /\ operands \in Seq(Int) /\ frame \in [Slots -> Int]
      /\ Works(c, b, e, ins, jumps, ip, S, operands, frame)
      /\ Fits(At, result[ip - 1], ins, i, ip, b, Len(jumpTargets), jumps)
  BY DEF Working
<1>2. c[ip] = At /\ c[ip].op \in BranchOps
  BY DEF At
<1> HIDE DEF c, b, e
<1>3. /\ ins.op \in DOMAIN BranchTests => BranchLies(c, b, e, ins)
      /\ ins.op = "Switch" => \E a : Items(c, b, e, ins, jumps, Len(ins.targets), a)
      /\ ins.op \in Supported
  BY DEF CodeOn, c, b, e
<1> HIDE DEF ins, S
<1>4. ins.op \notin StraightOps
  <2>1. TryGetJumpTarget(ins) # {}
    BY <1>1, <1>2 DEF Fits
  <2>2. ins.op \in JumpOpcodes
    BY <2>1 DEF TryGetJumpTarget
  <2> QED
    BY <2>2 DEF JumpOpcodes, Branches, UnconditionalBranches, ConditionalBranches, StraightOps, SimpleOps
<1>5. CASE ins.op \in DOMAIN BranchTests
  <2>1. ip = e - 1 /\ ip + 1 = e
    <3>1. ip = e - 1
      BY <1>1, <1>2, <1>3, <1>5, BranchIsLast
    <3> QED
      BY <1>1, <3>1
  <2>2. ins.op # "Br_S" => Tests(ins, S, operands)
    BY <1>1, <1>3, <1>5, <2>1, BranchDecided
  <2>3. c[ip].op = BranchOp(ins.op)
    BY <1>1, <1>3, <1>5, <2>1, BranchDecided
  <2>4. At.op = BranchOp(ins.op)
    BY <1>2, <2>3
  <2>5. (ins.op = "Br_S" => At.op = "br") /\ (ins.op # "Br_S" => At.op = "br_if")
    BY <2>4 DEF BranchOp
  <2> QED
    BY <1>5, <2>1, <2>2, <2>5 DEF Branching, ins, S, e
<1>6. CASE ins.op = "Switch"
  <2> DEFINE m == Len(ins.targets)
  <2>1. m \in Nat
    BY <1>1 DEF Ordinary, CilInstr
  <2>2. \E a : Items(c, b, e, ins, jumps, m, a)
    BY <1>3, <1>6
  <2> HIDE DEF m
  <2>3. m = Len(ins.targets)
    BY DEF m
  <2>4. c[ip].op = "br_if" /\ \E x : Asked(c, b, e, ins, jumps, ip, S, operands, frame, x)
    BY <1>1, <1>2, <1>6, <2>1, <2>2, <2>3, SwitchDecided
  <2> QED
    BY <1>2, <1>6, <2>4 DEF Branching, ins, S, c, b, e
<1> QED
  BY <1>3, <1>4, <1>5, <1>6 DEF Supported

(* A branch that is not taken.                                             *)
LEMMA SkipsOn ==
  ASSUME NEW h, NEW i, Working(h, i), CodeOn(i), SkipBranchData
  PROVE  Through(i, operands', frame')
<1>1. /\ At.op = "br_if" /\ Last(operands) = 0 /\ operands' = Cut(operands, 1) /\ frame' = frame
  BY DEF SkipBranchData, SkipBranch, Top, PopN, Cut
<1>2. At.op \in BranchOps
  BY <1>1 DEF BranchOps
<1>3. Branching(i)
  BY <1>2, BranchesOn
<1>4. /\ operands \in Seq(Int) /\ frame \in [Slots -> Int] /\ seen.operands \in Seq(Int) /\ Ordinary(Code[i])
      /\ ip \in Nat /\ LimitOf(i) \in Nat
  BY DEF Working
<1> DEFINE ins == Code[i]
           S == seen.operands
           o2 == operands'
           f2 == frame'
<1>5. CASE Code[i].op \in DOMAIN BranchTests
  <2>1. /\ ip + 1 = LimitOf(i) /\ Tests(ins, S, operands) /\ ins.op # "Br_S" /\ ins.op \in DOMAIN BranchTests
    BY <1>1, <1>3, <1>5 DEF Branching, BranchTests
  <2> HIDE DEF ins, S, o2, f2
  <2>2. o2 = Cut(S, Taking(ins)) /\ ~IsTaken(ins, S) /\ f2 = frame
    BY <1>1, <2>1 DEF Tests, o2, f2
  <2>3. Effect(ins, S, frame, o2, f2)
    <3>1. SameVars(frame, f2)
      BY <2>2 DEF SameVars
    <3> QED
      BY <2>1, <2>2, <3>1 DEF Effect, BranchTests
  <2>4. o2 \in Seq(Int) /\ f2 \in [Slots -> Int]
    <3>1. Len(operands) >= 1 /\ 1 \in Nat
      BY <2>1 DEF Tests
    <3>2. Cut(operands, 1) \in Seq(Int)
      BY <1>4, <3>1, Popped
    <3> QED
      BY <1>1, <1>4, <3>2 DEF o2, f2
  <2>5. ~(ip + 1 < LimitOf(i))
    BY <1>4, <2>1
  <2> QED
    BY <2>3, <2>4, <2>5 DEF Through, GoesOnWith, ins, S, o2, f2
<1>6. CASE Code[i].op = "Switch"
  <2>1. PICK x : Asked(result, start[i], LimitOf(i), ins, jumps, ip, S, operands, frame, x)
    <3>1. Code[i].op \notin DOMAIN BranchTests
      BY <1>6 DEF BranchTests
    <3> QED
      BY <1>3, <3>1 DEF Branching
  <2> HIDE DEF ins, S, o2, f2
  <2>2. /\ operands = Append(Cut(S, 1), FromBool(Last(S) = x))
        /\ Last(S) # x => GoesOnWith(result, start[i], LimitOf(i), ins, jumps, ip, S, frame, Cut(S, 1), frame)
    BY <2>1 DEF Asked
  <2>3. Cut(S, 1) \in Seq(Int)
    <3>1. Len(S) >= 1 /\ S \in Seq(Int) /\ 1 \in Nat
      <4>1. Len(S) >= CilTakes(ins) /\ CilTakes(ins) = 1
        BY <1>6 DEF Working, CilTakes, S, ins
      <4> QED
        BY <1>4, <4>1 DEF S
    <3> QED
      BY <3>1, Popped
  <2> DEFINE B == Cut(S, 1)
             y == FromBool(Last(S) = x)
  <2>4. y \in Int /\ (y = 0 => Last(S) # x)
    BY DEF FromBool
  <2>5. B \in Seq(Int) /\ operands = Append(B, y)
    BY <2>2, <2>3
  <2> HIDE DEF B, y
  <2>6. Last(operands) = y /\ Cut(operands, 1) = B
    BY <2>4, <2>5, Pushed
  <2>7. o2 = Cut(S, 1) /\ f2 = frame /\ Last(S) # x
    BY <1>1, <2>4, <2>6 DEF B, o2, f2
  <2> QED
    BY <2>2, <2>7 DEF Through, ins, S, o2, f2
<1> QED
  BY <1>3, <1>5, <1>6 DEF Branching
-----------------------------------------------------------------------------
(* What is known of a step of the engine, and what is to be shown of it.   *)
Before(h) ==
  /\ EngineInv /\ ExactInv /\ Faithful /\ TestsBooleans /\ arguments \in Arguments /\ seen.pc = Pc
  /\ Height(h) /\ DataAt(h, status, ip, operands, frame, seen)
  /\ Running
  /\ UNCHANGED compilerVars /\ arguments' = arguments /\ KeepSeen

After(h) ==
  /\ seen'.pc = Pc'
  /\ DataAt(h, status', ip', operands', frame', seen')
  /\ Machine!Next \/ UNCHANGED Machine!vars

(* The types of what is known.                                             *)
LEMMA BeforeTypes ==
  ASSUME NEW h, Before(h)
  PROVE  /\ Compiled /\ ip \in Nat /\ method \in Methods /\ status = "running" /\ Code # <<>>
         /\ operands \in Seq(Int) /\ seen.operands \in Seq(Int) /\ frame \in [Slots -> Int]
         /\ SameVars(frame, seen.frame) /\ Fit(h, seen)
         /\ method' = method /\ arguments' = arguments /\ DOMAIN arguments = 0 .. 2
         /\ Code' = Code /\ result' = result
<1>1. EngineInv /\ Running /\ DataAt(h, status, ip, operands, frame, seen) /\ UNCHANGED compilerVars
      /\ arguments \in Arguments /\ arguments' = arguments
  BY DEF Before
<1>2. Compiled /\ ip \in Nat
  BY <1>1, AtWork
<1>3. status = "running"
  BY <1>1 DEF Running
<1>4. method \in Methods /\ Code # <<>>
  BY <1>2, CodeFacts DEF Compiled, LayoutInv, LandInv, BalanceInv, TypeInv, TypeOK
<1>5. arguments \in [0 .. 2 -> Ints]
  BY <1>1, CallsAssumption
<1>6. Code' = Code /\ method' = method /\ result' = result
  BY <1>1 DEF compilerVars, Code
<1> QED
  BY <1>1, <1>2, <1>3, <1>4, <1>5, <1>6 DEF DataAt

(* Equal up to the locals the compiler added.                              *)
LEMMA SameVarsTwice ==
  ASSUME NEW f, NEW g, NEW k, SameVars(f, g)
  PROVE  /\ SameVars(g, f) /\ SameVars(f, f)
         /\ SameVars(f, k) => SameVars(g, k)
BY DEF SameVars

(* The engine goes on within the code of i.                                *)
LEMMA StaysOn ==
  ASSUME NEW h, Before(h), NEW i, Working(h, i), Through(i, operands', frame'),
         Running', ip' = ip + 1, ip + 1 < LimitOf(i), Covers(i, ip'), Pc' = Active(Code, i), Pc = Active(Code, i)
  PROVE  After(h)
<1>1. /\ Compiled /\ ip \in Nat /\ status = "running" /\ Fit(h, seen)
      /\ method' = method /\ arguments' = arguments /\ DOMAIN arguments = 0 .. 2
  BY BeforeTypes
<1>2. /\ seen.pc = Pc /\ KeepSeen /\ UNCHANGED compilerVars
  BY DEF Before
<1>3. status' = status /\ ip' \in Nat
  BY <1>1 DEF Running
<1>4. /\ i \in 1 .. Len(Code) /\ Covers(i, ip) /\ start[i] \in Nat /\ start[i] <= ip /\ LimitOf(i) \in Nat
      /\ seen.operands \in Seq(Int) /\ SameVars(frame, seen.frame)
  BY DEF Working
<1>5. seen' = seen
  BY <1>1, <1>2, <1>3, <1>4, SeenStays
<1>6. /\ operands' \in Seq(Int) /\ frame' \in [Slots -> Int]
      /\ Works(result, start[i], LimitOf(i), Code[i], jumps, ip + 1, seen.operands, operands', frame')
      /\ SameVars(frame, frame')
  BY DEF Through, GoesOnWith
<1>7. SameVars(frame', seen'.frame) /\ SameVars(seen.frame, seen'.frame)
  BY <1>4, <1>5, <1>6, SameVarsTwice DEF SameVars
<1>8. ~InTheHead(ip')
  BY <1>1, <1>4, HeadIsFirst DEF InTheHead
<1>9. ASSUME NEW r \in 1 .. Len(Code), Covers(r, ip') PROVE Midway(r, ip', operands', frame', seen')
  <2>1. r = i
    BY <1>1, <1>3, <1>4, <1>9, CoversOne
  <2>2. ip' > start[i]
    BY <1>1, <1>4
  <2> QED
    BY <1>1, <1>4, <1>5, <1>6, <2>1, <2>2 DEF Midway
<1>10. DataAt(h, status', ip', operands', frame', seen')
  BY <1>1, <1>3, <1>4, <1>5, <1>6, <1>7, <1>8, <1>9 DEF DataAt
<1>11. Keeps /\ seen'.pc = seen.pc
  BY <1>1, <1>5, <1>7 DEF Keeps
<1> QED
  BY <1>2, <1>5, <1>10, <1>11, MachineStays DEF After

(* It goes on with the code of the next instruction.                       *)
LEMMA MovesOn ==
  ASSUME NEW h, Before(h), NEW i, Working(h, i), Code[i].op \in Supported, Through(i, operands', frame'),
         Running', ip' = ip + 1, ip + 1 = LimitOf(i), Code[i].op \notin {"Br_S", "Ret"},
         i + 1 \in 1 .. Len(Code), Pc' = Active(Code, i + 1), AtRest(ip'), ~InTheHead(ip'),
         \E r \in 1 .. Len(Code) : Covers(r, ip') /\ r # i
  PROVE  After(h)
<1>1. /\ Compiled /\ ip \in Nat /\ status = "running" /\ method \in Methods
      /\ method' = method /\ arguments' = arguments /\ DOMAIN arguments = 0 .. 2
  BY BeforeTypes
<1>2. /\ seen.pc = Pc /\ KeepSeen /\ UNCHANGED compilerVars /\ Faithful /\ Height(h)
  BY DEF Before
<1>3. status' = status /\ ip' \in Nat
  BY <1>1 DEF Running
<1>4. /\ i \in 1 .. Len(Code) /\ Covers(i, ip) /\ start[i] \in Nat /\ start[i] <= ip /\ LimitOf(i) \in Nat
      /\ seen.pc = i /\ Ordinary(Code[i]) /\ (Code[i].op = "Starg" => ~method.hasThis)
      /\ seen.operands \in Seq(Int) /\ SameVars(frame, seen.frame) /\ frame \in [Slots -> Int]
      /\ Len(seen.operands) = h[i]
  BY DEF Working
<1>5. seen' = [pc |-> Pc', operands |-> operands', frame |-> frame']
  BY <1>1, <1>2, <1>3, <1>4, SeenMoves
<1>6. /\ operands' \in Seq(Int) /\ frame' \in [Slots -> Int]
      /\ Effect(Code[i], seen.operands, frame, operands', frame')
  BY <1>4 DEF Through, GoesOnWith
<1>7. Code[i].op # "Nop"
  <2>1. Laid(result, jumpTargets, start, jumps, Code[i], i, LimitOf(i))
    BY <1>1, <1>4, Places
  <2> QED
    BY <1>1, <1>4, <2>1 DEF Laid
<1>8. Suits(h, i + 1, operands')
  BY <1>1, <1>2, <1>4, <1>6, <1>7, EffectSuits
<1>9. seen'.pc = Active(Code, i + 1) /\ seen'.operands = operands' /\ seen'.frame = frame'
  BY <1>5
<1> DEFINE o2 == operands'
           f2 == frame'
           s2 == seen'
           q2 == ip'
<1>10. /\ o2 \in Seq(Int) /\ f2 \in [Slots -> Int] /\ s2.pc = Active(Code, i + 1)
       /\ s2.operands = o2 /\ s2.frame = f2 /\ q2 \in Nat /\ AtRest(q2) /\ ~InTheHead(q2) /\ Suits(h, i + 1, o2)
  BY <1>3, <1>6, <1>8, <1>9
<1>11. DataAt(h, "running", q2, o2, f2, s2)
  <2> HIDE DEF o2, f2, s2, q2
  <2> QED
    BY <1>1, <1>2, <1>10, DataArrives
<1>12. SameVars(frame', seen'.frame)
  BY <1>9 DEF SameVars
<1>13. Maps(i, seen.operands, i + 1, operands')
  BY <1>1, <1>4, <1>9 DEF Maps
<1>14. Machine!Next
  <2> DEFINE ins == Code[i]
  <2>1. /\ ins = Code[i] /\ Ordinary(ins) /\ ins.op \in Supported \ {"Ret", "Nop"}
        /\ (ins.op = "Starg" => ~method.hasThis)
        /\ Effect(ins, seen.operands, frame, o2, f2)
    BY <1>4, <1>6, <1>7
  <2>2. Maps(i, seen.operands, i + 1, o2) /\ SameVars(f2, seen'.frame)
    BY <1>12, <1>13
  <2> HIDE DEF ins, o2, f2
  <2> QED
    BY <1>4, <2>1, <2>2, MachineFollows
<1> QED
  BY <1>1, <1>3, <1>9, <1>11, <1>14 DEF After

(* Either way.                                                             *)
LEMMA WorkGoesOn ==
  ASSUME NEW h, Before(h), Advance, NEW i, Working(h, i), CodeOn(i), Through(i, operands', frame'),
         At.op \notin Structural \cup {"br", "return"}
  PROVE  After(h)
<1>1. EngineInv /\ Running /\ UNCHANGED compilerVars
  BY DEF Before
<1>2. i \in 1 .. Len(Code) /\ Covers(i, ip) /\ start[i] <= ip
  BY DEF Working
<1>3. Running' /\ ip' = ip + 1
  BY <1>1 DEF Advance, Running
<1>4. Pc = Active(Code, i)
  BY <1>1, <1>2, InTheBody
<1>5. Code[i].op \in Supported
  BY DEF CodeOn
<1>6. \/ ip + 1 < LimitOf(i) /\ Covers(i, ip') /\ Pc' = Active(Code, i)
      \/ /\ ip + 1 = LimitOf(i) /\ Code[i].op \notin {"Br_S", "Ret"}
         /\ i + 1 \in 1 .. Len(Code) /\ Pc' = Active(Code, i + 1)
         /\ AtRest(ip') /\ ~InTheHead(ip')
         /\ \E r \in 1 .. Len(Code) : Covers(r, ip') /\ r # i
  BY <1>1, <1>2, GoesOnTo
<1> QED
  BY <1>3, <1>4, <1>5, <1>6, StaysOn, MovesOn
-----------------------------------------------------------------------------
(* A taken branch is one of the body's.                                    *)
LEMMA JumpIsRight ==
  ASSUME NEW h, Before(h), NEW i, Working(h, i), CodeOn(i), Branching(i),
         At.op = "br_if" => Last(operands) # 0,
         NEW j \in jumps, j.at = ip, j.to \in TryGetJumpTarget(Code[i])
  PROVE  \/ /\ Code[i].op \in DOMAIN BranchTests /\ IsTaken(Code[i], seen.operands)
            /\ j.to = Code[i].targets[1]
         \/ /\ Code[i].op = "Switch" /\ Last(seen.operands) \in 0 .. Len(Code[i].targets) - 1
            /\ j.to = Code[i].targets[Last(seen.operands) + 1]
<1> DEFINE ins == Code[i]
           S == seen.operands
<1>1. /\ S \in Seq(Int) /\ Ordinary(ins) /\ Len(S) >= CilTakes(ins)
  BY DEF Working
<1>2. JumpsApart(jumps)
  BY DEF Before, ExactInv
<1>3. CASE /\ ins.op \in DOMAIN BranchTests /\ ip + 1 = LimitOf(i)
           /\ ins.op = "Br_S" => At.op = "br"
           /\ ins.op # "Br_S" => At.op = "br_if" /\ Tests(ins, S, operands)
  <2>1. IsTaken(ins, S)
    <3>1. CASE ins.op = "Br_S"
      BY <3>1 DEF IsTaken
    <3>2. CASE ins.op # "Br_S"
      BY <1>3, <3>2 DEF Tests
    <3> QED
      BY <3>1, <3>2
  <2>2. j.to = ins.targets[1]
    <3>1. ins.op \in Branches
      BY <1>3, OpsApart
    <3>2. method \in Methods /\ i \in 1 .. Len(Code)
      BY BeforeTypes DEF Working
    <3>3. Len(ins.targets) = 1 /\ ins \in CilInstr
      BY <3>1, <3>2, CodeFacts
    <3>4. ins.targets \in Seq(Nat)
      BY <3>3 DEF CilInstr
    <3>5. DOMAIN ins.targets = {1}
      BY <3>3, <3>4
    <3>6. j.to \in {ins.targets[k] : k \in DOMAIN ins.targets}
      BY <3>1 DEF TryGetJumpTarget, JumpOpcodes
    <3> QED
      BY <3>5, <3>6
  <2> QED
    BY <1>3, <2>1, <2>2
<1>4. CASE /\ ins.op = "Switch" /\ At.op = "br_if"
           /\ \E x : Asked(result, start[i], LimitOf(i), ins, jumps, ip, S, operands, frame, x)
  <2>1. PICK x : Asked(result, start[i], LimitOf(i), ins, jumps, ip, S, operands, frame, x)
    BY <1>4
  <2> HIDE DEF ins, S
  <2>2. /\ x \in 0 .. Len(ins.targets) - 1
        /\ operands = Append(Cut(S, 1), FromBool(Last(S) = x))
        /\ \E k \in jumps : k.at = ip /\ k.to = ins.targets[x + 1]
    BY <2>1 DEF Asked
  <2>3. Cut(S, 1) \in Seq(Int)
    <3>1. CilTakes(ins) = 1
      BY <1>4 DEF CilTakes
    <3>2. Len(S) >= 1 /\ S \in Seq(Int) /\ 1 \in Nat
      BY <1>1, <3>1
    <3> QED
      BY <3>2, Popped
  <2> DEFINE B == Cut(S, 1)
             y == FromBool(Last(S) = x)
  <2>4. y \in Int /\ (y # 0 => Last(S) = x)
    BY DEF FromBool
  <2>5. B \in Seq(Int) /\ operands = Append(B, y)
    BY <2>2, <2>3
  <2> HIDE DEF B, y
  <2>6. Last(operands) = y
    BY <2>4, <2>5, Pushed
  <2>7. Last(S) = x
    BY <1>4, <2>4, <2>6
  <2>8. j.to = ins.targets[x + 1]
    BY <1>2, <2>2 DEF JumpsApart
  <2> QED
    BY <1>4, <2>2, <2>7, <2>8 DEF ins, S
<1> QED
  BY <1>3, <1>4 DEF Branching

(* A branch is taken.                                                      *)
LEMMA JumpData ==
  ASSUME NEW h, Before(h), TakeBranch, TakeBranchData
  PROVE  After(h)
<1>1. /\ Compiled /\ ip \in Nat /\ status = "running" /\ method \in Methods /\ seen.operands \in Seq(Int)
      /\ method' = method /\ arguments' = arguments /\ DOMAIN arguments = 0 .. 2
      /\ frame \in [Slots -> Int] /\ SameVars(frame, seen.frame)
  BY BeforeTypes
<1>2. /\ seen.pc = Pc /\ KeepSeen /\ UNCHANGED compilerVars /\ Faithful /\ TestsBooleans /\ Height(h) /\ EngineInv /\ ExactInv
      /\ Running /\ DataAt(h, status, ip, operands, frame, seen)
  BY DEF Before
<1>3. /\ At.op = "br_if" => Last(operands) # 0
      /\ operands' = <<>> /\ frame' = frame /\ At.op \in BranchOps
  BY DEF TakeBranchData, TakeBranch, Top
<1>4. EngineInv' /\ status' = status /\ LandsAt(ip')
  BY <1>2, JumpArrives
<1>5. PICK i \in 1 .. Len(Code), j \in jumps :
        /\ Covers(i, ip) /\ start[i] <= ip /\ Pc = i /\ i > 0
        /\ j.at = ip /\ j.from = i /\ j.to \in TryGetJumpTarget(Code[i])
        /\ Pc' = Active(Code, j.to)
  BY <1>2, JumpArrives
<1>6. ip' \in Nat
  BY <1>4 DEF EngineInv, EngineTypes
<1>7. Working(h, i)
  BY <1>2, <1>5, WorkingOn
<1>8. CodeOn(i)
  BY <1>2, <1>7, CodeIsOn
<1>9. Branching(i)
  BY <1>3, <1>7, <1>8, BranchesOn
<1> DEFINE S == seen.operands
           ins == Code[i]
           t == j.to
<1>10. \/ /\ ins.op \in DOMAIN BranchTests /\ IsTaken(ins, S) /\ t = ins.targets[1]
       \/ /\ ins.op = "Switch" /\ Last(S) \in 0 .. Len(ins.targets) - 1 /\ t = ins.targets[Last(S) + 1]
  BY <1>3, <1>5, <1>7, <1>8, <1>9, JumpIsRight
<1>11. start[i] \in Nat /\ Len(S) = h[i] /\ seen.pc = i /\ Ordinary(ins)
  BY <1>7 DEF Working
<1>12. /\ t \in 1 .. Len(Code) /\ Suits(h, t, <<>>)
       /\ (IF ins.op = "Switch" THEN Cut(S, 1) ELSE Left(ins, S)) = <<>>
  <2>1. ins.op \in DOMAIN BranchTests \cup {"Switch"}
    BY <1>10
  <2> QED
    BY <1>1, <1>2, <1>5, <1>11, <2>1, JumpSuits
<1>13. AtRest(ip') /\ (InTheHead(ip') \/ \E r \in 1 .. Len(Code) : Covers(r, ip') /\ r # i)
  <2>1. CASE InTheHead(ip')
    BY <1>1, <2>1, HeadIsFirst DEF AtRest, InTheHead
  <2>2. CASE ip' > ip /\ Stops(ip')
    <3>1. AtRest(ip') /\ \E r \in 1 .. Len(Code) : Covers(r, ip') /\ ip' <= start[r]
      BY <1>1, <1>6, <2>2, StopsAtRest
    <3>2. ~(ip' <= start[i])
      BY <1>1, <1>5, <1>6, <1>11, <2>2
    <3> QED
      BY <3>1, <3>2
  <2> QED
    BY <1>4, <2>1, <2>2 DEF LandsAt
<1>14. seen' = [pc |-> Pc', operands |-> operands', frame |-> frame']
  BY <1>1, <1>2, <1>5, <1>6, <1>13, SeenMoves
<1>15. seen'.pc = Pc' /\ seen'.pc = Active(Code, t) /\ seen'.operands = <<>> /\ seen'.frame = frame
  BY <1>3, <1>5, <1>14
<1> DEFINE o2 == operands'
           f2 == frame'
           s2 == seen'
           q2 == ip'
<1>16. /\ o2 \in Seq(Int) /\ f2 \in [Slots -> Int] /\ s2.pc = Active(Code, t)
       /\ s2.operands = o2 /\ s2.frame = f2 /\ q2 \in Nat /\ AtRest(q2) /\ Suits(h, t, o2) /\ o2 = <<>>
  BY <1>1, <1>3, <1>6, <1>12, <1>13, <1>15
<1>17. DataAt(h, "running", q2, o2, f2, s2)
  <2> HIDE DEF o2, f2, s2, q2
  <2> QED
    BY <1>1, <1>2, <1>12, <1>16, DataArrives
<1>18. Maps(i, S, t, <<>>)
  BY <1>1, <1>3, <1>5, <1>11, <1>15 DEF Maps
<1>19. SameVars(seen.frame, seen'.frame)
  BY <1>1, <1>15, SameVarsTwice
<1>20. Machine!Next
  <2> DEFINE T == <<>>
  <2>1. ins = Code[i] /\ Maps(i, S, t, T) /\ T = <<>>
    BY <1>18
  <2> HIDE DEF ins, S, t, T
  <2>2. CASE /\ ins.op \in DOMAIN BranchTests /\ IsTaken(ins, S) /\ t = ins.targets[1]
    <3>1. T = Left(ins, S)
      <4>1. ins.op # "Switch"
        BY <2>2, OpsApart
      <4> QED
        BY <1>12, <2>1, <4>1
    <3> QED
      BY <1>11, <1>19, <2>1, <2>2, <3>1, MachineJumps
  <2>3. CASE /\ ins.op = "Switch" /\ Last(S) \in 0 .. Len(ins.targets) - 1 /\ t = ins.targets[Last(S) + 1]
    <3>1. T = Cut(S, 1)
      BY <1>12, <2>1, <2>3
    <3> QED
      BY <1>19, <2>1, <2>3, <3>1, MachineSwitches
  <2> QED
    BY <1>10, <2>2, <2>3
<1> QED
  BY <1>1, <1>4, <1>15, <1>17, <1>20 DEF After
-----------------------------------------------------------------------------
(* Moves on the way to the next CIL instruction: to a place of rest.       *)
LEMMA MovesToRest ==
  ASSUME NEW h, Before(h), ip' \in Nat, Pc' = Pc, status' = status, operands' = seen.operands, frame' = frame,
         AtRest(ip'), ~InTheHead(ip'),
         seen' = seen \/ seen' = [pc |-> Pc', operands |-> operands', frame |-> frame']
  PROVE  After(h)
<1>1. /\ Compiled /\ status = "running" /\ Fit(h, seen)
      /\ seen.operands \in Seq(Int) /\ frame \in [Slots -> Int] /\ SameVars(frame, seen.frame)
      /\ method' = method /\ arguments' = arguments /\ DOMAIN arguments = 0 .. 2
  BY BeforeTypes
<1>2. seen.pc = Pc
  BY DEF Before
<1>3. seen'.pc = seen.pc /\ seen'.operands = seen.operands /\ (seen'.frame = seen.frame \/ seen'.frame = frame)
  BY <1>2
<1>4. SameVars(frame', seen'.frame) /\ SameVars(seen.frame, seen'.frame)
  BY <1>1, <1>3, SameVarsTwice
<1>5. Fit(h, seen')
  BY <1>1, <1>3 DEF Fit
<1>6. ASSUME NEW i \in 1 .. Len(Code), Covers(i, ip') PROVE Midway(i, ip', operands', frame', seen')
  <2>1. ip' <= start[i] /\ start[i] \in Nat
    BY <1>1, <1>6, Places DEF AtRest
  <2> QED
    BY <1>3, <2>1 DEF Midway
<1>7. DataAt(h, status', ip', operands', frame', seen')
  BY <1>1, <1>3, <1>4, <1>5, <1>6 DEF DataAt
<1>8. Keeps
  BY <1>1, <1>3, <1>4 DEF Keeps
<1> QED
  BY <1>2, <1>3, <1>7, <1>8, MachineStays DEF After

(* Within the head of the function.                                        *)
LEMMA MovesInHead ==
  ASSUME NEW h, Before(h), ip' \in Nat, Pc' = Pc, status' = status, frame' = frame, operands' \in Seq(Int),
         InTheHead(ip), InTheHead(ip'), ip' # Len(jumpTargets) + 4 => operands' = <<>>
  PROVE  After(h)
<1>1. /\ Compiled /\ ip \in Nat /\ status = "running" /\ Fit(h, seen)
      /\ seen.operands \in Seq(Int) /\ frame \in [Slots -> Int] /\ SameVars(frame, seen.frame)
      /\ method' = method /\ arguments' = arguments /\ DOMAIN arguments = 0 .. 2
  BY BeforeTypes
<1>2. /\ seen.pc = Pc /\ UNCHANGED compilerVars /\ KeepSeen
      /\ DataAt(h, status, ip, operands, frame, seen)
  BY DEF Before
<1>3. seen' = seen
  BY <1>1, <1>2, SeenStays
<1>4. seen.operands = <<>>
  BY <1>1, <1>2 DEF DataAt
<1>5. ASSUME NEW i \in 1 .. Len(Code), Covers(i, ip') PROVE Midway(i, ip', operands', frame', seen')
  BY <1>1, <1>5, HeadIsFirst DEF InTheHead
<1>6. SameVars(frame', seen'.frame) /\ SameVars(seen.frame, seen'.frame)
  BY <1>1, <1>3, SameVarsTwice
<1>7. DataAt(h, status', ip', operands', frame', seen')
  BY <1>1, <1>3, <1>4, <1>5, <1>6 DEF DataAt
<1>8. Keeps
  BY <1>1, <1>3, <1>6 DEF Keeps
<1> QED
  BY <1>2, <1>3, <1>7, <1>8, MachineStays DEF After

(* The jump table takes the engine to a place of rest.                     *)
LEMMA MovesOutOfHead ==
  ASSUME NEW h, Before(h), ip' \in Nat, Pc' = Pc, status' = status, frame' = frame, operands' = <<>>,
         InTheHead(ip), Stops(ip')
  PROVE  After(h)
<1>1. /\ Compiled /\ ip \in Nat /\ status = "running"
  BY BeforeTypes
<1>2. /\ UNCHANGED compilerVars /\ KeepSeen /\ DataAt(h, status, ip, operands, frame, seen)
  BY DEF Before
<1>3. AtRest(ip') /\ ~InTheHead(ip') /\ \E r \in 1 .. Len(Code) : Covers(r, ip')
  BY <1>1, StopsAtRest
<1>4. seen' = [pc |-> Pc', operands |-> operands', frame |-> frame']
  BY <1>1, <1>2, <1>3, SeenMoves
<1>5. seen.operands = <<>>
  BY <1>1, <1>2 DEF DataAt
<1> QED
  BY <1>3, <1>4, <1>5, MovesToRest

(* Entering the loop or a block.                                           *)
LEMMA EnterData ==
  ASSUME NEW h, Before(h), Enter, UNCHANGED <<operands, frame>>
  PROVE  After(h)
<1>1. /\ EngineInv /\ Running /\ UNCHANGED compilerVars /\ DataAt(h, status, ip, operands, frame, seen)
  BY DEF Before
<1>2. /\ EngineInv' /\ Pc' = Pc /\ status' = status
      /\ InTheHead(ip) /\ ip # Len(jumpTargets) + 4
      /\ Stops(ip') \/ (InTheHead(ip') /\ ip' # Len(jumpTargets) + 4)
  BY <1>1, EnterStep
<1>3. ip' \in Nat /\ frame' = frame /\ operands' = operands
  BY <1>2 DEF EngineInv, EngineTypes
<1>4. operands = <<>>
  BY <1>1, <1>2 DEF DataAt, Running
<1>5. operands' \in Seq(Int)
  BY <1>3, <1>4
<1> QED
  BY <1>2, <1>3, <1>4, <1>5, MovesInHead, MovesOutOfHead

(* The jump table.                                                         *)
LEMMA SelectData ==
  ASSUME NEW h, Before(h), SelectBranch, TakeBranchData
  PROVE  After(h)
<1>1. EngineInv /\ Running /\ UNCHANGED compilerVars
  BY DEF Before
<1>2. EngineInv' /\ Pc' = Pc /\ status' = status /\ InTheHead(ip) /\ Stops(ip')
  BY <1>1, SelectStep
<1>3. ip' \in Nat /\ frame' = frame /\ operands' = <<>>
  BY <1>2 DEF EngineInv, EngineTypes, TakeBranchData
<1> QED
  BY <1>2, <1>3, MovesOutOfHead

(* The end of a block: in front of its target's code.                      *)
LEMMA LeaveData ==
  ASSUME NEW h, Before(h), Leave, UNCHANGED <<operands, frame>>
  PROVE  After(h)
<1>1. /\ EngineInv /\ Running /\ UNCHANGED compilerVars /\ DataAt(h, status, ip, operands, frame, seen) /\ KeepSeen
  BY DEF Before
<1>2. Compiled /\ ip \in Nat /\ status = "running"
  BY BeforeTypes
<1>3. EngineInv' /\ Pc' = Pc /\ status' = status
  BY <1>1, LeaveStep
<1>4. PICK i \in 1 .. Len(Code) : Covers(i, ip) /\ ip' = ip + 1 /\ ip' = start[i] /\ FirstOf(i) <= ip'
  BY <1>1, LeaveStep
<1>5. ip' \in Nat /\ frame' = frame /\ operands' = operands
  BY <1>3 DEF EngineInv, EngineTypes
<1>6. operands = seen.operands
  <2>1. ip <= start[i]
    BY <1>2, <1>4
  <2> QED
    BY <1>1, <1>2, <1>4, <2>1 DEF DataAt, Midway
<1>7. Stops(ip')
  BY <1>4, <1>5 DEF Stops
<1>8. AtRest(ip') /\ ~InTheHead(ip')
  BY <1>2, <1>5, <1>7, StopsAtRest
<1>9. PICK r \in 1 .. Len(Code) : Covers(r, ip')
  BY <1>2, <1>5, <1>7, StopsAtRest
<1>10. seen' = seen \/ seen' = [pc |-> Pc', operands |-> operands', frame |-> frame']
  <2>1. CASE r = i
    BY <1>1, <1>2, <1>3, <1>4, <1>5, <1>9, <2>1, SeenStays
  <2>2. CASE r # i
    BY <1>1, <1>2, <1>4, <1>5, <1>9, <2>2, SeenMoves
  <2> QED
    BY <2>1, <2>2
<1> QED
  BY <1>3, <1>5, <1>6, <1>8, <1>10, MovesToRest
-----------------------------------------------------------------------------
(* The call ends.                                                          *)
LEMMA EndData ==
  ASSUME NEW h, Before(h), NEW i, Working(h, i), CodeOn(i), status' \in {"returned", "trapped"},
         ip' = ip, operands' = operands, frame' = frame,
         \/ Code[i].op = "Ret" /\ status' = "returned"
         \/ Code[i].op = "Rem" /\ Last(operands) = 0 /\ status' = "trapped"
  PROVE  After(h)
<1>1. /\ Compiled /\ ip \in Nat /\ status = "running" /\ Code # <<>> /\ Code' = Code
      /\ operands \in Seq(Int) /\ frame \in [Slots -> Int] /\ SameVars(frame, seen.frame)
      /\ method' = method /\ arguments' = arguments /\ DOMAIN arguments = 0 .. 2
  BY BeforeTypes
<1>2. UNCHANGED compilerVars /\ KeepSeen
  BY DEF Before
<1>3. seen' = [pc |-> Pc', operands |-> operands', frame |-> frame']
  BY <1>1, <1>2, SeenMoves
<1>4. (status' = "returned" => Pc' = 0) /\ (status' = "trapped" => Pc' = -1)
  <2>1. ASSUME status' = "returned" PROVE Pc' = 0
    BY <2>1 DEF Pc, InHead, Running
  <2>2. ASSUME status' = "trapped" PROVE Pc' = -1
    BY <1>1, <2>2 DEF Pc, InHead, Running
  <2> QED
    BY <2>1, <2>2
<1>5. /\ i \in 1 .. Len(Code) /\ seen.pc = i /\ start[i] \in Nat /\ LimitOf(i) \in Nat /\ start[i] <= ip /\ ip < LimitOf(i)
      /\ Works(result, start[i], LimitOf(i), Code[i], jumps, ip, seen.operands, operands, frame)
  BY DEF Working
<1>6. Code[i].op \in {"Ret", "Rem"}
  OBVIOUS
<1>7. ip = start[i]
  <2> DEFINE v == IF Code[i].op = "Ret" THEN W("return") ELSE W("i32.rem_s")
  <2>1. Code[i].op \in StraightOps /\ CompileStraight(Code[i]) = <<v>>
    BY <1>6 DEF CompileStraight, SimpleOps, StraightOps
  <2>2. Reads(result, start[i], LimitOf(i), <<v>>)
    BY <2>1 DEF CodeOn
  <2> HIDE DEF v
  <2>3. LimitOf(i) = start[i] + 1
    BY <1>5, <2>2, ReadsOne
  <2> QED
    BY <1>1, <1>5, <2>3
<1>8. operands = seen.operands
  BY <1>5, <1>7 DEF Works
<1>9. seen'.pc = Pc' /\ seen'.operands = seen.operands /\ seen'.operands = operands' /\ seen'.frame = frame'
  BY <1>3, <1>8
<1>10. SameVars(seen.frame, seen'.frame)
  BY <1>1, <1>9, SameVarsTwice
<1>11. Keeps
  BY <1>1, <1>9, <1>10 DEF Keeps
<1>12. i \in Nat \ {0}
  BY <1>1, <1>5, Places
<1>13. Machine!Next
  BY <1>4, <1>5, <1>8, <1>9, <1>11, <1>12, MachineEnds
<1>14. DataAt(h, status', ip', operands', frame', seen')
  <2> DEFINE s2 == seen'
             o2 == operands'
             f2 == frame'
             t2 == status'
             q2 == ip'
  <2>1. /\ t2 \in {"returned", "trapped"} /\ o2 \in Seq(Int) /\ f2 \in [Slots -> Int]
        /\ s2.pc \in {0, -1} /\ s2.operands = o2 /\ s2.frame = f2
    BY <1>1, <1>4, <1>9
  <2> HIDE DEF s2, o2, f2, t2, q2
  <2>2. DataAt(h, t2, q2, o2, f2, s2)
    BY <2>1, DataEnds
  <2> QED
    BY <2>2 DEF s2, o2, f2, t2, q2
<1> QED
  BY <1>9, <1>13, <1>14 DEF After
-----------------------------------------------------------------------------
(* The instruction at hand is one of the code of a CIL instruction.        *)
LEMMA AtSome ==
  ASSUME NEW h, Before(h), At.op \notin Structural, ~InTheHead(ip)
  PROVE  \E i \in 1 .. Len(Code) :
           /\ Working(h, i) /\ CodeOn(i)
           /\ Fits(At, result[ip - 1], Code[i], i, ip, start[i], Len(jumpTargets), jumps)
<1>1. /\ EngineInv /\ ExactInv /\ Faithful /\ TestsBooleans /\ Running /\ seen.pc = Pc /\ Height(h)
      /\ DataAt(h, status, ip, operands, frame, seen)
  BY DEF Before
<1>2. PICK i \in 1 .. Len(Code) :
        /\ Covers(i, ip) /\ start[i] <= ip
        /\ Fits(At, result[ip - 1], Code[i], i, ip, start[i], Len(jumpTargets), jumps)
  BY <1>1, WorksInBody
<1>3. Working(h, i)
  BY <1>1, <1>2, WorkingOn
<1>4. CodeOn(i)
  BY <1>1, <1>3, CodeIsOn
<1> QED
  BY <1>2, <1>3, <1>4

(* An instruction that computes, in the code of a CIL instruction and in   *)
(* front of the jump table.                                                *)
LEMMA ComputeInBody ==
  ASSUME NEW h, Before(h), ComputeData, ~InTheHead(ip)
  PROVE  After(h)
<1>1. /\ Advance /\ At.op \notin Structural \cup {"br", "return"}
  <2>1. CASE Compute
    BY <2>1 DEF Compute, BranchOps
  <2>2. CASE StoreJumpTarget
    <3>1. At.op = "set_local" /\ Advance
      BY <2>2 DEF StoreJumpTarget, SetLocal
    <3> QED
      BY <3>1 DEF Structural, Openers
  <2> QED
    BY <2>1, <2>2 DEF ComputeData
<1>2. PICK i \in 1 .. Len(Code) : Working(h, i) /\ CodeOn(i)
  BY <1>1, AtSome
<1>3. Through(i, operands', frame')
  BY <1>2, ComputesOn
<1> QED
  BY <1>1, <1>2, <1>3, WorkGoesOn

(* The one in front of the jump table reads the target's number.           *)
LEMMA ComputeInHead ==
  ASSUME NEW h, Before(h), EngineInv', ComputeData, InTheHead(ip)
  PROVE  After(h)
<1> DEFINE n == Len(jumpTargets)
<1>1. /\ EngineInv /\ Running /\ UNCHANGED compilerVars
  BY DEF Before
<1>2. /\ Compiled /\ ip \in Nat /\ status = "running" /\ operands \in Seq(Int) /\ frame \in [Slots -> Int]
  BY BeforeTypes
<1>3. At.op \notin Structural \cup {"br_table"}
  <2>1. CASE Compute
    BY <2>1 DEF Compute
  <2>2. CASE StoreJumpTarget
    <3>1. At.op = "set_local"
      BY <2>2 DEF StoreJumpTarget, SetLocal
    <3> QED
      BY <3>1 DEF Structural, Openers
  <2> QED
    BY <2>1, <2>2 DEF ComputeData
<1>4. At = GetLocal("jumpTarget", 0)
  BY <1>1, <1>3, HeadOnly
<1>5. /\ Pc = Active(Code, HeadedFor) /\ n \in Nat
      /\ n = 0 => ip = 1
      /\ n > 0 => ip \in 1 .. n + 4 /\ HeadLast = n + 4
      /\ ip <= n + 1 => At.op \in Openers
      /\ n > 0 /\ ip = n + 2 => At.op \in Openers
      /\ n > 0 /\ ip = n + 4 => At.op = "br_table"
  BY <1>1, InTheFront
<1>6. n > 0 /\ ip = n + 3 /\ HeadLast = n + 4
  <2>1. At.op \notin Openers /\ At.op # "br_table"
    BY <1>3 DEF Structural
  <2> HIDE DEF n
  <2> QED
    BY <1>2, <1>5, <2>1
<1>7. At.op = "get_local" /\ At # SetLocal("jumpTarget", 0)
  BY <1>4 DEF GetLocal, SetLocal
<1>8. Compute
  BY <1>7 DEF ComputeData, StoreJumpTarget
<1>9. ip' = ip + 1 /\ status' = status /\ jumpTarget' = jumpTarget
  BY <1>8 DEF Compute, Advance
<1>10. ip' = n + 4 /\ ip' \in Nat /\ InTheHead(ip')
  <2> HIDE DEF n
  <2> QED
    BY <1>5, <1>6, <1>9 DEF InTheHead
<1>11. Pc' = Pc
  <2>1. Running' /\ HeadedFor' = HeadedFor
    BY <1>1, <1>9 DEF Running, HeadedFor, compilerVars
  <2>2. ip' < HeadEnd(Len(jumpTargets))
    <3>1. n + 4 < n + 6 /\ n # 0
      BY <1>5, <1>6
    <3> QED
      BY <1>10, <3>1 DEF HeadEnd
  <2> QED
    BY <1>1, <1>2, <1>5, <1>10, <2>1, <2>2, PcNext
<1>12. operands' \in Seq(Int) /\ frame' = frame
  <2>1. Computes(At, operands, frame, operands', frame')
    BY ComputesData
  <2>2. <<"jumpTarget", 0>> \in Slots
    BY SlotsNamed
  <2> DEFINE o2 == operands'
             f2 == frame'
  <2>3. Computes(GetLocal("jumpTarget", 0), operands, frame, o2, f2)
    BY <1>4, <2>1
  <2> HIDE DEF o2, f2
  <2>4. o2 \in Seq(Int) /\ f2 = frame
    BY <1>2, <2>2, <2>3, ComputesGet
  <2> QED
    BY <2>4 DEF o2, f2
<1> QED
  BY <1>9, <1>10, <1>11, <1>12, MovesInHead

(* A branch that is not taken goes on.                                     *)
LEMMA SkipData ==
  ASSUME NEW h, Before(h), SkipBranchData
  PROVE  After(h)
<1>1. /\ Advance /\ At.op = "br_if"
  BY DEF SkipBranchData, SkipBranch
<1>2. At.op \notin Structural \cup {"br", "return", "br_table"} /\ At # GetLocal("jumpTarget", 0)
  BY <1>1 DEF Structural, Openers, GetLocal
<1>3. ~InTheHead(ip)
  BY <1>2, HeadOnly DEF Before
<1>4. PICK i \in 1 .. Len(Code) : Working(h, i) /\ CodeOn(i)
  BY <1>2, <1>3, AtSome
<1>5. Through(i, operands', frame')
  BY <1>4, SkipsOn
<1> QED
  BY <1>1, <1>2, <1>4, <1>5, WorkGoesOn

(* A return or a division by zero, of a Ret or a Rem.                      *)
LEMMA StopData ==
  ASSUME NEW h, Before(h), TrapData \/ (Return /\ UNCHANGED <<operands, frame>>)
  PROVE  After(h)
<1>1. /\ At.op \in {"i32.rem_s", "call", "return"} /\ status' \in {"returned", "trapped"}
      /\ ip' = ip /\ operands' = operands /\ frame' = frame
      /\ status' = "trapped" => At.op \in {"i32.rem_s", "call"} /\ Last(operands) = 0
      /\ status' = "returned" => At.op = "return"
  BY DEF TrapData, Trap, Return, Top
<1>2. At.op \notin Structural \cup {"br_table"} /\ At # GetLocal("jumpTarget", 0)
  BY <1>1 DEF Structural, Openers, GetLocal
<1>3. ~InTheHead(ip)
  BY <1>2, HeadOnly DEF Before
<1>4. PICK i \in 1 .. Len(Code) :
        /\ Working(h, i) /\ CodeOn(i)
        /\ Fits(At, result[ip - 1], Code[i], i, ip, start[i], Len(jumpTargets), jumps)
  BY <1>2, <1>3, AtSome
<1>5. Code[i].op \notin {"Call", "Callvirt", "Newobj", "Ldfld", "Stfld"}
  BY <1>4 DEF Working, Ordinary
<1>6. /\ At.op \in {"i32.rem_s", "call"} => Code[i].op \in CIL!MayThrow
      /\ At.op = "return" => Code[i].op = "Ret"
  BY <1>4 DEF Fits
<1>7. \/ Code[i].op = "Ret" /\ status' = "returned"
      \/ Code[i].op = "Rem" /\ Last(operands) = 0 /\ status' = "trapped"
  BY <1>1, <1>5, <1>6 DEF CIL!MayThrow
<1> QED
  BY <1>1, <1>4, <1>7, EndData

(* Every step of the engine.                                               *)
LEMMA EngineDataStep ==
  ASSUME DataInv, TestsBooleans, EngineData, KeepSeen
  PROVE  DataInv' /\ (Machine!Next \/ UNCHANGED Machine!vars)
<1>1. /\ EngineInv /\ ExactInv /\ Faithful /\ arguments \in Arguments /\ seen.pc = Pc
      /\ UNCHANGED compilerVars /\ arguments' = arguments
  BY DEF DataInv, EngineData
<1>2. PICK h : Height(h) /\ DataAt(h, status, ip, operands, frame, seen)
  BY DEF DataInv
<1>3. Engine /\ Running
  <2>1. CASE ComputeData
    BY <1>1, <2>1 DEF ComputeData, Compute, StoreJumpTarget, Engine
  <2>2. CASE TakeBranchData
    BY <1>1, <2>2 DEF TakeBranchData, TakeBranch, SelectBranch, Engine
  <2>3. CASE SkipBranchData
    BY <1>1, <2>3 DEF SkipBranchData, SkipBranch, Engine
  <2>4. CASE TrapData
    BY <1>1, <2>4 DEF TrapData, Trap, Engine
  <2>5. CASE OtherData
    BY <1>1, <2>5 DEF OtherData, Enter, Leave, Return, Engine
  <2> QED
    BY <2>1, <2>2, <2>3, <2>4, <2>5 DEF EngineData
<1>4. EngineInv'
  BY <1>1, <1>3, StepEngine DEF Next
<1>5. ExactInv'
  BY <1>1, StepExact
<1>6. Before(h)
  BY <1>1, <1>2, <1>3 DEF Before
<1>7. After(h)
  <2>1. CASE ComputeData
    BY <1>4, <1>6, <2>1, ComputeInBody, ComputeInHead
  <2>2. CASE TakeBranchData
    BY <1>6, <2>2, JumpData, SelectData DEF TakeBranchData
  <2>3. CASE SkipBranchData
    BY <1>6, <2>3, SkipData
  <2>4. CASE TrapData
    BY <1>6, <2>4, StopData
  <2>5. CASE OtherData
    BY <1>6, <2>5, EnterData, LeaveData, StopData DEF OtherData
  <2> QED
    BY <2>1, <2>2, <2>3, <2>4, <2>5 DEF EngineData
<1>8. DataInv'
  BY <1>1, <1>2, <1>4, <1>5, <1>7, DataHolds DEF After
<1> QED
  BY <1>7, <1>8 DEF After
-----------------------------------------------------------------------------
(* The call begins.                                                        *)
LEMMA CallDataStep ==
  ASSUME DataInv, CallData
  PROVE  DataInv' /\ UNCHANGED Machine!vars
<1>1. /\ EngineInv /\ ExactInv /\ Faithful /\ arguments \in Arguments /\ seen.pc = Pc
      /\ Call /\ UNCHANGED compilerVars /\ arguments' = arguments
      /\ operands' = operands /\ frame' = frame /\ seen' = seen
  BY DEF DataInv, CallData, dataVars
<1>2. PICK h : Height(h) /\ DataAt(h, status, ip, operands, frame, seen)
  BY DEF DataInv
<1>3. EngineInv' /\ Pc' = Pc
  BY <1>1, CallStep
<1>4. ExactInv'
  BY <1>1, StepExact
<1>5. status = "idle" /\ status' = "running" /\ ip' = ip /\ ip = 1 /\ phase = "done" /\ Code # <<>>
  BY <1>1 DEF Call, EngineInv
<1>6. Compiled
  BY <1>1, <1>5 DEF Compiled, EngineInv
<1>7. \A i \in 1 .. Len(Code) : ~Covers(i, ip')
  BY <1>5, <1>6, HeadIsFirst
<1>8. DataAt(h, status', ip', operands', frame', seen')
  BY <1>1, <1>2, <1>5, <1>7 DEF DataAt
<1>9. DataInv'
  BY <1>1, <1>2, <1>3, <1>4, <1>8, DataHolds
<1>10. Keeps
  BY <1>1, CallsAssumption DEF Keeps, SameVars, compilerVars
<1> QED
  BY <1>1, <1>9, <1>10, MachineStays

(* The compiler works before the call.                                     *)
LEMMA CompileDataStep ==
  ASSUME DataInv, Compile, UNCHANGED <<engineVars, dataVars>>
  PROVE  DataInv' /\ UNCHANGED Machine!vars
<1>1. /\ EngineInv /\ ExactInv /\ Faithful /\ arguments \in Arguments /\ seen.pc = Pc
      /\ arguments' = arguments /\ operands' = operands /\ frame' = frame /\ seen' = seen
      /\ status' = status
  BY DEF DataInv, dataVars, engineVars
<1>2. PICK h : Height(h) /\ DataAt(h, status, ip, operands, frame, seen)
  BY DEF DataInv
<1>3. EngineInv' /\ Code' = Code /\ Pc' = Pc
  BY <1>1, CompileStep
<1>4. ExactInv'
  BY <1>1, StepExact
<1>5. method' = method
  BY DEF Compile, OpenBlocks, CompileStraightInstruction, CompileBranch, BeginSwitch,
         CompileSwitchItem, EndSwitch, RejectInstruction, CloseBlocks, BeginInstruction
<1>6. status = "idle"
  <2>1. phase # "done"
    BY DEF Compile, OpenBlocks, CompileStraightInstruction, CompileBranch, BeginSwitch,
           CompileSwitchItem, EndSwitch, RejectInstruction, CloseBlocks, InBody, CannotCompile
  <2> QED
    BY <1>1, <2>1 DEF EngineInv
<1>7. Faithful' /\ Height(h)' /\ Fit(h, seen)'
  <2>1. Fit(h, seen)
    BY <1>2 DEF DataAt
  <2>2. seen' = seen /\ Fit(h, seen)'
    BY <1>1, <1>5, <2>1, FaithfulStays DEF Fit, BehindComparison
  <2> QED
    BY <1>1, <1>2, <1>5, <2>2, FaithfulStays
<1>8. DataAt(h, status, ip, operands, frame, seen)'
  BY <1>1, <1>2, <1>6, <1>7 DEF DataAt
<1>9. DataInv'
  BY <1>1, <1>3, <1>4, <1>7, <1>8 DEF DataInv
<1>10. Keeps
  BY <1>1, <1>5, CallsAssumption DEF Keeps, SameVars
<1> QED
  BY <1>1, <1>9, <1>10, MachineStays

(* Or nothing happens.                                                     *)
LEMMA IdleDataStep ==
  ASSUME DataInv, UNCHANGED allVars
  PROVE  DataInv' /\ UNCHANGED Machine!vars
<1>1. /\ EngineInv /\ ExactInv /\ Faithful /\ arguments \in Arguments /\ seen.pc = Pc
      /\ UNCHANGED vars /\ UNCHANGED compilerVars /\ arguments' = arguments
      /\ operands' = operands /\ frame' = frame /\ seen' = seen /\ status' = status /\ ip' = ip /\ method' = method
  BY DEF DataInv, allVars, dataVars, vars, engineVars, compilerVars
<1>2. PICK h : Height(h) /\ DataAt(h, status, ip, operands, frame, seen)
  BY DEF DataInv
<1>3. EngineInv' /\ Code' = Code /\ Pc' = Pc
  BY <1>1, IdleStep
<1>4. ExactInv'
  BY <1>1, StepExact
<1>5. DataAt(h, status', ip', operands', frame', seen')
  BY <1>1, <1>2
<1>6. DataInv'
  BY <1>1, <1>2, <1>3, <1>4, <1>5, DataHolds
<1>7. Keeps
  BY <1>1, CallsAssumption DEF Keeps, SameVars
<1> QED
  BY <1>1, <1>6, <1>7, MachineStays

(* A call starts as the machine does.                                      *)
LEMMA InitData ==
  ASSUME Init, EngineInit, DataInit, Faithful
  PROVE  DataInv /\ Machine!Init
<1>1. EngineInv /\ ExactInv
  BY InitEngine, InitExact
<1>2. method \in Methods
  BY <1>1, CodeFacts DEF EngineInv, LayoutInv, LandInv, BalanceInv, TypeInv, TypeOK
<1>3. Len(Code) \in Nat /\ Code # <<>> /\ 1 \in 1 .. Len(Code)
  BY <1>2, CodeFacts DEF Faithful
<1>4. Pc = Active(Code, 1)
  BY <1>3 DEF EngineInit, Pc, Running, InHead
<1>5. /\ arguments \in Arguments /\ operands = <<>> /\ frame = CallFrame(arguments)
      /\ seen = [pc |-> Pc, operands |-> operands, frame |-> frame] /\ status = "idle"
  BY DEF DataInit, EngineInit, Snapshot
<1>6. arguments \in [0 .. 2 -> Int]
  BY <1>5, CallsAssumption DEF Ints, MinInt
<1>7. /\ frame \in [Slots -> Int]
      /\ \A k \in 0 .. 2 : frame[<<"arg", k>>] = arguments[k]
      /\ \A k \in 0 .. 3 : frame[<<"loc", k>>] = 0
  <2>1. \A s \in Slots : s[1] = "arg" => s[2] \in 0 .. 2
    BY DEF Slots
  <2>2. frame \in [Slots -> Int]
    BY <1>5, <1>6, <2>1 DEF CallFrame
  <2>3. \A k \in 0 .. 2 : frame[<<"arg", k>>] = arguments[k]
    BY <1>5, SlotsNamed DEF CallFrame
  <2>4. \A k \in 0 .. 3 : frame[<<"loc", k>>] = 0
    BY <1>5, SlotsNamed DEF CallFrame
  <2> QED
    BY <2>2, <2>3, <2>4
<1>8. PICK h : Height(h)
  BY DEF Faithful
<1>9. Suits(h, 1, <<>>)
  BY <1>2, <1>8, SuitsEmpty
<1>10. seen.pc = Active(Code, 1) /\ seen.pc = Pc /\ seen.operands = <<>> /\ seen.frame = frame
  BY <1>4, <1>5
<1>11. Fit(h, seen)
  BY <1>2, <1>3, <1>8, <1>9, <1>10, SuitsFit
<1>12. DataAt(h, status, ip, operands, frame, seen)
  <2>1. SameVars(frame, seen.frame)
    BY <1>10 DEF SameVars
  <2>2. operands \in Seq(Int) /\ seen.operands \in Seq(Int)
    BY <1>5, <1>10
  <2> QED
    BY <1>5, <1>7, <1>10, <1>11, <2>1, <2>2 DEF DataAt
<1>13. DataInv
  BY <1>1, <1>5, <1>8, <1>10, <1>12 DEF DataInv
<1>14. Machine!Init
  <2>1. [body |-> Code, hasThis |-> method.hasThis, args |-> arguments]
          \in {[body |-> m.code, hasThis |-> m.hasThis, args |-> a] : m \in Methods, a \in Arguments}
    BY <1>2, <1>5 DEF Code
  <2>2. seen.pc = Machine!Active(Code, 1)
    BY <1>10, SameNumbers
  <2>3. [k \in DOMAIN arguments |-> seen.frame[<<"arg", k>>]] = arguments
    BY <1>6, <1>7, <1>10
  <2>4. [k \in 0 .. 3 |-> seen.frame[<<"loc", k>>]] = [k \in 0 .. 3 |-> 0]
    BY <1>7, <1>10
  <2> QED
    BY <1>10, <2>1, <2>2, <2>3, <2>4 DEF Machine!Init, Machine!LocalIndices
<1> QED
  BY <1>13, <1>14

(* Every step of the compiler and of the engine is one of the machine, or  *)
(* leaves it where it is.                                                  *)
LEMMA StepData ==
  DataInv /\ TestsBooleans /\ [NextData]_allVars => DataInv' /\ [Machine!Next]_(Machine!vars)
<1> SUFFICES ASSUME DataInv, TestsBooleans, [NextData]_allVars
             PROVE  DataInv' /\ (Machine!Next \/ UNCHANGED Machine!vars)
  OBVIOUS
<1>1. CASE Compile /\ UNCHANGED <<engineVars, dataVars>>
  BY <1>1, CompileDataStep
<1>2. CASE CallData
  BY <1>2, CallDataStep
<1>3. CASE EngineData /\ KeepSeen
  BY <1>3, EngineDataStep
<1>4. CASE UNCHANGED allVars
  BY <1>4, IdleDataStep
<1> QED
  BY <1>1, <1>2, <1>3, <1>4 DEF NextData

(* The compiled function computes what the CIL body does: EquivalentToCil, *)
(* for every method of which the compiler's code is right (Faithful), and  *)
(* for every list of arguments with which each Brfalse_S tests 0 or 1      *)
(* whenever the call comes to it.  A Brfalse_S right behind a comparison   *)
(* is not a condition on the arguments: there it is proved.                *)
THEOREM CompiledCodeComputesCil == DataSpec /\ Faithful /\ []TestsBooleans => EquivalentToCil
<1>1. Init /\ EngineInit /\ DataInit /\ Faithful => DataInv /\ Machine!Init
  BY InitData
<1>2. DataInv /\ TestsBooleans /\ [NextData]_allVars => DataInv' /\ [Machine!Next]_(Machine!vars)
  BY StepData
<1> QED
  BY <1>1, <1>2, PTL DEF DataSpec, EquivalentToCil, Machine!Spec
=============================================================================
