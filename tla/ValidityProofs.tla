--------------------------- MODULE ValidityProofs ---------------------------
(***************************************************************************)
(* Theorem about CompiledValidity for every set of methods: a verifiable   *)
(* body that keeps nothing on its evaluation stack across branches is      *)
(* compiled to a function that passes the engine's validation.             *)
(*                                                                         *)
(* The compiler's state is related to the state the check would be in      *)
(* behind the code emitted so far; no step of the argument looks back into *)
(* that code.                                                              *)
(***************************************************************************)
EXTENDS CompiledValidity, MethodBodyCompilerProofs

(* The check goes through code s from state u to state v.                  *)
PathOf(p, u, s, arity) ==
  /\ DOMAIN p = 0 .. Len(s)
  /\ p[0] = u
  /\ \A i \in 1 .. Len(s) : p[i] = Check(p[i - 1], s[i], arity)

Leads(u, s, arity, v) == \E p : PathOf(p, u, s, arity) /\ p[Len(s)] = v

(* No code leads nowhere else.                                             *)
LEMMA LeadsEmpty ==
  ASSUME NEW u, NEW arity
  PROVE  Leads(u, <<>>, arity, u)
<1> DEFINE p == [i \in 0 .. 0 |-> u]
<1>1. PathOf(p, u, <<>>, arity) /\ p[Len(<<>>)] = u
  BY DEF PathOf
<1> QED
  BY <1>1 DEF Leads

(* One instruction is one step of the check.                               *)
LEMMA LeadsOne ==
  ASSUME NEW u, NEW ins, NEW arity
  PROVE  Leads(u, <<ins>>, arity, Check(u, ins, arity))
<1> DEFINE p == [i \in 0 .. 1 |-> IF i = 0 THEN u ELSE Check(u, ins, arity)]
<1>0. Len(<<ins>>) = 1 /\ <<ins>>[1] = ins
  OBVIOUS
<1>1. DOMAIN p = 0 .. 1 /\ p[0] = u /\ p[1] = Check(u, ins, arity)
  OBVIOUS
<1> HIDE DEF p
<1>2. \A i \in 1 .. 1 : p[i] = Check(p[i - 1], <<ins>>[i], arity)
  <2> TAKE i \in 1 .. 1
  <2>1. i = 1 /\ i - 1 = 0
    OBVIOUS
  <2> QED
    BY <1>0, <1>1, <2>1
<1>3. PathOf(p, u, <<ins>>, arity)
  BY <1>0, <1>1, <1>2 DEF PathOf
<1> QED
  BY <1>0, <1>1, <1>3 DEF Leads

(* Code behind code.                                                       *)
LEMMA LeadsOn ==
  ASSUME NEW s \in Seq(WasmInstr), NEW t \in Seq(WasmInstr), NEW arity,
         NEW u, NEW v, NEW w, Leads(u, s, arity, v), Leads(v, t, arity, w)
  PROVE  Leads(u, s \o t, arity, w)
<1> DEFINE m == Len(s)
           n == Len(t)
           c == s \o t
<1>1. PICK p : PathOf(p, u, s, arity) /\ p[m] = v
  BY DEF Leads
<1>2. PICK q : PathOf(q, v, t, arity) /\ q[n] = w
  BY DEF Leads
<1>3. m \in Nat /\ n \in Nat
  OBVIOUS
<1>4. Len(c) = m + n /\ (\A i \in 1 .. m : c[i] = s[i]) /\ \A i \in m + 1 .. m + n : c[i] = t[i - m]
  <2>1. Len(c) = m + n /\ \A i \in 1 .. m + n : c[i] = IF i <= m THEN s[i] ELSE t[i - m]
    BY ConcatProperties
  <2> HIDE DEF c, m, n
  <2> QED
    BY <1>3, <2>1
<1> DEFINE r == [i \in 0 .. m + n |-> IF i <= m THEN p[i] ELSE q[i - m]]
<1>5. /\ DOMAIN r = 0 .. m + n
      /\ \A i \in 0 .. m : r[i] = p[i]
      /\ \A i \in m + 1 .. m + n : r[i] = q[i - m]
  <2> HIDE DEF m, n
  <2> QED
    BY <1>3
<1>6. r[m] = q[0]
  <2>1. q[0] = v
    BY <1>2 DEF PathOf
  <2> HIDE DEF r, m, n
  <2> QED
    BY <1>1, <1>3, <1>5, <2>1
<1>7. ASSUME NEW i \in 1 .. m + n PROVE r[i] = Check(r[i - 1], c[i], arity)
  <2>1. CASE i <= m
    <3>1. i \in 1 .. m /\ i \in 0 .. m /\ i - 1 \in 0 .. m
      BY <1>3, <2>1
    <3>2. p[i] = Check(p[i - 1], s[i], arity)
      BY <1>1, <3>1 DEF PathOf
    <3> HIDE DEF r, c, m, n
    <3> QED
      BY <1>4, <1>5, <3>1, <3>2
  <2>2. CASE i > m
    <3> DEFINE k == i - m
    <3>1. i \in m + 1 .. m + n /\ k \in 1 .. n /\ k - 1 = (i - 1) - m /\ (i - 1 = m \/ i - 1 \in m + 1 .. m + n)
      BY <1>3, <2>2
    <3>2. q[k] = Check(q[k - 1], t[k], arity)
      BY <1>2, <3>1 DEF PathOf
    <3>3. r[i] = q[k] /\ c[i] = t[k]
      <4> HIDE DEF r, c, m, n
      <4> QED
        BY <1>4, <1>5, <3>1
    <3>4. r[i - 1] = q[k - 1]
      <4>1. CASE i - 1 = m
        <5>1. k - 1 = 0
          BY <1>3, <3>1, <4>1
        <5> HIDE DEF r, k, m, n
        <5> QED
          BY <1>6, <4>1, <5>1
      <4>2. CASE i - 1 \in m + 1 .. m + n
        <5> HIDE DEF r, m, n
        <5> QED
          BY <1>5, <3>1, <4>2
      <4> QED
        BY <3>1, <4>1, <4>2
    <3> HIDE DEF r, c, k
    <3> QED
      BY <3>2, <3>3, <3>4
  <2> QED
    BY <1>3, <2>1, <2>2
<1>8. r[0] = u
  <2>1. p[0] = u /\ 0 \in 0 .. m
    BY <1>1, <1>3 DEF PathOf
  <2> HIDE DEF r, m, n
  <2> QED
    BY <1>5, <2>1
<1>9. r[m + n] = w
  <2>1. CASE n = 0
    <3> HIDE DEF r
    <3>1. q[0] = w /\ m + n = m
      BY <1>2, <1>3, <2>1
    <3> QED
      BY <1>6, <3>1
  <2>2. CASE n # 0
    <3>1. m + n \in m + 1 .. m + n /\ (m + n) - m = n
      BY <1>3, <2>2
    <3> HIDE DEF r, m, n
    <3> QED
      BY <1>2, <1>5, <3>1
  <2> QED
    BY <2>1, <2>2
<1> HIDE DEF r, c, m, n
<1>10. PathOf(r, u, c, arity) /\ r[Len(c)] = w
  BY <1>4, <1>5, <1>7, <1>8, <1>9 DEF PathOf
<1>11. Leads(u, c, arity, w)
  BY <1>10 DEF Leads
<1> QED
  BY <1>11 DEF c

(* A path through code from the beginning is the function Checked defines: *)
(* it shows that there is one, and two differ nowhere, since they would    *)
(* differ first somewhere.                                                 *)
LEMMA LeadsIsChecked ==
  ASSUME NEW s \in Seq(WasmInstr), NEW arity, NEW v, Leads(Begin, s, arity, v)
  PROVE  Checked(s, arity)[Len(s)] = v
<1> DEFINE n    == Len(s)
           step(f) == [i \in 0 .. n |-> IF i = 0 THEN Begin ELSE Check(f[i - 1], s[i], arity)]
           c    == CHOOSE f : f = step(f)
<1>0. n \in Nat
  OBVIOUS
<1>1. PICK p : PathOf(p, Begin, s, arity) /\ p[n] = v
  BY DEF Leads
<1>2. \A i \in 0 .. n : i # 0 => i \in 1 .. n
  BY <1>0
<1>3. \E f : f = step(f)
  <2> DEFINE f == [i \in 0 .. n |-> p[i]]
  <2>1. \A i \in 0 .. n : i # 0 => i - 1 \in 0 .. n
    BY <1>0
  <2>2. \A i \in 0 .. n : p[i] = IF i = 0 THEN Begin ELSE Check(f[i - 1], s[i], arity)
    BY <1>1, <1>2, <2>1 DEF PathOf
  <2>3. f = step(f)
    BY <2>2
  <2> QED
    BY <2>3
<1>4. c = step(c)
  BY <1>3
<1>5. Checked(s, arity) = c
  BY DEF Checked
<1> HIDE DEF c
<1>6. c[0] = Begin /\ \A i \in 1 .. n : c[i] = Check(c[i - 1], s[i], arity)
  <2>1. \A i \in 0 .. n : c[i] = IF i = 0 THEN Begin ELSE Check(c[i - 1], s[i], arity)
    BY <1>4
  <2>2. 0 \in 0 .. n /\ \A i \in 1 .. n : i \in 0 .. n /\ i # 0
    BY <1>0
  <2> QED
    BY <2>1, <2>2
<1> DEFINE D == {i \in 0 .. n : c[i] # p[i]}
<1>7. D = {}
  <2> SUFFICES ASSUME D # {} PROVE FALSE
    OBVIOUS
  <2>1. D \subseteq Nat
    BY <1>0
  <2>2. PICK i \in D : \A j \in D : ~(j < i)
    <3>1. PICK i \in D : \A j \in D : ~(<<j, i>> \in OpToRel(<, Nat))
      BY <2>1, NatLessThanWellFounded, WFMin
    <3>2. \A j \in D : j < i => <<j, i>> \in OpToRel(<, Nat)
      BY <2>1, <3>1 DEF OpToRel
    <3> QED
      BY <3>1, <3>2
  <2>3. i # 0
    BY <1>1, <1>6, <2>2 DEF PathOf
  <2>4. i \in 1 .. n /\ i - 1 \in 0 .. n /\ i - 1 < i
    BY <1>0, <2>2, <2>3
  <2>5. c[i - 1] = p[i - 1]
    BY <2>2, <2>4
  <2>6. p[i] = Check(p[i - 1], s[i], arity)
    BY <1>1, <2>4 DEF PathOf
  <2>7. c[i] = p[i]
    BY <1>6, <2>4, <2>5, <2>6
  <2> QED
    BY <2>2, <2>7
<1>8. c[n] = p[n]
  BY <1>0, <1>7
<1> QED
  BY <1>1, <1>5, <1>8
-----------------------------------------------------------------------------
(* The states of the check the compiler's code goes through: n frames that *)
(* all start at height 0, only the innermost of which may be unreachable.  *)
Flagged(d)   == [base |-> 0, dead |-> d = 1]
FrameType    == {Flagged(0), Flagged(1)}
Frames(n, d) == [k \in 1 .. n |-> IF k = n THEN Flagged(d) ELSE Flagged(0)]

State(x, n, d) == [ok |-> TRUE, height |-> x, frames |-> Frames(n, d)]

(* In reachable code the height is y; in unreachable code it is not above. *)
Fits(v, y, n) == \E x \in 0 .. y, d \in 0 .. 1 : v = State(x, n, d) /\ (d = 0 => x = y)

(* The frames are a sequence.                                              *)
LEMMA FramesType ==
  ASSUME NEW n \in Nat, NEW d \in 0 .. 1
  PROVE  Frames(n, d) \in Seq(FrameType) /\ Len(Frames(n, d)) = n /\ Flagged(d) \in FrameType
<1>1. Flagged(d) \in FrameType /\ Flagged(0) \in FrameType
  <2>1. d = 0 \/ d = 1
    OBVIOUS
  <2> QED
    BY <2>1 DEF FrameType
<1> QED
  BY <1>1 DEF Frames

(* A frame put inside the others.                                          *)
LEMMA FramesInner ==
  ASSUME NEW n \in Nat, NEW d \in 0 .. 1
  PROVE  Append(Frames(n, 0), Flagged(d)) = Frames(n + 1, d)
<1>0. 0 \in 0 .. 1 /\ n + 1 \in Nat
  OBVIOUS
<1> DEFINE f == Frames(n, 0)
           g == Frames(n + 1, d)
           a == Append(f, Flagged(d))
<1>1. f \in Seq(FrameType) /\ g \in Seq(FrameType) /\ Len(f) = n /\ Len(g) = n + 1 /\ Flagged(d) \in FrameType
  <2>1. f \in Seq(FrameType) /\ Len(f) = n
    BY <1>0, FramesType
  <2>2. g \in Seq(FrameType) /\ Len(g) = n + 1 /\ Flagged(d) \in FrameType
    BY <1>0, FramesType
  <2> QED
    BY <2>1, <2>2
<1>2. a \in Seq(FrameType) /\ Len(a) = n + 1 /\ a[n + 1] = Flagged(d) /\ \A k \in 1 .. n : a[k] = f[k]
  <2> HIDE DEF f, g
  <2> QED
    BY <1>1, AppendProperties
<1>3. g[n + 1] = Flagged(d) /\ \A k \in 1 .. n : g[k] = Flagged(0)
  BY DEF Frames
<1>4. \A k \in 1 .. n : f[k] = Flagged(0)
  BY DEF Frames
<1> HIDE DEF f, g, a
<1>5. \A k \in 1 .. n + 1 : k \in 1 .. n \/ k = n + 1
  OBVIOUS
<1>6. \A k \in 1 .. n + 1 : a[k] = g[k]
  BY <1>2, <1>3, <1>4, <1>5
<1>7. a = g
  BY <1>1, <1>2, <1>6, SeqEqual
<1> QED
  BY <1>7 DEF a, f, g

(* The innermost frame and the others.                                     *)
LEMMA FramesFacts ==
  ASSUME NEW n \in Nat \ {0}, NEW d \in 0 .. 1
  PROVE  /\ Len(Frames(n, d)) = n /\ Frames(n, d) # <<>>
         /\ Last(Frames(n, d)) = Flagged(d)
         /\ Front(Frames(n, d)) = Frames(n - 1, 0)
<1> DEFINE f == Frames(n, d)
<1>0. f \in Seq(FrameType) /\ Len(f) = n
  BY FramesType
<1>1. f # <<>>
  BY <1>0
<1>2. Last(f) = f[n]
  <2> HIDE DEF f
  <2> QED
    BY <1>0 DEF Last
<1>3. f[n] = Flagged(d)
  BY DEF Frames
<1>4. Front(f) = SubSeq(f, 1, n - 1)
  <2> HIDE DEF f
  <2> QED
    BY <1>0 DEF Front
<1>5. SubSeq(f, 1, n - 1) = [k \in 1 .. n - 1 |-> f[k]]
  <2> HIDE DEF f
  <2> QED
    BY <1>0
<1>6. \A k \in 1 .. n - 1 : f[k] = Flagged(0)
  BY DEF Frames
<1>7. Frames(n - 1, 0) = [k \in 1 .. n - 1 |-> Flagged(0)]
  BY DEF Frames
<1>8. [k \in 1 .. n - 1 |-> f[k]] = [k \in 1 .. n - 1 |-> Flagged(0)]
  <2> HIDE DEF f
  <2> QED
    BY <1>6
<1> QED
  BY <1>0, <1>1, <1>2, <1>3, <1>4, <1>5, <1>7, <1>8

(* The fields of a state.                                                  *)
LEMMA StateFacts ==
  ASSUME NEW n \in Nat \ {0}, NEW d \in 0 .. 1, NEW x \in Nat, NEW v, v = State(x, n, d)
  PROVE  /\ v.ok /\ v.height = x /\ v.frames = Frames(n, d)
         /\ Len(v.frames) = n /\ v.frames # <<>>
         /\ Last(v.frames).base = 0 /\ (Last(v.frames).dead <=> d = 1)
<1>1. v.ok /\ v.height = x /\ v.frames = Frames(n, d)
  BY DEF State
<1>2. Len(v.frames) = n /\ v.frames # <<>> /\ Last(v.frames) = Flagged(d)
  BY <1>1, FramesFacts
<1>3. Flagged(d).base = 0 /\ Flagged(d).dead = (d = 1)
  BY DEF Flagged
<1> QED
  BY <1>1, <1>2, <1>3

(* What popping and pushing does to such a state.                          *)
LEMMA PopPushState ==
  ASSUME NEW n \in Nat \ {0}, NEW d \in 0 .. 1, NEW x \in Nat, NEW takes \in Nat, NEW gives \in Nat,
         NEW v, v = State(x, n, d), d = 0 => takes <= x,
         NEW z \in Nat, z = gives + (IF x < takes THEN 0 ELSE x - takes)
  PROVE  PopPush(v, takes, gives) = State(z, n, d)
<1> DEFINE b == v.ok /\ (v.height - takes < Last(v.frames).base => Last(v.frames).dead)
           y == gives + (IF v.height - takes < Last(v.frames).base THEN Last(v.frames).base ELSE v.height - takes)
<1>1. /\ v.ok /\ v.height = x /\ v.frames = Frames(n, d)
      /\ Last(v.frames).base = 0 /\ (Last(v.frames).dead <=> d = 1)
  BY StateFacts
<1>2. b
  <2>1. x - takes < 0 => d = 1
    OBVIOUS
  <2> QED
    BY <1>1, <2>1
<1>3. b = TRUE
  BY <1>2
<1>4. y = z
  BY <1>1
<1>5. PopPush(v, takes, gives) = [ok |-> b, height |-> y, frames |-> v.frames]
  BY DEF PopPush
<1> HIDE DEF b, y
<1> QED
  BY <1>1, <1>3, <1>4, <1>5 DEF State

(* The heights stay in step: an instruction that finds its operands in     *)
(* reachable code goes on in unreachable code too.                         *)
LEMMA PopPushFits ==
  ASSUME NEW n \in Nat \ {0}, NEW y \in Nat, NEW v, Fits(v, y, n),
         NEW takes \in Nat, NEW gives \in Nat, takes <= y
  PROVE  Fits(PopPush(v, takes, gives), y - takes + gives, n)
<1>1. PICK x \in 0 .. y, d \in 0 .. 1 : v = State(x, n, d) /\ (d = 0 => x = y)
  BY DEF Fits
<1> DEFINE z == gives + (IF x < takes THEN 0 ELSE x - takes)
<1>2. z \in 0 .. y - takes + gives /\ (d = 0 => z = y - takes + gives) /\ z \in Nat
  BY <1>1
<1>3. PopPush(v, takes, gives) = State(z, n, d)
  <2>1. x \in Nat /\ (d = 0 => takes <= x) /\ z = gives + (IF x < takes THEN 0 ELSE x - takes)
    BY <1>1
  <2> HIDE DEF z
  <2> QED
    BY <1>1, <1>2, <2>1, PopPushState
<1> HIDE DEF z
<1> QED
  BY <1>2, <1>3 DEF Fits

(* Code that leaves the frame is followed by unreachable code, for which   *)
(* any height will do.                                                     *)
LEMMA UnreachableFits ==
  ASSUME NEW n \in Nat \ {0}, NEW y \in Nat, NEW v, Fits(v, y, n), NEW z \in Nat
  PROVE  Fits(Unreachable(v), z, n)
<1>1. PICK x \in 0 .. y, d \in 0 .. 1 : v = State(x, n, d)
  BY DEF Fits
<1>2. v.ok /\ v.frames = Frames(n, d) /\ Last(v.frames).base = 0
  BY <1>1, StateFacts
<1>3. Append(Front(v.frames), Flagged(1)) = Frames(n, 1)
  <2>1. Front(v.frames) = Frames(n - 1, 0)
    BY <1>2, FramesFacts
  <2>2. Append(Frames(n - 1, 0), Flagged(1)) = Frames((n - 1) + 1, 1)
    <3>1. n - 1 \in Nat /\ 1 \in 0 .. 1
      OBVIOUS
    <3> QED
      BY <3>1, FramesInner
  <2> QED
    BY <2>1, <2>2
<1>4. Unreachable(v) = [ok |-> v.ok, height |-> 0, frames |-> Append(Front(v.frames), Flagged(1))]
  BY <1>2 DEF Unreachable, Flagged
<1>5. Unreachable(v) = State(0, n, 1)
  BY <1>2, <1>3, <1>4 DEF State
<1>6. 0 \in 0 .. z /\ 1 \in 0 .. 1 /\ 1 # 0
  OBVIOUS
<1> QED
  BY <1>5, <1>6 DEF Fits

(* A block or loop is opened in reachable code, with nothing below it.     *)
LEMMA OpenFrameState ==
  ASSUME NEW n \in Nat \ {0}
  PROVE  OpenFrame(State(0, n, 0)) = State(0, n + 1, 0)
<1> DEFINE v == State(0, n, 0)
<1>0. 0 \in 0 .. 1
  OBVIOUS
<1>1. v.ok /\ v.height = 0 /\ v.frames = Frames(n, 0)
  <2>1. v = State(0, n, 0)
    OBVIOUS
  <2> HIDE DEF v
  <2> QED
    BY <1>0, <2>1, StateFacts
<1>2. Frame(0) = Flagged(0)
  <2>1. (0 = 1) = FALSE
    OBVIOUS
  <2> QED
    BY <2>1 DEF Frame, Flagged
<1>3. Append(v.frames, Frame(v.height)) = Frames(n + 1, 0)
  <2>1. Frame(v.height) = Flagged(0)
    BY <1>1, <1>2
  <2>2. Append(Frames(n, 0), Flagged(0)) = Frames(n + 1, 0)
    BY <1>0, FramesInner
  <2> HIDE DEF v
  <2> QED
    BY <1>1, <2>1, <2>2
<1>4. OpenFrame(v) = [ok |-> v.ok, height |-> v.height, frames |-> Append(v.frames, Frame(v.height))]
  BY DEF OpenFrame
<1> HIDE DEF v
<1>5. OpenFrame(v) = State(0, n + 1, 0)
  BY <1>1, <1>3, <1>4 DEF State
<1> QED
  BY <1>5 DEF v

(* What the end of a frame finds and leaves.                               *)
LEMMA CloseFrameState ==
  ASSUME NEW n \in Nat \ {0}, NEW arity \in Nat, NEW v, Fits(v, arity, n)
  PROVE  CloseFrame(v, arity) = State(0, n - 1, 0)
<1>1. PICK x \in 0 .. arity, d \in 0 .. 1 : v = State(x, n, d) /\ (d = 0 => x = arity)
  BY DEF Fits
<1> DEFINE w == PopPush(v, arity, 0)
<1>2. w = State(0, n, d)
  <2>1. x \in Nat /\ (d = 0 => arity <= x) /\ 0 \in Nat /\ 0 = 0 + (IF x < arity THEN 0 ELSE x - arity)
    BY <1>1
  <2> QED
    BY <1>1, <2>1, PopPushState
<1>3. w.ok /\ w.height = 0 /\ w.frames = Frames(n, d) /\ Last(w.frames).base = 0
  <2> HIDE DEF w
  <2> QED
    BY <1>2, StateFacts
<1>4. Front(w.frames) = Frames(n - 1, 0)
  BY <1>3, FramesFacts
<1>5. CloseFrame(v, arity) = [ok |-> w.ok /\ w.height = Last(w.frames).base, height |-> w.height, frames |-> Front(w.frames)]
  BY DEF CloseFrame
<1> HIDE DEF w
<1>6. (w.ok /\ w.height = Last(w.frames).base) = TRUE
  BY <1>3
<1> QED
  BY <1>3, <1>4, <1>5, <1>6 DEF State
-----------------------------------------------------------------------------
(* Code that takes the check from height x to height y inside n frames.    *)
Moves(s, x, y, n, arity) ==
  \A v : Fits(v, x, n) => \E w : Leads(v, s, arity, w) /\ Fits(w, y, n)

(* An instruction that goes on behind itself, and one that never does;     *)
(* neither goes to the function's own label by a branch.                   *)
Plain(ins, n) ==
  /\ ins.op \notin Structural \cup {"br", "br_table", "return"}
  /\ ins.op = "br_if" => ins.n # n - 1
  /\ Takes(ins) \in Nat /\ Gives(ins) \in Nat

Final(ins, n) ==
  \/ ins.op = "return"
  \/ ins.op = "br_table"
  \/ ins.op = "br" /\ ins.n # n - 1

(* The check goes on in such states.                                       *)
LEMMA FitsFacts ==
  ASSUME NEW n \in Nat \ {0}, NEW y \in Nat, NEW v, Fits(v, y, n), NEW ins, NEW arity
  PROVE  v.ok /\ v.frames # <<>> /\ Len(v.frames) = n /\ Check(v, ins, arity) = Validate(v, ins, arity)
<1>1. PICK x \in 0 .. y, d \in 0 .. 1 : v = State(x, n, d)
  BY DEF Fits
<1>2. v.ok /\ v.frames # <<>> /\ Len(v.frames) = n
  BY <1>1, StateFacts
<1> QED
  BY <1>2 DEF Check

(* An instruction whose operands are there moves the height.               *)
LEMMA PlainMoves ==
  ASSUME NEW n \in Nat \ {0}, NEW arity, NEW ins, Plain(ins, n),
         NEW x \in Nat, Takes(ins) <= x, NEW y \in Nat, y = x - Takes(ins) + Gives(ins)
  PROVE  Moves(<<ins>>, x, y, n, arity)
<1> SUFFICES ASSUME NEW v, Fits(v, x, n)
             PROVE  \E w : Leads(v, <<ins>>, arity, w) /\ Fits(w, y, n)
  BY DEF Moves
<1>1. Len(v.frames) = n /\ Check(v, ins, arity) = Validate(v, ins, arity)
  BY FitsFacts
<1>2. /\ ins.op \notin Openers /\ ins.op # "end" /\ ins.op \notin {"br", "br_table", "return"}
      /\ ~((ins.op \in BranchOps /\ ins.n = Len(v.frames) - 1) \/ ins.op = "return")
  BY <1>1 DEF Plain, Structural, BranchOps
<1>3. Validate(v, ins, arity) = PopPush(v, Takes(ins) + 0, Gives(ins) + 0)
  BY <1>2 DEF Validate
<1>4. Takes(ins) \in Nat /\ Gives(ins) \in Nat /\ Takes(ins) + 0 = Takes(ins) /\ Gives(ins) + 0 = Gives(ins)
  BY DEF Plain
<1>5. Fits(PopPush(v, Takes(ins), Gives(ins)), x - Takes(ins) + Gives(ins), n)
  BY <1>4, PopPushFits
<1>6. Fits(Check(v, ins, arity), y, n)
  BY <1>1, <1>3, <1>4, <1>5
<1>7. Leads(v, <<ins>>, arity, Check(v, ins, arity))
  BY LeadsOne
<1> QED
  BY <1>6, <1>7

(* Behind an instruction that leaves the code, any height will do.         *)
LEMMA FinalMoves ==
  ASSUME NEW n \in Nat \ {0}, NEW arity \in Nat, NEW ins, Final(ins, n),
         NEW x \in Nat, Takes(ins) \in Nat, Takes(ins) <= x, ins.op = "return" => Takes(ins) + arity <= x,
         NEW y \in Nat
  PROVE  Moves(<<ins>>, x, y, n, arity)
<1> SUFFICES ASSUME NEW v, Fits(v, x, n)
             PROVE  \E w : Leads(v, <<ins>>, arity, w) /\ Fits(w, y, n)
  BY DEF Moves
<1> DEFINE leaves == IF ins.op = "return" THEN arity ELSE 0
           popped == PopPush(v, Takes(ins), 0)
           w == Unreachable(PopPush(popped, leaves, 0))
<1>1. Len(v.frames) = n /\ Check(v, ins, arity) = Validate(v, ins, arity)
  BY FitsFacts
<1>2. ins.op \notin Openers /\ ins.op # "end" /\ ins.op \in {"br", "br_table", "return"}
  BY DEF Final, Openers
<1>3. ~(ins.op \in BranchOps /\ ins.n = Len(v.frames) - 1)
  BY <1>1 DEF Final, BranchOps
<1>4. Validate(v, ins, arity) = w
  BY <1>2, <1>3 DEF Validate
<1>5. Fits(popped, x - Takes(ins), n)
  <2>1. Fits(popped, x - Takes(ins) + 0, n)
    BY PopPushFits
  <2>2. x - Takes(ins) + 0 = x - Takes(ins)
    OBVIOUS
  <2> HIDE DEF popped
  <2> QED
    BY <2>1, <2>2
<1>6. Fits(PopPush(popped, leaves, 0), x - Takes(ins) - leaves + 0, n)
  <2> DEFINE z == x - Takes(ins)
  <2>1. z \in Nat /\ leaves \in Nat /\ leaves <= z /\ 0 \in Nat
    OBVIOUS
  <2>2. Fits(popped, z, n)
    BY <1>5
  <2> HIDE DEF popped, z, leaves
  <2>3. Fits(PopPush(popped, leaves, 0), z - leaves + 0, n)
    BY <2>1, <2>2, PopPushFits
  <2> QED
    BY <2>3 DEF z
<1>7. Fits(w, y, n)
  <2>1. x - Takes(ins) - leaves + 0 \in Nat
    OBVIOUS
  <2> DEFINE u == PopPush(popped, leaves, 0)
             z == x - Takes(ins) - leaves + 0
  <2>2. Fits(u, z, n) /\ z \in Nat
    BY <1>6, <2>1
  <2> HIDE DEF u, z
  <2>3. Fits(Unreachable(u), y, n)
    BY <2>2, UnreachableFits
  <2> QED
    BY <2>3 DEF u
<1>8. Leads(v, <<ins>>, arity, Check(v, ins, arity))
  BY LeadsOne
<1> HIDE DEF w
<1> QED
  BY <1>1, <1>4, <1>7, <1>8

(* Moves add up.                                                           *)
LEMMA MovesNowhere ==
  ASSUME NEW x, NEW n, NEW arity
  PROVE  Moves(<<>>, x, x, n, arity)
  BY LeadsEmpty DEF Moves

(* One piece of code behind another.                                       *)
LEMMA MovesOn ==
  ASSUME NEW s \in Seq(WasmInstr), NEW t \in Seq(WasmInstr), NEW n, NEW arity,
         NEW x, NEW y, NEW z, Moves(s, x, y, n, arity), Moves(t, y, z, n, arity)
  PROVE  Moves(s \o t, x, z, n, arity)
<1> SUFFICES ASSUME NEW u, Fits(u, x, n)
             PROVE  \E w : Leads(u, s \o t, arity, w) /\ Fits(w, z, n)
  BY DEF Moves
<1>1. PICK v : Leads(u, s, arity, v) /\ Fits(v, y, n)
  BY DEF Moves
<1>2. PICK w : Leads(v, t, arity, w) /\ Fits(w, z, n)
  BY <1>1 DEF Moves
<1>3. Leads(u, s \o t, arity, w)
  BY <1>1, <1>2, LeadsOn
<1> QED
  BY <1>2, <1>3

(* Code of any length, one plain instruction after another: h[k] is the    *)
(* height before the k-th.  Were there a first place it does not reach, it *)
(* would be reached from the one before.                                   *)
LEMMA ManyMove ==
  ASSUME NEW s \in Seq(WasmInstr), NEW n \in Nat \ {0}, NEW arity,
         NEW h \in [1 .. Len(s) + 1 -> Nat],
         \A k \in 1 .. Len(s) : /\ Plain(s[k], n) /\ Takes(s[k]) <= h[k]
                                /\ h[k + 1] = h[k] - Takes(s[k]) + Gives(s[k])
  PROVE  Moves(s, h[1], h[Len(s) + 1], n, arity)
<1> DEFINE D == {k \in 0 .. Len(s) : ~Moves(SubSeq(s, 1, k), h[1], h[k + 1], n, arity)}
<1>0. Len(s) \in Nat /\ SubSeq(s, 1, Len(s)) = s
  BY SubSeqFull
<1>1. D = {}
  <2> SUFFICES ASSUME D # {} PROVE FALSE
    OBVIOUS
  <2>1. D \subseteq Nat
    BY <1>0
  <2>2. PICK k \in D : \A j \in D : ~(j < k)
    <3> HIDE DEF D
    <3>1. PICK k \in D : \A j \in D : ~(<<j, k>> \in OpToRel(<, Nat))
      BY <2>1, NatLessThanWellFounded, WFMin
    <3>2. \A j \in D : j < k => <<j, k>> \in OpToRel(<, Nat)
      BY <2>1, <3>1 DEF OpToRel
    <3> QED
      BY <3>1, <3>2
  <2>3. k # 0
    <3>1. SubSeq(s, 1, 0) = <<>> /\ 0 + 1 = 1
      BY SubSeqEmpty
    <3>2. Moves(<<>>, h[1], h[1], n, arity)
      BY MovesNowhere
    <3>3. Moves(SubSeq(s, 1, 0), h[1], h[0 + 1], n, arity)
      BY <3>1, <3>2
    <3>4. 0 \notin D
      BY <3>3
    <3> HIDE DEF D
    <3> QED
      BY <2>2, <3>4
  <2>4. k \in 1 .. Len(s) /\ k - 1 \in 0 .. Len(s) /\ k - 1 < k /\ k - 1 \notin D
    <3>1. k \in 0 .. Len(s)
      OBVIOUS
    <3> HIDE DEF D
    <3>2. k \in 1 .. Len(s) /\ k - 1 \in 0 .. Len(s) /\ k - 1 < k
      BY <1>0, <2>3, <3>1
    <3> QED
      BY <2>2, <3>2
  <2>5. Moves(SubSeq(s, 1, k - 1), h[1], h[k], n, arity)
    <3>1. (k - 1) + 1 = k
      BY <2>4
    <3> QED
      BY <2>4, <3>1
  <2>6. Moves(<<s[k]>>, h[k], h[k + 1], n, arity)
    <3>1. k \in 1 .. Len(s) + 1 /\ k + 1 \in 1 .. Len(s) + 1
      BY <1>0, <2>4
    <3>2. h[k] \in Nat /\ h[k + 1] \in Nat
      BY <3>1
    <3> QED
      BY <2>4, <3>2, PlainMoves
  <2>7. SubSeq(s, 1, k) = SubSeq(s, 1, k - 1) \o <<s[k]>>
    <3>1. 1 \in 1 .. Len(s) /\ k \in 1 .. Len(s)
      BY <1>0, <2>4
    <3> QED
      BY <3>1, SubSeqRecursiveSecond
  <2>8. SubSeq(s, 1, k - 1) \in Seq(WasmInstr) /\ <<s[k]>> \in Seq(WasmInstr)
    <3>1. \A i \in 1 .. k - 1 : s[i] \in WasmInstr
      BY <1>0, <2>4, ElementOfSeq
    <3>2. s[k] \in WasmInstr
      BY <2>4, ElementOfSeq
    <3> QED
      BY <2>4, <3>1, <3>2, SubSeqProperties
  <2>9. Moves(SubSeq(s, 1, k), h[1], h[k + 1], n, arity)
    <3> DEFINE a == SubSeq(s, 1, k - 1)
               b == <<s[k]>>
    <3>1. a \in Seq(WasmInstr) /\ b \in Seq(WasmInstr) /\ Moves(a, h[1], h[k], n, arity) /\ Moves(b, h[k], h[k + 1], n, arity)
      BY <2>5, <2>6, <2>8
    <3> HIDE DEF a, b
    <3>2. Moves(a \o b, h[1], h[k + 1], n, arity)
      BY <3>1, MovesOn
    <3> QED
      BY <2>7, <3>2 DEF a, b
  <2> QED
    BY <2>2, <2>9
<1>2. Moves(SubSeq(s, 1, Len(s)), h[1], h[Len(s) + 1], n, arity)
  BY <1>0, <1>1
<1> QED
  BY <1>0, <1>2
-----------------------------------------------------------------------------
(* The code of the CIL instructions.                                       *)

(* What the engine's instructions take and give.                           *)
LEMMA PlainOps ==
  ASSUME NEW n \in Nat
  PROVE  /\ \A b \in Binary : Plain(W(b), n) /\ Takes(W(b)) = 2 /\ Gives(W(b)) = 1
         /\ Plain(W("drop"), n) /\ Takes(W("drop")) = 1 /\ Gives(W("drop")) = 0
         /\ \A k : Plain(Const(k), n) /\ Takes(Const(k)) = 0 /\ Gives(Const(k)) = 1
         /\ \A x, k : Plain(GetLocal(x, k), n) /\ Takes(GetLocal(x, k)) = 0 /\ Gives(GetLocal(x, k)) = 1
         /\ \A x, k : Plain(SetLocal(x, k), n) /\ Takes(SetLocal(x, k)) = 1 /\ Gives(SetLocal(x, k)) = 0
         /\ \A k : Plain(WN("get_global", k), n) /\ Takes(WN("get_global", k)) = 0 /\ Gives(WN("get_global", k)) = 1
         /\ \A k : Plain(WN("i32.load", k), n) /\ Takes(WN("i32.load", k)) = 1 /\ Gives(WN("i32.load", k)) = 1
         /\ \A k : Plain(WN("i32.store", k), n) /\ Takes(WN("i32.store", k)) = 2 /\ Gives(WN("i32.store", k)) = 0
         /\ \A k : k # n - 1 => Plain(WN("br_if", k), n) /\ Takes(WN("br_if", k)) = 1 /\ Gives(WN("br_if", k)) = 0
<1>1. \A op : W(op).op = op
  BY DEF W
<1>2. \A op, k : WN(op, k).op = op /\ WN(op, k).n = k
  BY DEF WN
<1>3. \A x, k : GetLocal(x, k).op = "get_local" /\ SetLocal(x, k).op = "set_local"
  BY DEF GetLocal, SetLocal
<1>4. \A k : Const(k).op = "i32.const"
  BY DEF Const, WN
<1>5. \A ins : ins.op \in Binary => Plain(ins, n) /\ Takes(ins) = 2 /\ Gives(ins) = 1
  BY DEF Plain, Takes, Gives, Binary, Structural, Openers
<1>6. \A ins : ins.op \in {"get_local", "i32.const", "get_global"} => Plain(ins, n) /\ Takes(ins) = 0 /\ Gives(ins) = 1
  BY DEF Plain, Takes, Gives, Binary, Structural, Openers
<1>7. \A ins : ins.op \in {"set_local", "drop"} => Plain(ins, n) /\ Takes(ins) = 1 /\ Gives(ins) = 0
  BY DEF Plain, Takes, Gives, Binary, Structural, Openers
<1>8. \A ins : ins.op = "i32.load" => Plain(ins, n) /\ Takes(ins) = 1 /\ Gives(ins) = 1
  BY DEF Plain, Takes, Gives, Binary, Structural, Openers
<1>9. \A ins : ins.op = "i32.store" => Plain(ins, n) /\ Takes(ins) = 2 /\ Gives(ins) = 0
  BY DEF Plain, Takes, Gives, Binary, Structural, Openers
<1>10. \A ins : ins.op = "br_if" /\ ins.n # n - 1 => Plain(ins, n) /\ Takes(ins) = 1 /\ Gives(ins) = 0
  BY DEF Plain, Takes, Gives, Binary, Structural, Openers
<1> QED
  BY <1>1, <1>2, <1>3, <1>4, <1>5, <1>6, <1>7, <1>8, <1>9, <1>10

(* So does a call, as the called function's signature says.                *)
LEMMA PlainCall ==
  ASSUME NEW n \in Nat, NEW k, NEW t \in Nat, NEW g \in Nat,
         Signatures[k].takes = t, Signatures[k].gives = g
  PROVE  Plain(WN("call", k), n) /\ Takes(WN("call", k)) = t /\ Gives(WN("call", k)) = g
<1>1. WN("call", k).op = "call" /\ WN("call", k).n = k
  BY DEF WN
<1>2. Takes(WN("call", k)) = t /\ Gives(WN("call", k)) = g
  BY <1>1 DEF Takes, Gives, Binary
<1> QED
  BY <1>1, <1>2 DEF Plain, Structural, Openers

(* One more plain instruction.                                             *)
LEMMA MovesThen ==
  ASSUME NEW s \in Seq(WasmInstr), NEW ins \in WasmInstr, NEW n \in Nat \ {0}, NEW arity,
         NEW x, NEW y \in Nat, Moves(s, x, y, n, arity),
         Plain(ins, n), Takes(ins) <= y, NEW z \in Nat, z = y - Takes(ins) + Gives(ins)
  PROVE  Moves(s \o <<ins>>, x, z, n, arity)
<1>1. Moves(<<ins>>, y, z, n, arity)
  BY PlainMoves
<1> DEFINE t == <<ins>>
<1>2. t \in Seq(WasmInstr) /\ Moves(t, y, z, n, arity)
  BY <1>1
<1> HIDE DEF t
<1>3. Moves(s \o t, x, z, n, arity)
  BY <1>2, MovesOn
<1> QED
  BY <1>3 DEF t

(* Two plain instructions.                                                 *)
LEMMA TwoMove ==
  ASSUME NEW i \in WasmInstr, NEW j \in WasmInstr,
         NEW n \in Nat \ {0}, NEW arity,
         NEW x \in Nat, NEW y \in Nat, NEW z \in Nat,
         Plain(i, n), Takes(i) <= x, y = x - Takes(i) + Gives(i),
         Plain(j, n), Takes(j) <= y, z = y - Takes(j) + Gives(j)
  PROVE  Moves(<<i, j>>, x, z, n, arity)
<1> DEFINE s == <<i, j>>
           h == <<x, y, z>>
<1>1. s \in Seq(WasmInstr) /\ Len(s) = 2 /\ s[1] = i /\ s[2] = j
  OBVIOUS
<1>2. h \in [1 .. 3 -> Nat] /\ h[1] = x /\ h[2] = y /\ h[3] = z
  OBVIOUS
<1> HIDE DEF s, h
<1>3. \A q \in 1 .. 2 : Plain(s[q], n) /\ Takes(s[q]) <= h[q] /\ h[q + 1] = h[q] - Takes(s[q]) + Gives(s[q])
  <2> TAKE q \in 1 .. 2
  <2>1. (q = 1 /\ q + 1 = 2) \/ (q = 2 /\ q + 1 = 3)
    OBVIOUS
  <2> QED
    BY <1>1, <1>2, <2>1
<1>4. Moves(s, h[1], h[Len(s) + 1], n, arity)
  <2>1. h \in [1 .. Len(s) + 1 -> Nat] /\ 1 .. Len(s) = 1 .. 2
    BY <1>1, <1>2
  <2> QED
    BY <1>1, <1>3, <2>1, ManyMove
<1>5. Len(s) + 1 = 3
  BY <1>1
<1> QED
  BY <1>2, <1>4, <1>5 DEF s

(* Three plain instructions.                                               *)
LEMMA ThreeMove ==
  ASSUME NEW i \in WasmInstr, NEW j \in WasmInstr, NEW k \in WasmInstr,
         NEW n \in Nat \ {0}, NEW arity,
         NEW x \in Nat, NEW y \in Nat, NEW z \in Nat, NEW w \in Nat,
         Plain(i, n), Takes(i) <= x, y = x - Takes(i) + Gives(i),
         Plain(j, n), Takes(j) <= y, z = y - Takes(j) + Gives(j),
         Plain(k, n), Takes(k) <= z, w = z - Takes(k) + Gives(k)
  PROVE  Moves(<<i, j, k>>, x, w, n, arity)
<1> DEFINE s == <<i, j, k>>
           h == <<x, y, z, w>>
<1>1. s \in Seq(WasmInstr) /\ Len(s) = 3 /\ s[1] = i /\ s[2] = j /\ s[3] = k
  OBVIOUS
<1>2. h \in [1 .. 4 -> Nat] /\ h[1] = x /\ h[2] = y /\ h[3] = z /\ h[4] = w
  OBVIOUS
<1> HIDE DEF s, h
<1>3. \A q \in 1 .. 3 : Plain(s[q], n) /\ Takes(s[q]) <= h[q] /\ h[q + 1] = h[q] - Takes(s[q]) + Gives(s[q])
  <2> TAKE q \in 1 .. 3
  <2>1. (q = 1 /\ q + 1 = 2) \/ (q = 2 /\ q + 1 = 3) \/ (q = 3 /\ q + 1 = 4)
    OBVIOUS
  <2> QED
    BY <1>1, <1>2, <2>1
<1>4. Moves(s, h[1], h[Len(s) + 1], n, arity)
  <2>1. h \in [1 .. Len(s) + 1 -> Nat] /\ 1 .. Len(s) = 1 .. 3
    BY <1>1, <1>2
  <2> QED
    BY <1>1, <1>3, <2>1, ManyMove
<1>5. Len(s) + 1 = 4
  BY <1>1
<1> QED
  BY <1>2, <1>4, <1>5 DEF s

(* Four plain instructions.                                                *)
LEMMA FourMove ==
  ASSUME NEW i \in WasmInstr, NEW j \in WasmInstr, NEW k \in WasmInstr, NEW l \in WasmInstr,
         NEW n \in Nat \ {0}, NEW arity,
         NEW a \in Nat, NEW b \in Nat, NEW c \in Nat, NEW d \in Nat, NEW e \in Nat,
         Plain(i, n), Takes(i) <= a, b = a - Takes(i) + Gives(i),
         Plain(j, n), Takes(j) <= b, c = b - Takes(j) + Gives(j),
         Plain(k, n), Takes(k) <= c, d = c - Takes(k) + Gives(k),
         Plain(l, n), Takes(l) <= d, e = d - Takes(l) + Gives(l)
  PROVE  Moves(<<i, j, k, l>>, a, e, n, arity)
<1> DEFINE s == <<i, j, k, l>>
           h == <<a, b, c, d, e>>
<1>1. s \in Seq(WasmInstr) /\ Len(s) = 4 /\ s[1] = i /\ s[2] = j /\ s[3] = k /\ s[4] = l
  OBVIOUS
<1>2. h \in [1 .. 5 -> Nat] /\ h[1] = a /\ h[2] = b /\ h[3] = c /\ h[4] = d /\ h[5] = e
  OBVIOUS
<1> HIDE DEF s, h
<1>3. \A q \in 1 .. 4 : Plain(s[q], n) /\ Takes(s[q]) <= h[q] /\ h[q + 1] = h[q] - Takes(s[q]) + Gives(s[q])
  <2> TAKE q \in 1 .. 4
  <2>1. (q = 1 /\ q + 1 = 2) \/ (q = 2 /\ q + 1 = 3) \/ (q = 3 /\ q + 1 = 4) \/ (q = 4 /\ q + 1 = 5)
    OBVIOUS
  <2> QED
    BY <1>1, <1>2, <2>1
<1>4. Moves(s, h[1], h[Len(s) + 1], n, arity)
  <2>1. h \in [1 .. Len(s) + 1 -> Nat] /\ 1 .. Len(s) = 1 .. 4
    BY <1>1, <1>2
  <2> QED
    BY <1>1, <1>3, <2>1, ManyMove
<1>5. Len(s) + 1 = 5
  BY <1>1
<1> QED
  BY <1>2, <1>4, <1>5 DEF s

(* Newobj's stores of the constructor's arguments, and their replay.       *)
LEMMA ParamsMove ==
  ASSUME NEW p \in Nat, NEW n \in Nat \ {0}, NEW arity, NEW x \in Nat
  PROVE  /\ Moves([k \in 1 .. p |-> SetLocal("ctorparam", p - k)], x + p, x, n, arity)
         /\ Moves([k \in 1 .. p |-> GetLocal("ctorparam", k - 1)], x, x + p, n, arity)
<1> DEFINE s == [k \in 1 .. p |-> SetLocal("ctorparam", p - k)]
           g == [k \in 1 .. p |-> GetLocal("ctorparam", k - 1)]
           down == [k \in 1 .. p + 1 |-> x + p - (k - 1)]
           up   == [k \in 1 .. p + 1 |-> x + (k - 1)]
<1>1. s \in Seq(WasmInstr) /\ Len(s) = p /\ g \in Seq(WasmInstr) /\ Len(g) = p
  BY InstrTypes, EmittedOps, FlatIsCode
<1>2. \A k \in 1 .. p : Plain(s[k], n) /\ Takes(s[k]) = 1 /\ Gives(s[k]) = 0
  BY PlainOps
<1>3. \A k \in 1 .. p : Plain(g[k], n) /\ Takes(g[k]) = 0 /\ Gives(g[k]) = 1
  BY PlainOps
<1>4. /\ down \in [1 .. p + 1 -> Nat] /\ down[1] = x + p /\ down[p + 1] = x
      /\ \A k \in 1 .. p : 1 <= down[k] /\ down[k + 1] = down[k] - 1 + 0
  OBVIOUS
<1>5. /\ up \in [1 .. p + 1 -> Nat] /\ up[1] = x /\ up[p + 1] = x + p
      /\ \A k \in 1 .. p : 0 <= up[k] /\ up[k + 1] = up[k] - 0 + 1
  OBVIOUS
<1> HIDE DEF s, g, down, up
<1>6. Moves(s, x + p, x, n, arity)
  <2>1. Moves(s, down[1], down[Len(s) + 1], n, arity)
    BY <1>1, <1>2, <1>4, ManyMove
  <2> QED
    BY <1>1, <1>4, <2>1
<1>7. Moves(g, x, x + p, n, arity)
  <2>1. Moves(g, up[1], up[Len(g) + 1], n, arity)
    BY <1>1, <1>3, <1>5, ManyMove
  <2> QED
    BY <1>1, <1>5, <2>1
<1> QED
  BY <1>6, <1>7 DEF s, g

(* The assumption on the signatures, for one instruction.                  *)
Signed(ins) ==
  /\ Signatures[0] = [takes |-> 1, gives |-> 1]
  /\ ins.op \in {"Call", "Callvirt"} => Signatures[ins.n] \in [takes : Nat, gives : Nat]
  /\ ins.op = "Newobj" => Signatures[ins.n] = [takes |-> ins.params + 1, gives |-> 0]

(* Heights are numbers.                                                    *)
LEMMA HeightTypes ==
  ASSUME NEW ins \in CilInstr, Signed(ins)
  PROVE  CilTakes(ins) \in Nat /\ CilGives(ins) \in Nat /\ Arity \in Nat
<1>1. Arity \in Nat
  BY DEF Arity
<1>2. ins.params \in Nat
  BY DEF CilInstr
<1>3. CASE ins.op \in {"Call", "Callvirt"}
  <2>1. Signatures[ins.n].takes \in Nat /\ Signatures[ins.n].gives \in Nat
    BY <1>3 DEF Signed
  <2> QED
    BY <1>1, <1>3, <2>1 DEF CilTakes, CilGives
<1>4. CASE ins.op \notin {"Call", "Callvirt"}
  BY <1>1, <1>2, <1>4 DEF CilTakes, CilGives
<1> QED
  BY <1>3, <1>4

(* Newobj turns its arguments into an address, whatever is below them.     *)
LEMMA NewobjMoves ==
  ASSUME NEW ins \in CilInstr, ins.op = "Newobj", Signed(ins), NEW n \in Nat \ {0}, NEW arity, NEW x \in Nat
  PROVE  Moves(CompileNewobj(ins), x + ins.params, x + 1, n, arity)
<1> DEFINE p == ins.params
           a == [k \in 1 .. p |-> SetLocal("ctorparam", p - k)]
           b == <<WN("get_global", ins.n), WN("call", 0), SetLocal("newObjectAddr", 0), GetLocal("newObjectAddr", 0)>>
           c == [k \in 1 .. p |-> GetLocal("ctorparam", k - 1)]
           d == <<WN("call", ins.n), GetLocal("newObjectAddr", 0)>>
<1>1. p \in Nat /\ ins.n \in Int /\ x + 1 \in Nat /\ x + p \in Nat /\ (x + 1) + p \in Nat
  BY DEF CilInstr
<1>2. /\ WN("get_global", ins.n) \in WasmInstr /\ WN("call", 0) \in WasmInstr
      /\ SetLocal("newObjectAddr", 0) \in WasmInstr /\ GetLocal("newObjectAddr", 0) \in WasmInstr
      /\ WN("call", ins.n) \in WasmInstr
  BY <1>1, InstrTypes, EmittedOps, FlatIsCode
<1>3. /\ Plain(WN("call", 0), n) /\ Takes(WN("call", 0)) = 1 /\ Gives(WN("call", 0)) = 1
      /\ Plain(WN("call", ins.n), n) /\ Takes(WN("call", ins.n)) = p + 1 /\ Gives(WN("call", ins.n)) = 0
  <2>1. Signatures[0].takes = 1 /\ Signatures[0].gives = 1
    BY DEF Signed
  <2>2. Signatures[ins.n].takes = p + 1 /\ Signatures[ins.n].gives = 0 /\ p + 1 \in Nat
    BY <1>1 DEF Signed
  <2> HIDE DEF p
  <2> QED
    BY <2>1, <2>2, PlainCall
<1>4. /\ Plain(WN("get_global", ins.n), n) /\ Takes(WN("get_global", ins.n)) = 0 /\ Gives(WN("get_global", ins.n)) = 1
      /\ Plain(SetLocal("newObjectAddr", 0), n) /\ Takes(SetLocal("newObjectAddr", 0)) = 1 /\ Gives(SetLocal("newObjectAddr", 0)) = 0
      /\ Plain(GetLocal("newObjectAddr", 0), n) /\ Takes(GetLocal("newObjectAddr", 0)) = 0 /\ Gives(GetLocal("newObjectAddr", 0)) = 1
  BY PlainOps
<1>5. a \in Seq(WasmInstr) /\ c \in Seq(WasmInstr)
  <2>1. \A k \in Int : SetLocal("ctorparam", k) \in WasmInstr /\ GetLocal("ctorparam", k) \in WasmInstr
    BY InstrTypes, EmittedOps, FlatIsCode
  <2>2. \A k \in 1 .. p : SetLocal("ctorparam", p - k) \in WasmInstr /\ GetLocal("ctorparam", k - 1) \in WasmInstr
    BY <1>1, <2>1
  <2> HIDE DEF p
  <2> QED
    BY <1>1, <2>2
<1>6. b \in Seq(WasmInstr) /\ d \in Seq(WasmInstr)
  BY <1>2
<1>7. Moves(a, x + p, x, n, arity)
  BY <1>1, ParamsMove
<1>8. Moves(c, x + 1, (x + 1) + p, n, arity)
  BY <1>1, ParamsMove
<1>9. Moves(b, x, x + 1, n, arity)
  BY <1>1, <1>2, <1>3, <1>4, FourMove
<1>10. Moves(d, (x + 1) + p, x + 1, n, arity)
  <2> HIDE DEF p
  <2>1. 0 \in Nat /\ p + 1 <= (x + 1) + p /\ x = ((x + 1) + p) - (p + 1) + 0 /\ 0 <= x /\ x + 1 = x - 0 + 1
    BY <1>1
  <2> QED
    BY <1>1, <1>2, <1>3, <1>4, <2>1, TwoMove
<1>11. CompileNewobj(ins) = ((a \o b) \o c) \o d
  BY DEF CompileNewobj
<1> HIDE DEF p, a, b, c, d
<1>12. Moves(a \o b, x + p, x + 1, n, arity) /\ a \o b \in Seq(WasmInstr)
  BY <1>5, <1>6, <1>7, <1>9, MovesOn
<1> DEFINE e == a \o b
<1>13. e \in Seq(WasmInstr) /\ Moves(e, x + p, x + 1, n, arity)
  BY <1>12
<1> HIDE DEF e
<1>14. Moves(e \o c, x + p, (x + 1) + p, n, arity) /\ e \o c \in Seq(WasmInstr)
  BY <1>5, <1>8, <1>13, MovesOn
<1> DEFINE f == e \o c
<1>15. f \in Seq(WasmInstr) /\ Moves(f, x + p, (x + 1) + p, n, arity)
  BY <1>14
<1> HIDE DEF f
<1>16. Moves(f \o d, x + p, x + 1, n, arity)
  BY <1>6, <1>10, <1>15, MovesOn
<1> QED
  BY <1>11, <1>16 DEF e, f, p

(* A return leaves nothing to fall into.                                   *)
LEMMA ReturnMoves ==
  ASSUME NEW n \in Nat \ {0}, NEW arity \in Nat, NEW x \in Nat, arity <= x, NEW y \in Nat
  PROVE  Moves(<<W("return")>>, x, y, n, arity)
<1>1. W("return").op = "return"
  BY DEF W
<1>2. Takes(W("return")) = 0 /\ Final(W("return"), n)
  BY <1>1 DEF Takes, Final, Binary
<1> QED
  BY <1>2, FinalMoves

(* The code of every instruction that does not branch does to the engine's *)
(* stack what the instruction does to the evaluation stack.                *)
LEMMA StraightMoves ==
  ASSUME NEW ins \in CilInstr, ins.op \in StraightOps, Signed(ins), NEW n \in Nat \ {0},
         NEW x \in Nat, CilTakes(ins) <= x, NEW y \in Nat,
         ins.op # "Ret" => y = x - CilTakes(ins) + CilGives(ins)
  PROVE  Moves(CompileStraight(ins), x, y, n, Arity)
<1>0. Arity \in Nat /\ ins.n \in Int /\ ins.params \in Nat
  BY HeightTypes DEF CilInstr
<1>1. CASE ins.op \in {"Add", "Sub", "Mul", "Rem", "Ceq", "Clt", "Cgt"}
  <2>1. PICK b \in Binary : CompileStraight(ins) = <<W(b)>>
    BY <1>1 DEF CompileStraight, SimpleOps, Binary
  <2>2. Plain(W(b), n) /\ Takes(W(b)) = 2 /\ Gives(W(b)) = 1
    BY PlainOps
  <2>3. y = x - 2 + 1 /\ 2 <= x
    BY <1>1 DEF CilTakes, CilGives
  <2>4. Moves(<<W(b)>>, x, y, n, Arity)
    BY <2>2, <2>3, PlainMoves
  <2> QED
    BY <2>1, <2>4
<1>2. CASE ins.op \in {"Pop", "CallObjectCtor"}
  <2>1. CompileStraight(ins) = <<W("drop")>>
    BY <1>2 DEF CompileStraight, SimpleOps
  <2>2. Plain(W("drop"), n) /\ Takes(W("drop")) = 1 /\ Gives(W("drop")) = 0
    BY PlainOps
  <2>3. y = x - 1 + 0 /\ 1 <= x
    BY <1>2 DEF CilTakes, CilGives
  <2>4. Moves(<<W("drop")>>, x, y, n, Arity)
    BY <2>2, <2>3, PlainMoves
  <2> QED
    BY <2>1, <2>4
<1>3. CASE ins.op = "Ret"
  <2>1. CompileStraight(ins) = <<W("return")>>
    BY <1>3 DEF CompileStraight, SimpleOps
  <2>2. Arity <= x
    BY <1>3 DEF CilTakes
  <2>3. Moves(<<W("return")>>, x, y, n, Arity)
    BY <1>0, <2>2, ReturnMoves
  <2> QED
    BY <2>1, <2>3
<1>4. CASE ins.op \in {"Call", "Callvirt"}
  <2>1. CompileStraight(ins) = <<WN("call", ins.n)>>
    BY <1>4 DEF CompileStraight, SimpleOps
  <2> DEFINE t == Signatures[ins.n].takes
             g == Signatures[ins.n].gives
  <2>2. t \in Nat /\ g \in Nat
    BY <1>4 DEF Signed
  <2>3. y = x - t + g /\ t <= x
    BY <1>4 DEF CilTakes, CilGives
  <2>4. Plain(WN("call", ins.n), n) /\ Takes(WN("call", ins.n)) = t /\ Gives(WN("call", ins.n)) = g
    BY <2>2, PlainCall
  <2>5. Moves(<<WN("call", ins.n)>>, x, y, n, Arity)
    <3> HIDE DEF t, g
    <3> QED
      BY <2>2, <2>3, <2>4, PlainMoves
  <2> QED
    BY <2>1, <2>5
<1>5. CASE ins.op = "Dup"
  <2>1. CompileStraight(ins) = <<SetLocal("dupTemp", 0), GetLocal("dupTemp", 0), GetLocal("dupTemp", 0)>>
    BY <1>5 DEF CompileStraight, SimpleOps
  <2>2. SetLocal("dupTemp", 0) \in WasmInstr /\ GetLocal("dupTemp", 0) \in WasmInstr
    BY InstrTypes, EmittedOps, FlatIsCode
  <2>3. /\ Plain(SetLocal("dupTemp", 0), n) /\ Takes(SetLocal("dupTemp", 0)) = 1 /\ Gives(SetLocal("dupTemp", 0)) = 0
        /\ Plain(GetLocal("dupTemp", 0), n) /\ Takes(GetLocal("dupTemp", 0)) = 0 /\ Gives(GetLocal("dupTemp", 0)) = 1
    BY PlainOps
  <2>4. y = x + 1 /\ 1 <= x /\ x - 1 \in Nat
    BY <1>5 DEF CilTakes, CilGives
  <2>5. Moves(<<SetLocal("dupTemp", 0), GetLocal("dupTemp", 0), GetLocal("dupTemp", 0)>>, x, y, n, Arity)
    <3>1. x - 1 = x - 1 + 0 /\ x = (x - 1) - 0 + 1 /\ y = x - 0 + 1 /\ 0 <= x - 1 /\ 0 <= x
      BY <2>4
    <3> QED
      BY <2>2, <2>3, <2>4, <3>1, ThreeMove
  <2> QED
    BY <2>1, <2>5
<1>6. CASE ins.op \in {"Ldarg", "Ldloc"}
  <2>1. PICK l : CompileStraight(ins) = <<GetLocal(l, ins.n)>>
    BY <1>6 DEF CompileStraight, SimpleOps
  <2>2. Plain(GetLocal(l, ins.n), n) /\ Takes(GetLocal(l, ins.n)) = 0 /\ Gives(GetLocal(l, ins.n)) = 1
    BY PlainOps
  <2>3. y = x - 0 + 1 /\ 0 <= x
    BY <1>6 DEF CilTakes, CilGives
  <2>4. Moves(<<GetLocal(l, ins.n)>>, x, y, n, Arity)
    BY <2>2, <2>3, PlainMoves
  <2> QED
    BY <2>1, <2>4
<1>7. CASE ins.op = "Ldfld"
  <2>1. PICK k : CompileStraight(ins) = <<WN("i32.load", k)>>
    BY <1>7 DEF CompileStraight, SimpleOps
  <2>2. Plain(WN("i32.load", k), n) /\ Takes(WN("i32.load", k)) = 1 /\ Gives(WN("i32.load", k)) = 1
    BY PlainOps
  <2>3. y = x - 1 + 1 /\ 1 <= x
    BY <1>7 DEF CilTakes, CilGives
  <2>4. Moves(<<WN("i32.load", k)>>, x, y, n, Arity)
    BY <2>2, <2>3, PlainMoves
  <2> QED
    BY <2>1, <2>4
<1>8. CASE ins.op = "Ldc_I4"
  <2>1. CompileStraight(ins) = <<Const(ins.n)>>
    BY <1>8 DEF CompileStraight, SimpleOps
  <2>2. Plain(Const(ins.n), n) /\ Takes(Const(ins.n)) = 0 /\ Gives(Const(ins.n)) = 1
    BY PlainOps
  <2>3. y = x - 0 + 1 /\ 0 <= x
    BY <1>8 DEF CilTakes, CilGives
  <2>4. Moves(<<Const(ins.n)>>, x, y, n, Arity)
    BY <2>2, <2>3, PlainMoves
  <2> QED
    BY <2>1, <2>4
<1>9. CASE ins.op = "Newobj"
  <2>1. CompileStraight(ins) = CompileNewobj(ins)
    BY <1>9 DEF CompileStraight, SimpleOps
  <2> DEFINE z == x - ins.params
  <2>2. z \in Nat /\ x = z + ins.params /\ y = z + 1
    BY <1>0, <1>9 DEF CilTakes, CilGives
  <2>3. Moves(CompileNewobj(ins), z + ins.params, z + 1, n, Arity)
    <3> HIDE DEF z
    <3> QED
      BY <1>9, <2>2, NewobjMoves
  <2> HIDE DEF z
  <2> QED
    BY <2>1, <2>2, <2>3
<1>10. CASE ins.op = "Neg"
  <2>1. CompileStraight(ins) = <<Const(-1), W("i32.mul")>>
    BY <1>10 DEF CompileStraight, SimpleOps
  <2>2. Const(-1) \in WasmInstr /\ W("i32.mul") \in WasmInstr
    BY InstrTypes, EmittedOps, FlatIsCode
  <2>3. /\ Plain(Const(-1), n) /\ Takes(Const(-1)) = 0 /\ Gives(Const(-1)) = 1
        /\ Plain(W("i32.mul"), n) /\ Takes(W("i32.mul")) = 2 /\ Gives(W("i32.mul")) = 1
    BY PlainOps DEF Binary
  <2>4. y = x - 1 + 1 /\ 1 <= x
    BY <1>10 DEF CilTakes, CilGives
  <2>5. x + 1 \in Nat /\ 0 <= x /\ x + 1 = x - 0 + 1 /\ 2 <= x + 1 /\ y = (x + 1) - 2 + 1
    BY <2>4
  <2>6. Moves(<<Const(-1), W("i32.mul")>>, x, y, n, Arity)
    BY <2>2, <2>3, <2>5, TwoMove
  <2> QED
    BY <2>1, <2>6
<1>11. CASE ins.op \in {"Starg", "Stloc"}
  <2>1. PICK l : CompileStraight(ins) = <<SetLocal(l, ins.n)>>
    BY <1>11 DEF CompileStraight, SimpleOps
  <2>2. Plain(SetLocal(l, ins.n), n) /\ Takes(SetLocal(l, ins.n)) = 1 /\ Gives(SetLocal(l, ins.n)) = 0
    BY PlainOps
  <2>3. y = x - 1 + 0 /\ 1 <= x
    BY <1>11 DEF CilTakes, CilGives
  <2>4. Moves(<<SetLocal(l, ins.n)>>, x, y, n, Arity)
    BY <2>2, <2>3, PlainMoves
  <2> QED
    BY <2>1, <2>4
<1>12. CASE ins.op = "Stfld"
  <2>1. PICK k : CompileStraight(ins) = <<WN("i32.store", k)>>
    BY <1>12 DEF CompileStraight, SimpleOps
  <2>2. Plain(WN("i32.store", k), n) /\ Takes(WN("i32.store", k)) = 2 /\ Gives(WN("i32.store", k)) = 0
    BY PlainOps
  <2>3. y = x - 2 + 0 /\ 2 <= x
    BY <1>12 DEF CilTakes, CilGives
  <2>4. Moves(<<WN("i32.store", k)>>, x, y, n, Arity)
    BY <2>2, <2>3, PlainMoves
  <2> QED
    BY <2>1, <2>4
<1>13. CASE ins.op = "Nop"
  <2>1. CompileStraight(ins) = <<>>
    BY <1>13 DEF CompileStraight, SimpleOps
  <2>2. y = x
    BY <1>13 DEF CilTakes, CilGives
  <2> QED
    BY <2>1, <2>2, MovesNowhere
<1> QED
  BY <1>1, <1>2, <1>3, <1>4, <1>5, <1>6, <1>7, <1>8, <1>9, <1>10, <1>11, <1>12, <1>13 DEF StraightOps, SimpleOps

(* How many frames are open behind code that has closed that many blocks:  *)
(* the other blocks, the loop and the function.                            *)
FramesLeft(closed) == Len(jumpTargets) - closed + 2

(* No branch goes to the function's own label.                             *)
LEMMA DepthInside ==
  ASSUME TypeInv, NEW t \in SortedOffsets(Code), NEW closed \in 0 .. Len(jumpTargets)
  PROVE  /\ FramesLeft(closed) \in Nat \ {0}
         /\ BreakDepth(t, closed) \in Nat /\ BreakDepth(t, closed) # FramesLeft(closed) - 1
<1>1. Len(jumpTargets) \in Nat /\ TargetIndex(t) \in 0 .. Len(jumpTargets) - 1
  BY JumpTargetFacts
<1>2. BreakDepth(t, closed) \in Nat
  BY JumpTypes
<1> QED
  BY <1>1, <1>2 DEF BreakDepth, IsForward, FramesLeft

(* What getBreakDepth adds leaves the operand stack as it was.             *)
LEMMA SetupMoves ==
  ASSUME TypeInv, NEW t \in SortedOffsets(Code), NEW closed \in 0 .. Len(jumpTargets),
         NEW n \in Nat \ {0}, NEW x \in Nat, NEW arity
  PROVE  Moves(JumpSetup(t, closed), x, x, n, arity) /\ JumpSetup(t, closed) \in Seq(WasmInstr)
<1>1. CASE IsForward(t, closed)
  <2>1. JumpSetup(t, closed) = <<>>
    BY <1>1 DEF JumpSetup
  <2> QED
    BY <2>1, MovesNowhere
<1>2. CASE ~IsForward(t, closed)
  <2> DEFINE k == TargetIndex(t) + 1
  <2>1. JumpSetup(t, closed) = <<Const(k), SetLocal("jumpTarget", 0)>>
    BY <1>2 DEF JumpSetup
  <2>2. k \in Int
    BY JumpTargetFacts
  <2> HIDE DEF k
  <2>3. Const(k) \in WasmInstr /\ SetLocal("jumpTarget", 0) \in WasmInstr
    BY <2>2, InstrTypes, EmittedOps, FlatIsCode
  <2>4. /\ Plain(Const(k), n) /\ Takes(Const(k)) = 0 /\ Gives(Const(k)) = 1
        /\ Plain(SetLocal("jumpTarget", 0), n) /\ Takes(SetLocal("jumpTarget", 0)) = 1 /\ Gives(SetLocal("jumpTarget", 0)) = 0
    BY PlainOps
  <2>5. x + 1 \in Nat /\ 0 <= x /\ x + 1 = x - 0 + 1 /\ 1 <= x + 1 /\ x = (x + 1) - 1 + 0
    OBVIOUS
  <2>6. Moves(<<Const(k), SetLocal("jumpTarget", 0)>>, x, x, n, arity)
    BY <2>3, <2>4, <2>5, TwoMove
  <2> QED
    BY <2>1, <2>3, <2>6
<1> QED
  BY <1>1, <1>2

(* The tests turn what a branch compares into the condition of the br_if.  *)
LEMMA TestMoves ==
  ASSUME NEW ins, ins.op \in DOMAIN BranchTests, NEW n \in Nat \ {0}, NEW arity,
         NEW x \in Nat, CilTakes(ins) <= x,
         NEW y \in Nat, y = x - CilTakes(ins) + (IF ins.op = "Br_S" THEN 0 ELSE 1)
  PROVE  Moves(BranchTests[ins.op], x, y, n, arity) /\ BranchTests[ins.op] \in Seq(WasmInstr)
<1>1. CASE ins.op \in {"Br_S", "Brtrue_S"}
  <2>1. BranchTests[ins.op] = <<>> /\ y = x
    BY <1>1 DEF BranchTests, CilTakes
  <2> QED
    BY <2>1, MovesNowhere
<1>2. CASE ins.op = "Brfalse_S"
  <2>1. BranchTests[ins.op] = <<Const(1), W("i32.sub")>> /\ y = x /\ 1 <= x
    BY <1>2 DEF BranchTests, CilTakes
  <2>2. Const(1) \in WasmInstr /\ W("i32.sub") \in WasmInstr
    BY InstrTypes, EmittedOps, FlatIsCode
  <2>3. /\ Plain(Const(1), n) /\ Takes(Const(1)) = 0 /\ Gives(Const(1)) = 1
        /\ Plain(W("i32.sub"), n) /\ Takes(W("i32.sub")) = 2 /\ Gives(W("i32.sub")) = 1
    BY PlainOps DEF Binary
  <2>4. x + 1 \in Nat /\ 0 <= x /\ x + 1 = x - 0 + 1 /\ 2 <= x + 1 /\ y = (x + 1) - 2 + 1
    BY <2>1
  <2>5. Moves(<<Const(1), W("i32.sub")>>, x, y, n, arity)
    BY <2>2, <2>3, <2>4, TwoMove
  <2> QED
    BY <2>1, <2>2, <2>5
<1>3. CASE ins.op \in {"Beq_S", "Bgt_S", "Blt_S", "Ble_S"}
  <2>1. PICK b \in Binary : BranchTests[ins.op] = <<W(b)>>
    BY <1>3 DEF BranchTests, Binary
  <2>2. Plain(W(b), n) /\ Takes(W(b)) = 2 /\ Gives(W(b)) = 1
    BY PlainOps
  <2>3. y = x - 2 + 1 /\ 2 <= x
    BY <1>3 DEF CilTakes
  <2>4. Moves(<<W(b)>>, x, y, n, arity)
    BY <2>2, <2>3, PlainMoves
  <2>5. W(b) \in WasmInstr
    BY InstrTypes DEF WasmOps
  <2> QED
    BY <2>1, <2>4, <2>5
<1> QED
  BY <1>1, <1>2, <1>3 DEF BranchTests

(* The branch itself.                                                      *)
LEMMA LeaveMoves ==
  ASSUME NEW n \in Nat \ {0}, NEW arity \in Nat, NEW k \in Nat, k # n - 1, NEW x \in Nat, NEW y \in Nat
  PROVE  /\ Moves(<<WN("br", k)>>, x, y, n, arity)
         /\ Moves(<<WN("br_if", k)>>, x + 1, x, n, arity)
<1>1. WN("br", k).op = "br" /\ WN("br", k).n = k
  BY DEF WN
<1>2. Takes(WN("br", k)) = 0 /\ Final(WN("br", k), n) /\ WN("br", k).op # "return"
  BY <1>1 DEF Takes, Final, Binary
<1>3. Moves(<<WN("br", k)>>, x, y, n, arity)
  BY <1>2, FinalMoves
<1>4. Plain(WN("br_if", k), n) /\ Takes(WN("br_if", k)) = 1 /\ Gives(WN("br_if", k)) = 0
  BY PlainOps
<1>5. x + 1 \in Nat /\ 1 <= x + 1 /\ x = (x + 1) - 1 + 0
  OBVIOUS
<1>6. Moves(<<WN("br_if", k)>>, x + 1, x, n, arity)
  BY <1>4, <1>5, PlainMoves
<1> QED
  BY <1>3, <1>6

(* The code of a branch takes from the engine's stack what the branch      *)
(* takes from the evaluation stack.                                        *)
LEMMA BranchMoves ==
  ASSUME TypeInv, NEW closed \in 0 .. Len(jumpTargets), NEW ins \in CilInstr, Signed(ins),
         ins.op \in DOMAIN BranchTests, NEW t \in SortedOffsets(Code),
         NEW x \in Nat, CilTakes(ins) <= x, NEW y \in Nat, ins.op # "Br_S" => y = x - CilTakes(ins)
  PROVE  Moves(JumpSetup(t, closed) \o BranchTests[ins.op] \o <<WN(BranchOp(ins.op), BreakDepth(t, closed))>>,
               x, y, FramesLeft(closed), Arity)
<1> DEFINE a == JumpSetup(t, closed)
           b == BranchTests[ins.op]
           k == BreakDepth(t, closed)
           c == <<WN(BranchOp(ins.op), k)>>
           n == FramesLeft(closed)
           z == x - CilTakes(ins) + (IF ins.op = "Br_S" THEN 0 ELSE 1)
<1>1. n \in Nat \ {0} /\ k \in Nat /\ k # n - 1
  BY DepthInside
<1>2. Arity \in Nat /\ CilTakes(ins) \in Nat
  BY HeightTypes
<1>3. z \in Nat
  BY <1>2
<1>4. Moves(a, x, x, n, Arity) /\ a \in Seq(WasmInstr)
  BY <1>1, SetupMoves
<1>5. Moves(b, x, z, n, Arity) /\ b \in Seq(WasmInstr)
  BY <1>1, <1>3, TestMoves
<1>6. Moves(c, z, y, n, Arity)
  <2>1. CASE ins.op = "Br_S"
    <3>1. c = <<WN("br", k)>>
      BY <2>1 DEF BranchOp
    <3> HIDE DEF c, k, n, z
    <3>2. Moves(<<WN("br", k)>>, z, y, n, Arity)
      BY <1>1, <1>2, <1>3, LeaveMoves
    <3> QED
      BY <3>1, <3>2
  <2>2. CASE ins.op # "Br_S"
    <3>1. c = <<WN("br_if", k)>> /\ z = y + 1
      BY <1>2, <2>2 DEF BranchOp
    <3> HIDE DEF c, k, n, z
    <3>2. Moves(<<WN("br_if", k)>>, y + 1, y, n, Arity)
      BY <1>1, <1>2, LeaveMoves
    <3> QED
      BY <3>1, <3>2
  <2> QED
    BY <2>1, <2>2
<1>7. c \in Seq(WasmInstr)
  <2>1. WN("br", k) \in WasmInstr /\ WN("br_if", k) \in WasmInstr
    BY <1>1, InstrTypes, EmittedOps, FlatIsCode
  <2> QED
    BY <2>1 DEF BranchOp
<1> HIDE DEF a, b, c, k, n, z
<1>8. Moves(a \o b, x, z, n, Arity) /\ a \o b \in Seq(WasmInstr)
  BY <1>4, <1>5, MovesOn
<1> DEFINE d == a \o b
<1>9. d \in Seq(WasmInstr) /\ Moves(d, x, z, n, Arity)
  BY <1>8
<1> HIDE DEF d
<1>10. Moves(d \o c, x, y, n, Arity)
  BY <1>6, <1>7, <1>9, MovesOn
<1> QED
  BY <1>10 DEF a, b, c, d, k, n

(* So does the code of each target of a switch, with nothing of the        *)
(* evaluation stack at all: the value is in a local by then.               *)
LEMMA ItemMoves ==
  ASSUME TypeInv, NEW closed \in 0 .. Len(jumpTargets), NEW i \in Nat, NEW t \in SortedOffsets(Code),
         NEW x \in Nat, NEW arity \in Nat
  PROVE  Moves(<<GetLocal("switchValue", 0), Const(i), W("i32.eq")>> \o JumpSetup(t, closed)
                 \o <<WN("br_if", BreakDepth(t, closed))>>, x, x, FramesLeft(closed), arity)
<1> DEFINE a == <<GetLocal("switchValue", 0), Const(i), W("i32.eq")>>
           b == JumpSetup(t, closed)
           k == BreakDepth(t, closed)
           c == <<WN("br_if", k)>>
           n == FramesLeft(closed)
<1>1. n \in Nat \ {0} /\ k \in Nat /\ k # n - 1 /\ x + 1 \in Nat /\ x + 2 \in Nat
  BY DepthInside
<1>2. GetLocal("switchValue", 0) \in WasmInstr /\ Const(i) \in WasmInstr /\ W("i32.eq") \in WasmInstr /\ WN("br_if", k) \in WasmInstr
  BY <1>1, InstrTypes, EmittedOps, FlatIsCode
<1>3. Moves(a, x, x + 1, n, arity)
  <2>1. /\ Plain(GetLocal("switchValue", 0), n) /\ Takes(GetLocal("switchValue", 0)) = 0 /\ Gives(GetLocal("switchValue", 0)) = 1
        /\ Plain(Const(i), n) /\ Takes(Const(i)) = 0 /\ Gives(Const(i)) = 1
        /\ Plain(W("i32.eq"), n) /\ Takes(W("i32.eq")) = 2 /\ Gives(W("i32.eq")) = 1
    BY <1>1, PlainOps DEF Binary
  <2>2. 0 <= x /\ x + 1 = x - 0 + 1 /\ 0 <= x + 1 /\ x + 2 = (x + 1) - 0 + 1 /\ 2 <= x + 2 /\ x + 1 = (x + 2) - 2 + 1
    OBVIOUS
  <2> HIDE DEF n
  <2> QED
    BY <1>1, <1>2, <2>1, <2>2, ThreeMove
<1>4. Moves(b, x + 1, x + 1, n, arity) /\ b \in Seq(WasmInstr)
  <2> DEFINE z == x + 1
  <2>1. z \in Nat
    OBVIOUS
  <2> HIDE DEF z
  <2>2. Moves(b, z, z, n, arity) /\ b \in Seq(WasmInstr)
    BY <1>1, <2>1, SetupMoves
  <2> QED
    BY <2>2 DEF z
<1>5. Moves(c, x + 1, x, n, arity)
  BY <1>1, LeaveMoves
<1>6. a \in Seq(WasmInstr) /\ c \in Seq(WasmInstr)
  BY <1>2
<1> HIDE DEF a, b, c, k, n
<1>7. Moves(a \o b, x, x + 1, n, arity) /\ a \o b \in Seq(WasmInstr)
  BY <1>3, <1>4, <1>6, MovesOn
<1> DEFINE d == a \o b
<1>8. d \in Seq(WasmInstr) /\ Moves(d, x, x + 1, n, arity)
  BY <1>7
<1> HIDE DEF d
<1>9. Moves(d \o c, x, x, n, arity)
  BY <1>5, <1>6, <1>8, MovesOn
<1> QED
  BY <1>9 DEF a, b, c, d, k, n
-----------------------------------------------------------------------------
(* The blocks.                                                             *)

(* The start of a function is such a state.                                *)
LEMMA BeginState == Begin = State(0, 1, 0)
<1>1. Frame(0) = Flagged(0)
  <2>1. (0 = 1) = FALSE
    OBVIOUS
  <2> QED
    BY <2>1 DEF Frame, Flagged
<1>2. <<Frame(0)>> = Frames(1, 0)
  <2> DEFINE f == Frame(0)
             g == Frames(1, 0)
  <2>1. f \in FrameType /\ <<f>> \in Seq(FrameType) /\ Len(<<f>>) = 1 /\ <<f>>[1] = f
    BY <1>1 DEF FrameType
  <2>2. g \in Seq(FrameType) /\ Len(g) = 1
    <3>1. 1 \in Nat /\ 0 \in 0 .. 1
      OBVIOUS
    <3> QED
      BY <3>1, FramesType
  <2>3. g[1] = f
    BY <1>1 DEF Frames
  <2> HIDE DEF f, g
  <2>4. \A k \in 1 .. Len(g) : <<f>>[k] = g[k]
    <3> TAKE k \in 1 .. Len(g)
    <3>1. k = 1
      BY <2>2
    <3> QED
      BY <2>1, <2>3, <3>1
  <2> DEFINE e == <<f>>
  <2>5. e \in Seq(FrameType) /\ Len(e) = Len(g) /\ \A k \in 1 .. Len(e) : e[k] = g[k]
    BY <2>1, <2>2, <2>4
  <2> HIDE DEF e
  <2>6. e = g
    BY <2>2, <2>5, SeqEqual
  <2> QED
    BY <2>6 DEF e, f, g
<1> QED
  BY <1>2 DEF Begin, State

(* A state whose height is exact fits it.                                  *)
LEMMA StateFits ==
  ASSUME NEW n \in Nat, NEW x \in Nat
  PROVE  Fits(State(x, n, 0), x, n)
<1>1. x \in 0 .. x /\ 0 \in 0 .. 1
  OBVIOUS
<1> QED
  BY <1>1 DEF Fits

(* A loop or block opened with nothing on the stack.                       *)
LEMMA CheckOpens ==
  ASSUME NEW n \in Nat \ {0}, NEW op \in Openers, NEW arity
  PROVE  Check(State(0, n, 0), W(op), arity) = State(0, n + 1, 0)
<1> DEFINE v == State(0, n, 0)
<1>1. Fits(v, 0, n)
  BY StateFits
<1>2. Check(v, W(op), arity) = Validate(v, W(op), arity)
  <2> HIDE DEF v
  <2> QED
    BY <1>1, FitsFacts
<1>3. W(op).op \in Openers
  BY DEF W
<1>4. Validate(v, W(op), arity) = OpenFrame(v)
  <2> DEFINE ins == W(op)
  <2>1. ins.op \in Openers /\ ins.op \notin {"end", "br", "br_table", "return"}
    BY <1>3 DEF Openers
  <2> HIDE DEF ins, v
  <2>2. Validate(v, ins, arity) = OpenFrame(v)
    BY <2>1 DEF Validate
  <2> QED
    BY <2>2 DEF ins
<1> QED
  BY <1>2, <1>4, OpenFrameState

(* An end that does not close the function wants an empty block, or        *)
(* unreachable code.                                                       *)
LEMMA EndLeads ==
  ASSUME NEW n \in Nat, n >= 2, NEW v, Fits(v, 0, n), NEW arity
  PROVE  Leads(v, <<W("end")>>, arity, State(0, n - 1, 0))
<1>1. Len(v.frames) = n /\ Check(v, W("end"), arity) = Validate(v, W("end"), arity)
  BY FitsFacts
<1>2. W("end").op = "end" /\ W("end").op \notin Openers
  BY DEF W, Openers
<1>3. Validate(v, W("end"), arity) = CloseFrame(v, 0)
  BY <1>1, <1>2 DEF Validate
<1>4. CloseFrame(v, 0) = State(0, n - 1, 0)
  <2>1. n \in Nat \ {0} /\ 0 \in Nat
    OBVIOUS
  <2> QED
    BY <2>1, CloseFrameState
<1> QED
  BY <1>1, <1>3, <1>4, LeadsOne

(* The end of the function wants its result.                               *)
LEMMA LastEndLeads ==
  ASSUME NEW arity \in Nat, NEW v, Fits(v, arity, 1)
  PROVE  Leads(v, <<W("end")>>, arity, State(0, 0, 0))
<1>0. 1 \in Nat \ {0}
  OBVIOUS
<1>1. Len(v.frames) = 1 /\ Check(v, W("end"), arity) = Validate(v, W("end"), arity)
  BY <1>0, FitsFacts
<1>2. W("end").op = "end" /\ W("end").op \notin Openers
  BY DEF W, Openers
<1>3. Validate(v, W("end"), arity) = CloseFrame(v, arity)
  BY <1>1, <1>2 DEF Validate
<1>4. CloseFrame(v, arity) = State(0, 1 - 1, 0)
  BY <1>0, CloseFrameState
<1>5. 1 - 1 = 0
  OBVIOUS
<1> QED
  BY <1>1, <1>3, <1>4, <1>5, LeadsOne

(* The blocks opened up front.                                             *)
LEMMA BlocksLead ==
  ASSUME NEW n \in Nat, NEW arity
  PROVE  /\ Leads(State(0, 2, 0), [k \in 1 .. n |-> W("block")], arity, State(0, n + 2, 0))
         /\ [k \in 1 .. n |-> W("block")] \in Seq(WasmInstr)
<1> DEFINE s == [k \in 1 .. n |-> W("block")]
           p == [i \in 0 .. n |-> State(0, i + 2, 0)]
<1>1. Len(s) = n /\ s \in Seq(WasmInstr)
  BY InstrTypes, EmittedOps
<1>2. DOMAIN p = 0 .. n /\ p[0] = State(0, 0 + 2, 0) /\ p[n] = State(0, n + 2, 0)
  OBVIOUS
<1>3. 0 + 2 = 2
  OBVIOUS
<1>4. ASSUME NEW i \in 1 .. n PROVE p[i] = Check(p[i - 1], s[i], arity)
  <2> DEFINE m == i + 1
  <2>1. m \in Nat \ {0} /\ m + 1 = i + 2 /\ (i - 1) + 2 = m /\ i \in 0 .. n /\ i - 1 \in 0 .. n
    OBVIOUS
  <2>2. p[i] = State(0, i + 2, 0) /\ p[i - 1] = State(0, (i - 1) + 2, 0) /\ s[i] = W("block")
    BY <2>1
  <2> HIDE DEF m, p, s
  <2>3. "block" \in Openers
    BY DEF Openers
  <2>4. Check(State(0, m, 0), W("block"), arity) = State(0, m + 1, 0)
    BY <2>1, <2>3, CheckOpens
  <2> QED
    BY <2>1, <2>2, <2>4
<1> HIDE DEF s, p
<1>5. PathOf(p, State(0, 2, 0), s, arity) /\ p[Len(s)] = State(0, n + 2, 0)
  BY <1>1, <1>2, <1>3, <1>4 DEF PathOf
<1>6. Leads(State(0, 2, 0), s, arity, State(0, n + 2, 0))
  BY <1>5 DEF Leads
<1> QED
  BY <1>1, <1>6 DEF s

(* The jump table leaves its block, or lets through what comes first.      *)
LEMMA TableLeads ==
  ASSUME NEW n \in Nat, NEW arity \in Nat
  PROVE  Leads(State(0, n + 2, 0), JumpTable(n), arity, State(0, n + 2, 0))
<1>1. CASE n = 0
  <2>1. JumpTable(n) = <<>>
    BY <1>1 DEF JumpTable
  <2> QED
    BY <2>1, LeadsEmpty
<1>2. CASE n # 0
  <2> DEFINE m == n + 2
             u == State(0, m, 0)
             a == <<W("block")>>
             b == <<GetLocal("jumpTarget", 0)>>
             c == <<WN("br_table", n)>>
             d == <<W("end")>>
  <2>1. m \in Nat \ {0} /\ m + 1 \in Nat \ {0} /\ m + 1 >= 2 /\ (m + 1) - 1 = m
    OBVIOUS
  <2>2. a \in Seq(WasmInstr) /\ b \in Seq(WasmInstr) /\ c \in Seq(WasmInstr) /\ d \in Seq(WasmInstr)
    <3>1. W("block") \in WasmInstr /\ GetLocal("jumpTarget", 0) \in WasmInstr /\ WN("br_table", n) \in WasmInstr /\ W("end") \in WasmInstr
      BY InstrTypes, EmittedOps, FlatIsCode
    <3> QED
      BY <3>1
  <2>3. Leads(u, a, arity, State(0, m + 1, 0))
    <3>1. "block" \in Openers
      BY DEF Openers
    <3> HIDE DEF m
    <3>2. Check(State(0, m, 0), W("block"), arity) = State(0, m + 1, 0)
      BY <2>1, <3>1, CheckOpens
    <3> QED
      BY <3>2, LeadsOne
  <2>4. Moves(b, 0, 1, m + 1, arity)
    <3>1. Plain(GetLocal("jumpTarget", 0), m + 1) /\ Takes(GetLocal("jumpTarget", 0)) = 0 /\ Gives(GetLocal("jumpTarget", 0)) = 1
      BY PlainOps
    <3>2. 0 \in Nat /\ 1 \in Nat /\ 0 <= 0 /\ 1 = 0 - 0 + 1
      OBVIOUS
    <3> HIDE DEF m
    <3> QED
      BY <2>1, <3>1, <3>2, PlainMoves
  <2>5. Moves(c, 1, 0, m + 1, arity)
    <3>1. WN("br_table", n).op = "br_table"
      BY DEF WN
    <3>2. Final(WN("br_table", n), m + 1) /\ Takes(WN("br_table", n)) = 1
      BY <3>1 DEF Final, Takes, Binary
    <3>3. 0 \in Nat /\ 1 \in Nat /\ 1 <= 1
      OBVIOUS
    <3> HIDE DEF m
    <3> QED
      BY <2>1, <3>1, <3>2, <3>3, FinalMoves
  <2>6. JumpTable(n) = ((a \o b) \o c) \o d
    BY <1>2 DEF JumpTable
  <2> HIDE DEF m, a, b, c, d
  <2>7. Fits(State(0, m + 1, 0), 0, m + 1)
    BY <2>1, StateFits
  <2>8. PICK v : Leads(State(0, m + 1, 0), b, arity, v) /\ Fits(v, 1, m + 1)
    BY <2>4, <2>7 DEF Moves
  <2>9. PICK w : Leads(v, c, arity, w) /\ Fits(w, 0, m + 1)
    BY <2>5, <2>8 DEF Moves
  <2>10. Leads(w, d, arity, u)
    <3> DEFINE k == m + 1
    <3>1. k \in Nat /\ k >= 2 /\ Fits(w, 0, k) /\ k - 1 = m
      BY <2>1, <2>9
    <3> HIDE DEF k
    <3>2. Leads(w, <<W("end")>>, arity, State(0, k - 1, 0))
      BY <3>1, EndLeads
    <3> QED
      BY <3>1, <3>2 DEF d
  <2> HIDE DEF u
  <2>11. Leads(u, a \o b, arity, v) /\ a \o b \in Seq(WasmInstr)
    BY <2>2, <2>3, <2>8, LeadsOn
  <2> DEFINE e == a \o b
  <2>12. e \in Seq(WasmInstr) /\ Leads(u, e, arity, v)
    BY <2>11
  <2> HIDE DEF e
  <2>13. Leads(u, e \o c, arity, w) /\ e \o c \in Seq(WasmInstr)
    BY <2>2, <2>9, <2>12, LeadsOn
  <2> DEFINE f == e \o c
  <2>14. f \in Seq(WasmInstr) /\ Leads(u, f, arity, w)
    BY <2>13
  <2> HIDE DEF f
  <2>15. Leads(u, f \o d, arity, u)
    BY <2>2, <2>10, <2>14, LeadsOn
  <2> QED
    BY <2>6, <2>15 DEF e, f, u, m
<1> QED
  BY <1>1, <1>2

(* The code in front of the first instruction leaves one frame for the     *)
(* function, one for the loop and one for each target.                     *)
LEMMA PrologueLeads ==
  ASSUME NEW n \in Nat, NEW arity \in Nat
  PROVE  Leads(Begin, Prologue(n), arity, State(0, n + 2, 0))
<1> DEFINE a == <<W("loop")>>
           b == [k \in 1 .. n |-> W("block")]
           c == JumpTable(n)
<1>1. Leads(Begin, a, arity, State(0, 2, 0))
  <2>1. 1 \in Nat \ {0} /\ "loop" \in Openers /\ 1 + 1 = 2
    BY DEF Openers
  <2>2. Check(State(0, 1, 0), W("loop"), arity) = State(0, 1 + 1, 0)
    BY <2>1, CheckOpens
  <2> QED
    BY <2>1, <2>2, BeginState, LeadsOne
<1>2. a \in Seq(WasmInstr)
  BY InstrTypes, EmittedOps
<1>3. Leads(State(0, 2, 0), b, arity, State(0, n + 2, 0)) /\ b \in Seq(WasmInstr)
  BY BlocksLead
<1>4. Leads(State(0, n + 2, 0), c, arity, State(0, n + 2, 0)) /\ c \in Seq(WasmInstr)
  BY TableLeads, JumpTableNesting
<1>5. Prologue(n) = (a \o b) \o c
  BY DEF Prologue
<1> DEFINE v == State(0, n + 2, 0)
<1> HIDE DEF a, b, c, v
<1>6. Leads(Begin, a \o b, arity, State(0, n + 2, 0)) /\ a \o b \in Seq(WasmInstr)
  BY <1>1, <1>2, <1>3, LeadsOn
<1> DEFINE d == a \o b
<1>7. d \in Seq(WasmInstr) /\ Leads(Begin, d, arity, v) /\ Leads(v, c, arity, v)
  BY <1>4, <1>6 DEF v
<1> HIDE DEF d
<1>8. Leads(Begin, d \o c, arity, v)
  BY <1>4, <1>7, LeadsOn
<1> QED
  BY <1>5, <1>8 DEF d, v

(* The code behind the last instruction, once all blocks are closed: the   *)
(* fake value is the result the function's end wants.                      *)
LEMMA EpilogueLeads ==
  ASSUME NEW v, Fits(v, 0, 2), NEW returns \in BOOLEAN, NEW arity, arity = IF returns THEN 1 ELSE 0
  PROVE  Leads(v, Epilogue(0, returns), arity, State(0, 0, 0))
<1> DEFINE e == <<W("end")>>
           c == IF returns THEN <<Const(-1)>> ELSE <<>>
           u == State(0, 1, 0)
<1>1. e \in Seq(WasmInstr) /\ c \in Seq(WasmInstr)
  <2>1. W("end") \in WasmInstr /\ Const(-1) \in WasmInstr
    BY InstrTypes, EmittedOps, FlatIsCode
  <2> QED
    BY <2>1
<1>2. Leads(v, e, arity, u)
  <2>1. 2 \in Nat /\ 2 >= 2 /\ 2 - 1 = 1
    OBVIOUS
  <2>2. Leads(v, <<W("end")>>, arity, State(0, 2 - 1, 0))
    BY <2>1, EndLeads
  <2> QED
    BY <2>1, <2>2
<1>3. Moves(c, 0, arity, 1, arity)
  <2>1. CASE returns
    <3>1. c = <<Const(-1)>> /\ arity = 1
      BY <2>1
    <3>2. Plain(Const(-1), 1) /\ Takes(Const(-1)) = 0 /\ Gives(Const(-1)) = 1
      BY PlainOps
    <3>3. 1 \in Nat \ {0} /\ 0 \in Nat /\ 1 \in Nat /\ 0 <= 0 /\ 1 = 0 - 0 + 1
      OBVIOUS
    <3>4. Moves(<<Const(-1)>>, 0, 1, 1, arity)
      BY <3>2, <3>3, PlainMoves
    <3> QED
      BY <3>1, <3>4
  <2>2. CASE ~returns
    <3>1. c = <<>> /\ arity = 0
      BY <2>2
    <3> QED
      BY <3>1, MovesNowhere
  <2> QED
    BY <2>1, <2>2
<1>4. Fits(u, 0, 1)
  BY StateFits
<1>5. PICK w : Leads(u, c, arity, w) /\ Fits(w, arity, 1)
  BY <1>3, <1>4 DEF Moves
<1>6. Leads(w, e, arity, State(0, 0, 0))
  <2>1. arity \in Nat
    OBVIOUS
  <2> QED
    BY <1>5, <2>1, LastEndLeads
<1>7. Epilogue(0, returns) = (([k \in 1 .. 0 |-> W("end")] \o e) \o c) \o e
  BY DEF Epilogue
<1>8. [k \in 1 .. 0 |-> W("end")] \o e = e
  <2>1. [k \in 1 .. 0 |-> W("end")] = <<>>
    OBVIOUS
  <2> HIDE DEF e
  <2> QED
    BY <1>1, <2>1, ConcatEmptySeq
<1>9. Epilogue(0, returns) = (e \o c) \o e
  BY <1>7, <1>8
<1> HIDE DEF e, c, u
<1>10. Leads(v, e \o c, arity, w) /\ e \o c \in Seq(WasmInstr)
  BY <1>1, <1>2, <1>5, LeadsOn
<1> DEFINE d == e \o c
<1>11. d \in Seq(WasmInstr) /\ Leads(v, d, arity, w)
  BY <1>10
<1> HIDE DEF d
<1>12. Leads(v, d \o e, arity, State(0, 0, 0))
  BY <1>1, <1>6, <1>11, LeadsOn
<1> QED
  BY <1>9, <1>12 DEF d
-----------------------------------------------------------------------------
(* The invariant: behind the code emitted so far the check is where a      *)
(* verifiable body has its evaluation stack, with as many frames open as   *)
(* there are blocks to close.                                              *)
ValidAt(c, x, n) == \E v : Leads(Begin, c, Arity, v) /\ Fits(v, x, n)

HeightAt(h, i) == IF i \in DOMAIN Code THEN h[i] ELSE 0

Validating(h) ==
  /\ phase = "body" => ValidAt(result, HeightAt(h, il), FramesLeft(nextJumpTargetIndex))
  /\ phase = "switch" => ValidAt(result, HeightAt(h, il) - 1, FramesLeft(nextJumpTargetIndex))
  /\ phase = "done" => Code = <<>> \/ Validates(result, Arity)

ValidInv ==
  /\ LandInv
  /\ phase = "switch" => Code[il].op = "Switch"
  /\ \A h \in Heights : EmptyAtTargets(h) => Validating(h)

(* More code.                                                              *)
LEMMA ValidOn ==
  ASSUME NEW c \in Seq(WasmInstr), NEW d \in Seq(WasmInstr), NEW x, NEW y, NEW n,
         ValidAt(c, x, n), Moves(d, x, y, n, Arity)
  PROVE  ValidAt(c \o d, y, n)
<1>1. PICK v : Leads(Begin, c, Arity, v) /\ Fits(v, x, n)
  BY DEF ValidAt
<1>2. PICK w : Leads(v, d, Arity, w) /\ Fits(w, y, n)
  BY <1>1 DEF Moves
<1>3. Leads(Begin, c \o d, Arity, w)
  BY <1>1, <1>2, LeadsOn
<1> QED
  BY <1>2, <1>3 DEF ValidAt

(* A method is given once and for all, and so are its heights.             *)
LEMMA HeightsStay ==
  ASSUME UNCHANGED method
  PROVE  /\ Code' = Code /\ Arity' = Arity
         /\ \A h : h \in Heights' => h \in Heights
         /\ \A h : EmptyAtTargets(h)' => EmptyAtTargets(h)
<1>1. Code' = Code /\ Arity' = Arity
  BY DEF Code, Arity
<1>2. \A ins : CilTakes(ins)' = CilTakes(ins)
  BY <1>1 DEF CilTakes
<1>3. \A h : EmptyAtTargets(h)' => EmptyAtTargets(h)
  BY <1>1 DEF EmptyAtTargets
<1>4. \A i : Successors(i)' = Successors(i)
  BY <1>1 DEF Successors
<1>5. ASSUME NEW h, h \in Heights' PROVE h \in Heights
  BY <1>1, <1>2, <1>4, <1>5 DEF Heights
<1> QED
  BY <1>1, <1>3, <1>5

(* What a body's heights say of each of its instructions.                  *)
LEMMA HeightFacts ==
  ASSUME method \in Methods, NEW h \in Heights, EmptyAtTargets(h)
  PROVE  /\ \A i \in 1 .. Len(Code) :
              /\ Code[i] \in CilInstr /\ Signed(Code[i])
              /\ HeightAt(h, i) = h[i] /\ h[i] \in Nat /\ CilTakes(Code[i]) <= h[i]
              /\ Code[i].op \notin LastOps =>
                   /\ i + 1 \in 1 .. Len(Code)
                   /\ HeightAt(h, i + 1) \in Nat
                   /\ HeightAt(h, i + 1) = h[i] - CilTakes(Code[i]) + CilGives(Code[i])
         /\ \A i \in Nat : HeightAt(h, i) \in Nat
         /\ HeightAt(h, 1) = 0
         /\ \A t \in SortedOffsets(Code) : h[t] = 0
<1>0. MaxHeight \in Nat
  BY MaxHeightAssumption
<1>1. /\ Len(Code) \in Nat /\ DOMAIN Code = 1 .. Len(Code)
      /\ Code # <<>> => Code[Len(Code)].op \in LastOps
      /\ \A i \in 1 .. Len(Code) : Code[i] \in CilInstr
  BY CodeFacts DEF WellFormedBody
<1>2. /\ h \in [DOMAIN Code -> 0 .. MaxHeight] /\ h[1] = 0
      /\ \A i \in DOMAIN Code :
           /\ h[i] >= CilTakes(Code[i])
           /\ \A s \in Successors(i) : h[s] = h[i] - CilTakes(Code[i]) + CilGives(Code[i])
  BY DEF Heights
<1>3. \A i \in 1 .. Len(Code) : HeightAt(h, i) = h[i] /\ h[i] \in Nat
  BY <1>0, <1>1, <1>2 DEF HeightAt
<1>4. \A i \in Nat : HeightAt(h, i) \in Nat
  BY <1>1, <1>3 DEF HeightAt
<1>5. HeightAt(h, 1) = 0
  BY <1>2 DEF HeightAt
<1>6. \A t \in SortedOffsets(Code) : h[t] = 0
  BY DEF EmptyAtTargets
<1>7. ASSUME NEW i \in 1 .. Len(Code) PROVE Signed(Code[i])
  <2>1. \A m \in Methods : \A j \in DOMAIN m.code :
          /\ m.code[j].op \in {"Call", "Callvirt"} => Signatures[m.code[j].n] \in [takes : Nat, gives : Nat]
          /\ m.code[j].op = "Newobj" => Signatures[m.code[j].n] = [takes |-> m.code[j].params + 1, gives |-> 0]
    BY SignaturesAssumption
  <2>2. Signatures[0] = [takes |-> 1, gives |-> 1]
    BY SignaturesAssumption
  <2>3. i \in DOMAIN method.code
    BY <1>1 DEF Code
  <2> DEFINE ins == method.code[i]
  <2>4. /\ ins.op \in {"Call", "Callvirt"} => Signatures[ins.n] \in [takes : Nat, gives : Nat]
        /\ ins.op = "Newobj" => Signatures[ins.n] = [takes |-> ins.params + 1, gives |-> 0]
    BY <2>1, <2>3
  <2>5. Code[i] = ins
    BY DEF Code
  <2> HIDE DEF ins
  <2> QED
    BY <2>2, <2>4, <2>5 DEF Signed
<1>8. ASSUME NEW i \in 1 .. Len(Code), Code[i].op \notin LastOps
      PROVE  /\ i + 1 \in 1 .. Len(Code)
             /\ HeightAt(h, i + 1) = h[i] - CilTakes(Code[i]) + CilGives(Code[i])
  <2>1. i # Len(Code)
    <3>1. CASE Code = <<>>
      <4>1. Len(Code) = 0
        BY <3>1
      <4> QED
        BY <4>1
    <3>2. CASE Code # <<>>
      <4>1. Code[Len(Code)].op \in LastOps
        BY <1>1, <3>2
      <4> QED
        BY <1>8, <4>1
    <3> QED
      BY <3>1, <3>2
  <2>2. i + 1 \in 1 .. Len(Code)
    <3> DEFINE n == Len(Code)
    <3>1. n \in Nat /\ i \in 1 .. n /\ i # n
      BY <1>1, <2>1
    <3> HIDE DEF n
    <3>2. i + 1 \in 1 .. n
      BY <3>1
    <3> QED
      BY <3>2 DEF n
  <2>3. i + 1 \in Successors(i)
    BY <1>8 DEF Successors, LastOps
  <2>4. h[i + 1] = h[i] - CilTakes(Code[i]) + CilGives(Code[i])
    BY <1>1, <1>2, <2>3
  <2> QED
    BY <1>3, <2>2, <2>4
<1>9. ASSUME NEW i \in 1 .. Len(Code) PROVE CilTakes(Code[i]) <= h[i]
  <2>1. CilTakes(Code[i]) \in Nat
    BY <1>1, <1>7, HeightTypes
  <2> QED
    BY <1>1, <1>2, <1>3, <2>1
<1> QED
  BY <1>1, <1>3, <1>4, <1>5, <1>6, <1>7, <1>8, <1>9

(* The end of a target's block: nothing is on the stack, for a branch may  *)
(* arrive there.                                                           *)
LEMMA ClosingValid ==
  ASSUME LandInv, phase = "body", il \in 1 .. Len(Code),
         NEW h \in Heights, EmptyAtTargets(h), Validating(h),
         NEW c, c = result \o ClosingEnd
  PROVE  c \in Seq(WasmInstr) /\ ValidAt(c, h[il], FramesLeft(ClosedHere))
<1>0. TypeInv /\ BuiltTo(result, jumpTargets, start, nextJumpTargetIndex, jumps, il - 1)
  BY DEF LandInv, BalanceInv
<1>1. /\ result \in Seq(WasmInstr) /\ nextJumpTargetIndex \in 0 .. Len(jumpTargets)
      /\ method \in Methods /\ Len(jumpTargets) \in Nat /\ il \in Nat
  BY <1>0, JumpTargetFacts DEF TypeInv, TypeOK
<1>2. ValidAt(result, h[il], FramesLeft(nextJumpTargetIndex))
  <2>1. HeightAt(h, il) = h[il]
    BY <1>1, HeightFacts
  <2> QED
    BY <2>1 DEF Validating
<1>3. CASE ~AtTarget
  <2>1. ClosingEnd = <<>> /\ ClosedHere = nextJumpTargetIndex
    BY <1>3 DEF ClosingEnd, ClosedHere
  <2>2. c = result
    BY <1>1, <2>1, ConcatEmptySeq
  <2> QED
    BY <1>1, <1>2, <2>1, <2>2
<1>4. CASE AtTarget
  <2> DEFINE k == nextJumpTargetIndex + 1
  <2>1. k \in 1 .. Len(jumpTargets) /\ il >= jumpTargets[k] /\ ClosingEnd = <<W("end")>> /\ ClosedHere = k
    BY <1>1, <1>4 DEF AtTarget, ClosingEnd, ClosedHere
  <2>2. jumpTargets[k] > il - 1 /\ jumpTargets[k] \in Nat
    <3>1. \A j \in nextJumpTargetIndex + 1 .. Len(jumpTargets) : jumpTargets[j] > il - 1
      BY <1>0 DEF BuiltTo
    <3>2. \A j \in 1 .. Len(jumpTargets) : jumpTargets[j] \in Nat
      BY <1>0, JumpTargetFacts, CodeFacts, <1>1
    <3> QED
      BY <1>1, <2>1, <3>1, <3>2
  <2>3. jumpTargets[k] = il
    BY <1>1, <2>1, <2>2
  <2>4. il \in SortedOffsets(Code)
    <3>1. \A x : x \in SortedOffsets(Code) <=> \E i \in 1 .. Len(jumpTargets) : jumpTargets[i] = x
      <4> DEFINE s == JumpTargetOffsets(Code)
      <4>1. WellFormedBody(Code) /\ jumpTargets = s
        BY <1>0, <1>1, CodeFacts DEF TypeInv
      <4>2. \A x : x \in SortedOffsets(Code) <=> \E i \in 1 .. Len(s) : s[i] = x
        BY <4>1, JumpTargetsSorted
      <4> HIDE DEF s
      <4> QED
        BY <4>1, <4>2
    <3> QED
      BY <2>1, <2>3, <3>1
  <2>5. h[il] = 0
    BY <1>1, <2>4, HeightFacts
  <2> DEFINE n == FramesLeft(nextJumpTargetIndex)
  <2>6. n \in Nat /\ n >= 2 /\ n - 1 = FramesLeft(k) /\ n - 1 \in Nat
    BY <1>1, <2>1 DEF FramesLeft
  <2> HIDE DEF k, n
  <2>7. PICK v : Leads(Begin, result, Arity, v) /\ Fits(v, 0, n)
    BY <1>2, <2>5 DEF ValidAt, n
  <2>8. Leads(v, <<W("end")>>, Arity, State(0, n - 1, 0))
    BY <2>6, <2>7, EndLeads
  <2> DEFINE e == <<W("end")>>
  <2>9. e \in Seq(WasmInstr)
    BY InstrTypes, EmittedOps
  <2>10. Leads(v, e, Arity, State(0, n - 1, 0)) /\ c = result \o e
    BY <2>1, <2>8
  <2> HIDE DEF e
  <2>11. Leads(Begin, result \o e, Arity, State(0, n - 1, 0)) /\ result \o e \in Seq(WasmInstr)
    BY <1>1, <2>7, <2>9, <2>10, LeadsOn
  <2>12. Fits(State(0, n - 1, 0), 0, n - 1)
    BY <2>6, StateFits
  <2>13. ValidAt(c, 0, n - 1)
    BY <2>10, <2>11, <2>12 DEF ValidAt
  <2> QED
    BY <2>1, <2>5, <2>6, <2>10, <2>11, <2>13
<1> QED
  BY <1>3, <1>4

(* A compiled instruction takes the invariant from its own height to the   *)
(* next one's.                                                             *)
LEMMA InstructionValid ==
  ASSUME LandInv, phase = "body", il \in 1 .. Len(Code),
         NEW h \in Heights, EmptyAtTargets(h), Validating(h),
         NEW code \in Seq(FlatInstr), BeginInstruction(code), UNCHANGED <<method, jumpTargets>>,
         NEW y, Moves(code, h[il], y, FramesLeft(ClosedHere), Arity)
  PROVE  ValidAt(result, y, FramesLeft(nextJumpTargetIndex))'
<1> DEFINE c == result \o ClosingEnd
<1>1. c \in Seq(WasmInstr) /\ ValidAt(c, h[il], FramesLeft(ClosedHere))
  BY ClosingValid
<1>2. result' = c \o code /\ nextJumpTargetIndex' = ClosedHere
  BY DEF BeginInstruction
<1>3. code \in Seq(WasmInstr)
  BY FlatIsCode
<1> HIDE DEF c
<1>4. ValidAt(c \o code, y, FramesLeft(ClosedHere))
  BY <1>1, <1>3, ValidOn
<1>5. Arity' = Arity /\ FramesLeft(nextJumpTargetIndex)' = FramesLeft(ClosedHere)
  BY <1>2, HeightsStay DEF FramesLeft
<1> QED
  BY <1>2, <1>4, <1>5 DEF ValidAt

(* Validation follows from a way through the code to the function's end.   *)
LEMMA LeadsValidate ==
  ASSUME NEW s \in Seq(WasmInstr), NEW arity, Leads(Begin, s, arity, State(0, 0, 0))
  PROVE  Validates(s, arity)
<1> DEFINE v == State(0, 0, 0)
<1>1. Checked(s, arity)[Len(s)] = v
  BY LeadsIsChecked
<1>2. v.ok /\ v.frames = Frames(0, 0)
  BY DEF State
<1>3. Frames(0, 0) = <<>>
  <2>1. 0 \in Nat /\ 0 \in 0 .. 1
    OBVIOUS
  <2>2. Frames(0, 0) \in Seq(FrameType) /\ Len(Frames(0, 0)) = 0
    BY <2>1, FramesType
  <2> QED
    BY <2>2, EmptySeq
<1> HIDE DEF v
<1> QED
  BY <1>1, <1>2, <1>3 DEF Validates

(* Nothing is compiled yet.                                                *)
LEMMA InitValid == Init => ValidInv
<1> SUFFICES ASSUME Init PROVE ValidInv
  OBVIOUS
<1>1. LandInv
  BY InitLands
<1>2. phase = "open" /\ \A h : Validating(h)
  BY DEF Init, Validating
<1> QED
  BY <1>1, <1>2 DEF ValidInv

(* Every step of Compile keeps the invariant.                              *)
LEMMA StepValid == ValidInv /\ [Compile]_compilerVars => ValidInv'
<1> SUFFICES ASSUME ValidInv, [Compile]_compilerVars
             PROVE  ValidInv'
  OBVIOUS
<1>1. LandInv /\ LandInv' /\ TypeInv
  BY StepLands DEF ValidInv, LandInv, BalanceInv
<1>0. phase = "switch" => Code[il].op = "Switch"
  BY DEF ValidInv
<1>2. UNCHANGED <<method, jumpTargets>>
  BY DEF Compile, OpenBlocks, CompileStraightInstruction, CompileBranch, BeginSwitch,
         CompileSwitchItem, EndSwitch, RejectInstruction, CloseBlocks, compilerVars
<1>3. /\ Code' = Code /\ Arity' = Arity
      /\ \A h : h \in Heights' => h \in Heights
      /\ \A h : EmptyAtTargets(h)' => EmptyAtTargets(h)
  BY <1>2, HeightsStay
<1>4. /\ method \in Methods /\ result \in Seq(WasmInstr) /\ result' \in Seq(WasmInstr) /\ il \in Nat /\ il <= Len(Code) + 1
      /\ Len(Code) \in Nat /\ DOMAIN Code = 1 .. Len(Code) /\ method.returns \in BOOLEAN
      /\ nextJumpTargetIndex \in 0 .. Len(jumpTargets) /\ Len(jumpTargets) \in Nat /\ Arity \in Nat
      /\ il >= 1 /\ ClosedHere \in 0 .. Len(jumpTargets)
  <2>1. TypeInv'
    BY <1>1 DEF LandInv, BalanceInv
  <2>2. result' \in Seq(WasmInstr)
    BY <2>1 DEF TypeInv, TypeOK
  <2>3. /\ method \in Methods /\ result \in Seq(WasmInstr) /\ il \in 1 .. Len(Code) + 1
        /\ nextJumpTargetIndex \in 0 .. Len(jumpTargets)
    BY <1>1 DEF TypeInv, TypeOK
  <2>4. Len(Code) \in Nat /\ DOMAIN Code = 1 .. Len(Code) /\ Len(jumpTargets) \in Nat
    BY <1>1, <2>3, CodeFacts, JumpTargetFacts
  <2>5. method.returns \in BOOLEAN
    BY <2>3, MethodsAssumption
  <2>6. ClosedHere \in 0 .. Len(jumpTargets)
    BY <2>3, <2>4 DEF ClosedHere, AtTarget
  <2> QED
    BY <2>2, <2>3, <2>4, <2>5, <2>6 DEF Arity
<1>5. ASSUME NEW h \in Heights, EmptyAtTargets(h), Validating(h)
      PROVE  Validating(h)'
  <2>1. /\ \A i \in 1 .. Len(Code) :
             /\ Code[i] \in CilInstr /\ Signed(Code[i])
             /\ HeightAt(h, i) = h[i] /\ h[i] \in Nat /\ CilTakes(Code[i]) <= h[i]
             /\ Code[i].op \notin LastOps =>
                  /\ i + 1 \in 1 .. Len(Code)
                  /\ HeightAt(h, i + 1) \in Nat
                  /\ HeightAt(h, i + 1) = h[i] - CilTakes(Code[i]) + CilGives(Code[i])
        /\ \A i \in Nat : HeightAt(h, i) \in Nat
        /\ HeightAt(h, 1) = 0
    BY <1>4, <1>5, HeightFacts
  <2>2. \A i : HeightAt(h, i)' = IF i' \in DOMAIN Code THEN h[i'] ELSE 0
    BY <1>3 DEF HeightAt
  <2> DEFINE z == HeightAt(h, il + 1)
  <2>3. z \in Nat /\ (il' = il + 1 => HeightAt(h, il)' = z)
    BY <1>3, <1>4, <2>1 DEF HeightAt
  <2>4. (il' = il => HeightAt(h, il)' = HeightAt(h, il))
    BY <1>3 DEF HeightAt
  <2>9. PICK y \in Nat : y = HeightAt(h, il + 1) /\ (il' = il + 1 => HeightAt(h, il)' = y)
    BY <2>3
  <2>5. CASE OpenBlocks
    <3>1. phase = "open" /\ il = 1 /\ il' = 1 /\ nextJumpTargetIndex' = 0
      BY <1>1, <2>5 DEF OpenBlocks, LandInv
    <3>2. CASE Code = <<>>
      BY <1>3, <2>5, <3>2 DEF OpenBlocks, Validating
    <3>3. CASE Code # <<>>
      <4>1. result' = Prologue(Len(jumpTargets)) /\ phase' = "body"
        BY <2>5, <3>3 DEF OpenBlocks
      <4> DEFINE n == Len(jumpTargets)
      <4>2. FramesLeft(nextJumpTargetIndex)' = n + 2 /\ n \in Nat /\ n + 2 \in Nat /\ 0 \in Nat
        BY <1>2, <1>4, <3>1 DEF FramesLeft
      <4>3. HeightAt(h, il)' = 0
        BY <2>1, <2>4, <3>1
      <4>4. Leads(Begin, Prologue(n), Arity, State(0, n + 2, 0))
        BY <1>4, PrologueLeads
      <4>5. Fits(State(0, n + 2, 0), 0, n + 2)
        BY <4>2, StateFits
      <4> HIDE DEF n
      <4>6. ValidAt(Prologue(n), 0, n + 2)
        BY <4>4, <4>5 DEF ValidAt
      <4>7. ValidAt(result, HeightAt(h, il), FramesLeft(nextJumpTargetIndex))'
        BY <1>3, <4>1, <4>2, <4>3, <4>6 DEF ValidAt, n
      <4> QED
        BY <4>1, <4>7 DEF Validating
    <3> QED
      BY <3>2, <3>3
  <2>6. CASE CompileStraightInstruction
    <3> DEFINE ins == Code[il]
               code == CompileStraight(ins)
    <3>1. /\ phase = "body" /\ il \in 1 .. Len(Code) /\ il' = il + 1 /\ phase' = "body"
          /\ ins.op \in StraightOps /\ BeginInstruction(code)
      BY <1>4, <2>6 DEF CompileStraightInstruction, InBody
    <3>2. /\ ins \in CilInstr /\ Signed(ins) /\ h[il] \in Nat /\ CilTakes(ins) <= h[il]
          /\ ins.op \notin LastOps => y = h[il] - CilTakes(ins) + CilGives(ins)
      BY <2>1, <2>9, <3>1
    <3>3. ins.op # "Ret" => ins.op \notin LastOps
      BY <3>1 DEF StraightOps, SimpleOps, LastOps, UnconditionalBranches
    <3>4. FramesLeft(ClosedHere) \in Nat \ {0}
      BY <1>4 DEF FramesLeft
    <3>5. Moves(code, h[il], y, FramesLeft(ClosedHere), Arity)
      <4> HIDE DEF ins
      <4> QED
        BY <2>9, <3>1, <3>2, <3>3, <3>4, StraightMoves
    <3>6. code \in Seq(FlatInstr)
      <4> HIDE DEF ins
      <4> QED
        BY <3>1, <3>2, StraightType
    <3> HIDE DEF code
    <3>7. ValidAt(result, y, FramesLeft(nextJumpTargetIndex))'
      BY <1>1, <1>2, <1>5, <3>1, <3>5, <3>6, InstructionValid
    <3>8. HeightAt(h, il)' = y
      BY <2>9, <3>1
    <3>9. ValidAt(result, HeightAt(h, il), FramesLeft(nextJumpTargetIndex))'
      BY <3>7, <3>8 DEF ValidAt
    <3> QED
      BY <3>1, <3>9 DEF Validating
  <2>7. CASE CompileBranch
    <3> DEFINE ins  == Code[il]
               t    == ins.targets[1]
               code == JumpSetup(t, ClosedHere) \o BranchTests[ins.op] \o <<WN(BranchOp(ins.op), BreakDepth(t, ClosedHere))>>
    <3>1. /\ phase = "body" /\ il \in 1 .. Len(Code) /\ il' = il + 1 /\ phase' = "body"
          /\ ins.op \in DOMAIN BranchTests /\ BeginInstruction(code)
      BY <1>4, <2>7 DEF CompileBranch, InBody
    <3>2. /\ ins \in CilInstr /\ Signed(ins) /\ h[il] \in Nat /\ CilTakes(ins) <= h[il]
          /\ ins.op \notin LastOps => y = h[il] - CilTakes(ins) + CilGives(ins)
      BY <2>1, <2>9, <3>1
    <3>3. ins.op # "Br_S" => ins.op \notin LastOps
      BY <3>1 DEF BranchTests, LastOps, UnconditionalBranches
    <3>4. t \in SortedOffsets(Code)
      <4>1. ins.op \in Branches
        BY <3>1 DEF BranchTests, Branches, UnconditionalBranches, ConditionalBranches
      <4>2. Len(ins.targets) = 1 /\ \A j \in 1 .. Len(ins.targets) : ins.targets[j] \in SortedOffsets(Code)
        BY <1>4, <3>1, <4>1, CodeFacts
      <4> HIDE DEF ins
      <4> QED
        BY <4>2
    <3>5. CilTakes(ins) \in Nat /\ CilGives(ins) = 0
      <4>1. CilGives(ins) = 0
        BY <3>1 DEF CilGives, BranchTests
      <4> HIDE DEF ins
      <4> QED
        BY <3>2, <4>1, HeightTypes
    <3>6. ins.op # "Br_S" => y = h[il] - CilTakes(ins)
      <4> HIDE DEF ins
      <4> QED
        BY <3>2, <3>3, <3>5
    <3> HIDE DEF ins, t
    <3>7. Moves(code, h[il], y, FramesLeft(ClosedHere), Arity)
      BY <1>1, <1>4, <2>9, <3>1, <3>2, <3>4, <3>6, BranchMoves
    <3>8. code \in Seq(FlatInstr)
      BY <1>1, <1>4, <3>1, <3>4, BranchCodeType
    <3> HIDE DEF code
    <3>9. ValidAt(result, y, FramesLeft(nextJumpTargetIndex))'
      BY <1>1, <1>2, <1>5, <3>1, <3>7, <3>8, InstructionValid
    <3>10. HeightAt(h, il)' = y
      BY <2>9, <3>1
    <3>11. ValidAt(result, HeightAt(h, il), FramesLeft(nextJumpTargetIndex))'
      BY <3>9, <3>10 DEF ValidAt
    <3> QED
      BY <3>1, <3>11 DEF Validating
  <2>8. CASE BeginSwitch
    <3> DEFINE ins  == Code[il]
               code == <<SetLocal("switchValue", 0)>>
    <3>1. /\ phase = "body" /\ il \in 1 .. Len(Code) /\ il' = il /\ phase' = "switch"
          /\ ins.op = "Switch" /\ BeginInstruction(code)
      BY <1>4, <2>8 DEF BeginSwitch, InBody
    <3>2. CilTakes(ins) = 1 /\ h[il] \in Nat /\ CilTakes(ins) <= h[il] /\ HeightAt(h, il) = h[il]
      BY <2>1, <3>1 DEF CilTakes
    <3>3. PICK x \in Nat : x = HeightAt(h, il) - 1 /\ h[il] = x + 1
      BY <3>2
    <3>4. FramesLeft(ClosedHere) \in Nat \ {0}
      BY <1>4 DEF FramesLeft
    <3>5. Moves(code, h[il], x, FramesLeft(ClosedHere), Arity)
      <4>1. Plain(SetLocal("switchValue", 0), FramesLeft(ClosedHere)) /\ Takes(SetLocal("switchValue", 0)) = 1 /\ Gives(SetLocal("switchValue", 0)) = 0
        BY <3>4, PlainOps
      <4>2. h[il] \in Nat /\ 1 <= h[il] /\ x = h[il] - 1 + 0
        BY <3>2, <3>3
      <4> QED
        BY <3>4, <4>1, <4>2, PlainMoves
    <3>6. code \in Seq(FlatInstr)
      BY InstrTypes, EmittedOps
    <3> HIDE DEF code
    <3>7. ValidAt(result, x, FramesLeft(nextJumpTargetIndex))'
      BY <1>1, <1>2, <1>5, <3>1, <3>5, <3>6, InstructionValid
    <3>8. (HeightAt(h, il) - 1)' = x
      BY <2>4, <3>1, <3>3
    <3>9. ValidAt(result, HeightAt(h, il) - 1, FramesLeft(nextJumpTargetIndex))'
      BY <3>7, <3>8 DEF ValidAt
    <3> QED
      BY <3>1, <3>9 DEF Validating
  <2>10. ASSUME phase = "switch"
         PROVE  /\ il \in 1 .. Len(Code) /\ Code[il].op = "Switch"
                /\ \E x \in Nat : /\ x = HeightAt(h, il) - 1
                                  /\ ValidAt(result, x, FramesLeft(nextJumpTargetIndex))
                                  /\ y = x
    <3>1. il \in 1 .. Len(Code) /\ Code[il].op = "Switch"
      <4>1. il <= Len(Code) /\ il \in 1 .. Len(Code) + 1
        BY <1>1, <2>10 DEF TypeInv, TypeOK
      <4> QED
        BY <1>0, <1>4, <2>10, <4>1
    <3>2. CilTakes(Code[il]) = 1 /\ CilGives(Code[il]) = 0 /\ Code[il].op \notin LastOps
      BY <3>1 DEF CilTakes, CilGives, LastOps, UnconditionalBranches
    <3>3. h[il] \in Nat /\ 1 <= h[il] /\ HeightAt(h, il) = h[il] /\ y = h[il] - 1
      <4>1. /\ HeightAt(h, il) = h[il] /\ h[il] \in Nat /\ CilTakes(Code[il]) <= h[il]
            /\ HeightAt(h, il + 1) = h[il] - CilTakes(Code[il]) + CilGives(Code[il])
        BY <2>1, <3>1, <3>2
      <4>2. HeightAt(h, il + 1) = h[il] - 1 + 0 /\ 1 <= h[il]
        BY <3>2, <4>1
      <4> QED
        BY <2>9, <4>1, <4>2
    <3>4. ValidAt(result, HeightAt(h, il) - 1, FramesLeft(nextJumpTargetIndex))
      BY <1>5, <2>10 DEF Validating
    <3> QED
      BY <3>1, <3>3, <3>4
  <2>11. CASE CompileSwitchItem
    <3> DEFINE t    == Code[il].targets[item + 1]
               code == <<GetLocal("switchValue", 0), Const(item), W("i32.eq")>> \o JumpSetup(t, nextJumpTargetIndex)
                         \o <<WN("br_if", BreakDepth(t, nextJumpTargetIndex))>>
    <3>1. /\ phase = "switch" /\ phase' = "switch" /\ il' = il /\ nextJumpTargetIndex' = nextJumpTargetIndex
          /\ item < Len(Code[il].targets) /\ result' = result \o code
      BY <2>11 DEF CompileSwitchItem
    <3>2. il \in 1 .. Len(Code) /\ \E x \in Nat : x = HeightAt(h, il) - 1 /\ ValidAt(result, x, FramesLeft(nextJumpTargetIndex))
      BY <2>10, <3>1
    <3>3. PICK x \in Nat : x = HeightAt(h, il) - 1 /\ ValidAt(result, x, FramesLeft(nextJumpTargetIndex))
      BY <3>2
    <3>4. item \in Nat /\ t \in SortedOffsets(Code)
      <4>1. item \in Nat
        BY <1>1 DEF TypeInv, TypeOK
      <4>2. Code[il] \in CilInstr /\ \A j \in 1 .. Len(Code[il].targets) : Code[il].targets[j] \in SortedOffsets(Code)
        BY <1>4, <3>2, CodeFacts
      <4>3. Len(Code[il].targets) \in Nat
        BY <4>2 DEF CilInstr
      <4> QED
        BY <3>1, <4>1, <4>2, <4>3
    <3> HIDE DEF t
    <3>5. Moves(code, x, x, FramesLeft(nextJumpTargetIndex), Arity)
      BY <1>1, <1>4, <3>4, ItemMoves
    <3>6. code \in Seq(WasmInstr)
      <4>1. JumpCode(code, t, nextJumpTargetIndex)
        BY <1>1, <1>4, <3>4, ItemIsJumpCode
      <4>2. code \in Seq(FlatInstr)
        BY <4>1 DEF JumpCode
      <4> QED
        BY <4>2, FlatIsCode
    <3> HIDE DEF code
    <3>7. ValidAt(result \o code, x, FramesLeft(nextJumpTargetIndex))
      BY <1>4, <3>3, <3>5, <3>6, ValidOn
    <3>8. (HeightAt(h, il) - 1)' = x /\ FramesLeft(nextJumpTargetIndex)' = FramesLeft(nextJumpTargetIndex)
      BY <1>2, <2>4, <3>1, <3>3 DEF FramesLeft
    <3>9. ValidAt(result, HeightAt(h, il) - 1, FramesLeft(nextJumpTargetIndex))'
      BY <1>3, <3>1, <3>7, <3>8 DEF ValidAt
    <3> QED
      BY <3>1, <3>9 DEF Validating
  <2>12. CASE EndSwitch
    <3>1. /\ phase = "switch" /\ phase' = "body" /\ il' = il + 1
          /\ nextJumpTargetIndex' = nextJumpTargetIndex /\ result' = result
      BY <2>12 DEF EndSwitch
    <3>2. ValidAt(result, y, FramesLeft(nextJumpTargetIndex))
      BY <2>10, <3>1
    <3>3. HeightAt(h, il)' = y /\ FramesLeft(nextJumpTargetIndex)' = FramesLeft(nextJumpTargetIndex)
      BY <1>2, <2>9, <3>1 DEF FramesLeft
    <3>4. ValidAt(result, HeightAt(h, il), FramesLeft(nextJumpTargetIndex))'
      BY <1>3, <3>1, <3>2, <3>3 DEF ValidAt
    <3> QED
      BY <3>1, <3>4 DEF Validating
  <2>13. CASE RejectInstruction
    BY <2>13 DEF RejectInstruction, Validating
  <2>14. CASE CloseBlocks
    <3>1. /\ phase = "body" /\ phase' = "done" /\ il = Len(Code) + 1
          /\ result' = result \o Epilogue(Len(jumpTargets) - nextJumpTargetIndex, method.returns)
      BY <1>4, <2>14 DEF CloseBlocks
    <3>2. Len(jumpTargets) - nextJumpTargetIndex = 0
      <4>1. \A k \in nextJumpTargetIndex + 1 .. Len(jumpTargets) : jumpTargets[k] > il - 1
        BY <1>1, <3>1 DEF LandInv, BuiltTo
      <4>2. \A k \in 1 .. Len(jumpTargets) : jumpTargets[k] \in 1 .. Len(Code)
        BY <1>1, JumpTargetFacts
      <4>3. CASE nextJumpTargetIndex < Len(jumpTargets)
        <5> DEFINE k == Len(jumpTargets)
        <5>1. k \in nextJumpTargetIndex + 1 .. Len(jumpTargets) /\ k \in 1 .. Len(jumpTargets)
          BY <1>4, <4>3
        <5>2. jumpTargets[k] > il - 1 /\ jumpTargets[k] \in 1 .. Len(Code)
          BY <4>1, <4>2, <5>1
        <5> HIDE DEF k
        <5> QED
          BY <1>4, <3>1, <5>2
      <4> QED
        BY <1>4, <4>3
    <3>3. HeightAt(h, il) = 0 /\ FramesLeft(nextJumpTargetIndex) = 2
      BY <1>4, <3>1, <3>2 DEF HeightAt, FramesLeft
    <3>4. PICK v : Leads(Begin, result, Arity, v) /\ Fits(v, 0, 2)
      BY <1>5, <3>1, <3>3 DEF Validating, ValidAt
    <3> DEFINE e == Epilogue(0, method.returns)
    <3>5. Leads(v, e, Arity, State(0, 0, 0))
      <4> DEFINE returns == method.returns
                 arity == Arity
      <4>1. returns \in BOOLEAN /\ arity = IF returns THEN 1 ELSE 0
        BY <1>4 DEF Arity
      <4> HIDE DEF returns, arity
      <4>2. Leads(v, Epilogue(0, returns), arity, State(0, 0, 0))
        <5> SUFFICES ASSUME NEW r, r = returns, NEW a, a = arity
                     PROVE  Leads(v, Epilogue(0, r), a, State(0, 0, 0))
          OBVIOUS
        <5>1. r \in BOOLEAN /\ a = IF r THEN 1 ELSE 0
          BY <4>1
        <5> QED
          BY <3>4, <5>1, EpilogueLeads
      <4> QED
        BY <4>2 DEF returns, arity
    <3>6. e \in Seq(WasmInstr) /\ result' = result \o e
      <4>1. 0 \in Nat
        OBVIOUS
      <4> QED
        BY <1>4, <3>1, <3>2, <4>1, EpilogueType
    <3> HIDE DEF e
    <3>7. Leads(Begin, result \o e, Arity, State(0, 0, 0))
      BY <1>4, <3>4, <3>5, <3>6, LeadsOn
    <3>8. Validates(result', Arity)
      BY <1>4, <3>6, <3>7, LeadsValidate
    <3>9. Validates(result, Arity)'
      BY <1>3, <3>8 DEF Validates
    <3> QED
      BY <3>1, <3>9 DEF Validating
  <2>15. CASE UNCHANGED compilerVars
    BY <1>3, <1>5, <2>15 DEF compilerVars, Validating, ValidAt, HeightAt, FramesLeft, Validates
  <2> QED
    BY <2>5, <2>6, <2>7, <2>8, <2>11, <2>12, <2>13, <2>14, <2>15 DEF Compile
<1>6. (phase = "switch" => Code[il].op = "Switch")'
  BY <1>0, <1>3 DEF Compile, OpenBlocks, CompileStraightInstruction, CompileBranch, BeginSwitch,
       CompileSwitchItem, EndSwitch, RejectInstruction, CloseBlocks, compilerVars, InBody, CannotCompile
<1> QED
  BY <1>1, <1>3, <1>5, <1>6 DEF ValidInv

(* A verifiable body that keeps nothing on its evaluation stack where a    *)
(* branch arrives is compiled to a function the engine's validation        *)
(* accepts: Compile's blocks, its replay of arguments and its fake result  *)
(* never upset the operand stack.                                          *)
THEOREM StatementsAlwaysValidate == CompilerSpec => []StatementsValidate
<1>1. ValidInv => StatementsValidate
  BY DEF ValidInv, Validating, StatementsValidate
<1>2. CompilerSpec => []ValidInv
  BY InitValid, StepValid, PTL DEF CompilerSpec
<1> QED
  BY <1>1, <1>2, PTL
=============================================================================
